-------------------------- MODULE TargetHooksProofs --------------------------
(* What holds of TargetHooks for any targets and whatever a project          *)
(* contributes.                                                              *)
EXTENDS TargetHooks, SequenceTheorems, TLAPS

Sides == {"runner", "project"}
Ids == {"metro.start", "metro.ready", "android.launch-1", "android.instrument-start",
        "android.instrument-ready", "android.launch-2", "ios.port-forward", "ios.companion-start",
        "ios.companion-ready", "ios.terminate-before-launch", "ios.launch"} \cup Places
HookSteps == [id : Ids, does : {"run", "start", "probe"},
              key : ProcessKeys \cup {"none"}, by : Sides]

StartsProcess(s) == s.does = "start"
Own(s) == s.by = "runner" /\ s.does = "start"

(* A plan with the project's steps: what it starts has a key, what the       *)
(* runner starts has one of its own and is ended in the cleanup.             *)
GoodPlan(plan, target) ==
  /\ plan \in Seq(HookSteps) /\ plan # <<>>
  /\ \A n \in 1 .. Len(plan) : plan[n].does = "start" => plan[n].key \in ProcessKeys
  /\ \A m, n \in 1 .. Len(plan) :
       m # n /\ Own(plan[m]) /\ Own(plan[n]) => plan[m].key # plan[n].key
  /\ \A n \in 1 .. Len(plan) : Own(plan[n]) =>
       /\ \E i \in 1 .. Len(KilledKeys(target)) : KilledKeys(target)[i] = plan[n].key
       /\ plan[n].key = "metro" => plan[n].id = "metro.start"

Contributes(s) ==
  /\ s \in Seq(HookSteps)
  /\ \A n \in 1 .. Len(s) : s[n].by = "project" /\ s[n].key \in ProcessKeys

LEMMA InsertedAt ==
  ASSUME NEW S, NEW plan \in Seq(S), NEW n \in 0 .. Len(plan), NEW inserted \in Seq(S)
  PROVE  LET r == InsertAfterIndex(plan, n, inserted)
         IN /\ r \in Seq(S)
            /\ Len(r) = Len(plan) + Len(inserted)
            /\ \A i \in 1 .. Len(r) :
                 r[i] = IF i <= n THEN plan[i]
                        ELSE IF i <= n + Len(inserted) THEN inserted[i - n]
                        ELSE plan[i - Len(inserted)]
<1> DEFINE a == SubSeq(plan, 1, n)
           b == SubSeq(plan, n + 1, Len(plan))
<1> Len(plan) \in Nat /\ Len(inserted) \in Nat
  OBVIOUS
<1>1. a \in Seq(S) /\ Len(a) = n /\ \A i \in 1 .. n : a[i] = plan[i]
  <2>1. n - 0 = n /\ 1 \in 1 .. Len(plan) + 1 /\ n \in 1 - 1 .. Len(plan)
    OBVIOUS
  <2> QED BY <2>1, SubSeqProperties
<1>2. b \in Seq(S) /\ Len(b) = Len(plan) - n /\ \A i \in 1 .. Len(plan) - n : b[i] = plan[i + n]
  <2>1. n + 1 \in 1 .. Len(plan) + 1 /\ Len(plan) \in n + 1 - 1 .. Len(plan)
    OBVIOUS
  <2>2. b \in Seq(S)
    BY <2>1, SubSeqProperties
  <2>3. Len(b) = Len(plan) - (n + 1) + 1
    BY <2>1, SubSeqProperties
  <2>4. \A i \in 1 .. Len(plan) - (n + 1) + 1 : b[i] = plan[n + 1 + i - 1]
    BY <2>1, SubSeqProperties
  <2>5. Len(plan) - (n + 1) + 1 = Len(plan) - n
    OBVIOUS
  <2>6. ASSUME NEW i \in 1 .. Len(plan) - n PROVE b[i] = plan[i + n]
    <3>1. n + 1 + i - 1 = i + n
      OBVIOUS
    <3> HIDE DEF b
    <3> QED BY <2>4, <2>5, <3>1
  <2> HIDE DEF b
  <2> QED BY <2>2, <2>3, <2>5, <2>6
<1> HIDE DEF a, b
<1> DEFINE c == a \o inserted
           d == c \o b
<1>3. /\ c \in Seq(S) /\ Len(c) = Len(a) + Len(inserted)
      /\ \A i \in 1 .. Len(a) + Len(inserted) :
           c[i] = IF i <= Len(a) THEN a[i] ELSE inserted[i - Len(a)]
  <2>1. a \in Seq(S) /\ inserted \in Seq(S)
    BY <1>1
  <2> QED BY <2>1, ConcatProperties, Zenon
<1> HIDE DEF c
<1>4. /\ d \in Seq(S) /\ Len(d) = Len(c) + Len(b)
      /\ \A i \in 1 .. Len(c) + Len(b) : d[i] = IF i <= Len(c) THEN c[i] ELSE b[i - Len(c)]
  <2>1. c \in Seq(S) /\ b \in Seq(S)
    BY <1>2, <1>3
  <2> QED BY <2>1, ConcatProperties, Zenon
<1> HIDE DEF d
<1>5. InsertAfterIndex(plan, n, inserted) = d
  BY DEF InsertAfterIndex, a, b, c, d
<1>6. Len(d) = Len(plan) + Len(inserted)
  BY <1>1, <1>2, <1>3, <1>4
<1>7. ASSUME NEW i \in 1 .. Len(d)
      PROVE  d[i] = IF i <= n THEN plan[i]
                    ELSE IF i <= n + Len(inserted) THEN inserted[i - n]
                    ELSE plan[i - Len(inserted)]
  <2>1. CASE i <= n
    BY <1>1, <1>3, <1>4, <2>1
  <2>2. CASE i > n /\ i <= n + Len(inserted)
    BY <1>1, <1>3, <1>4, <2>2
  <2>3. CASE i > n + Len(inserted)
    <3> DEFINE j == i - (n + Len(inserted))
    <3>1. j \in 1 .. Len(plan) - n /\ j + n = i - Len(inserted)
      BY <1>6, <2>3
    <3>2. d[i] = b[j]
      BY <1>1, <1>2, <1>3, <1>4, <1>6, <2>3
    <3> HIDE DEF j
    <3>3. b[j] = plan[i - Len(inserted)]
      BY <1>2, <3>1
    <3> QED BY <2>3, <3>2, <3>3
  <2> QED BY <2>1, <2>2, <2>3
<1> QED BY <1>4, <1>5, <1>6, <1>7

LEMMA InsertGood ==
  ASSUME NEW target, NEW plan, NEW n \in 0 .. Len(plan), NEW inserted,
         GoodPlan(plan, target), Contributes(inserted)
  PROVE  /\ GoodPlan(InsertAfterIndex(plan, n, inserted), target)
         /\ \A id : HasStep(plan, id) => HasStep(InsertAfterIndex(plan, n, inserted), id)
<1> DEFINE r == InsertAfterIndex(plan, n, inserted)
<1>1. /\ plan \in Seq(HookSteps) /\ inserted \in Seq(HookSteps)
      /\ Len(plan) \in Nat /\ Len(inserted) \in Nat
  BY DEF GoodPlan, Contributes
<1>2. /\ r \in Seq(HookSteps)
      /\ Len(r) = Len(plan) + Len(inserted)
      /\ \A i \in 1 .. Len(r) :
           r[i] = IF i <= n THEN plan[i]
                  ELSE IF i <= n + Len(inserted) THEN inserted[i - n]
                  ELSE plan[i - Len(inserted)]
  BY <1>1, InsertedAt
<1> HIDE DEF r
<1> DEFINE from(i) == IF i <= n THEN i ELSE i - Len(inserted)
<1>3. ASSUME NEW i \in 1 .. Len(r), r[i].by = "runner"
      PROVE  from(i) \in 1 .. Len(plan) /\ r[i] = plan[from(i)] /\ (i <= n \/ i > n + Len(inserted))
  <2>1. CASE i <= n
    BY <1>1, <1>2, <2>1
  <2>2. CASE i > n /\ i <= n + Len(inserted)
    <3>1. i - n \in 1 .. Len(inserted) /\ r[i] = inserted[i - n]
      BY <1>1, <1>2, <2>2
    <3> QED BY <1>3, <3>1 DEF Contributes
  <2>3. CASE i > n + Len(inserted)
    <3>1. i - Len(inserted) \in 1 .. Len(plan)
      BY <1>1, <1>2, <2>3
    <3>2. r[i] = plan[i - Len(inserted)] /\ ~(i <= n)
      BY <1>1, <1>2, <2>3
    <3> QED BY <2>3, <3>1, <3>2
  <2> QED BY <1>1, <2>1, <2>2, <2>3
<1>4. r # <<>>
  BY <1>1, <1>2 DEF GoodPlan
<1>5. ASSUME NEW i \in 1 .. Len(r), r[i].does = "start" PROVE r[i].key \in ProcessKeys
  <2>1. CASE i <= n
    BY <1>1, <1>2, <1>5, <2>1 DEF GoodPlan
  <2>2. CASE i > n /\ i <= n + Len(inserted)
    BY <1>1, <1>2, <2>2 DEF Contributes
  <2>3. CASE i > n + Len(inserted)
    <3>1. i - Len(inserted) \in 1 .. Len(plan)
      BY <1>1, <1>2, <2>3
    <3>2. r[i] = plan[i - Len(inserted)]
      BY <1>1, <1>2, <2>3
    <3> QED BY <1>5, <3>1, <3>2 DEF GoodPlan
  <2> QED BY <1>1, <2>1, <2>2, <2>3
<1>6. ASSUME NEW i \in 1 .. Len(r), NEW j \in 1 .. Len(r), i # j, Own(r[i]), Own(r[j])
      PROVE  r[i].key # r[j].key
  <2>1. from(i) \in 1 .. Len(plan) /\ from(j) \in 1 .. Len(plan) /\ from(i) # from(j)
        /\ r[i] = plan[from(i)] /\ r[j] = plan[from(j)]
    BY <1>1, <1>3, <1>6 DEF Own
  <2> HIDE DEF from
  <2> QED BY <1>6, <2>1 DEF GoodPlan
<1>7. ASSUME NEW i \in 1 .. Len(r), Own(r[i])
      PROVE  /\ \E k \in 1 .. Len(KilledKeys(target)) : KilledKeys(target)[k] = r[i].key
             /\ r[i].key = "metro" => r[i].id = "metro.start"
  <2>1. from(i) \in 1 .. Len(plan) /\ r[i] = plan[from(i)]
    BY <1>3, <1>7 DEF Own
  <2> HIDE DEF from
  <2> QED BY <1>7, <2>1 DEF GoodPlan
<1>8. ASSUME NEW id, HasStep(plan, id) PROVE HasStep(r, id)
  <2>1. PICK m \in 1 .. Len(plan) : plan[m].id = id
    BY <1>8 DEF HasStep
  <2>2. CASE m <= n
    BY <1>1, <1>2, <2>1, <2>2 DEF HasStep
  <2>3. CASE m > n
    <3> DEFINE j == m + Len(inserted)
    <3>1. j \in 1 .. Len(r) /\ ~(j <= n) /\ ~(j <= n + Len(inserted)) /\ j - Len(inserted) = m
      BY <1>1, <1>2, <2>1, <2>3
    <3> HIDE DEF j
    <3>2. r[j] = plan[j - Len(inserted)]
      BY <1>2, <3>1, Zenon
    <3> QED BY <2>1, <3>1, <3>2 DEF HasStep
  <2> QED BY <1>1, <2>2, <2>3
<1> QED BY <1>2, <1>4, <1>5, <1>6, <1>7, <1>8 DEF GoodPlan, r

LEMMA PlansGood ==
  ASSUME NEW target \in TargetKinds
  PROVE  /\ GoodPlan(PlanOf(target), target)
         /\ HasStep(PlanOf(target), "metro.start") /\ HasStep(PlanOf(target), "metro.ready")
         /\ target = "android" => HasStep(PlanOf(target), "android.launch-1")
         /\ target # "android" => HasStep(PlanOf(target), "ios.companion-start")
<1> DEFINE p == PlanOf(target)
<1> USE DEF PlanStep, Foreground, MetroStart, MetroReady, PortForward, CompanionStart, CompanionReady
<1>1. CASE target = "android"
  <2>1. p = << [id |-> "metro.start", does |-> "start", key |-> "metro", by |-> "runner"],
               [id |-> "metro.ready", does |-> "probe", key |-> "metro", by |-> "runner"],
               [id |-> "android.launch-1", does |-> "run", key |-> "none", by |-> "runner"],
               [id |-> "android.instrument-start", does |-> "start", key |-> "companion", by |-> "runner"],
               [id |-> "android.instrument-ready", does |-> "probe", key |-> "companion", by |-> "runner"],
               [id |-> "android.launch-2", does |-> "run", key |-> "none", by |-> "runner"] >>
    BY <1>1 DEF PlanOf
  <2>2. KilledKeys(target) = <<"companion", "metro">>
    BY <1>1 DEF KilledKeys
  <2> HIDE DEF p
  <2>3. p \in Seq(HookSteps) /\ p # <<>>
    <3>1. Len(p) = 6 /\ p = [n \in 1 .. 6 |-> p[n]]
      BY <2>1
    <3>2. \A n \in 1 .. 6 : p[n] \in HookSteps
      BY <2>1 DEF HookSteps, Ids, Sides, ProcessKeys
    <3> QED BY <3>1, <3>2
  <2>4. \A n \in 1 .. Len(p) : p[n].does = "start" => p[n].key \in ProcessKeys
    BY <2>1 DEF ProcessKeys
  <2>5. \A m, n \in 1 .. Len(p) : m # n /\ Own(p[m]) /\ Own(p[n]) => p[m].key # p[n].key
    BY <2>1 DEF Own
  <2>6. \A n \in 1 .. Len(p) : Own(p[n]) =>
       /\ \E i \in 1 .. Len(KilledKeys(target)) : KilledKeys(target)[i] = p[n].key
       /\ p[n].key = "metro" => p[n].id = "metro.start"
    BY <2>1, <2>2 DEF Own
  <2>7. HasStep(p, "metro.start") /\ HasStep(p, "metro.ready") /\ HasStep(p, "android.launch-1")
    BY <2>1 DEF HasStep
  <2> QED BY <1>1, <2>3, <2>4, <2>5, <2>6, <2>7 DEF GoodPlan, p
<1>2. CASE target = "device"
  <2>1. p = << [id |-> "metro.start", does |-> "start", key |-> "metro", by |-> "runner"],
               [id |-> "metro.ready", does |-> "probe", key |-> "metro", by |-> "runner"],
               [id |-> "ios.port-forward", does |-> "start", key |-> "ios-port-forward", by |-> "runner"],
               [id |-> "ios.companion-start", does |-> "start", key |-> "companion", by |-> "runner"],
               [id |-> "ios.companion-ready", does |-> "probe", key |-> "companion", by |-> "runner"],
               [id |-> "ios.launch", does |-> "run", key |-> "none", by |-> "runner"] >>
    BY <1>2 DEF PlanOf
  <2>2. KilledKeys(target) = <<"ios-port-forward", "companion", "metro">>
    BY <1>2 DEF KilledKeys
  <2> HIDE DEF p
  <2>3. p \in Seq(HookSteps) /\ p # <<>>
    <3>1. Len(p) = 6 /\ p = [n \in 1 .. 6 |-> p[n]]
      BY <2>1
    <3>2. \A n \in 1 .. 6 : p[n] \in HookSteps
      BY <2>1 DEF HookSteps, Ids, Sides, ProcessKeys
    <3> QED BY <3>1, <3>2
  <2>4. \A n \in 1 .. Len(p) : p[n].does = "start" => p[n].key \in ProcessKeys
    BY <2>1 DEF ProcessKeys
  <2>5. \A m, n \in 1 .. Len(p) : m # n /\ Own(p[m]) /\ Own(p[n]) => p[m].key # p[n].key
    BY <2>1 DEF Own
  <2>6. \A n \in 1 .. Len(p) : Own(p[n]) =>
       /\ \E i \in 1 .. Len(KilledKeys(target)) : KilledKeys(target)[i] = p[n].key
       /\ p[n].key = "metro" => p[n].id = "metro.start"
    BY <2>1, <2>2 DEF Own
  <2>7. HasStep(p, "metro.start") /\ HasStep(p, "metro.ready") /\ HasStep(p, "ios.companion-start")
    BY <2>1 DEF HasStep
  <2> QED BY <1>2, <2>3, <2>4, <2>5, <2>6, <2>7 DEF GoodPlan, p
<1>3. CASE target = "simulator"
  <2>1. p = << [id |-> "metro.start", does |-> "start", key |-> "metro", by |-> "runner"],
               [id |-> "metro.ready", does |-> "probe", key |-> "metro", by |-> "runner"],
               [id |-> "ios.companion-start", does |-> "start", key |-> "companion", by |-> "runner"],
               [id |-> "ios.companion-ready", does |-> "probe", key |-> "companion", by |-> "runner"],
               [id |-> "ios.terminate-before-launch", does |-> "run", key |-> "none", by |-> "runner"],
               [id |-> "ios.launch", does |-> "run", key |-> "none", by |-> "runner"] >>
    BY <1>3 DEF PlanOf
  <2>2. KilledKeys(target) = <<"companion", "metro">>
    BY <1>3 DEF KilledKeys
  <2> HIDE DEF p
  <2>3. p \in Seq(HookSteps) /\ p # <<>>
    <3>1. Len(p) = 6 /\ p = [n \in 1 .. 6 |-> p[n]]
      BY <2>1
    <3>2. \A n \in 1 .. 6 : p[n] \in HookSteps
      BY <2>1 DEF HookSteps, Ids, Sides, ProcessKeys
    <3> QED BY <3>1, <3>2
  <2>4. \A n \in 1 .. Len(p) : p[n].does = "start" => p[n].key \in ProcessKeys
    BY <2>1 DEF ProcessKeys
  <2>5. \A m, n \in 1 .. Len(p) : m # n /\ Own(p[m]) /\ Own(p[n]) => p[m].key # p[n].key
    BY <2>1 DEF Own
  <2>6. \A n \in 1 .. Len(p) : Own(p[n]) =>
       /\ \E i \in 1 .. Len(KilledKeys(target)) : KilledKeys(target)[i] = p[n].key
       /\ p[n].key = "metro" => p[n].id = "metro.start"
    BY <2>1, <2>2 DEF Own
  <2>7. HasStep(p, "metro.start") /\ HasStep(p, "metro.ready") /\ HasStep(p, "ios.companion-start")
    BY <2>1 DEF HasStep
  <2> QED BY <1>3, <2>3, <2>4, <2>5, <2>6, <2>7 DEF GoodPlan, p
<1>4. CASE target = "plain-simulator"
  <2>1. p = << [id |-> "metro.start", does |-> "start", key |-> "metro", by |-> "runner"],
               [id |-> "metro.ready", does |-> "probe", key |-> "metro", by |-> "runner"],
               [id |-> "ios.companion-start", does |-> "start", key |-> "companion", by |-> "runner"],
               [id |-> "ios.companion-ready", does |-> "probe", key |-> "companion", by |-> "runner"] >>
    BY <1>4 DEF PlanOf
  <2>2. KilledKeys(target) = <<"companion", "metro">>
    BY <1>4 DEF KilledKeys
  <2> HIDE DEF p
  <2>3. p \in Seq(HookSteps) /\ p # <<>>
    <3>1. Len(p) = 4 /\ p = [n \in 1 .. 4 |-> p[n]]
      BY <2>1
    <3>2. \A n \in 1 .. 4 : p[n] \in HookSteps
      BY <2>1 DEF HookSteps, Ids, Sides, ProcessKeys
    <3> QED BY <3>1, <3>2
  <2>4. \A n \in 1 .. Len(p) : p[n].does = "start" => p[n].key \in ProcessKeys
    BY <2>1 DEF ProcessKeys
  <2>5. \A m, n \in 1 .. Len(p) : m # n /\ Own(p[m]) /\ Own(p[n]) => p[m].key # p[n].key
    BY <2>1 DEF Own
  <2>6. \A n \in 1 .. Len(p) : Own(p[n]) =>
       /\ \E i \in 1 .. Len(KilledKeys(target)) : KilledKeys(target)[i] = p[n].key
       /\ p[n].key = "metro" => p[n].id = "metro.start"
    BY <2>1, <2>2 DEF Own
  <2>7. HasStep(p, "metro.start") /\ HasStep(p, "metro.ready") /\ HasStep(p, "ios.companion-start")
    BY <2>1 DEF HasStep
  <2> QED BY <1>4, <2>3, <2>4, <2>5, <2>6, <2>7 DEF GoodPlan, p
<1> QED BY <1>1, <1>2, <1>3, <1>4 DEF TargetKinds

(* What the project contributed is in the plan as it was asked for, and the  *)
(* plan is still a good one.                                                 *)
LEMMA HookedPlanGood ==
  ASSUME NEW target \in TargetKinds, NEW c \in Contributions
  PROVE  GoodPlan(ApplyTargetHook(target, c), target)
<1>1. \A place \in Places : Contributes(c[place])
  <2> TAKE place \in Places
  <2> DEFINE S == [id : {place}, does : {"run", "start"}, key : ProcessKeys, by : {"project"}]
  <2>1. c[place] \in Seq(S)
    BY HookInputs
  <2>2. S \subseteq HookSteps /\ \A s \in S : s.by = "project" /\ s.key \in ProcessKeys
    BY DEF HookSteps, Ids, Sides
  <2> HIDE DEF S
  <2>3. \A n \in 1 .. Len(c[place]) : c[place][n] \in S
    BY <2>1
  <2>4. c[place] \in Seq(HookSteps)
    BY <2>1, <2>2
  <2> QED BY <2>2, <2>3, <2>4 DEF Contributes
<1> DEFINE p == PlanOf(target)
           first == InsertBefore(p, "metro.start", c.beforeMetro)
           metro == InsertAfter(first, "metro.ready", c.afterMetroReady)
           anchor == IF target = "android" THEN "android.launch-1"
                     ELSE FirstExistingStep(metro, <<"ios.terminate-before-launch", "ios.launch",
                                                     "ios.companion-start">>)
<1>2. /\ Contributes(c.beforeMetro) /\ Contributes(c.afterMetroReady)
      /\ Contributes(c.beforeLaunch)
  BY <1>1 DEF Places
<1>3. /\ GoodPlan(p, target) /\ HasStep(p, "metro.start") /\ HasStep(p, "metro.ready")
      /\ target = "android" => HasStep(p, "android.launch-1")
      /\ target # "android" => HasStep(p, "ios.companion-start")
  BY PlansGood
<1> HIDE DEF p
<1>4. \A plan, id : GoodPlan(plan, target) /\ HasStep(plan, id) =>
         /\ IndexOf(plan, id) - 1 \in 0 .. Len(plan)
         /\ IndexOf(plan, id) \in 0 .. Len(plan)
  <2> TAKE plan, id
  <2> HAVE GoodPlan(plan, target) /\ HasStep(plan, id)
  <2>1. Len(plan) \in Nat
    BY DEF GoodPlan
  <2>2. IndexOf(plan, id) \in 1 .. Len(plan)
    BY DEF IndexOf, HasStep
  <2> QED BY <2>1, <2>2
<1>5. GoodPlan(first, target) /\ \A id : HasStep(p, id) => HasStep(first, id)
  BY <1>2, <1>3, <1>4, InsertGood DEF InsertBefore
<1> HIDE DEF first
<1>6. GoodPlan(metro, target) /\ \A id : HasStep(first, id) => HasStep(metro, id)
  <2>1. HasStep(first, "metro.ready")
    BY <1>3, <1>5
  <2> QED BY <1>2, <1>4, <1>5, <2>1, InsertGood DEF InsertAfter
<1> HIDE DEF metro
<1>7. HasStep(metro, anchor)
  <2>1. CASE target = "android"
    BY <1>3, <1>5, <1>6, <2>1
  <2>2. CASE target # "android"
    <3> DEFINE as == <<"ios.terminate-before-launch", "ios.launch", "ios.companion-start">>
               isFirst(n) == /\ HasStep(metro, as[n])
                             /\ \A m \in 1 .. n - 1 : ~HasStep(metro, as[m])
    <3>1. HasStep(metro, as[3]) /\ Len(as) = 3
      BY <1>3, <1>5, <1>6, <2>2
    <3> HIDE DEF as
    <3>2. \E n \in 1 .. 3 : isFirst(n)
      <4> 1 .. 1 - 1 = {} /\ 1 .. 2 - 1 = {1} /\ 1 .. 3 - 1 = {1, 2}
        OBVIOUS
      <4>1. CASE HasStep(metro, as[1])
        <5>1. isFirst(1)
          BY <4>1
        <5>2. 1 \in 1 .. 3
          OBVIOUS
        <5> HIDE DEF isFirst
        <5> QED BY <5>1, <5>2
      <4>2. CASE ~HasStep(metro, as[1]) /\ HasStep(metro, as[2])
        <5>1. isFirst(2)
          BY <4>2
        <5>2. 2 \in 1 .. 3
          OBVIOUS
        <5> HIDE DEF isFirst
        <5> QED BY <5>1, <5>2
      <4>3. CASE ~HasStep(metro, as[1]) /\ ~HasStep(metro, as[2])
        <5>1. isFirst(3)
          BY <3>1, <4>3
        <5>2. 3 \in 1 .. 3
          OBVIOUS
        <5> HIDE DEF isFirst
        <5> QED BY <5>1, <5>2
      <4> QED BY <4>1, <4>2, <4>3
    <3>3. FirstExistingStep(metro, as) = as[CHOOSE n \in 1 .. 3 : isFirst(n)]
      BY <3>1 DEF FirstExistingStep
    <3>4. HasStep(metro, as[CHOOSE n \in 1 .. 3 : isFirst(n)])
      BY <3>2
    <3> HIDE DEF isFirst
    <3>5. anchor = FirstExistingStep(metro, as)
      BY <2>2 DEF as
    <3> QED BY <3>3, <3>4, <3>5
  <2> QED BY <2>1, <2>2
<1> HIDE DEF anchor
<1>8. GoodPlan(InsertBefore(metro, anchor, c.beforeLaunch), target)
  BY <1>2, <1>4, <1>6, <1>7, InsertGood DEF InsertBefore
<1> QED BY <1>8 DEF ApplyTargetHook, p, first, metro, anchor

-----------------------------------------------------------------------------
(* The inductive invariant.                                                  *)

HookGroups == [entry : {"group"}, leg : Nat, at : Nat, key : ProcessKeys, by : Sides]
Entries == {Nothing} \cup [entry : {"failed"}, by : Sides] \cup HookGroups
Running == {"step", "playwright", "cleanup"}

HookTypes ==
  /\ targets \in Invocations /\ leg \in 1 .. Len(targets)
  /\ stage \in {"begin", "step", "playwright", "cleanup", "swept", "ended", "signalled"}
  /\ next \in Nat \ {0} /\ cleanups \in Nat /\ metroReused \in BOOLEAN
  /\ handles \in [ProcessKeys -> Entries] /\ tracked \in [ProcessKeys -> Entries]
  /\ erring \subseteq [key : ProcessKeys, by : Sides]
  /\ live \subseteq HookGroups /\ displaced \subseteq live
  /\ stage = "step" => next <= Len(steps)
  /\ stage \in Running => GoodPlan(steps, Target)

(* An entry is under its own key, and a handle of this target is what is     *)
(* tracked unless that was deleted.                                          *)
Entered ==
  \A k \in ProcessKeys :
    /\ tracked[k] \in HookGroups => tracked[k].key = k
    /\ handles[k] \in HookGroups => handles[k].key = k /\ tracked[k] \in {handles[k], Nothing}

(* What the runner started is this target's, has its handle, is not under    *)
(* the key of a step to come, and is still to be ended.                      *)
ToBeEnded(k) ==
  /\ stage \in Running
  /\ k = "metro" => ~metroReused
  /\ \E i \in 1 .. Len(KilledKeys(Target)) :
       KilledKeys(Target)[i] = k /\ (stage = "cleanup" => next - cleanups <= i)

Past(k) ==
  /\ stage \in Running
  /\ stage = "step" => \E m \in 1 .. next - 1 : Own(steps[m]) /\ steps[m].key = k

OwnTracked ==
  /\ \A g \in live \ displaced : g.by = "runner" =>
       handles[g.key] = g /\ Past(g.key) /\ ToBeEnded(g.key)
  /\ \A e \in erring : e.by = "runner" =>
       Past(e.key) /\ \A g \in live \ displaced : g.by = "runner" => g.key # e.key
  /\ stage \notin Running => erring = {}

HookInv == HookTypes /\ Entered /\ OwnTracked /\ NoneForgotten

LEMMA HookStarts == HookInit => HookInv
<1> SUFFICES ASSUME HookInit PROVE HookInv
  OBVIOUS
<1>1. targets \in Seq(TargetKinds) /\ targets # <<>>
  BY HookInputs DEF HookInit
<1>2. 1 \in 1 .. Len(targets)
  BY <1>1
<1>3. HookTypes
  <2>1. Nothing \in Entries /\ 1 \in Nat \ {0} /\ FALSE \in BOOLEAN
    BY DEF Entries
  <2> QED BY <1>2, <2>1 DEF HookTypes, HookInit, Running
<1>4. Entered
  BY DEF Entered, HookInit, Nothing, HookGroups
<1>5. OwnTracked /\ NoneForgotten
  BY DEF OwnTracked, NoneForgotten, HookInit, Running
<1> QED BY <1>3, <1>4, <1>5 DEF HookInv

(* The step that is next, and which groups can be under its key.             *)
LEMMA NextStep ==
  ASSUME HookInv, stage = "step"
  PROVE  /\ next \in 1 .. Len(steps) /\ Len(steps) \in Nat
         /\ Now.by \in Sides
         /\ Now.does = "start" => Now.key \in ProcessKeys
         /\ Now.does = "start" /\ Now.by = "runner" => ~Past(Now.key)
         /\ Now.does = "start" /\ Now.by = "runner" /\ Now.key = "metro" => Now.id = "metro.start"
         /\ Now.does = "start" /\ Now.by = "runner" =>
              \E i \in 1 .. Len(KilledKeys(Target)) : KilledKeys(Target)[i] = Now.key
<1>1. GoodPlan(steps, Target) /\ next \in Nat \ {0} /\ next <= Len(steps)
  BY DEF HookInv, HookTypes, Running
<1>2. steps \in Seq(HookSteps) /\ Len(steps) \in Nat /\ next \in 1 .. Len(steps)
  BY <1>1 DEF GoodPlan
<1>3. Now \in HookSteps
  BY <1>2 DEF Now
<1>4. ASSUME Now.does = "start", Now.by = "runner", Past(Now.key) PROVE FALSE
  <2>1. PICK m \in 1 .. next - 1 : Own(steps[m]) /\ steps[m].key = Now.key
    BY <1>4 DEF Past
  <2>2. m \in 1 .. Len(steps) /\ m # next /\ Own(steps[next])
    BY <1>2, <1>4, <2>1 DEF Now, Own
  <2> QED BY <1>1, <1>2, <2>1, <2>2 DEF GoodPlan, Now
<1> QED BY <1>1, <1>2, <1>3, <1>4 DEF GoodPlan, Now, Own, HookSteps

(* Once a step is behind, it is among those before the next.                 *)
LEMMA MovedOn ==
  ASSUME HookInv, stage = "step", GoesOn, UNCHANGED keepPlan
  PROVE  /\ next' \in Nat \ {0} /\ stage' \in {"step", "playwright"}
         /\ stage' = "step" => next' = next + 1 /\ next' <= Len(steps')
         /\ \A k : Past(k) => Past(k)'
         /\ \A k : ToBeEnded(k) => ToBeEnded(k)'
         /\ \A k : Own(Now) /\ Now.key = k => Past(k)'
<1>1. next \in 1 .. Len(steps) /\ Len(steps) \in Nat
  BY NextStep
<1>2. /\ next' \in Nat \ {0} /\ stage' \in {"step", "playwright"}
      /\ stage' = "step" => next' = next + 1 /\ next' <= Len(steps')
      /\ steps' = steps /\ Target' = Target /\ metroReused' = metroReused
  BY <1>1 DEF GoesOn, keepPlan, Target
<1>3. ASSUME NEW k, Past(k) PROVE Past(k)'
  <2>1. PICK m \in 1 .. next - 1 : Own(steps[m]) /\ steps[m].key = k
    BY <1>3 DEF Past
  <2>2. stage' = "step" => m \in 1 .. next' - 1
    BY <1>1, <1>2, <2>1
  <2>3. stage' = "step" => \E i \in 1 .. next' - 1 : Own(steps'[i]) /\ steps'[i].key = k
    BY <1>2, <2>1, <2>2
  <2> QED BY <1>2, <2>3 DEF Past, Running, Own
<1>4. ASSUME NEW k, ToBeEnded(k) PROVE ToBeEnded(k)'
  BY <1>2, <1>4 DEF ToBeEnded, Running
<1>5. ASSUME NEW k, Own(Now), Now.key = k PROVE Past(k)'
  <2>1. Own(steps'[next]) /\ steps'[next].key = k
    BY <1>2, <1>5 DEF Now
  <2>2. stage' = "step" => next \in 1 .. next' - 1
    BY <1>1, <1>2
  <2>3. stage' = "step" => \E i \in 1 .. next' - 1 : Own(steps'[i]) /\ steps'[i].key = k
    BY <2>1, <2>2
  <2> QED BY <1>2, <2>3 DEF Past, Running, Own
<1> QED BY <1>2, <1>3, <1>4, <1>5

(* Nothing happened to a process, and what is to be ended still will be.     *)
LEMMA NothingHappens ==
  ASSUME HookInv, HookTypes', UNCHANGED keepProcesses,
         stage' = "signalled" => live \subseteq displaced,
         stage' \notin Running => erring = {},
         \A k \in ProcessKeys : Past(k) => Past(k)',
         \A g \in live \ displaced : g.by = "runner" => ToBeEnded(g.key)'
  PROVE  HookInv'
<1>1. /\ handles' = handles /\ tracked' = tracked /\ erring' = erring
      /\ live' = live /\ displaced' = displaced
  BY DEF keepProcesses
<1>2. \A g \in live : g.key \in ProcessKeys
  BY DEF HookInv, HookTypes, HookGroups
<1>3. \A e \in erring : e.key \in ProcessKeys
  BY DEF HookInv, HookTypes
<1>4. Entered'
  BY <1>1 DEF HookInv, Entered
<1>5. OwnTracked'
  BY <1>1, <1>2, <1>3 DEF HookInv, OwnTracked
<1>6. NoneForgotten'
  BY <1>1 DEF HookInv, NoneForgotten
<1> QED BY <1>4, <1>5, <1>6 DEF HookInv

(* A step that starts nothing, or fails.                                     *)
LEMMA StepBehind ==
  ASSUME HookInv, stage = "step", GoesOn \/ Aborts, UNCHANGED <<keepPlan, keepProcesses>>
  PROVE  HookInv'
<1>1. /\ targets' = targets /\ leg' = leg /\ steps' = steps /\ cleanups' = cleanups
      /\ metroReused' = metroReused /\ Target' = Target
      /\ handles' = handles /\ tracked' = tracked /\ erring' = erring
      /\ live' = live /\ displaced' = displaced
  BY DEF keepPlan, keepProcesses, Target
<1>2. CASE GoesOn
  <2>1. /\ next' \in Nat \ {0} /\ stage' \in {"step", "playwright"}
        /\ stage' = "step" => next' <= Len(steps')
        /\ \A k : Past(k) => Past(k)'
        /\ \A k : ToBeEnded(k) => ToBeEnded(k)'
    BY <1>1, <1>2, MovedOn DEF keepPlan
  <2>2. HookTypes'
    <3>1. GoodPlan(steps, Target)'
      BY <1>1 DEF HookInv, HookTypes, Running
    <3> QED BY <1>1, <2>1, <3>1 DEF HookInv, HookTypes
  <2> QED BY <2>1, <2>2, NothingHappens DEF HookInv, OwnTracked, Running
<1>3. CASE Aborts
  <2>1. next' = 1 /\ stage' = "cleanup"
    BY <1>3 DEF Aborts
  <2>2. HookTypes'
    <3>1. GoodPlan(steps, Target)'
      BY <1>1 DEF HookInv, HookTypes, Running
    <3> QED BY <1>1, <2>1, <3>1 DEF HookInv, HookTypes
  <2>3. \A k : Past(k) => Past(k)'
    BY <2>1 DEF Past, Running
  <2>4. cleanups \in Nat
    BY DEF HookInv, HookTypes
  <2>5. \A k : ToBeEnded(k) => ToBeEnded(k)'
    BY <1>1, <2>1, <2>4 DEF ToBeEnded, Running
  <2> QED BY <2>1, <2>2, <2>3, <2>5, NothingHappens DEF HookInv, OwnTracked, Running
<1> QED BY <1>2, <1>3

(* A process takes the place of another under its key: what is there is      *)
(* displaced, or the runner would have had two processes under one key.      *)
LEMMA KeyIsFree ==
  ASSUME HookInv, stage = "step", Now.does = "start"
  PROVE  /\ \A g \in live \ (displaced \cup Displaced(Now.key, Now.by)) : g.key # Now.key
         /\ \A e \in erring : e.by = "runner" /\ Now.by = "runner" => e.key # Now.key
<1>1. ASSUME NEW g \in live \ (displaced \cup Displaced(Now.key, Now.by)), g.key = Now.key
      PROVE  FALSE
  <2>1. tracked[Now.key] = g
    BY <1>1 DEF HookInv, NoneForgotten
  <2>2. g.by \in Sides /\ Now.by \in Sides
    BY <1>1, NextStep DEF HookInv, HookTypes, HookGroups
  <2>3. g.by = "runner" /\ Now.by = "runner"
    BY <1>1, <2>1, <2>2 DEF Displaced, Sides
  <2>4. Past(Now.key)
    BY <1>1, <2>3 DEF HookInv, OwnTracked
  <2> QED BY <2>3, <2>4, NextStep
<1>2. ASSUME NEW e \in erring, e.by = "runner", Now.by = "runner", e.key = Now.key PROVE FALSE
  BY <1>2, NextStep DEF HookInv, OwnTracked
<1> QED BY <1>1, <1>2

LEMMA SpawnsKeeps == HookInv /\ Spawns => HookInv'
<1> SUFFICES ASSUME HookInv, Spawns PROVE HookInv'
  OBVIOUS
<1> DEFINE k == Now.key
           n == GroupOf(Now)
<1>1. /\ stage = "step" /\ Now.does = "start"
      /\ ~(metroReused /\ Now.id = "metro.start")
      /\ live' = live \cup {n} /\ handles' = [handles EXCEPT ![k] = n]
      /\ tracked' = [tracked EXCEPT ![k] = n]
      /\ displaced' = displaced \cup Displaced(k, Now.by)
      /\ erring' = erring /\ targets' = targets /\ leg' = leg /\ steps' = steps
      /\ cleanups' = cleanups /\ metroReused' = metroReused /\ Target' = Target
      /\ GoesOn /\ UNCHANGED keepPlan
  BY DEF Spawns, AtHookStep, keepPlan, Target
<1>2. k \in ProcessKeys /\ Now.by \in Sides
  BY <1>1, NextStep
<1>3. n \in HookGroups /\ n.key = k /\ n.by = Now.by /\ n \in Entries
  BY <1>2 DEF GroupOf, HookGroups, Entries, HookInv, HookTypes
<1>4. /\ next' \in Nat \ {0} /\ stage' \in {"step", "playwright"}
      /\ stage' = "step" => next' <= Len(steps')
      /\ \A x : Past(x) => Past(x)'
      /\ \A x : ToBeEnded(x) => ToBeEnded(x)'
      /\ \A x : Own(Now) /\ Now.key = x => Past(x)'
  BY <1>1, MovedOn
<1>5. \A g \in live \ displaced' : g.key # k
  BY <1>1, KeyIsFree
<1>6. \A e \in erring : e.by = "runner" /\ n.by = "runner" => e.key # k
  BY <1>1, <1>3, KeyIsFree
<1>7. n.by = "runner" => \A x : Now.key = x => Past(x)' /\ ToBeEnded(x)'
  <2> SUFFICES ASSUME n.by = "runner"
               PROVE  \A x : Now.key = x => Past(x)' /\ ToBeEnded(x)'
    OBVIOUS
  <2>1. Own(Now)
    BY <1>1, <1>3 DEF Own
  <2>2. \A x : Now.key = x => Past(x)'
    BY <1>4, <2>1
  <2>3. \A x : Now.key = x => ToBeEnded(x)
    BY <1>1, <1>3, NextStep DEF ToBeEnded, Running
  <2> QED BY <1>4, <2>2, <2>3
<1>8. HookGroups \cap {Nothing} = {}
  BY DEF HookGroups, Nothing
<1> HIDE DEF n, k
<1>9. HookTypes'
  <2>1. handles' \in [ProcessKeys -> Entries] /\ tracked' \in [ProcessKeys -> Entries]
    BY <1>1, <1>2, <1>3 DEF HookInv, HookTypes
  <2>2. live' \subseteq HookGroups /\ displaced' \subseteq live'
    BY <1>1, <1>3 DEF HookInv, HookTypes, Displaced
  <2> QED BY <1>1, <1>4, <2>1, <2>2 DEF HookInv, HookTypes, Running, GoodPlan
<1>10. Entered'
  BY <1>1, <1>2, <1>3 DEF HookInv, HookTypes, Entered
<1>11. OwnTracked'
  <2>1. ASSUME NEW g \in live' \ displaced', g.by = "runner"
        PROVE  handles'[g.key] = g /\ Past(g.key)' /\ ToBeEnded(g.key)'
    <3>1. CASE g = n
      <4>1. Past(g.key)' /\ ToBeEnded(g.key)'
        BY <1>3, <1>7, <2>1, <3>1 DEF k
      <4> QED BY <1>1, <1>2, <1>3, <3>1, <4>1 DEF HookInv, HookTypes
    <3>2. CASE g # n
      <4>1. g \in live \ displaced' /\ g \in live \ displaced
        BY <1>1, <2>1, <3>2
      <4>2. g.key # k
        BY <1>5, <4>1
      <4>3. g.key \in ProcessKeys
        BY <4>1 DEF HookInv, HookTypes, HookGroups
      <4>4. handles[g.key] = g /\ Past(g.key) /\ ToBeEnded(g.key)
        BY <2>1, <4>1 DEF HookInv, OwnTracked
      <4>5. \A x : x = g.key => Past(x)' /\ ToBeEnded(x)'
        BY <1>4, <4>4
      <4> QED BY <1>1, <4>2, <4>3, <4>4, <4>5 DEF HookInv, HookTypes
    <3> QED BY <3>1, <3>2
  <2>2. ASSUME NEW e \in erring', e.by = "runner"
        PROVE  Past(e.key)' /\ \A g \in live' \ displaced' : g.by = "runner" => g.key # e.key
    <3>1. Past(e.key) /\ \A g \in live \ displaced : g.by = "runner" => g.key # e.key
      BY <1>1, <2>2 DEF HookInv, OwnTracked
    <3>2. n.by = "runner" => n.key # e.key
      BY <1>1, <1>3, <1>6, <2>2
    <3> QED BY <1>1, <1>4, <3>1, <3>2
  <2>3. stage' \in Running
    BY <1>4 DEF Running
  <2> QED BY <2>1, <2>2, <2>3 DEF OwnTracked
<1>12. NoneForgotten'
  <2> SUFFICES ASSUME NEW g \in live' \ displaced'
               PROVE  stage' # "signalled" /\ tracked'[g.key] = g
    BY DEF NoneForgotten
  <2>1. CASE g = n
    BY <1>1, <1>2, <1>3, <1>4, <2>1 DEF HookInv, HookTypes
  <2>2. CASE g # n
    <3>1. g \in live \ displaced' /\ g \in live \ displaced
      BY <1>1, <2>2
    <3>2. g.key # k /\ g.key \in ProcessKeys /\ tracked[g.key] = g
      BY <1>5, <3>1 DEF HookInv, HookTypes, HookGroups, NoneForgotten
    <3> QED BY <1>1, <1>4, <3>2 DEF HookInv, HookTypes
  <2> QED BY <2>1, <2>2
<1> QED BY <1>9, <1>10, <1>11, <1>12 DEF HookInv

LEMMA SpawnFailsKeeps == HookInv /\ SpawnFails => HookInv'
<1> SUFFICES ASSUME HookInv, SpawnFails PROVE HookInv'
  OBVIOUS
<1> DEFINE k == Now.key
           b == Now.by
           n == NoPid(Now)
<1>1. CASE Aborts /\ UNCHANGED keepProcesses
  BY <1>1, StepBehind DEF SpawnFails, AtHookStep
<1>2. CASE ~(Aborts /\ UNCHANGED keepProcesses)
  <2>1. /\ stage = "step" /\ Now.does = "start"
        /\ live' = live /\ handles' = [handles EXCEPT ![k] = n]
        /\ tracked' = [tracked EXCEPT ![k] = n]
        /\ displaced' = displaced \cup Displaced(k, b)
        /\ erring' = erring \cup {[key |-> k, by |-> b]}
        /\ targets' = targets /\ leg' = leg /\ steps' = steps
        /\ cleanups' = cleanups /\ metroReused' = metroReused /\ Target' = Target
        /\ GoesOn /\ UNCHANGED keepPlan
    BY <1>2 DEF SpawnFails, AtHookStep, keepPlan, Target
  <2>2. k \in ProcessKeys /\ b \in Sides
    BY <2>1, NextStep
  <2>3. n \in Entries /\ n \notin HookGroups
    BY <2>2 DEF NoPid, Entries, HookGroups
  <2>4. /\ next' \in Nat \ {0} /\ stage' \in {"step", "playwright"}
        /\ stage' = "step" => next' <= Len(steps')
        /\ \A x : Past(x) => Past(x)'
        /\ \A x : ToBeEnded(x) => ToBeEnded(x)'
        /\ \A x : Own(Now) /\ Now.key = x => Past(x)'
    BY <2>1, MovedOn
  <2>5. \A g \in live \ displaced' : g.key # k
    BY <2>1, KeyIsFree
  <2>6. b = "runner" => \A x : k = x => Past(x)'
    BY <2>1, <2>4 DEF Own
  <2> HIDE DEF n, k, b
  <2>7. HookTypes'
    <3>1. handles' \in [ProcessKeys -> Entries] /\ tracked' \in [ProcessKeys -> Entries]
      BY <2>1, <2>2, <2>3 DEF HookInv, HookTypes
    <3>2. displaced' \subseteq live'
      BY <2>1 DEF HookInv, HookTypes, Displaced
    <3>3. erring' \subseteq [key : ProcessKeys, by : Sides]
      BY <2>1, <2>2 DEF HookInv, HookTypes
    <3> QED BY <2>1, <2>4, <3>1, <3>2, <3>3 DEF HookInv, HookTypes, Running, GoodPlan
  <2>8. Entered'
    BY <2>1, <2>2, <2>3 DEF HookInv, HookTypes, Entered
  <2>9. \A g \in live' \ displaced' :
          g \in live \ displaced /\ g.key \in ProcessKeys /\ g.key # k
    BY <2>1, <2>5 DEF HookInv, HookTypes, HookGroups
  <2>10. OwnTracked'
    <3>1. ASSUME NEW g \in live' \ displaced', g.by = "runner"
          PROVE  handles'[g.key] = g /\ Past(g.key)' /\ ToBeEnded(g.key)'
      <4>1. handles[g.key] = g /\ Past(g.key) /\ ToBeEnded(g.key)
        BY <2>9, <3>1 DEF HookInv, OwnTracked
      <4>2. \A x : x = g.key => Past(x)' /\ ToBeEnded(x)'
        BY <2>4, <4>1
      <4> QED BY <2>1, <2>9, <4>1, <4>2 DEF HookInv, HookTypes
    <3>2. ASSUME NEW e \in erring', e.by = "runner"
          PROVE  Past(e.key)' /\ \A g \in live' \ displaced' : g.by = "runner" => g.key # e.key
      <4>1. CASE e \in erring
        <5>1. Past(e.key) /\ \A g \in live \ displaced : g.by = "runner" => g.key # e.key
          BY <3>2, <4>1 DEF HookInv, OwnTracked
        <5> QED BY <2>4, <2>9, <5>1
      <4>2. CASE e = [key |-> k, by |-> b]
        <5>1. e.key = k /\ b = "runner"
          BY <3>2, <4>2
        <5>2. \A x : k = x => Past(x)'
          BY <2>6, <5>1
        <5> QED BY <2>9, <5>1, <5>2
      <4> QED BY <2>1, <4>1, <4>2
    <3>3. stage' \in Running
      BY <2>4 DEF Running
    <3> QED BY <3>1, <3>2, <3>3 DEF OwnTracked
  <2>11. NoneForgotten'
    BY <2>1, <2>2, <2>4, <2>9 DEF HookInv, HookTypes, NoneForgotten
  <2> QED BY <2>7, <2>8, <2>10, <2>11 DEF HookInv
<1> QED BY <1>1, <1>2

(* What an 'error' of another takes away is displaced, or it would be of two *)
(* processes of the runner under one key.                                    *)
LEMMA ErrorDisplaces ==
  ASSUME HookInv, NEW e \in erring, NEW g \in live \ displaced, g.key = e.key
  PROVE  g \in Displaced(e.key, e.by)
<1>1. tracked[e.key] = g
  BY DEF HookInv, NoneForgotten
<1>2. g.by \in Sides /\ e.by \in Sides
  BY DEF HookInv, HookTypes, HookGroups
<1>3. ~(g.by = "runner" /\ e.by = "runner")
  BY DEF HookInv, OwnTracked
<1> QED BY <1>1, <1>2, <1>3 DEF Displaced, Sides

(* Groups end or are displaced, entries go, 'error' comes; nothing begins.   *)
LEMMA ThingsEnd ==
  ASSUME HookInv, HookTypes',
         UNCHANGED <<targets, leg, steps, metroReused, handles>>,
         live' \subseteq live,
         \A g \in live' \ displaced' : g \in live \ displaced /\ tracked'[g.key] = tracked[g.key],
         \A k \in ProcessKeys : tracked'[k] \in {tracked[k], Nothing},
         erring' \subseteq erring,
         stage' = "signalled" => live' \subseteq displaced',
         stage' \notin Running => erring' = {},
         \A k \in ProcessKeys : Past(k) => Past(k)',
         \A g \in live' \ displaced' : g.by = "runner" => ToBeEnded(g.key)'
  PROVE  HookInv'
<1>1. \A g \in live : g.key \in ProcessKeys
  BY DEF HookInv, HookTypes, HookGroups
<1>2. \A e \in erring : e.key \in ProcessKeys
  BY DEF HookInv, HookTypes
<1>3. Nothing \notin HookGroups
  BY DEF Nothing, HookGroups
<1>4. Entered'
  BY <1>3 DEF HookInv, Entered
<1>5. OwnTracked'
  BY <1>1, <1>2 DEF HookInv, OwnTracked
<1>6. NoneForgotten'
  BY DEF HookInv, NoneForgotten
<1> QED BY <1>4, <1>5, <1>6 DEF HookInv

LEMMA ErrorComesKeeps == HookInv /\ ErrorComes => HookInv'
<1> SUFFICES ASSUME HookInv, ErrorComes PROVE HookInv'
  OBVIOUS
<1>1. PICK e \in erring :
        /\ tracked' = [tracked EXCEPT ![e.key] = Nothing]
        /\ displaced' = displaced \cup Displaced(e.key, e.by)
        /\ erring' = erring \ {e}
  BY DEF ErrorComes
<1>2. UNCHANGED <<stage, next, targets, leg, steps, cleanups, metroReused, handles, live>>
  BY DEF ErrorComes, keepPlan
<1>3. e.key \in ProcessKeys /\ Nothing \in Entries
  BY DEF HookInv, HookTypes, Entries
<1>4. HookTypes'
  <2>1. tracked' \in [ProcessKeys -> Entries]
    BY <1>1, <1>3 DEF HookInv, HookTypes
  <2>2. displaced' \subseteq live' /\ Target' = Target
    BY <1>1, <1>2 DEF HookInv, HookTypes, Displaced, Target
  <2>3. stage' \in Running => GoodPlan(steps, Target)'
    BY <1>2, <2>2 DEF HookInv, HookTypes
  <2> QED BY <1>1, <1>2, <2>1, <2>2, <2>3 DEF HookInv, HookTypes
<1>5. \A g \in live' \ displaced' : g \in live \ displaced /\ g.key # e.key
  BY <1>1, <1>2, ErrorDisplaces
<1>6. \A k \in ProcessKeys : tracked'[k] = IF k = e.key THEN Nothing ELSE tracked[k]
  BY <1>1, <1>3 DEF HookInv, HookTypes
<1>7. \A g \in live : g.key \in ProcessKeys
  BY DEF HookInv, HookTypes, HookGroups
<1>8. \A k : (Past(k) => Past(k)') /\ (ToBeEnded(k) => ToBeEnded(k)')
  BY <1>2 DEF Past, ToBeEnded, Target, Own
<1>9. stage' = "signalled" => live' \subseteq displaced'
  BY <1>1, <1>2 DEF HookInv, NoneForgotten
<1>10. stage' \notin Running => erring' = {}
  BY <1>1, <1>2 DEF HookInv, OwnTracked
<1>11. \A g \in live' \ displaced' : g.by = "runner" => ToBeEnded(g.key)'
  BY <1>5, <1>8 DEF HookInv, OwnTracked
<1>12. /\ \A g \in live' \ displaced' : g \in live \ displaced /\ tracked'[g.key] = tracked[g.key]
       /\ \A k \in ProcessKeys : tracked'[k] \in {tracked[k], Nothing}
  BY <1>5, <1>6, <1>7
<1> QED BY <1>1, <1>2, <1>4, <1>8, <1>9, <1>10, <1>11, <1>12, ThingsEnd

LEMMA GroupDiesKeeps == HookInv /\ GroupDies => HookInv'
<1> SUFFICES ASSUME HookInv, GroupDies PROVE HookInv'
  OBVIOUS
<1>1. PICK d \in live : live' = live \ {d} /\ displaced' = displaced \ {d}
  BY DEF GroupDies, GroupsEnd
<1>2. UNCHANGED <<stage, next, targets, leg, steps, cleanups, metroReused, handles, tracked,
                  erring>>
  BY DEF GroupDies, keepPlan
<1>3. Target' = Target
  BY <1>2 DEF Target
<1>4. HookTypes'
  <2>1. stage' \in Running => GoodPlan(steps, Target)'
    BY <1>2, <1>3 DEF HookInv, HookTypes
  <2>2. displaced' \subseteq live' /\ live' \subseteq HookGroups
    BY <1>1 DEF HookInv, HookTypes
  <2> QED BY <1>2, <2>1, <2>2 DEF HookInv, HookTypes
<1>5. \A g \in live' \ displaced' : g \in live \ displaced
  BY <1>1
<1>6. \A k : (Past(k) => Past(k)') /\ (ToBeEnded(k) => ToBeEnded(k)')
  BY <1>2, <1>3 DEF Past, ToBeEnded, Own
<1>7. /\ stage' = "signalled" => live' \subseteq displaced'
      /\ stage' \notin Running => erring' = {}
  BY <1>1, <1>2 DEF HookInv, NoneForgotten, OwnTracked
<1>8. \A g \in live' \ displaced' : g.by = "runner" => ToBeEnded(g.key)'
  BY <1>5, <1>6 DEF HookInv, OwnTracked
<1> QED BY <1>1, <1>2, <1>4, <1>5, <1>6, <1>7, <1>8, ThingsEnd

(* A signal leaves nothing alive that was in its place.                      *)
LEMMA SignalComesKeeps == HookInv /\ SignalComes => HookInv'
<1> SUFFICES ASSUME HookInv, SignalComes PROVE HookInv'
  OBVIOUS
<1> DEFINE T == {tracked[k] : k \in ProcessKeys}
<1>1. /\ live' = live \ T /\ displaced' = displaced \ T
      /\ tracked' = [k \in ProcessKeys |-> Nothing]
      /\ stage' = "signalled" /\ erring' = {} /\ handles' = handles
      /\ UNCHANGED <<next, targets, leg, steps, cleanups, metroReused>>
  BY DEF SignalComes, GroupsEnd, Heard, keepPlan
<1>2. ASSUME NEW g \in live' \ displaced' PROVE FALSE
  <2>1. g \in live \ displaced /\ g \notin T
    BY <1>1, <1>2
  <2>2. g.key \in ProcessKeys /\ tracked[g.key] = g
    BY <2>1 DEF HookInv, HookTypes, HookGroups, NoneForgotten
  <2> QED BY <2>1, <2>2
<1> HIDE DEF T
<1>3. HookTypes'
  <2>1. tracked' \in [ProcessKeys -> Entries] /\ live' \subseteq HookGroups /\ displaced' \subseteq live'
    BY <1>1 DEF HookInv, HookTypes, Entries
  <2> QED BY <1>1, <2>1 DEF HookInv, HookTypes, Running
<1>4. Entered'
  BY <1>1 DEF HookInv, Entered, Nothing, HookGroups
<1>5. OwnTracked' /\ NoneForgotten'
  BY <1>1, <1>2 DEF OwnTracked, NoneForgotten
<1> QED BY <1>3, <1>4, <1>5 DEF HookInv

-----------------------------------------------------------------------------
(* Between the plans nothing of the runner's is alive in its place.          *)
LEMMA Between ==
  ASSUME HookInv, HookTypes', \A g \in live \ displaced : g.by # "runner", erring = {},
         UNCHANGED <<tracked, erring, live, displaced>>, stage' # "signalled",
         handles' \in {handles, [k \in ProcessKeys |-> Nothing]}
  PROVE  HookInv'
<1>1. Entered'
  BY DEF HookInv, Entered, Nothing, HookGroups
<1>2. OwnTracked' /\ NoneForgotten'
  BY DEF HookInv, OwnTracked, NoneForgotten
<1> QED BY <1>1, <1>2 DEF HookInv

LEMMA NoneOwnOutside ==
  ASSUME HookInv, stage \notin Running
  PROVE  erring = {} /\ \A g \in live \ displaced : g.by # "runner"
BY DEF HookInv, OwnTracked, Past

LEMMA TakesHookKeeps == HookInv /\ TakesHook => HookInv'
<1> SUFFICES ASSUME HookInv, TakesHook PROVE HookInv'
  OBVIOUS
<1>1. PICK c \in Contributions : steps' = ApplyTargetHook(Target, c) /\ cleanups' = c.cleanups
  BY DEF TakesHook
<1>2. /\ stage = "begin" /\ stage' = "step" /\ next' = 1 /\ metroReused' \in BOOLEAN
      /\ handles' = [k \in ProcessKeys |-> Nothing]
      /\ UNCHANGED <<targets, leg, tracked, erring, live, displaced>>
  BY DEF TakesHook
<1>3. Target \in TargetKinds /\ Target' = Target
  BY <1>2, HookInputs DEF HookInv, HookTypes, Target
<1>4. GoodPlan(ApplyTargetHook(Target, c), Target)
  BY <1>3, HookedPlanGood
<1>5. GoodPlan(steps, Target)' /\ 1 <= Len(steps')
  BY <1>1, <1>3, <1>4 DEF GoodPlan
<1>6. HookTypes'
  <2>1. Nothing \in Entries /\ cleanups' \in Nat
    BY <1>1, HookInputs DEF Entries
  <2> QED BY <1>2, <1>5, <2>1 DEF HookInv, HookTypes
<1>7. stage \notin Running
  BY <1>2 DEF Running
<1> QED BY <1>2, <1>6, <1>7, NoneOwnOutside, Between

LEMMA HookThrowsKeeps == HookInv /\ HookThrows => HookInv'
<1> SUFFICES ASSUME HookInv, HookThrows PROVE HookInv'
  OBVIOUS
<1>1. stage \notin Running /\ stage' = "swept"
      /\ UNCHANGED <<next, targets, leg, steps, cleanups, metroReused, handles, tracked, erring,
                     live, displaced>>
  BY DEF HookThrows, Running, keepPlan, keepProcesses
<1>2. HookTypes'
  BY <1>1 DEF HookInv, HookTypes, Running
<1> QED BY <1>1, <1>2, NoneOwnOutside, Between

LEMMA NextTargetKeeps == HookInv /\ NextTarget => HookInv'
<1> SUFFICES ASSUME HookInv, NextTarget PROVE HookInv'
  OBVIOUS
<1>1. /\ stage = "swept" /\ stage' \in {"begin", "ended"} /\ leg' \in {leg, leg + 1}
      /\ leg' # leg => leg < Len(targets)
      /\ next' = 1 /\ cleanups' = 0 /\ metroReused' = FALSE
      /\ handles' = [k \in ProcessKeys |-> Nothing]
      /\ UNCHANGED <<targets, tracked, erring, live, displaced>>
  BY DEF NextTarget
<1>2. HookTypes'
  <2>1. Nothing \in Entries
    BY DEF Entries
  <2>2. leg' \in 1 .. Len(targets')
    <3>1. targets \in Seq(TargetKinds) /\ leg \in 1 .. Len(targets)
      BY HookInputs DEF HookInv, HookTypes
    <3>2. Len(targets) \in Nat
      BY <3>1
    <3> QED BY <1>1, <3>1, <3>2
  <2>3. handles' \in [ProcessKeys -> Entries]
    BY <1>1, <2>1
  <2>4. stage' \notin Running /\ stage' # "step"
    BY <1>1 DEF Running
  <2>5. stage' \in {"begin", "step", "playwright", "cleanup", "swept", "ended", "signalled"}
    BY <1>1
  <2>6. /\ targets' \in Invocations /\ tracked' \in [ProcessKeys -> Entries]
        /\ erring' \subseteq [key : ProcessKeys, by : Sides]
        /\ live' \subseteq HookGroups /\ displaced' \subseteq live'
    BY <1>1 DEF HookInv, HookTypes
  <2>7. next' \in Nat \ {0} /\ cleanups' \in Nat
    BY <1>1
  <2>8. metroReused' \in BOOLEAN
    BY DEF NextTarget
  <2> QED BY <2>2, <2>3, <2>4, <2>5, <2>6, <2>7, <2>8 DEF HookTypes
<1>3. stage \notin Running
  BY <1>1 DEF Running
<1> QED BY <1>1, <1>2, <1>3, NoneOwnOutside, Between

LEMMA SweepsKeeps == HookInv /\ Sweeps => HookInv'
<1> SUFFICES ASSUME HookInv, Sweeps PROVE HookInv'
  OBVIOUS
<1>1. /\ stage = "cleanup" /\ next > AllActions /\ erring = {} /\ stage' = "swept"
      /\ UNCHANGED <<next, targets, leg, steps, cleanups, metroReused, handles, tracked, erring,
                     live, displaced>>
  BY DEF Sweeps, Heard, keepPlan, keepProcesses
<1>2. HookTypes'
  BY <1>1 DEF HookInv, HookTypes, Running
<1>3. ASSUME NEW g \in live \ displaced, g.by = "runner" PROVE FALSE
  <2>1. ToBeEnded(g.key)
    BY <1>3 DEF HookInv, OwnTracked
  <2>2. PICK i \in 1 .. Len(KilledKeys(Target)) : next - cleanups <= i
    BY <1>1, <2>1 DEF ToBeEnded
  <2>3. next \in Nat /\ cleanups \in Nat /\ Len(KilledKeys(Target)) \in Nat
    BY DEF HookInv, HookTypes, KilledKeys
  <2> QED BY <1>1, <2>2, <2>3 DEF AllActions
<1> QED BY <1>1, <1>2, <1>3, Between

-----------------------------------------------------------------------------
(* The cleanup.                                                              *)
LEMMA RunsPlaywrightKeeps == HookInv /\ RunsPlaywright => HookInv'
<1> SUFFICES ASSUME HookInv, RunsPlaywright PROVE HookInv'
  OBVIOUS
<1>1. /\ stage = "playwright" /\ stage' = "cleanup" /\ next' = 1
      /\ UNCHANGED <<targets, leg, steps, cleanups, metroReused, handles, tracked, erring,
                     live, displaced>>
      /\ UNCHANGED keepProcesses
  BY DEF RunsPlaywright, keepPlan, keepProcesses
<1>2. Target' = Target /\ cleanups \in Nat
  BY <1>1 DEF Target, HookInv, HookTypes
<1>3. HookTypes'
  <2>1. GoodPlan(steps, Target)'
    BY <1>1, <1>2 DEF HookInv, HookTypes, Running
  <2> QED BY <1>1, <2>1 DEF HookInv, HookTypes
<1>4. \A k : ToBeEnded(k) => ToBeEnded(k)'
  BY <1>1, <1>2 DEF ToBeEnded, Running
<1>5. \A k : Past(k)'
  BY <1>1 DEF Past, Running
<1> QED BY <1>1, <1>3, <1>4, <1>5, NothingHappens DEF HookInv, OwnTracked, Running

LEMMA ProjectCleansUpKeeps == HookInv /\ ProjectCleansUp => HookInv'
<1> SUFFICES ASSUME HookInv, ProjectCleansUp PROVE HookInv'
  OBVIOUS
<1>1. /\ stage = "cleanup" /\ next <= cleanups /\ stage' = stage /\ next' = next + 1
      /\ live' \subseteq live /\ displaced' = displaced \cap live'
      /\ UNCHANGED <<targets, leg, steps, cleanups, metroReused, handles, tracked, erring>>
  BY DEF ProjectCleansUp, GroupsEnd, keepPlan, HookInv, HookTypes
<1>2. Target' = Target /\ cleanups \in Nat /\ next \in Nat
  BY <1>1 DEF Target, HookInv, HookTypes
<1>3. HookTypes'
  <2>1. GoodPlan(steps, Target)'
    BY <1>1, <1>2 DEF HookInv, HookTypes, Running
  <2> QED BY <1>1, <1>2, <2>1 DEF HookInv, HookTypes
<1>4. \A k : ToBeEnded(k) => ToBeEnded(k)'
  BY <1>1, <1>2 DEF ToBeEnded, Running
<1>5. \A k : Past(k)'
  BY <1>1 DEF Past, Running
<1>6. \A g \in live' \ displaced' : g \in live \ displaced
  BY <1>1
<1>7. \A g \in live' \ displaced' : g.by = "runner" => ToBeEnded(g.key)'
  BY <1>4, <1>6 DEF HookInv, OwnTracked
<1> QED BY <1>1, <1>3, <1>5, <1>6, <1>7, ThingsEnd DEF Running

(* The key of the action that is next.                                       *)
LEMMA KillOf ==
  ASSUME HookInv, AtKill
  PROVE  /\ next - cleanups \in 1 .. Len(KilledKeys(Target))
         /\ KilledKey \in ProcessKeys
<1>1. next \in Nat /\ cleanups \in Nat
  BY DEF HookInv, HookTypes
<1>2. /\ Len(KilledKeys(Target)) \in Nat
      /\ \A i \in 1 .. Len(KilledKeys(Target)) : KilledKeys(Target)[i] \in ProcessKeys
  BY DEF KilledKeys, ProcessKeys
<1>3. next - cleanups \in 1 .. Len(KilledKeys(Target))
  BY <1>1, <1>2 DEF AtKill, AllActions
<1> QED BY <1>2, <1>3 DEF KilledKey

(* What is under another key than the one just passed is still to be ended.  *)
LEMMA OthersToBeEnded ==
  ASSUME HookInv, AtKill, stage' = stage, next' = next + 1, UNCHANGED keepPlan
  PROVE  \A k : k # KilledKey /\ ToBeEnded(k) => ToBeEnded(k)'
<1> SUFFICES ASSUME NEW k, k # KilledKey, ToBeEnded(k) PROVE ToBeEnded(k)'
  OBVIOUS
<1>1. /\ Target' = Target /\ cleanups' = cleanups /\ metroReused' = metroReused
      /\ stage = "cleanup" /\ next \in Nat /\ cleanups \in Nat
  BY DEF keepPlan, Target, AtKill, HookInv, HookTypes
<1>2. PICK i \in 1 .. Len(KilledKeys(Target)) :
        KilledKeys(Target)[i] = k /\ next - cleanups <= i
  BY <1>1 DEF ToBeEnded
<1>3. i # next - cleanups
  BY <1>2 DEF KilledKey
<1>4. Len(KilledKeys(Target)) \in Nat
  BY DEF KilledKeys
<1>5. next' - cleanups' <= i
  BY <1>1, <1>2, <1>3, <1>4
<1> QED BY <1>1, <1>2, <1>5 DEF ToBeEnded, Running

LEMMA AtKillTypes ==
  ASSUME HookInv, AtKill, stage' = stage, next' = next + 1, UNCHANGED keepPlan,
         handles' = handles, tracked' \in [ProcessKeys -> Entries], erring' \subseteq erring,
         live' \subseteq live, displaced' \subseteq live'
  PROVE  HookTypes' /\ \A k : Past(k)'
<1>1. /\ targets' = targets /\ leg' = leg /\ steps' = steps /\ cleanups' = cleanups
      /\ metroReused' = metroReused /\ Target' = Target /\ stage' = "cleanup"
      /\ stage = "cleanup"
  BY DEF keepPlan, Target, AtKill
<1>2. GoodPlan(steps, Target)'
  BY <1>1 DEF HookInv, HookTypes, Running
<1>3. next' \in Nat \ {0}
  BY DEF HookInv, HookTypes
<1> QED BY <1>1, <1>2, <1>3 DEF HookInv, HookTypes, Past, Running

LEMMA KillsNothingKeeps == HookInv /\ KillsNothing => HookInv'
<1> SUFFICES ASSUME HookInv, KillsNothing PROVE HookInv'
  OBVIOUS
<1>1. /\ AtKill /\ NothingToKill /\ stage' = stage /\ next' = next + 1
      /\ UNCHANGED keepPlan /\ UNCHANGED keepProcesses
  BY DEF KillsNothing
<1>2. KilledKey \in ProcessKeys
  BY <1>1, KillOf
<1>3. \A k : k # KilledKey /\ ToBeEnded(k) => ToBeEnded(k)'
  BY <1>1, OthersToBeEnded
<1>4. HookTypes' /\ \A k : Past(k)'
  BY <1>1, AtKillTypes DEF keepProcesses, HookInv, HookTypes
<1>5. ASSUME NEW g \in live \ displaced, g.by = "runner", g.key = KilledKey PROVE FALSE
  <2>1. handles[KilledKey] = g /\ ToBeEnded(KilledKey) /\ tracked[KilledKey] = g
    BY <1>5 DEF HookInv, OwnTracked, NoneForgotten
  <2>2. g.entry = "group" /\ g # Nothing
    BY DEF HookInv, HookTypes, HookGroups, Nothing
  <2>3. KilledKey = "metro" => ~metroReused
    BY <2>1 DEF ToBeEnded
  <2> QED BY <1>1, <2>1, <2>2, <2>3 DEF NothingToKill
<1>6. \A g \in live \ displaced : g.by = "runner" => ToBeEnded(g.key)'
  BY <1>3, <1>5 DEF HookInv, OwnTracked
<1>7. stage' \in Running
  BY <1>1 DEF AtKill, Running
<1> QED BY <1>1, <1>4, <1>6, <1>7, NothingHappens DEF Running

LEMMA KillsHandleKeeps == HookInv /\ KillsHandle => HookInv'
<1> SUFFICES ASSUME HookInv, KillsHandle PROVE HookInv'
  OBVIOUS
<1> DEFINE key == KilledKey
           h == handles[key]
<1>1. /\ AtKill /\ ~NothingToKill /\ stage' = stage /\ next' = next + 1
      /\ UNCHANGED keepPlan /\ handles' = handles
      /\ tracked' = [tracked EXCEPT ![key] = Nothing] /\ erring' \subseteq erring
      /\ stage' \in Running
  BY DEF KillsHandle, AtKill, Running
<1>2. key \in ProcessKeys /\ Nothing \in Entries
  BY <1>1, KillOf DEF Entries
<1>3. h \in HookGroups
  <2>1. h.entry = "group" /\ h \in Entries
    BY <1>1, <1>2 DEF NothingToKill, HookInv, HookTypes
  <2> QED BY <2>1 DEF Entries, Nothing
<1>4. tracked[key] = h
  BY <1>1, <1>2, <1>3 DEF HookInv, Entered, NothingToKill
<1>5. /\ live' \subseteq live /\ displaced' \subseteq live'
      /\ \A g \in live' \ displaced' : g \in live \ displaced /\ g.key # key
  <2>1. CASE GroupsEnd({h})
    <3>1. \A g \in live \ displaced : g.key = key => g = h
      BY <1>4 DEF HookInv, NoneForgotten
    <3> QED BY <2>1, <3>1 DEF GroupsEnd, HookInv, HookTypes
  <2>2. CASE ~GroupsEnd({h})
    <3>1. PICK e \in erring : e.key = key /\ displaced' = displaced \cup Displaced(key, e.by)
      BY <2>2 DEF KillsHandle
    <3>2. live' = live
      BY <2>2 DEF KillsHandle
    <3> HIDE DEF key
    <3>3. \A g \in live \ displaced : g.key = key => g \in Displaced(key, e.by)
      BY <3>1, ErrorDisplaces
    <3> QED BY <3>1, <3>2, <3>3 DEF HookInv, HookTypes, Displaced
  <2> QED BY <2>1, <2>2
<1>6. \A k : k # key /\ ToBeEnded(k) => ToBeEnded(k)'
  BY <1>1, OthersToBeEnded
<1> HIDE DEF key, h
<1>7. tracked' \in [ProcessKeys -> Entries]
  BY <1>1, <1>2 DEF HookInv, HookTypes
<1>8. HookTypes' /\ \A k : Past(k)'
  BY <1>1, <1>5, <1>7, AtKillTypes
<1>9. /\ \A g \in live' \ displaced' : g \in live \ displaced /\ tracked'[g.key] = tracked[g.key]
      /\ \A k \in ProcessKeys : tracked'[k] \in {tracked[k], Nothing}
  <2>1. \A g \in live : g.key \in ProcessKeys
    BY DEF HookInv, HookTypes, HookGroups
  <2>2. \A k \in ProcessKeys : tracked'[k] = IF k = key THEN Nothing ELSE tracked[k]
    BY <1>1, <1>2 DEF HookInv, HookTypes
  <2> QED BY <1>5, <2>1, <2>2
<1>10. \A g \in live' \ displaced' : g.by = "runner" => ToBeEnded(g.key)'
  BY <1>5, <1>6 DEF HookInv, OwnTracked
<1>11. UNCHANGED <<targets, leg, steps, metroReused, handles>>
  BY <1>1 DEF keepPlan
<1> QED BY <1>1, <1>5, <1>8, <1>9, <1>10, <1>11, ThingsEnd DEF Running

-----------------------------------------------------------------------------
LEMMA HookStutters == HookInv /\ UNCHANGED hookVars => HookInv'
<1> SUFFICES ASSUME HookInv, UNCHANGED hookVars PROVE HookInv'
  OBVIOUS
<1>1. UNCHANGED keepProcesses /\ Target' = Target
      /\ UNCHANGED <<targets, stage, leg, steps, cleanups, next, metroReused>>
  BY DEF hookVars, keepProcesses, Target
<1>2. HookTypes'
  <2>1. (stage \in Running => GoodPlan(steps, Target))'
    BY <1>1 DEF HookInv, HookTypes
  <2> QED BY <1>1, <2>1 DEF HookInv, HookTypes, keepProcesses
<1>3. \A k : (Past(k) => Past(k)') /\ (ToBeEnded(k) => ToBeEnded(k)')
  BY <1>1 DEF Past, ToBeEnded, Own
<1> QED BY <1>1, <1>2, <1>3, NothingHappens DEF HookInv, OwnTracked, NoneForgotten

LEMMA HookStepKeeps == HookInv /\ [HookNext]_hookVars => HookInv'
<1> SUFFICES ASSUME HookInv, [HookNext]_hookVars PROVE HookInv'
  OBVIOUS
<1>1. CASE RunsForeground
  BY <1>1, StepBehind DEF RunsForeground, AtHookStep
<1>2. CASE SkipsMetro
  BY <1>2, StepBehind DEF SkipsMetro, AtHookStep
<1>3. CASE Waits
  BY <1>3, StepBehind DEF Waits, AtHookStep
<1> QED BY <1>1, <1>2, <1>3, TakesHookKeeps, HookThrowsKeeps, SpawnsKeeps, SpawnFailsKeeps,
           ErrorComesKeeps, RunsPlaywrightKeeps, ProjectCleansUpKeeps, KillsNothingKeeps,
           KillsHandleKeeps, SweepsKeeps, NextTargetKeeps, SignalComesKeeps, GroupDiesKeeps,
           HookStutters DEF HookNext

-----------------------------------------------------------------------------
(* Where the project's steps are.                                            *)

(* Where inserting l steps after the n-th takes the k-th.                    *)
To(n, l, k) == IF k <= n THEN k ELSE k + l

LEMMA InsertionMoves ==
  ASSUME NEW S, NEW plan \in Seq(S), NEW n \in 0 .. Len(plan), NEW inserted \in Seq(S)
  PROVE  LET r == InsertAfterIndex(plan, n, inserted)
             l == Len(inserted)
         IN /\ r \in Seq(S)
            /\ \A k \in 1 .. Len(plan) : To(n, l, k) \in 1 .. Len(r) /\ r[To(n, l, k)] = plan[k]
            /\ \A j, k \in 1 .. Len(plan) : j < k <=> To(n, l, j) < To(n, l, k)
            /\ \A i \in 1 .. Len(r) :
                 \/ \E k \in 1 .. Len(plan) : i = To(n, l, k)
                 \/ /\ \E j \in 1 .. l : r[i] = inserted[j]
                    /\ \A k \in 1 .. Len(plan) :
                         IF k <= n THEN To(n, l, k) < i ELSE i < To(n, l, k)
<1> DEFINE r == InsertAfterIndex(plan, n, inserted)
           l == Len(inserted)
<1>1. /\ r \in Seq(S) /\ Len(r) = Len(plan) + l
      /\ \A i \in 1 .. Len(r) :
           r[i] = IF i <= n THEN plan[i]
                  ELSE IF i <= n + l THEN inserted[i - n]
                  ELSE plan[i - l]
  BY InsertedAt
<1>2. Len(plan) \in Nat /\ l \in Nat /\ n \in Nat
  OBVIOUS
<1> HIDE DEF r, l
<1>3. ASSUME NEW k \in 1 .. Len(plan)
      PROVE  To(n, l, k) \in 1 .. Len(r) /\ r[To(n, l, k)] = plan[k]
  <2>1. CASE k <= n
    <3>1. To(n, l, k) = k /\ k \in 1 .. Len(r)
      BY <1>1, <1>2, <2>1 DEF To
    <3> QED BY <1>1, <2>1, <3>1
  <2>2. CASE k > n
    <3> DEFINE i == k + l
    <3>1. To(n, l, k) = i /\ i \in 1 .. Len(r) /\ ~(i <= n) /\ ~(i <= n + l) /\ i - l = k
      BY <1>1, <1>2, <2>2 DEF To
    <3> HIDE DEF i
    <3>2. r[i] = plan[i - l]
      BY <1>1, <3>1
    <3> QED BY <3>1, <3>2
  <2> QED BY <1>2, <2>1, <2>2
<1>4. \A j, k \in 1 .. Len(plan) : j < k <=> To(n, l, j) < To(n, l, k)
  BY <1>2 DEF To
<1>5. ASSUME NEW i \in 1 .. Len(r)
      PROVE  \/ \E k \in 1 .. Len(plan) : i = To(n, l, k)
             \/ /\ \E j \in 1 .. l : r[i] = inserted[j]
                /\ \A k \in 1 .. Len(plan) :
                     IF k <= n THEN To(n, l, k) < i ELSE i < To(n, l, k)
  <2>1. CASE i <= n
    <3>1. i \in 1 .. Len(plan) /\ i = To(n, l, i)
      BY <1>1, <1>2, <2>1 DEF To
    <3> QED BY <3>1
  <2>2. CASE i > n /\ i <= n + l
    <3>1. i - n \in 1 .. l /\ r[i] = inserted[i - n]
      BY <1>1, <1>2, <2>2
    <3>2. \A k \in 1 .. Len(plan) : IF k <= n THEN To(n, l, k) < i ELSE i < To(n, l, k)
      BY <1>1, <1>2, <2>2 DEF To
    <3> QED BY <3>1, <3>2
  <2>3. CASE i > n + l
    <3>1. i - l \in 1 .. Len(plan) /\ i = To(n, l, i - l)
      BY <1>1, <1>2, <2>3 DEF To
    <3> QED BY <3>1
  <2> QED BY <1>1, <1>2, <2>1, <2>2, <2>3
<1> QED BY <1>1, <1>3, <1>4, <1>5 DEF r, l

(* The runner's steps of r are the plan's, in its order.                     *)
Woven(plan, r) ==
  /\ r \in Seq(HookSteps)
  /\ \A n \in 1 .. Len(r) :
       IF r[n].by = "runner" THEN \E k \in 1 .. Len(plan) : plan[k] = r[n]
                             ELSE r[n].id \in Places
  /\ \A k \in 1 .. Len(plan) : \E n \in 1 .. Len(r) : r[n] = plan[k]
  /\ \A m, n \in 1 .. Len(r) : r[m].by = "runner" /\ r[n].by = "runner" =>
       (m < n <=> IndexOf(plan, r[m].id) < IndexOf(plan, r[n].id))

Precedes(r, a, b) ==
  \A m, n \in 1 .. Len(r) : r[m].id = a /\ r[n].id = b => m < n

(* The project's steps for one place.                                        *)
AskedFor(place, s) ==
  s \in Seq(HookSteps) /\ \A n \in 1 .. Len(s) : s[n].by = "project" /\ s[n].id = place

LEMMA InsertWoven ==
  ASSUME NEW plan, NEW r, NEW n \in 0 .. Len(r), NEW place \in Places, NEW inserted,
         Woven(plan, r), AskedFor(place, inserted)
  PROVE  LET s == InsertAfterIndex(r, n, inserted)
         IN /\ Woven(plan, s)
            /\ \A a, b : Precedes(r, a, b) /\ place \notin {a, b} => Precedes(s, a, b)
            /\ \A a : a # place /\ (\A k \in 1 .. Len(r) : r[k].id = a => n < k)
                      /\ (\A k \in 1 .. Len(r) : r[k].id # place) => Precedes(s, place, a)
            /\ \A a : a # place /\ (\A k \in 1 .. Len(r) : r[k].id = a => k <= n)
                      /\ (\A k \in 1 .. Len(r) : r[k].id # place) => Precedes(s, a, place)
<1> DEFINE s == InsertAfterIndex(r, n, inserted)
           to(k) == To(n, Len(inserted), k)
           Old(i) == \E k \in 1 .. Len(r) : i = to(k)
           New(i) == /\ s[i].id = place /\ s[i].by = "project"
                     /\ \A k \in 1 .. Len(r) : IF k <= n THEN to(k) < i ELSE i < to(k)
<1>1. r \in Seq(HookSteps) /\ inserted \in Seq(HookSteps)
  BY DEF Woven, AskedFor
<1>2. /\ s \in Seq(HookSteps)
      /\ \A k \in 1 .. Len(r) : to(k) \in 1 .. Len(s) /\ s[to(k)] = r[k]
      /\ \A j, k \in 1 .. Len(r) : j < k <=> to(j) < to(k)
      /\ \A i \in 1 .. Len(s) :
           \/ Old(i)
           \/ /\ \E j \in 1 .. Len(inserted) : s[i] = inserted[j]
              /\ \A k \in 1 .. Len(r) : IF k <= n THEN to(k) < i ELSE i < to(k)
  BY <1>1, InsertionMoves
<1> HIDE DEF s
<1>3. \A i \in 1 .. Len(s) : Old(i) \/ New(i)
  BY <1>2 DEF AskedFor
<1>4. \A i \in 1 .. Len(s) : s[i].by = "runner" => Old(i)
  BY <1>3
<1>5. \A i \in 1 .. Len(s) : s[i].id # place => Old(i)
  BY <1>3
<1> HIDE DEF to
<1>6. Woven(plan, s)
  <2>1. ASSUME NEW i \in 1 .. Len(s)
        PROVE  IF s[i].by = "runner" THEN \E k \in 1 .. Len(plan) : plan[k] = s[i]
                                     ELSE s[i].id \in Places
    <3>1. CASE Old(i)
      <4>1. PICK k \in 1 .. Len(r) : i = to(k)
        BY <3>1
      <4>2. s[i] = r[k]
        BY <1>2, <4>1
      <4> QED BY <4>2 DEF Woven
    <3>2. CASE New(i)
      <4>1. s[i].by # "runner"
        BY <3>2
      <4> QED BY <3>2, <4>1
    <3> QED BY <1>3, <3>1, <3>2
  <2>2. ASSUME NEW k \in 1 .. Len(plan) PROVE \E i \in 1 .. Len(s) : s[i] = plan[k]
    <3>1. PICK j \in 1 .. Len(r) : r[j] = plan[k]
      BY DEF Woven
    <3> QED BY <1>2, <3>1
  <2>3. ASSUME NEW i \in 1 .. Len(s), NEW j \in 1 .. Len(s), s[i].by = "runner", s[j].by = "runner"
        PROVE  i < j <=> IndexOf(plan, s[i].id) < IndexOf(plan, s[j].id)
    <3>1. PICK a \in 1 .. Len(r) : i = to(a)
      BY <1>4, <2>3
    <3>2. PICK b \in 1 .. Len(r) : j = to(b)
      BY <1>4, <2>3
    <3>3. s[i] = r[a] /\ s[j] = r[b] /\ (a < b <=> i < j)
      BY <1>2, <3>1, <3>2
    <3> QED BY <2>3, <3>3 DEF Woven
  <2> QED BY <1>2, <2>1, <2>2, <2>3 DEF Woven
<1>7. ASSUME NEW a, NEW b, Precedes(r, a, b), a # place, b # place PROVE Precedes(s, a, b)
  <2> SUFFICES ASSUME NEW i \in 1 .. Len(s), NEW j \in 1 .. Len(s), s[i].id = a, s[j].id = b
               PROVE  i < j
    BY DEF Precedes
  <2>1. PICK k \in 1 .. Len(r) : i = to(k)
    BY <1>5, <1>7
  <2>2. PICK m \in 1 .. Len(r) : j = to(m)
    BY <1>5, <1>7
  <2> QED BY <1>2, <1>7, <2>1, <2>2 DEF Precedes
<1>8. ASSUME NEW a, a # place, \A k \in 1 .. Len(r) : r[k].id # place
      PROVE  /\ (\A k \in 1 .. Len(r) : r[k].id = a => n < k) => Precedes(s, place, a)
             /\ (\A k \in 1 .. Len(r) : r[k].id = a => k <= n) => Precedes(s, a, place)
  <2>1. ASSUME NEW i \in 1 .. Len(s), s[i].id = place PROVE New(i)
    <3>1. ~Old(i)
      BY <1>2, <1>8, <2>1
    <3> QED BY <1>3, <3>1
  <2>2. Len(r) \in Nat /\ n \in Nat
    BY <1>1
  <2>3. ASSUME NEW i \in 1 .. Len(s), NEW j \in 1 .. Len(s), s[i].id = place, s[j].id = a
        PROVE  \E k \in 1 .. Len(r) : r[k].id = a /\ IF k <= n THEN j < i ELSE i < j
    <3>1. PICK k \in 1 .. Len(r) : j = to(k)
      BY <1>5, <1>8, <2>3
    <3>2. New(i)
      BY <2>1, <2>3
    <3> QED BY <1>2, <2>3, <3>1, <3>2
  <2> QED BY <2>2, <2>3 DEF Precedes
<1> QED BY <1>6, <1>7, <1>8 DEF s

LEMMA InsertAddsNoOther ==
  ASSUME NEW r \in Seq(HookSteps), NEW n \in 0 .. Len(r), NEW place, NEW inserted,
         AskedFor(place, inserted), NEW a, a # place, \A k \in 1 .. Len(r) : r[k].id # a
  PROVE  \A k \in 1 .. Len(InsertAfterIndex(r, n, inserted)) :
           InsertAfterIndex(r, n, inserted)[k].id # a
<1> DEFINE s == InsertAfterIndex(r, n, inserted)
           to(k) == To(n, Len(inserted), k)
<1>1. inserted \in Seq(HookSteps)
  BY DEF AskedFor
<1>2. /\ \A k \in 1 .. Len(r) : s[to(k)] = r[k]
      /\ \A i \in 1 .. Len(s) :
           \/ \E k \in 1 .. Len(r) : i = to(k)
           \/ \E j \in 1 .. Len(inserted) : s[i] = inserted[j]
  BY <1>1, InsertionMoves
<1> HIDE DEF s, to
<1>3. \A k \in 1 .. Len(s) : s[k].id # a
  BY <1>2 DEF AskedFor
<1> QED BY <1>3 DEF s

(* Of a plan of the runner's own, and where the hook puts its steps.         *)
AnchorOf(target) ==
  CASE target = "android"   -> "android.launch-1"
    [] target = "simulator" -> "ios.terminate-before-launch"
    [] target = "device"    -> "ios.launch"
    [] OTHER                -> "ios.companion-start"

LaunchIds(target) ==
  {"ios.launch", "android.launch-1", "android.launch-2"} \cup
  (IF target = "plain-simulator" THEN {"ios.companion-start"} ELSE {})

LEMMA PlansOwn ==
  ASSUME NEW target \in TargetKinds
  PROVE  LET p == PlanOf(target)
         IN /\ p \in Seq(HookSteps)
            /\ \A k \in 1 .. Len(p) :
                 p[k].by = "runner" /\ p[k].id \notin Places /\ IndexOf(p, p[k].id) = k
            /\ HasStep(p, "metro.start") /\ HasStep(p, "metro.ready")
            /\ HasStep(p, AnchorOf(target))
            /\ \A k \in 1 .. Len(p) : p[k].id \in LaunchIds(target) => IndexOf(p, AnchorOf(target)) <= k
            /\ target \in {"device", "plain-simulator"} => ~HasStep(p, "ios.terminate-before-launch")
            /\ target = "plain-simulator" => ~HasStep(p, "ios.launch")
<1> DEFINE p == PlanOf(target)
<1> USE DEF PlanStep, Foreground, MetroStart, MetroReady, PortForward, CompanionStart, CompanionReady
<1>1. GoodPlan(p, target)
  BY PlansGood
<1>2. \A k \in 1 .. Len(p) : p[k].by = "runner" /\ p[k].id \notin Places
  BY DEF PlanOf, TargetKinds, Places
<1>3. \A j, k \in 1 .. Len(p) : p[j].id = p[k].id => j = k
  BY DEF PlanOf, TargetKinds
<1>4. /\ HasStep(p, "metro.start") /\ HasStep(p, "metro.ready")
      /\ HasStep(p, AnchorOf(target))
  <2>1. /\ 1 \in 1 .. Len(p) /\ p[1].id = "metro.start"
        /\ 2 \in 1 .. Len(p) /\ p[2].id = "metro.ready"
    BY DEF PlanOf, TargetKinds
  <2>2. target = "android" => 3 \in 1 .. Len(p) /\ p[3].id = AnchorOf(target)
    BY DEF PlanOf, AnchorOf
  <2>3. target = "device" => 6 \in 1 .. Len(p) /\ p[6].id = AnchorOf(target)
    BY DEF PlanOf, AnchorOf
  <2>4. target = "simulator" => 5 \in 1 .. Len(p) /\ p[5].id = AnchorOf(target)
    BY DEF PlanOf, AnchorOf
  <2>5. target = "plain-simulator" => 3 \in 1 .. Len(p) /\ p[3].id = AnchorOf(target)
    BY DEF PlanOf, AnchorOf
  <2> HIDE DEF p
  <2> QED BY <2>1, <2>2, <2>3, <2>4, <2>5 DEF HasStep, TargetKinds
<1>5. \A j, k \in 1 .. Len(p) :
        p[k].id \in LaunchIds(target) /\ p[j].id = AnchorOf(target) => j <= k
  BY DEF PlanOf, TargetKinds, LaunchIds, AnchorOf
<1>6. /\ target \in {"device", "plain-simulator"} => ~HasStep(p, "ios.terminate-before-launch")
      /\ target = "plain-simulator" => ~HasStep(p, "ios.launch")
  <2>1. target = "device" => \A k \in 1 .. Len(p) : p[k].id # "ios.terminate-before-launch"
    BY DEF PlanOf
  <2>2. target = "plain-simulator" =>
          \A k \in 1 .. Len(p) : p[k].id \notin {"ios.terminate-before-launch", "ios.launch"}
    BY DEF PlanOf
  <2> HIDE DEF p
  <2> QED BY <2>1, <2>2 DEF HasStep
<1> HIDE DEF p
<1>7. \A k \in 1 .. Len(p) : IndexOf(p, p[k].id) = k
  BY <1>3 DEF IndexOf
<1>8. IndexOf(p, AnchorOf(target)) \in 1 .. Len(p)
      /\ p[IndexOf(p, AnchorOf(target))].id = AnchorOf(target)
  BY <1>4 DEF IndexOf, HasStep
<1> QED BY <1>1, <1>2, <1>4, <1>5, <1>6, <1>7, <1>8 DEF GoodPlan, p

(* The step of an id that is a plan's own is the same one in what is woven.  *)
LEMMA WovenIndex ==
  ASSUME NEW target \in TargetKinds, NEW r, Woven(PlanOf(target), r),
         NEW id, id \notin Places
  PROVE  /\ HasStep(r, id) <=> HasStep(PlanOf(target), id)
         /\ HasStep(r, id) =>
              /\ IndexOf(r, id) \in 1 .. Len(r) /\ r[IndexOf(r, id)].id = id
              /\ \A n \in 1 .. Len(r) :
                   r[n].id = id <=> n = IndexOf(r, id)
<1> DEFINE p == PlanOf(target)
<1>1. \A k \in 1 .. Len(p) :
        p[k].by = "runner" /\ p[k].id \notin Places /\ IndexOf(p, p[k].id) = k
  BY PlansOwn
<1> HIDE DEF p
<1>2. \A n \in 1 .. Len(r) : r[n].id = id => r[n].by = "runner" /\ \E k \in 1 .. Len(p) : p[k] = r[n]
  BY DEF Woven, p
<1>3. HasStep(r, id) <=> HasStep(p, id)
  <2>1. HasStep(r, id) => HasStep(p, id)
    BY <1>2 DEF HasStep
  <2>2. HasStep(p, id) => HasStep(r, id)
    <3> SUFFICES ASSUME NEW k \in 1 .. Len(p), p[k].id = id PROVE HasStep(r, id)
      BY DEF HasStep
    <3>1. \E n \in 1 .. Len(r) : r[n] = p[k]
      BY DEF Woven, p
    <3> QED BY <3>1 DEF HasStep
  <2> QED BY <2>1, <2>2
<1>4. ASSUME NEW m \in 1 .. Len(r), NEW n \in 1 .. Len(r), r[m].id = id, r[n].id = id PROVE m = n
  <2>1. r[m].by = "runner" /\ r[n].by = "runner"
    BY <1>2, <1>4
  <2>2. /\ m < n <=> IndexOf(p, r[m].id) < IndexOf(p, r[n].id)
        /\ n < m <=> IndexOf(p, r[n].id) < IndexOf(p, r[m].id)
    BY <2>1 DEF Woven, p
  <2>3. \E k \in 1 .. Len(p) : p[k].id = id
    BY <1>2, <1>4
  <2>4. IndexOf(p, id) \in 1 .. Len(p) /\ r \in Seq(HookSteps)
    BY <1>1, <2>3 DEF Woven, p
  <2>5. PlanOf(target) \in Seq(HookSteps)
    BY PlansOwn
  <2>6. IndexOf(p, id) \in Nat /\ m \in Nat /\ n \in Nat
    BY <2>4, <2>5 DEF p
  <2> QED BY <1>4, <2>2, <2>6
<1>5. HasStep(r, id) => IndexOf(r, id) \in 1 .. Len(r) /\ r[IndexOf(r, id)].id = id
  BY DEF HasStep, IndexOf
<1> QED BY <1>3, <1>4, <1>5 DEF p

(* For each target the first anchor that is there is that of the first step  *)
(* that launches the app.                                                    *)
LEMMA FirstAnchor ==
  ASSUME NEW target \in TargetKinds, NEW r, Woven(PlanOf(target), r)
  PROVE  (IF target = "android" THEN "android.launch-1"
          ELSE FirstExistingStep(r, <<"ios.terminate-before-launch", "ios.launch",
                                      "ios.companion-start">>)) = AnchorOf(target)
<1> DEFINE as == <<"ios.terminate-before-launch", "ios.launch", "ios.companion-start">>
           isFirst(n) == HasStep(r, as[n]) /\ \A m \in 1 .. n - 1 : ~HasStep(r, as[m])
<1>1. CASE target = "android"
  BY <1>1 DEF AnchorOf
<1>2. CASE target # "android"
  <2>1. /\ as[1] = "ios.terminate-before-launch" /\ as[2] = "ios.launch"
        /\ as[3] = "ios.companion-start" /\ Len(as) = 3
    OBVIOUS
  <2> HIDE DEF as
  <2>2. /\ HasStep(r, as[1]) <=> HasStep(PlanOf(target), as[1])
        /\ HasStep(r, as[2]) <=> HasStep(PlanOf(target), as[2])
        /\ HasStep(r, as[3]) <=> HasStep(PlanOf(target), as[3])
    <3>1. as[1] \notin Places /\ as[2] \notin Places /\ as[3] \notin Places
      BY <2>1 DEF Places
    <3> QED BY <3>1, WovenIndex
  <2>3. HasStep(PlanOf(target), AnchorOf(target))
    BY PlansOwn
  <2>4. \E n \in 1 .. 3 : isFirst(n) /\ as[n] = AnchorOf(target)
    <3>0. 1 .. 1 - 1 = {} /\ 1 .. 2 - 1 = {1} /\ 1 .. 3 - 1 = {1, 2}
      OBVIOUS
    <3>1. CASE target = "simulator"
      <4>1. as[1] = AnchorOf(target)
        BY <2>1, <3>1 DEF AnchorOf
      <4>2. HasStep(r, as[1])
        BY <2>2, <2>3, <4>1
      <4>3. \A m \in 1 .. 1 - 1 : ~HasStep(r, as[m])
        BY <3>0, <2>1, <2>2
      <4>4. isFirst(1)
        BY <4>2, <4>3
      <4>5. 1 \in 1 .. 3
        OBVIOUS
      <4> HIDE DEF isFirst
      <4> QED BY <4>1, <4>4, <4>5
    <3>2. CASE target = "device"
      <4>0. ~HasStep(PlanOf(target), "ios.terminate-before-launch")
        BY <3>2, PlansOwn
      <4>1. as[2] = AnchorOf(target)
        BY <2>1, <3>2 DEF AnchorOf
      <4>2. HasStep(r, as[2])
        BY <2>2, <2>3, <4>1
      <4>3. \A m \in 1 .. 2 - 1 : ~HasStep(r, as[m])
        BY <3>0, <2>1, <2>2, <4>0
      <4>4. isFirst(2)
        BY <4>2, <4>3
      <4>5. 2 \in 1 .. 3
        OBVIOUS
      <4> HIDE DEF isFirst
      <4> QED BY <4>1, <4>4, <4>5
    <3>3. CASE target = "plain-simulator"
      <4>0. /\ ~HasStep(PlanOf(target), "ios.terminate-before-launch")
            /\ ~HasStep(PlanOf(target), "ios.launch")
        BY <3>3, PlansOwn
      <4>1. as[3] = AnchorOf(target)
        BY <2>1, <3>3 DEF AnchorOf
      <4>2. HasStep(r, as[3])
        BY <2>2, <2>3, <4>1
      <4>3. \A m \in 1 .. 3 - 1 : ~HasStep(r, as[m])
        BY <3>0, <2>1, <2>2, <4>0
      <4>4. isFirst(3)
        BY <4>2, <4>3
      <4>5. 3 \in 1 .. 3
        OBVIOUS
      <4> HIDE DEF isFirst
      <4> QED BY <4>1, <4>4, <4>5
    <3> QED BY <1>2, <3>1, <3>2, <3>3 DEF TargetKinds
  <2>5. \A m, n \in 1 .. 3 : isFirst(m) /\ isFirst(n) => m = n
    <3>1. ASSUME NEW m \in 1 .. 3, NEW n \in 1 .. 3, isFirst(m), isFirst(n), m < n PROVE FALSE
      <4>1. m \in 1 .. n - 1
        BY <3>1
      <4> QED BY <3>1, <4>1
    <3>2. \A m, n \in 1 .. 3 : m < n \/ n < m \/ m = n
      OBVIOUS
    <3> HIDE DEF isFirst
    <3> QED BY <3>1, <3>2
  <2>6. FirstExistingStep(r, as) = as[CHOOSE n \in 1 .. 3 : isFirst(n)]
    BY <2>1 DEF FirstExistingStep
  <2> HIDE DEF isFirst
  <2>7. as[CHOOSE n \in 1 .. 3 : isFirst(n)] = AnchorOf(target)
    BY <2>4, <2>5
  <2> QED BY <1>2, <2>6, <2>7 DEF as
<1> QED BY <1>1, <1>2

(* SPEC.md REQ-HOOK-006 of what the hook makes of a plan.                    *)
LEMMA HookedPlanInPlace ==
  ASSUME NEW target \in TargetKinds, NEW c \in Contributions
  PROVE  LET r == ApplyTargetHook(target, c)
         IN /\ Woven(PlanOf(target), r)
            /\ Precedes(r, "beforeMetro", "metro.start")
            /\ Precedes(r, "metro.ready", "afterMetroReady")
            /\ \A id \in LaunchIds(target) : Precedes(r, "beforeLaunch", id)
<1> DEFINE p == PlanOf(target)
           first == InsertBefore(p, "metro.start", c.beforeMetro)
           metro == InsertAfter(first, "metro.ready", c.afterMetroReady)
           anchor == AnchorOf(target)
           r == InsertBefore(metro, anchor, c.beforeLaunch)
<1>1. ASSUME NEW place \in Places PROVE AskedFor(place, c[place])
  <2> DEFINE S == [id : {place}, does : {"run", "start"}, key : ProcessKeys, by : {"project"}]
  <2>1. c[place] \in Seq(S)
    BY HookInputs
  <2>2. S \subseteq HookSteps /\ \A s \in S : s.by = "project" /\ s.id = place
    BY DEF HookSteps, Ids, Sides
  <2> HIDE DEF S
  <2>3. \A n \in 1 .. Len(c[place]) : c[place][n] \in S
    BY <2>1
  <2>4. c[place] \in Seq(HookSteps)
    BY <2>1, <2>2
  <2> QED BY <2>2, <2>3, <2>4 DEF AskedFor
<1>2. /\ AskedFor("beforeMetro", c.beforeMetro) /\ AskedFor("afterMetroReady", c.afterMetroReady)
      /\ AskedFor("beforeLaunch", c.beforeLaunch)
  BY <1>1 DEF Places
<1>3. \A k \in 1 .. Len(p) : p[k].by = "runner" /\ p[k].id \notin Places /\ IndexOf(p, p[k].id) = k
  BY PlansOwn
<1>4. p \in Seq(HookSteps) /\ Len(p) \in Nat
  BY PlansOwn
<1>5. Woven(p, p)
  <2> HIDE DEF p
  <2> QED BY <1>3, <1>4 DEF Woven
<1>6. /\ HasStep(p, "metro.start") /\ HasStep(p, "metro.ready") /\ HasStep(p, anchor)
  BY PlansOwn
<1>7. {"metro.start", "metro.ready", anchor} \cap Places = {}
      /\ LaunchIds(target) \cap Places = {}
  BY DEF AnchorOf, LaunchIds, Places
<1>8. ASSUME NEW q, Woven(p, q), NEW id, HasStep(p, id), id \notin Places
      PROVE  /\ IndexOf(q, id) \in 0 .. Len(q) /\ IndexOf(q, id) - 1 \in 0 .. Len(q)
             /\ \A k \in 1 .. Len(q) : q[k].id = id <=> k = IndexOf(q, id)
  <2>1. /\ IndexOf(q, id) \in 1 .. Len(q)
        /\ \A k \in 1 .. Len(q) : q[k].id = id <=> k = IndexOf(q, id)
    BY <1>8, WovenIndex
  <2>2. Len(q) \in Nat
    BY <1>8 DEF Woven
  <2> QED BY <2>1, <2>2
<1>9. ASSUME NEW q, Woven(p, q), NEW k \in 1 .. Len(q), q[k].id \in LaunchIds(target)
      PROVE  IndexOf(q, anchor) <= k
  <2>1. q[k].id \notin Places
    BY <1>7, <1>9
  <2>2. q[k].by = "runner" /\ \E j \in 1 .. Len(p) : p[j] = q[k]
    BY <1>9, <2>1 DEF Woven
  <2>3. PICK j \in 1 .. Len(p) : p[j] = q[k]
    BY <2>2
  <2>4. IndexOf(p, anchor) <= j /\ IndexOf(p, q[k].id) = j
    BY <1>3, <1>9, <2>3, PlansOwn
  <2>5. IndexOf(q, anchor) \in 1 .. Len(q) /\ q[IndexOf(q, anchor)].id = anchor
        /\ anchor \notin Places
    BY <1>6, <1>7, <1>9, WovenIndex
  <2>6. q[IndexOf(q, anchor)].by = "runner"
    BY <1>9, <2>5 DEF Woven
  <2>7. k < IndexOf(q, anchor) <=> IndexOf(p, q[k].id) < IndexOf(p, anchor)
    BY <1>9, <2>2, <2>5, <2>6 DEF Woven
  <2>8. Len(q) \in Nat
    BY <1>9 DEF Woven
  <2>9. IndexOf(p, anchor) \in 1 .. Len(p)
    BY <1>6 DEF IndexOf, HasStep
  <2> HIDE DEF p, anchor
  <2> QED BY <1>4, <2>4, <2>5, <2>7, <2>8, <2>9
<1>10. \A k \in 1 .. Len(p) : p[k].id \notin Places
  BY <1>3
<1> HIDE DEF p, anchor
<1>11. /\ Woven(p, first) /\ Precedes(first, "beforeMetro", "metro.start")
       /\ \A k \in 1 .. Len(first) : first[k].id \notin {"afterMetroReady", "beforeLaunch"}
  <2> DEFINE n == IndexOf(p, "metro.start") - 1
  <2>1. n \in 0 .. Len(p) /\ \A k \in 1 .. Len(p) : p[k].id = "metro.start" => n < k
    BY <1>4, <1>5, <1>6, <1>7, <1>8
  <2>2. first = InsertAfterIndex(p, n, c.beforeMetro)
    BY DEF InsertBefore
  <2> HIDE DEF n, first
  <2>3. "beforeMetro" \in Places
    BY DEF Places
  <2>4. \A k \in 1 .. Len(p) : p[k].id \notin {"beforeMetro", "afterMetroReady", "beforeLaunch"}
    BY <1>10 DEF Places
  <2>5. Woven(p, first) /\ Precedes(first, "beforeMetro", "metro.start")
    BY <1>2, <1>5, <2>1, <2>2, <2>3, <2>4, InsertWoven
  <2>6. \A k \in 1 .. Len(first) : first[k].id # "afterMetroReady"
    <3> DEFINE longer == InsertAfterIndex(p, n, c.beforeMetro)
    <3>1. \A k \in 1 .. Len(p) : p[k].id # "afterMetroReady"
      BY <2>4
    <3>2. \A k \in 1 .. Len(longer) : longer[k].id # "afterMetroReady"
      BY <1>2, <1>4, <2>1, <3>1, InsertAddsNoOther
    <3> HIDE DEF longer
    <3>3. first = longer
      BY <2>2 DEF longer
    <3> QED BY <3>2, <3>3
  <2>7. \A k \in 1 .. Len(first) : first[k].id # "beforeLaunch"
    <3> DEFINE longer == InsertAfterIndex(p, n, c.beforeMetro)
    <3>1. \A k \in 1 .. Len(p) : p[k].id # "beforeLaunch"
      BY <2>4
    <3>2. \A k \in 1 .. Len(longer) : longer[k].id # "beforeLaunch"
      BY <1>2, <1>4, <2>1, <3>1, InsertAddsNoOther
    <3> HIDE DEF longer
    <3>3. first = longer
      BY <2>2 DEF longer
    <3> QED BY <3>2, <3>3
  <2> QED BY <2>5, <2>6, <2>7
<1> HIDE DEF first
<1>12. /\ Woven(p, metro) /\ Precedes(metro, "beforeMetro", "metro.start")
       /\ Precedes(metro, "metro.ready", "afterMetroReady")
       /\ \A k \in 1 .. Len(metro) : metro[k].id # "beforeLaunch"
  <2> DEFINE n == IndexOf(first, "metro.ready")
  <2>1. n \in 0 .. Len(first) /\ \A k \in 1 .. Len(first) : first[k].id = "metro.ready" => k <= n
    BY <1>6, <1>7, <1>8, <1>11
  <2>2. metro = InsertAfterIndex(first, n, c.afterMetroReady)
    BY DEF InsertAfter
  <2> HIDE DEF n, metro
  <2>3. "afterMetroReady" \in Places
    BY DEF Places
  <2>4. /\ Woven(p, metro) /\ Precedes(metro, "beforeMetro", "metro.start")
        /\ Precedes(metro, "metro.ready", "afterMetroReady")
    BY <1>2, <1>11, <2>1, <2>2, <2>3, InsertWoven
  <2>5. first \in Seq(HookSteps) /\ \A k \in 1 .. Len(first) : first[k].id # "beforeLaunch"
    BY <1>11 DEF Woven
  <2>6. \A k \in 1 .. Len(metro) : metro[k].id # "beforeLaunch"
    <3> DEFINE longer == InsertAfterIndex(first, n, c.afterMetroReady)
    <3>1. \A k \in 1 .. Len(first) : first[k].id # "beforeLaunch"
      BY <2>5
    <3>2. \A k \in 1 .. Len(longer) : longer[k].id # "beforeLaunch"
      BY <1>2, <2>1, <2>5, <3>1, InsertAddsNoOther
    <3> HIDE DEF longer
    <3>3. metro = longer
      BY <2>2 DEF longer
    <3> QED BY <3>2, <3>3
  <2> QED BY <2>4, <2>6
<1> HIDE DEF metro
<1>13. /\ Woven(p, r) /\ Precedes(r, "beforeMetro", "metro.start")
       /\ Precedes(r, "metro.ready", "afterMetroReady")
       /\ \A id \in LaunchIds(target) : Precedes(r, "beforeLaunch", id)
  <2> DEFINE n == IndexOf(metro, anchor) - 1
  <2>1. n \in 0 .. Len(metro) /\ Len(metro) \in Nat
    BY <1>6, <1>7, <1>8, <1>12 DEF Woven
  <2>2. \A id \in LaunchIds(target) : \A k \in 1 .. Len(metro) : metro[k].id = id => n < k
    <3> TAKE id \in LaunchIds(target)
    <3> TAKE k \in 1 .. Len(metro)
    <3> HAVE metro[k].id = id
    <3>1. metro[k].id \in LaunchIds(target)
      OBVIOUS
    <3>2. IndexOf(metro, anchor) <= k
      BY <1>9, <1>12, <3>1
    <3>3. IndexOf(metro, anchor) \in Int /\ k \in Int
      BY <1>6, <1>7, <1>8, <1>12
    <3> QED BY <3>2, <3>3
  <2>3. r = InsertAfterIndex(metro, n, c.beforeLaunch)
    BY DEF InsertBefore
  <2> HIDE DEF n, r
  <2>4. "beforeLaunch" \in Places
    BY DEF Places
  <2>5. \A id \in LaunchIds(target) : id # "beforeLaunch"
    BY <1>7, <2>4
  <2> QED BY <1>2, <1>12, <2>1, <2>2, <2>3, <2>4, <2>5, InsertWoven
<1>14. ApplyTargetHook(target, c) = r
  BY <1>12, FirstAnchor DEF ApplyTargetHook, p, first, metro, anchor
<1> QED BY <1>13, <1>14 DEF p

LEMMA StartsInPlace == HookInit => HooksInPlace
BY DEF HookInit, HooksInPlace

LEMMA StaysInPlace == HookInv /\ HooksInPlace /\ [HookNext]_hookVars => HooksInPlace'
<1> SUFFICES ASSUME HookInv, HooksInPlace, [HookNext]_hookVars, stage' = "step" PROVE HooksInPlace'
  BY DEF HooksInPlace
<1>1. CASE TakesHook
  <2>1. PICK c \in Contributions : steps' = ApplyTargetHook(Target, c)
    BY <1>1 DEF TakesHook
  <2>2. Target \in TargetKinds /\ Target' = Target
    BY <1>1, HookInputs DEF TakesHook, HookInv, HookTypes, Target
  <2> DEFINE r == steps'
             p == PlanOf(Target)
  <2>3. /\ Woven(p, r)
        /\ Precedes(r, "beforeMetro", "metro.start")
        /\ Precedes(r, "metro.ready", "afterMetroReady")
        /\ \A id \in LaunchIds(Target) : Precedes(r, "beforeLaunch", id)
    BY <2>1, <2>2, HookedPlanInPlace
  <2>4. p \in Seq(HookSteps) /\ \A k \in 1 .. Len(p) : p[k].by = "runner"
    BY <2>2, PlansOwn
  <2> HIDE DEF r, p
  <2>5. DOMAIN r = 1 .. Len(r) /\ DOMAIN p = 1 .. Len(p)
    BY <2>3, <2>4 DEF Woven
  <2> DEFINE Its == {n \in DOMAIN r : r[n].by = "runner"}
  <2>6. {r[n] : n \in Its} = {p[n] : n \in DOMAIN p}
    <3>1. \A n \in Its : \E k \in DOMAIN p : r[n] = p[k]
      BY <2>3, <2>5 DEF Woven
    <3>2. \A k \in DOMAIN p : \E n \in Its : r[n] = p[k]
      BY <2>3, <2>4, <2>5 DEF Woven
    <3> QED BY <3>1, <3>2
  <2>7. \A m, n \in Its : m < n <=> IndexOf(p, r[m].id) < IndexOf(p, r[n].id)
    BY <2>3, <2>5 DEF Woven
  <2>8. \A m, n \in DOMAIN r :
          /\ r[m].id = "beforeMetro" /\ r[n].id = "metro.start" => m < n
          /\ r[m].id = "afterMetroReady" /\ r[n].id = "metro.ready" => m > n
          /\ r[m].id = "beforeLaunch" /\ Launches(Target, r[n]) => m < n
    <3>1. \A n \in DOMAIN r : Launches(Target, r[n]) <=> r[n].id \in LaunchIds(Target)
      BY DEF Launches, LaunchIds
    <3> QED BY <2>3, <2>5, <3>1 DEF Precedes
  <2> QED BY <2>2, <2>6, <2>7, <2>8 DEF HooksInPlace, r, p
<1>2. CASE ~TakesHook
  <2>1. stage = "step" /\ steps' = steps /\ Target' = Target
    BY <1>2 DEF HookNext, hookVars, HookThrows, RunsForeground, SkipsMetro, Spawns, SpawnFails, ErrorComes,
       Waits, RunsPlaywright, ProjectCleansUp, KillsNothing, KillsHandle, Sweeps, NextTarget,
       SignalComes, GroupDies, AtHookStep, AtKill, GoesOn, Aborts, keepPlan, keepProcesses, Target
  <2> QED BY <2>1 DEF HooksInPlace
<1> QED BY <1>1, <1>2

(* What HookTypeOK says and HookInv does not: how far the runner gets, and   *)
(* whose a handle is.                                                        *)
NextBounded ==
  /\ Len(steps) \in Nat
  /\ next <= Len(steps) + cleanups + 4
  /\ stage = "cleanup" => next <= AllActions + 1
HandlesOfLeg == \A k \in ProcessKeys : handles[k] \in HookGroups => handles[k].leg = leg

LEMMA KilledFew == Len(KilledKeys(Target)) \in 2 .. 3
<1>1. Len(<<"ios-port-forward", "companion", "metro">>) = 3 /\ Len(<<"companion", "metro">>) = 2
  OBVIOUS
<1> QED BY <1>1 DEF KilledKeys

LEMMA BoundKept == HookInv /\ NextBounded /\ [HookNext]_hookVars => NextBounded'
<1> SUFFICES ASSUME HookInv, NextBounded, [HookNext]_hookVars PROVE NextBounded'
  OBVIOUS
<1> DEFINE few == Len(KilledKeys(Target))
<1>1. /\ next \in Nat /\ cleanups \in Nat /\ Len(steps) \in Nat
      /\ next <= Len(steps) + cleanups + 4
      /\ stage = "step" => next <= Len(steps)
      /\ stage = "cleanup" => next <= cleanups + few + 1
  BY DEF HookInv, HookTypes, NextBounded, AllActions
<1>2. few \in 2 .. 3
  BY KilledFew
<1>3. HookInv'
  BY HookStepKeeps
<1>4. next' \in Nat /\ cleanups' \in Nat
  BY <1>3 DEF HookInv, HookTypes
<1> HIDE DEF few
<1>5. CASE TakesHook
  <2>1. stage' = "step" /\ next' = 1
    BY <1>5 DEF TakesHook
  <2>2. GoodPlan(steps, Target)'
    BY <1>3, <2>1 DEF HookInv, HookTypes, Running
  <2>3. Len(steps)' \in Nat
    BY <2>2 DEF GoodPlan
  <2> QED BY <1>4, <2>1, <2>3 DEF NextBounded
<1>6. CASE NextTarget
  <2>1. steps' = <<>> /\ cleanups' = 0 /\ next' = 1 /\ stage' \in {"begin", "ended"}
    BY <1>6 DEF NextTarget
  <2> QED BY <2>1 DEF NextBounded
<1>7. CASE ~TakesHook /\ ~NextTarget
  <2>1. UNCHANGED <<steps, cleanups, targets, leg>>
    BY <1>7 DEF HookNext, hookVars, HookThrows, RunsForeground, SkipsMetro, Spawns, SpawnFails,
       ErrorComes, Waits, RunsPlaywright, ProjectCleansUp, KillsNothing, KillsHandle, Sweeps,
       SignalComes, GroupDies, keepPlan
  <2>2. few' = few /\ AllActions' = cleanups + few
    BY <2>1 DEF few, AllActions, Target
  <2>3. \/ next' = 1
        \/ stage = "step" /\ stage' = "step" /\ next' = next + 1 /\ next < Len(steps)
        \/ stage = "cleanup" /\ next <= cleanups + few /\ next' = next + 1
        \/ next' = next /\ (stage' = "cleanup" => stage = "cleanup")
    <3>1. CASE RunsForeground \/ SkipsMetro \/ Spawns \/ SpawnFails \/ Waits
      BY <3>1 DEF RunsForeground, SkipsMetro, Spawns, SpawnFails, Waits, AtHookStep, GoesOn, Aborts
    <3>2. CASE RunsPlaywright \/ HookThrows \/ Sweeps \/ SignalComes
      BY <3>2 DEF RunsPlaywright, HookThrows, Sweeps, SignalComes
    <3>3. CASE ErrorComes \/ GroupDies \/ UNCHANGED hookVars
      BY <3>3 DEF ErrorComes, GroupDies, hookVars
    <3>4. CASE ProjectCleansUp
      BY <1>1, <1>2, <3>4 DEF ProjectCleansUp
    <3>5. CASE KillsNothing \/ KillsHandle
      BY <3>5 DEF KillsNothing, KillsHandle, AtKill, AllActions, few
    <3> QED BY <1>7, <3>1, <3>2, <3>3, <3>4, <3>5 DEF HookNext
  <2> QED BY <1>1, <1>2, <1>4, <2>1, <2>2, <2>3 DEF NextBounded
<1> QED BY <1>5, <1>6, <1>7

LEMMA HandlesStay == HookInv /\ HandlesOfLeg /\ [HookNext]_hookVars => HandlesOfLeg'
<1> SUFFICES ASSUME HookInv, HandlesOfLeg, [HookNext]_hookVars, NEW k \in ProcessKeys,
                    handles'[k] \in HookGroups
             PROVE  handles'[k].leg = leg'
  BY DEF HandlesOfLeg
<1>1. Nothing \notin HookGroups /\ handles \in [ProcessKeys -> Entries]
  BY DEF Nothing, HookGroups, HookInv, HookTypes
<1>2. CASE TakesHook \/ NextTarget
  BY <1>1, <1>2 DEF TakesHook, NextTarget
<1>3. CASE Spawns
  BY <1>1, <1>3 DEF Spawns, HandlesOfLeg, GroupOf, keepPlan
<1>4. CASE SpawnFails
  <2>1. NoPid(Now) \notin HookGroups
    BY DEF NoPid, HookGroups
  <2> QED BY <1>1, <1>4, <2>1 DEF SpawnFails, HandlesOfLeg, keepPlan, keepProcesses
<1>5. CASE ~(TakesHook \/ NextTarget \/ Spawns \/ SpawnFails)
  <2>1. UNCHANGED <<handles, leg>>
    BY <1>5 DEF HookNext, hookVars, HookThrows, RunsForeground, SkipsMetro,
       ErrorComes, Waits, RunsPlaywright, ProjectCleansUp, KillsNothing, KillsHandle, Sweeps,
       SignalComes, GroupDies, keepPlan, keepProcesses
  <2> QED BY <2>1 DEF HandlesOfLeg
<1> QED BY <1>2, <1>3, <1>4, <1>5

HooksInv == HookInv /\ HooksInPlace /\ NextBounded /\ HandlesOfLeg

LEMMA HooksStart == HookInit => HooksInv
<1>1. HookInit => NextBounded /\ HandlesOfLeg
  <2> SUFFICES ASSUME HookInit PROVE NextBounded /\ HandlesOfLeg
    OBVIOUS
  <2>1. Nothing \notin HookGroups
    BY DEF Nothing, HookGroups
  <2> QED BY <2>1 DEF HookInit, NextBounded, HandlesOfLeg
<1> QED BY <1>1, HookStarts, StartsInPlace DEF HooksInv

LEMMA HooksKeep == HooksInv /\ [HookNext]_hookVars => HooksInv'
BY HookStepKeeps, StaysInPlace, BoundKept, HandlesStay DEF HooksInv

LEMMA HooksInvTyped == HooksInv => HookTypeOK
<1> SUFFICES ASSUME HooksInv PROVE HookTypeOK
  OBVIOUS
<1>1. next \in 1 .. Len(steps) + cleanups + 4
  BY DEF HooksInv, HookInv, HookTypes, NextBounded
<1>2. leg \in DOMAIN targets
  <2>1. targets \in Seq(TargetKinds) /\ leg \in 1 .. Len(targets)
    BY HookInputs DEF HooksInv, HookInv, HookTypes
  <2> QED BY <2>1
<1>3. ASSUME NEW k \in ProcessKeys
      PROVE  /\ handles[k].entry \in {"none", "failed", "group"}
             /\ tracked[k].entry = "group" => tracked[k].key = k
             /\ handles[k].entry = "group" => handles[k].key = k /\ handles[k].leg = leg
  <2>1. handles[k] \in Entries /\ tracked[k] \in Entries
    BY DEF HooksInv, HookInv, HookTypes
  <2>2. \A e \in Entries : e.entry \in {"none", "failed", "group"} /\ (e.entry = "group" => e \in HookGroups)
    BY DEF Entries, HookGroups, Nothing
  <2> QED BY <2>1, <2>2 DEF HooksInv, HookInv, Entered, HandlesOfLeg
<1>4. erring \subseteq [key : ProcessKeys, by : {"runner", "project"}]
  BY DEF HooksInv, HookInv, HookTypes, Sides
<1> QED BY <1>1, <1>2, <1>3, <1>4 DEF HookTypeOK, HooksInv, HookInv, HookTypes

LEMMA HooksInvKept == HooksInv => HooksKept
<1>1. HookInv => OwnGroupsEnded
  <2> SUFFICES ASSUME HookInv, stage = "swept", NEW g \in live \ displaced PROVE g.by = "project"
    BY DEF OwnGroupsEnded
  <2>1. stage \notin Running
    BY DEF Running
  <2>2. g.by \in Sides
    BY DEF HookInv, HookTypes, HookGroups
  <2> QED BY <2>1, <2>2, NoneOwnOutside DEF Sides
<1> QED BY <1>1 DEF HooksInv, HookInv, HooksKept

-----------------------------------------------------------------------------
(* For any targets and contributions: what lives has its place in the map    *)
(* the signal handlers and kill() work from (process-runner.ts), or lost it  *)
(* to a process under the same key, one of the two being the project's.      *)
THEOREM NoneIsForgotten == HookSpec => []NoneForgotten
<1>1. HookInv => NoneForgotten
  BY DEF HookInv
<1> QED BY <1>1, HookStarts, HookStepKeeps, PTL DEF HookSpec

(* When executePlan is over, the runner's own are: whatever steps the        *)
(* project put between its own, and whichever step failed.                   *)
THEOREM OwnAreEnded == HookSpec => []OwnGroupsEnded
<1>1. HooksInv => OwnGroupsEnded
  BY HooksInvKept DEF HooksKept
<1> QED BY <1>1, HooksStart, HooksKeep, PTL DEF HookSpec

(* For any targets and contributions: every variable keeps its type, no step *)
(* is run that is not there, and no handle of an earlier target is left      *)
(* (execute.ts, process-runner.ts).                                          *)
THEOREM HooksAreTyped == HookSpec => []HookTypeOK
BY HooksStart, HooksKeep, HooksInvTyped, PTL DEF HookSpec

(* Whatever is contributed, the project's steps are where they were asked    *)
(* for and the runner's own are all there, once and in their order           *)
(* (insertHookSteps of target-hooks.ts, SPEC.md REQ-HOOK-006).               *)
THEOREM HooksAreInPlace == HookSpec => []HooksInPlace
<1>1. HooksInv => HooksInPlace
  BY DEF HooksInv
<1> QED BY <1>1, HooksStart, HooksKeep, PTL DEF HookSpec
=============================================================================
