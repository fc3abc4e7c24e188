-------------------------- MODULE CdpEvaluateProofs --------------------------
(* What is proved of device.evaluate and of the choice of its runtime.       *)
(* For any number of calls, polls and reloads: an evaluation has its own value, and one that ended with the     *)
(* outcome of its expression left nothing in the app. The invariant says how *)
(* far a call's phase, the request at the runtime, the answer under way and  *)
(* the global of the call can be apart: a request that was given up still    *)
(* runs, but only a call that gave up leaves one. For any runtimes, options  *)
(* and changes of Metro's list: evaluate and device.files speak to the same  *)
(* device, and a name decides whatever the order of the list.                *)
EXTENDS MCCdp, FiniteSetTheorems, TLAPS

Replies == [what : {"none", "value", "error", "async", "pending", "ok"},
            of : {Nothing, Garbage} \union Evals]
Entries == [state : {"absent", "pending", "value", "error"}, of : {Nothing} \union Evals]

(* The request that may still be at the runtime, and the answer that may be  *)
(* under way, for a call in each phase.                                      *)
Asked(p, kind) ==
  \/ kind = "none"
  \/ kind = "await"  /\ p \in {"awaiting", "gaveUp"}
  \/ kind = "start"  /\ p \in {"starting", "gaveUp"}
  \/ kind = "poll"   /\ p \in {"polling", "gaveUp"}
  \/ kind = "delete" /\ p \in {"deleting", "gaveUp"}
  \/ kind = "trace"  /\ p \in {"tracing", "resolved"}

Answered(p, what) ==
  /\ p = "awaiting" => what \in {"none", "value", "error"}
  /\ p = "starting" => what \in {"none", "value", "error", "async"}
  /\ p = "polling"  => what \in {"none", "value", "error", "pending"}

(* An outcome that is under way to a call that waits for it.                 *)
OutcomeComes(e) ==
  AwaitsOutcome(e) /\ reply[e].what \in {"value", "error"}

(* A value that the call may return: its own, or a promise object from a     *)
(* runtime that is not the one that was probed.                              *)
MayReturn(e, v) == v = e \/ (v = Garbage /\ believed /\ reloads > 0)

(* The probe is the one of the first runtime.                                *)
Probed ==
  /\ connected => checked
  /\ believed => checked
  /\ believed /\ reloads = 0 => native

OneRequest(e) ==
  /\ request[e] = "none" \/ reply[e].what = "none"
  /\ Asked(phase[e], request[e])
  /\ Answered(phase[e], reply[e].what)
  /\ request[e] = "await" => believed

GotOwn(e) ==
  /\ got[e] # Nothing <=> phase[e] \in {"tracing", "resolved"}
  /\ got[e] # Nothing => MayReturn(e, got[e])
  /\ OutcomeComes(e) /\ reply[e].what = "value" => MayReturn(e, reply[e].of)

Unstashed(e) == stash[e].state = "absent" /\ appPromise[e] # "pending"

StashOwn(e) ==
  /\ stash[e].state # "absent" => stash[e].of = e
  /\ stash[e].state \in {"value", "error"} => appPromise[e] = "settled"
  /\ phase[e] \in {"idle", "awaiting", "tracing", "resolved", "threw"} => Unstashed(e)
  /\ phase[e] = "starting" /\ request[e] = "start" => Unstashed(e)
  /\ OutcomeComes(e) => Unstashed(e)

CallOK(e) == OneRequest(e) /\ GotOwn(e) /\ StashOwn(e)

EvInv ==
  /\ EvTypeOK
  /\ Probed
  /\ \A e \in Evals : CallOK(e)

-----------------------------------------------------------------------------
(* Nothing and the promise object are no calls' values.                      *)
LEMMA Values == Nothing \notin Evals /\ Garbage \notin Evals /\ Garbage # Nothing
BY EvBounds DEF Evals, Nothing, Garbage

LEMMA InitInv == EvInit => EvInv
<1> SUFFICES ASSUME EvInit PROVE EvInv
  OBVIOUS
<1>1. EvTypeOK
  <2>1. phase \in [Evals -> Phases] /\ got \in [Evals -> {Nothing, Garbage} \union Evals]
    BY DEF EvInit, Phases
  <2>2. reply \in [Evals -> Replies] /\ stash \in [Evals -> Entries]
    BY DEF EvInit, NoReply, Absent, Replies, Entries
  <2>3. polls \in [Evals -> 0..MaxPolls] /\ reloads \in 0..MaxReloads
    BY EvBounds DEF EvInit
  <2> QED BY <2>1, <2>2, <2>3 DEF EvInit, EvTypeOK, Replies, Entries
<1>2. Probed
  BY DEF EvInit, Probed
<1>3. ASSUME NEW e \in Evals PROVE CallOK(e)
  BY DEF EvInit, CallOK, OneRequest, GotOwn, StashOwn, Unstashed, OutcomeComes, AwaitsOutcome, NoReply, Absent,
     Asked, Answered
<1> QED BY <1>1, <1>2, <1>3 DEF EvInv

-----------------------------------------------------------------------------
(* A step that only the e-th call takes leaves the other calls as they are.  *)
OnlyCall(e) ==
  /\ \A f \in Evals \ {e} :
       /\ phase'[f] = phase[f] /\ got'[f] = got[f] /\ request'[f] = request[f]
       /\ reply'[f] = reply[f] /\ appPromise'[f] = appPromise[f] /\ stash'[f] = stash[f]
  /\ UNCHANGED <<connected, checked, believed, native, reloads>>

LEMMA OneCall ==
  ASSUME EvInv, NEW e \in Evals, OnlyCall(e), EvTypeOK', CallOK(e)'
  PROVE  EvInv'
<1>1. Probed'
  BY DEF EvInv, Probed, OnlyCall
<1>2. ASSUME NEW f \in Evals \ {e} PROVE CallOK(f)'
  BY DEF EvInv, OnlyCall, CallOK, OneRequest, GotOwn, StashOwn, MayReturn, Unstashed, OutcomeComes,
     AwaitsOutcome
<1> QED BY <1>1, <1>2 DEF EvInv

(* Sending and ending change the maps of the call in their ranges.           *)
Kinds == {"none", "await", "start", "poll", "delete", "trace"}
Talk  == /\ phase \in [Evals -> Phases]
         /\ request \in [Evals -> Kinds]
         /\ reply \in [Evals -> Replies]

LEMMA TalkTypes ==
  ASSUME EvInv, NEW e \in Evals, NEW kind \in Kinds, NEW p \in Phases,
         Sends(e, kind, p) \/ Ends(e, p)
  PROVE  /\ Talk'
         /\ \A f \in Evals \ {e} :
              phase'[f] = phase[f] /\ request'[f] = request[f] /\ reply'[f] = reply[f]
         /\ phase'[e] = p
<1>1. Talk /\ NoReply \in Replies
  BY DEF EvInv, EvTypeOK, Talk, Kinds, Replies, NoReply
<1> QED BY <1>1 DEF Sends, Ends, Talk

-----------------------------------------------------------------------------
(* The client's steps of one call.                                           *)
LEMMA EvaluateKeeps ==
  ASSUME EvInv, NEW e \in Evals, Evaluate(e)
  PROVE  EvInv'
<1> DEFINE sent == Sends(e, "await", "awaiting") \/ Sends(e, "start", "starting")
<1>1. sent \/ Ends(e, "gaveUp")
  BY DEF Evaluate
<1>2. Talk' /\ OnlyCall(e)
  BY <1>1, TalkTypes DEF Evaluate, OnlyCall, Kinds, Phases, Ended
<1>3. EvTypeOK'
  BY <1>2 DEF Evaluate, EvInv, EvTypeOK, Talk, Kinds, Replies
<1>4. CallOK(e)'
  BY DEF Evaluate, Sends, Ends, EvInv, EvTypeOK, Probed, CallOK, OneRequest, GotOwn, StashOwn,
     Unstashed, OutcomeComes, AwaitsOutcome, MayReturn, NoReply, Asked, Answered
<1> QED BY <1>2, <1>3, <1>4, OneCall

LEMMA AnswerKeeps ==
  ASSUME EvInv, NEW e \in Evals, AnswerReaches(e)
  PROVE  EvInv'
<1> DEFINE r == reply[e]
<1>0. /\ r \in Replies
      /\ AwaitsAnswer(e) /\ r.what # "none" /\ request[e] = "none"
      /\ UNCHANGED <<appPromise, stash, connected, checked, believed, native, reloads>>
  BY DEF AnswerReaches, EvInv, EvTypeOK, Replies, CallOK, OneRequest
<1>1. \/ phase[e] = "tracing" /\ Ends(e, "resolved") /\ UNCHANGED <<got, polls>>
      \/ phase[e] = "deleting" /\ Ends(e, "gaveUp") /\ UNCHANGED <<got, polls>>
      \/ AwaitsOutcome(e) /\ r.what = "value" /\ Obtains(e, r.of) /\ UNCHANGED polls
      \/ AwaitsOutcome(e) /\ r.what = "error" /\ Ends(e, "threw") /\ UNCHANGED <<got, polls>>
      \/ phase[e] = "polling" /\ Ends(e, "asleep") /\ UNCHANGED <<got, polls>>
      \/ /\ phase[e] = "starting" /\ Sends(e, "poll", "polling")
         /\ polls' = [polls EXCEPT ![e] = 1] /\ UNCHANGED got
  <2>1. Answered(phase[e], r.what)
    BY DEF EvInv, CallOK, OneRequest
  <2> QED BY <2>1 DEF AnswerReaches, AwaitsOutcome, Answered
<1>2. /\ Talk'
      /\ \A f \in Evals \ {e} :
           phase'[f] = phase[f] /\ request'[f] = request[f] /\ reply'[f] = reply[f]
  BY <1>1, TalkTypes DEF Obtains, Kinds, Phases, Ended
<1>3. /\ got' \in [Evals -> {Nothing, Garbage} \union Evals]
      /\ \A f \in Evals \ {e} : got'[f] = got[f]
  BY <1>0, <1>1 DEF Obtains, EvInv, EvTypeOK, Replies
<1>4. polls' \in [Evals -> 0..MaxPolls]
  BY <1>1, EvBounds DEF EvInv, EvTypeOK
<1>5. EvTypeOK' /\ OnlyCall(e)
  BY <1>0, <1>2, <1>3, <1>4 DEF EvInv, EvTypeOK, Talk, Kinds, Replies, OnlyCall
<1>6. CallOK(e)'
  BY <1>0, <1>1, Values DEF Obtains, Sends, Ends, EvInv, EvTypeOK, CallOK, OneRequest, GotOwn, StashOwn,
     Unstashed, OutcomeComes, AwaitsOutcome, MayReturn, NoReply, Asked, Answered
<1> QED BY <1>5, <1>6, OneCall

LEMMA TimeOutKeeps ==
  ASSUME EvInv, NEW e \in Evals, RequestTimesOut(e)
  PROVE  EvInv'
<1>1. Lost(e) \in Phases /\ Ends(e, Lost(e)) /\ AwaitsAnswer(e)
  BY DEF RequestTimesOut, Lost, Phases, Ended
<1>2. Talk' /\ OnlyCall(e)
  BY <1>1, TalkTypes DEF RequestTimesOut, OnlyCall, Kinds
<1>3. EvTypeOK'
  BY <1>2 DEF RequestTimesOut, EvInv, EvTypeOK, Talk, Kinds, Replies
<1>4. CallOK(e)'
  BY <1>1 DEF RequestTimesOut, Lost, AwaitsAnswer, Ends, EvInv, EvTypeOK, CallOK, OneRequest, GotOwn,
     StashOwn, Unstashed, OutcomeComes, AwaitsOutcome, MayReturn, Asked, Answered
<1> QED BY <1>2, <1>3, <1>4, OneCall

LEMMA PollsKeep ==
  ASSUME EvInv, NEW e \in Evals, PollsAgain(e) \/ PollingTimesOut(e)
  PROVE  EvInv'
<1>1. \/ Sends(e, "poll", "polling") \/ Sends(e, "delete", "deleting") \/ Ends(e, "gaveUp")
  BY DEF PollsAgain, PollingTimesOut
<1>2. Talk' /\ OnlyCall(e)
  BY <1>1, TalkTypes DEF PollsAgain, PollingTimesOut, OnlyCall, Kinds, Phases, Ended
<1>3. polls' \in [Evals -> 0..MaxPolls]
  BY EvBounds DEF PollsAgain, PollingTimesOut, EvInv, EvTypeOK
<1>4. EvTypeOK'
  BY <1>2, <1>3 DEF PollsAgain, PollingTimesOut, EvInv, EvTypeOK, Talk, Kinds, Replies
<1>5. CallOK(e)'
  BY <1>1 DEF PollsAgain, PollingTimesOut, Sends, Ends, EvInv, EvTypeOK, CallOK, OneRequest, GotOwn,
     StashOwn, Unstashed, OutcomeComes, AwaitsOutcome, MayReturn, NoReply, Asked, Answered
<1> QED BY <1>2, <1>4, <1>5, OneCall

(* The connection's steps.                                                   *)
LEMMA ProbeKeeps ==
  ASSUME EvInv, ProbesOnce
  PROVE  EvInv'
<1>1. EvTypeOK'
  BY DEF ProbesOnce, EvInv, EvTypeOK
<1>2. Probed' /\ (believed => believed')
  BY DEF ProbesOnce, EvInv, EvTypeOK, Probed
<1>3. ASSUME NEW e \in Evals PROVE CallOK(e)'
  BY <1>2 DEF ProbesOnce, EvInv, CallOK, OneRequest, GotOwn, StashOwn, MayReturn, Unstashed, OutcomeComes,
     AwaitsOutcome
<1> QED BY <1>1, <1>2, <1>3 DEF EvInv

LEMMA LossKeeps ==
  ASSUME EvInv, LosesConnection
  PROVE  EvInv'
<1>1. EvTypeOK'
  BY DEF LosesConnection, Lost, EvInv, EvTypeOK, Phases, Ended
<1>2. Probed'
  BY DEF LosesConnection, EvInv, Probed
<1>3. ASSUME NEW e \in Evals PROVE CallOK(e)'
  BY DEF LosesConnection, AwaitsAnswer, Lost, EvInv, EvTypeOK, CallOK, OneRequest, GotOwn, StashOwn,
     MayReturn, Unstashed, OutcomeComes, AwaitsOutcome, Asked, Answered
<1> QED BY <1>1, <1>2, <1>3 DEF EvInv

-----------------------------------------------------------------------------
(* The runtime's steps.                                                      *)
LEMMA AnswerTypes ==
  ASSUME EvInv, NEW e \in Evals, NEW what \in {"value", "error", "async", "pending", "ok"},
         NEW of \in {Nothing, Garbage} \union Evals, Answer(e, what, of)
  PROVE  /\ request' \in [Evals -> Kinds] /\ reply' \in [Evals -> Replies]
         /\ \A f \in Evals \ {e} : request'[f] = request[f] /\ reply'[f] = reply[f]
         /\ request'[e] = "none" /\ reply'[e] = [what |-> what, of |-> of]
<1>1. [what |-> what, of |-> of] \in Replies
  BY DEF Replies
<1> QED BY <1>1 DEF Answer, EvInv, EvTypeOK, Kinds, Replies

(* What the runtime does for a request: it answers, and a promise or an      *)
(* entry comes or goes.                                                      *)
LEMMA RunsKeep ==
  ASSUME EvInv, NEW e \in Evals, Runs(e)
  PROVE  EvInv'
<1>0. /\ UNCHANGED <<phase, got, polls, connected, checked, believed, native, reloads>>
      /\ stash[e] \in Entries /\ CallOK(e) /\ ResultId(e) = e
      /\ appPromise \in [Evals -> {"none", "pending", "settled"}] /\ stash \in [Evals -> Entries]
  BY DEF Runs, EvInv, EvTypeOK, Entries, ResultId
<1>1. PICK what \in {"value", "error", "async", "pending", "ok"},
           of \in {Nothing, Garbage} \union Evals : Answer(e, what, of)
  BY <1>0 DEF Runs, RunsAwaiting, RunsStart, RunsPoll, RunsDelete, RunsTrace, Entries
<1>2. /\ request' \in [Evals -> Kinds] /\ reply' \in [Evals -> Replies]
      /\ \A f \in Evals \ {e} : request'[f] = request[f] /\ reply'[f] = reply[f]
      /\ request'[e] = "none"
  BY <1>1, AnswerTypes
<1>3. /\ appPromise' \in [Evals -> {"none", "pending", "settled"}] /\ stash' \in [Evals -> Entries]
      /\ \A f \in Evals \ {e} : appPromise'[f] = appPromise[f] /\ stash'[f] = stash[f]
  <2>1. Absent \in Entries /\ [state |-> "pending", of |-> e] \in Entries
    BY DEF Absent, Entries
  <2> QED BY <1>0, <2>1 DEF Runs, RunsAwaiting, RunsStart, RunsPoll, RunsDelete, RunsTrace
<1>4. EvTypeOK' /\ OnlyCall(e)
  BY <1>0, <1>2, <1>3 DEF EvInv, EvTypeOK, OnlyCall, Kinds, Replies, Entries
<1>5. CallOK(e)'
  <2> USE <1>0 DEF Answer, EvInv, EvTypeOK, CallOK, OneRequest, GotOwn, StashOwn, Unstashed,
        OutcomeComes, AwaitsOutcome, MayReturn, Asked, Answered, Probed
  <2>1. CASE RunsAwaiting(e)
    BY <2>1 DEF RunsAwaiting
  <2>2. CASE RunsStart(e)
    BY <2>2 DEF RunsStart
  <2>3. CASE RunsPoll(e)
    BY <2>3 DEF RunsPoll, Absent
  <2>4. CASE RunsDelete(e)
    BY <2>4 DEF RunsDelete, Absent
  <2>5. CASE RunsTrace(e)
    BY <2>5 DEF RunsTrace
  <2> QED BY <2>1, <2>2, <2>3, <2>4, <2>5 DEF Runs
<1> QED BY <1>4, <1>5, OneCall

LEMMA SettlingKeeps ==
  ASSUME EvInv, NEW e \in Evals, PromiseSettles(e)
  PROVE  EvInv'
<1>1. PICK outcome \in {"value", "error"} :
        stash' = [stash EXCEPT ![e] = [state |-> outcome, of |-> e]]
  BY DEF PromiseSettles, ResultId
<1>2. EvTypeOK' /\ OnlyCall(e)
  BY <1>1 DEF PromiseSettles, EvInv, EvTypeOK, OnlyCall
<1>3. CallOK(e)'
  BY <1>1 DEF PromiseSettles, EvInv, EvTypeOK, CallOK, OneRequest, GotOwn, StashOwn, Unstashed,
     OutcomeComes, AwaitsOutcome, MayReturn
<1> QED BY <1>2, <1>3, OneCall

LEMMA ReloadKeeps ==
  ASSUME EvInv, Reloads
  PROVE  EvInv'
<1>1. EvTypeOK'
  BY EvBounds DEF Reloads, EvInv, EvTypeOK, Absent
<1>2. Probed' /\ reloads' > 0
  BY EvBounds DEF Reloads, EvInv, EvTypeOK, Probed
<1>3. ASSUME NEW e \in Evals PROVE CallOK(e)'
  BY <1>2 DEF Reloads, Absent, EvInv, EvTypeOK, CallOK, OneRequest, GotOwn, StashOwn, MayReturn,
     Unstashed, OutcomeComes, AwaitsOutcome, Asked
<1> QED BY <1>1, <1>2, <1>3 DEF EvInv

-----------------------------------------------------------------------------
(* The inductive invariant: in every order of requests, answers, give-ups,   *)
(* losses and reloads, phase, request, answer and global of a call fit       *)
(* (client.ts:191-300).                                                      *)
LEMMA EvKeeps == EvInv /\ [EvNext]_evVars => EvInv'
<1> SUFFICES ASSUME EvInv, [EvNext]_evVars PROVE EvInv'
  OBVIOUS
<1>1. ASSUME NEW e \in Evals, Evaluate(e) PROVE EvInv'
  BY <1>1, EvaluateKeeps
<1>2. ASSUME NEW e \in Evals, AnswerReaches(e) PROVE EvInv'
  BY <1>2, AnswerKeeps
<1>3. ASSUME NEW e \in Evals, RequestTimesOut(e) PROVE EvInv'
  BY <1>3, TimeOutKeeps
<1>4. ASSUME NEW e \in Evals, PollsAgain(e) \/ PollingTimesOut(e) PROVE EvInv'
  BY <1>4, PollsKeep
<1>5. ASSUME NEW e \in Evals, Runs(e) PROVE EvInv'
  BY <1>5, RunsKeep
<1>6. ASSUME NEW e \in Evals, PromiseSettles(e) PROVE EvInv'
  BY <1>6, SettlingKeeps
<1>7. CASE UNCHANGED evVars
  BY <1>7 DEF evVars, EvInv, EvTypeOK, Probed, CallOK, OneRequest, GotOwn, StashOwn, Unstashed,
     OutcomeComes, AwaitsOutcome, MayReturn
<1> QED BY <1>1, <1>2, <1>3, <1>4, <1>5, <1>6, <1>7, ProbeKeeps, LossKeeps, ReloadKeeps DEF EvNext

(* The invariant holds in every behaviour (client.ts:191-300).               *)
THEOREM EvInvariant == EvSpec => []EvInv
<1> QED BY InitInv, EvKeeps, PTL DEF EvSpec

(* Every state is well formed: a call is in one phase, its answer and its    *)
(* global have the shape that client.ts reads (client.ts:191-300).           *)
THEOREM EvTypeCorrect == EvSpec => []EvTypeOK
<1>1. EvInv => EvTypeOK
  BY DEF EvInv
<1> QED BY EvInvariant, <1>1, PTL

(* evaluate returns the value of its own expression, however many calls,     *)
(* polls, lost connections and reloads there are, and a promise object only  *)
(* after the runtime was replaced (client.ts:191-300, device.ts evaluate).   *)
THEOREM EvaluateReturnsOwn == EvSpec => []OwnValue
<1>1. EvInv => OwnValue
  BY DEF EvInv, CallOK, GotOwn, OwnValue, MayReturn
<1> QED BY EvInvariant, <1>1, PTL

(* A call that ended with its expression's outcome left no global and no     *)
(* promise that will write one (client.ts:236-300).                          *)
THEOREM EvaluateLeavesNothing == EvSpec => []StashEmptied
<1>1. EvInv => StashEmptied
  BY DEF EvInv, CallOK, StashOwn, Unstashed, StashEmptied, ResultId
<1> QED BY EvInvariant, <1>1, PTL

-----------------------------------------------------------------------------
(* The choice of a runtime.                                                  *)

(* A list has the runtimes of one of Metro's answers, each at its place.     *)
Listings == UNION {[D -> Runtimes] : D \in SUBSET (1..MaxListed)}

(* The choice is that of the code, among what was listed.                    *)
Chosen ==
  /\ search.step \in {"dialing", "refused"} => search.chosen = SelectTargetForConnect(search.list)
  /\ search.step = "dialing" <=> search.chosen # {}

DiInv ==
  /\ metro \in Answers
  /\ search.list \in Listings /\ Chosen
  /\ search.step = "polling" => looks < MaxLooks
  /\ DiTypeOK

LEMMA ChoiceIsListed ==
  ASSUME NEW list PROVE SelectTargetForConnect(list) \subseteq DOMAIN list
BY DEF SelectTargetForConnect, SelectTarget, First, ById, Only, ByName, AtIndex

LEMMA AnswersAreListings ==
  ASSUME metro \in Answers
  PROVE  DiscoverTargets \in Listings
<1>1. PICK n \in 0..MaxListed : metro.targets \in [1..n -> Runtimes]
  <2>1. CASE metro = Down
    <3>1. metro.targets = <<>> /\ 0 \in 0..MaxListed
      BY <2>1, DiscoveryBounds DEF Down
    <3>2. <<>> \in [1..0 -> Runtimes]
      OBVIOUS
    <3> QED BY <3>1, <3>2
  <2>2. CASE metro.targets \in Lists
    BY <2>2 DEF Lists, Injection
  <2> QED BY <2>1, <2>2 DEF Answers
<1>2. (1..n) \subseteq 1..MaxListed
  BY DiscoveryBounds
<1> DEFINE D == {i \in DOMAIN metro.targets : metro.targets[i].react}
<1>3. D \in SUBSET (1..MaxListed) /\ DiscoverTargets \in [D -> Runtimes]
  BY <1>1, <1>2 DEF DiscoverTargets, Restrict
<1> QED BY <1>3 DEF Listings

LEMMA DiStarts == DiInit => DiInv
<1> SUFFICES ASSUME DiInit PROVE DiInv
  OBVIOUS
<1>1. search.list \in Listings
  <2>1. search.list \in [{} -> Runtimes] /\ {} \in SUBSET (1..MaxListed)
    BY DEF DiInit
  <2> QED BY <2>1 DEF Listings
<1> QED BY <1>1, DiscoveryBounds DEF DiInit, DiInv, Chosen, DiTypeOK

LEMMA DiKeeps == DiInv /\ [DiNext]_diVars => DiInv'
<1> SUFFICES ASSUME DiInv, [DiNext]_diVars PROVE DiInv'
  OBVIOUS
<1>1. CASE DiscoverTargetsUntilReady
  <2>1. metro' = metro /\ wish' = wish /\ starts' = starts /\ looks' = looks + 1
        /\ search.step = "polling" /\ looks < MaxLooks
    BY <1>1 DEF DiscoverTargetsUntilReady, DiInv
  <2>2. looks' \in 0..MaxLooks
    BY <2>1, DiscoveryBounds DEF DiInv, DiTypeOK
  <2> DEFINE c == SelectTargetForConnect(DiscoverTargets)
  <2>3. CASE metro.up /\ DOMAIN DiscoverTargets # {}
    <3>1. search' = [step |-> IF c = {} THEN "refused" ELSE "dialing",
                     list |-> DiscoverTargets, chosen |-> c]
      BY <1>1, <2>3 DEF DiscoverTargetsUntilReady
    <3>2. search'.chosen = c /\ search'.list = DiscoverTargets
          /\ search'.step = (IF c = {} THEN "refused" ELSE "dialing")
      BY <3>1
    <3>3. SelectTargetForConnect(search.list)' = c
      BY <2>1, <3>2 DEF SelectTargetForConnect, SelectTarget, FilePinned, HasCdpSelector, ById, ByName
    <3>4. c \subseteq DOMAIN DiscoverTargets
      BY ChoiceIsListed
    <3>5. DiscoverTargets \in Listings
      BY AnswersAreListings DEF DiInv
    <3> HIDE DEF c
    <3> QED BY <2>1, <2>2, <3>2, <3>3, <3>4, <3>5 DEF DiInv, DiTypeOK, Chosen
  <2>4. CASE ~(metro.up /\ DOMAIN DiscoverTargets # {})
    <3>1. search' = [search EXCEPT !.step = IF looks' >= MaxLooks THEN "expired" ELSE "polling"]
      BY <1>1, <2>4 DEF DiscoverTargetsUntilReady
    <3>2. search'.list = search.list /\ search'.chosen = search.chosen
          /\ search'.step = (IF looks' >= MaxLooks THEN "expired" ELSE "polling")
      BY <3>1 DEF DiInv
    <3>3. looks' < MaxLooks \/ looks' >= MaxLooks
      BY <2>2, DiscoveryBounds
    <3> QED BY <2>1, <2>2, <3>2, <3>3 DEF DiInv, DiTypeOK, Chosen
  <2> QED BY <2>3, <2>4
<1>2. CASE MetroChanges
  <2>1. starts' \in 0..MaxStarts
    BY <1>2, DiscoveryBounds DEF MetroChanges, DiInv, DiTypeOK
  <2> QED BY <1>2, <2>1 DEF MetroChanges, DiInv, DiTypeOK, Chosen
<1>3. CASE UNCHANGED diVars
  BY <1>3 DEF diVars, DiInv, DiTypeOK, Chosen, SelectTargetForConnect, SelectTarget, FilePinned,
     HasCdpSelector, ById, ByName
<1> QED BY <1>1, <1>2, <1>3 DEF DiNext

(* In a rearranged list every runtime is somewhere.                          *)
LEMMA OrdersAreOnto ==
  ASSUME NEW D, IsFiniteSet(D), NEW order \in Injection(D, D), NEW k \in D
  PROVE  \E i \in D : order[i] = k
<1>1. order \in Surjection(D, D)
  BY FS_Injection
<1> QED BY <1>1 DEF Surjection

LEMMA ListsAreFinite ==
  ASSUME NEW list \in Listings PROVE IsFiniteSet(DOMAIN list)
<1>1. IsFiniteSet(1..MaxListed)
  BY FS_Interval, DiscoveryBounds
<1>2. DOMAIN list \in SUBSET (1..MaxListed)
  BY DEF Listings
<1> QED BY <1>1, <1>2, FS_Subset

(* Of those an order-blind choice takes the only one, wherever it is.        *)
LEMMA OnlyIsMoved ==
  ASSUME NEW D, IsFiniteSet(D), NEW order \in Injection(D, D),
         NEW S, S \subseteq D,
         NEW T, T \subseteq D, \A i \in D : i \in T <=> order[i] \in S
  PROVE  /\ \A i \in Only(T) : order[i] \in Only(S)
         /\ \A k \in Only(S) : \E i \in Only(T) : order[i] = k
<1>1. \A i \in D : order[i] \in D
  BY DEF Injection
<1>2. \A i, j \in D : order[i] = order[j] => i = j
  BY DEF Injection, IsInjective
<1>3. \A k \in S : \E i \in T : order[i] = k
  BY OrdersAreOnto
<1>4. CASE \A i, j \in S : i = j
  <2>1. \A i, j \in T : i = j
    BY <1>2, <1>4
  <2>2. Only(S) = S /\ Only(T) = T
    BY <1>4, <2>1 DEF Only
  <2> QED BY <1>3, <2>2
<1>5. CASE ~\A i, j \in S : i = j
  <2>1. ~\A i, j \in T : i = j
    BY <1>3, <1>5
  <2>2. Only(S) = {} /\ Only(T) = {}
    BY <1>5, <2>1 DEF Only
  <2> QED BY <2>2
<1> QED BY <1>4, <1>5

(* Rearranged, a list has the same runtimes of a name.                       *)
LEMMA NamesAreMoved ==
  ASSUME NEW D, IsFiniteSet(D), NEW list, DOMAIN list = D, NEW order \in Injection(D, D),
         NEW listed, DOMAIN listed = D, \A i \in D : listed[i] = list[order[i]]
  PROVE  ByName(listed) = {i \in D : order[i] \in ByName(list)}
<1> DEFINE exactly == {k \in D : Exactly(list[k], wish.deviceName)}
           partly == {k \in D : Partly(list[k], wish.deviceName)}
           named(S) == {i \in D : order[i] \in S}
<1>1. \A i \in D : order[i] \in D
  BY DEF Injection
<1>2. DOMAIN listed = D /\ \A i \in D : listed[i] = list[order[i]]
  OBVIOUS
<1>3. {i \in DOMAIN listed : Exactly(listed[i], wish.deviceName)} = named(exactly)
  BY <1>1, <1>2
<1>4. {i \in DOMAIN listed : Partly(listed[i], wish.deviceName)} = named(partly)
  BY <1>1, <1>2
<1>5. named(exactly) = {} <=> exactly = {}
  <2>1. \A k \in D : \E i \in D : order[i] = k
    BY OrdersAreOnto
  <2>2. ASSUME exactly # {} PROVE named(exactly) # {}
    <3>1. PICK k \in D : k \in exactly
      BY <2>2
    <3>2. PICK i \in D : order[i] = k
      BY <2>1
    <3>3. i \in named(exactly)
      BY <3>1, <3>2
    <3> QED BY <3>3
  <2> QED BY <2>2
<1> HIDE DEF exactly, partly
<1>6. ByName(listed) = IF named(exactly) # {} THEN named(exactly) ELSE named(partly)
  BY <1>3, <1>4 DEF ByName
<1>7. ByName(list) = IF exactly # {} THEN exactly ELSE partly
  BY DEF ByName, exactly, partly
<1> QED BY <1>5, <1>6, <1>7

LEMMA OnlyNamedIsMoved ==
  ASSUME NEW D, IsFiniteSet(D), NEW list, DOMAIN list = D, NEW order \in Injection(D, D),
         NEW listed, DOMAIN listed = D, \A i \in D : listed[i] = list[order[i]]
  PROVE  /\ \A i \in Only(ByName(listed)) : \E k \in Only(ByName(list)) : listed[i] = list[k]
         /\ \A k \in Only(ByName(list)) : \E i \in Only(ByName(listed)) : listed[i] = list[k]
<1> DEFINE S == ByName(list)
           T == ByName(listed)
<1>1. T = {i \in D : order[i] \in S}
  BY NamesAreMoved
<1>2. S \subseteq D /\ T \subseteq D /\ \A i \in D : i \in T <=> order[i] \in S
  BY <1>1 DEF ByName
<1> HIDE DEF S, T
<1>3. /\ \A i \in Only(T) : order[i] \in Only(S)
      /\ \A k \in Only(S) : \E i \in Only(T) : order[i] = k
  BY <1>2, OnlyIsMoved
<1>4. \A i \in Only(T) : i \in D /\ listed[i] = list[order[i]]
  BY <1>1 DEF Only
<1>5. \A i \in Only(T) : \E k \in Only(S) : listed[i] = list[k]
  BY <1>3, <1>4
<1>6. \A k \in Only(S) : \E i \in Only(T) : listed[i] = list[k]
  BY <1>3, <1>4
<1> QED BY <1>5, <1>6 DEF S, T

LEMMA SameValues ==
  ASSUME NEW f, NEW g, NEW S, NEW T,
         \A i \in S : \E k \in T : f[i] = g[k], \A k \in T : \E i \in S : f[i] = g[k]
  PROVE  {f[i] : i \in S} = {g[k] : k \in T}
OBVIOUS

LEMMA NamesDecide == DiInv => NameDecides
<1>1. SUFFICES ASSUME DiInv, search.step \in {"dialing", "refused"}, wish.deviceId = "",
                      wish.deviceName # <<>>,
                      NEW order \in Injection(DOMAIN search.list, DOMAIN search.list)
               PROVE  {[i \in DOMAIN search.list |-> search.list[order[i]]][n] :
                         n \in SelectTargetForConnect([i \in DOMAIN search.list |-> search.list[order[i]]])}
                      = Attached
  BY DEF NameDecides
<1>2. PICK before : before = search.list
  OBVIOUS
<1>3. PICK listed : listed = [i \in DOMAIN before |-> before[order[i]]]
  OBVIOUS
<1>4. IsFiniteSet(DOMAIN before) /\ order \in Injection(DOMAIN before, DOMAIN before)
  BY <1>1, <1>2, ListsAreFinite DEF DiInv
<1>5. \A list : SelectTargetForConnect(list) = Only(ByName(list))
  BY <1>1 DEF SelectTargetForConnect, HasCdpSelector, SelectTarget
<1>6. Attached = {before[k] : k \in Only(ByName(before))}
  BY <1>1, <1>2, <1>5 DEF DiInv, Chosen, Attached
<1>7. DOMAIN listed = DOMAIN before /\ \A i \in DOMAIN before : listed[i] = before[order[i]]
  BY <1>3
<1>8. /\ \A i \in Only(ByName(listed)) : \E k \in Only(ByName(before)) : listed[i] = before[k]
      /\ \A k \in Only(ByName(before)) : \E i \in Only(ByName(listed)) : listed[i] = before[k]
  BY <1>4, <1>7, OnlyNamedIsMoved
<1>9. {listed[i] : i \in Only(ByName(listed))} = {before[k] : k \in Only(ByName(before))}
  BY <1>8, SameValues
<1>10. {listed[n] : n \in SelectTargetForConnect(listed)} = Attached
  BY <1>5, <1>6, <1>9
<1> QED BY <1>2, <1>3, <1>10

LEMMA SameIsChosen == DiInv => SameDevice
<1> SUFFICES ASSUME DiInv, NEW r \in Runtimes, search.step = "dialing", FilePinned,
                    r \in Range(search.list), wish.deviceId = "",
                    \/ wish.deviceName = <<>> /\ wish.pageIndex = {}
                    \/ wish.deviceName # <<>> /\ Exactly(r, wish.deviceName)
             PROVE  Attached = {r}
  BY DEF SameDevice
<1>1. PICK k \in DOMAIN search.list : search.list[k] = r
  BY DEF Range
<1>2. search.chosen # {} /\ search.chosen = SelectTargetForConnect(search.list)
  BY DEF DiInv, Chosen
<1>3. search.chosen \subseteq DOMAIN search.list
  BY DEF DiInv, DiTypeOK
<1>4. CASE wish.deviceName = <<>> /\ wish.pageIndex = {}
  <2>1. ~HasCdpSelector
    BY <1>4 DEF HasCdpSelector
  <2>2. \A i, j \in DOMAIN search.list : i = j
    BY <1>2, <2>1 DEF SelectTargetForConnect
  <2>3. search.chosen = {k}
    BY <1>1, <1>2, <1>3, <2>2
  <2> QED BY <1>1, <2>3 DEF Attached
<1>5. CASE wish.deviceName # <<>> /\ Exactly(r, wish.deviceName)
  <2>1. search.chosen = Only(ByName(search.list))
    BY <1>2, <1>5 DEF SelectTargetForConnect, SelectTarget, HasCdpSelector
  <2>2. k \in ByName(search.list)
    BY <1>1, <1>5 DEF ByName
  <2>3. search.chosen = {k}
    BY <1>2, <2>1, <2>2 DEF Only
  <2> QED BY <1>1, <2>3 DEF Attached
<1> QED BY <1>4, <1>5

LEMMA DiInvariant == DiSpec => []DiInv
<1> QED BY DiStarts, DiKeeps, PTL DEF DiSpec

(* With device.files pinned to a device whose runtime is listed, connect()   *)
(* attaches to this runtime or to none; and a name decides, in whatever      *)
(* order Metro lists the runtimes (discovery.ts:62-209).                     *)
THEOREM RuntimeIsRight == DiSpec => [](DiTypeOK /\ RightRuntime)
<1>1. DiInv => DiTypeOK /\ RightRuntime
  BY NamesDecide, SameIsChosen DEF DiInv, RightRuntime
<1> QED BY DiInvariant, <1>1, PTL

(* Side by side, each part goes its own way.                                 *)
LEMMA CdpIsItsParts == CdpSpec => [](EvInv /\ DiInv)
<1>1. CdpInit => EvInv /\ DiInv
  BY InitInv, DiStarts DEF CdpInit
<1>2. [CdpNext]_<<part, vars, evVars, diVars>> => [EvNext]_evVars /\ [DiNext]_diVars
  BY DEF CdpNext
<1> QED BY <1>1, <1>2, EvKeeps, DiKeeps, PTL DEF CdpSpec

(* An evaluation has its own value, and of the device that was meant         *)
(* (client.ts:191-300, discovery.ts:62-209).                                 *)
THEOREM AnswerIsOwn == CdpSpec => []OwnAnswer
<1>1. EvInv /\ DiInv => OwnAnswer
  BY NamesDecide, SameIsChosen
     DEF EvInv, DiInv, OwnAnswer, RightRuntime, CallOK, GotOwn, OwnValue, MayReturn
<1> QED BY CdpIsItsParts, <1>1, PTL
==============================================================================
