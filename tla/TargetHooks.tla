----------------------------- MODULE TargetHooks -----------------------------
(* What a project contributes to the runner's plans (target-hooks.ts): its   *)
(* steps at three places of a plan, background processes among them, and its *)
(* cleanup. The processes go into the same map, by key, as the runner's own  *)
(* (execute.ts, runner/process-runner.ts); the map is what is killed by key  *)
(* in the cleanup, and as a whole by a signal.                               *)
(*                                                                           *)
(* Only the steps that start or need a process and the anchors of the hook   *)
(* are kept of a plan. A group dies as a whole: members that outlive their   *)
(* leader, a signal during kill()'s 500 ms, files and mappings on the host   *)
(* and a runner that crashes are PlanExecutor's. Ids of project steps differ *)
(* from the runner's.                                                        *)
EXTENDS Integers, Sequences, FiniteSets

CONSTANTS Invocations,   \* the targets an invocation may have, one after the other
          Contributions  \* what configureTarget may return

TargetKinds == {"simulator", "plain-simulator", "device", "android"}
Places == {"beforeMetro", "afterMetroReady", "beforeLaunch"}
ProcessKeys == {"metro", "companion", "ios-port-forward", "tunnel"}

ASSUME HookInputs ==
  /\ \A targets \in Invocations : targets \in Seq(TargetKinds) /\ targets # <<>>
  /\ \A c \in Contributions :
       /\ c.cleanups \in Nat
       /\ \A p \in Places : c[p] \in Seq([id : {p}, does : {"run", "start"},
                                          key : ProcessKeys, by : {"project"}])

-----------------------------------------------------------------------------
(* The plans, and what a hook makes of them.                                 *)

PlanStep(id, does, key) == [id |-> id, does |-> does, key |-> key, by |-> "runner"]
Foreground(id) == PlanStep(id, "run", "none")

MetroStart == PlanStep("metro.start", "start", "metro")
MetroReady == PlanStep("metro.ready", "probe", "metro")
PortForward == PlanStep("ios.port-forward", "start", "ios-port-forward")
CompanionStart(id) == PlanStep(id, "start", "companion")
CompanionReady(id) == PlanStep(id, "probe", "companion")

PlanOf(target) ==
  CASE target = "android" ->
         <<MetroStart, MetroReady, Foreground("android.launch-1"),
           CompanionStart("android.instrument-start"), CompanionReady("android.instrument-ready"),
           Foreground("android.launch-2")>>
    [] target = "device" ->
         <<MetroStart, MetroReady, PortForward, CompanionStart("ios.companion-start"),
           CompanionReady("ios.companion-ready"), Foreground("ios.launch")>>
    [] target = "simulator" ->
         <<MetroStart, MetroReady, CompanionStart("ios.companion-start"),
           CompanionReady("ios.companion-ready"), Foreground("ios.terminate-before-launch"),
           Foreground("ios.launch")>>
    [] target = "plain-simulator" ->
         <<MetroStart, MetroReady, CompanionStart("ios.companion-start"),
           CompanionReady("ios.companion-ready")>>

KilledKeys(target) ==
  IF target = "device" THEN <<"ios-port-forward", "companion", "metro">>
                       ELSE <<"companion", "metro">>

(* The ids of a plan's own steps are distinct.                               *)
HasStep(plan, id) == \E n \in 1 .. Len(plan) : plan[n].id = id
IndexOf(plan, id) == CHOOSE n \in 1 .. Len(plan) : plan[n].id = id

InsertAfterIndex(plan, n, inserted) ==
  SubSeq(plan, 1, n) \o inserted \o SubSeq(plan, n + 1, Len(plan))

(* Mutant: findIndex is the place after the anchor.                          *)
InsertBeforeLate(plan, anchor, inserted) ==
  InsertAfterIndex(plan, IndexOf(plan, anchor), inserted)

InsertBefore(plan, anchor, inserted) ==
  InsertAfterIndex(plan, IndexOf(plan, anchor) - 1, inserted)

InsertAfter(plan, anchor, inserted) ==
  InsertAfterIndex(plan, IndexOf(plan, anchor), inserted)

FirstExistingStep(plan, anchors) ==
  anchors[CHOOSE n \in 1 .. Len(anchors) :
            /\ HasStep(plan, anchors[n])
            /\ \A m \in 1 .. n - 1 : ~HasStep(plan, anchors[m])]

(* insertHookSteps: every anchor is a step of the plan.                      *)
ApplyTargetHook(target, c) ==
  LET metro == InsertAfter(InsertBefore(PlanOf(target), "metro.start", c.beforeMetro),
                           "metro.ready", c.afterMetroReady)
      launch == IF target = "android" THEN "android.launch-1"
                ELSE FirstExistingStep(metro, <<"ios.terminate-before-launch", "ios.launch",
                                                "ios.companion-start">>)
  IN InsertBefore(metro, launch, c.beforeLaunch)

-----------------------------------------------------------------------------
VARIABLES
  targets,    \* of this invocation
  stage,      \* where the runner is with this target
  leg,        \* index in targets
  steps,      \* the plan's steps with the project's
  cleanups,   \* commands of the project's cleanup
  next,       \* index in steps, or in the cleanup
  metroReused,
  handles,    \* executePlan's map, of this target
  tracked,    \* NodeProcessRunner's map, of the whole invocation
  erring,     \* spawns that failed and whose 'error' event is to come
  live,       \* the process groups alive
  displaced   \* those of them whose entry another process under their key took,
              \* where one of the two is the project's

hookVars == <<targets, stage, leg, steps, cleanups, next, metroReused, handles, tracked,
              erring, live, displaced>>
keepPlan == <<targets, leg, steps, cleanups, metroReused>>
keepProcesses == <<handles, tracked, erring, live, displaced>>

Nothing == [entry |-> "none"]
NoPid(s) == [entry |-> "failed", by |-> s.by]
GroupOf(s) == [entry |-> "group", leg |-> leg, at |-> next, key |-> s.key, by |-> s.by]

Target == targets[leg]
Now == steps[next]

HookTypeOK ==
  /\ stage \in {"begin", "step", "playwright", "cleanup", "swept", "ended", "signalled"}
  /\ targets \in Invocations /\ leg \in DOMAIN targets
  /\ next \in 1 .. Len(steps) + cleanups + 4
  /\ metroReused \in BOOLEAN
  /\ \A k \in ProcessKeys :
       /\ handles[k].entry \in {"none", "failed", "group"}
       /\ tracked[k].entry = "group" => tracked[k].key = k
       /\ handles[k].entry = "group" => handles[k].key = k /\ handles[k].leg = leg
  /\ erring \subseteq [key : ProcessKeys, by : {"runner", "project"}]
  /\ displaced \subseteq live

HookInit ==
  /\ targets \in Invocations /\ stage = "begin" /\ leg = 1
  /\ steps = <<>> /\ cleanups = 0 /\ next = 1 /\ metroReused = FALSE
  /\ handles = [k \in ProcessKeys |-> Nothing] /\ tracked = handles
  /\ erring = {} /\ live = {} /\ displaced = {}

(* runPlatform: whether a Metro answers is up to the host.                   *)
TakesHook ==
  /\ stage = "begin"
  /\ \E c \in Contributions :
       steps' = ApplyTargetHook(Target, c) /\ cleanups' = c.cleanups
  /\ metroReused' \in BOOLEAN
  /\ stage' = "step" /\ next' = 1
  /\ handles' = [k \in ProcessKeys |-> Nothing]
  /\ UNCHANGED <<targets, leg, tracked, erring, live, displaced>>

(* The hook throws, or the device is not there: the target has no plan.      *)
HookThrows ==
  /\ stage = "begin"
  /\ stage' = "swept"
  /\ UNCHANGED <<keepPlan, next, keepProcesses>>

-----------------------------------------------------------------------------
(* executePlan: the steps.                                                   *)

GoesOn ==
  IF next < Len(steps) THEN next' = next + 1 /\ UNCHANGED stage
                       ELSE next' = 1 /\ stage' = "playwright"

Aborts == next' = 1 /\ stage' = "cleanup"

(* 'error' is emitted before anything that is awaited comes back.            *)
AtHookStep(does) == stage = "step" /\ Now.does = does
Heard == erring = {}

RunsForeground ==
  /\ AtHookStep("run") /\ Heard
  /\ GoesOn \/ Aborts
  /\ UNCHANGED <<keepPlan, keepProcesses>>

SkipsMetro ==
  /\ AtHookStep("start") /\ metroReused /\ Now.id = "metro.start"
  /\ GoesOn
  /\ UNCHANGED <<keepPlan, keepProcesses>>

(* What is in the map under a key, if a spawn or an 'error' by another takes *)
(* its place there and the project has a part in it.                         *)
Displaced(k, by) ==
  {g \in live : tracked[k] = g /\ "project" \in {g.by, by}}

Spawns ==
  /\ AtHookStep("start") /\ ~(metroReused /\ Now.id = "metro.start")
  /\ live' = live \cup {GroupOf(Now)}
  /\ handles' = [handles EXCEPT ![Now.key] = GroupOf(Now)]
  /\ tracked' = [tracked EXCEPT ![Now.key] = GroupOf(Now)]
  /\ displaced' = displaced \cup Displaced(Now.key, Now.by)
  /\ GoesOn
  /\ UNCHANGED <<keepPlan, erring>>

(* The log cannot be opened, and spawn() throws; or there is no such program *)
(* and the child, without a process id, is in the map until 'error' comes.   *)
SpawnFails ==
  /\ AtHookStep("start") /\ ~(metroReused /\ Now.id = "metro.start")
  /\ \/ Aborts /\ UNCHANGED keepProcesses
     \/ /\ handles' = [handles EXCEPT ![Now.key] = NoPid(Now)]
        /\ tracked' = [tracked EXCEPT ![Now.key] = NoPid(Now)]
        /\ displaced' = displaced \cup Displaced(Now.key, Now.by)
        /\ erring' = erring \cup {[key |-> Now.key, by |-> Now.by]}
        /\ GoesOn
        /\ UNCHANGED live
  /\ UNCHANGED keepPlan

(* The listener deletes whatever is under the key by then.                   *)
ErrorComes ==
  /\ \E e \in erring :
       /\ tracked' = [tracked EXCEPT ![e.key] = Nothing]
       /\ displaced' = displaced \cup Displaced(e.key, e.by)
       /\ erring' = erring \ {e}
  /\ UNCHANGED <<stage, next, keepPlan, handles, live>>

HandleLives(k) == tracked[k].entry = "group" /\ handles[k] \in live

Waits ==
  /\ AtHookStep("probe") /\ Heard
  /\ \/ (handles[Now.key] = Nothing \/ HandleLives(Now.key)) /\ GoesOn
     \/ Aborts
  /\ UNCHANGED <<keepPlan, keepProcesses>>

RunsPlaywright ==
  /\ stage = "playwright" /\ Heard
  /\ stage' = "cleanup" /\ next' = 1
  /\ UNCHANGED <<keepPlan, keepProcesses>>

-----------------------------------------------------------------------------
(* executePlan: the cleanup, the project's commands first. One that fails is *)
(* logged.                                                                   *)

AllActions == cleanups + Len(KilledKeys(Target))
GroupsEnd(ended) == live' = live \ ended /\ displaced' = displaced \ ended

(* A command of the project ends what it will of the project's.              *)
ProjectCleansUp ==
  /\ stage = "cleanup" /\ next <= cleanups /\ Heard
  /\ \E ended \in SUBSET {g \in live : g.by = "project"} : GroupsEnd(ended)
  /\ next' = next + 1
  /\ UNCHANGED <<stage, keepPlan, handles, tracked, erring>>

AtKill == stage = "cleanup" /\ next > cleanups /\ next <= AllActions
KilledKey == KilledKeys(Target)[next - cleanups]
NothingToKill ==
  \/ metroReused /\ KilledKey = "metro"
  \/ handles[KilledKey].entry # "group" \/ tracked[KilledKey] = Nothing

KillsNothing ==
  /\ AtKill /\ NothingToKill
  /\ next' = next + 1
  /\ UNCHANGED <<stage, keepPlan, keepProcesses>>

(* Mutant: SIGTERM only.                                                     *)
TermsHandle ==
  /\ AtKill /\ ~NothingToKill
  /\ \/ GroupsEnd({handles[KilledKey]})
     \/ UNCHANGED <<live, displaced>>
  /\ tracked' = [tracked EXCEPT ![KilledKey] = Nothing]
  /\ next' = next + 1
  /\ UNCHANGED <<stage, keepPlan, handles, erring>>

(* kill(): without the entry there is no SIGKILL, and an 'error' that comes  *)
(* during the 500 ms takes the entry away.                                   *)
KillsHandle ==
  /\ AtKill /\ ~NothingToKill
  /\ \/ GroupsEnd({handles[KilledKey]})
     \/ /\ \E e \in erring :
             e.key = KilledKey /\ displaced' = displaced \cup Displaced(KilledKey, e.by)
        /\ UNCHANGED live
  /\ tracked' = [tracked EXCEPT ![KilledKey] = Nothing]
  /\ erring' = {e \in erring : e.key # KilledKey}
  /\ next' = next + 1
  /\ UNCHANGED <<stage, keepPlan, handles>>

Sweeps ==
  /\ stage = "cleanup" /\ next > AllActions /\ Heard
  /\ stage' = "swept"
  /\ UNCHANGED <<keepPlan, next, keepProcesses>>

NextTarget ==
  /\ stage = "swept"
  /\ IF leg < Len(targets) THEN leg' = leg + 1 /\ stage' = "begin"
                           ELSE stage' = "ended" /\ UNCHANGED leg
  /\ steps' = <<>> /\ cleanups' = 0 /\ next' = 1 /\ metroReused' = FALSE
  /\ handles' = [k \in ProcessKeys |-> Nothing]
  /\ UNCHANGED <<targets, tracked, erring, live, displaced>>

(* killAll(), then process.exit.                                             *)
SignalComes ==
  /\ stage \notin {"ended", "signalled"} /\ Heard
  /\ GroupsEnd({tracked[k] : k \in ProcessKeys})
  /\ tracked' = [k \in ProcessKeys |-> Nothing]
  /\ stage' = "signalled"
  /\ UNCHANGED <<keepPlan, next, handles, erring>>

GroupDies ==
  /\ \E g \in live : GroupsEnd({g})
  /\ UNCHANGED <<stage, keepPlan, next, handles, tracked, erring>>

HookNext ==
  \/ TakesHook \/ HookThrows \/ RunsForeground \/ SkipsMetro \/ Spawns \/ SpawnFails
  \/ ErrorComes \/ Waits \/ RunsPlaywright \/ ProjectCleansUp \/ KillsNothing
  \/ KillsHandle \/ Sweeps \/ NextTarget \/ SignalComes \/ GroupDies

HookSpec == HookInit /\ [][HookNext]_hookVars

(* The runner's process is gone.                                             *)
HookOver == stage \in {"ended", "signalled"} /\ UNCHANGED hookVars

-----------------------------------------------------------------------------
(* Properties                                                                *)

(* A process group that is alive is in the map, so that its kill-process or  *)
(* killAll() reaches it, and a signal leaves none alive; unless its entry    *)
(* went to a process under the same key, one of the two being the project's. *)
NoneForgotten ==
  \A g \in live \ displaced : stage # "signalled" /\ tracked[g.key] = g

(* When a target is done with, nothing the runner itself started is alive,   *)
(* whatever the project contributed and whichever step failed, unless a      *)
(* process of the project took its key.                                      *)
OwnGroupsEnded ==
  stage = "swept" => \A g \in live \ displaced : g.by = "project"

(* SPEC.md REQ-HOOK-006: the project's steps come before Metro starts, after *)
(* it is ready, and before whatever launches the app first; the runner's own *)
(* keep their order.                                                         *)
Launches(target, s) ==
  \/ s.id \in {"ios.launch", "android.launch-1", "android.launch-2"}
  \/ target = "plain-simulator" /\ s.id = "ios.companion-start"

HooksInPlace ==
  LET plan == PlanOf(Target)
      Own == {n \in DOMAIN steps : steps[n].by = "runner"} IN
  stage = "step" =>
    /\ {steps[n] : n \in Own} = {plan[n] : n \in DOMAIN plan}
    /\ \A m, n \in Own :
         m < n <=> IndexOf(plan, steps[m].id) < IndexOf(plan, steps[n].id)
    /\ \A m, n \in DOMAIN steps :
         /\ steps[m].id = "beforeMetro" /\ steps[n].id = "metro.start" => m < n
         /\ steps[m].id = "afterMetroReady" /\ steps[n].id = "metro.ready" => m > n
         /\ steps[m].id = "beforeLaunch" /\ Launches(Target, steps[n]) => m < n

HooksKept == NoneForgotten /\ OwnGroupsEnded /\ HooksInPlace
=============================================================================
