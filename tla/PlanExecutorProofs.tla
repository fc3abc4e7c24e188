------------------------- MODULE PlanExecutorProofs -------------------------
(* Theorems about PlanExecutor, for any sequence of platforms, any number of *)
(* retries and of runs, whichever group members are stubborn and whether or  *)
(* not a running Metro may be reused.                                        *)
EXTENDS PlanExecutor, TLAPS

-----------------------------------------------------------------------------
(* What the proofs use of the two plans.                                     *)

IsSpawn(p, n, k) == Steps(p)[n].op = "spawn" /\ Steps(p)[n].key = k
IsKill(p, n, k) == Cleanups(p)[n].op = "kill-process" /\ Cleanups(p)[n].key = k
Last(p) == Len(Cleanups(p))

(* Every step has a place below 15, makes what a resource is, and has no     *)
(* more retries than there are; only Metro and the companion are spawned.    *)
LEMMA StepsTyped ==
  ASSUME NEW p \in {"ios", "android"}
  PROVE  /\ Len(Steps(p)) \in Nat /\ 1 <= Len(Steps(p)) /\ Len(Steps(p)) <= 14
         /\ \A n \in 1 .. Len(Steps(p)) :
              /\ Steps(p)[n].made \subseteq Resources
              /\ Steps(p)[n].retries \in 0 .. MaxRetries
              /\ Steps(p)[n].op = "spawn" => Steps(p)[n].key \in Keys
<1>1. CASE p = "ios"
  <2>1. Steps(p) = IosSteps
    BY <1>1 DEF Steps
  <2>2. Len(IosSteps) = 12
    BY DEF IosSteps
  <2>3. ASSUME NEW n \in 1 .. 12
        PROVE  /\ IosSteps[n].made \subseteq Resources
               /\ IosSteps[n].retries \in 0 .. MaxRetries
               /\ IosSteps[n].op = "spawn" => IosSteps[n].key \in Keys
    BY <2>3, CountsAssumption
       DEF IosSteps, FreePort, Command, WriteFile, Spawn, Probe, Step, Resources, Keys
  <2> QED BY <2>1, <2>2, <2>3
<1>2. CASE p = "android"
  <2>1. Steps(p) = AndroidSteps
    BY <1>2 DEF Steps
  <2>2. Len(AndroidSteps) = 14
    BY DEF AndroidSteps
  <2>3. ASSUME NEW n \in 1 .. 14
        PROVE  /\ AndroidSteps[n].made \subseteq Resources
               /\ AndroidSteps[n].retries \in 0 .. MaxRetries
               /\ AndroidSteps[n].op = "spawn" => AndroidSteps[n].key \in Keys
    BY <2>3, CountsAssumption
       DEF AndroidSteps, FreePort, Command, WriteFile, Spawn, Probe, Step, Resources, Keys
  <2> QED BY <2>1, <2>2, <2>3
<1> QED BY <1>1, <1>2

(* No plan spawns the same key twice.                                        *)
LEMMA SpawnedOnce ==
  ASSUME NEW p \in {"ios", "android"}, NEW k \in Keys,
         NEW m \in 1 .. Len(Steps(p)), NEW n \in 1 .. Len(Steps(p)),
         IsSpawn(p, m, k), IsSpawn(p, n, k)
  PROVE  m = n
<1>1. CASE p = "ios"
  <2>1. Steps(p) = IosSteps /\ Len(IosSteps) = 12
    BY <1>1 DEF Steps, IosSteps
  <2>2. ASSUME NEW i \in 1 .. 12, IosSteps[i].op = "spawn"
        PROVE  \/ i = 5 /\ IosSteps[i].key = "metro"
               \/ i = 9 /\ IosSteps[i].key = "companion"
    BY <2>2 DEF IosSteps, FreePort, Command, WriteFile, Spawn, Probe, Step
  <2> QED BY <2>1, <2>2 DEF IsSpawn
<1>2. CASE p = "android"
  <2>1. Steps(p) = AndroidSteps /\ Len(AndroidSteps) = 14
    BY <1>2 DEF Steps, AndroidSteps
  <2>2. ASSUME NEW i \in 1 .. 14, AndroidSteps[i].op = "spawn"
        PROVE  \/ i = 4 /\ AndroidSteps[i].key = "metro"
               \/ i = 11 /\ AndroidSteps[i].key = "companion"
    BY <2>2 DEF AndroidSteps, FreePort, Command, WriteFile, Spawn, Probe, Step
  <2> QED BY <2>1, <2>2 DEF IsSpawn
<1> QED BY <1>1, <1>2

(* Every cleanup kills each key, and a kill releases nothing else; on iOS    *)
(* the port of the hosted companion is freed after xcodebuild is killed.     *)
LEMMA CleanupsTyped ==
  ASSUME NEW p \in {"ios", "android"}
  PROVE  /\ Last(p) \in Nat /\ 1 <= Last(p) /\ Last(p) <= 6
         /\ \A n \in 1 .. Last(p) :
              /\ Cleanups(p)[n].made \subseteq Resources
              /\ Cleanups(p)[n].op = "kill-process" =>
                   Cleanups(p)[n].key \in Keys /\ Cleanups(p)[n].made = {}
         /\ \A k \in Keys : \E n \in 1 .. Last(p) : IsKill(p, n, k)
         /\ p = "ios" => \A n \in 1 .. Last(p) :
              IsKill(p, n, "companion") =>
                 n + 1 \in 1 .. Last(p) /\ "hosted" \in Cleanups(p)[n + 1].made
<1>1. CASE p = "ios"
  <2>1. Cleanups(p) = IosCleanups /\ Len(IosCleanups) = 5
    BY <1>1 DEF Cleanups, IosCleanups
  <2>2. ASSUME NEW n \in 1 .. 5
        PROVE  /\ IosCleanups[n].made \subseteq Resources
               /\ IosCleanups[n].op = "kill-process" =>
                     IosCleanups[n].key \in Keys /\ IosCleanups[n].made = {}
               /\ IosCleanups[n].op = "kill-process" /\ IosCleanups[n].key = "companion" =>
                     n = 1
    BY <2>2 DEF IosCleanups, Kill, FreePort, RemoveFile, Step, Resources, Keys
  <2>3. /\ IosCleanups[1].op = "kill-process" /\ IosCleanups[1].key = "companion"
        /\ IosCleanups[3].op = "kill-process" /\ IosCleanups[3].key = "metro"
        /\ "hosted" \in IosCleanups[2].made
    BY DEF IosCleanups, Kill, FreePort, RemoveFile, Step
  <2>4. \A k \in Keys : \E n \in 1 .. 5 : IsKill(p, n, k)
    BY <2>1, <2>3 DEF IsKill, Keys
  <2> QED BY <2>1, <2>2, <2>3, <2>4 DEF Last, IsKill
<1>2. CASE p = "android"
  <2>1. Cleanups(p) = AndroidCleanups /\ Len(AndroidCleanups) = 6
    BY <1>2 DEF Cleanups, AndroidCleanups
  <2>2. ASSUME NEW n \in 1 .. 6
        PROVE  /\ AndroidCleanups[n].made \subseteq Resources
               /\ AndroidCleanups[n].op = "kill-process" =>
                     AndroidCleanups[n].key \in Keys /\ AndroidCleanups[n].made = {}
    BY <2>2 DEF AndroidCleanups, Kill, FreePort, Command, RemoveFile, Step, Resources, Keys
  <2>3. /\ AndroidCleanups[1].op = "kill-process" /\ AndroidCleanups[1].key = "companion"
        /\ AndroidCleanups[5].op = "kill-process" /\ AndroidCleanups[5].key = "metro"
    BY DEF AndroidCleanups, Kill, FreePort, Command, RemoveFile, Step
  <2>4. \A k \in Keys : \E n \in 1 .. 6 : IsKill(p, n, k)
    BY <2>1, <2>3 DEF IsKill, Keys
  <2>5. Last(p) = 6
    BY <2>1 DEF Last
  <2> QED BY <1>2, <2>1, <2>2, <2>4, <2>5
<1> QED BY <1>1, <1>2

(* What a cleanup answers for is what one of its actions releases.           *)
LEMMA OwnedIsReleased ==
  ASSUME NEW p, NEW r \in Owned(p)
  PROVE  \E n \in 1 .. Last(p) : r \in Cleanups(p)[n].made
BY DEF Owned, Last

-----------------------------------------------------------------------------
(* The inductive invariant.                                                  *)

Settling == {"cleanup", "killing"}
Before   == {"begin", "preflight", "resolve", "hook"}
Over     == {"swept", "refused"}

(* The runner is at a step or at a cleanup action of its platform's plan.    *)
AtIsInPlan ==
  /\ pc = "step" => at <= Len(Steps(Platform))
  /\ pc = "cleanup" => at <= Last(Platform) + 1
  /\ pc = "killing" =>
       /\ at <= Last(Platform)
       /\ IsKill(Platform, at, CurrentCleanup.key)
       /\ ~(reuse /\ CurrentCleanup.key = "metro")
InPlan == TypeOK /\ AtIsInPlan

(* A failure is in the result of the platform under way or in the exit code. *)
FailureKept ==
  /\ pc # "off" => (faulty <=> result # 0 \/ exitCode # 0) /\ ended = "never"
  /\ pc = "begin" /\ result # 0 => exitCode # 0
  /\ pc \in {"off", "preflight", "resolve", "hook", "step", "playwright"} => result = 0
Exits == FailureKept /\ ExitCodeTells

(* A live group is tracked, by a handle of this platform's plan, from the    *)
(* step that spawns it to the action that kills it; there is none before the *)
(* first step and after the cleanup.                                         *)
GroupsTracked ==
  /\ pc = "off" => children = {} /\ processes = {}
  /\ pc \in Before \ {"begin"} => processes = {}
  /\ pc # "off" => \A k \in Keys : group[k] # {} => k \in children
  /\ pc # "off" => children \subseteq processes
  /\ pc \in Before \cup Over => children = {}
  /\ pc = "step" => \A k \in children, n \in at .. Len(Steps(Platform)) :
                       ~IsSpawn(Platform, n, k)
  /\ pc \in Settling => \A k \in children :
                           \E n \in at .. Last(Platform) : IsKill(Platform, n, k)
  /\ reuse /\ pc \in {"step", "playwright", "cleanup", "killing", "swept"} =>
       "metro" \notin processes
SignalEmpties == pc = "off" /\ ended = "signal" => \A k \in Keys : group[k] = {}
GroupsHeld == GroupsTracked /\ SignalEmpties

(* Only stubborn members live between the SIGTERM and the end of a kill().   *)
Leaks ==
  /\ OnlyStubbornLeak
  /\ pc = "killing" => group[CurrentCleanup.key] \subseteq Stubborn

(* During the cleanup, what is held is yet to be released or its action has  *)
(* failed; until there is a plan, only the token file is new.                *)
RestIsOwed ==
  /\ pc \in Settling => \A r \in held \cap Owned(Platform) :
       r \in failed \/ \E n \in at .. Last(Platform) : r \in Cleanups(Platform)[n].made
  /\ pc = "swept" => held \cap Owned(Platform) \subseteq failed
  /\ pc \in {"preflight", "resolve"} => held \subseteq before
  /\ pc = "hook" => held \subseteq before \cup {"tokenFile"}
  /\ pc = "refused" =>
       held \subseteq before \cup failed \cup {r \in {"tokenFile"} : refusal = "plan"}

PlanInvariant == InPlan /\ Exits /\ GroupsHeld /\ Leaks /\ RestIsOwed

(* The type invariant in three parts, each proved by itself.                 *)
NumbersTyped ==
  /\ pc \in Phases
  /\ lap \in 1 .. Len(Platforms) /\ at \in 1 .. 15
  /\ remaining \in 0 .. MaxRetries /\ runs \in 0 .. MaxRuns
  /\ result \in {0, 1} /\ exitCode \in {0, 1, 130}
FlagsTyped ==
  /\ reuse \in BOOLEAN /\ userMetro \in BOOLEAN /\ strayMetro \in BOOLEAN
  /\ faulty \in BOOLEAN
  /\ ended \in {"never", "normal", "signal", "crash"}
  /\ refusal \in {"none", "user", "stray", "plan"}
SetsTyped ==
  /\ processes \subseteq Keys /\ children \subseteq Keys
  /\ group \in [Keys -> SUBSET Members] /\ leaked \in [Keys -> SUBSET Members]
  /\ held \subseteq Resources /\ before \subseteq Resources /\ failed \subseteq Resources

LEMMA TypeParts == TypeOK <=> NumbersTyped /\ FlagsTyped /\ SetsTyped
BY DEF TypeOK, NumbersTyped, FlagsTyped, SetsTyped

LEMMA PlatformTyped ==
  ASSUME lap \in 1 .. Len(Platforms)
  PROVE  Platform \in {"ios", "android"}
BY PlatformsAssumption DEF Platform

LEMMA PlanStarts == Init => PlanInvariant
<1> SUFFICES ASSUME Init PROVE PlanInvariant
  OBVIOUS
<1> Len(Platforms) \in Nat /\ Len(Platforms) # 0
  BY PlatformsAssumption
<1>1. TypeOK
  <2>1. NumbersTyped
    BY CountsAssumption DEF Init, NumbersTyped, Phases
  <2>2. FlagsTyped
    BY DEF Init, FlagsTyped
  <2>3. SetsTyped
    BY DEF Init, SetsTyped, Resources, Keys, Members
  <2> QED BY <2>1, <2>2, <2>3, TypeParts
<1>2. AtIsInPlan
  BY DEF Init, AtIsInPlan
<1>3. Exits
  BY DEF Init, Exits, FailureKept, ExitCodeTells
<1>4. GroupsHeld
  BY DEF Init, GroupsHeld, GroupsTracked, SignalEmpties, Before, Over, Settling, Keys
<1>5. RestIsOwed
  BY DEF Init, RestIsOwed, Settling
<1>6. Leaks
  BY DEF Init, Leaks, OnlyStubbornLeak
<1> QED BY <1>1, <1>2, <1>3, <1>4, <1>5, <1>6 DEF PlanInvariant, InPlan

(* Going on to the next step, or from the last one to Playwright.            *)
LEMMA AdvanceTyped ==
  ASSUME TypeOK, AtIsInPlan, pc = "step", Advance
  PROVE  /\ pc' \in {"step", "playwright"}
         /\ at' \in 1 .. 15
         /\ remaining' \in 0 .. MaxRetries
         /\ pc' = "step" => at' = at + 1 /\ at' <= Len(Steps(Platform))
<1>1. /\ Len(Steps(Platform)) \in Nat /\ Len(Steps(Platform)) <= 14
      /\ \A m \in 1 .. Len(Steps(Platform)) : Steps(Platform)[m].retries \in 0 .. MaxRetries
  BY PlatformTyped, StepsTyped DEF TypeOK
<1>2. at \in Nat /\ at + 1 \in 1 .. 15 /\ MaxRetries \in Nat
  BY <1>1, CountsAssumption DEF AtIsInPlan, TypeOK
<1>3. CASE at + 1 <= Len(Steps(Platform))
  <2>1. at + 1 \in 1 .. Len(Steps(Platform))
    BY <1>1, <1>2, <1>3
  <2>2. Steps(Platform)[at + 1].retries \in 0 .. MaxRetries
    BY <1>1, <2>1
  <2> QED BY <1>2, <1>3, <2>2 DEF Advance, ArriveAt
<1>4. CASE ~(at + 1 <= Len(Steps(Platform)))
  BY <1>2, <1>4 DEF Advance, ArriveAt
<1> QED BY <1>3, <1>4

(* The kill() under way is of Metro or of the companion.                     *)
LEMMA KilledIsKey ==
  ASSUME PlanInvariant, pc = "killing"
  PROVE  CurrentCleanup.key \in Keys
<1>1. at \in 1 .. 15 /\ at <= Last(Platform) /\ IsKill(Platform, at, CurrentCleanup.key)
  BY DEF PlanInvariant, InPlan, AtIsInPlan, TypeOK
<1>2. Platform \in {"ios", "android"}
  BY PlatformTyped DEF PlanInvariant, InPlan, TypeOK
<1>3. Last(Platform) \in Nat
  BY <1>2, CleanupsTyped
<1>4. at \in 1 .. Last(Platform)
  BY <1>1, <1>3
<1> QED BY <1>1, <1>2, <1>4, CleanupsTyped DEF IsKill

LEMMA KeepsNumbers ==
  ASSUME PlanInvariant, [Next]_vars
  PROVE  NumbersTyped'
<1> TypeOK /\ AtIsInPlan
  BY DEF PlanInvariant, InPlan
<1> Platform \in {"ios", "android"}
  BY PlatformTyped DEF TypeOK
<1> Len(Platforms) \in Nat /\ Len(Platforms) # 0 /\ MaxRetries \in Nat /\ MaxRuns \in Nat \ {0}
  BY PlatformsAssumption, CountsAssumption
<1>1. CASE DecideReuse
  BY <1>1 DEF DecideReuse, Abandon, NumbersTyped, AtIsInPlan, TypeOK, Phases, Last, run,
     host, history
<1>2. CASE PreflightRefuses
  BY <1>2 DEF PreflightRefuses, Refuse, NumbersTyped, AtIsInPlan, TypeOK,
     Phases, Last, run, host, history
<1>3. CASE PreflightPasses
  BY <1>3 DEF PreflightPasses, NumbersTyped, AtIsInPlan, TypeOK, Phases, Last,
     run, host, history
<1>4. CASE ResolveFails
  BY <1>4 DEF ResolveFails, Refuse, NumbersTyped, AtIsInPlan, TypeOK, Phases,
     Last, run, host, history
<1>5. CASE ResolveMints
  BY <1>5 DEF ResolveMints, NumbersTyped, AtIsInPlan, TypeOK, Phases, Last,
     run, host, history
<1>6. CASE HookFails \/ PlanFails
  BY <1>6 DEF HookFails, PlanFails, Refuse, NumbersTyped, AtIsInPlan, TypeOK, Phases,
     Last, run, host, history
<1>7. CASE PlanBuilt
  BY <1>7, StepsTyped DEF PlanBuilt, ArriveAt, NumbersTyped, AtIsInPlan,
     TypeOK, Phases, Last, run, host, history
<1>8. CASE NextPlatform
  <2>1. exitCode' \in {0, 1, 130}
    BY <1>8 DEF NextPlatform, TypeOK
  <2>2. CASE lap < Len(Platforms) /\ pc' = "begin" /\ lap' = lap + 1
    BY <1>8, <2>1, <2>2 DEF NextPlatform, BeginNextOrEnd, EndProcess, NumbersTyped,
       TypeOK, Phases
  <2>3. CASE EndProcess("normal")
    BY <2>1, <2>3 DEF EndProcess, NumbersTyped, TypeOK, Phases
  <2> QED BY <1>8, <2>2, <2>3 DEF NextPlatform, BeginNextOrEnd
<1>9. CASE RunSkipped
  <2>1. pc = "step" /\ Advance
    BY <1>9 DEF RunSkipped, AtStep
  <2>2. pc' \in Phases /\ at' \in 1 .. 15 /\ remaining' \in 0 .. MaxRetries
    BY <2>1, AdvanceTyped DEF Phases
  <2> QED BY <1>9, <2>1, <2>2 DEF RunSkipped, Advance, KeepRun, NumbersTyped, TypeOK
<1>10. CASE RunEffect
  <2>1. pc = "step" /\ (Advance \/ Abort) /\ KeepRun
    BY <1>10 DEF RunEffect, AtStep
  <2>2. CASE Advance
    <3>1. pc' \in Phases /\ at' \in 1 .. 15 /\ remaining' \in 0 .. MaxRetries
      BY <2>1, <2>2, AdvanceTyped DEF Phases
    <3> QED BY <2>1, <2>2, <3>1 DEF Advance, KeepRun, NumbersTyped, TypeOK
  <2>3. CASE Abort
    BY <2>1, <2>3 DEF Abort, KeepRun, NumbersTyped, TypeOK, Phases
  <2> QED BY <2>1, <2>2, <2>3
<1>11. CASE RunFreePort
  <2>1. pc = "step" /\ (Advance \/ Abort) /\ KeepRun
    BY <1>11 DEF RunFreePort, AtStep
  <2>2. CASE Advance
    <3>1. pc' \in Phases /\ at' \in 1 .. 15 /\ remaining' \in 0 .. MaxRetries
      BY <2>1, <2>2, AdvanceTyped DEF Phases
    <3> QED BY <2>1, <2>2, <3>1 DEF Advance, KeepRun, NumbersTyped, TypeOK
  <2>3. CASE Abort
    BY <2>1, <2>3 DEF Abort, KeepRun, NumbersTyped, TypeOK, Phases
  <2> QED BY <2>1, <2>2, <2>3
<1>12. CASE RunSpawn
  <2>1. pc = "step" /\ (Advance \/ Abort) /\ KeepRun
    BY <1>12 DEF RunSpawn, AtStep
  <2>2. CASE Advance
    <3>1. pc' \in Phases /\ at' \in 1 .. 15 /\ remaining' \in 0 .. MaxRetries
      BY <2>1, <2>2, AdvanceTyped DEF Phases
    <3> QED BY <2>1, <2>2, <3>1 DEF Advance, KeepRun, NumbersTyped, TypeOK
  <2>3. CASE Abort
    BY <2>1, <2>3 DEF Abort, KeepRun, NumbersTyped, TypeOK, Phases
  <2> QED BY <2>1, <2>2, <2>3
<1>13. CASE ProbePasses
  <2>1. pc = "step" /\ Advance
    BY <1>13 DEF ProbePasses, AtStep
  <2>2. pc' \in Phases /\ at' \in 1 .. 15 /\ remaining' \in 0 .. MaxRetries
    BY <2>1, AdvanceTyped DEF Phases
  <2> QED BY <1>13, <2>1, <2>2 DEF ProbePasses, Advance, KeepRun, NumbersTyped, TypeOK
<1>14. CASE ProbeMisses
  <2>1. KeepRun /\ remaining > 0
    BY <1>14 DEF ProbeMisses
  <2>2. CASE remaining' = remaining - 1 /\ UNCHANGED <<pc, at, result>>
    <3>1. remaining' \in 0 .. MaxRetries
      BY <2>1, <2>2 DEF TypeOK
    <3> QED BY <2>1, <2>2, <3>1 DEF KeepRun, NumbersTyped, TypeOK
  <2>3. CASE Abort
    BY <2>1, <2>3 DEF Abort, KeepRun, NumbersTyped, TypeOK, Phases
  <2> QED BY <1>14, <2>2, <2>3 DEF ProbeMisses
<1>15. CASE ProbeFails
  BY <1>15 DEF ProbeFails, AtStep, Abort, KeepRun, CurrentStep, NumbersTyped,
     AtIsInPlan, TypeOK, Phases, Last, run, host, history
<1>16. CASE Playwright
  BY <1>16 DEF Playwright, KeepRun, NumbersTyped, AtIsInPlan, TypeOK, Phases,
     Last, run, host, history
<1>17. CASE Release
  <2>1. at <= Last(Platform) /\ pc' = "cleanup" /\ at' = at + 1
    BY <1>17 DEF Release, AtCleanup, CleanupFails, NextCleanup, Last
  <2>2. at' \in 1 .. 15
    BY <2>1, CleanupsTyped DEF TypeOK
  <2> QED BY <1>17, <2>1, <2>2 DEF Release, KeepPlatform, NumbersTyped, TypeOK, Phases
<1>18. CASE KillNothing
  <2>1. at <= Last(Platform) /\ pc' = "cleanup" /\ at' = at + 1
    BY <1>18 DEF KillNothing, AtCleanup, CleanupFails, NextCleanup, Last
  <2>2. at' \in 1 .. 15
    BY <2>1, CleanupsTyped DEF TypeOK
  <2> QED BY <1>18, <2>1, <2>2 DEF KillNothing, KeepPlatform, NumbersTyped, TypeOK, Phases
<1>19. CASE KillTerminates
  BY <1>19 DEF KillTerminates, AtCleanup, KeepPlatform, CurrentCleanup,
     NumbersTyped, AtIsInPlan, TypeOK, Phases, Last, run, host, history
<1>20. CASE KillFinishes
  BY <1>20, CleanupsTyped DEF KillFinishes, NextCleanup, KeepPlatform, IsAlive,
     CurrentCleanup, NumbersTyped, AtIsInPlan, TypeOK, Phases, Last, run, host,
     history
<1>21. CASE CleanupEnds
  BY <1>21, CleanupsTyped DEF CleanupEnds, KeepPlatform, NumbersTyped,
     AtIsInPlan, TypeOK, Phases, Last, run, host, history
<1>22. CASE Start
  BY <1>22 DEF Start, Abandon, NumbersTyped, AtIsInPlan, TypeOK, Phases, Last, run,
     host, history
<1>23. CASE Signal
  BY <1>23 DEF Signal, KillAll, EndProcess, NumbersTyped, AtIsInPlan, TypeOK,
     Phases, Last, run, host, history
<1>24. CASE Crash
  BY <1>24 DEF Crash, EndProcess, NumbersTyped, AtIsInPlan, TypeOK, Phases,
     Last, run, host, history
<1>25. CASE MemberDies
  BY <1>25 DEF MemberDies, NumbersTyped, AtIsInPlan, TypeOK, Phases, Last, run,
     host, history
<1>26. CASE HostedStarts
  BY <1>26 DEF HostedStarts, NumbersTyped, AtIsInPlan, TypeOK, Phases, Last,
     run, host, history
<1>27. CASE UserMetroToggles
  BY <1>27 DEF UserMetroToggles, NumbersTyped, AtIsInPlan, TypeOK, Phases,
     Last, run, host, history
<1>28. CASE StrayDies
  BY <1>28 DEF StrayDies, NumbersTyped, AtIsInPlan, TypeOK, Phases, Last, run,
     host, history
<1>29. CASE UNCHANGED vars
  BY <1>29 DEF vars, run, host, history, NumbersTyped, AtIsInPlan, TypeOK,
     Phases, Last
<1> QED BY <1>1, <1>2, <1>3, <1>4, <1>5, <1>6, <1>7, <1>8, <1>9, <1>10, <1>11,
     <1>12, <1>13, <1>14, <1>15, <1>16, <1>17, <1>18, <1>19, <1>20, <1>21,
     <1>22, <1>23, <1>24, <1>25, <1>26, <1>27, <1>28, <1>29 DEF Next,
     RunnerStep, Environment

LEMMA KeepsFlags ==
  ASSUME PlanInvariant, [Next]_vars
  PROVE  FlagsTyped'
<1> TypeOK
  BY DEF PlanInvariant, InPlan
<1>1. CASE DecideReuse
  BY <1>1 DEF DecideReuse, Abandon, FlagsTyped, TypeOK, run, host, history
<1>2. CASE PreflightRefuses
  BY <1>2 DEF PreflightRefuses, Refuse, FlagsTyped, TypeOK, run, host, history
<1>3. CASE PreflightPasses
  BY <1>3 DEF PreflightPasses, FlagsTyped, TypeOK, run, host, history
<1>4. CASE ResolveFails
  BY <1>4 DEF ResolveFails, Refuse, FlagsTyped, TypeOK, run, host, history
<1>5. CASE ResolveMints
  BY <1>5 DEF ResolveMints, FlagsTyped, TypeOK, run, host, history
<1>6. CASE HookFails \/ PlanFails
  BY <1>6 DEF HookFails, PlanFails, Refuse, FlagsTyped, TypeOK, run, host, history
<1>7. CASE PlanBuilt
  BY <1>7 DEF PlanBuilt, ArriveAt, FlagsTyped, TypeOK, run, host, history
<1>8. CASE NextPlatform
  BY <1>8 DEF NextPlatform, BeginNextOrEnd, EndProcess, FlagsTyped, TypeOK,
     run, host, history
<1>9. CASE RunSkipped
  BY <1>9 DEF RunSkipped, AtStep, SkipStep, Advance, ArriveAt, KeepRun,
     CurrentStep, FlagsTyped, TypeOK, run, host, history
<1>10. CASE RunEffect
  BY <1>10 DEF RunEffect, AtStep, Advance, ArriveAt, KeepRun, Abort,
     CurrentStep, FlagsTyped, TypeOK, run, host, history
<1>11. CASE RunFreePort
  BY <1>11 DEF RunFreePort, AtStep, Advance, ArriveAt, KeepRun, Abort,
     CurrentStep, FlagsTyped, TypeOK, run, host, history
<1>12. CASE RunSpawn
  BY <1>12 DEF RunSpawn, AtStep, SkipStep, Advance, ArriveAt, KeepRun, Abort,
     CurrentStep, FlagsTyped, TypeOK, run, host, history
<1>13. CASE ProbePasses
  BY <1>13 DEF ProbePasses, AtStep, Advance, ArriveAt, KeepRun, CurrentStep,
     FlagsTyped, TypeOK, run, host, history
<1>14. CASE ProbeMisses
  BY <1>14 DEF ProbeMisses, AtStep, Abort, KeepRun, CurrentStep, FlagsTyped,
     TypeOK, run, host, history
<1>15. CASE ProbeFails
  BY <1>15 DEF ProbeFails, AtStep, Abort, KeepRun, CurrentStep, FlagsTyped,
     TypeOK, run, host, history
<1>16. CASE Playwright
  BY <1>16 DEF Playwright, KeepRun, FlagsTyped, TypeOK, run, host, history
<1>17. CASE Release
  BY <1>17 DEF Release, AtCleanup, CleanupFails, NextCleanup, KeepPlatform,
     CurrentCleanup, FlagsTyped, TypeOK, run, host, history
<1>18. CASE KillNothing
  BY <1>18 DEF KillNothing, AtCleanup, NextCleanup, KeepPlatform,
     CurrentCleanup, FlagsTyped, TypeOK, run, host, history
<1>19. CASE KillTerminates
  BY <1>19 DEF KillTerminates, AtCleanup, KeepPlatform, CurrentCleanup,
     FlagsTyped, TypeOK, run, host, history
<1>20. CASE KillFinishes
  BY <1>20 DEF KillFinishes, NextCleanup, KeepPlatform, IsAlive,
     CurrentCleanup, FlagsTyped, TypeOK, run, host, history
<1>21. CASE CleanupEnds
  BY <1>21 DEF CleanupEnds, KeepPlatform, FlagsTyped, TypeOK, run, host,
     history
<1>22. CASE Start
  BY <1>22 DEF Start, Abandon, FlagsTyped, TypeOK, run, host, history
<1>23. CASE Signal
  BY <1>23 DEF Signal, KillAll, EndProcess, FlagsTyped, TypeOK, run, host,
     history
<1>24. CASE Crash
  BY <1>24 DEF Crash, EndProcess, FlagsTyped, TypeOK, run, host, history
<1>25. CASE MemberDies
  BY <1>25 DEF MemberDies, FlagsTyped, TypeOK, run, host, history
<1>26. CASE HostedStarts
  BY <1>26 DEF HostedStarts, FlagsTyped, TypeOK, run, host, history
<1>27. CASE UserMetroToggles
  BY <1>27 DEF UserMetroToggles, FlagsTyped, TypeOK, run, host, history
<1>28. CASE StrayDies
  BY <1>28 DEF StrayDies, FlagsTyped, TypeOK, run, host, history
<1>29. CASE UNCHANGED vars
  BY <1>29 DEF vars, run, host, history, FlagsTyped, TypeOK
<1> QED BY <1>1, <1>2, <1>3, <1>4, <1>5, <1>6, <1>7, <1>8, <1>9, <1>10, <1>11,
     <1>12, <1>13, <1>14, <1>15, <1>16, <1>17, <1>18, <1>19, <1>20, <1>21,
     <1>22, <1>23, <1>24, <1>25, <1>26, <1>27, <1>28, <1>29 DEF Next,
     RunnerStep, Environment

LEMMA KeepsSets ==
  ASSUME PlanInvariant, [Next]_vars
  PROVE  SetsTyped'
<1> TypeOK /\ AtIsInPlan
  BY DEF PlanInvariant, InPlan
<1> Platform \in {"ios", "android"}
  BY PlatformTyped DEF TypeOK
<1> Len(Platforms) \in Nat /\ Len(Platforms) # 0 /\ MaxRetries \in Nat /\ MaxRuns \in Nat \ {0}
  BY PlatformsAssumption, CountsAssumption
<1>1. CASE DecideReuse
  BY <1>1 DEF DecideReuse, Abandon, SetsTyped, AtIsInPlan, TypeOK, Resources, Keys,
     Members, Last, run, host, history
<1>2. CASE PreflightRefuses
  BY <1>2 DEF PreflightRefuses, Refuse, SetsTyped, AtIsInPlan, TypeOK,
     Resources, Keys, Members, Last, run, host, history
<1>3. CASE PreflightPasses
  BY <1>3 DEF PreflightPasses, SetsTyped, AtIsInPlan, TypeOK, Resources, Keys,
     Members, Last, run, host, history
<1>4. CASE ResolveFails
  BY <1>4 DEF ResolveFails, Refuse, SetsTyped, AtIsInPlan, TypeOK, Resources,
     Keys, Members, Last, run, host, history
<1>5. CASE ResolveMints
  BY <1>5 DEF ResolveMints, SetsTyped, AtIsInPlan, TypeOK, Resources, Keys,
     Members, Last, run, host, history
<1>6. CASE HookFails \/ PlanFails
  BY <1>6 DEF HookFails, PlanFails, Refuse, SetsTyped, AtIsInPlan, TypeOK, Resources,
     Keys, Members, Last, run, host, history
<1>7. CASE PlanBuilt
  BY <1>7 DEF PlanBuilt, ArriveAt, SetsTyped, AtIsInPlan, TypeOK, Resources,
     Keys, Members, Last, run, host, history
<1>8. CASE NextPlatform
  BY <1>8 DEF NextPlatform, BeginNextOrEnd, EndProcess, SetsTyped, AtIsInPlan,
     TypeOK, Resources, Keys, Members, Last, run, host, history
<1>9. CASE RunSkipped
  BY <1>9 DEF RunSkipped, AtStep, SkipStep, Advance, ArriveAt, KeepRun,
     CurrentStep, SetsTyped, AtIsInPlan, TypeOK, Resources, Keys, Members,
     Last, run, host, history
<1>10. CASE RunEffect
  <2>1. CurrentStep.made \subseteq Resources
    BY <1>10, StepsTyped DEF RunEffect, AtStep, CurrentStep, AtIsInPlan, TypeOK
  <2>2. held' \subseteq Resources
    BY <1>10, <2>1 DEF RunEffect, TypeOK
  <2> QED BY <1>10, <2>2 DEF RunEffect, KeepRun, SetsTyped, TypeOK
<1>11. CASE RunFreePort
  BY <1>11 DEF RunFreePort, AtStep, Advance, ArriveAt, KeepRun, Abort,
     CurrentStep, SetsTyped, AtIsInPlan, TypeOK, Resources, Keys, Members,
     Last, run, host, history
<1>12. CASE RunSpawn
  <2>1. CurrentStep.key \in Keys
    BY <1>12, StepsTyped DEF RunSpawn, AtStep, CurrentStep, AtIsInPlan, TypeOK
  <2>2. /\ processes' \subseteq Keys /\ children' \subseteq Keys
        /\ group' \in [Keys -> SUBSET Members]
    BY <1>12, <2>1 DEF RunSpawn, TypeOK
  <2> QED BY <1>12, <2>2 DEF RunSpawn, KeepRun, SetsTyped, TypeOK
<1>13. CASE ProbePasses
  BY <1>13 DEF ProbePasses, AtStep, Advance, ArriveAt, KeepRun, CurrentStep,
     SetsTyped, AtIsInPlan, TypeOK, Resources, Keys, Members, Last, run, host,
     history
<1>14. CASE ProbeMisses
  BY <1>14 DEF ProbeMisses, AtStep, Abort, KeepRun, CurrentStep, SetsTyped,
     AtIsInPlan, TypeOK, Resources, Keys, Members, Last, run, host, history
<1>15. CASE ProbeFails
  BY <1>15 DEF ProbeFails, AtStep, Abort, KeepRun, CurrentStep, SetsTyped,
     AtIsInPlan, TypeOK, Resources, Keys, Members, Last, run, host, history
<1>16. CASE Playwright
  BY <1>16 DEF Playwright, KeepRun, SetsTyped, AtIsInPlan, TypeOK, Resources,
     Keys, Members, Last, run, host, history
<1>17. CASE Release
  <2>1. at \in 1 .. Last(Platform)
    BY <1>17, CleanupsTyped DEF Release, AtCleanup, Last, TypeOK
  <2>2. CurrentCleanup.made \subseteq Resources
    BY <2>1, CleanupsTyped DEF CurrentCleanup
  <2>3. held' \subseteq Resources /\ failed' \subseteq Resources
    BY <1>17, <2>2 DEF Release, CleanupFails, TypeOK
  <2> QED BY <1>17, <2>3 DEF Release, KeepPlatform, SetsTyped, TypeOK
<1>18. CASE KillNothing
  BY <1>18 DEF KillNothing, AtCleanup, NextCleanup, KeepPlatform,
     CurrentCleanup, SetsTyped, AtIsInPlan, TypeOK, Resources, Keys, Members,
     Last, run, host, history
<1>19. CASE KillTerminates
  <2>1. group' \in [Keys -> SUBSET Members]
    BY <1>19 DEF KillTerminates, TypeOK
  <2> QED BY <1>19, <2>1 DEF KillTerminates, KeepPlatform, SetsTyped, TypeOK
<1>20. CASE KillFinishes
  <2> DEFINE k == CurrentCleanup.key
             left == IF IsAlive(k) THEN {} ELSE group[k]
  <2>1. k \in Keys
    BY <1>20, KilledIsKey DEF KillFinishes
  <2>2. left \subseteq Members
    BY <2>1 DEF TypeOK
  <2>3. /\ group' \in [Keys -> SUBSET Members] /\ leaked' \in [Keys -> SUBSET Members]
        /\ children' \subseteq Keys
    BY <1>20, <2>1, <2>2 DEF KillFinishes, TypeOK
  <2> QED BY <1>20, <2>3 DEF KillFinishes, KeepPlatform, SetsTyped, TypeOK
<1>21. CASE CleanupEnds
  BY <1>21 DEF CleanupEnds, KeepPlatform, SetsTyped, AtIsInPlan, TypeOK,
     Resources, Keys, Members, Last, run, host, history
<1>22. CASE Start
  BY <1>22 DEF Start, Abandon, SetsTyped, AtIsInPlan, TypeOK, Resources, Keys, Members,
     Last, run, host, history
<1>23. CASE Signal
  BY <1>23 DEF Signal, KillAll, EndProcess, SetsTyped, AtIsInPlan, TypeOK,
     Resources, Keys, Members, Last, run, host, history
<1>24. CASE Crash
  BY <1>24 DEF Crash, EndProcess, SetsTyped, AtIsInPlan, TypeOK, Resources,
     Keys, Members, Last, run, host, history
<1>25. CASE MemberDies
  BY <1>25 DEF MemberDies, SetsTyped, AtIsInPlan, TypeOK, Resources, Keys,
     Members, Last, run, host, history
<1>26. CASE HostedStarts
  BY <1>26 DEF HostedStarts, SetsTyped, AtIsInPlan, TypeOK, Resources, Keys,
     Members, Last, run, host, history
<1>27. CASE UserMetroToggles
  BY <1>27 DEF UserMetroToggles, SetsTyped, AtIsInPlan, TypeOK, Resources,
     Keys, Members, Last, run, host, history
<1>28. CASE StrayDies
  BY <1>28 DEF StrayDies, SetsTyped, AtIsInPlan, TypeOK, Resources, Keys,
     Members, Last, run, host, history
<1>29. CASE UNCHANGED vars
  BY <1>29 DEF vars, run, host, history, SetsTyped, AtIsInPlan, TypeOK,
     Resources, Keys, Members, Last
<1> QED BY <1>1, <1>2, <1>3, <1>4, <1>5, <1>6, <1>7, <1>8, <1>9, <1>10, <1>11,
     <1>12, <1>13, <1>14, <1>15, <1>16, <1>17, <1>18, <1>19, <1>20, <1>21,
     <1>22, <1>23, <1>24, <1>25, <1>26, <1>27, <1>28, <1>29 DEF Next,
     RunnerStep, Environment

LEMMA KeepsPlace ==
  ASSUME PlanInvariant, [Next]_vars
  PROVE  AtIsInPlan'
<1> TypeOK /\ AtIsInPlan
  BY DEF PlanInvariant, InPlan
<1> Platform \in {"ios", "android"}
  BY PlatformTyped DEF TypeOK
<1> Len(Platforms) \in Nat /\ Len(Platforms) # 0 /\ MaxRetries \in Nat /\ MaxRuns \in Nat \ {0}
  BY PlatformsAssumption, CountsAssumption
<1> lap' = lap => Platform' = Platform
  BY DEF Platform
<1>1. CASE DecideReuse
  BY <1>1 DEF DecideReuse, Abandon, AtIsInPlan, TypeOK,
     IsKill, CurrentCleanup, Phases, Last, run, host, history
<1>2. CASE PreflightRefuses
  BY <1>2 DEF PreflightRefuses, Refuse, AtIsInPlan,
     TypeOK, IsKill, CurrentCleanup, Phases, Last, run, host, history
<1>3. CASE PreflightPasses
  BY <1>3 DEF PreflightPasses, AtIsInPlan, TypeOK,
     IsKill, CurrentCleanup, Phases, Last, run, host, history
<1>4. CASE ResolveFails
  BY <1>4 DEF ResolveFails, Refuse, AtIsInPlan,
     TypeOK, IsKill, CurrentCleanup, Phases, Last, run, host, history
<1>5. CASE ResolveMints
  BY <1>5 DEF ResolveMints, AtIsInPlan, TypeOK,
     IsKill, CurrentCleanup, Phases, Last, run, host, history
<1>6. CASE HookFails \/ PlanFails
  BY <1>6 DEF HookFails, PlanFails, Refuse, AtIsInPlan, TypeOK,
     IsKill, CurrentCleanup, Phases, Last, run, host, history
<1>7. CASE PlanBuilt
  BY <1>7 DEF PlanBuilt, ArriveAt, AtIsInPlan,
     TypeOK, IsKill, CurrentCleanup, Phases, Last, run, host, history
<1>8. CASE NextPlatform
  BY <1>8 DEF NextPlatform, BeginNextOrEnd,
     EndProcess, AtIsInPlan, TypeOK, IsKill, CurrentCleanup, Phases, Last, run,
     host, history
<1>9. CASE RunSkipped
  BY <1>9 DEF RunSkipped, AtStep, SkipStep, Advance,
     ArriveAt, KeepRun, CurrentStep, AtIsInPlan, TypeOK, IsKill,
     CurrentCleanup, Phases, Last, run, host, history
<1>10. CASE RunEffect
  BY <1>10 DEF RunEffect, AtStep, Advance, ArriveAt,
     KeepRun, Abort, CurrentStep, AtIsInPlan, TypeOK, IsKill, CurrentCleanup,
     Phases, Last, run, host, history
<1>11. CASE RunFreePort
  BY <1>11 DEF RunFreePort, AtStep, Advance,
     ArriveAt, KeepRun, Abort, CurrentStep, AtIsInPlan, TypeOK, IsKill,
     CurrentCleanup, Phases, Last, run, host, history
<1>12. CASE RunSpawn
  BY <1>12 DEF RunSpawn, AtStep, SkipStep, Advance,
     ArriveAt, KeepRun, Abort, CurrentStep, AtIsInPlan, TypeOK, IsKill,
     CurrentCleanup, Phases, Last, run, host, history
<1>13. CASE ProbePasses
  BY <1>13 DEF ProbePasses, AtStep, Advance,
     ArriveAt, KeepRun, CurrentStep, AtIsInPlan, TypeOK, IsKill,
     CurrentCleanup, Phases, Last, run, host, history
<1>14. CASE ProbeMisses
  BY <1>14 DEF ProbeMisses, AtStep, Abort, KeepRun,
     CurrentStep, AtIsInPlan, TypeOK, IsKill, CurrentCleanup, Phases, Last,
     run, host, history
<1>15. CASE ProbeFails
  BY <1>15 DEF ProbeFails, AtStep, Abort, KeepRun,
     CurrentStep, AtIsInPlan, TypeOK, IsKill, CurrentCleanup, Phases, Last,
     run, host, history
<1>16. CASE Playwright
  BY <1>16 DEF Playwright, KeepRun, AtIsInPlan,
     TypeOK, IsKill, CurrentCleanup, Phases, Last, run, host, history
<1>17. CASE Release
  BY <1>17 DEF Release, AtCleanup, CleanupFails,
     NextCleanup, KeepPlatform, CurrentCleanup, AtIsInPlan, TypeOK, IsKill,
     Phases, Last, run, host, history
<1>18. CASE KillNothing
  BY <1>18 DEF KillNothing, AtCleanup, NextCleanup,
     KeepPlatform, CurrentCleanup, AtIsInPlan, TypeOK, IsKill, Phases, Last,
     run, host, history
<1>19. CASE KillTerminates
  BY <1>19 DEF KillTerminates, AtCleanup,
     KeepPlatform, CurrentCleanup, AtIsInPlan, TypeOK, IsKill, Phases, Last,
     run, host, history
<1>20. CASE KillFinishes
  BY <1>20 DEF KillFinishes, NextCleanup,
     KeepPlatform, IsAlive, CurrentCleanup, AtIsInPlan, TypeOK, IsKill, Phases,
     Last, run, host, history
<1>21. CASE CleanupEnds
  BY <1>21 DEF CleanupEnds, KeepPlatform,
     AtIsInPlan, TypeOK, IsKill, CurrentCleanup, Phases, Last, run, host,
     history
<1>22. CASE Start
  BY <1>22 DEF Start, Abandon, AtIsInPlan, TypeOK, IsKill,
     CurrentCleanup, Phases, Last, run, host, history
<1>23. CASE Signal
  BY <1>23 DEF Signal, KillAll, EndProcess,
     AtIsInPlan, TypeOK, IsKill, CurrentCleanup, Phases, Last, run, host,
     history
<1>24. CASE Crash
  BY <1>24 DEF Crash, EndProcess, AtIsInPlan,
     TypeOK, IsKill, CurrentCleanup, Phases, Last, run, host, history
<1>25. CASE MemberDies
  BY <1>25 DEF MemberDies, AtIsInPlan, TypeOK,
     IsKill, CurrentCleanup, Phases, Last, run, host, history
<1>26. CASE HostedStarts
  BY <1>26 DEF HostedStarts, AtIsInPlan, TypeOK,
     IsKill, CurrentCleanup, Phases, Last, run, host, history
<1>27. CASE UserMetroToggles
  BY <1>27 DEF UserMetroToggles, AtIsInPlan, TypeOK,
     IsKill, CurrentCleanup, Phases, Last, run, host, history
<1>28. CASE StrayDies
  BY <1>28 DEF StrayDies, AtIsInPlan, TypeOK,
     IsKill, CurrentCleanup, Phases, Last, run, host, history
<1>29. CASE UNCHANGED vars
  BY <1>29 DEF vars, run, host, history, AtIsInPlan, TypeOK, IsKill,
     CurrentCleanup, Phases, Last
<1> QED BY <1>1, <1>2, <1>3, <1>4, <1>5, <1>6, <1>7, <1>8, <1>9, <1>10, <1>11,
     <1>12, <1>13, <1>14, <1>15, <1>16, <1>17, <1>18, <1>19, <1>20, <1>21,
     <1>22, <1>23, <1>24, <1>25, <1>26, <1>27, <1>28, <1>29 DEF Next,
     RunnerStep, Environment

LEMMA KeepsExits ==
  ASSUME PlanInvariant, [Next]_vars
  PROVE  Exits'
<1> USE DEF PlanInvariant
<1> Platform \in {"ios", "android"}
  BY PlatformTyped DEF InPlan, TypeOK

<1>1. CASE DecideReuse
  BY <1>1 DEF DecideReuse, Abandon, Exits, FailureKept, ExitCodeTells, InPlan, TypeOK,
     run, host, history
<1>2. CASE PreflightRefuses
  BY <1>2 DEF PreflightRefuses, Refuse, Exits, FailureKept, ExitCodeTells,
     InPlan, TypeOK, run, host, history
<1>3. CASE PreflightPasses
  BY <1>3 DEF PreflightPasses, Exits, FailureKept, ExitCodeTells, InPlan,
     TypeOK, run, host, history
<1>4. CASE ResolveFails
  BY <1>4 DEF ResolveFails, Refuse, Exits, FailureKept, ExitCodeTells, InPlan,
     TypeOK, run, host, history
<1>5. CASE ResolveMints
  BY <1>5 DEF ResolveMints, Exits, FailureKept, ExitCodeTells, InPlan, TypeOK,
     run, host, history
<1>6. CASE HookFails \/ PlanFails
  BY <1>6 DEF HookFails, PlanFails, Refuse, Exits, FailureKept, ExitCodeTells, InPlan,
     TypeOK, run, host, history
<1>7. CASE PlanBuilt
  BY <1>7 DEF PlanBuilt, ArriveAt, Exits, FailureKept, ExitCodeTells, InPlan,
     TypeOK, run, host, history
<1>8. CASE NextPlatform
  BY <1>8 DEF NextPlatform, BeginNextOrEnd, EndProcess, Exits, FailureKept,
     ExitCodeTells, InPlan, TypeOK, run, host, history
<1>9. CASE RunSkipped
  BY <1>9 DEF RunSkipped, AtStep, Advance, ArriveAt, KeepRun, Exits,
     FailureKept, ExitCodeTells, InPlan, TypeOK, run, host, history
<1>10. CASE RunEffect
  BY <1>10 DEF RunEffect, AtStep, Advance, ArriveAt, KeepRun, Abort, Exits,
     FailureKept, ExitCodeTells, InPlan, TypeOK, run, host, history
<1>11. CASE RunFreePort
  BY <1>11 DEF RunFreePort, AtStep, Advance, ArriveAt, KeepRun, Abort, Exits,
     FailureKept, ExitCodeTells, InPlan, TypeOK, run, host, history
<1>12. CASE RunSpawn
  BY <1>12 DEF RunSpawn, AtStep, Advance, ArriveAt, KeepRun, Abort, Exits,
     FailureKept, ExitCodeTells, InPlan, TypeOK, run, host, history
<1>13. CASE ProbePasses
  BY <1>13 DEF ProbePasses, AtStep, Advance, ArriveAt, KeepRun, Exits,
     FailureKept, ExitCodeTells, InPlan, TypeOK, run, host, history
<1>14. CASE ProbeMisses
  BY <1>14 DEF ProbeMisses, AtStep, Abort, KeepRun, Exits, FailureKept,
     ExitCodeTells, InPlan, TypeOK, run, host, history
<1>15. CASE ProbeFails
  BY <1>15 DEF ProbeFails, AtStep, Abort, KeepRun, Exits, FailureKept,
     ExitCodeTells, InPlan, TypeOK, run, host, history
<1>16. CASE Playwright
  BY <1>16 DEF Playwright, KeepRun, Exits, FailureKept, ExitCodeTells, InPlan,
     TypeOK, run, host, history
<1>17. CASE Release
  BY <1>17 DEF Release, AtCleanup, CleanupFails, NextCleanup, KeepPlatform,
     Exits, FailureKept, ExitCodeTells, InPlan, TypeOK, run, host, history
<1>18. CASE KillNothing
  BY <1>18 DEF KillNothing, AtCleanup, NextCleanup, KeepPlatform, Exits,
     FailureKept, ExitCodeTells, InPlan, TypeOK, run, host, history
<1>19. CASE KillTerminates
  BY <1>19 DEF KillTerminates, AtCleanup, KeepPlatform, Exits, FailureKept,
     ExitCodeTells, InPlan, TypeOK, run, host, history
<1>20. CASE KillFinishes
  BY <1>20 DEF KillFinishes, NextCleanup, KeepPlatform, Exits, FailureKept,
     ExitCodeTells, InPlan, TypeOK, run, host, history
<1>21. CASE CleanupEnds
  BY <1>21 DEF CleanupEnds, KeepPlatform, Exits, FailureKept, ExitCodeTells,
     InPlan, TypeOK, run, host, history
<1>22. CASE Start
  BY <1>22 DEF Start, Abandon, Exits, FailureKept, ExitCodeTells, InPlan, TypeOK, run,
     host, history
<1>23. CASE Signal
  BY <1>23 DEF Signal, EndProcess, Exits, FailureKept, ExitCodeTells, InPlan,
     TypeOK, run, host, history
<1>24. CASE Crash
  BY <1>24 DEF Crash, EndProcess, Exits, FailureKept, ExitCodeTells, InPlan,
     TypeOK, run, host, history
<1>25. CASE MemberDies
  BY <1>25 DEF MemberDies, Exits, FailureKept, ExitCodeTells, InPlan, TypeOK,
     run, host, history
<1>26. CASE HostedStarts
  BY <1>26 DEF HostedStarts, Exits, FailureKept, ExitCodeTells, InPlan, TypeOK,
     run, host, history
<1>27. CASE UserMetroToggles
  BY <1>27 DEF UserMetroToggles, Exits, FailureKept, ExitCodeTells, InPlan,
     TypeOK, run, host, history
<1>28. CASE StrayDies
  BY <1>28 DEF StrayDies, Exits, FailureKept, ExitCodeTells, InPlan, TypeOK,
     run, host, history
<1>29. CASE UNCHANGED vars
  BY <1>29 DEF vars, run, host, history, Platform, CurrentCleanup, Exits, FailureKept, ExitCodeTells, InPlan, TypeOK
<1> QED BY <1>1, <1>2, <1>3, <1>4, <1>5, <1>6, <1>7, <1>8, <1>9, <1>10, <1>11, <1>12, <1>13, <1>14, <1>15, <1>16, <1>17, <1>18, <1>19, <1>20, <1>21, <1>22, <1>23, <1>24, <1>25, <1>26, <1>27, <1>28, <1>29 DEF Next, RunnerStep, Environment

(* A step that goes on spawns none of the keys tracked after it.             *)
LEMMA SpawnsAhead ==
  ASSUME PlanInvariant, pc = "step", Advance, UNCHANGED <<lap, children>>
  PROVE  pc' = "step" => \A k \in children', n \in at' .. Len(Steps(Platform')) :
                            ~IsSpawn(Platform', n, k)
<1> SUFFICES ASSUME pc' = "step",
                    NEW k \in children, NEW n \in at' .. Len(Steps(Platform))
             PROVE  ~IsSpawn(Platform, n, k)
  BY DEF Platform, IsSpawn
<1>1. at' = at + 1 /\ at \in Nat /\ Len(Steps(Platform)) \in Nat
  BY AdvanceTyped, PlatformTyped, StepsTyped DEF PlanInvariant, InPlan, TypeOK
<1>2. n \in at .. Len(Steps(Platform))
  BY <1>1
<1> QED BY <1>2 DEF PlanInvariant, GroupsHeld, GroupsTracked

(* Past an action that kills none of the keys still tracked, the actions     *)
(* that do are ahead.                                                        *)
LEMMA KillsAhead ==
  ASSUME PlanInvariant, pc \in Settling, NextCleanup, lap' = lap,
         children' \subseteq children,
         \A k \in children' : ~IsKill(Platform, at, k)
  PROVE  \A k \in children' : \E n \in at' .. Last(Platform') : IsKill(Platform', n, k)
<1> SUFFICES ASSUME NEW k \in children'
             PROVE  \E n \in at' .. Last(Platform) : IsKill(Platform, n, k)
  BY DEF Platform, IsKill, Last
<1>1. PICK n \in at .. Last(Platform) : IsKill(Platform, n, k)
  BY DEF PlanInvariant, GroupsHeld, GroupsTracked
<1>2. n # at /\ at' = at + 1 /\ at \in Nat /\ Last(Platform) \in Nat
  BY <1>1, PlatformTyped, CleanupsTyped DEF NextCleanup, PlanInvariant, InPlan, TypeOK
<1>3. n \in at' .. Last(Platform)
  BY <1>2
<1> QED BY <1>1, <1>3

LEMMA KeepsGroups ==
  ASSUME PlanInvariant, [Next]_vars
  PROVE  GroupsHeld'
<1> USE DEF PlanInvariant
<1> Platform \in {"ios", "android"}
  BY PlatformTyped DEF InPlan, TypeOK

<1>1. CASE DecideReuse
  BY <1>1 DEF DecideReuse, Abandon, Platform, GroupsHeld, GroupsTracked, SignalEmpties,
     Before, Over, Settling, InPlan, AtIsInPlan, TypeOK, run, host, history
<1>2. CASE PreflightRefuses
  BY <1>2 DEF PreflightRefuses, Refuse, Platform, GroupsHeld, GroupsTracked,
     SignalEmpties, Before, Over, Settling, InPlan, AtIsInPlan, TypeOK,
     run, host, history
<1>3. CASE PreflightPasses
  BY <1>3 DEF PreflightPasses, Platform, GroupsHeld, GroupsTracked,
     SignalEmpties, Before, Over, Settling, InPlan, AtIsInPlan, TypeOK,
     run, host, history
<1>4. CASE ResolveFails
  BY <1>4 DEF ResolveFails, Refuse, Platform, GroupsHeld, GroupsTracked,
     SignalEmpties, Before, Over, Settling, InPlan, AtIsInPlan, TypeOK,
     run, host, history
<1>5. CASE ResolveMints
  BY <1>5 DEF ResolveMints, Platform, GroupsHeld, GroupsTracked, SignalEmpties,
     Before, Over, Settling, InPlan, AtIsInPlan, TypeOK, run, host, history
<1>6. CASE HookFails \/ PlanFails
  BY <1>6 DEF HookFails, PlanFails, Refuse, Platform, GroupsHeld, GroupsTracked,
     SignalEmpties, Before, Over, Settling, InPlan, AtIsInPlan, TypeOK,
     run, host, history
<1>7. CASE PlanBuilt
  BY <1>7 DEF PlanBuilt, ArriveAt, Platform, GroupsHeld, GroupsTracked,
     SignalEmpties, Before, Over, Settling, InPlan, AtIsInPlan, TypeOK,
     run, host, history
<1>8. CASE NextPlatform
  <2>1. CASE pc' = "begin" /\ UNCHANGED <<reuse, processes, children, group, ended>>
    BY <1>8, <2>1 DEF NextPlatform, GroupsHeld, GroupsTracked, SignalEmpties, Before, Over, Settling
  <2>2. CASE EndProcess("normal")
    BY <2>2 DEF EndProcess, GroupsHeld, GroupsTracked, SignalEmpties, Before, Over, Settling
  <2> QED BY <1>8, <2>1, <2>2 DEF NextPlatform, BeginNextOrEnd, host
<1>9. CASE RunSkipped
  <2>1. pc = "step" /\ UNCHANGED <<lap, reuse, processes, children, group, ended>>
    BY <1>9 DEF RunSkipped, AtStep, KeepRun, host
  <2>2. CASE Advance
    <3>1. pc' \in {"step", "playwright"}
      BY <2>1, <2>2, AdvanceTyped DEF InPlan
    <3>2. pc' = "step" => \A k \in children', n \in at' .. Len(Steps(Platform')) :
                             ~IsSpawn(Platform', n, k)
      BY <2>1, <2>2, SpawnsAhead
    <3> QED BY <2>1, <3>1, <3>2 DEF GroupsHeld, GroupsTracked, SignalEmpties, Before, Over, Settling
  <2> QED BY <1>9, <2>2 DEF RunSkipped
<1>10. CASE RunEffect
  <2>1. pc = "step" /\ UNCHANGED <<lap, reuse, processes, children, group, ended>>
    BY <1>10 DEF RunEffect, AtStep, KeepRun, host
  <2>2. CASE Advance
    <3>1. pc' \in {"step", "playwright"}
      BY <2>1, <2>2, AdvanceTyped DEF InPlan
    <3>2. pc' = "step" => \A k \in children', n \in at' .. Len(Steps(Platform')) :
                             ~IsSpawn(Platform', n, k)
      BY <2>1, <2>2, SpawnsAhead
    <3> QED BY <2>1, <3>1, <3>2 DEF GroupsHeld, GroupsTracked, SignalEmpties, Before, Over, Settling
  <2>3. CASE Abort
    <3>1. pc' = "cleanup" /\ at' = 1 /\ Platform' = Platform
      BY <2>1, <2>3 DEF Abort, Platform
    <3>2. \A k \in children' : \E n \in at' .. Last(Platform') : IsKill(Platform', n, k)
      BY <2>1, <3>1, CleanupsTyped DEF InPlan, TypeOK
    <3> QED BY <2>1, <3>1, <3>2 DEF GroupsHeld, GroupsTracked, SignalEmpties, Before, Over, Settling
  <2> QED BY <1>10, <2>2, <2>3 DEF RunEffect
<1>11. CASE RunFreePort
  <2>1. pc = "step" /\ UNCHANGED <<lap, reuse, processes, children, group, ended>>
    BY <1>11 DEF RunFreePort, AtStep, KeepRun, host
  <2>2. CASE Advance
    <3>1. pc' \in {"step", "playwright"}
      BY <2>1, <2>2, AdvanceTyped DEF InPlan
    <3>2. pc' = "step" => \A k \in children', n \in at' .. Len(Steps(Platform')) :
                             ~IsSpawn(Platform', n, k)
      BY <2>1, <2>2, SpawnsAhead
    <3> QED BY <2>1, <3>1, <3>2 DEF GroupsHeld, GroupsTracked, SignalEmpties, Before, Over, Settling
  <2>3. CASE Abort
    <3>1. pc' = "cleanup" /\ at' = 1 /\ Platform' = Platform
      BY <2>1, <2>3 DEF Abort, Platform
    <3>2. \A k \in children' : \E n \in at' .. Last(Platform') : IsKill(Platform', n, k)
      BY <2>1, <3>1, CleanupsTyped DEF InPlan, TypeOK
    <3> QED BY <2>1, <3>1, <3>2 DEF GroupsHeld, GroupsTracked, SignalEmpties, Before, Over, Settling
  <2> QED BY <1>11, <2>2, <2>3 DEF RunFreePort
<1>12. CASE RunSpawn
  <2> DEFINE k == CurrentStep.key
  <2>1. /\ pc = "step" /\ UNCHANGED <<lap, reuse, ended>>
        /\ IsSpawn(Platform, at, k) /\ ~(reuse /\ k = "metro")
    BY <1>12 DEF RunSpawn, AtStep, KeepRun, SkipStep, IsSpawn, CurrentStep
  <2>2. /\ at \in 1 .. Len(Steps(Platform)) /\ at \in Nat
        /\ Len(Steps(Platform)) \in Nat
    BY <2>1, StepsTyped DEF InPlan, AtIsInPlan, TypeOK
  <2>3. k \in Keys
    BY <2>1, <2>2, StepsTyped DEF IsSpawn
  <2>4. k \notin children /\ group[k] = {}
    BY <2>1, <2>2, <2>3 DEF GroupsHeld, GroupsTracked, SignalEmpties, Before, Over, Settling
  <2>5. CASE Abort /\ UNCHANGED <<processes, children, group>>
    <3>1. pc' = "cleanup" /\ at' = 1 /\ Platform' = Platform
      BY <2>1, <2>5 DEF Abort, Platform
    <3>2. \A j \in children' : \E n \in at' .. Last(Platform') : IsKill(Platform', n, j)
      BY <2>5, <3>1, CleanupsTyped DEF InPlan, TypeOK
    <3> QED BY <2>1, <2>5, <3>1, <3>2 DEF GroupsHeld, GroupsTracked, SignalEmpties, Before, Over, Settling
  <2>6. CASE /\ Advance /\ processes' = processes \cup {k}
             /\ children' \in {children \ {k}, children \cup {k}}
             /\ \A j \in Keys : group'[j] # {} =>
                   j \in children' /\ (j = k \/ group[j] # {})
    <3>1. pc' \in {"step", "playwright"}
      BY <2>1, <2>6, AdvanceTyped DEF InPlan
    <3>2. ASSUME pc' = "step", NEW j \in children',
                 NEW n \in at' .. Len(Steps(Platform'))
          PROVE  ~IsSpawn(Platform', n, j)
      <4>1. Platform' = Platform
        BY <2>1 DEF Platform
      <4>2. at' = at + 1
        BY <2>1, <2>6, <3>2, AdvanceTyped DEF InPlan
      <4>3. n \in at .. Len(Steps(Platform)) /\ n \in 1 .. Len(Steps(Platform)) /\ n # at
        BY <2>2, <4>1, <4>2
      <4>4. CASE j = k
        BY <2>1, <2>2, <2>3, <4>1, <4>3, <4>4, SpawnedOnce
      <4>5. CASE j \in children
        BY <2>1, <4>1, <4>3, <4>5 DEF GroupsHeld, GroupsTracked, SignalEmpties, Before, Over, Settling
      <4> QED BY <2>6, <4>4, <4>5
    <3> QED BY <2>1, <2>6, <3>1, <3>2 DEF GroupsHeld, GroupsTracked, SignalEmpties, Before, Over, Settling
  <2>7. group' = group \/ group' = [group EXCEPT ![k] = Members]
    BY <1>12 DEF RunSpawn
  <2>8. CASE /\ Advance /\ processes' = processes \cup {k}
             /\ children' = children \ {k} /\ group' = group
    BY <2>1, <2>4, <2>6, <2>8 DEF GroupsHeld, GroupsTracked, SignalEmpties, Before, Over, Settling
  <2>9. CASE /\ Advance /\ processes' = processes \cup {k}
             /\ children' = children \cup {k}
             /\ group' = [group EXCEPT ![k] = Members]
    <3>1. \A j \in Keys : group'[j] # {} => j \in children' /\ (j = k \/ group[j] # {})
      BY <2>1, <2>9 DEF GroupsHeld, GroupsTracked, SignalEmpties, Before, Over, Settling, InPlan, TypeOK
    <3> QED BY <2>6, <2>9, <3>1
  <2> QED BY <1>12, <2>5, <2>8, <2>9 DEF RunSpawn
<1>13. CASE ProbePasses
  <2>1. pc = "step" /\ UNCHANGED <<lap, reuse, processes, children, group, ended>>
    BY <1>13 DEF ProbePasses, AtStep, KeepRun, host
  <2>2. CASE Advance
    <3>1. pc' \in {"step", "playwright"}
      BY <2>1, <2>2, AdvanceTyped DEF InPlan
    <3>2. pc' = "step" => \A k \in children', n \in at' .. Len(Steps(Platform')) :
                             ~IsSpawn(Platform', n, k)
      BY <2>1, <2>2, SpawnsAhead
    <3> QED BY <2>1, <3>1, <3>2 DEF GroupsHeld, GroupsTracked, SignalEmpties, Before, Over, Settling
  <2> QED BY <1>13, <2>2 DEF ProbePasses
<1>14. CASE ProbeMisses
  BY <1>14, CleanupsTyped DEF ProbeMisses, AtStep, Abort, KeepRun, CurrentStep, Platform,
     GroupsHeld, GroupsTracked, SignalEmpties, Before, Over, Settling, InPlan,
     AtIsInPlan, TypeOK, run, host, history
<1>15. CASE ProbeFails
  BY <1>15, CleanupsTyped DEF ProbeFails, AtStep, Abort, KeepRun, CurrentStep, Platform,
     GroupsHeld, GroupsTracked, SignalEmpties, Before, Over, Settling, InPlan,
     AtIsInPlan, TypeOK, run, host, history
<1>16. CASE Playwright
  BY <1>16, CleanupsTyped DEF Playwright, KeepRun, Platform, GroupsHeld, GroupsTracked,
     SignalEmpties, Before, Over, Settling, InPlan, AtIsInPlan, TypeOK,
     run, host, history
<1>17. CASE Release
  <2>1. /\ pc = "cleanup" /\ NextCleanup
        /\ UNCHANGED <<lap, reuse, processes, children, group, ended>>
        /\ CurrentCleanup.op # "kill-process"
    BY <1>17 DEF Release, AtCleanup, CleanupFails, KeepPlatform
  <2>2. \A k \in children' : \E n \in at' .. Last(Platform') : IsKill(Platform', n, k)
    BY <2>1, KillsAhead DEF Settling, IsKill, CurrentCleanup
  <2> QED BY <2>1, <2>2 DEF NextCleanup, GroupsHeld, GroupsTracked, SignalEmpties, Before, Over, Settling
<1>18. CASE KillNothing
  <2>1. /\ pc = "cleanup" /\ NextCleanup
        /\ UNCHANGED <<lap, reuse, processes, children, group, ended>>
    BY <1>18 DEF KillNothing, AtCleanup, KeepPlatform
  <2>2. CurrentCleanup.key \notin children
    BY <1>18, <2>1 DEF KillNothing, GroupsHeld, GroupsTracked, SignalEmpties, Before, Over, Settling
  <2>3. \A k \in children' : \E n \in at' .. Last(Platform') : IsKill(Platform', n, k)
    BY <2>1, <2>2, KillsAhead DEF Settling, IsKill, CurrentCleanup
  <2> QED BY <2>1, <2>3 DEF NextCleanup, GroupsHeld, GroupsTracked, SignalEmpties, Before, Over, Settling
<1>19. CASE KillTerminates
  <2>1. /\ pc = "cleanup" /\ pc' = "killing"
        /\ UNCHANGED <<lap, at, reuse, processes, children, ended>>
    BY <1>19 DEF KillTerminates, AtCleanup, KeepPlatform
  <2>2. \A k \in Keys : group'[k] \subseteq group[k]
    BY <1>19 DEF KillTerminates, InPlan, TypeOK
  <2>3. Platform' = Platform
    BY <2>1 DEF Platform
  <2>4. \A k \in children' : \E n \in at' .. Last(Platform') : IsKill(Platform', n, k)
    BY <2>1, <2>3 DEF GroupsHeld, GroupsTracked, SignalEmpties, Before, Over, Settling
  <2>5. \A k \in Keys : group'[k] # {} => k \in children'
    BY <2>1, <2>2 DEF GroupsHeld, GroupsTracked, SignalEmpties, Before, Over, Settling
  <2> QED BY <2>1, <2>4, <2>5 DEF GroupsHeld, GroupsTracked, SignalEmpties, Before, Over, Settling
<1>20. CASE KillFinishes
  <2>1. /\ pc = "killing" /\ NextCleanup
        /\ UNCHANGED <<lap, reuse, processes, ended>>
        /\ children' = children \ {CurrentCleanup.key}
        /\ group' = [group EXCEPT ![CurrentCleanup.key] = {}]
    BY <1>20 DEF KillFinishes, KeepPlatform
  <2>2. \A k \in children' : \E n \in at' .. Last(Platform') : IsKill(Platform', n, k)
    BY <2>1, KillsAhead DEF Settling, IsKill, CurrentCleanup
  <2>3. \A k \in Keys : group'[k] # {} => k \in children'
    BY <2>1 DEF GroupsHeld, GroupsTracked, SignalEmpties, Before, Over, Settling, InPlan, TypeOK
  <2> QED BY <2>1, <2>2, <2>3 DEF NextCleanup, GroupsHeld, GroupsTracked, SignalEmpties, Before, Over, Settling
<1>21. CASE CleanupEnds
  BY <1>21, CleanupsTyped DEF Last, CleanupEnds, KeepPlatform, Platform, GroupsHeld, GroupsTracked,
     SignalEmpties, Before, Over, Settling, InPlan, AtIsInPlan, TypeOK,
     run, host, history
<1>22. CASE Start
  BY <1>22 DEF Start, Abandon, Platform, GroupsHeld, GroupsTracked, SignalEmpties,
     Before, Over, Settling, InPlan, AtIsInPlan, TypeOK, run, host, history
<1>23. CASE Signal
  BY <1>23 DEF Signal, KillAll, EndProcess, Platform, GroupsHeld, GroupsTracked,
     SignalEmpties, Before, Over, Settling, InPlan, AtIsInPlan, TypeOK,
     run, host, history
<1>24. CASE Crash
  BY <1>24 DEF Crash, EndProcess, Platform, GroupsHeld, GroupsTracked,
     SignalEmpties, Before, Over, Settling, InPlan, AtIsInPlan, TypeOK,
     run, host, history
<1>25. CASE MemberDies
  BY <1>25 DEF MemberDies, Platform, GroupsHeld, GroupsTracked, SignalEmpties,
     Before, Over, Settling, InPlan, AtIsInPlan, TypeOK, run, host, history
<1>26. CASE HostedStarts
  BY <1>26 DEF HostedStarts, Platform, GroupsHeld, GroupsTracked,
     SignalEmpties, Before, Over, Settling, InPlan, AtIsInPlan, TypeOK,
     run, host, history
<1>27. CASE UserMetroToggles
  BY <1>27 DEF UserMetroToggles, Platform, GroupsHeld, GroupsTracked,
     SignalEmpties, Before, Over, Settling, InPlan, AtIsInPlan, TypeOK,
     run, host, history
<1>28. CASE StrayDies
  BY <1>28 DEF StrayDies, Platform, GroupsHeld, GroupsTracked, SignalEmpties,
     Before, Over, Settling, InPlan, AtIsInPlan, TypeOK, run, host, history
<1>29. CASE UNCHANGED vars
  BY <1>29 DEF vars, run, host, history, Platform, CurrentCleanup, GroupsHeld, GroupsTracked, SignalEmpties, Before, Over, Settling, InPlan, AtIsInPlan, TypeOK
<1> QED BY <1>1, <1>2, <1>3, <1>4, <1>5, <1>6, <1>7, <1>8, <1>9, <1>10, <1>11, <1>12, <1>13, <1>14, <1>15, <1>16, <1>17, <1>18, <1>19, <1>20, <1>21, <1>22, <1>23, <1>24, <1>25, <1>26, <1>27, <1>28, <1>29 DEF Next, RunnerStep, Environment

(* What a kill() leaves alive never includes a leader, and nothing else adds *)
(* to it.                                                                    *)
LEMMA KeepsLeaks ==
  ASSUME PlanInvariant, [Next]_vars
  PROVE  Leaks'
<1> USE DEF PlanInvariant
<1>1. ASSUME leaked' = leaked \/ Abandon, pc' # "killing"
      PROVE  Leaks'
  BY <1>1 DEF Leaks, OnlyStubbornLeak, Abandon
<1>2. ASSUME leaked' = leaked, UNCHANGED <<pc, lap, at>>,
             \A k \in Keys : group'[k] \subseteq group[k]
      PROVE  Leaks'
  <2>1. CurrentCleanup' = CurrentCleanup
    BY <1>2 DEF CurrentCleanup, Platform
  <2> QED BY <1>2, <2>1, KilledIsKey DEF Leaks, OnlyStubbornLeak
<1>3. CASE DecideReuse \/ Start
  BY <1>1, <1>3 DEF DecideReuse, Start
<1>4. CASE PreflightRefuses \/ ResolveFails \/ HookFails \/ PlanFails
  BY <1>1, <1>4 DEF PreflightRefuses, ResolveFails, HookFails, PlanFails, Refuse
<1>5. CASE PreflightPasses \/ ResolveMints \/ PlanBuilt
  BY <1>1, <1>5 DEF PreflightPasses, ResolveMints, PlanBuilt, ArriveAt, host
<1>6. CASE NextPlatform \/ Signal \/ Crash
  BY <1>1, <1>6 DEF NextPlatform, BeginNextOrEnd, Signal, Crash, EndProcess, host
<1>7. CASE RunSkipped \/ RunEffect \/ RunFreePort \/ RunSpawn
  BY <1>1, <1>7 DEF RunSkipped, RunEffect, RunFreePort, RunSpawn, Advance, ArriveAt, Abort, host
<1>8. CASE ProbePasses \/ ProbeMisses \/ ProbeFails \/ Playwright
  BY <1>1, <1>8 DEF ProbePasses, ProbeMisses, ProbeFails, Playwright, AtStep, Advance,
     ArriveAt, Abort, host
<1>9. CASE Release \/ KillNothing \/ CleanupEnds
  BY <1>1, <1>9 DEF Release, KillNothing, CleanupEnds, CleanupFails, NextCleanup
<1>10. CASE KillTerminates
  <2>1. /\ pc' = "killing" /\ leaked' = leaked /\ UNCHANGED <<lap, at>>
        /\ CurrentCleanup.key \in children
        /\ \E left \in SUBSET (group[CurrentCleanup.key] \cap Stubborn) :
              group' = [group EXCEPT ![CurrentCleanup.key] = left]
    BY <1>10 DEF KillTerminates, KeepPlatform
  <2>2. CurrentCleanup' = CurrentCleanup
    BY <2>1 DEF CurrentCleanup, Platform
  <2>3. group'[CurrentCleanup.key] \subseteq Stubborn
    BY <2>1 DEF InPlan, TypeOK
  <2> QED BY <2>1, <2>2, <2>3 DEF Leaks, OnlyStubbornLeak
<1>11. CASE KillFinishes
  <2> DEFINE k == CurrentCleanup.key
             left == IF IsAlive(k) THEN {} ELSE group[k]
  <2>1. /\ pc = "killing" /\ pc' = "cleanup"
        /\ leaked' = [leaked EXCEPT ![k] = @ \cup left]
    BY <1>11 DEF KillFinishes, NextCleanup
  <2>2. k \in Keys /\ group[k] \subseteq Stubborn
    BY <2>1, KilledIsKey DEF Leaks
  <2>3. group[k] # {} => k \in children
    BY <2>1, <2>2 DEF GroupsHeld, GroupsTracked
  <2>4. left \subseteq Stubborn \ {"leader"}
    BY <2>2, <2>3 DEF IsAlive
  <2>5. \A j \in Keys : leaked'[j] \subseteq leaked[j] \cup left
    BY <2>1 DEF InPlan, TypeOK
  <2> QED BY <2>1, <2>4, <2>5 DEF Leaks, OnlyStubbornLeak
<1>12. CASE MemberDies
  <2>1. UNCHANGED <<pc, lap, at>>
    BY <1>12 DEF MemberDies, run
  <2>2. PICK j \in Keys, m \in Members :
          \/ group' = [group EXCEPT ![j] = @ \ {m}] /\ leaked' = leaked
          \/ leaked' = [leaked EXCEPT ![j] = @ \ {m}] /\ group' = group
    BY <1>12 DEF MemberDies
  <2>3. CASE group' = [group EXCEPT ![j] = @ \ {m}] /\ leaked' = leaked
    <3>1. \A k \in Keys : group'[k] \subseteq group[k]
      BY <2>3 DEF InPlan, TypeOK
    <3> QED BY <1>2, <2>1, <2>3, <3>1
  <2>4. CASE leaked' = [leaked EXCEPT ![j] = @ \ {m}] /\ group' = group
    <3>1. \A k \in Keys : leaked'[k] \subseteq leaked[k]
      BY <2>4 DEF InPlan, TypeOK
    <3>2. CurrentCleanup' = CurrentCleanup
      BY <2>1 DEF CurrentCleanup, Platform
    <3> QED BY <2>1, <2>4, <3>1, <3>2 DEF Leaks, OnlyStubbornLeak
  <2> QED BY <2>2, <2>3, <2>4
<1>13. CASE HostedStarts \/ UserMetroToggles \/ StrayDies \/ UNCHANGED vars
  BY <1>2, <1>13 DEF HostedStarts, UserMetroToggles, StrayDies, vars, run, host
<1> QED BY <1>3, <1>4, <1>5, <1>6, <1>7, <1>8, <1>9, <1>10, <1>11, <1>12, <1>13
        DEF Next, RunnerStep, Environment

(* When the cleanup begins, everything it answers for is yet to be released. *)
LEMMA OwedAtFirst ==
  ASSUME at' = 1, lap' = lap
  PROVE  \A r \in held' \cap Owned(Platform') :
            r \in failed' \/ \E n \in at' .. Last(Platform') : r \in Cleanups(Platform')[n].made
<1>1. Platform' = Platform
  BY DEF Platform
<1> QED BY <1>1, OwnedIsReleased

(* Past an action, what is still owed is owed by those ahead or has failed.  *)
LEMMA OwedAhead ==
  ASSUME PlanInvariant, pc \in Settling, NextCleanup, lap' = lap,
         held' \subseteq held, failed \subseteq failed',
         \A r \in held' : r \in Cleanups(Platform)[at].made => r \in failed'
  PROVE  \A r \in held' \cap Owned(Platform') :
            r \in failed' \/ \E n \in at' .. Last(Platform') : r \in Cleanups(Platform')[n].made
<1>1. Platform' = Platform
  BY DEF Platform
<1> SUFFICES ASSUME NEW r \in held' \cap Owned(Platform), r \notin failed'
             PROVE  \E n \in at' .. Last(Platform) : r \in Cleanups(Platform)[n].made
  BY <1>1
<1>2. PICK n \in at .. Last(Platform) : r \in Cleanups(Platform)[n].made
  BY DEF PlanInvariant, RestIsOwed
<1>3. n # at
  BY <1>2
<1>4. at' = at + 1 /\ at \in Nat /\ Last(Platform) \in Nat
  BY PlatformTyped, CleanupsTyped DEF NextCleanup, PlanInvariant, InPlan, TypeOK
<1>5. n \in at' .. Last(Platform)
  BY <1>3, <1>4
<1> QED BY <1>2, <1>5

LEMMA KeepsRestIsOwed ==
  ASSUME PlanInvariant, [Next]_vars
  PROVE  RestIsOwed'
<1> USE DEF PlanInvariant
<1> Platform \in {"ios", "android"}
  BY PlatformTyped DEF InPlan, TypeOK

<1>1. CASE DecideReuse
  BY <1>1 DEF DecideReuse, Abandon, Platform, RestIsOwed, Settling, Before, Over,
     GroupsHeld, GroupsTracked, InPlan, AtIsInPlan, TypeOK, run, host, history
<1>2. CASE PreflightRefuses
  BY <1>2 DEF PreflightRefuses, Refuse, Platform, RestIsOwed, Settling, Before,
     Over, GroupsHeld, GroupsTracked, InPlan, AtIsInPlan, TypeOK, run, host,
     history
<1>3. CASE PreflightPasses
  BY <1>3 DEF PreflightPasses, Platform, RestIsOwed, Settling, Before, Over,
     GroupsHeld, GroupsTracked, InPlan, AtIsInPlan, TypeOK, run, host, history
<1>4. CASE ResolveFails
  BY <1>4 DEF ResolveFails, Refuse, Platform, RestIsOwed, Settling, Before,
     Over, GroupsHeld, GroupsTracked, InPlan, AtIsInPlan, TypeOK, run, host,
     history
<1>5. CASE ResolveMints
  BY <1>5 DEF ResolveMints, Platform, RestIsOwed, Settling, Before, Over,
     GroupsHeld, GroupsTracked, InPlan, AtIsInPlan, TypeOK, run, host, history
<1>6. CASE HookFails \/ PlanFails
  BY <1>6 DEF HookFails, PlanFails, Refuse, Platform, RestIsOwed, Settling, Before, Over,
     GroupsHeld, GroupsTracked, InPlan, AtIsInPlan, TypeOK, run, host, history
<1>7. CASE PlanBuilt
  BY <1>7 DEF PlanBuilt, ArriveAt, Platform, RestIsOwed, Settling, Before,
     Over, GroupsHeld, GroupsTracked, InPlan, AtIsInPlan, TypeOK, run, host,
     history
<1>8. CASE NextPlatform
  BY <1>8 DEF NextPlatform, BeginNextOrEnd, EndProcess, Platform, RestIsOwed,
     Settling, Before, Over, GroupsHeld, GroupsTracked, InPlan, AtIsInPlan, TypeOK,
     run, host, history
<1>9. CASE RunSkipped
  BY <1>9 DEF RunSkipped, AtStep, SkipStep, Advance, ArriveAt, KeepRun,
     CurrentStep, Platform, RestIsOwed, Settling, Before, Over, GroupsHeld,
     GroupsTracked, InPlan, AtIsInPlan, TypeOK, run, host, history
<1>10. CASE RunEffect
  <2>1. pc = "step" /\ lap' = lap
    BY <1>10 DEF RunEffect, AtStep, KeepRun
  <2>2. CASE Advance
    <3>1. pc' \in {"step", "playwright"}
      BY <2>1, <2>2, AdvanceTyped DEF InPlan
    <3> QED BY <3>1 DEF RestIsOwed, Settling
  <2>3. CASE Abort
    <3>1. pc' = "cleanup" /\ at' = 1
      BY <2>3 DEF Abort
    <3> QED BY <2>1, <3>1, OwedAtFirst DEF RestIsOwed, Settling
  <2> QED BY <1>10, <2>2, <2>3 DEF RunEffect
<1>11. CASE RunFreePort
  <2>1. pc = "step" /\ lap' = lap
    BY <1>11 DEF RunFreePort, AtStep, KeepRun
  <2>2. CASE Advance
    <3>1. pc' \in {"step", "playwright"}
      BY <2>1, <2>2, AdvanceTyped DEF InPlan
    <3> QED BY <3>1 DEF RestIsOwed, Settling
  <2>3. CASE Abort
    <3>1. pc' = "cleanup" /\ at' = 1
      BY <2>3 DEF Abort
    <3> QED BY <2>1, <3>1, OwedAtFirst DEF RestIsOwed, Settling
  <2> QED BY <1>11, <2>2, <2>3 DEF RunFreePort
<1>12. CASE RunSpawn
  <2>1. pc = "step" /\ lap' = lap
    BY <1>12 DEF RunSpawn, AtStep, KeepRun
  <2>2. CASE Advance
    <3>1. pc' \in {"step", "playwright"}
      BY <2>1, <2>2, AdvanceTyped DEF InPlan
    <3> QED BY <3>1 DEF RestIsOwed, Settling
  <2>3. CASE Abort
    <3>1. pc' = "cleanup" /\ at' = 1
      BY <2>3 DEF Abort
    <3> QED BY <2>1, <3>1, OwedAtFirst DEF RestIsOwed, Settling
  <2> QED BY <1>12, <2>2, <2>3 DEF RunSpawn
<1>13. CASE ProbePasses
  BY <1>13 DEF ProbePasses, AtStep, Advance, ArriveAt, KeepRun, CurrentStep,
     Platform, RestIsOwed, Settling, Before, Over, GroupsHeld, GroupsTracked,
     InPlan, AtIsInPlan, TypeOK, run, host, history
<1>14. CASE ProbeMisses
  <2>1. pc = "step" /\ lap' = lap
    BY <1>14 DEF ProbeMisses, AtStep, KeepRun
  <2>2. CASE pc' = pc
    BY <2>1, <2>2 DEF RestIsOwed, Settling
  <2>3. CASE Abort
    <3>1. pc' = "cleanup" /\ at' = 1
      BY <2>3 DEF Abort
    <3> QED BY <2>1, <3>1, OwedAtFirst DEF RestIsOwed, Settling
  <2> QED BY <1>14, <2>2, <2>3 DEF ProbeMisses
<1>15. CASE ProbeFails
  <2>1. pc' = "cleanup" /\ at' = 1 /\ lap' = lap
    BY <1>15 DEF ProbeFails, Abort, KeepRun
  <2> QED BY <2>1, OwedAtFirst DEF RestIsOwed, Settling
<1>16. CASE Playwright
  <2>1. pc' = "cleanup" /\ at' = 1 /\ lap' = lap
    BY <1>16 DEF Playwright, KeepRun
  <2> QED BY <2>1, OwedAtFirst DEF RestIsOwed, Settling
<1>17. CASE Release
  <2>1. pc = "cleanup" /\ lap' = lap /\ NextCleanup
    BY <1>17 DEF Release, AtCleanup, CleanupFails, KeepPlatform
  <2>2. /\ held' \subseteq held /\ failed \subseteq failed'
        /\ \A r \in held' : r \in CurrentCleanup.made => r \in failed'
    BY <1>17 DEF Release, CleanupFails
  <2> QED BY <2>1, <2>2, OwedAhead DEF NextCleanup, CurrentCleanup, RestIsOwed, Settling
<1>18. CASE KillNothing
  <2>1. /\ pc = "cleanup" /\ lap' = lap /\ NextCleanup
        /\ held' = held /\ failed' = failed
    BY <1>18 DEF KillNothing, AtCleanup, KeepPlatform
  <2>2. at \in 1 .. Last(Platform) /\ Cleanups(Platform)[at].op = "kill-process"
    BY <1>18, <2>1, CleanupsTyped DEF KillNothing, AtCleanup, CurrentCleanup, IsKill, Last, InPlan,
       AtIsInPlan, TypeOK
  <2>3. Cleanups(Platform)[at].made = {}
    BY <2>2, CleanupsTyped
  <2> QED BY <2>1, <2>3, OwedAhead DEF NextCleanup, RestIsOwed, Settling
<1>19. CASE KillTerminates
  BY <1>19 DEF KillTerminates, AtCleanup, KeepPlatform, CurrentCleanup,
     Platform, RestIsOwed, Settling, Before, Over, GroupsHeld, GroupsTracked,
     InPlan, AtIsInPlan, TypeOK, run, host, history
<1>20. CASE KillFinishes
  <2>1. /\ pc = "killing" /\ lap' = lap /\ NextCleanup
        /\ held' = held /\ failed' = failed
    BY <1>20 DEF KillFinishes, KeepPlatform
  <2>2. at \in 1 .. Last(Platform) /\ Cleanups(Platform)[at].op = "kill-process"
    BY <1>20, <2>1, CleanupsTyped DEF KillFinishes, AtCleanup, CurrentCleanup, IsKill, Last, InPlan,
       AtIsInPlan, TypeOK
  <2>3. Cleanups(Platform)[at].made = {}
    BY <2>2, CleanupsTyped
  <2> QED BY <2>1, <2>3, OwedAhead DEF NextCleanup, RestIsOwed, Settling
<1>21. CASE CleanupEnds
  BY <1>21, CleanupsTyped DEF Last, CleanupEnds, KeepPlatform, Platform, RestIsOwed, Settling,
     Before, Over, GroupsHeld, GroupsTracked, InPlan, AtIsInPlan, TypeOK, run,
     host, history
<1>22. CASE Start
  BY <1>22 DEF Start, Abandon, Platform, RestIsOwed, Settling, Before, Over, GroupsHeld,
     GroupsTracked, InPlan, AtIsInPlan, TypeOK, run, host, history
<1>23. CASE Signal
  BY <1>23 DEF Signal, KillAll, EndProcess, Platform, RestIsOwed, Settling,
     Before, Over, GroupsHeld, GroupsTracked, InPlan, AtIsInPlan, TypeOK, run,
     host, history
<1>24. CASE Crash
  BY <1>24 DEF Crash, EndProcess, Platform, RestIsOwed, Settling, Before, Over,
     GroupsHeld, GroupsTracked, InPlan, AtIsInPlan, TypeOK, run, host, history
<1>25. CASE MemberDies
  BY <1>25 DEF MemberDies, Platform, RestIsOwed, Settling, Before, Over,
     GroupsHeld, GroupsTracked, InPlan, AtIsInPlan, TypeOK, run, host, history
<1>26. CASE HostedStarts
  <2>1. /\ pc # "off" /\ Platform = "ios" /\ "leader" \in group["companion"]
        /\ held' = held \cup {"hosted"} /\ UNCHANGED <<pc, lap, at, before, failed>>
    BY <1>26 DEF HostedStarts, run, history
  <2>2. "companion" \in children
    BY <2>1 DEF GroupsHeld, GroupsTracked, Keys
  <2>3. pc \notin Before \cup Over
    BY <2>2 DEF GroupsHeld, GroupsTracked
  <2>4. ASSUME pc \in Settling
        PROVE  \E n \in at .. Last(Platform) : "hosted" \in Cleanups(Platform)[n].made
    <3>1. PICK n \in at .. Last(Platform) : IsKill(Platform, n, "companion")
      BY <2>2, <2>4 DEF GroupsHeld, GroupsTracked
    <3>2. at \in Nat /\ 1 <= at
      BY DEF InPlan, TypeOK
    <3> Last(Platform) \in Nat
      BY CleanupsTyped
    <3>3. n \in 1 .. Last(Platform)
      BY <3>2
    <3>4. n + 1 \in 1 .. Last(Platform) /\ "hosted" \in Cleanups(Platform)[n + 1].made
      BY <2>1, <3>1, <3>3, CleanupsTyped
    <3>5. n + 1 \in at .. Last(Platform)
      BY <3>2, <3>3, <3>4
    <3> QED BY <3>4, <3>5
  <2>5. Platform' = Platform
    BY <2>1 DEF Platform
  <2> QED BY <2>1, <2>3, <2>4, <2>5 DEF RestIsOwed, Settling, Before, Over
<1>27. CASE UserMetroToggles
  BY <1>27 DEF UserMetroToggles, Platform, RestIsOwed, Settling, Before, Over,
     GroupsHeld, GroupsTracked, InPlan, AtIsInPlan, TypeOK, run, host, history
<1>28. CASE StrayDies
  BY <1>28 DEF StrayDies, Platform, RestIsOwed, Settling, Before, Over, GroupsHeld,
     GroupsTracked, InPlan, AtIsInPlan, TypeOK, run, host, history
<1>29. CASE UNCHANGED vars
  BY <1>29 DEF vars, run, host, history, Platform, CurrentCleanup, RestIsOwed, Settling, Before, Over, GroupsHeld, GroupsTracked, InPlan, AtIsInPlan, TypeOK
<1> QED BY <1>1, <1>2, <1>3, <1>4, <1>5, <1>6, <1>7, <1>8, <1>9, <1>10, <1>11, <1>12, <1>13, <1>14, <1>15, <1>16, <1>17, <1>18, <1>19, <1>20, <1>21, <1>22, <1>23, <1>24, <1>25, <1>26, <1>27, <1>28, <1>29 DEF Next, RunnerStep, Environment

-----------------------------------------------------------------------------
(* The theorems.                                                             *)

LEMMA PlanKeeps == PlanInvariant /\ [Next]_vars => PlanInvariant'
<1> SUFFICES ASSUME PlanInvariant, [Next]_vars PROVE PlanInvariant'
  OBVIOUS
<1>1. TypeOK'
  BY KeepsNumbers, KeepsFlags, KeepsSets
     DEF TypeOK, NumbersTyped, FlagsTyped, SetsTyped
<1> QED BY <1>1, KeepsPlace, KeepsExits, KeepsGroups, KeepsLeaks, KeepsRestIsOwed
        DEF PlanInvariant, InPlan

(* In every reachable state of the runner: the types; what the plan has yet  *)
(* to kill and to release, by where it is; and where failures are kept.      *)
THEOREM Inductive == Spec => []PlanInvariant
<1>1. Init => PlanInvariant
  BY PlanStarts
<1>2. PlanInvariant /\ [Next]_vars => PlanInvariant'
  BY PlanKeeps
<1> QED BY <1>1, <1>2, PTL DEF Spec

(* The variables keep their types, whatever is run and however it fails.     *)
THEOREM TypeCorrect == Spec => []TypeOK
<1>1. PlanInvariant => TypeOK
  BY DEF PlanInvariant, InPlan
<1> QED BY <1>1, Inductive, PTL

(* executePlan's finally block: whatever failed before it and in it, a       *)
(* platform that got to its steps leaves no file, mapping or hosted companion*)
(* behind, but for what its own action could not remove; and of the processes*)
(* it started only descendants that outlive SIGTERM by 500 ms and whose      *)
(* leader had ended, for which kill() sends no SIGKILL.                      *)
THEOREM CleansUp == Spec => []CleanupComplete
<1>1. PlanInvariant => CleanupComplete
  <2> SUFFICES ASSUME PlanInvariant PROVE CleanupComplete
    OBVIOUS
  <2>1. pc = "swept" => \A k \in Keys : group[k] = {} /\ k \notin children
    BY DEF PlanInvariant, GroupsHeld, GroupsTracked, Over
  <2>2. /\ pc = "swept" => held \cap Owned(Platform) \subseteq failed
        /\ pc = "refused" =>
             held \subseteq before \cup failed \cup {r \in {"tokenFile"} : refusal = "plan"}
    BY DEF PlanInvariant, RestIsOwed
  <2>3. OnlyStubbornLeak
    BY DEF PlanInvariant, Leaks
  <2> QED BY <2>1, <2>2, <2>3 DEF CleanupComplete
<1> QED BY <1>1, Inductive, PTL

(* killAll() on SIGINT or SIGTERM, at any moment, leaves nothing alive of the*)
(* groups the runner tracks, and there is none that it should and does not:  *)
(* only what an earlier kill() of this platform had left lives on.           *)
THEOREM SignalsKill == Spec => []SignalKillsGroups
<1>1. PlanInvariant => SignalKillsGroups
  BY DEF PlanInvariant, GroupsHeld, SignalEmpties, Leaks, SignalKillsGroups
<1> QED BY <1>1, Inductive, PTL

(* A Metro that is reused is neither started again nor killed.               *)
THEOREM ReusedIsLeftAlone == Spec => []ReusedMetroNotStarted
<1>1. PlanInvariant => ReusedMetroNotStarted
  BY DEF PlanInvariant, GroupsHeld, GroupsTracked, ReusedMetroNotStarted, Keys
<1> QED BY <1>1, Inductive, PTL

(* main() exits with zero exactly when every platform passed.                *)
THEOREM ExitCodeIsTrue == Spec => []ExitCodeTells
<1>1. PlanInvariant => ExitCodeTells
  BY DEF PlanInvariant, Exits
<1> QED BY <1>1, Inductive, PTL
=============================================================================
