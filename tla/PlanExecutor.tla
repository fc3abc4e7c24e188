---------------------------- MODULE PlanExecutor ----------------------------
(***************************************************************************)
(* The e2e runner of packages/runner: main() takes the platforms one after *)
(* the other, runPlatform() decides whether to reuse a running Metro,      *)
(* resolves a device and mints a token file, and executePlan() interprets  *)
(* the plan: steps in order, Playwright, and a cleanup that runs whatever  *)
(* happened.  Metro and the companion are detached process groups that     *)
(* outlive the runner unless it terminates them.                           *)
(*                                                                         *)
(* Modelled: every state change of the runner process, the process groups, *)
(* the files and device mappings it leaves on the host, another Metro on   *)
(* the same port, failing steps and failing cleanup actions, SIGINT and    *)
(* SIGTERM, a runner killed outright, and the runs after it.  A run of     *)
(* consecutive foreground commands that leave nothing behind is one        *)
(* "command" step.  Two runners at once on one host are not modelled.      *)
(***************************************************************************)
EXTENDS Integers, Sequences, FiniteSets

CONSTANTS
    Platforms,       \* the platforms of one invocation, in order
    ReuseExisting,   \* config metro.reuseExisting
    Stubborn,        \* group members that outlive SIGTERM by more than 500 ms
    MaxRetries,      \* appLaunchAttempts - 1
    MaxRuns          \* bound: how often the runner is invoked

Keys == {"metro", "companion"}
Members == {"leader", "descendant"}
Resources == {"tokenFile", "runtimeConfig", "hosted",
              "deviceToken", "reverse", "forward"}

ASSUME PlatformsAssumption == Platforms \in Seq({"ios", "android"}) /\ Platforms # <<>>
ASSUME OptionsAssumption == ReuseExisting \in BOOLEAN /\ Stubborn \subseteq Members
ASSUME CountsAssumption == MaxRetries \in Nat /\ MaxRuns \in Nat \ {0}

-----------------------------------------------------------------------------
(* The two plans: what each step does, and what it may leave behind. *)

Step(op, key, made, retries) ==
    [op |-> op, key |-> key, made |-> made, retries |-> retries]

Command(made) == Step("command", "none", made, 0)
WriteFile(made) == Step("write-file", "none", made, 0)
FreePort(freed) == Step("free-port", "none", freed, 0)
Spawn(key) == Step("spawn", key, {}, 0)
Probe(key, retries) == Step("probe", key, {}, retries)

IosSteps ==
    << FreePort({"hosted"}),             \* ios.port-preflight
       Command({}),                      \* boot, prebuild, scaffold
       WriteFile({"runtimeConfig"}),     \* ios.runtime-config
       Command({}),                      \* ios.pods
       Spawn("metro"), Probe("metro", 0),
       Command({}),                      \* build, install, seed defaults
       FreePort({"hosted"}),
       Spawn("companion"), Probe("companion", 0),
       Command({}),                      \* terminate, launch
       Probe("none", 0) >>               \* ios.hermes

AndroidSteps ==
    << FreePort({"forward"}),            \* android.port-preflight
       Command({}),                      \* prebuild, gradle, install
       Command({"deviceToken"}),         \* android.install-token
       Spawn("metro"), Probe("metro", 0),
       Command({"reverse"}),
       Command({}),                      \* debug host, launch-1
       Probe("none", MaxRetries),        \* android.hermes-1
       FreePort({"forward"}),
       Command({"forward"}),
       Spawn("companion"), Probe("companion", 0),
       Command({}),                      \* launch-2
       Probe("none", MaxRetries) >>      \* android.hermes-2

Steps(platform) == IF platform = "ios" THEN IosSteps ELSE AndroidSteps

Kill(key) == Step("kill-process", key, {}, 0)
RemoveFile(freed) == Step("remove-file", "none", freed, 0)

IosCleanups ==
    << Kill("companion"), FreePort({"hosted"}), Kill("metro"),
       RemoveFile({"tokenFile"}), RemoveFile({"runtimeConfig"}) >>

AndroidCleanups ==
    << Kill("companion"), Command({"reverse"}), FreePort({"forward"}),
       Command({"deviceToken"}), Kill("metro"), RemoveFile({"tokenFile"}) >>

Cleanups(platform) == IF platform = "ios" THEN IosCleanups ELSE AndroidCleanups

(* What the cleanup of a platform answers for. *)
Owned(platform) ==
    UNION {Cleanups(platform)[n].made : n \in 1 .. Len(Cleanups(platform))}

Phases == {"off", "begin", "preflight", "resolve", "hook", "step", "playwright",
           "cleanup", "killing", "swept", "refused"}

VARIABLES
    pc,          \* where the runner process is; "off" when there is none
    lap,         \* index in Platforms
    at,          \* index in the steps or in the cleanup actions
    reuse,       \* reuseMetro of this platform
    remaining,   \* retries left to the current probe
    result,      \* exit code of this platform, 0 or not
    exitCode,    \* of main()
    processes,   \* executePlan's map: the keys with a handle
    children,    \* NodeProcessRunner's map: the keys it tracks
    group,       \* the live members of the process group behind each key
    leaked,      \* those that outlived a kill() of this platform, tracked by nobody
    held,        \* resources now on the host or on the device
    userMetro,   \* a Metro that no runner started answers on the port
    strayMetro,  \* so does one that an earlier platform or runner left
    \* history, to state the properties with
    before,      \* what was held when this platform began, until it has a plan
    failed,      \* resources whose own cleanup action failed for this platform
    faulty,      \* some platform of this invocation failed
    ended,       \* how the last runner process ended, "never" while one runs
    refusal,     \* what held Metro's port when it was refused, or that planning threw
    runs         \* number of invocations

host == <<group, leaked, held, userMetro, strayMetro>>
run == <<pc, lap, at, reuse, remaining, result, exitCode, processes, children>>
history == <<before, failed, faulty, ended, refusal, runs>>
vars == <<run, host, history>>

Platform == Platforms[lap]
CurrentStep == Steps(Platform)[at]
CurrentCleanup == Cleanups(Platform)[at]

TypeOK ==
    /\ pc \in Phases
    /\ lap \in 1 .. Len(Platforms)
    /\ at \in 1 .. 15
    /\ reuse \in BOOLEAN /\ userMetro \in BOOLEAN /\ strayMetro \in BOOLEAN /\ faulty \in BOOLEAN
    /\ remaining \in 0 .. MaxRetries
    /\ result \in {0, 1} /\ exitCode \in {0, 1, 130}
    /\ processes \subseteq Keys /\ children \subseteq Keys
    /\ group \in [Keys -> SUBSET Members] /\ leaked \in [Keys -> SUBSET Members]
    /\ held \subseteq Resources /\ before \subseteq Resources /\ failed \subseteq Resources
    /\ ended \in {"never", "normal", "signal", "crash"}
    /\ refusal \in {"none", "user", "stray", "plan"}
    /\ runs \in 0 .. MaxRuns

Init ==
    /\ pc = "off" /\ lap = 1 /\ at = 1
    /\ reuse = FALSE /\ remaining = 0
    /\ result = 0 /\ exitCode = 0
    /\ processes = {} /\ children = {}
    /\ group = [k \in Keys |-> {}] /\ leaked = [k \in Keys |-> {}]
    /\ held = {} /\ userMetro \in BOOLEAN /\ strayMetro = FALSE
    /\ before = {} /\ failed = {} /\ faulty = FALSE
    /\ ended = "never" /\ refusal = "none" /\ runs = 0

-----------------------------------------------------------------------------
(* main() and runPlatform() *)

MetroAnswers == userMetro \/ strayMetro \/ group["metro"] \cup leaked["metro"] # {}

(* What is left of the groups of a platform or a runner is nobody's now: of a *)
(* Metro the next one meets the port, of a companion the server it hosted.    *)
Abandon ==
    /\ strayMetro' = (strayMetro \/ group["metro"] \cup leaked["metro"] # {})
    /\ group' = [k \in Keys |-> {}] /\ leaked' = [k \in Keys |-> {}]

(* A new invocation. *)
Start ==
    /\ pc = "off" /\ runs < MaxRuns
    /\ runs' = runs + 1
    /\ pc' = "begin" /\ exitCode' = 0
    /\ Abandon
    /\ faulty' = FALSE /\ ended' = "never" /\ refusal' = "none"
    /\ UNCHANGED <<lap, at, reuse, remaining, result, processes, children, held,
                   userMetro, before, failed>>

(* const reuseMetro = metro.reuseExisting && (await metroRunning(...)); the   *)
(* request gives up after 2 s.  Token files have unique names: one left by an *)
(* earlier run is out of reach.                                               *)
DecideReuse ==
    /\ pc = "begin"
    /\ reuse' \in {r \in BOOLEAN : r => ReuseExisting /\ MetroAnswers}
    /\ held' = held \ {"tokenFile"} /\ before' = held'
    /\ pc' = "preflight" /\ processes' = {} /\ result' = 0 /\ failed' = {}
    /\ refusal' = "none" /\ Abandon
    /\ UNCHANGED <<lap, at, remaining, exitCode, children, userMetro, faulty, ended, runs>>

(* Mutant: a platform that is refused returns no code. *)
RefuseWithoutCode ==
    /\ pc' = "refused" /\ result' = 0 /\ faulty' = TRUE
    /\ UNCHANGED <<lap, at, reuse, remaining, exitCode, processes, children,
                   group, leaked, userMetro, strayMetro, before, ended, runs>>

Refuse ==
    /\ pc' = "refused" /\ result' = 1 /\ faulty' = TRUE
    /\ UNCHANGED <<lap, at, reuse, remaining, exitCode, processes, children,
                   group, leaked, userMetro, strayMetro, before, ended, runs>>

(* Mutant: an occupied port is asked again until it is free.                 *)
PreflightAsksAgain ==
    /\ pc = "preflight" /\ ~reuse /\ MetroAnswers
    /\ pc' = "begin"
    /\ UNCHANGED <<lap, at, reuse, remaining, result, exitCode, processes, children,
                   host, history>>

PreflightRefuses ==
    /\ pc = "preflight" /\ ~reuse /\ MetroAnswers
    /\ refusal' = IF userMetro THEN "user" ELSE "stray"
    /\ Refuse
    /\ UNCHANGED <<held, failed>>

(* Also when the connection attempt times out on an occupied port. *)
PreflightPasses ==
    /\ pc = "preflight"
    /\ pc' = "resolve"
    /\ UNCHANGED <<lap, at, reuse, remaining, result, exitCode, processes,
                   children, host, history>>

ResolveFails ==
    /\ pc = "resolve"
    /\ Refuse
    /\ UNCHANGED <<held, failed, refusal>>

ResolveMints ==
    /\ pc = "resolve"
    /\ held' = held \cup {"tokenFile"}
    /\ pc' = "hook"
    /\ UNCHANGED <<lap, at, reuse, remaining, result, exitCode, processes,
                   children, group, leaked, userMetro, strayMetro, history>>

(* A target hook that throws, or whose contribution is invalid: the token is *)
(* removed, if the removal works.                                            *)
HookFails ==
    /\ pc = "hook"
    /\ \/ held' = held \ {"tokenFile"} /\ UNCHANGED failed
       \/ failed' = failed \cup {"tokenFile"} /\ UNCHANGED held
    /\ Refuse
    /\ UNCHANGED refusal

(* Any other throw once the token has been minted, which stays: of the       *)
(* planner (a dev client without a scheme, which the validation of the       *)
(* configuration excludes), or of a contribution when it is read.            *)
PlanFails ==
    /\ pc = "hook"
    /\ Refuse /\ refusal' = "plan"
    /\ UNCHANGED <<held, failed>>

ArriveAt(n) ==
    IF n <= Len(Steps(Platform))
    THEN pc' = "step" /\ at' = n /\ remaining' = Steps(Platform)[n].retries
    ELSE pc' = "playwright" /\ at' = 1 /\ remaining' = 0

PlanBuilt ==
    /\ pc = "hook"
    /\ ArriveAt(1)
    /\ before' = {}
    /\ UNCHANGED <<lap, reuse, result, exitCode, processes, children, host,
                   failed, faulty, ended, refusal, runs>>

(* The process is gone and its memory with it; its groups and files are not. *)
EndProcess(how) ==
    /\ pc' = "off" /\ ended' = how
    /\ lap' = 1 /\ at' = 1 /\ reuse' = FALSE /\ remaining' = 0 /\ result' = 0
    /\ processes' = {} /\ children' = {}
    /\ before' = {} /\ failed' = {}
    /\ UNCHANGED <<leaked, held, userMetro, strayMetro, faulty, refusal, runs>>

BeginNextOrEnd ==
    \/ /\ lap < Len(Platforms)
       /\ pc' = "begin" /\ lap' = lap + 1
       /\ UNCHANGED <<at, reuse, remaining, result, processes, children, host,
                      before, failed, faulty, ended, refusal, runs>>
    \/ /\ lap = Len(Platforms)
       /\ EndProcess("normal") /\ UNCHANGED group

(* if (code !== 0) exitCode = code, then the next platform or the end. *)
NextPlatform ==
    /\ pc \in {"swept", "refused"}
    /\ exitCode' = IF result # 0 THEN result ELSE exitCode
    /\ BeginNextOrEnd

-----------------------------------------------------------------------------
(* executePlan(): the steps *)

AtStep(op) == pc = "step" /\ CurrentStep.op = op

Advance ==
    /\ ArriveAt(at + 1)
    /\ UNCHANGED <<result, faulty>>

(* A StageError unwinds to the finally block. *)
Abort ==
    /\ pc' = "cleanup" /\ at' = 1 /\ remaining' = 0
    /\ result' = 1 /\ faulty' = TRUE

KeepRun == UNCHANGED <<lap, reuse, exitCode, before, failed, ended, refusal, runs>>

(* Mutant: metro.start runs although a Metro is reused. *)
SkipNothing == FALSE

SkipStep == reuse /\ CurrentStep.key = "metro"

RunSkipped ==
    /\ AtStep("spawn") /\ SkipStep
    /\ Advance
    /\ KeepRun /\ UNCHANGED <<processes, children, host>>

(* A command or a write that fails may have had its effect already. *)
RunEffect ==
    /\ AtStep("command") \/ AtStep("write-file")
    /\ \/ held' = held \cup CurrentStep.made /\ Advance
       \/ held' \in {held, held \cup CurrentStep.made} /\ Abort
    /\ KeepRun /\ UNCHANGED <<processes, children, group, leaked, userMetro, strayMetro>>

(* A foreign holder fails the step and nothing is freed. *)
RunFreePort ==
    /\ AtStep("free-port")
    /\ \/ held' = held \ CurrentStep.made /\ Advance
       \/ Abort /\ UNCHANGED held
    /\ KeepRun /\ UNCHANGED <<processes, children, group, leaked, userMetro, strayMetro>>

(* spawn() throws, or its child reports an 'error' and is forgotten, or it runs. *)
RunSpawn ==
    /\ AtStep("spawn") /\ ~SkipStep
    /\ LET k == CurrentStep.key
       IN  \/ Abort /\ UNCHANGED <<processes, children, group>>
           \/ /\ processes' = processes \cup {k}
              /\ children' = children \ {k}
              /\ Advance /\ UNCHANGED group
           \/ /\ processes' = processes \cup {k}
              /\ children' = children \cup {k}
              /\ group' = [group EXCEPT ![k] = Members]
              /\ Advance
    /\ KeepRun /\ UNCHANGED <<leaked, held, userMetro, strayMetro>>

IsAlive(k) == k \in children /\ "leader" \in group[k]
BackedByLive(k) == k \in processes => IsAlive(k)

ProbePasses ==
    /\ AtStep("probe")
    /\ BackedByLive(CurrentStep.key)
    /\ CurrentStep.key = "metro" => MetroAnswers
    /\ Advance
    /\ KeepRun /\ UNCHANGED <<processes, children, host>>

(* Mutant: while (!ready && remaining >= 0).                                 *)
ProbeMissesOnceMore ==
    /\ AtStep("probe") /\ remaining >= 0
    /\ \/ remaining' = remaining - 1 /\ UNCHANGED <<pc, at, result, faulty>>
       \/ Abort
    /\ KeepRun /\ UNCHANGED <<processes, children, host>>

(* Dead process or deadline: try again if the step has retries.  The retry  *)
(* command may be impossible to start.                                      *)
ProbeMisses ==
    /\ AtStep("probe") /\ remaining > 0
    /\ \/ remaining' = remaining - 1 /\ UNCHANGED <<pc, at, result, faulty>>
       \/ Abort
    /\ KeepRun /\ UNCHANGED <<processes, children, host>>

(* The last miss, or a failure marker in the companion's log. *)
ProbeFails ==
    /\ AtStep("probe") /\ (remaining = 0 \/ CurrentStep.key = "companion")
    /\ Abort
    /\ KeepRun /\ UNCHANGED <<processes, children, host>>

Playwright ==
    /\ pc = "playwright"
    /\ pc' = "cleanup" /\ at' = 1
    /\ result' \in {0, 1} /\ faulty' = (faulty \/ result' # 0)
    /\ KeepRun /\ UNCHANGED <<remaining, processes, children, host>>

-----------------------------------------------------------------------------
(* executePlan(): the cleanup.  A failing action is logged and the next one  *)
(* runs; "at" past the last action ends it.                                  *)

AtCleanup(op) ==
    pc = "cleanup" /\ at <= Len(Cleanups(Platform)) /\ CurrentCleanup.op = op

KeepPlatform ==
    UNCHANGED <<lap, reuse, remaining, result, exitCode, processes, before,
                faulty, ended, refusal, runs, userMetro, strayMetro>>

NextCleanup == pc' = "cleanup" /\ at' = at + 1

(* Mutant: the exception ends the cleanup. *)
CleanupFailsAndStops ==
    /\ failed' = failed \cup CurrentCleanup.made
    /\ pc' = "swept" /\ UNCHANGED <<at, held>>

CleanupFails ==
    /\ failed' = failed \cup CurrentCleanup.made
    /\ NextCleanup /\ UNCHANGED held

Release ==
    /\ AtCleanup("free-port") \/ AtCleanup("remove-file") \/ AtCleanup("command")
    /\ \/ held' = held \ CurrentCleanup.made /\ NextCleanup /\ UNCHANGED failed
       \/ CleanupFails
    /\ KeepPlatform /\ UNCHANGED <<children, group, leaked>>

(* skipCleanup, no handle, or a child that never started. *)
KillNothing ==
    /\ AtCleanup("kill-process")
    /\ LET k == CurrentCleanup.key
       IN  (reuse /\ k = "metro") \/ k \notin processes \/ k \notin children
    /\ NextCleanup
    /\ KeepPlatform /\ UNCHANGED <<children, group, leaked, held, failed>>

(* killGroup(pid, 'SIGTERM'), then 500 ms that only the stubborn outlive. *)
KillTerminates ==
    /\ AtCleanup("kill-process")
    /\ LET k == CurrentCleanup.key
       IN  /\ ~(reuse /\ k = "metro")
           /\ k \in processes /\ k \in children
           /\ \E left \in SUBSET (group[k] \cap Stubborn) :
                  group' = [group EXCEPT ![k] = left]
    /\ pc' = "killing"
    /\ KeepPlatform /\ UNCHANGED <<at, children, leaked, held, failed>>

(* SIGKILL goes to the group only if its leader is still alive, and the key  *)
(* is forgotten in any case: what outlived a leader that ended lives on.     *)
KillFinishes ==
    /\ pc = "killing"
    /\ LET k == CurrentCleanup.key
           left == IF IsAlive(k) THEN {} ELSE group[k]
       IN  /\ group' = [group EXCEPT ![k] = {}]
           /\ leaked' = [leaked EXCEPT ![k] = @ \cup left]
           /\ children' = children \ {k}
    /\ NextCleanup
    /\ KeepPlatform /\ UNCHANGED <<held, failed>>

CleanupEnds ==
    /\ pc = "cleanup" /\ at > Len(Cleanups(Platform))
    /\ pc' = "swept"
    /\ KeepPlatform /\ UNCHANGED <<at, children, group, leaked, held, failed>>

-----------------------------------------------------------------------------
(* What happens to the runner and around it. *)

(* Mutant: child.kill(), not its process group. *)
KillLeaders ==
    group' = [k \in Keys |-> IF k \in children THEN group[k] \ {"leader"} ELSE group[k]]

KillAll == group' = [k \in Keys |-> IF k \in children THEN {} ELSE group[k]]

(* SIGINT or SIGTERM: killAll(), then process.exit(130). *)
Signal ==
    /\ pc # "off"
    /\ KillAll
    /\ exitCode' = 130
    /\ EndProcess("signal")

Crash ==
    /\ pc # "off"
    /\ EndProcess("crash") /\ UNCHANGED <<group, exitCode>>

MemberDies ==
    /\ \E k \in Keys, m \in Members :
           \/ m \in group[k] /\ group' = [group EXCEPT ![k] = @ \ {m}] /\ UNCHANGED leaked
           \/ m \in leaked[k] /\ leaked' = [leaked EXCEPT ![k] = @ \ {m}] /\ UNCHANGED group
    /\ UNCHANGED <<run, held, userMetro, strayMetro, history>>

(* xcodebuild, the leader, starts the server inside the simulator, not in    *)
(* its group.                                                                *)
HostedStarts ==
    /\ pc # "off" /\ Platform = "ios" /\ "leader" \in group["companion"]
    /\ held' = held \cup {"hosted"}
    /\ UNCHANGED <<run, group, leaked, userMetro, strayMetro, history>>

UserMetroToggles ==
    /\ ~userMetro => ~MetroAnswers
    /\ userMetro' = ~userMetro
    /\ UNCHANGED <<run, group, leaked, held, strayMetro, history>>

StrayDies ==
    /\ strayMetro /\ strayMetro' = FALSE
    /\ UNCHANGED <<run, group, leaked, held, userMetro, history>>

RunnerStep ==
    \/ DecideReuse \/ PreflightRefuses \/ PreflightPasses
    \/ ResolveFails \/ ResolveMints \/ HookFails \/ PlanFails \/ PlanBuilt \/ NextPlatform
    \/ RunSkipped \/ RunEffect \/ RunFreePort \/ RunSpawn
    \/ ProbePasses \/ ProbeMisses \/ ProbeFails \/ Playwright
    \/ Release \/ KillNothing \/ KillTerminates \/ KillFinishes \/ CleanupEnds

Environment ==
    \/ Start \/ Signal \/ Crash
    \/ MemberDies \/ HostedStarts \/ UserMetroToggles \/ StrayDies

Next == RunnerStep \/ Environment
Spec == Init /\ [][Next]_vars

(* Commands return, probes have deadlines, kill() waits 500 ms: the runner   *)
(* itself always goes on.  Nothing is assumed of what it starts.             *)
FairSpec == Spec /\ WF_vars(RunnerStep)

-----------------------------------------------------------------------------
(* Properties *)

(* What a kill() may leave alive: not the leader, and of its descendants     *)
(* those that outlive SIGTERM by 500 ms when the leader has ended.           *)
OnlyStubbornLeak == \A k \in Keys : leaked[k] \subseteq Stubborn \ {"leader"}

(* Cleanup runs and runs to its end whatever failed before it and in it: a   *)
(* platform that got to its steps leaves no file, mapping or hosted          *)
(* companion, those of a run that crashed earlier included, except what its  *)
(* own cleanup action could not remove; and of the processes it started none *)
(* but what a kill() leaves.  One that was refused leaves what it found, and *)
(* the token file if planning threw anything but a TargetHookError.          *)
CleanupComplete ==
    /\ pc = "swept" =>
           /\ held \cap Owned(Platform) \subseteq failed
           /\ \A k \in Keys : group[k] = {} /\ k \notin children
           /\ OnlyStubbornLeak
    /\ pc = "refused" =>
           held \subseteq before \cup failed \cup {r \in {"tokenFile"} : refusal = "plan"}

(* A signal at any moment, also between the SIGTERM and the SIGKILL of a     *)
(* kill() under way, leaves none of the processes the runner started alive   *)
(* but what a kill() that was over had left.                                 *)
SignalKillsGroups ==
    pc = "off" /\ ended = "signal" => OnlyStubbornLeak /\ \A k \in Keys : group[k] = {}

(* A Metro that is reused is neither started a second time nor owned: this   *)
(* platform never gets a handle it could kill.                               *)
ReusedMetroNotStarted ==
    reuse /\ pc \in {"step", "playwright", "cleanup", "killing", "swept"} =>
        "metro" \notin processes /\ group["metro"] = {}

(* The exit code of an invocation that ran to its end is zero exactly when   *)
(* every platform passed, whichever of them failed.                          *)
ExitCodeTells ==
    pc = "off" /\ ended = "normal" => (exitCode # 0 <=> faulty)

(* Every invocation ends: probes, retries and cleanup are bounded.           *)
RunEnds == pc # "off" ~> pc = "off"

(* SPEC.md REQ-CLEAN-001 and REQ-SEC-004 as written: cleanup runs on every   *)
(* exit path, signals included, and removes the per-run files.               *)
SignalRemovesFiles ==
    pc = "off" /\ ended = "signal" => held \cap {"tokenFile", "runtimeConfig"} = {}

(* SPEC.md REQ-CLEAN-001 as written: a run after a crashed one succeeds      *)
(* without manual intervention, so what the crashed run left is no reason to *)
(* refuse the next.                                                          *)
RerunNotRefused == refusal # "stray"
=============================================================================
