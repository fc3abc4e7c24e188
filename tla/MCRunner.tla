------------------------------- MODULE MCRunner -------------------------------
(* For TLC: the runner carrying out its plans, the runs of several devices   *)
(* freeing the companion's port, plans with a project's own processes, or    *)
(* the choice of a device; one of the four in a behaviour. What PlanExecutor *)
(* takes as one step to free the port or to resolve the target is here all   *)
(* its steps.                                                                *)
EXTENDS MCPlanExecutor, PortOwnership, TargetHooks, DeviceResolution

AsOwner(os, kind, id) == [platform |-> os, kind |-> kind, id |-> id]
SomeOwners ==
  [sim |-> AsOwner("ios", "simulator", "S1"), phone |-> AsOwner("ios", "device", "P1"),
   robot |-> AsOwner("android", "device", "A1")]
SomeLanes == DOMAIN SomeOwners
FreesAny  == [l \in SomeLanes |-> l = "robot"]

Exe(name, simulator) == [name |-> name, simulator |-> simulator]
Usbmux(serial) == <<"usbmux", "forward", "--serial", serial, ThePort, ThePort>>
PortFirst(serial) == <<"usbmux", "forward", ThePort, "--serial", serial, "9000">>
Runs(executable, words) == [executables |-> {executable}, argv |-> words]

(* A companion in the run's simulator and in another; a forward to the run's *)
(* device, and one to another; adb.                                          *)
SomePrograms ==
  {Runs(Exe("runner", "S1"), <<"runner">>), Runs(Exe("runner", "S2"), <<"runner">>),
   Runs(Exe("python", "none"), <<"python", "-m", "pymobiledevice3">> \o PortFirst("P1")),
   Runs(Exe("python", "none"), <<"python", "pymobiledevice3">> \o Usbmux("P2")),
   Runs(Exe("adb", "none"), <<"adb">>)}

ProjectStep(place, does, key) ==
  [id |-> place, does |-> does, key |-> key, by |-> "project"]
Starts(place, key) == ProjectStep(place, "start", key)

(* A simulator or a device, and then an Android target.                      *)
SomeInvocations == {<<k, "android">> : k \in {"simulator", "plain-simulator", "device"}}

(* Nothing; two processes of the project's own under one key, ended by its   *)
(* cleanup; one under a key of the runner's before the runner's, and two     *)
(* after it.                                                                 *)
Contributed(first, second, third, commands) ==
  [beforeMetro |-> first, afterMetroReady |-> second, beforeLaunch |-> third,
   cleanups |-> commands]
SomeContributions ==
  {Contributed(<<>>, <<>>, <<>>, 0),
   Contributed(<<Starts("beforeMetro", "tunnel"), Starts("beforeMetro", "tunnel")>>, <<>>,
               <<ProjectStep("beforeLaunch", "run", "tunnel")>>, 1),
   Contributed(<<Starts("beforeMetro", "metro")>>, <<>>,
               <<Starts("beforeLaunch", "companion")>>, 0),
   Contributed(<<>>, <<Starts("afterMetroReady", "metro"), Starts("afterMetroReady", "metro")>>,
               <<>>, 0)}

(* What a host has: the name of one simulator is part of another's, and two  *)
(* have the same iOS; a phone that is asked for by name, one by what it is,  *)
(* and an Apple TV; an emulator and a phone.                                 *)
AsSimulator(udid, name, runtime) == [udid |-> udid, name |-> name, runtime |-> runtime]
SomeSimulators ==
  <<AsSimulator("S1", <<"iPhone", "17", "Pro">>, <<18>>), AsSimulator("S2", <<"iPhone", "17">>, <<26, 5>>),
    AsSimulator("S3", <<"iPad", "Pro">>, <<18, 0>>)>>
AsPhone(udid, name, model, platform, features) ==
  [udid |-> udid, identifier |-> udid \o "-core", name |-> name, model |-> model,
   platform |-> platform, reality |-> "physical", features |-> features]
SomePhones ==
  <<AsPhone("P1", <<"Anna's", "iPhone">>, <<"iPhone", "12">>, "iOS", {"com.apple.coredevice.feature.launchapplication"}),
    AsPhone("P2", <<"iPhone", "12">>, <<>>, "iOS", {"com.apple.coredevice.feature.connectdevice"}),
    AsPhone("P3", <<"iPhone">>, <<>>, "tvOS", {"com.apple.coredevice.feature.launchapplication"})>>
SomeEmulators == <<[serial |-> "R1", emulator |-> FALSE], [serial |-> "A1", emulator |-> TRUE]>>

Request(kind, device, destination, adopt, others) ==
  [kind |-> kind, device |-> device, destination |-> destination,
   adoptUnownedDevice |-> adopt, terminateOnOtherSimulators |-> others]
SomeRequests ==
  {Request("simulator", device, destination, adopt, others) :
     device \in {<<>>, <<"S3">>, <<"iPhone", "17">>, <<"Pro">>}, destination \in {<<>>, <<"platform", "S2">>},
     adopt \in BOOLEAN, others \in BOOLEAN} \union
  {Request("device", device, <<>>, FALSE, FALSE) : device \in {<<>>, <<"P1">>, <<"iPhone">>, <<"Anna's">>, <<"iPhone", "12">>}} \union
  {Request("android", device, <<>>, adopt, FALSE) : device \in {<<>>, <<"R1">>}, adopt \in BOOLEAN}

VARIABLE part

Resolves(kind) == part = "device" /\ Asks.kind = kind

(* Devices are as they are where nothing of the behaviour looks at them.     *)
RunnerInit ==
  /\ part \in {"plan", "ports", "hooks", "device"}
  /\ Init /\ PoInit /\ HookInit /\ ReInit
  /\ Resolves("simulator") \/ \A i \in DOMAIN Simulators : simState[i] = "booted"
  /\ Resolves("device") \/ pairedPhones = {}
  /\ Resolves("android") \/ \A i \in DOMAIN Emulators : adbState[i] = "booted"
  /\ part # "device" => resolution.request = Request("simulator", <<>>, <<>>, FALSE, FALSE)
  /\ part # "plan" => ~userMetro
  /\ part # "hooks" => targets = <<"simulator", "android">>

RunnerNext ==
  \/ part = "plan" /\ Next /\ UNCHANGED <<part, portVars, hookVars, resolveVars>>
  \/ part = "ports" /\ PoNext /\ UNCHANGED <<part, vars, hookVars, resolveVars>>
  \/ part = "hooks" /\ (HookNext \/ HookOver) /\ UNCHANGED <<part, vars, portVars, resolveVars>>
  \/ part = "device" /\ (ReNext \/ Resolved) /\ UNCHANGED <<part, vars, portVars, hookVars>>

RunnerSpec ==
  RunnerInit /\ [][RunnerNext]_<<part, vars, portVars, hookVars, resolveVars>> /\ WF_vars(part = "plan" /\ RunnerStep)

(* Types of all.                                                             *)
TypesOK == TypeOK /\ PoTypeOK /\ HookTypeOK /\ ReTypeOK

(* What the runner starts it ends and keeps hold of, also next to what a     *)
(* project contributes; whom the port belongs to it leaves alone; and the    *)
(* device it takes is one it was told to take.                               *)
OwnershipKept == PortKept /\ HooksKept /\ ResolvedAsAsked
=============================================================================
