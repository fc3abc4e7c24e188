-------------------------- MODULE DeviceResolution --------------------------
(* resolveIosTarget and resolveAndroidTarget of the runner                   *)
(* (runner/resolve.ts): which simulator, phone or emulator a run takes, what *)
(* it looks at first, and the token file it makes for it, while devices boot,*)
(* shut down, come and go on a host that other runs share.                   *)
EXTENDS Naturals, Sequences, FiniteSets

CONSTANTS Requests,    \* what --device and the configuration ask for
          Simulators,  \* what simctl lists, in its order
          Phones,      \* what devicectl lists, in its order
          Emulators,   \* what adb lists, in its order
          Udids,       \* words of the form of a simulator's UDID
          MaxAltered   \* bound: changes of devices during a resolution

(* A text is the sequence of its words; none is given where there are none.  *)
Text == Seq(STRING)
Unpicked == "none"

ASSUME Listings ==
  /\ Requests \subseteq [kind : {"simulator", "device", "android"}, device : Text, destination : Text,
                         adoptUnownedDevice : BOOLEAN, terminateOnOtherSimulators : BOOLEAN]
  /\ Requests # {}
  /\ Simulators \in Seq([udid : STRING, name : Text, runtime : Seq(Nat)])
  /\ Phones \in Seq([udid : STRING, identifier : STRING, name : Text, model : Text,
                     platform : STRING, reality : STRING, features : SUBSET STRING])
  /\ Emulators \in Seq([serial : STRING, emulator : BOOLEAN])
  /\ \A i \in DOMAIN Simulators : Simulators[i].udid # Unpicked
  /\ \A i \in DOMAIN Phones : Phones[i].udid # Unpicked
  /\ \A i \in DOMAIN Emulators : Emulators[i].serial # Unpicked
  /\ MaxAltered \in Nat

-----------------------------------------------------------------------------
(* What is picked, as the set of its index: empty where the code throws.     *)

First(indices) == {i \in indices : \A j \in indices : i <= j}

Includes(text, words) ==
  \E i \in 0 .. Len(text) - Len(words) : SubSeq(text, i + 1, i + Len(words)) = words

ParseUdid(text) == {text[i] : i \in First({n \in DOMAIN text : text[n] \in Udids})}

(* compareRuntime: part by part, a missing one being 0.                      *)
IsNewer(a, b) ==
  LET part(v, n) == IF n <= Len(v) THEN v[n] ELSE 0 IN
  \E n \in 1 .. Len(a) : /\ part(a, n) > part(b, n)
                         /\ \A m \in 1 .. n - 1 : part(a, m) = part(b, m)

Newest(indices) ==
  {i \in indices : \A j \in indices : ~IsNewer(Simulators[j].runtime, Simulators[i].runtime)}

IsPhoneName(name) == Len(name) > 0 /\ name[1] = "iPhone"

ExplicitUdid(r) == IF ParseUdid(r.device) # {} THEN ParseUdid(r.device) ELSE ParseUdid(r.destination)

(* Mutant of AdoptedSimulator: a booted simulator is adopted unasked.        *)
AdoptedAnyhow(r, booted, iphones) ==
  IF booted # {} THEN First(Newest(booted)) ELSE First(Newest(iphones))

(* With nothing explicit: only where the configuration says so.              *)
AdoptedSimulator(r, booted, iphones) ==
  IF ~r.adoptUnownedDevice THEN {}
  ELSE IF booted # {} THEN First(Newest(booted)) ELSE First(Newest(iphones))

PickSimulator(r, states) ==
  LET available == {i \in DOMAIN Simulators : states[i] # "gone"}
      iphones == {i \in available : IsPhoneName(Simulators[i].name)}
      named == {i \in available : Simulators[i].name = r.device}
  IN IF ExplicitUdid(r) # {}  THEN First({i \in available : Simulators[i].udid \in ExplicitUdid(r)})
     ELSE IF r.device # <<>> /\ named # {} THEN First(named)
     ELSE IF r.device # <<>> THEN First({i \in available : Includes(Simulators[i].name, r.device)})
     ELSE AdoptedSimulator(r, {i \in iphones : states[i] = "booted"}, iphones)

(* physicalDeviceFromDevicectl: a real one with iOS, paired, and able to     *)
(* launch apps.                                                              *)
CanLaunch(features) ==
  features \cap {"com.apple.coredevice.feature.launchapplication",
                 "com.apple.coredevice.feature.connectdevice"} # {}
UsablePhones(paired) ==
  {i \in paired : /\ Phones[i].platform = "iOS" /\ Phones[i].reality = "physical"
                  /\ CanLaunch(Phones[i].features)}

PhoneMatches(phone, text) == text \in {<<phone.udid>>, <<phone.identifier>>, phone.name, phone.model}

PhoneMentions(phone, text) == Includes(phone.name, text) \/ Includes(phone.model, text)

PickPhone(r, phones) ==
  LET matching == {i \in phones : PhoneMatches(Phones[i], r.device)}
      including == {i \in phones : PhoneMentions(Phones[i], r.device)}
      only(indices) == IF \A i, j \in indices : i = j THEN indices ELSE {}
  IN IF r.device = <<>> THEN only(phones)
     ELSE IF matching # {} THEN First(matching) ELSE only(including)

(* pickSerial, for a run that has no --device.                               *)
PickSerial(r, states) ==
  IF r.adoptUnownedDevice
  THEN First({i \in DOMAIN Emulators : states[i] \in {"booting", "booted"} /\ Emulators[i].emulator})
  ELSE {}

-----------------------------------------------------------------------------
VARIABLES
  simState,      \* state of each simulator
  pairedPhones,  \* the phones that are there and paired
  adbState,      \* state of each device of adb
  resolution,    \* of the run
  altered

resolveVars == <<simState, pairedPhones, adbState, resolution, altered>>

(* listed: what simctl showed, kept to state properties.                     *)
NewResolution(r) ==
  [request |-> r, step |-> IF r.kind = "android" THEN "serial" ELSE "scaffold",
   picked |-> Unpicked, others |-> {}, files |-> {}, throws |-> FALSE,
   listed |-> simState, phones |-> {}, failedAt |-> "nowhere"]

ReInit ==
  /\ simState \in [DOMAIN Simulators -> {"booted", "shutdown"}]
  /\ pairedPhones \in SUBSET DOMAIN Phones
  /\ adbState \in [DOMAIN Emulators -> {"offline", "booting", "booted"}]
  /\ \E r \in Requests : resolution = NewResolution(r)
  /\ altered = 0

AtStepOf(step) == resolution.step = step
Moves(step) == resolution' = [resolution EXCEPT !.step = step]
Fails == resolution' = [resolution EXCEPT !.step = "failed", !.failedAt = resolution.step]
Picks(id, step) == resolution' = [resolution EXCEPT !.picked = id, !.step = step]
HostRests == UNCHANGED <<simState, pairedPhones, adbState, altered>>

(* resolveScaffoldBin: before any device is looked at.                       *)
FindsScaffold ==
  /\ AtStepOf("scaffold")
  /\ \/ Moves(IF resolution.request.kind = "device" THEN "directory" ELSE "simulators")
     \/ Fails
  /\ HostRests

(* selectSimulator.                                                          *)
SelectsSimulator ==
  LET r == resolution.request
      goesTo == IF r.terminateOnOtherSimulators THEN "others" ELSE "mint"
      pick == PickSimulator(r, simState)
  IN /\ AtStepOf("simulators")
     /\ \/ \E i \in pick :
             resolution' = [resolution EXCEPT !.listed = simState, !.step = goesTo,
                                              !.picked = Simulators[i].udid]
        \/ Fails
     /\ HostRests

(* Mutant of ListsOthers: the selected one among them.                       *)
ListsAllBooted ==
  /\ AtStepOf("others")
  /\ \/ resolution' = [resolution EXCEPT !.step = "mint",
          !.others = {Simulators[i].udid : i \in {j \in DOMAIN Simulators : simState[j] = "booted"}}]
     \/ Fails
  /\ HostRests

(* otherBootedSims: those booted by now.                                     *)
ListsOthers ==
  /\ AtStepOf("others")
  /\ \/ resolution' = [resolution EXCEPT !.step = "mint",
          !.others = {Simulators[i].udid : i \in {j \in DOMAIN Simulators : simState[j] = "booted"}}
                     \ {resolution.picked}]
     \/ Fails
  /\ HostRests

(* listPhysicalIosDevices: a directory for devicectl's output, removed       *)
(* whatever becomes of it.                                                   *)
MakesDirectory ==
  /\ AtStepOf("directory")
  /\ \/ resolution' = [resolution EXCEPT !.files = @ \union {"listing"}, !.step = "phones"]
     \/ Fails
  /\ HostRests

ReadsPhones ==
  /\ AtStepOf("phones")
  /\ \/ resolution' = [resolution EXCEPT !.phones = UsablePhones(pairedPhones), !.step = "directory-removal"]
     \/ resolution' = [resolution EXCEPT !.throws = TRUE, !.step = "directory-removal"]
  /\ HostRests

RemovesDirectory ==
  LET removed == [resolution EXCEPT !.files = @ \ {"listing"}]
      pick == PickPhone(resolution.request, resolution.phones)
  IN /\ AtStepOf("directory-removal")
     /\ \/ /\ ~resolution.throws
           /\ \E i \in pick : resolution' = [removed EXCEPT !.picked = Phones[i].udid, !.step = "mint"]
        \/ /\ resolution.throws \/ pick = {}
           /\ resolution' = [removed EXCEPT !.step = "failed", !.failedAt = "phones"]
        \/ Fails
     /\ HostRests

(* selectSerial: --device has to answer get-state, in whatever state.        *)
SelectsSerial ==
  LET r == resolution.request
      answers == {i \in DOMAIN Emulators : adbState[i] # "gone" /\ r.device = <<Emulators[i].serial>>}
  IN /\ AtStepOf("serial")
     /\ \/ \E i \in IF r.device = <<>> THEN PickSerial(r, adbState) ELSE answers :
             Picks(Emulators[i].serial, "state")
        \/ Fails
     /\ HostRests

(* requireBooted, and the model the device is pinned by: each asks again.    *)
Asked(states) == \E i \in DOMAIN Emulators : Emulators[i].serial = resolution.picked /\ adbState[i] \in states

ChecksDevice ==
  /\ \/ AtStepOf("state") /\ Asked({"booting", "booted"}) /\ Moves("boot")
     \/ AtStepOf("boot") /\ Asked({"booted"}) /\ Moves("model")
     \/ AtStepOf("model") /\ Asked({"booting", "booted"}) /\ Moves("mint")
     \/ resolution.step \in {"state", "boot", "model"} /\ Fails
  /\ HostRests

(* mintTokenFile: the directory, the file, its mode.                         *)
MintsToken ==
  /\ \E made \in {<<"mint", "directory", "write">>, <<"write", "token", "protect">>,
                  <<"protect", "mode", "resolved">>} :
       /\ AtStepOf(made[1])
       /\ \/ resolution' = [resolution EXCEPT !.files = @ \union {made[2]}, !.step = made[3]]
          \/ Fails
  /\ HostRests

(* Meanwhile, on the host.                                                   *)
HostChanges ==
  /\ resolution.step \notin {"resolved", "failed"}
  /\ altered < MaxAltered /\ altered' = altered + 1
  /\ \/ /\ \E i \in DOMAIN Simulators, to \in {"booted", "shutdown", "gone"} :
             simState' = [simState EXCEPT ![i] = to]
        /\ UNCHANGED <<pairedPhones, adbState>>
     \/ /\ \E i \in DOMAIN Phones : pairedPhones' \in {pairedPhones \ {i}, pairedPhones \union {i}}
        /\ UNCHANGED <<simState, adbState>>
     \/ /\ \E i \in DOMAIN Emulators, to \in {"gone", "offline", "booting", "booted"} :
             adbState' = [adbState EXCEPT ![i] = to]
        /\ UNCHANGED <<simState, pairedPhones>>
  /\ UNCHANGED resolution

ReNext ==
  \/ FindsScaffold \/ SelectsSimulator \/ ListsOthers
  \/ MakesDirectory \/ ReadsPhones \/ RemovesDirectory
  \/ SelectsSerial \/ ChecksDevice \/ MintsToken \/ HostChanges

Resolved == resolution.step \in {"resolved", "failed"} /\ UNCHANGED resolveVars

ReSpec == ReInit /\ [][ReNext]_resolveVars

-----------------------------------------------------------------------------
ResolutionSteps ==
  {"scaffold", "simulators", "others", "directory", "phones", "directory-removal",
   "serial", "state", "boot", "model", "mint", "write", "protect", "resolved", "failed"}

Resolutions ==
  [request : Requests, step : ResolutionSteps, failedAt : ResolutionSteps \union {"nowhere"},
   picked : STRING \union {Unpicked}, others : SUBSET STRING, throws : BOOLEAN,
   files : SUBSET {"listing", "directory", "token", "mode"},
   listed : [DOMAIN Simulators -> {"booted", "shutdown", "gone"}], phones : SUBSET DOMAIN Phones]

ReTypeOK ==
  /\ simState \in [DOMAIN Simulators -> {"booted", "shutdown", "gone"}]
  /\ pairedPhones \subseteq DOMAIN Phones
  /\ adbState \in [DOMAIN Emulators -> {"gone", "offline", "booting", "booted"}]
  /\ altered \in 0 .. MaxAltered
  /\ resolution \in Resolutions

(* What the properties say of a picked device.                               *)
Picked == resolution.picked # Unpicked
Asks == resolution.request
PickedSimulators == {i \in DOMAIN Simulators : Simulators[i].udid = resolution.picked}
PickedPhones == {i \in resolution.phones : Phones[i].udid = resolution.picked}

(* No device is taken that the run was not told to take: it is named by       *)
(* --device or by the id of ios.destination, or the configuration lets the   *)
(* runner adopt one; a phone may also be the only one, or the only one whose *)
(* name or model has the words of --device.                                  *)
NoneAdopted ==
  Picked =>
    CASE Asks.kind = "simulator" ->
           \/ Asks.adoptUnownedDevice
           \/ resolution.picked \in ParseUdid(Asks.device) \union ParseUdid(Asks.destination)
           \/ Asks.device # <<>> /\ \E i \in PickedSimulators : Includes(Simulators[i].name, Asks.device)
      [] Asks.kind = "device" ->
           \E i \in PickedPhones :
             \/ \A j \in resolution.phones : j = i
             \/ PhoneMatches(Phones[i], Asks.device)
             \/ /\ PhoneMentions(Phones[i], Asks.device)
                /\ \A j \in resolution.phones \ {i} : ~PhoneMentions(Phones[j], Asks.device)
      [] OTHER -> Asks.adoptUnownedDevice \/ Asks.device = <<resolution.picked>>

(* An id in --device is what is taken, and without --device one in the       *)
(* destination.  A name of several words, where there is no id at all, never *)
(* stands for a device that only contains it while another has that name.    *)
(* Nothing is said of a name in --device beside an id in the destination.    *)
ExplicitWins ==
  Picked /\ Asks.kind = "simulator" =>
    /\ ParseUdid(Asks.device) # {} => resolution.picked \in ParseUdid(Asks.device)
    /\ Asks.device = <<>> /\ ParseUdid(Asks.destination) # {} =>
         resolution.picked \in ParseUdid(Asks.destination)
    /\ ExplicitUdid(Asks) = {} /\ Asks.device # <<>> =>
         \/ \E i \in PickedSimulators : Simulators[i].name = Asks.device
         \/ \A i \in DOMAIN Simulators : resolution.listed[i] # "gone" => Simulators[i].name # Asks.device

(* An adopted simulator is an iPhone that was there when they were listed,   *)
(* a booted one if any was, and no other of its kind has a newer iOS.        *)
BestAdopted ==
  Picked /\ Asks.kind = "simulator" /\ ExplicitUdid(Asks) = {} /\ Asks.device = <<>> =>
    \E i \in PickedSimulators :
      /\ IsPhoneName(Simulators[i].name) /\ resolution.listed[i] # "gone"
      /\ \A j \in DOMAIN Simulators :
           /\ IsPhoneName(Simulators[j].name) /\ resolution.listed[j] # "gone"
           => /\ resolution.listed[j] = "booted" => resolution.listed[i] = "booted"
              /\ resolution.listed[j] = resolution.listed[i] =>
                   ~IsNewer(Simulators[j].runtime, Simulators[i].runtime)

(* The app is ended on other simulators only where the configuration asks    *)
(* for it, and never on the picked one, which may have booted since it was   *)
(* listed.                                                                   *)
OthersAreOthers ==
  /\ resolution.picked \notin resolution.others
  /\ resolution.others # {} => Asks.kind = "simulator" /\ Asks.terminateOnOtherSimulators

(* No secret before a device is picked, and none without its mode; a         *)
(* resolution that fails leaves what it failed to finish making or to        *)
(* remove, and nothing else.                                                 *)
FilesAccountedFor ==
  /\ resolution.files \ {"listing"} # {} => Picked
  /\ AtStepOf("resolved") => Picked /\ resolution.files = {"directory", "token", "mode"}
  /\ AtStepOf("failed") =>
       resolution.files = CASE resolution.failedAt = "write" -> {"directory"}
                            [] resolution.failedAt = "protect" -> {"directory", "token"}
                            [] resolution.failedAt = "directory-removal" -> {"listing"}
                            [] OTHER -> {}

(* While nothing on the host changes, an Android device that is taken is one *)
(* that has booted.                                                          *)
TakenIsBooted ==
  Asks.kind = "android" /\ AtStepOf("resolved") /\ altered = 0 => Asked({"booted"})

ResolvedAsAsked ==
  /\ NoneAdopted /\ ExplicitWins /\ BestAdopted
  /\ OthersAreOthers /\ FilesAccountedFor /\ TakenIsBooted
=============================================================================
