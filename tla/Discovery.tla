------------------------------- MODULE Discovery -------------------------------
(* Which runtime connect() attaches to: the polling of Metro's list of       *)
(* targets until one is a React Native runtime                               *)
(* (packages/driver/src/device.ts), and the choice among them                *)
(* (packages/driver/src/cdp/discovery.ts). The list changes while apps start *)
(* and stop, and Metro may not answer yet. A name is a sequence of words, no *)
(* words where there is none; case is left out. A runtime also has the       *)
(* device it runs on, which Metro does not tell.                             *)
EXTENDS Naturals, Sequences, FiniteSets, Functions

CONSTANTS Runtimes,      \* what Metro may list
          Wishes,        \* DeviceOptions: deviceId, deviceName, pageIndex, target
          MaxListed,     \* bound: targets on a list
          MaxLooks,      \* the device timeout, in polls
          MaxStarts      \* bound: changes of the list, while the driver polls

ASSUME DiscoveryBounds == MaxListed \in Nat /\ MaxLooks \in Nat \ {0} /\ MaxStarts \in Nat

VARIABLES wish,      \* this.options
          metro,     \* what /json answers
          search,    \* connect(): its step, the list it has, what it chose
          looks, starts

diVars == <<wish, metro, search, looks, starts>>

Down    == [up |-> FALSE, targets |-> <<>>]
Lists   == UNION {Injection(1..n, Runtimes) : n \in 0..MaxListed}
Answers == {Down} \union [up : {TRUE}, targets : Lists]

DiInit ==
  /\ wish \in Wishes
  /\ metro \in Answers
  /\ search = [step |-> "polling", list |-> <<>>, chosen |-> {}]
  /\ looks = 0 /\ starts = 0

-----------------------------------------------------------------------------
(* The choice. A list is a function on the places its runtimes had in        *)
(* Metro's answer; what is chosen is the set of its place, empty where the   *)
(* code throws.                                                              *)

Includes(text, words) ==
  \E i \in 0 .. Len(text) - Len(words) : SubSeq(text, i + 1, i + Len(words)) = words

(* The name a title ends with, in parentheses.                               *)
TitleParenthetical(t) == t.title.paren
Title(t) == t.title.app \o TitleParenthetical(t)

Exactly(t, name) == t.deviceName = name \/ Title(t) = name \/ TitleParenthetical(t) = name
Partly(t, name)  == Includes(t.deviceName, name) \/ Includes(Title(t), name)

ByName(list) ==
  LET exact == {i \in DOMAIN list : Exactly(list[i], wish.deviceName)}
  IN IF exact # {} THEN exact ELSE {i \in DOMAIN list : Partly(list[i], wish.deviceName)}

ById(list) == {i \in DOMAIN list : list[i].deviceId = wish.deviceId}

First(indices) == {i \in indices : \A j \in indices : i <= j}
Only(indices)  == IF \A i, j \in indices : i = j THEN indices ELSE {}

AtIndex(list, n) == {i \in DOMAIN list : Cardinality({j \in DOMAIN list : j < i}) = n}

SelectTarget(list) ==
  IF wish.deviceId # "" THEN First(ById(list))
  ELSE IF wish.deviceName # <<>> THEN Only(ByName(list))
  ELSE IF wish.pageIndex = {} THEN AtIndex(list, 0)
  ELSE UNION {AtIndex(list, n) : n \in wish.pageIndex}

(* The target has all that device.files needs.                               *)
FilePinned == {"udid", "bundleId"} \subseteq wish.target \/ {"serial", "packageName"} \subseteq wish.target

(* Mutant of HasCdpSelector: whatever the options hold is a selector.        *)
HasAnySelector == wish.deviceId # "" \/ wish.deviceName # <<>> \/ wish.target # {}

HasCdpSelector == wish.deviceId # "" \/ wish.deviceName # <<>> \/ wish.pageIndex # {}

SelectTargetForConnect(list) ==
  IF FilePinned /\ ~HasCdpSelector /\ \E i, j \in DOMAIN list : i # j
  THEN {} ELSE SelectTarget(list)

-----------------------------------------------------------------------------
(* The polling.                                                              *)

DiscoverTargets == Restrict(metro.targets, {i \in DOMAIN metro.targets : metro.targets[i].react})

(* A list with a runtime ends the polling, and the choice is made at once; a *)
(* failure or an empty list is waited out until the time is up.              *)
DiscoverTargetsUntilReady ==
  /\ search.step = "polling"
  /\ looks' = looks + 1
  /\ IF metro.up /\ DOMAIN DiscoverTargets # {}
     THEN LET c == SelectTargetForConnect(DiscoverTargets) IN
          search' = [step |-> IF c = {} THEN "refused" ELSE "dialing",
                     list |-> DiscoverTargets, chosen |-> c]
     ELSE search' = [search EXCEPT !.step = IF looks' >= MaxLooks THEN "expired" ELSE "polling"]
  /\ UNCHANGED <<wish, metro, starts>>

(* Metro comes up, an app starts or ends.                                    *)
MetroChanges ==
  /\ search.step = "polling" /\ starts < MaxStarts
  /\ starts' = starts + 1
  /\ metro' \in Answers
  /\ UNCHANGED <<wish, search, looks>>

DiNext == DiscoverTargetsUntilReady \/ MetroChanges

DiSpec == DiInit /\ [][DiNext]_diVars /\ WF_diVars(DiscoverTargetsUntilReady)

-----------------------------------------------------------------------------
(* Properties.                                                               *)

DiTypeOK ==
  /\ search.step \in {"polling", "dialing", "refused", "expired"}
  /\ search.chosen \subseteq DOMAIN search.list
  /\ looks \in 0..MaxLooks /\ starts \in 0..MaxStarts

Attached == {search.list[i] : i \in search.chosen}

(* evaluate() and device.files speak to the same device: with device.files   *)
(* pinned to a device whose runtime is listed, connect() by that device's    *)
(* name, or by nothing, attaches to this runtime or to none                  *)
(* (discovery.ts:155-157, 193-200).                                          *)
SameDevice ==
  \A r \in Runtimes :
    /\ search.step = "dialing" /\ FilePinned /\ wish.device = r.device
    /\ r \in Range(search.list)
    /\ wish.deviceId = ""
    /\ \/ wish.deviceName = <<>> /\ wish.pageIndex = {}
       \/ wish.deviceName # <<>> /\ Exactly(r, wish.deviceName)
    => Attached = {r}

(* A name decides, or nothing does: had Metro listed the same runtimes in    *)
(* another order, connect() would attach to the same one, or to none again   *)
(* (discovery.ts:114-128).                                                   *)
NameDecides ==
  search.step \in {"dialing", "refused"} /\ wish.deviceId = "" /\ wish.deviceName # <<>> =>
    \A order \in Injection(DOMAIN search.list, DOMAIN search.list) :
      LET listed == [i \in DOMAIN search.list |-> search.list[order[i]]]
      IN {listed[i] : i \in SelectTargetForConnect(listed)} = Attached

RightRuntime == SameDevice /\ NameDecides

(* The polling ends, in a runtime or an error (device.ts:216-238).           *)
DiscoveryEnds == search.step = "polling" ~> search.step # "polling"
=============================================================================
