------------------------------- MODULE MCDevice -------------------------------
(* For TLC: RNDevice's connections, or what goes over one of them: the files *)
(* of the app, or touches on Android; one of them in a behaviour. What they  *)
(* share: the token of a connection is liveTokens in DeviceConnection and    *)
(* liveObject in DeviceFiles; its backend is what AndroidTouch selects.      *)
EXTENDS DeviceConnection, DeviceFiles, AndroidTouch

AsTarget(platform, kind, grammatical) ==
  [platform |-> platform, device |-> TRUE, app |-> TRUE, kind |-> kind, grammatical |-> grammatical]

SomeTargets ==
  {AsTarget("ios", "unset", TRUE), AsTarget("ios", "device", TRUE),
   AsTarget("android", "unset", TRUE), AsTarget("android", "unset", FALSE)}

(* A file, one in a directory that may be a link, and one that climbs.       *)
SomePaths == {<<"f">>, <<"", "d", "f">>, <<"d", "..", "..", "..", "f">>}

AsConfig(mode, forced, order, enabled) ==
  [mode |-> mode, backend |-> forced, order |-> order, enabled |-> enabled]

(* The default; every backend, one of them disabled; adb alone.              *)
Adb == AsConfig("force", "cli", <<"instrumentation">>, Types)
SomeConfigs ==
  {AsConfig("auto", "unset", <<>>, Types),
   AsConfig("auto", "unset", <<"xctest", "native-module", "instrumentation", "cli">>,
            {"xctest", "instrumentation", "cli"}),
   AsConfig("auto", "unset", <<"native-module">>, Types), Adb}

VARIABLE part

(* The companion is there where it may be used; the API level is left open   *)
(* where adb is used alone.                                                  *)
DeviceInit ==
  /\ part \in {"connection", "files", "touches"}
  /\ Init /\ FiInit /\ AnInit
  /\ part # "files" => bound[1].platform = "ios" /\ bound[1].kind = "unset"
                       /\ size = Missing /\ dir = "none"
  /\ part # "touches" => touchConfig = Adb /\ ~oldSdk
  /\ IF touchConfig = Adb THEN ~serving /\ authorized ELSE ~oldSdk

DeviceNext ==
  \/ part = "connection" /\ Next /\ UNCHANGED <<part, fiVars, androidVars>>
  \/ part = "files" /\ FiNext /\ UNCHANGED <<part, vars, androidVars>>
  \/ part = "touches" /\ AnNext /\ UNCHANGED <<part, vars, fiVars>>

DeviceFairness ==
  /\ \A c \in Calls : WF_vars(part = "connection" /\ Advance(c))
  /\ \A o \in FileOps : WF_fiVars(part = "files" /\ OpStep(o))
  /\ \A n \in Asks : WF_androidVars(part = "touches" /\ GivesUp(n))
  /\ \A b \in Sessions : WF_androidVars(part = "touches" /\ (InitSucceeds(b) \/ InitFails(b)))

DeviceSpec ==
  DeviceInit /\ [][DeviceNext]_<<part, vars, fiVars, androidVars>> /\ DeviceFairness

(* What a call reports done is done: pulls and pushes, and touch commands;   *)
(* and the types of both parts.                                              *)
DoneAsTold == FiTypeOK /\ AnTypeOK /\ FilesTrue /\ AndroidTold

(* Every connect(), disconnect(), pull, push and touch command ends.         *)
EveryCallEnds == CallsSettle /\ FileOpEnds /\ AndroidSettles
=============================================================================
