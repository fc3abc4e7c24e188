-------------------------------- MODULE MCCdp --------------------------------
(* For TLC: the CDP client; which runtime it is connected to; or evaluations *)
(* over it. They are checked apart, one of them in a behaviour: CdpEvaluate  *)
(* rests on what the client promises (RequestChannel), not on how it keeps   *)
(* it, and Discovery ends where the client dials.                            *)
EXTENDS CdpClient, CdpEvaluate, Discovery

(* Two phones of the same name, one of which tells it in its title only, and *)
(* one with a longer name; an emulator with the suffix Metro adds; a browser.*)
On(device, name, app, paren, react) ==
  [device |-> device, deviceId |-> device, deviceName |-> name,
   title |-> [app |-> app, paren |-> paren], react |-> react]
SomeRuntimes ==
  {On("A", <<"phone">>, <<"app">>, <<>>, TRUE), On("B", <<"phone", "pro">>, <<"app">>, <<>>, TRUE),
   On("C", <<>>, <<"app">>, <<"phone">>, TRUE), On("D", <<"sdk", "15">>, <<"app">>, <<>>, TRUE),
   On("E", <<>>, <<"browser">>, <<>>, FALSE)}

(* device is the one meant.                                                  *)
Wish(device, id, name, index, target) ==
  [device |-> device, deviceId |-> id, deviceName |-> name, pageIndex |-> index, target |-> target]
SomeWishes ==
  {Wish("A", "", <<"phone">>, {}, {"udid", "bundleId"}),
   Wish("C", "", <<"phone">>, {0}, {"udid", "bundleId"}),
   Wish("D", "", <<"sdk">>, {}, {"serial", "packageName"}),
   Wish("A", "", <<>>, {}, {"udid", "bundleId"}), Wish("D", "", <<>>, {}, {"serial"}),
   Wish("B", "B", <<>>, {}, {}), Wish("A", "", <<>>, {1}, {"udid", "bundleId"})}

VARIABLE part

CdpInit ==
  /\ part \in {"client", "evaluate", "discovery"}
  /\ Init /\ EvInit /\ DiInit
  /\ part # "evaluate" => ~native
  /\ part # "discovery" => metro = Down /\ wish = CHOOSE w \in Wishes : TRUE

CdpNext ==
  \/ part = "client" /\ Next /\ UNCHANGED <<part, evVars, diVars>>
  \/ part = "evaluate" /\ EvNext /\ UNCHANGED <<part, vars, diVars>>
  \/ part = "discovery" /\ DiNext /\ UNCHANGED <<part, vars, evVars>>

(* The fairness of each, asked for only where the action may be taken.       *)
CdpFairness ==
  /\ \A s \in Sockets : WF_vars(part = "client" /\ Continues(s))
                        /\ WF_vars(part = "client" /\ (SocketOpens(s) \/ SocketFails(s)))
  /\ \A n \in Requests : WF_vars(part = "client" /\ TimerFires(n))
  /\ WF_vars(part = "client" /\ BackoffElapsed)
  /\ \A e \in Evals : WF_evVars(part = "evaluate" /\ RequestTimesOut(e))
                      /\ WF_evVars(part = "evaluate" /\ PollingTimesOut(e))
  /\ WF_diVars(part = "discovery" /\ DiscoverTargetsUntilReady)

CdpSpec == CdpInit /\ [][CdpNext]_<<part, vars, evVars, diVars>> /\ CdpFairness

(* An evaluation has its own value, of the device that was meant; and the    *)
(* types of both parts.                                                      *)
OwnAnswer == EvTypeOK /\ DiTypeOK /\ OwnValue /\ RightRuntime

(* Every call of connect() and of evaluate() ends, but for the connect()     *)
(* that disconnect() silenced; so does the polling for a runtime.            *)
EveryCallEnds == ConnectSettles /\ EvaluateEnds /\ (part = "discovery" => DiscoveryEnds)
=============================================================================
