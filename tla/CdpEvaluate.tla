----------------------------- MODULE CdpEvaluate -----------------------------
(* device.evaluate: what runs between a test, the CDP client and the app's   *)
(* JavaScript runtime (packages/driver/src/cdp/client.ts evaluate..., and    *)
(* device.ts evaluate). A runtime that awaits promises answers with the      *)
(* value. In one that does not, React Native's, the expression leaves its    *)
(* promise in a global, the stash, which the client polls and empties.       *)
(*                                                                           *)
(* Here a request settles by its answer or locally (what RequestChannel      *)
(* promises and CdpClient implements); a request that was given up may still *)
(* be run by the runtime. Evaluations run at the same time; e is the e-th    *)
(* call. The check of the exception buffer that comes first is               *)
(* OperationReports of DeviceConnection.                                     *)
EXTENDS Naturals, FiniteSets

CONSTANTS MaxEvals,     \* bound: calls of evaluate
          MaxPolls,     \* bound: polls that fit into options.timeout
          MaxReloads    \* bound: times the app's runtime is replaced

ASSUME EvBounds == MaxEvals \in Nat /\ MaxPolls \in Nat \ {0} /\ MaxReloads \in Nat

Evals   == 1..MaxEvals
Nothing == 0               \* no value yet
Garbage == MaxEvals + 1    \* a promise object instead of its value

VARIABLES
  phase,       \* where the call is: what it awaits, or how it ended
  got,         \* whose value the call obtained
  polls,       \* polls so far
  request,     \* the request of the call at the runtime: its kind, or "none"
  reply,       \* the runtime's answer to it, under way to the client
  appPromise,  \* the promise of the expression in the runtime
  stash,       \* globalThis.__CDP_RESULT_...: its state and whose value it holds
  connected, checked,
  believed,    \* this.supportsAwaitPromise
  native,      \* the runtime does await promises
  reloads

evVars == <<phase, got, polls, request, reply, appPromise, stash,
            connected, checked, believed, native, reloads>>

NoReply == [what |-> "none", of |-> Nothing]
Absent  == [state |-> "absent", of |-> Nothing]
Ended   == {"resolved", "threw", "gaveUp"}
Phases  == {"idle", "awaiting", "starting", "polling", "asleep", "deleting", "tracing"} \union Ended
AwaitsOutcome(e) == phase[e] \in {"awaiting", "starting", "polling"}
AwaitsAnswer(e)  == AwaitsOutcome(e) \/ phase[e] \in {"deleting", "tracing"}

EvInit ==
  /\ phase = [e \in Evals |-> "idle"]
  /\ got = [e \in Evals |-> Nothing]
  /\ polls = [e \in Evals |-> 0]
  /\ request = [e \in Evals |-> "none"]
  /\ reply = [e \in Evals |-> NoReply]
  /\ appPromise = [e \in Evals |-> "none"]
  /\ stash = [e \in Evals |-> Absent]
  /\ connected = FALSE /\ checked = FALSE /\ believed = FALSE
  /\ native \in BOOLEAN
  /\ reloads = 0

-----------------------------------------------------------------------------
(* The client.                                                               *)

(* The call goes on to a request of its own, which takes a connection.       *)
Sends(e, kind, where) ==
  /\ request' = [request EXCEPT ![e] = kind]
  /\ reply' = [reply EXCEPT ![e] = NoReply]
  /\ phase' = [phase EXCEPT ![e] = where]

Ends(e, how) ==
  /\ phase' = [phase EXCEPT ![e] = how]
  /\ UNCHANGED <<request, reply>>

(* The expression has a value; a trace event goes after it before evaluate   *)
(* returns it.                                                               *)
Obtains(e, v) ==
  /\ got' = [got EXCEPT ![e] = v]
  /\ Sends(e, "trace", "tracing")

(* Mutant of Lost: the request for the trace event is not in a try block.    *)
LostAnyhow(e) == "gaveUp"

(* How the end of a request without an answer ends the call: tracing may     *)
(* fail, everything else may not.                                            *)
Lost(e) == IF phase[e] = "tracing" THEN "resolved" ELSE "gaveUp"

Evaluate(e) ==
  /\ phase[e] = "idle"
  /\ \A f \in 1..(e - 1) : phase[f] # "idle"
  /\ \/ connected /\ believed /\ Sends(e, "await", "awaiting")
     \/ connected /\ ~believed /\ Sends(e, "start", "starting")
     \/ ~connected /\ Ends(e, "gaveUp")
  /\ UNCHANGED <<got, polls, appPromise, stash, connected, checked, believed, native, reloads>>

(* The answer to the call's request, and everything up to its next await.    *)
AnswerReaches(e) ==
  LET r == reply[e] IN
  /\ connected /\ AwaitsAnswer(e) /\ r.what # "none"
  /\ \/ phase[e] = "tracing"  /\ Ends(e, "resolved") /\ UNCHANGED <<got, polls>>
     \/ phase[e] = "deleting" /\ Ends(e, "gaveUp") /\ UNCHANGED <<got, polls>>
     \/ AwaitsOutcome(e) /\ r.what = "value"   /\ Obtains(e, r.of) /\ UNCHANGED polls
     \/ AwaitsOutcome(e) /\ r.what = "error"   /\ Ends(e, "threw") /\ UNCHANGED <<got, polls>>
     \/ AwaitsOutcome(e) /\ r.what = "pending" /\ Ends(e, "asleep") /\ UNCHANGED <<got, polls>>
     \/ AwaitsOutcome(e) /\ r.what = "async"   /\ Sends(e, "poll", "polling")
        /\ polls' = [polls EXCEPT ![e] = 1] /\ UNCHANGED got
  /\ UNCHANGED <<appPromise, stash, connected, checked, believed, native, reloads>>

(* The request's timer fires first.                                          *)
RequestTimesOut(e) ==
  /\ AwaitsAnswer(e)
  /\ Ends(e, Lost(e))
  /\ UNCHANGED <<got, polls, appPromise, stash, connected, checked, believed, native, reloads>>

(* The 10 ms between two polls are over: poll again, or give up and clean.   *)
PollsAgain(e) ==
  /\ phase[e] = "asleep" /\ polls[e] < MaxPolls
  /\ polls' = [polls EXCEPT ![e] = @ + 1]
  /\ IF connected THEN Sends(e, "poll", "polling") ELSE Ends(e, "gaveUp")
  /\ UNCHANGED <<got, appPromise, stash, connected, checked, believed, native, reloads>>

PollingTimesOut(e) ==
  /\ phase[e] = "asleep"
  /\ IF connected THEN Sends(e, "delete", "deleting") ELSE Ends(e, "gaveUp")
  /\ UNCHANGED <<got, polls, appPromise, stash, connected, checked, believed, native, reloads>>

(* The connection comes up; the first one asks what the runtime supports.    *)
(* A probe that fails or is not answered counts as no.                       *)
ProbesOnce ==
  /\ ~connected
  /\ connected' = TRUE
  /\ checked' = TRUE
  /\ believed' \in IF checked THEN {believed} ELSE {FALSE, native}
  /\ UNCHANGED <<phase, got, polls, request, reply, appPromise, stash, native, reloads>>

(* It is lost, or disconnect() is called: every waiting request is rejected. *)
LosesConnection ==
  /\ connected
  /\ connected' = FALSE
  /\ phase' = [e \in Evals |-> IF AwaitsAnswer(e) THEN Lost(e) ELSE phase[e]]
  /\ UNCHANGED <<got, polls, request, reply, appPromise, stash, checked, believed, native, reloads>>

-----------------------------------------------------------------------------
(* The runtime.                                                              *)

(* The global an evaluation uses: Date.now() and a random number.            *)
ResultId(e) == e

(* Mutant of ResultId: Date.now() alone.                                     *)
ResultIdByClock(e) == 1

Answer(e, what, of) ==
  /\ request' = [request EXCEPT ![e] = "none"]
  /\ reply' = [reply EXCEPT ![e] = [what |-> what, of |-> of]]

(* A value or an exception; if it does not await promises, a promise object. *)
RunsAwaiting(e) ==
  /\ request[e] = "await"
  /\ \/ native /\ \E what \in {"value", "error"} : Answer(e, what, e)
     \/ ~native /\ Answer(e, "value", Garbage)
  /\ UNCHANGED <<appPromise, stash>>

(* The wrapper of evaluateWithStash: a value or an exception at once, or a   *)
(* promise whose outcome is to be written into the global.                   *)
RunsStart(e) ==
  /\ request[e] = "start"
  /\ \/ \E what \in {"value", "error"} : Answer(e, what, e) /\ UNCHANGED <<appPromise, stash>>
     \/ /\ Answer(e, "async", e)
        /\ appPromise' = [appPromise EXCEPT ![e] = "pending"]
        /\ stash' = [stash EXCEPT ![ResultId(e)] = [state |-> "pending", of |-> e]]

(* Mutant of RunsPoll: the entry stays.                                      *)
RunsPollKeeping(e) ==
  LET entry == stash[ResultId(e)] IN
  /\ request[e] = "poll"
  /\ Answer(e, IF entry.state \in {"value", "error"} THEN entry.state ELSE "pending", entry.of)
  /\ UNCHANGED <<appPromise, stash>>

(* checkExpr: an outcome is taken out of the global.                         *)
RunsPoll(e) ==
  LET entry == stash[ResultId(e)]
      done  == entry.state \in {"value", "error"}
  IN /\ request[e] = "poll"
     /\ Answer(e, IF done THEN entry.state ELSE "pending", entry.of)
     /\ stash' = IF done THEN [stash EXCEPT ![ResultId(e)] = Absent] ELSE stash
     /\ UNCHANGED appPromise

RunsDelete(e) ==
  /\ request[e] = "delete"
  /\ Answer(e, "ok", Nothing)
  /\ stash' = [stash EXCEPT ![ResultId(e)] = Absent]
  /\ UNCHANGED appPromise

RunsTrace(e) ==
  /\ request[e] = "trace"
  /\ \E what \in {"value", "error"} : Answer(e, what, Nothing)
  /\ UNCHANGED <<appPromise, stash>>

Runs(e) ==
  /\ RunsAwaiting(e) \/ RunsStart(e) \/ RunsPoll(e) \/ RunsDelete(e) \/ RunsTrace(e)
  /\ UNCHANGED <<phase, got, polls, connected, checked, believed, native, reloads>>

(* The promise settles, polled or not, and its callback writes the global.   *)
PromiseSettles(e) ==
  /\ appPromise[e] = "pending"
  /\ appPromise' = [appPromise EXCEPT ![e] = "settled"]
  /\ \E outcome \in {"value", "error"} :
       stash' = [stash EXCEPT ![ResultId(e)] = [state |-> outcome, of |-> e]]
  /\ UNCHANGED <<phase, got, polls, request, reply, connected, checked, believed, native, reloads>>

(* The app reloads: a new runtime without the globals and the promises of    *)
(* the old one, which runs nothing any more.                                 *)
Reloads ==
  /\ reloads < MaxReloads
  /\ reloads' = reloads + 1
  /\ native' \in BOOLEAN
  /\ request' = [e \in Evals |-> "none"]
  /\ appPromise' = [e \in Evals |-> "none"]
  /\ stash' = [e \in Evals |-> Absent]
  /\ UNCHANGED <<phase, got, polls, reply, connected, checked, believed>>

EvNext ==
  \/ \E e \in Evals :
       \/ Evaluate(e) \/ AnswerReaches(e) \/ RequestTimesOut(e)
       \/ PollsAgain(e) \/ PollingTimesOut(e)
       \/ Runs(e) \/ PromiseSettles(e)
  \/ ProbesOnce \/ LosesConnection \/ Reloads

EvSpec == EvInit /\ [][EvNext]_evVars

(* Timers fire: the request's, and the ones between polls and for all of     *)
(* them. Nothing is assumed of the runtime or of the connection.             *)
EvFairness == \A e \in Evals : WF_evVars(RequestTimesOut(e)) /\ WF_evVars(PollingTimesOut(e))

-----------------------------------------------------------------------------
EvTypeOK ==
  /\ phase \in [Evals -> Phases]
  /\ got \in [Evals -> {Nothing, Garbage} \union Evals]
  /\ polls \in [Evals -> 0..MaxPolls]
  /\ request \in [Evals -> {"none", "await", "start", "poll", "delete", "trace"}]
  /\ reply \in [Evals -> [what : {"none", "value", "error", "async", "pending", "ok"},
                          of : {Nothing, Garbage} \union Evals]]
  /\ appPromise \in [Evals -> {"none", "pending", "settled"}]
  /\ stash \in [Evals -> [state : {"absent", "pending", "value", "error"},
                          of : {Nothing} \union Evals]]
  /\ connected \in BOOLEAN /\ checked \in BOOLEAN /\ believed \in BOOLEAN /\ native \in BOOLEAN
  /\ reloads \in 0..MaxReloads

(* However evaluations, polls and late promises interleave, the value that   *)
(* evaluate returns is that of its own expression. A promise object is       *)
(* returned in its place only after the app was reloaded into a runtime that *)
(* is not the one the client probed. And a value once obtained is returned,  *)
(* whatever becomes of the trace event.                                      *)
OwnValue ==
  \A e \in Evals :
    /\ got[e] \in {Nothing, e} \/ (got[e] = Garbage /\ believed /\ reloads > 0)
    /\ got[e] # Nothing <=> phase[e] \in {"tracing", "resolved"}

(* An evaluation that ended with the outcome of its expression, a value or   *)
(* an exception, leaves nothing in the app: no global, and no promise that   *)
(* will write one. What stays behind stays behind after a local failure: a   *)
(* poll that was given up, or a promise that settles after the deletion.     *)
StashEmptied ==
  \A e \in Evals : phase[e] \in {"tracing", "resolved", "threw"} =>
    stash[ResultId(e)].state = "absent" /\ appPromise[e] # "pending"

(* Every call of evaluate ends, also when the app's promise never settles    *)
(* and when the connection is lost.                                          *)
EvaluateEnds == \A e \in Evals : phase[e] # "idle" ~> phase[e] \in Ended
=============================================================================
