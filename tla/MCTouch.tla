------------------------------- MODULE MCTouch -------------------------------
(* For TLC: the XCTest backend and its companion, or the gestures of the     *)
(* pointer above whatever backend; one or the other in a behaviour.          *)
(* XCTestTouch takes its commands one by one, in any order; Gestures says in *)
(* which order, and when, the pointer issues them.                           *)
EXTENDS XCTestTouch, Gestures

By(way, n, easing) == [by |-> way, n |-> n, easing |-> easing]
SomeInterpolations ==
  {By("steps", 2, "ease-out"), By("steps", 3, "ease-in-out"), By("duration", 24, "linear")}

VARIABLE part

TouchInit ==
  /\ part \in {"companion", "gestures"}
  /\ Init /\ GeInit

TouchNext ==
  \/ part = "companion" /\ Next /\ UNCHANGED <<part, geVars>>
  \/ part = "gestures" /\ GeNext /\ UNCHANGED <<part, vars>>

(* The fairness of XCTestTouch, asked for only where the action may be taken.*)
TouchFairness ==
  /\ \A b \in Backends : /\ WF_vars(part = "companion" /\ (Opens(b) \/ DialFails(b)))
                         /\ WF_vars(part = "companion" /\ Greeted(b))
  /\ \A n \in Requests : WF_vars(part = "companion" /\ TimerFires(n))

TouchSpec == TouchInit /\ [][TouchNext]_<<part, vars, geVars>> /\ TouchFairness

(* Types of both.                                                            *)
TypesOK == TypeOK /\ GeTypeOK
=============================================================================
