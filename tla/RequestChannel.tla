--------------------------- MODULE RequestChannel ---------------------------
(* What a request/response client promises to whoever calls it, whatever     *)
(* happens to the connection underneath: a request that was issued is a      *)
(* promise; it settles at most once; it is only ever settled by the answer   *)
(* to itself or by a local failure (a timeout, a lost connection, a          *)
(* disconnect), never by the answer to somebody else's request.              *)
(*                                                                           *)
(* CdpClient implements this specification (PROPERTY ChannelSpec of its      *)
(* runs, THEOREM ImplementsChannel of CdpClientProofs), and so does the      *)
(* touch client of XCTestTouch (PROPERTY ChannelSpec, and the theorem of the *)
(* same name in XCTestTouchProofs).                                          *)
EXTENDS Naturals

CONSTANT Requests          \* every request that may ever be issued, 0 not among them

VARIABLES promise,         \* promise[r]: what the caller of r can observe
          answer           \* answer[r]: the request whose answer settled r

NoAnswer == 0

chVars == <<promise, answer>>

ChInit ==
  /\ promise = [r \in Requests |-> "unsent"]
  /\ answer = [r \in Requests |-> NoAnswer]

(* The caller issues r.                                                      *)
Issue(r) ==
  /\ promise[r] = "unsent"
  /\ promise' = [promise EXCEPT ![r] = "waiting"]
  /\ UNCHANGED answer

(* The peer's answer to r reaches the caller of r, as a result or an error.  *)
Answered(r, outcome) ==
  /\ promise[r] = "waiting"
  /\ promise' = [promise EXCEPT ![r] = outcome]
  /\ answer' = [answer EXCEPT ![r] = r]

(* Some requests are given up locally, without an answer.                    *)
GiveUp(S) ==
  /\ promise' = [r \in Requests |-> IF r \in S THEN "rejected" ELSE promise[r]]
  /\ UNCHANGED answer

ChNext ==
  \/ \E r \in Requests : Issue(r)
  \/ \E r \in Requests, outcome \in {"resolved", "rejected"} : Answered(r, outcome)
  \/ \E S \in SUBSET {r \in Requests : promise[r] = "waiting"} : GiveUp(S)

ChSpec == ChInit /\ [][ChNext]_chVars
=============================================================================
