--------------------------- MODULE CdpClientProofs ---------------------------
(* What holds of CdpClient for every number of sockets, requests and         *)
(* reconnect attempts, with and without auto-reconnect.                      *)
(*                                                                           *)
(* None of the properties is inductive: that a map entry belongs to the      *)
(* request which waits under that id rests on ids never being given out      *)
(* twice. IInv adds that: the last id equals the number of requests issued,  *)
(* so id, map index and request coincide.                                    *)
EXTENDS CdpClient, FiniteSetTheorems, TLAPS

Ids ==
  /\ messageId = issued
  /\ \A n \in Requests : idOf[n] = IF n <= issued THEN n ELSE 0
  /\ \A n \in Requests : promise[n] = "unsent" <=> n > issued
  /\ \A n \in Requests : pending[n] = IF promise[n] = "waiting" THEN n ELSE NoRequest
  /\ \A n \in Requests : answer[n] \in {NoRequest, n}
  /\ \A n \in owed : n <= issued

IInv == TypeOK /\ Ids

(* The part of the state that requests live in stays well formed.            *)
ReqInv == RequestTypes /\ Ids

-----------------------------------------------------------------------------
(* The bounds are natural numbers, so the index sets are intervals of them.  *)
LEMMA BoundsNat ==
  /\ MaxRequests \in Nat
  /\ Sockets \subseteq Nat \ {NoSocket}
  /\ Requests \subseteq Nat \ {NoRequest}
BY BoundsAssumption DEF MaxRequests, Sockets, Requests, NoSocket, NoRequest

(* Sending keeps ids and requests in step (client.ts:328-338).               *)
LEMMA SendKeepsIds ==
  ASSUME ReqInv, NEW u \in {0, 1}, userSent + u <= MaxUser, ws \in Sockets, Send(u)
  PROVE  ReqInv'
<1>1. /\ issued + 1 \in Requests
      /\ messageId = issued
      /\ issued \in Nat
  BY BoundsNat DEF ReqInv, RequestTypes, Ids, Send
<1>2. RequestTypes'
  <2>1. (messageId' \in 0..MaxRequests) /\ (issued' \in 0..MaxRequests)
    BY <1>1, BoundsNat DEF Send, Requests
  <2>2. userSent' \in 0..MaxUser
    BY BoundsAssumption DEF Send, ReqInv, RequestTypes
  <2>3. /\ pending' \in [Requests -> Requests \union {NoRequest}]
        /\ idOf' \in [Requests -> 0..MaxRequests]
        /\ sentOn' \in [Requests -> Sockets \union {NoSocket}]
        /\ promise' \in [Requests -> {"unsent", "waiting"} \union Settled]
        /\ answer' \in [Requests -> Requests \union {NoRequest}]
        /\ owed' \subseteq Requests
    BY <1>1, BoundsNat DEF Send, ReqInv, RequestTypes, Requests
  <2> QED BY <2>1, <2>2, <2>3 DEF RequestTypes
<1>3. Ids'
  BY <1>1, BoundsNat DEF Send, ReqInv, RequestTypes, Ids, Requests, NoRequest
<1> QED BY <1>2, <1>3 DEF ReqInv

(* Rejecting what is pending empties the map and leaves nobody waiting       *)
(* (client.ts:100-104, 401-405, 411-415).                                    *)
LEMMA RejectAllKeepsIds ==
  ASSUME ReqInv, RejectAll, owed' \subseteq owed
  PROVE  ReqInv'
<1>1. \A n \in Requests : IsPending(n) <=> promise[n] = "waiting"
  BY BoundsNat DEF ReqInv, RequestTypes, Ids, IsPending, NoRequest
<1>2. RequestTypes'
  BY DEF RejectAll, ReqInv, RequestTypes, Settled
<1>3. Ids'
  BY <1>1, BoundsNat DEF RejectAll, ReqInv, RequestTypes, Ids
<1> QED BY <1>2, <1>3 DEF ReqInv

(* Settling one request removes exactly its entry (client.ts:331-334,        *)
(* 351-362).                                                                 *)
LEMMA SettleKeepsIds ==
  ASSUME ReqInv, NEW m \in Requests, NEW outcome \in Settled,
         promise[m] = "waiting", Settle(m, outcome),
         answer' \in {answer, [answer EXCEPT ![m] = m]}, owed' \subseteq owed,
         UNCHANGED <<messageId, issued, userSent, idOf, sentOn>>
  PROVE  ReqInv'
<1>1. idOf[m] = m
  BY BoundsNat DEF ReqInv, RequestTypes, Ids
<1>2. RequestTypes'
  BY <1>1, BoundsNat DEF Settle, ReqInv, RequestTypes, Settled
<1>3. Ids'
  BY <1>1, BoundsNat DEF Settle, ReqInv, RequestTypes, Ids, Settled, NoRequest
<1> QED BY <1>2, <1>3 DEF ReqInv

(* An answer finds the request it belongs to, or nobody.                     *)
LEMMA AnswerFindsItsRequest ==
  ASSUME ReqInv, NEW n \in owed
  PROVE  /\ n \in Requests
         /\ idOf[n] = n
         /\ pending[n] = IF promise[n] = "waiting" THEN n ELSE NoRequest
BY BoundsNat DEF ReqInv, RequestTypes, Ids

-----------------------------------------------------------------------------
(* What an action does to the requests: nothing, or one of three things.     *)
RequestStep ==
  \/ UNCHANGED reqVars
  \/ \E u \in {0, 1} : userSent + u <= MaxUser /\ ws \in Sockets /\ Send(u)
  \/ RejectAll /\ owed' \subseteq owed
  \/ /\ UNCHANGED <<messageId, issued, userSent, pending, idOf, sentOn, promise, answer>>
     /\ owed' \subseteq owed
  \/ \E m \in Requests, outcome \in Settled :
       /\ promise[m] = "waiting"
       /\ Settle(m, outcome)
       /\ \/ answer' = [answer EXCEPT ![m] = m]
          \/ answer' = answer /\ outcome = "rejected"
       /\ owed' \subseteq owed
       /\ UNCHANGED <<messageId, issued, userSent, idOf, sentOn>>

(* Every action is a RequestStep.                                            *)
LEMMA NextIsRequestStep ==
  ASSUME IInv, [Next]_vars
  PROVE  RequestStep
<1> USE DEF RequestStep
<1>0. ReqInv /\ (CanSend => ws \in Sockets) /\ userSent + 0 <= MaxUser
  BY BoundsAssumption DEF IInv, TypeOK, ReqInv, SocketTypes, RequestTypes, CanSend
<1>1. CASE Connect
  BY <1>1 DEF Connect
<1>2. CASE Disconnect
  BY <1>2 DEF Disconnect, Silence
<1>3. CASE UserSends
  <2>1. userSent + 1 <= MaxUser
    BY <1>0, <1>3, BoundsAssumption DEF UserSends, ReqInv, RequestTypes
  <2> QED BY <1>0, <1>3, <2>1 DEF UserSends
<1>4. CASE BackoffElapsed
  BY <1>4 DEF BackoffElapsed
<1>5. ASSUME NEW s \in Sockets, SocketOpens(s) \/ AfterEnable(s) \/ AfterProbe(s) \/ AfterReenable(s)
      PROVE  RequestStep
  BY <1>5 DEF SocketOpens, AfterEnable, AfterProbe, AfterReenable
<1>6. ASSUME NEW s \in Sockets, AfterOpen(s) \/ DetectAwaitPromise(s) \/ Finish(s)
      PROVE  RequestStep
  BY <1>0, <1>6 DEF AfterOpen, DetectAwaitPromise, Finish, SendAndAwait
<1>7. ASSUME NEW s \in Sockets, AfterFail(s)
      PROVE  RequestStep
  BY <1>7 DEF AfterFail, reqVars
<1>8. ASSUME NEW s \in Sockets, SocketFails(s)
      PROVE  RequestStep
  BY <1>8 DEF SocketFails, HandleClose, reqVars
<1>9. ASSUME NEW s \in Sockets, PeerCloses(s)
      PROVE  RequestStep
  BY <1>9 DEF PeerCloses, HandleClose, reqVars
<1>10. ASSUME NEW n \in Requests, NEW outcome \in Settled, AnswerArrives(n, outcome)
       PROVE  RequestStep
  <2>1. /\ n \in owed
        /\ owed' \subseteq owed
        /\ UNCHANGED <<messageId, issued, userSent, idOf, sentOn>>
    BY <1>10 DEF AnswerArrives
  <2>2. pending[idOf[n]] = IF promise[n] = "waiting" THEN n ELSE NoRequest
    BY <1>0, <2>1, AnswerFindsItsRequest
  <2>3. CASE handlers[sentOn[n]] > 0 /\ pending[idOf[n]] # NoRequest
    <3>1. /\ promise[n] = "waiting"
          /\ Settle(n, outcome)
          /\ answer' = [answer EXCEPT ![n] = n]
      BY <1>10, <2>2, <2>3 DEF AnswerArrives
    <3> QED BY <2>1, <3>1
  <2>4. CASE ~(handlers[sentOn[n]] > 0 /\ pending[idOf[n]] # NoRequest)
    BY <1>10, <2>1, <2>4 DEF AnswerArrives
  <2> QED BY <2>3, <2>4
<1>11. ASSUME NEW n \in Requests, TimerFires(n)
       PROVE  RequestStep
  BY <1>11 DEF TimerFires, Settled
<1>12. CASE UNCHANGED vars
  BY <1>12 DEF vars
<1> QED
  BY <1>1, <1>2, <1>3, <1>4, <1>5, <1>6, <1>7, <1>8, <1>9, <1>10, <1>11, <1>12 DEF Next, Continues

(* Hence requests stay well formed.                                          *)
LEMMA RequestsWellFormed ==
  ASSUME IInv, [Next]_vars
  PROVE  ReqInv'
<1>0. ReqInv /\ RequestStep
  BY NextIsRequestStep DEF IInv, TypeOK, ReqInv
<1>1. CASE UNCHANGED reqVars
  BY <1>0, <1>1 DEF reqVars, ReqInv, RequestTypes, Ids
<1>2. ASSUME NEW u \in {0, 1}, userSent + u <= MaxUser, ws \in Sockets, Send(u)
      PROVE  ReqInv'
  BY <1>0, <1>2, SendKeepsIds
<1>3. CASE RejectAll /\ owed' \subseteq owed
  BY <1>0, <1>3, RejectAllKeepsIds
<1>4. CASE /\ UNCHANGED <<messageId, issued, userSent, pending, idOf, sentOn, promise, answer>>
           /\ owed' \subseteq owed
  BY <1>0, <1>4 DEF ReqInv, RequestTypes, Ids
<1>5. ASSUME NEW m \in Requests, NEW outcome \in Settled,
             promise[m] = "waiting", Settle(m, outcome),
             answer' \in {answer, [answer EXCEPT ![m] = m]}, owed' \subseteq owed,
             UNCHANGED <<messageId, issued, userSent, idOf, sentOn>>
      PROVE  ReqInv'
  BY <1>0, <1>5, SettleKeepsIds
<1> QED BY <1>0, <1>1, <1>2, <1>3, <1>4, <1>5 DEF RequestStep

(* The reconnect loop keeps its types, whether it goes on or gives up.       *)
LEMMA ReconnectKeepsTypes ==
  ASSUME ReconnectTypes, AttemptReconnect \/ UNCHANGED reconVars, UNCHANGED awaitPromiseChecked
  PROVE  ReconnectTypes'
<1>1. isReconnecting' \in BOOLEAN
  BY Zenon DEF ReconnectTypes, AttemptReconnect, reconVars
<1>2. reconnectAttempts' \in Nat /\ backoffs' \in Nat
  BY DEF ReconnectTypes, AttemptReconnect, reconVars
<1>3. awaitPromiseChecked' \in BOOLEAN
  BY DEF ReconnectTypes
<1> QED BY <1>1, <1>2, <1>3 DEF ReconnectTypes

(* The sockets, their handlers and the places of their doConnect keep their  *)
(* types.                                                                    *)
LEMMA SocketTypesKept ==
  ASSUME IInv, [Next]_vars
  PROVE  SocketTypes' /\ ReconnectTypes'
<1>0. SocketTypes /\ RequestTypes /\ ReconnectTypes
  BY DEF IInv, TypeOK
<1> USE <1>0, BoundsNat DEF SocketTypes, ReconnectTypes, ProcStates, Goto
<1>1. CASE Connect
  BY <1>1 DEF Connect, NewSocket, Sockets
<1>2. CASE Disconnect
  BY <1>2 DEF Disconnect, Silence, procVars, reconVars
<1>3. CASE UserSends
  BY <1>3 DEF UserSends, sockVars, procVars, reconVars
<1>4. CASE BackoffElapsed
  BY <1>4 DEF BackoffElapsed, NewSocket, Sockets
<1>5. ASSUME NEW s \in Sockets, SocketOpens(s)
      PROVE  SocketTypes' /\ ReconnectTypes'
  BY <1>5 DEF SocketOpens, procVars, reconVars
<1>6. ASSUME NEW s \in Sockets, AfterOpen(s)
      PROVE  SocketTypes' /\ ReconnectTypes'
  BY <1>6 DEF AfterOpen, SendAndAwait, Send, reconVars
<1>7. ASSUME NEW s \in Sockets, AfterEnable(s) \/ AfterProbe(s) \/ AfterReenable(s)
      PROVE  SocketTypes' /\ ReconnectTypes'
  BY <1>7 DEF AfterEnable, AfterProbe, AfterReenable, sockVars, reconVars
<1>8. ASSUME NEW s \in Sockets, DetectAwaitPromise(s) \/ Finish(s)
      PROVE  SocketTypes' /\ ReconnectTypes'
  <2>1. CASE DetectAwaitPromise(s)
    BY <2>1 DEF DetectAwaitPromise, SendAndAwait, Send, sockVars, reconVars
  <2>2. CASE Finish(s) /\ caller[s] = "connect"
    BY <2>2 DEF Finish, sockVars
  <2>3. CASE Finish(s) /\ caller[s] # "connect"
    <3>1. isReconnecting' \in BOOLEAN
      BY <2>3, Zenon DEF Finish
    <3>2. awaitPromiseChecked' = awaitPromiseChecked /\ UNCHANGED <<reconnectAttempts, backoffs>>
      BY <2>3 DEF Finish
    <3>3. SocketTypes'
      BY <2>3 DEF Finish, SendAndAwait, Send, sockVars
    <3> QED BY <3>1, <3>2, <3>3
  <2> QED BY <1>8, <2>1, <2>2, <2>3
<1>9. ASSUME NEW s \in Sockets, AfterFail(s)
      PROVE  SocketTypes' /\ ReconnectTypes'
  <2>1. SocketTypes'
    BY <1>9 DEF AfterFail, sockVars
  <2>2. AttemptReconnect \/ UNCHANGED reconVars
    BY <1>9 DEF AfterFail
  <2>3. UNCHANGED awaitPromiseChecked
    BY <1>9 DEF AfterFail
  <2> QED BY <2>1, <2>2, <2>3, ReconnectKeepsTypes
<1>10. ASSUME NEW s \in Sockets, PeerCloses(s) \/ SocketFails(s)
       PROVE  SocketTypes' /\ ReconnectTypes'
  <2>1. SocketTypes'
    BY <1>10 DEF PeerCloses, SocketFails, procVars
  <2>2. AttemptReconnect \/ UNCHANGED reconVars
    BY <1>10 DEF PeerCloses, SocketFails, HandleClose
  <2>3. UNCHANGED awaitPromiseChecked
    BY <1>10 DEF PeerCloses, SocketFails
  <2> QED BY <2>1, <2>2, <2>3, ReconnectKeepsTypes
<1>11. ASSUME NEW n \in Requests, NEW outcome \in Settled, AnswerArrives(n, outcome)
       PROVE  SocketTypes' /\ ReconnectTypes'
  BY <1>11 DEF AnswerArrives, sockVars, procVars, reconVars
<1>12. ASSUME NEW n \in Requests, TimerFires(n)
       PROVE  SocketTypes' /\ ReconnectTypes'
  BY <1>12 DEF TimerFires, sockVars, procVars, reconVars
<1>13. CASE UNCHANGED vars
  BY <1>13 DEF vars, sockVars, procVars, reconVars
<1> QED
  BY <1>1, <1>2, <1>3, <1>4, <1>5, <1>6, <1>7, <1>8, <1>9, <1>10, <1>11, <1>12, <1>13 DEF Next, Continues

-----------------------------------------------------------------------------
(* IInv is an invariant.                                                     *)
THEOREM Inductive == Spec => []IInv
<1>1. Init => IInv
  <2> SUFFICES ASSUME Init PROVE IInv
    OBVIOUS
  <2> USE BoundsNat, BoundsAssumption DEF Init
  <2>1. SocketTypes
    BY DEF SocketTypes, ProcStates
  <2>4. isReconnecting \in BOOLEAN /\ awaitPromiseChecked \in BOOLEAN
    BY Zenon
  <2>5. ReconnectTypes
    BY <2>4 DEF ReconnectTypes
  <2>2. RequestTypes
    BY DEF RequestTypes
  <2>3. Ids
    BY DEF Ids, NoRequest
  <2> QED BY <2>1, <2>2, <2>3, <2>5 DEF IInv, TypeOK
<1>2. IInv /\ [Next]_vars => IInv'
  BY RequestsWellFormed, SocketTypesKept DEF IInv, TypeOK, ReqInv
<1> QED BY <1>1, <1>2, PTL DEF Spec

(* Every variable keeps its type (client.ts:36-48).                          *)
THEOREM TypeCorrect == Spec => []TypeOK
<1>1. IInv => TypeOK
  BY DEF IInv
<1> QED BY <1>1, Inductive, PTL

(* Whoever waits for an answer can still be woken (client.ts:330-364).       *)
THEOREM WaitersCanBeWoken == Spec => []WaitingIsPending
<1>1. IInv => WaitingIsPending
  BY BoundsNat DEF IInv, TypeOK, RequestTypes, Ids, WaitingIsPending, NoRequest
<1> QED BY <1>1, Inductive, PTL

(* A request is only ever settled by the answer to itself                    *)
(* (client.ts:350-364).                                                      *)
THEOREM AnswersDoNotCross == Spec => []NoCrossTalk
<1>1. IInv => NoCrossTalk
  BY DEF IInv, Ids, NoCrossTalk
<1> QED BY <1>1, Inductive, PTL

-----------------------------------------------------------------------------
(* The client implements the request channel: its users see promises that    *)
(* settle at most once, by their own answer or by a local failure.           *)
THEOREM ImplementsChannel == Spec => ChannelSpec
<1>1. Init => Channel!ChInit
  BY DEF Init, Channel!ChInit, NoRequest, Channel!NoAnswer
<1>2. ASSUME IInv, [Next]_vars
      PROVE  [Channel!ChNext]_Channel!chVars
  <2>0. ReqInv /\ RequestStep
    BY <1>2, NextIsRequestStep DEF IInv, TypeOK, ReqInv
  <2>1. CASE UNCHANGED <<promise, answer>>
    BY <2>1 DEF Channel!chVars
  <2>2. ASSUME NEW u \in {0, 1}, Send(u)
        PROVE  Channel!Issue(issued + 1) /\ issued + 1 \in Requests
    BY <2>0, <2>2, BoundsNat DEF Send, Channel!Issue, ReqInv, RequestTypes, Ids
  <2>3. ASSUME RejectAll
        PROVE  Channel!GiveUp({r \in Requests : promise[r] = "waiting"})
    <3>1. \A n \in Requests : IsPending(n) <=> promise[n] = "waiting"
      BY <2>0, BoundsNat DEF ReqInv, RequestTypes, Ids, IsPending, NoRequest
    <3> QED BY <2>3, <3>1 DEF RejectAll, Channel!GiveUp
  <2>4. ASSUME NEW m \in Requests, NEW outcome \in Settled, promise[m] = "waiting",
               Settle(m, outcome), answer' = [answer EXCEPT ![m] = m]
        PROVE  Channel!Answered(m, outcome)
    BY <2>0, <2>4 DEF Settle, Channel!Answered, ReqInv, RequestTypes
  <2>5. ASSUME NEW m \in Requests, promise[m] = "waiting",
               Settle(m, "rejected"), answer' = answer
        PROVE  Channel!GiveUp({m})
    BY <2>0, <2>5 DEF Settle, Channel!GiveUp, ReqInv, RequestTypes
  <2>6. Channel!ChNext \/ UNCHANGED <<promise, answer>>
    <3>1. CASE \E u \in {0, 1} : Send(u)
      BY <2>2, <3>1 DEF Channel!ChNext
    <3>2. CASE RejectAll
      BY <2>3, <3>2 DEF Channel!ChNext
    <3>3. ASSUME NEW m \in Requests, NEW outcome \in Settled, promise[m] = "waiting",
                 Settle(m, outcome),
                 \/ answer' = [answer EXCEPT ![m] = m]
                 \/ answer' = answer /\ outcome = "rejected"
          PROVE  Channel!ChNext
      BY <2>4, <2>5, <3>3 DEF Channel!ChNext, Settled
    <3> QED BY <2>0, <3>1, <3>2, <3>3 DEF RequestStep, reqVars
  <2> QED BY <2>1, <2>6
<1> QED BY <1>1, <1>2, Inductive, PTL DEF Spec, ChannelSpec, Channel!ChSpec

-----------------------------------------------------------------------------
(* Without auto-reconnect there is one socket, and no request elsewhere.     *)

(* Nothing dials but connect(), which finds this.ws empty.                   *)
DialsOnConnect == backoffs = 0 /\ \A s \in Sockets : caller[s] = "connect"

(* Every other socket than this.ws is unused or closed; the handlers are     *)
(* attached as the continuation of the open event runs, and it is the only   *)
(* thing that runs until they are.                                           *)
CurrentSocket ==
  /\ ws <= created
  /\ \A s \in Sockets : s > created =>
       sstate[s] = "unused" /\ handlers[s] = 0 /\ proc[s] = "none"
  /\ \A s \in Sockets : sstate[s] \in {"connecting", "open"} => s = ws
  /\ \A s \in Sockets : sstate[s] = "connecting" =>
       openCbs[s] /\ handlers[s] = 0 /\ proc[s] = "opening"
  /\ \A s \in Sockets : sstate[s] = "open" /\ proc[s] # "opened" => handlers[s] = 1
  /\ \A s \in Sockets : proc[s] = "opened" =>
       /\ sstate[s] = "open" /\ handlers[s] = 0
       /\ \A t \in Sockets : Runnable(t) => t = s

(* Requests go out over a socket that has its handlers; who waits, waits for *)
(* the one that is open.                                                     *)
RequestsOnSocket ==
  /\ \A n \in Requests : sentOn[n] # NoSocket =>
       /\ sstate[sentOn[n]] \in {"open", "closed"}
       /\ sstate[sentOn[n]] = "open" => handlers[sentOn[n]] = 1
  /\ \A n \in Requests : promise[n] = "waiting" =>
       sentOn[n] = ws /\ ws \in Sockets /\ sstate[ws] = "open"

OneSocket == DialsOnConnect /\ CurrentSocket /\ RequestsOnSocket

(* A close of a socket settles whatever waits (client.ts:394-405).           *)
LEMMA CloseSettles ==
  ASSUME ~AutoReconnect, IInv, OneSocket, NEW s \in Sockets, HandleClose(s), s = ws,
         sstate[s] \in {"open", "connecting"}, proc[s] # "opened"
  PROVE  /\ \A n \in Requests : promise'[n] # "waiting"
         /\ sentOn' = sentOn /\ backoffs' = backoffs
<1>1. sentOn' = sentOn /\ backoffs' = backoffs
  BY DEF HandleClose, RejectAll, reconVars
<1>2. CASE sstate[s] = "connecting"
  <2>1. handlers[s] = 0
    BY <1>2 DEF OneSocket, CurrentSocket
  <2>2. \A n \in Requests : promise[n] # "waiting"
    BY <1>2 DEF OneSocket, RequestsOnSocket
  <2>3. UNCHANGED promise
    BY <2>1 DEF HandleClose
  <2> QED BY <1>1, <2>2, <2>3
<1>3. CASE sstate[s] = "open"
  <2>1. handlers[s] = 1
    BY <1>3 DEF OneSocket, CurrentSocket
  <2>2. RejectAll
    BY <2>1 DEF HandleClose
  <2>3. \A n \in Requests : IsPending(n) <=> promise[n] = "waiting"
    BY BoundsNat DEF IInv, TypeOK, RequestTypes, Ids, IsPending, NoRequest
  <2>4. \A n \in Requests : promise'[n] # "waiting"
    BY <2>2, <2>3 DEF RejectAll, IInv, TypeOK, RequestTypes
  <2> QED BY <1>1, <2>4
<1> QED BY <1>2, <1>3

(* Sending over the current socket, when its handlers are attached.          *)
LEMMA SendOnSocket ==
  ASSUME IInv, RequestsOnSocket, NEW u \in {0, 1}, Send(u), CanSend, UNCHANGED <<ws, sstate>>,
         handlers'[ws] = 1, \A s \in Sockets : s # ws => handlers'[s] = handlers[s]
  PROVE  RequestsOnSocket'
<1> DEFINE new == issued + 1
<1>1. /\ new \in Requests /\ ws \in Sockets /\ ws # NoSocket /\ sstate[ws] = "open"
      /\ sentOn' = [sentOn EXCEPT ![new] = ws]
      /\ promise' = [promise EXCEPT ![new] = "waiting"]
  BY BoundsNat DEF Send, CanSend, IInv, TypeOK, SocketTypes
<1>2. /\ sentOn \in [Requests -> Sockets \union {NoSocket}]
      /\ promise \in [Requests -> {"unsent", "waiting"} \union Settled]
  BY DEF IInv, TypeOK, RequestTypes
<1> HIDE DEF new
<1>3. ASSUME NEW n \in Requests, sentOn'[n] # NoSocket
      PROVE  /\ sstate'[sentOn'[n]] \in {"open", "closed"}
             /\ sstate'[sentOn'[n]] = "open" => handlers'[sentOn'[n]] = 1
  <2>1. CASE n = new
    BY <1>1, <1>2, <2>1
  <2>2. CASE n # new
    BY <1>1, <1>2, <1>3, <2>2 DEF RequestsOnSocket
  <2> QED BY <2>1, <2>2
<1>4. ASSUME NEW n \in Requests, promise'[n] = "waiting"
      PROVE  sentOn'[n] = ws' /\ ws' \in Sockets /\ sstate'[ws'] = "open"
  BY <1>1, <1>2, <1>4 DEF RequestsOnSocket
<1> QED BY <1>3, <1>4 DEF RequestsOnSocket

LEMMA OneSocketStarts == Init => OneSocket
<1> SUFFICES ASSUME Init PROVE OneSocket
  OBVIOUS
<1>1. DialsOnConnect
  BY DEF Init, DialsOnConnect
<1>2. CurrentSocket
  BY DEF Init, CurrentSocket, NoSocket
<1>3. RequestsOnSocket
  BY DEF Init, RequestsOnSocket
<1> QED BY <1>1, <1>2, <1>3 DEF OneSocket

LEMMA OneSocketKept ==
  ASSUME ~AutoReconnect, IInv, OneSocket, [Next]_vars
  PROVE  OneSocket'
<1> SocketTypes /\ RequestTypes /\ Ids /\ ReconnectTypes
  BY DEF IInv, TypeOK
<1> DialsOnConnect /\ CurrentSocket /\ RequestsOnSocket
  BY DEF OneSocket
<1>1. CASE Connect
  <2> DEFINE s == created + 1
  <2>1. /\ s \in Sockets /\ ws = NoSocket /\ ws' = s /\ Quiescent
        /\ created' = s /\ sstate' = [sstate EXCEPT ![s] = "connecting"]
        /\ openCbs' = [openCbs EXCEPT ![s] = TRUE]
        /\ caller' = [caller EXCEPT ![s] = "connect"] /\ handlers' = handlers
        /\ proc' = [proc EXCEPT ![s] = "opening"] /\ UNCHANGED <<reqVars, backoffs>>
    BY <1>1 DEF Connect, NewSocket, Goto
  <2> created \in Nat /\ \A t \in Sockets : t \in Nat
    BY BoundsNat, BoundsAssumption DEF SocketTypes
  <2>2. sstate[s] = "unused" /\ handlers[s] = 0
    BY <2>1 DEF CurrentSocket
  <2>3. \A t \in Sockets : sstate[t] \notin {"connecting", "open"} /\ proc[t] # "opened"
    BY <2>1, BoundsNat DEF CurrentSocket
  <2>4. DialsOnConnect'
    BY <2>1 DEF DialsOnConnect, SocketTypes
  <2>5. CurrentSocket'
    BY <2>1, <2>2, <2>3 DEF CurrentSocket, SocketTypes
  <2>6. \A n \in Requests : promise[n] # "waiting"
    BY <2>1, BoundsNat DEF RequestsOnSocket
  <2>7. RequestsOnSocket'
    BY <2>1, <2>2, <2>6 DEF RequestsOnSocket, SocketTypes, RequestTypes, reqVars
  <2> QED BY <2>4, <2>5, <2>7 DEF OneSocket
<1>2. CASE Disconnect
  <2>1. /\ Quiescent /\ ws \in Sockets /\ ws' = NoSocket /\ RejectAll /\ Silence(ws)
        /\ UNCHANGED <<created, caller, proc, awaits, backoffs>>
    BY <1>2 DEF Disconnect, SocketTypes, procVars, reconVars
  <2>2. \A t \in Sockets : proc[t] # "opened"
    BY <2>1 DEF Quiescent, Runnable
  <2>3. DialsOnConnect'
    BY <2>1 DEF DialsOnConnect
  <2>4. CurrentSocket'
    <3>1. ws' <= created'
      BY <2>1, BoundsNat DEF SocketTypes, NoSocket
    <3>2. ASSUME NEW t \in Sockets, t > created
          PROVE  t # ws
      BY <3>2, BoundsNat DEF CurrentSocket, SocketTypes
    <3> QED BY <2>1, <2>2, <3>1, <3>2 DEF Silence, CurrentSocket, SocketTypes
  <2>5. \A n \in Requests : IsPending(n) <=> promise[n] = "waiting"
    BY BoundsNat DEF RequestTypes, Ids, IsPending, NoRequest
  <2>6. \A n \in Requests : promise'[n] # "waiting"
    BY <2>1, <2>5 DEF RejectAll, RequestTypes
  <2>7. sentOn' = sentOn
    BY <2>1 DEF RejectAll
  <2>8. RequestsOnSocket'
    BY <2>1, <2>6, <2>7 DEF Silence, RequestsOnSocket, SocketTypes, RequestTypes
  <2> QED BY <2>3, <2>4, <2>8 DEF OneSocket
<1>3. CASE UserSends
  <2>1. Quiescent /\ CanSend /\ Send(1) /\ UNCHANGED <<sockVars, procVars, reconVars>>
    BY <1>3 DEF UserSends
  <2>2. \A t \in Sockets : proc[t] # "opened"
    BY <2>1 DEF Quiescent, Runnable
  <2>3. handlers[ws] = 1
    BY <2>1, <2>2 DEF CanSend, CurrentSocket, SocketTypes
  <2>4. RequestsOnSocket'
    BY <2>1, <2>3, SendOnSocket DEF sockVars
  <2>5. DialsOnConnect' /\ CurrentSocket'
    BY <2>1, <2>2 DEF DialsOnConnect, CurrentSocket, sockVars, procVars, reconVars
  <2> QED BY <2>4, <2>5 DEF OneSocket
<1>4. CASE BackoffElapsed
  BY <1>4 DEF BackoffElapsed, DialsOnConnect
<1>5. ASSUME NEW s \in Sockets, SocketOpens(s)
      PROVE  OneSocket'
  <2>1. /\ Quiescent /\ sstate[s] = "connecting" /\ sstate' = [sstate EXCEPT ![s] = "open"]
        /\ openCbs' = [openCbs EXCEPT ![s] = FALSE] /\ UNCHANGED <<ws, created, handlers, caller>>
        /\ UNCHANGED <<reqVars, backoffs>>
    BY <1>5 DEF SocketOpens, reconVars
  <2>2. /\ s = ws /\ handlers[s] = 0 /\ openCbs[s]
    BY <2>1 DEF CurrentSocket
  <2>3. proc' = [proc EXCEPT ![s] = "opened"] /\ awaits' = [awaits EXCEPT ![s] = NoRequest]
    BY <1>5, <2>2 DEF SocketOpens, Goto
  <2>4. \A t \in Sockets : ~Runnable(t) /\ proc[t] # "opened"
    BY <2>1 DEF Quiescent, Runnable
  <2>5. \A t \in Sockets : t # s => ~Runnable(t)'
    BY <2>1, <2>3, <2>4 DEF Runnable, SocketTypes, reqVars
  <2>6. CurrentSocket'
    BY <2>1, <2>2, <2>3, <2>4, <2>5 DEF CurrentSocket, SocketTypes
  <2>7. RequestsOnSocket'
    BY <2>1 DEF RequestsOnSocket, SocketTypes, RequestTypes, reqVars
  <2> QED BY <2>1, <2>6, <2>7 DEF OneSocket, DialsOnConnect
<1>6. ASSUME NEW s \in Sockets, AfterOpen(s)
      PROVE  OneSocket'
  <2>1. /\ proc[s] = "opened" /\ s = ws /\ sstate[s] = "open" /\ handlers[s] = 0
        /\ CanSend /\ \A t \in Sockets : t # s => proc[t] # "opened"
    BY <1>6, BoundsNat DEF AfterOpen, CurrentSocket, CanSend, Runnable
  <2>2. /\ SendAndAwait(s, "enabling") /\ UNCHANGED <<ws, created, sstate, openCbs, caller, backoffs>>
        /\ handlers' = [t \in Sockets |-> IF t = ws THEN handlers[t] + 1 ELSE handlers[t]]
    BY <1>6, <2>1 DEF AfterOpen, reconVars
  <2>3. handlers'[s] = 1 /\ \A t \in Sockets : t # s => handlers'[t] = handlers[t]
    BY <2>1, <2>2
  <2>4. proc' = [proc EXCEPT ![s] = "enabling"]
    BY <2>2 DEF SendAndAwait
  <2>5. CurrentSocket'
    BY <2>1, <2>2, <2>3, <2>4 DEF CurrentSocket, SocketTypes
  <2>6. RequestsOnSocket'
    BY <2>1, <2>2, <2>3, SendOnSocket DEF SendAndAwait
  <2> QED BY <2>2, <2>5, <2>6 DEF OneSocket, DialsOnConnect
<1>7. ASSUME NEW s \in Sockets, Runnable(s), proc[s] # "opened", proc[s] # "none", proc[s] # "opening",
             UNCHANGED <<sockVars, backoffs>>,
             NEW w \in ProcStates \ {"opened"}, proc' = [proc EXCEPT ![s] = w],
             \/ UNCHANGED reqVars
             \/ CanSend /\ Send(0)
      PROVE  OneSocket'
  <2>1. \A t \in Sockets : proc[t] # "opened"
    BY <1>7 DEF CurrentSocket
  <2>2. CurrentSocket'
    BY <1>7, <2>1 DEF CurrentSocket, SocketTypes, sockVars
  <2>3. RequestsOnSocket'
    <3>1. CASE UNCHANGED reqVars
      BY <1>7, <3>1 DEF RequestsOnSocket, sockVars, reqVars
    <3>2. CASE CanSend /\ Send(0)
      <4>1. handlers[ws] = 1
        BY <2>1, <3>2 DEF CanSend, CurrentSocket, SocketTypes
      <4> QED BY <1>7, <3>2, <4>1, SendOnSocket DEF sockVars
    <3> QED BY <1>7, <3>1, <3>2
  <2> QED BY <1>7, <2>2, <2>3 DEF OneSocket, DialsOnConnect, sockVars
<1>8. ASSUME NEW s \in Sockets, AfterEnable(s) \/ AfterProbe(s) \/ AfterReenable(s)
      PROVE  OneSocket'
  <2> DEFINE w == proc'[s]
  <2>1. /\ Runnable(s) /\ proc[s] \in {"enabling", "probing", "reenabling"}
        /\ UNCHANGED <<sockVars, backoffs, reqVars>>
    BY <1>8 DEF AfterEnable, AfterProbe, AfterReenable, Runnable, reconVars
  <2>2. w \in ProcStates \ {"opened"} /\ proc' = [proc EXCEPT ![s] = w]
    BY <1>8 DEF AfterEnable, AfterProbe, AfterReenable, Goto, SocketTypes, ProcStates
  <2> HIDE DEF w
  <2> QED BY <1>7, <2>1, <2>2
<1>9. ASSUME NEW s \in Sockets, DetectAwaitPromise(s)
      PROVE  OneSocket'
  <2> DEFINE w == proc'[s]
  <2>1. /\ Runnable(s) /\ proc[s] = "enabled" /\ UNCHANGED <<sockVars, backoffs>>
    BY <1>9 DEF DetectAwaitPromise, Runnable, reconVars
  <2>2. w \in ProcStates \ {"opened"} /\ proc' = [proc EXCEPT ![s] = w]
    BY <1>9 DEF DetectAwaitPromise, Goto, SendAndAwait, SocketTypes, ProcStates
  <2>3. UNCHANGED reqVars \/ (CanSend /\ Send(0))
    BY <1>9 DEF DetectAwaitPromise, SendAndAwait
  <2> HIDE DEF w
  <2> QED BY <1>7, <2>1, <2>2, <2>3
<1>10. ASSUME NEW s \in Sockets, Finish(s) \/ AfterFail(s)
       PROVE  OneSocket'
  <2> DEFINE w == proc'[s]
  <2> caller[s] = "connect"
    BY DEF DialsOnConnect
  <2>1. /\ Runnable(s) /\ proc[s] \in {"ready", "failing"}
        /\ UNCHANGED <<sockVars, backoffs, reqVars>>
    BY <1>10 DEF Finish, AfterFail, Runnable, reconVars
  <2>2. w \in ProcStates \ {"opened"} /\ proc' = [proc EXCEPT ![s] = w]
    BY <1>10 DEF Finish, AfterFail, Goto, SocketTypes, ProcStates
  <2> HIDE DEF w
  <2> QED BY <1>7, <2>1, <2>2
<1>11. ASSUME NEW s \in Sockets, PeerCloses(s) \/ SocketFails(s)
       PROVE  OneSocket'
  <2>1. /\ Quiescent /\ sstate[s] \in {"open", "connecting"} /\ HandleClose(s)
        /\ sstate' = [sstate EXCEPT ![s] = "closed"] /\ UNCHANGED <<ws, created, handlers, caller>>
        /\ openCbs' \in {openCbs, [openCbs EXCEPT ![s] = FALSE]}
        /\ proc' \in {proc, [proc EXCEPT ![s] = "failing"]}
    BY <1>11 DEF PeerCloses, SocketFails, Goto, procVars
  <2>2. s = ws /\ \A t \in Sockets : proc[t] # "opened"
    BY <2>1 DEF CurrentSocket, Quiescent, Runnable
  <2>3. (\A n \in Requests : promise'[n] # "waiting") /\ sentOn' = sentOn /\ backoffs' = backoffs
    BY <2>1, <2>2, CloseSettles
  <2>4. \A t \in Sockets : proc'[t] # "opened" /\ (t # s => proc'[t] = proc[t])
    BY <2>1, <2>2 DEF SocketTypes
  <2>5. \A t \in Sockets : t # s => openCbs'[t] = openCbs[t]
    BY <2>1 DEF SocketTypes
  <2>6. sstate'[s] = "closed" /\ \A t \in Sockets : t # s => sstate'[t] = sstate[t]
    BY <2>1 DEF SocketTypes
  <2>7. ~(s > created)
    BY <2>1 DEF CurrentSocket
  <2>8. CurrentSocket'
    BY <2>1, <2>4, <2>5, <2>6, <2>7 DEF CurrentSocket
  <2>9. RequestsOnSocket'
    BY <2>1, <2>3, <2>6 DEF RequestsOnSocket, RequestTypes
  <2> QED BY <2>1, <2>3, <2>8, <2>9 DEF OneSocket, DialsOnConnect
<1>12. ASSUME UNCHANGED <<sockVars, procVars, reconVars, sentOn>>,
              \A n \in Requests : promise'[n] = "waiting" => promise[n] = "waiting",
              Quiescent \/ UNCHANGED promise
       PROVE  OneSocket'
  <2>1. CurrentSocket'
    <3>1. CASE Quiescent
      <4>1. \A t \in Sockets : proc[t] # "opened"
        BY <3>1 DEF Quiescent, Runnable
      <4> QED BY <1>12, <4>1 DEF CurrentSocket, sockVars, procVars
    <3>2. CASE UNCHANGED promise
      BY <1>12, <3>2 DEF CurrentSocket, Runnable, sockVars, procVars
    <3> QED BY <1>12, <3>1, <3>2
  <2> QED BY <1>12, <2>1 DEF OneSocket, DialsOnConnect, RequestsOnSocket, sockVars, reconVars
<1>13. ASSUME NEW n \in Requests, NEW outcome \in Settled, AnswerArrives(n, outcome)
       PROVE  OneSocket'
  <2>1. \A k \in Requests : promise'[k] = "waiting" => promise[k] = "waiting"
    BY <1>13, BoundsNat DEF AnswerArrives, Settle, Settled, RequestTypes
  <2> QED BY <1>12, <1>13, <2>1 DEF AnswerArrives
<1>14. ASSUME NEW n \in Requests, TimerFires(n)
       PROVE  OneSocket'
  <2>1. \A k \in Requests : promise'[k] = "waiting" => promise[k] = "waiting"
    BY <1>14 DEF TimerFires, Settle, RequestTypes
  <2> QED BY <1>12, <1>14, <2>1 DEF TimerFires
<1>15. CASE UNCHANGED vars
  BY <1>12, <1>15 DEF vars, reqVars
<1> QED
  BY <1>1, <1>2, <1>3, <1>4, <1>5, <1>6, <1>8, <1>9, <1>10, <1>11, <1>13, <1>14, <1>15
     DEF Next, Continues

LEMMA OneSocketAlways ==
  ASSUME ~AutoReconnect
  PROVE  Spec => [](IInv /\ OneSocket)
<1>1. Init => OneSocket
  BY OneSocketStarts
<1>2. IInv /\ OneSocket /\ [Next]_vars => OneSocket'
  BY OneSocketKept
<1> QED BY <1>1, <1>2, Inductive, PTL DEF Spec

(* The client that does not reconnect has one WebSocket open at most         *)
(* (device.ts:284).                                                          *)
THEOREM OneLiveSocket ==
  ASSUME ~AutoReconnect
  PROVE  Spec => []SingleLiveSocket
<1>1. IInv /\ OneSocket => SingleLiveSocket
  <2> SUFFICES ASSUME OneSocket PROVE Cardinality(Live) <= 1
    BY DEF SingleLiveSocket
  <2>1. Live \subseteq {ws}
    BY DEF Live, OneSocket, CurrentSocket
  <2>2. IsFiniteSet({ws}) /\ Cardinality({ws}) = 1
    BY FS_Singleton
  <2>3. Cardinality(Live) <= Cardinality({ws})
    BY <2>1, <2>2, FS_Subset
  <2> QED BY <2>2, <2>3
<1> QED BY <1>1, OneSocketAlways, PTL

(* Nobody waits for an answer over a connection that is gone, or whose       *)
(* handlers would not hear of its end (client.ts:394-405, 98-104).           *)
THEOREM LossIsReported == Spec => []NoWaitOnDeadSocket
<1>1. ASSUME ~AutoReconnect
      PROVE  IInv /\ OneSocket => NoWaitOnDeadSocket
  BY BoundsNat DEF NoWaitOnDeadSocket, OneSocket, RequestsOnSocket, CanSend
<1>2. CASE ~AutoReconnect
  BY <1>1, <1>2, OneSocketAlways, PTL
<1>3. CASE AutoReconnect
  <2>1. NoWaitOnDeadSocket
    BY <1>3 DEF NoWaitOnDeadSocket
  <2> QED BY <2>1, PTL
<1> QED BY <1>2, <1>3

(* The handlers of a socket that requests have gone over are attached once,  *)
(* so that an event is delivered once (client.ts:90-94).                     *)
THEOREM EventsOnce ==
  ASSUME ~AutoReconnect
  PROVE  Spec => []EventsHeardOnce
<1>1. IInv /\ OneSocket => EventsHeardOnce
  BY BoundsNat DEF EventsHeardOnce, Live, OneSocket, RequestsOnSocket
<1> QED BY <1>1, OneSocketAlways, PTL
=============================================================================
