-------------------------- MODULE XCTestTouchProofs --------------------------
(* What is proved of touch input on iOS, for any commands and any number of  *)
(* backends, commands and commands that wait at a time, and of the gestures  *)
(* of the pointer, for any places, easings, durations and holds.             *)
(*                                                                           *)
(* IInv says of the client that ids and requests fit (IdsFit, as Ids in      *)
(* CdpClientProofs, but every backend counts its own), and where the wire of *)
(* each backend is (Wiring); of the companion that it handles what was sent  *)
(* by the same backend and answers for what it did (Frames, Threads); and of *)
(* the path it buffers for all sessions, how far it may be from what one of  *)
(* them asked for (Paths).                                                   *)
(*                                                                           *)
(* GeInv says that what a gesture dispatched is the beginning of a sequence  *)
(* of events in the order of their times that has the events of each pointer *)
(* in their own order, and what is planned the rest of it (Course).          *)
EXTENDS MCTouch, FiniteSetTheorems, SequenceTheorems, TLAPS

-----------------------------------------------------------------------------
(* The client.                                                               *)

RequestTypes ==
  /\ nextId \in [Backends -> 1..(MaxRequests + 1)]
  /\ pending \in [Backends -> [Requests -> Requests \union {NoRequest}]]
  /\ issued \in 0..MaxRequests
  /\ of \in [Requests -> Backends \union {NoBackend}]
  /\ kind \in [Requests -> Commands \union {"hello"}]
  /\ idOf \in [Requests -> 0..MaxRequests]
  /\ promise \in [Requests -> {"unsent", "waiting", "resolved", "rejected"}]
  /\ answer \in [Requests -> Requests \union {NoRequest}]

(* What is pending waits, under the id it has among its backend's requests.  *)
IdsFit ==
  /\ \A b \in Backends : nextId[b] <= issued + 1
  /\ \A n \in Requests : promise[n] = "unsent" <=> n > issued
  /\ \A n \in Requests :
       n <= issued => of[n] \in Backends /\ idOf[n] \in Requests /\ idOf[n] < nextId[of[n]]
  /\ \A m, n \in Requests :
       m <= issued /\ n <= issued /\ of[m] = of[n] /\ idOf[m] = idOf[n] => m = n
  /\ \A b \in Backends, i \in Requests :
       pending[b][i] # NoRequest =>
         /\ of[pending[b][i]] = b /\ idOf[pending[b][i]] = i
         /\ promise[pending[b][i]] = "waiting"
  /\ \A n \in Requests : promise[n] = "waiting" => pending[of[n]][idOf[n]] = n
  /\ \A n \in Requests : answer[n] \in {NoRequest, n}

ReqInv == RequestTypes /\ IdsFit

WireTypes ==
  /\ init \in [Backends -> {"none", "dialing", "greeting", "ready", "rejected"}]
  /\ disposed \in [Backends -> BOOLEAN] /\ socket \in [Backends -> BOOLEAN]
  /\ wire \in [Backends -> {"none", "connecting", "open", "broken", "closed"}]

Wiring ==
  /\ WireTypes
  /\ \A b \in Backends :
       /\ socket[b] <=> wire[b] \in {"open", "broken"}
       /\ disposed[b] => wire[b] = "closed"
       /\ wire[b] = "none" <=> init[b] = "none"
       /\ wire[b] = "connecting" <=> init[b] = "dialing"
       /\ init[b] # "none" => \A c \in Backends : c < b => disposed[c]
  /\ \A n \in Requests : promise[n] = "waiting" => socket[of[n]]

-----------------------------------------------------------------------------
(* The companion.                                                            *)

Mine(b) == {n \in Requests : n <= issued /\ of[n] = b}

(* A response says of a tap or an up only that it is done.                   *)
Responses(b) ==
  {r \in [to : Requests, ok : BOOLEAN] :
     /\ r.to \in Mine(b)
     /\ r.ok /\ kind[r.to] \in {"tap", "up"} => r.to \in done}

Frames ==
  /\ inbox \in [Backends -> Seq(Requests)]
  /\ outbox \in [Backends -> Seq([to : Requests, ok : BOOLEAN])]
  /\ \A b \in Backends :
       /\ inbox[b] \in Seq(Mine(b))
       /\ outbox[b] \in Seq(Responses(b))
       /\ wire[b] \in {"none", "connecting"} => inbox[b] = <<>>

Threads ==
  /\ session \in [Backends -> {"idle", "waiting", "injecting"}]
  /\ current \in [Backends -> Requests \union {NoRequest}]
  /\ done \subseteq Requests
  /\ \A b \in Backends :
       /\ session[b] = "injecting" <=> main = b
       /\ session[b] = "idle" <=> current[b] = NoRequest
       /\ current[b] # NoRequest => current[b] \in Mine(b) /\ kind[current[b]] \in {"tap", "up"}
       /\ wire[b] \in {"none", "connecting"} => current[b] = NoRequest

-----------------------------------------------------------------------------
(* The path.                                                                 *)

PathTypes ==
  /\ path \in Seq(Requests) /\ asked \in [Backends -> Seq(Requests)]
  /\ injected \in [Requests -> Points \union {<<>>}]
  /\ meant \in [Requests -> Points \union {<<>>}]
  /\ crowded \subseteq Requests

(* The session's path begins with a down that it took up alone.              *)
BeganAlone(b) ==
  asked[b] # <<>> /\ kind[asked[b][1]] = "down" /\ asked[b][1] \notin crowded

(* The path is that of session b, or b has nothing to come that could tell.  *)
PathIs(b) == path = asked[b] \/ (wire[b] # "open" /\ Work(b) \subseteq crowded)

PathOK(b) ==
  /\ wire[b] \in {"none", "connecting"} => asked[b] = <<>>
  /\ asked[b] # <<>> => asked[b][1] <= issued
  /\ BeganAlone(b) => PathIs(b) /\ \A c \in Backends : c < b => Work(c) = {}
  /\ session[b] = "injecting" /\ kind[current[b]] = "up" => asked[b] = <<>>
  /\ current[b] # NoRequest => \A c \in Backends : c < b => Work(c) \subseteq crowded

MeantOK(n) ==
  /\ injected[n] # <<>> => n <= issued /\ kind[n] = "up"
  /\ meant[n] # <<>> => meant[n][1] <= issued
  /\ meant[n] # <<>> /\ kind[meant[n][1]] = "down" /\ {n, meant[n][1]} \intersect crowded = {}
       => injected[n] = meant[n]

Paths ==
  /\ PathTypes
  /\ \A b \in Backends : PathOK(b)
  /\ \A n \in Requests : MeantOK(n)

IInv == ReqInv /\ Wiring /\ Frames /\ Threads /\ Paths /\ ResolvedMeansInjected

-----------------------------------------------------------------------------
LEMMA Bounds ==
  /\ MaxBackends \in Nat /\ MaxRequests \in Nat
  /\ Backends \subseteq Nat \ {NoBackend}
  /\ Requests = 1..MaxRequests /\ NoRequest \notin Requests
BY BoundsAssumption DEF MaxRequests, Backends, Requests, NoBackend, NoRequest

-----------------------------------------------------------------------------
(* What an action does to the requests: nothing, or one of three things.     *)
RequestStep ==
  \/ UNCHANGED <<nextId, pending, requestVars>>
  \/ \E b \in Backends, k \in Commands \union {"hello"}, live \in BOOLEAN : Request(b, k, live)
  \/ \E b \in Backends : FailAll(b) /\ UNCHANGED nextId
  \/ \E m \in Requests, outcome \in {"resolved", "rejected"} :
       /\ promise[m] = "waiting"
       /\ Settle(of[m], m, outcome)
       /\ \/ answer' = answer /\ outcome = "rejected"
          \/ answer' = [answer EXCEPT ![m] = m]
       /\ UNCHANGED <<nextId, issued, of, kind, idOf>>

(* What is pending under the id of a request of the same backend is that     *)
(* request.                                                                  *)
LEMMA PendingUnderId ==
  ASSUME ReqInv, NEW n \in Requests, n <= issued, NEW m \in Requests,
         pending[of[n]][idOf[n]] = m
  PROVE  m = n /\ promise[m] = "waiting"
<1>1. of[n] \in Backends /\ idOf[n] \in Requests
  BY DEF ReqInv, IdsFit
<1>0. pending[of[n]][idOf[n]] # NoRequest
  BY Bounds
<1>2. of[m] = of[n] /\ idOf[m] = idOf[n] /\ promise[m] = "waiting"
  BY <1>0, <1>1 DEF ReqInv, IdsFit
<1>3. m <= issued
  BY <1>2, Bounds DEF ReqInv, RequestTypes, IdsFit
<1> QED BY <1>2, <1>3 DEF ReqInv, IdsFit

(* A response finds the request it answers, or nobody.                       *)
LEMMA ResponseFindsRequest ==
  ASSUME ReqInv, NEW b \in Backends, NEW r \in Responses(b)
  PROVE  LET m == pending[b][idOf[r.to]]
         IN m \in {NoRequest, r.to} /\ (m # NoRequest => promise[m] = "waiting" /\ of[m] = b)
<1> DEFINE m == pending[b][idOf[r.to]]
<1>1. r.to \in Requests /\ r.to <= issued /\ of[r.to] = b
  BY DEF Responses, Mine
<1>2. m \in Requests \union {NoRequest}
  BY <1>1 DEF ReqInv, RequestTypes, IdsFit
<1>3. CASE m = NoRequest
  BY <1>3
<1>4. CASE m \in Requests
  BY <1>1, <1>4, PendingUnderId
<1> QED BY <1>2, <1>3, <1>4

LEMMA NextIsRequestStep ==
  ASSUME IInv, [Next]_vars
  PROVE  RequestStep
<1> USE DEF RequestStep
<1>1. CASE UNCHANGED vars
  BY <1>1 DEF vars, clientVars
<1>2. ASSUME NEW b \in Backends, CompanionStep(b) PROVE RequestStep
  BY <1>2 DEF CompanionStep, Refuses, Greets, Buffers, Hands, MainStarts, MainEnds, clientVars
<1>3. ASSUME NEW n \in Requests, TimerFires(n) PROVE RequestStep
  BY <1>3 DEF TimerFires
<1>4. ASSUME NEW b \in Backends, ResponseArrives(b) PROVE RequestStep
  <2> DEFINE r == Head(outbox[b])
             m == pending[b][idOf[r.to]]
  <2>1. CASE m = NoRequest
    BY <1>4, <2>1 DEF ResponseArrives, requestVars
  <2>2. CASE m # NoRequest
    <3>0. outbox[b] \in Seq(Responses(b)) /\ outbox[b] # <<>>
      BY <1>4 DEF IInv, Frames, ResponseArrives
    <3>1. r \in Responses(b)
      BY <3>0
    <3>2. r.to \in Requests
      BY <3>1 DEF Responses
    <3>3. m = r.to /\ promise[m] = "waiting" /\ of[m] = b
      BY <2>2, <3>1, ResponseFindsRequest DEF IInv
    <3> QED BY <1>4, <2>2, <3>2, <3>3 DEF ResponseArrives
  <2> QED BY <2>1, <2>2
<1>5. ASSUME NEW b \in Backends, Greeted(b) \/ Dispose(b) PROVE RequestStep
  BY <1>5 DEF Greeted, Dispose, Close
<1>6. ASSUME NEW b \in Backends, Opens(b) PROVE RequestStep
  BY <1>6 DEF Opens
<1>7. ASSUME NEW b \in Backends, NEW k \in Commands, Command(b, k) PROVE RequestStep
  BY <1>7 DEF Command
<1>8. ASSUME NEW b \in Backends, Dial(b) \/ DialFails(b) \/ Breaks(b) PROVE RequestStep
  BY <1>8 DEF Dial, DialFails, Breaks
<1>9. ASSUME NEW b \in Backends, GarbageArrives(b) \/ CloseEvent(b) PROVE RequestStep
  BY <1>9 DEF GarbageArrives, CloseEvent
<1> QED BY <1>1, <1>2, <1>3, <1>4, <1>5, <1>6, <1>7, <1>8, <1>9 DEF Next, ClientStep

LEMMA RequestKeepsIds ==
  ASSUME ReqInv, NEW b \in Backends, NEW k \in Commands \union {"hello"}, NEW live \in BOOLEAN,
         Request(b, k, live)
  PROVE  ReqInv'
<1> DEFINE n == issued + 1
<1>1. /\ n \in Requests /\ nextId[b] \in Requests /\ nextId[b] <= n /\ issued' = n
      /\ \A i \in Requests : pending[b][i] # NoRequest => i < nextId[b]
  BY Bounds DEF Request, ReqInv, RequestTypes, IdsFit
<1>2. RequestTypes'
  <2>1. /\ nextId' \in [Backends -> 1..(MaxRequests + 1)] /\ issued' \in 0..MaxRequests
        /\ idOf' \in [Requests -> 0..MaxRequests]
    BY <1>1, Bounds DEF Request, ReqInv, RequestTypes
  <2>2. pending' \in [Backends -> [Requests -> Requests \union {NoRequest}]]
    BY <1>1 DEF Request, ReqInv, RequestTypes
  <2> QED BY <1>1, <2>1, <2>2 DEF Request, ReqInv, RequestTypes
<1>3. IdsFit'
  <2> USE <1>1, Bounds DEF Request, ReqInv, RequestTypes, IdsFit
  <2>1. \A c \in Backends : nextId'[c] <= issued' + 1
    OBVIOUS
  <2>2. \A m \in Requests : promise'[m] = "unsent" <=> m > issued'
    OBVIOUS
  <2>3. \A m \in Requests :
          m <= issued' => of'[m] \in Backends /\ idOf'[m] \in Requests /\ idOf'[m] < nextId'[of'[m]]
    OBVIOUS
  <2>4. \A l, m \in Requests :
          l <= issued' /\ m <= issued' /\ of'[l] = of'[m] /\ idOf'[l] = idOf'[m] => l = m
    OBVIOUS
  <2>5. \A c \in Backends, i \in Requests :
          pending'[c][i] # NoRequest =>
            /\ of'[pending'[c][i]] = c /\ idOf'[pending'[c][i]] = i
            /\ promise'[pending'[c][i]] = "waiting"
    OBVIOUS
  <2>6. \A m \in Requests : promise'[m] = "waiting" => pending'[of'[m]][idOf'[m]] = m
    OBVIOUS
  <2> QED BY <2>1, <2>2, <2>3, <2>4, <2>5, <2>6
<1> QED BY <1>2, <1>3 DEF ReqInv

LEMMA FailAllKeepsIds ==
  ASSUME ReqInv, NEW b \in Backends, FailAll(b), UNCHANGED nextId
  PROVE  ReqInv' /\ \A n \in Requests : promise'[n] = "waiting" => promise[n] = "waiting" /\ of[n] # b
<1>1. \A n \in Requests : IsPending(b, n) <=> promise[n] = "waiting" /\ of[n] = b
  <2>1. ASSUME NEW n \in Requests, promise[n] = "waiting", of[n] = b PROVE IsPending(b, n)
    <3>1. n <= issued
      BY <2>1, Bounds DEF ReqInv, RequestTypes, IdsFit
    <3> QED BY <2>1, <3>1 DEF ReqInv, IdsFit, IsPending
  <2>2. ASSUME NEW n \in Requests, NEW i \in Requests, pending[b][i] = n
        PROVE  promise[n] = "waiting" /\ of[n] = b
    BY <2>2, Bounds DEF ReqInv, IdsFit
  <2> QED BY <2>1, <2>2 DEF IsPending
<1>2. RequestTypes'
  BY DEF FailAll, ReqInv, RequestTypes
<1>3. IdsFit'
  BY <1>1, Bounds DEF FailAll, ReqInv, RequestTypes, IdsFit
<1>4. \A n \in Requests : promise'[n] = "waiting" => promise[n] = "waiting" /\ of[n] # b
  BY <1>1 DEF FailAll
<1> QED BY <1>2, <1>3, <1>4 DEF ReqInv

LEMMA SettleKeepsIds ==
  ASSUME ReqInv, NEW m \in Requests, NEW outcome \in {"resolved", "rejected"},
         promise[m] = "waiting", Settle(of[m], m, outcome),
         answer' = answer \/ answer' = [answer EXCEPT ![m] = m],
         UNCHANGED <<nextId, issued, of, kind, idOf>>
  PROVE  ReqInv'
<1>1. of[m] \in Backends /\ idOf[m] \in Requests /\ m <= issued
  BY Bounds DEF ReqInv, RequestTypes, IdsFit
<1>2. RequestTypes'
  BY <1>1 DEF Settle, ReqInv, RequestTypes
<1>3. IdsFit'
  BY <1>1, Bounds DEF Settle, ReqInv, RequestTypes, IdsFit
<1> QED BY <1>2, <1>3 DEF ReqInv

Grows ==
  \A n \in Requests : n <= issued => n <= issued' /\ kind'[n] = kind[n] /\ of'[n] = of[n]

(* Requests stay well formed, and keep their kind and their backend.         *)
LEMMA RequestsWellFormed ==
  ASSUME ReqInv, RequestStep
  PROVE  Grows /\ ReqInv'
<1>1. CASE UNCHANGED <<nextId, pending, requestVars>>
  BY <1>1, Bounds DEF ReqInv, RequestTypes, IdsFit, requestVars, Grows
<1>2. ASSUME NEW b \in Backends, NEW k \in Commands \union {"hello"}, NEW live \in BOOLEAN,
             Request(b, k, live)
      PROVE  Grows /\ ReqInv'
  <2>1. Grows
    BY <1>2, Bounds DEF Request, ReqInv, RequestTypes, Grows
  <2> QED BY <1>2, <2>1, RequestKeepsIds
<1>3. ASSUME NEW b \in Backends, FailAll(b), UNCHANGED nextId
      PROVE  Grows /\ ReqInv'
  <2>1. Grows
    BY <1>3, Bounds DEF FailAll, ReqInv, RequestTypes, Grows
  <2> QED BY <1>3, <2>1, FailAllKeepsIds
<1>4. ASSUME NEW m \in Requests, NEW outcome \in {"resolved", "rejected"},
             promise[m] = "waiting", Settle(of[m], m, outcome),
             answer' = answer \/ answer' = [answer EXCEPT ![m] = m],
             UNCHANGED <<nextId, issued, of, kind, idOf>>
      PROVE  Grows /\ ReqInv'
  <2>1. Grows
    BY <1>4, Bounds DEF ReqInv, RequestTypes, Grows
  <2> QED BY <1>4, <2>1, SettleKeepsIds
<1> QED BY <1>1, <1>2, <1>3, <1>4 DEF RequestStep

-----------------------------------------------------------------------------
(* Wires. A step that settles requests, and leaves the wires alone, keeps    *)
(* what Wiring says of who waits.                                            *)
LEMMA SettlingKeepsWiring ==
  ASSUME Wiring, UNCHANGED <<init, disposed, socket, wire, of>>,
         \A n \in Requests : promise'[n] = "waiting" => promise[n] = "waiting"
  PROVE  Wiring'
BY DEF Wiring, WireTypes

(* The end of a socket, with everybody who waited on it rejected.            *)
LEMMA CloseKeepsWiring ==
  ASSUME ReqInv, Wiring, NEW b \in Backends, init[b] \notin {"none", "dialing"},
         FailAll(b), UNCHANGED nextId,
         wire' = [wire EXCEPT ![b] = "closed"], socket' = [socket EXCEPT ![b] = FALSE],
         disposed' \in {disposed, [disposed EXCEPT ![b] = TRUE]},
         init' \in {init, [init EXCEPT ![b] = "rejected"]}
  PROVE  Wiring'
<1>1. \A n \in Requests : promise'[n] = "waiting" => promise[n] = "waiting" /\ of[n] # b
  BY FailAllKeepsIds
<1>2. WireTypes'
  BY DEF Wiring, WireTypes
<1>3. \A n \in Requests : promise'[n] = "waiting" => socket'[of'[n]]
  <2>1. of' = of
    BY DEF FailAll
  <2>2. \A n \in Requests : promise[n] = "waiting" => of[n] \in Backends
    BY Bounds DEF ReqInv, RequestTypes, IdsFit
  <2> QED BY <1>1, <2>1, <2>2 DEF Wiring, WireTypes
<1> QED BY <1>2, <1>3 DEF Wiring, WireTypes

LEMMA WiringKept ==
  ASSUME IInv, [Next]_vars
  PROVE  Wiring'
<1>0. ReqInv /\ Wiring
  BY DEF IInv
<1>1. CASE UNCHANGED vars
  BY <1>0, <1>1 DEF vars, clientVars, requestVars, Wiring, WireTypes
<1>2. ASSUME NEW b \in Backends, CompanionStep(b) PROVE Wiring'
  <2>1. UNCHANGED <<clientVars, requestVars>>
    BY <1>2 DEF CompanionStep, Refuses, Greets, Buffers, Hands, MainStarts, MainEnds
  <2> QED BY <1>0, <2>1 DEF clientVars, requestVars, Wiring, WireTypes
<1>3. ASSUME NEW n \in Requests, TimerFires(n) PROVE Wiring'
  BY <1>0, <1>3, SettlingKeepsWiring DEF TimerFires, Settle, ReqInv, RequestTypes
<1>4. ASSUME NEW b \in Backends, ResponseArrives(b) PROVE Wiring'
  BY <1>0, <1>4, SettlingKeepsWiring DEF ResponseArrives, Settle, ReqInv, RequestTypes
<1>5. ASSUME NEW b \in Backends, GarbageArrives(b) PROVE Wiring'
  BY <1>0, <1>5, SettlingKeepsWiring DEF GarbageArrives, FailAll, ReqInv, RequestTypes
<1>6. ASSUME NEW b \in Backends, CloseEvent(b) PROVE Wiring'
  BY <1>0, <1>6, CloseKeepsWiring DEF CloseEvent, Wiring, WireTypes
<1>7. ASSUME NEW b \in Backends, Dispose(b) PROVE Wiring'
  <2>1. CASE socket[b]
    BY <1>0, <1>7, <2>1, CloseKeepsWiring DEF Dispose, Close
  <2>2. CASE ~socket[b]
    BY <1>0, <1>7, <2>2 DEF Dispose, Close, requestVars, Wiring, WireTypes
  <2> QED BY <2>1, <2>2
<1>8. ASSUME NEW b \in Backends, Greeted(b) PROVE Wiring'
  <2>1. \/ init' = [init EXCEPT ![b] = "ready"] /\ UNCHANGED <<disposed, socket, wire, of, promise>>
        \/ /\ init' = [init EXCEPT ![b] = "rejected"] /\ disposed' = [disposed EXCEPT ![b] = TRUE]
           /\ Close(b) /\ UNCHANGED nextId
    BY <1>8 DEF Greeted, requestVars
  <2>2. CASE init' = [init EXCEPT ![b] = "ready"] /\ UNCHANGED <<disposed, socket, wire, of, promise>>
    BY <1>0, <1>8, <2>2 DEF Greeted, Wiring, WireTypes
  <2>3. CASE /\ init' = [init EXCEPT ![b] = "rejected"] /\ disposed' = [disposed EXCEPT ![b] = TRUE]
             /\ Close(b) /\ UNCHANGED nextId
    <3>1. CASE socket[b]
      BY <1>0, <1>8, <2>3, <3>1, CloseKeepsWiring DEF Greeted, Close
    <3>2. CASE ~socket[b]
      BY <1>0, <1>8, <2>3, <3>2 DEF Greeted, Close, requestVars, Wiring, WireTypes
    <3> QED BY <3>1, <3>2
  <2> QED BY <2>1, <2>2, <2>3
<1>9. ASSUME NEW b \in Backends, Dial(b) \/ DialFails(b) \/ Breaks(b) PROVE Wiring'
  <2>1. CASE Dial(b)
    BY <1>0, <2>1, Bounds DEF Dial, requestVars, Wiring, WireTypes, Backends
  <2>2. CASE DialFails(b)
    BY <1>0, <2>2 DEF DialFails, requestVars, Wiring, WireTypes
  <2>3. CASE Breaks(b)
    BY <1>0, <2>3 DEF Breaks, requestVars, Wiring, WireTypes
  <2> QED BY <1>9, <2>1, <2>2, <2>3
<1>10. ASSUME NEW b \in Backends, Opens(b) PROVE Wiring'
  <2>1. /\ \A n \in Requests : promise'[n] = "waiting" => (promise[n] = "waiting" /\ of'[n] = of[n]) \/ of'[n] = b
    BY <1>0, <1>10 DEF Opens, Request, ReqInv, RequestTypes
  <2>2. WireTypes' /\ socket'[b]
    BY <1>0, <1>10 DEF Opens, Wiring, WireTypes
  <2>3. \A n \in Requests : promise'[n] = "waiting" => socket'[of'[n]]
    BY <1>0, <1>10, <2>1, <2>2 DEF Opens, Wiring, WireTypes
  <2> QED BY <1>0, <1>10, <2>2, <2>3 DEF Opens, Wiring, WireTypes
<1>11. ASSUME NEW b \in Backends, NEW k \in Commands, Command(b, k) PROVE Wiring'
  <2>1. /\ \A n \in Requests : promise'[n] = "waiting" => (promise[n] = "waiting" /\ of'[n] = of[n]) \/ of'[n] = b
    BY <1>0, <1>11 DEF Command, Request, ReqInv, RequestTypes
  <2> QED BY <1>0, <1>11, <2>1 DEF Command, Wiring, WireTypes
<1> QED BY <1>1, <1>2, <1>3, <1>4, <1>5, <1>6, <1>7, <1>8, <1>9, <1>10, <1>11 DEF Next, ClientStep

-----------------------------------------------------------------------------
(* Frames. A sequence that is cut short holds nothing new.                   *)
Elements(q) == {q[i] : i \in DOMAIN q}

LEMMA CutShort ==
  ASSUME NEW S, NEW q \in Seq(S), NEW k \in 0..Len(q)
  PROVE  SubSeq(q, 1, k) \in Seq(S) /\ Elements(SubSeq(q, 1, k)) \subseteq Elements(q)
<1>1. \A i \in 1..k : q[i] \in S
  BY ElementOfSeq, LenProperties
<1>2. SubSeq(q, 1, k) \in Seq(S) /\ Len(SubSeq(q, 1, k)) = k /\ \A i \in 1..k : SubSeq(q, 1, k)[i] = q[i]
  BY <1>1, SubSeqProperties, LenProperties
<1>3. DOMAIN SubSeq(q, 1, k) = 1..k /\ DOMAIN q = 1..Len(q)
  BY <1>2, LenProperties
<1> QED BY <1>2, <1>3, LenProperties DEF Elements

LEMMA WithoutHead ==
  ASSUME NEW S, NEW q \in Seq(S), q # <<>>
  PROVE  /\ Tail(q) \in Seq(S) /\ Elements(Tail(q)) \subseteq Elements(q)
         /\ Head(q) \in S /\ Head(q) \in Elements(q)
<1>1. /\ Tail(q) \in Seq(S) /\ Len(Tail(q)) = Len(q) - 1 /\ Head(q) \in S
      /\ \A i \in 1..Len(Tail(q)) : Tail(q)[i] = q[i + 1]
  BY HeadTailProperties
<1>2. Len(q) \in Nat \ {0} /\ DOMAIN q = 1..Len(q) /\ DOMAIN Tail(q) = 1..Len(Tail(q)) /\ Head(q) = q[1]
  BY <1>1, LenProperties, EmptySeq
<1> QED BY <1>1, <1>2 DEF Elements

(* How a step may change what there is of a session: it works off some of    *)
(* it, or over an open connection gets more of its own.                      *)
Shape(c) ==
  /\ inbox'[c] \in Seq(Mine(c)') /\ outbox'[c] \in Seq(Responses(c)')
  /\ Elements(inbox'[c]) \subseteq Work(c) \/ (wire[c] \in {"connecting", "open"} /\ wire'[c] = "open")
  /\ wire'[c] \in {"none", "connecting"} => wire[c] \in {"none", "connecting"} /\ inbox'[c] = <<>>

IsFrom(f) == f = [c \in Backends |-> f[c]]

Shaped ==
  /\ IsFrom(inbox') /\ IsFrom(outbox')
  /\ \A c \in Backends : Shape(c)

LEMMA ShapedFrames ==
  ASSUME Shaped
  PROVE  Frames'
<1>1. ASSUME NEW c \in Backends
      PROVE  inbox'[c] \in Seq(Requests) /\ outbox'[c] \in Seq([to : Requests, ok : BOOLEAN])
  <2>1. Mine(c)' \subseteq Requests /\ Responses(c)' \subseteq [to : Requests, ok : BOOLEAN]
    BY DEF Mine, Responses
  <2>2. inbox'[c] \in Seq(Mine(c)') /\ outbox'[c] \in Seq(Responses(c)')
    BY DEF Shaped, Shape
  <2>3. inbox'[c] \in Seq(Requests)
    BY <2>1, <2>2, SeqMonotonic
  <2>4. outbox'[c] \in Seq([to : Requests, ok : BOOLEAN])
    BY <2>1, <2>2, SeqMonotonic
  <2> QED BY <2>3, <2>4
<1>2. inbox' \in [Backends -> Seq(Requests)] /\ outbox' \in [Backends -> Seq([to : Requests, ok : BOOLEAN])]
  BY <1>1 DEF Shaped, IsFrom
<1> QED BY <1>2 DEF Shaped, Shape, Frames

(* What was sent is still its backend's, what is done stays done.            *)
LEMMA SentStays ==
  ASSUME Grows, done \subseteq done', NEW c \in Backends
  PROVE  Mine(c) \subseteq Mine(c)' /\ Responses(c) \subseteq Responses(c)'
<1>1. Mine(c) \subseteq Mine(c)'
  BY DEF Grows, Mine
<1>2. \A n \in Mine(c) : kind'[n] = kind[n]
  BY DEF Grows, Mine
<1> QED BY <1>1, <1>2 DEF Responses

(* A session nothing comes to.                                               *)
LEMMA LeftAlone ==
  ASSUME Frames, Grows, done \subseteq done', NEW c \in Backends,
         inbox'[c] = inbox[c], outbox'[c] = outbox[c] \/ outbox'[c] = <<>>,
         wire'[c] \in {"none", "connecting"} => wire[c] \in {"none", "connecting"}
  PROVE  Shape(c)
<1>1. Mine(c) \subseteq Mine(c)' /\ Responses(c) \subseteq Responses(c)'
  BY SentStays
<1>2. inbox[c] \in Seq(Mine(c)) /\ outbox[c] \in Seq(Responses(c))
  BY DEF Frames
<1>3. inbox'[c] \in Seq(Mine(c)')
  BY <1>1, <1>2, SeqMonotonic
<1>4. outbox'[c] \in Seq(Responses(c)')
  BY <1>1, <1>2, SeqMonotonic, EmptySeq
<1>5. Elements(inbox'[c]) \subseteq Work(c)
  BY DEF Elements, Work
<1> QED BY <1>3, <1>4, <1>5 DEF Shape, Frames

(* A session that worked something off, and answered for it or not.          *)
LEMMA WorkedOff ==
  ASSUME Frames, Grows, done \subseteq done', NEW c \in Backends,
         wire[c] \notin {"none", "connecting"}, wire' = wire,
         inbox'[c] \in Seq(Mine(c)), Elements(inbox'[c]) \subseteq Elements(inbox[c]),
         \/ outbox'[c] = outbox[c]
         \/ \E r \in Responses(c)' : outbox'[c] = Append(outbox[c], r)
  PROVE  Shape(c)
<1>1. Mine(c) \subseteq Mine(c)' /\ Responses(c) \subseteq Responses(c)'
  BY SentStays
<1>2. outbox[c] \in Seq(Responses(c)')
  BY <1>1, SeqMonotonic DEF Frames
<1>3. outbox'[c] \in Seq(Responses(c)')
  <2>1. CASE outbox'[c] = outbox[c]
    BY <1>2, <2>1
  <2>2. ASSUME NEW x \in Responses(c)', outbox'[c] = Append(outbox[c], x)
        PROVE  outbox'[c] \in Seq(Responses(c)')
    BY <1>2, <2>2, AppendProperties
  <2> QED BY <2>1, <2>2
<1>4. inbox'[c] \in Seq(Mine(c)')
  BY <1>1, SeqMonotonic
<1> QED BY <1>3, <1>4 DEF Shape, Elements, Work

LEMMA RespondShapes ==
  ASSUME Frames, Grows, done \subseteq done', NEW b \in Backends,
         UNCHANGED wire, wire[b] \notin {"none", "connecting"},
         NEW n, NEW ok \in BOOLEAN, [to |-> n, ok |-> ok] \in Responses(b)',
         NEW rest \in Seq(Mine(b)), Elements(rest) \subseteq Elements(inbox[b]),
         Respond(b, n, ok, rest)
  PROVE  Shaped
<1>1. /\ inbox'[b] \in Seq(Mine(b)) /\ Elements(inbox'[b]) \subseteq Elements(inbox[b])
      /\ IsFrom(inbox') /\ \A c \in Backends \ {b} : inbox'[c] = inbox[c]
  <2>1. CASE wire[b] = "open"
    BY <2>1 DEF Respond, Frames, IsFrom
  <2>2. CASE wire[b] # "open"
    <3>1. PICK k \in 0..Len(rest) : inbox' = [inbox EXCEPT ![b] = SubSeq(rest, 1, k)]
      BY <2>2 DEF Respond
    <3>2. SubSeq(rest, 1, k) \in Seq(Mine(b)) /\ Elements(SubSeq(rest, 1, k)) \subseteq Elements(rest)
      BY CutShort
    <3> QED BY <3>1, <3>2 DEF Frames, IsFrom
  <2> QED BY <2>1, <2>2
<1>2. /\ outbox'[b] = outbox[b] \/ \E r \in Responses(b)' : outbox'[b] = Append(outbox[b], r)
      /\ IsFrom(outbox') /\ \A c \in Backends \ {b} : outbox'[c] = outbox[c]
  BY DEF Respond, Frames, IsFrom
<1>3. Shape(b)
  BY <1>1, <1>2, WorkedOff
<1>4. ASSUME NEW c \in Backends \ {b} PROVE Shape(c)
  BY <1>1, <1>2, LeftAlone
<1> QED BY <1>1, <1>2, <1>3, <1>4 DEF Shaped

(* A step that brings the companion nothing and takes nothing from it.       *)
LEMMA NothingSent ==
  ASSUME Frames, Grows, done \subseteq done', UNCHANGED inbox, IsFrom(outbox'),
         \A c \in Backends : outbox'[c] = outbox[c] \/ outbox'[c] = <<>>,
         \A c \in Backends :
           wire'[c] \in {"none", "connecting"} => wire[c] \in {"none", "connecting"}
  PROVE  Shaped
<1>1. IsFrom(inbox')
  BY DEF Frames, IsFrom
<1> QED BY <1>1, LeftAlone DEF Shaped

(* A step that sends a request, if the wire is open.                         *)
LEMMA RequestShapes ==
  ASSUME IInv, Grows, UNCHANGED <<done, outbox>>, NEW b \in Backends, NEW k,
         \/ wire' = wire /\ wire[b] \in {"open", "broken"}
         \/ wire' = [wire EXCEPT ![b] = "open"] /\ wire[b] = "connecting",
         Request(b, k, wire'[b] = "open")
  PROVE  Shaped
<1>1. Frames /\ WireTypes /\ ReqInv
  BY DEF IInv, Wiring
<1>2. IsFrom(inbox') /\ IsFrom(outbox') /\ \A c \in Backends \ {b} : inbox'[c] = inbox[c]
  BY <1>1 DEF Request, Frames, IsFrom
<1>3. ASSUME NEW c \in Backends \ {b} PROVE Shape(c)
  BY <1>1, <1>2, LeftAlone DEF WireTypes
<1>4. Shape(b)
  <2>1. Mine(b) \subseteq Mine(b)' /\ Responses(b) \subseteq Responses(b)'
    BY <1>1, SentStays
  <2>2. inbox[b] \in Seq(Mine(b)) /\ outbox[b] \in Seq(Responses(b))
    BY <1>1 DEF Frames
  <2>3. outbox'[b] \in Seq(Responses(b)') /\ inbox[b] \in Seq(Mine(b)')
    BY <2>1, <2>2, SeqMonotonic
  <2>4. CASE wire'[b] = "open"
    <3>1. issued + 1 \in Mine(b)'
      BY <1>1, Bounds DEF Request, Mine, ReqInv, RequestTypes
    <3>2. inbox'[b] = Append(inbox[b], issued + 1)
      BY <1>1, <2>4 DEF Request, Frames
    <3>3. inbox'[b] \in Seq(Mine(b)')
      BY <2>3, <3>1, <3>2, AppendProperties
    <3>4. wire[b] \in {"connecting", "open"}
      BY <1>1, <2>4 DEF WireTypes
    <3> QED BY <1>1, <2>3, <2>4, <3>3, <3>4 DEF Shape, WireTypes
  <2>5. CASE wire'[b] # "open"
    <3>1. inbox'[b] = inbox[b] /\ wire[b] = "broken" /\ wire'[b] = "broken"
      BY <1>1, <2>5 DEF Request, Frames, WireTypes
    <3> QED BY <2>3, <3>1 DEF Shape, Elements, Work
  <2> QED BY <2>4, <2>5
<1> QED BY <1>2, <1>3, <1>4 DEF Shaped

LEMMA ClientShapes ==
  ASSUME IInv, Grows, NEW b \in Backends, ClientStep(b)
  PROVE  Shaped
<1>0. /\ Frames /\ Wiring /\ WireTypes
      /\ done' = done
  BY DEF IInv, Wiring, ClientStep, Dial, Opens, DialFails, Greeted, Command, Dispose, ResponseArrives,
     GarbageArrives, Breaks, CloseEvent, historyVars
<1>1. CASE Dial(b) \/ DialFails(b) \/ GarbageArrives(b)
  <2>1. UNCHANGED <<inbox, outbox>>
    BY <1>1 DEF Dial, DialFails, GarbageArrives, companionVars
  <2>2. \A c \in Backends : wire'[c] \in {"none", "connecting"} => wire[c] \in {"none", "connecting"}
    BY <1>0, <1>1 DEF Dial, DialFails, GarbageArrives, Wiring, WireTypes
  <2> QED BY <1>0, <2>1, <2>2, NothingSent DEF Frames, IsFrom
<1>2. CASE Greeted(b) \/ Dispose(b) \/ CloseEvent(b)
  <2>1. /\ inbox' = inbox
        /\ outbox' \in {outbox, [outbox EXCEPT ![b] = <<>>]}
        /\ wire' \in {wire, [wire EXCEPT ![b] = "closed"]}
    BY <1>2 DEF Greeted, Dispose, CloseEvent, Close
  <2>2. \A c \in Backends : wire'[c] \in {"none", "connecting"} => wire[c] \in {"none", "connecting"}
    BY <1>0, <2>1 DEF WireTypes
  <2>3. IsFrom(outbox') /\ \A c \in Backends : outbox'[c] = outbox[c] \/ outbox'[c] = <<>>
    BY <1>0, <2>1 DEF Frames, IsFrom
  <2> QED BY <1>0, <2>1, <2>2, <2>3, NothingSent
<1>3. CASE Opens(b)
  BY <1>0, <1>3, RequestShapes DEF Opens, WireTypes
<1>4. ASSUME NEW k \in Commands, Command(b, k) PROVE Shaped
  BY <1>0, <1>4, RequestShapes DEF Command, Wiring, WireTypes
<1>5. CASE ResponseArrives(b)
  <2>1. /\ outbox[b] \in Seq(Responses(b)) /\ outbox[b] # <<>> /\ outbox' = [outbox EXCEPT ![b] = Tail(@)]
        /\ UNCHANGED <<wire, inbox>>
    BY <1>0, <1>5 DEF ResponseArrives, Frames
  <2>2. Tail(outbox[b]) \in Seq(Responses(b))
    BY <2>1, WithoutHead
  <2>3. IsFrom(inbox') /\ IsFrom(outbox')
    BY <1>0, <2>1 DEF Frames, IsFrom
  <2>4. Shape(b)
    <3>1. Mine(b) \subseteq Mine(b)' /\ Responses(b) \subseteq Responses(b)'
      BY <1>0, SentStays
    <3>2. outbox'[b] \in Seq(Responses(b)') /\ inbox'[b] \in Seq(Mine(b)')
      BY <1>0, <2>1, <2>2, <3>1, SeqMonotonic DEF Frames
    <3> QED BY <1>0, <2>1, <3>2 DEF Shape, Frames, Elements, Work
  <2>5. ASSUME NEW c \in Backends \ {b} PROVE Shape(c)
    BY <1>0, <2>1, LeftAlone DEF Frames
  <2> QED BY <2>3, <2>4, <2>5 DEF Shaped
<1>6. CASE Breaks(b)
  <2>1. PICK k \in 0..Len(inbox[b]) : inbox' = [inbox EXCEPT ![b] = SubSeq(@, 1, k)]
    BY <1>6 DEF Breaks
  <2>2. /\ wire[b] = "open" /\ wire' = [wire EXCEPT ![b] = "broken"] /\ outbox' = outbox
        /\ inbox'[b] = SubSeq(inbox[b], 1, k) /\ inbox[b] \in Seq(Mine(b))
    BY <1>0, <1>6, <2>1 DEF Breaks, Frames
  <2>3. SubSeq(inbox[b], 1, k) \in Seq(Mine(b)) /\ Elements(SubSeq(inbox[b], 1, k)) \subseteq Elements(inbox[b])
    BY <2>2, CutShort
  <2>4. Shape(b)
    <3>1. Mine(b) \subseteq Mine(b)' /\ Responses(b) \subseteq Responses(b)'
      BY <1>0, SentStays
    <3>2. inbox'[b] \in Seq(Mine(b)')
      BY <2>2, <2>3, <3>1, SeqMonotonic
    <3>3. outbox'[b] \in Seq(Responses(b)')
      BY <1>0, <2>2, <3>1, SeqMonotonic DEF Frames
    <3> QED BY <1>0, <2>2, <2>3, <3>2, <3>3 DEF Shape, WireTypes, Elements, Work
  <2>5. ASSUME NEW c \in Backends \ {b} PROVE Shape(c)
    BY <1>0, <2>1, <2>2, LeftAlone DEF Frames, WireTypes
  <2> QED BY <1>0, <2>1, <2>2, <2>4, <2>5 DEF Shaped, Frames, IsFrom
<1> QED BY <1>1, <1>2, <1>3, <1>4, <1>5, <1>6 DEF ClientStep

(* The frame a session is about to handle.                                   *)
LEMMA FrameFacts ==
  ASSUME Frames, NEW b \in Backends, HasFrame(b)
  PROVE  /\ Frame(b) \in Mine(b) /\ Frame(b) \in Requests /\ Frame(b) <= issued
         /\ Frame(b) \in Work(b)
         /\ Tail(inbox[b]) \in Seq(Mine(b)) /\ Elements(Tail(inbox[b])) \subseteq Elements(inbox[b])
         /\ wire[b] \notin {"none", "connecting"}
<1>1. inbox[b] \in Seq(Mine(b)) /\ inbox[b] # <<>>
  BY DEF Frames, HasFrame
<1>2. /\ Tail(inbox[b]) \in Seq(Mine(b)) /\ Elements(Tail(inbox[b])) \subseteq Elements(inbox[b])
      /\ Head(inbox[b]) \in Mine(b) /\ Head(inbox[b]) \in Elements(inbox[b])
  BY <1>1, WithoutHead
<1>3. wire[b] \notin {"none", "connecting"}
  BY <1>1 DEF Frames
<1>4. Frame(b) = Head(inbox[b]) /\ Elements(inbox[b]) \subseteq Work(b)
  BY DEF Frame, Work, Elements
<1>5. Mine(b) \subseteq {n \in Requests : n <= issued}
  BY DEF Mine
<1> QED BY <1>2, <1>3, <1>4, <1>5

LEMMA CompanionShapes ==
  ASSUME IInv, NEW b \in Backends, CompanionStep(b)
  PROVE  Shaped /\ done \subseteq done' /\ UNCHANGED <<clientVars, requestVars>>
<1>0. Frames /\ Threads /\ ReqInv
  BY DEF IInv
<1>1. UNCHANGED <<clientVars, requestVars>> /\ done \subseteq done'
  BY DEF CompanionStep, Refuses, Greets, Buffers, Hands, MainStarts, MainEnds, historyVars
<1>2. UNCHANGED <<wire, issued, of, kind>> /\ Grows
  BY <1>1 DEF clientVars, requestVars, Grows
<1>3. CASE Refuses(b) \/ Greets(b) \/ Buffers(b)
  <2>1. HasFrame(b) /\ kind[Frame(b)] \notin {"tap", "up"}
    BY <1>3 DEF Refuses, Greets, Buffers
  <2>2. PICK ok \in BOOLEAN : Respond(b, Frame(b), ok, Tail(inbox[b]))
    BY <1>3 DEF Refuses, Greets, Buffers
  <2>3. [to |-> Frame(b), ok |-> ok] \in Responses(b)'
    <3>1. Frame(b) \in Mine(b) /\ Frame(b) \in Requests
      BY <1>0, <2>1, FrameFacts
    <3>2. Frame(b) \in Mine(b)'
      BY <1>2, <3>1 DEF Mine
    <3> QED BY <1>2, <2>1, <3>1, <3>2 DEF Responses
  <2>4. /\ Tail(inbox[b]) \in Seq(Mine(b)) /\ Elements(Tail(inbox[b])) \subseteq Elements(inbox[b])
        /\ wire[b] \notin {"none", "connecting"}
    BY <1>0, <2>1, FrameFacts
  <2> QED BY <1>0, <1>1, <1>2, <2>2, <2>3, <2>4, RespondShapes
<1>4. CASE Hands(b)
  <2>1. HasFrame(b) /\ inbox' = [inbox EXCEPT ![b] = Tail(@)] /\ outbox' = outbox
    BY <1>4 DEF Hands
  <2>2. /\ Tail(inbox[b]) \in Seq(Mine(b)) /\ Elements(Tail(inbox[b])) \subseteq Elements(inbox[b])
        /\ wire[b] \notin {"none", "connecting"}
    BY <1>0, <2>1, FrameFacts
  <2>3. inbox'[b] = Tail(inbox[b]) /\ IsFrom(inbox') /\ IsFrom(outbox')
        /\ \A c \in Backends \ {b} : inbox'[c] = inbox[c]
    BY <1>0, <2>1 DEF Frames, IsFrom
  <2>4. Shape(b)
    BY <1>0, <1>1, <1>2, <2>1, <2>2, <2>3, WorkedOff
  <2>5. ASSUME NEW c \in Backends \ {b} PROVE Shape(c)
    BY <1>0, <1>1, <1>2, <2>1, <2>3, LeftAlone
  <2> QED BY <1>1, <2>3, <2>4, <2>5 DEF Shaped
<1>5. CASE MainStarts(b)
  <2>1. UNCHANGED <<inbox, outbox>>
    BY <1>5 DEF MainStarts
  <2> QED BY <1>0, <1>1, <1>2, <2>1, NothingSent DEF Frames, IsFrom
<1>6. CASE MainEnds(b)
  <2>1. Respond(b, current[b], TRUE, inbox[b]) /\ current[b] \in done' /\ session[b] = "injecting"
    BY <1>6 DEF MainEnds
  <2>2. current[b] \in Mine(b) /\ wire[b] \notin {"none", "connecting"}
    BY <1>0, <2>1 DEF Threads
  <2>3. current[b] \in Mine(b)' /\ current[b] \in Requests
    BY <1>2, <2>2 DEF Mine
  <2>4. [to |-> current[b], ok |-> TRUE] \in Responses(b)'
    BY <2>1, <2>3 DEF Responses
  <2>5. inbox[b] \in Seq(Mine(b))
    BY <1>0 DEF Frames
  <2> QED BY <1>0, <1>1, <1>2, <2>1, <2>2, <2>4, <2>5, RespondShapes
<1> QED BY <1>1, <1>3, <1>4, <1>5, <1>6 DEF CompanionStep

LEMMA NextShapes ==
  ASSUME IInv, [Next]_vars
  PROVE  Shaped /\ Grows /\ ReqInv' /\ Wiring' /\ Frames'
<1>1. Grows /\ ReqInv' /\ Wiring'
  BY NextIsRequestStep, RequestsWellFormed, WiringKept DEF IInv
<1>2. Shaped
  <2>1. ASSUME NEW b \in Backends, ClientStep(b) PROVE Shaped
    BY <1>1, <2>1, ClientShapes
  <2>2. ASSUME NEW b \in Backends, CompanionStep(b) PROVE Shaped
    BY <2>2, CompanionShapes
  <2>3. CASE UNCHANGED vars \/ \E n \in Requests : TimerFires(n)
    <3>1. UNCHANGED <<inbox, outbox, wire, done>>
      BY <2>3 DEF vars, clientVars, companionVars, historyVars, TimerFires
    <3> QED BY <1>1, <3>1, NothingSent DEF IInv, Frames, IsFrom
  <2> QED BY <2>1, <2>2, <2>3 DEF Next
<1> QED BY <1>1, <1>2, ShapedFrames

-----------------------------------------------------------------------------
(* Threads: what a session works on was sent by its backend, and the main    *)
(* thread runs the work of one of them.                                      *)
LEMMA ThreadsKept ==
  ASSUME IInv, [Next]_vars
  PROVE  Threads'
<1>0. Threads /\ Frames /\ Shaped /\ Grows
  BY NextShapes DEF IInv
<1>1. \A b \in Backends : wire'[b] \in {"none", "connecting"} => wire[b] \in {"none", "connecting"}
  BY <1>0 DEF Shaped, Shape
<1>2. CASE UNCHANGED <<session, current, main, done>>
  BY <1>0, <1>1, <1>2 DEF Threads, Mine, Grows
<1>3. ASSUME NEW b \in Backends, Hands(b) PROVE Threads'
  <2>1. Frame(b) \in Requests /\ Frame(b) \in Mine(b) /\ wire[b] \notin {"none", "connecting"}
    BY <1>0, <1>3, FrameFacts DEF Hands
  <2> QED BY <1>0, <1>1, <1>3, <2>1, Bounds DEF Hands, HasFrame, Threads, Mine, clientVars, requestVars
<1>4. ASSUME NEW b \in Backends, MainStarts(b) PROVE Threads'
  BY <1>0, <1>1, <1>4, Bounds DEF MainStarts, Threads, Mine, clientVars, requestVars
<1>5. ASSUME NEW b \in Backends, MainEnds(b) PROVE Threads'
  <2>1. /\ main = b /\ main' = NoBackend /\ session[b] = "injecting"
        /\ session' = [session EXCEPT ![b] = "idle"] /\ current' = [current EXCEPT ![b] = NoRequest]
        /\ done' = done \union {current[b]} /\ UNCHANGED <<wire, issued, of, kind>>
    BY <1>5 DEF MainEnds, clientVars, requestVars
  <2>2. current[b] \in Requests
    BY <1>0, <2>1 DEF Threads, Mine
  <2>3. /\ session' \in [Backends -> {"idle", "waiting", "injecting"}]
        /\ current' \in [Backends -> Requests \union {NoRequest}] /\ done' \subseteq Requests
    BY <1>0, <2>1, <2>2 DEF Threads
  <2>4. /\ session'[b] = "idle" /\ current'[b] = NoRequest
        /\ \A c \in Backends \ {b} : session'[c] = session[c] /\ current'[c] = current[c]
    BY <1>0, <2>1 DEF Threads
  <2>5. ASSUME NEW c \in Backends
        PROVE  /\ session'[c] = "injecting" <=> main' = c
               /\ session'[c] = "idle" <=> current'[c] = NoRequest
               /\ current'[c] # NoRequest => current'[c] \in Mine(c)' /\ kind'[current'[c]] \in {"tap", "up"}
               /\ wire'[c] \in {"none", "connecting"} => current'[c] = NoRequest
    <3>1. CASE c = b
      BY <2>1, <2>4, <3>1, Bounds
    <3>2. CASE c # b
      <4>1. Mine(c)' = Mine(c)
        BY <2>1 DEF Mine
      <4>2. main' # c /\ main # c
        BY <2>1, <3>2, Bounds
      <4> QED BY <1>0, <2>1, <2>4, <3>2, <4>1, <4>2 DEF Threads
    <3> QED BY <3>1, <3>2
  <2> QED BY <2>3, <2>5 DEF Threads
<1>6. \/ UNCHANGED <<session, current, main, done>>
      \/ \E b \in Backends : Hands(b) \/ MainStarts(b) \/ MainEnds(b)
  <2>1. ASSUME NEW b \in Backends, ClientStep(b) PROVE UNCHANGED <<session, current, main, done>>
    BY <2>1 DEF ClientStep, Dial, Opens, DialFails, Greeted, Command, Dispose, ResponseArrives,
       GarbageArrives, Breaks, CloseEvent, companionVars, historyVars
  <2>2. ASSUME NEW b \in Backends, Refuses(b) \/ Greets(b) \/ Buffers(b)
        PROVE  UNCHANGED <<session, current, main, done>>
    BY <2>2 DEF Refuses, Greets, Buffers, historyVars
  <2>3. CASE UNCHANGED vars \/ \E n \in Requests : TimerFires(n)
    BY <2>3 DEF TimerFires, vars, companionVars, historyVars
  <2> QED BY <2>1, <2>2, <2>3 DEF Next, CompanionStep
<1> QED BY <1>2, <1>3, <1>4, <1>5, <1>6

-----------------------------------------------------------------------------
(* Paths. One session follows the other: what came before the one that is    *)
(* connected was disposed of, what comes after it has nothing yet.           *)
LEMMA OldAndNew ==
  ASSUME Wiring, Frames, Threads, NEW b \in Backends, NEW c \in Backends
  PROVE  /\ c < b /\ wire[b] \notin {"none", "connecting"} => disposed[c] /\ wire[c] = "closed"
         /\ Work(b) # {} => wire[b] \notin {"none", "connecting"}
<1>1. wire[b] \notin {"none", "connecting"} => init[b] # "none"
  BY DEF Wiring
<1>2. c < b /\ init[b] # "none" => disposed[c] /\ wire[c] = "closed"
  BY DEF Wiring
<1>3. wire[b] \in {"none", "connecting"} => inbox[b] = <<>> /\ current[b] = NoRequest
  BY DEF Frames, Threads
<1>4. inbox[b] = <<>> /\ current[b] = NoRequest => Work(b) = {}
  BY DEF Work
<1> QED BY <1>1, <1>2, <1>3, <1>4

(* A session that is not connected only works off what it has.               *)
LEMMA WorkShrinks ==
  ASSUME IInv, [Next]_vars, NEW c \in Backends
  PROVE  /\ wire[c] \notin {"connecting", "open"} => wire'[c] # "open" /\ Work(c)' \subseteq Work(c)
         /\ wire'[c] \in {"none", "connecting"} => wire[c] \in {"none", "connecting"}
<1>1. Shaped /\ Frames /\ Threads
  BY NextShapes DEF IInv
<1>2. current'[c] \in Work(c) \union {NoRequest}
  <2>1. CASE current' = current
    BY <1>1, <2>1 DEF Work, Threads
  <2>2. ASSUME NEW b \in Backends, Hands(b) PROVE current'[c] \in Work(c) \union {NoRequest}
    <3>1. Frame(b) \in Work(b)
      BY <1>1, <2>2, FrameFacts DEF Hands
    <3> QED BY <1>1, <2>2, <3>1 DEF Hands, Threads, Work
  <2>3. ASSUME NEW b \in Backends, MainEnds(b) PROVE current'[c] \in Work(c) \union {NoRequest}
    BY <1>1, <2>3 DEF MainEnds, Threads, Work
  <2>4. current' = current \/ \E b \in Backends : Hands(b) \/ MainEnds(b)
    <3>1. ASSUME NEW b \in Backends, ClientStep(b) PROVE current' = current
      BY <3>1 DEF ClientStep, Dial, Opens, DialFails, Greeted, Command, Dispose, ResponseArrives,
         GarbageArrives, Breaks, CloseEvent, companionVars
    <3>2. ASSUME NEW b \in Backends, Refuses(b) \/ Greets(b) \/ Buffers(b) \/ MainStarts(b)
          PROVE  current' = current
      BY <3>2 DEF Refuses, Greets, Buffers, MainStarts
    <3>3. CASE UNCHANGED vars \/ \E n \in Requests : TimerFires(n)
      BY <3>3 DEF TimerFires, vars, companionVars
    <3> QED BY <3>1, <3>2, <3>3 DEF Next, CompanionStep
  <2> QED BY <2>1, <2>2, <2>3, <2>4
<1>3. Work(c)' \subseteq Elements(inbox'[c]) \union ({current'[c]} \ {NoRequest})
  BY DEF Work, Elements
<1>4. Shape(c)
  BY <1>1 DEF Shaped
<1>5. wire[c] \notin {"connecting", "open"} => wire'[c] # "open"
  <2>1. CASE UNCHANGED wire
    BY <2>1
  <2>2. ASSUME NEW b \in Backends, ClientStep(b)
        PROVE  wire[c] \notin {"connecting", "open"} => wire'[c] # "open"
    BY <2>2 DEF IInv, Wiring, WireTypes, ClientStep, Dial, Opens, DialFails, Greeted, Command, Dispose, Close,
       ResponseArrives, GarbageArrives, Breaks, CloseEvent
  <2> QED BY <2>1, <2>2, CompanionShapes DEF Next, vars, clientVars, TimerFires
<1> QED BY <1>2, <1>3, <1>4, <1>5 DEF Shape

LEMMA FirstAndLast ==
  ASSUME NEW S, NEW q \in Seq(S), q # <<>>
  PROVE  q[1] \in S /\ q[Len(q)] \in S /\ Ends(q) = <<q[1], q[Len(q)]>>
<1>1. Len(q) \in Nat \ {0} /\ \A i \in 1..Len(q) : q[i] \in S
  BY LenProperties, EmptySeq, ElementOfSeq
<1> QED BY <1>1 DEF Ends

(* Session x has its path as before, and the buffer too, or x has no work    *)
(* that could tell.                                                          *)
LEMMA PathKept ==
  ASSUME IInv, [Next]_vars, NEW x \in Backends, asked'[x] = asked[x], crowded \subseteq crowded',
         BeganAlone(x) => path' = path \/ (wire[x] # "open" /\ Work(x) \subseteq crowded'),
         session'[x] = "injecting" /\ kind'[current'[x]] = "up" => asked[x] = <<>>,
         \/ current'[x] \in {NoRequest, current[x]}
         \/ /\ wire[x] \notin {"none", "connecting"}
            /\ \A c \in Backends : c < x => Work(c) \subseteq crowded'
  PROVE  PathOK(x)'
<1>0. Wiring /\ Frames /\ Threads /\ PathOK(x) /\ Grows /\ asked[x] \in Seq(Requests)
  BY NextShapes DEF IInv, Paths, PathTypes
<1>1. wire'[x] \in {"none", "connecting"} => wire[x] \in {"none", "connecting"}
  BY WorkShrinks
<1>2. asked[x] # <<>> =>
        /\ asked[x][1] \in Requests /\ asked[x][1] <= issued' /\ kind'[asked[x][1]] = kind[asked[x][1]]
        /\ wire[x] \notin {"none", "connecting"}
  BY <1>0, FirstAndLast DEF PathOK, Grows
<1>3. ASSUME wire[x] \notin {"none", "connecting"}, NEW c \in Backends, c < x
      PROVE  Work(c)' \subseteq Work(c)
  BY <1>0, <1>3, OldAndNew, WorkShrinks
<1>4. BeganAlone(x)' => BeganAlone(x) /\ wire[x] \notin {"none", "connecting"}
  BY <1>2 DEF BeganAlone
<1>5. BeganAlone(x)' => PathIs(x)' /\ \A c \in Backends : c < x => Work(c)' = {}
  <2>1. SUFFICES ASSUME BeganAlone(x)'
                 PROVE  PathIs(x)' /\ \A c \in Backends : c < x => Work(c)' = {}
    OBVIOUS
  <2>2. PathIs(x) /\ \A c \in Backends : c < x => Work(c) = {}
    BY <1>0, <1>4, <2>1 DEF PathOK
  <2>3. wire[x] # "open" => wire'[x] # "open" /\ Work(x)' \subseteq Work(x)
    BY <1>4, <2>1, WorkShrinks
  <2>4. path' = asked'[x] \/ (wire[x] # "open" /\ Work(x) \subseteq crowded')
    BY <1>4, <2>1, <2>2 DEF PathIs
  <2>5. PathIs(x)'
    BY <2>3, <2>4 DEF PathIs
  <2> QED BY <1>3, <1>4, <2>1, <2>2, <2>5
<1>6. current'[x] # NoRequest => \A c \in Backends : c < x => Work(c)' \subseteq crowded'
  <2>1. CASE current'[x] \in {NoRequest, current[x]}
    BY <1>0, <1>3, <2>1 DEF PathOK, Threads
  <2>2. CASE current'[x] \notin {NoRequest, current[x]}
    BY <1>3, <2>2
  <2> QED BY <2>1, <2>2
<1> QED BY <1>0, <1>1, <1>2, <1>5, <1>6 DEF PathOK

LEMMA MeantKept ==
  ASSUME IInv, [Next]_vars, NEW n \in Requests, crowded \subseteq crowded',
         injected'[n] = injected[n], meant'[n] = meant[n]
  PROVE  MeantOK(n)'
<1>1. Grows /\ MeantOK(n) /\ meant[n] \in Points \union {<<>>}
  BY NextShapes DEF IInv, Paths, PathTypes
<1>2. meant[n] # <<>> => meant[n][1] \in Requests
  BY <1>1 DEF Points
<1> QED BY <1>1, <1>2 DEF MeantOK, Grows

(* What a session takes up while others have work is crowded, and so is that *)
(* work.                                                                     *)
LEMMA Crowding ==
  ASSUME Frames, Threads, crowded \subseteq Requests,
         NEW b \in Backends, NEW n \in Requests, TakesUp(b, n)
  PROVE  /\ crowded \subseteq crowded' /\ crowded' \subseteq Requests
         /\ \A c \in Backends \ {b} : Work(c) \subseteq crowded'
         /\ n \notin crowded' => \A c \in Backends \ {b} : Work(c) = {}
<1> DEFINE others == UNION {Work(c) : c \in Backends \ {b}}
<1>1. \A c \in Backends \ {b} : Work(c) \subseteq others
  OBVIOUS
<1>2. ASSUME NEW c \in Backends PROVE Work(c) \subseteq Requests
  <2>1. \A i \in DOMAIN inbox[c] : inbox[c][i] \in Requests
    BY DEF Frames
  <2> QED BY <2>1 DEF Threads, Work
<1>3. others \subseteq Requests
  BY <1>2
<1>4. crowded' = IF others = {} THEN crowded ELSE crowded \union others \union {n}
  BY DEF TakesUp
<1> HIDE DEF others
<1> QED BY <1>1, <1>3, <1>4

LEMMA BuffersKeepsPaths ==
  ASSUME IInv, NEW b \in Backends, Buffers(b)
  PROVE  Paths'
<1> DEFINE f == Frame(b)
<1>0. /\ Wiring /\ Frames /\ Threads /\ Paths /\ PathTypes /\ PathOK(b)
      /\ [Next]_vars /\ HasFrame(b)
  BY DEF IInv, Paths, Next, CompanionStep, Buffers
<1>1. f \in Requests /\ f <= issued /\ f \in Work(b) /\ wire[b] \notin {"none", "connecting"}
  BY <1>0, FrameFacts
<1>2. /\ crowded \subseteq crowded' /\ crowded' \subseteq Requests
      /\ \A c \in Backends \ {b} : Work(c) \subseteq crowded'
      /\ f \notin crowded' => \A c \in Backends \ {b} : Work(c) = {}
  BY <1>0, <1>1, Crowding DEF Buffers, PathTypes
<1>3. /\ UNCHANGED <<wire, issued, kind, session, current, injected, meant>>
      /\ asked' = [asked EXCEPT ![b] = asked'[b]]
      /\ kind[f] = "down" => path' = <<f>> /\ asked'[b] = <<f>>
      /\ kind[f] # "down" => path' = Append(path, f) /\ asked'[b] = Append(asked[b], f)
  BY <1>0 DEF Buffers, PathAfter, clientVars, requestVars, PathTypes
<1>4. /\ path' \in Seq(Requests) /\ asked'[b] \in Seq(Requests) /\ asked'[b] # <<>>
      /\ kind[f] = "down" \/ asked[b] = <<>> => asked'[b][1] = f
      /\ kind[f] # "down" /\ asked[b] # <<>> => asked'[b][1] = asked[b][1]
  <2>1. <<f>> \in Seq(Requests) /\ <<f>> # <<>> /\ <<f>>[1] = f
    BY <1>1
  <2>2. ASSUME NEW q \in Seq(Requests)
        PROVE  /\ Append(q, f) \in Seq(Requests) /\ Append(q, f) # <<>>
               /\ q = <<>> => Append(q, f)[1] = f
               /\ q # <<>> => Append(q, f)[1] = q[1]
    BY <1>1, AppendProperties, LenProperties, EmptySeq
  <2> QED BY <1>0, <1>3, <2>1, <2>2 DEF PathTypes
<1>5. PathTypes'
  BY <1>0, <1>2, <1>3, <1>4 DEF PathTypes
<1>6. ASSUME NEW x \in Backends \ {b} PROVE PathOK(x)'
  <2>1. BeganAlone(x) => wire[x] # "open" /\ Work(x) \subseteq crowded'
    <3>1. SUFFICES ASSUME BeganAlone(x) PROVE wire[x] # "open"
      BY <1>2
    <3>2. ~(b < x)
      BY <1>0, <1>1, <3>1 DEF Paths, PathOK
    <3>3. x < b
      BY <3>2, Bounds
    <3> QED BY <1>0, <1>1, <3>3, OldAndNew
  <2>2. asked'[x] = asked[x]
    BY <1>0, <1>3 DEF PathTypes
  <2>3. session'[x] = "injecting" /\ kind'[current'[x]] = "up" => asked[x] = <<>>
    BY <1>0, <1>3 DEF Paths, PathOK
  <2> QED BY <1>0, <1>2, <1>3, <2>1, <2>2, <2>3, PathKept
<1>7. PathOK(b)'
  <2>1. asked'[b][1] <= issued'
    BY <1>0, <1>1, <1>3, <1>4 DEF PathOK
  <2>2. ASSUME BeganAlone(b)' PROVE PathIs(b)' /\ \A c \in Backends : c < b => Work(c)' = {}
    <3>1. \A c \in Backends : c < b => Work(c)' \subseteq Work(c)
      BY <1>0, <1>1, OldAndNew, WorkShrinks
    <3>2. CASE kind[f] = "down"
      <4>1. f \notin crowded'
        BY <1>4, <2>2, <3>2 DEF BeganAlone
      <4>2. \A c \in Backends : c < b => Work(c) = {}
        BY <1>2, <4>1, Bounds
      <4> QED BY <1>3, <3>1, <3>2, <4>2 DEF PathIs
    <3>3. CASE kind[f] # "down"
      <4>1. asked[b] # <<>>
        BY <1>3, <1>4, <2>2, <3>3 DEF BeganAlone
      <4>2. BeganAlone(b)
        BY <1>2, <1>3, <1>4, <2>2, <3>3, <4>1 DEF BeganAlone
      <4>3. PathIs(b) /\ \A c \in Backends : c < b => Work(c) = {}
        BY <1>0, <4>2 DEF PathOK
      <4>4. wire[b] # "open" => wire'[b] # "open" /\ Work(b)' \subseteq Work(b)
        BY <1>0, <1>1, WorkShrinks
      <4>5. PathIs(b)'
        BY <1>2, <1>3, <3>3, <4>3, <4>4 DEF PathIs
      <4> QED BY <3>1, <4>3, <4>5
    <3> QED BY <3>2, <3>3
  <2>3. session'[b] # "injecting" /\ current'[b] = NoRequest
    BY <1>0, <1>3 DEF HasFrame, Threads
  <2> QED BY <1>1, <1>3, <2>1, <2>2, <2>3 DEF PathOK
<1>8. ASSUME NEW n \in Requests PROVE MeantOK(n)'
  BY <1>0, <1>2, <1>3, MeantKept
<1> QED BY <1>5, <1>6, <1>7, <1>8 DEF Paths

LEMMA HandsKeepsPaths ==
  ASSUME IInv, NEW b \in Backends, Hands(b)
  PROVE  Paths'
<1>0. Wiring /\ Frames /\ Threads /\ Paths /\ PathTypes /\ [Next]_vars /\ HasFrame(b)
  BY DEF IInv, Paths, Next, CompanionStep, Hands
<1>1. Frame(b) \in Requests /\ wire[b] \notin {"none", "connecting"}
  BY <1>0, FrameFacts
<1>2. /\ crowded \subseteq crowded' /\ crowded' \subseteq Requests
      /\ \A c \in Backends \ {b} : Work(c) \subseteq crowded'
  BY <1>0, <1>1, Crowding DEF Hands, PathTypes
<1>3. /\ UNCHANGED <<kind, path, asked, injected, meant>>
      /\ session'[b] = "waiting"
      /\ \A x \in Backends \ {b} : session'[x] = session[x] /\ current'[x] = current[x]
  BY <1>0 DEF Hands, Threads, requestVars
<1>4. PathTypes'
  BY <1>0, <1>2, <1>3 DEF PathTypes
<1>5. PathOK(b)'
  <2>1. \A c \in Backends : c < b => Work(c) \subseteq crowded'
    BY <1>2, Bounds
  <2> QED BY <1>0, <1>1, <1>2, <1>3, <2>1, PathKept
<1>6. ASSUME NEW x \in Backends \ {b} PROVE PathOK(x)'
  <2>1. session'[x] = "injecting" /\ kind'[current'[x]] = "up" => asked[x] = <<>>
    BY <1>0, <1>3 DEF Paths, PathOK
  <2> QED BY <1>0, <1>2, <1>3, <2>1, PathKept
<1>7. ASSUME NEW n \in Requests PROVE MeantOK(n)'
  BY <1>0, <1>2, <1>3, MeantKept
<1> QED BY <1>4, <1>5, <1>6, <1>7 DEF Paths

(* The work of a session that waits or injects.                              *)
LEMMA CurrentWork ==
  ASSUME Threads, NEW b \in Backends, session[b] # "idle"
  PROVE  /\ current[b] \in Requests /\ current[b] <= issued /\ current[b] \in Work(b)
         /\ wire[b] \notin {"none", "connecting"} /\ kind[current[b]] \in {"tap", "up"}
<1>1. current[b] # NoRequest
  BY DEF Threads
<1> QED BY <1>1 DEF Threads, Mine, Work

LEMMA MainStartsKeepsPaths ==
  ASSUME IInv, NEW b \in Backends, MainStarts(b)
  PROVE  Paths'
<1> DEFINE n == current[b]
<1>0. Wiring /\ Frames /\ Threads /\ Paths /\ PathTypes /\ PathOK(b) /\ [Next]_vars
  BY DEF IInv, Paths, Next, CompanionStep
<1>1. n \in Requests /\ n <= issued /\ n \in Work(b) /\ kind[n] \in {"tap", "up"}
  BY <1>0, CurrentWork DEF MainStarts
<1>2. /\ UNCHANGED <<wire, issued, kind, path, current, crowded>>
      /\ \A x \in Backends \ {b} : session'[x] = session[x]
  BY <1>0 DEF MainStarts, Threads, clientVars, requestVars
<1>3. ASSUME NEW x \in Backends, asked'[x] = asked[x], x # b \/ kind[n] # "up"
      PROVE  PathOK(x)'
  <2>1. session'[x] = "injecting" /\ kind'[current'[x]] = "up" => asked[x] = <<>>
    BY <1>0, <1>2, <1>3 DEF Paths, PathOK
  <2> QED BY <1>0, <1>2, <1>3, <2>1, PathKept
<1>4. CASE kind[n] # "up"
  <2>1. UNCHANGED <<asked, injected, meant>>
    BY <1>4 DEF MainStarts
  <2>2. PathTypes'
    BY <1>0, <1>2, <2>1 DEF PathTypes
  <2>3. \A x \in Backends : PathOK(x)'
    BY <1>3, <1>4, <2>1
  <2>4. ASSUME NEW m \in Requests PROVE MeantOK(m)'
    BY <1>0, <1>2, <2>1, MeantKept
  <2> QED BY <2>2, <2>3, <2>4 DEF Paths
<1>5. CASE kind[n] = "up"
  <2>1. /\ injected' = [injected EXCEPT ![n] = Ends(path)]
        /\ meant' = [meant EXCEPT ![n] = Ends(asked[b])]
        /\ asked' = [asked EXCEPT ![b] = <<>>]
    BY <1>5 DEF MainStarts
  <2>2. ASSUME NEW q \in Seq(Requests) PROVE Ends(q) \in Points \union {<<>>}
    <3>1. CASE q = <<>>
      BY <3>1 DEF Ends
    <3>2. CASE q # <<>>
      BY <3>2, FirstAndLast DEF Points
    <3> QED BY <3>1, <3>2
  <2>3. PathTypes'
    <3>1. Ends(path) \in Points \union {<<>>} /\ Ends(asked[b]) \in Points \union {<<>>}
      BY <1>0, <2>2 DEF PathTypes
    <3>2. injected' \in [Requests -> Points \union {<<>>}] /\ meant' \in [Requests -> Points \union {<<>>}]
      BY <1>0, <2>1, <3>1 DEF PathTypes
    <3> QED BY <1>0, <1>2, <2>1, <3>2 DEF PathTypes
  <2>4. asked'[b] = <<>> /\ \A x \in Backends \ {b} : asked'[x] = asked[x]
    BY <1>0, <2>1 DEF PathTypes
  <2>5. PathOK(b)'
    <3>1. current[b] # NoRequest => \A c \in Backends : c < b => Work(c)' \subseteq Work(c)
      BY <1>0, CurrentWork, OldAndNew, WorkShrinks DEF MainStarts
    <3> QED BY <1>0, <1>2, <2>4, <3>1 DEF PathOK, BeganAlone
  <2>6. ASSUME NEW x \in Backends \ {b} PROVE PathOK(x)'
    BY <1>3, <2>4
  <2>7. MeantOK(n)'
    <3>1. injected'[n] = Ends(path) /\ meant'[n] = Ends(asked[b])
      BY <1>0, <1>1, <2>1 DEF PathTypes
    <3>2. CASE asked[b] = <<>>
      BY <1>1, <1>2, <1>5, <3>1, <3>2 DEF MeantOK, Ends
    <3>3. CASE asked[b] # <<>>
      <4>1. meant'[n][1] = asked[b][1] /\ asked[b][1] <= issued
        BY <1>0, <3>1, <3>3, FirstAndLast DEF PathTypes, PathOK
      <4>2. ASSUME kind[asked[b][1]] = "down", asked[b][1] \notin crowded, n \notin crowded
            PROVE  path = asked[b]
        BY <1>0, <1>1, <3>3, <4>2 DEF PathOK, BeganAlone, PathIs
      <4> QED BY <1>1, <1>2, <1>5, <3>1, <4>1, <4>2 DEF MeantOK
    <3> QED BY <3>2, <3>3
  <2>8. ASSUME NEW m \in Requests \ {n} PROVE MeantOK(m)'
    <3>1. injected'[m] = injected[m] /\ meant'[m] = meant[m]
      BY <1>0, <2>1 DEF PathTypes
    <3> QED BY <1>0, <1>2, <3>1, MeantKept
  <2> QED BY <1>2, <2>3, <2>5, <2>6, <2>7, <2>8 DEF Paths
<1> QED BY <1>4, <1>5

LEMMA MainEndsKeepsPaths ==
  ASSUME IInv, NEW b \in Backends, MainEnds(b)
  PROVE  Paths'
<1> DEFINE n == current[b]
<1>0. Wiring /\ Frames /\ Threads /\ Paths /\ PathTypes /\ PathOK(b) /\ [Next]_vars
  BY DEF IInv, Paths, Next, CompanionStep
<1>1. n \in Requests /\ n \in Work(b) /\ wire[b] \notin {"none", "connecting"}
  BY <1>0, CurrentWork DEF MainEnds
<1>2. /\ UNCHANGED <<kind, asked, injected, meant, crowded>>
      /\ session'[b] = "idle" /\ current'[b] = NoRequest
      /\ \A x \in Backends \ {b} : session'[x] = session[x] /\ current'[x] = current[x]
      /\ path' = IF injected[n] # <<>> THEN <<>> ELSE path
  BY <1>0 DEF MainEnds, Threads, requestVars
<1>3. PathTypes'
  BY <1>0, <1>2, EmptySeq DEF PathTypes
<1>4. path' # path => asked[b] = <<>>
  BY <1>0, <1>1, <1>2 DEF MainEnds, Paths, PathOK, MeantOK
<1>5. PathOK(b)'
  <2>1. BeganAlone(b) => path' = path
    BY <1>4 DEF BeganAlone
  <2> QED BY <1>0, <1>2, <2>1, PathKept
<1>6. ASSUME NEW x \in Backends \ {b} PROVE PathOK(x)'
  <2>1. BeganAlone(x) => wire[x] # "open" /\ Work(x) \subseteq crowded
    <3>1. SUFFICES ASSUME BeganAlone(x) PROVE wire[x] # "open" /\ Work(x) \subseteq crowded
      OBVIOUS
    <3>2. ~(b < x)
      BY <1>0, <1>1, <3>1 DEF Paths, PathOK
    <3>3. x < b /\ n # NoRequest
      BY <1>1, <3>2, Bounds
    <3>4. wire[x] # "open"
      BY <1>0, <1>1, <3>3, OldAndNew
    <3> QED BY <1>0, <3>3, <3>4 DEF PathOK
  <2>2. session'[x] = "injecting" /\ kind'[current'[x]] = "up" => asked[x] = <<>>
    BY <1>0, <1>2 DEF Paths, PathOK
  <2> QED BY <1>0, <1>2, <2>1, <2>2, PathKept
<1>7. ASSUME NEW m \in Requests PROVE MeantOK(m)'
  BY <1>0, <1>2, MeantKept
<1> QED BY <1>3, <1>5, <1>6, <1>7 DEF Paths

LEMMA PathsKept ==
  ASSUME IInv, [Next]_vars
  PROVE  Paths'
<1>1. CASE UNCHANGED <<session, current, path, historyVars>>
  <2>0. UNCHANGED <<session, current, path, asked, injected, meant, crowded>> /\ Paths /\ Threads /\ Grows
    BY <1>1, NextShapes DEF IInv, historyVars
  <2>1. ASSUME NEW x \in Backends PROVE PathOK(x)'
    <3>1. session[x] = "injecting" => current[x] \in Mine(x)
      BY <2>0, CurrentWork DEF Threads
    <3>2. session'[x] = "injecting" /\ kind'[current'[x]] = "up" => asked[x] = <<>>
      BY <2>0, <3>1 DEF Paths, PathOK, Grows, Mine
    <3> QED BY <2>0, <3>2, PathKept
  <2>2. ASSUME NEW n \in Requests PROVE MeantOK(n)'
    BY <2>0, MeantKept
  <2> QED BY <2>0, <2>1, <2>2 DEF Paths, PathTypes
<1>2. \/ UNCHANGED <<session, current, path, historyVars>>
      \/ \E b \in Backends : Buffers(b) \/ Hands(b) \/ MainStarts(b) \/ MainEnds(b)
  <2>1. ASSUME NEW b \in Backends, ClientStep(b) PROVE UNCHANGED <<session, current, path, historyVars>>
    BY <2>1 DEF ClientStep, Dial, Opens, DialFails, Greeted, Command, Dispose, ResponseArrives,
       GarbageArrives, Breaks, CloseEvent, companionVars
  <2>2. ASSUME NEW b \in Backends, Refuses(b) \/ Greets(b) PROVE UNCHANGED <<session, current, path, historyVars>>
    BY <2>2 DEF Refuses, Greets
  <2>3. CASE UNCHANGED vars \/ \E n \in Requests : TimerFires(n)
    BY <2>3 DEF TimerFires, vars, companionVars
  <2> QED BY <2>1, <2>2, <2>3 DEF Next, CompanionStep
<1> QED BY <1>1, <1>2, BuffersKeepsPaths, HandsKeepsPaths, MainStartsKeepsPaths, MainEndsKeepsPaths

-----------------------------------------------------------------------------
(* What is resolved is done: the response says so, and it is the request's   *)
(* own.                                                                      *)
LEMMA ResolvedKept ==
  ASSUME IInv, [Next]_vars
  PROVE  ResolvedMeansInjected'
<1>0. ReqInv /\ Frames /\ ResolvedMeansInjected /\ Grows
  BY NextShapes DEF IInv
<1>1. done \subseteq done'
  <2>1. ASSUME NEW b \in Backends, ClientStep(b) PROVE done' = done
    BY <2>1 DEF ClientStep, Dial, Opens, DialFails, Greeted, Command, Dispose, ResponseArrives,
       GarbageArrives, Breaks, CloseEvent, historyVars
  <2>2. CASE UNCHANGED vars \/ \E n \in Requests : TimerFires(n)
    BY <2>2 DEF TimerFires, vars, historyVars
  <2> QED BY <2>1, <2>2, CompanionShapes DEF Next
<1>2. ASSUME NEW n \in Requests, promise'[n] # "unsent", promise[n] # "unsent"
      PROVE  kind'[n] = kind[n]
  BY <1>0, <1>2, Bounds DEF Grows, ReqInv, RequestTypes, IdsFit
<1>3. CASE \A n \in Requests : promise'[n] = "resolved" => promise[n] = "resolved"
  BY <1>0, <1>1, <1>2, <1>3 DEF ResolvedMeansInjected
<1>4. ASSUME NEW b \in Backends, ResponseArrives(b) PROVE ResolvedMeansInjected'
  <2> DEFINE r == Head(outbox[b])
             m == pending[b][idOf[r.to]]
  <2>1. outbox[b] \in Seq(Responses(b)) /\ outbox[b] # <<>>
    BY <1>0, <1>4 DEF ResponseArrives, Frames
  <2>2. r \in Responses(b)
    BY <2>1
  <2>3. m \in {NoRequest, r.to}
    BY <1>0, <2>2, ResponseFindsRequest
  <2>4. r.to \in Requests /\ (r.ok /\ kind[r.to] \in {"tap", "up"} => r.to \in done) /\ r.ok \in BOOLEAN
    BY <2>2 DEF Responses
  <2>5. kind' = kind /\ done' = done
    BY <1>4 DEF ResponseArrives, historyVars
  <2>6. CASE m = NoRequest
    BY <1>0, <1>4, <2>5, <2>6 DEF ResponseArrives, ResolvedMeansInjected
  <2>7. CASE m # NoRequest
    <3>1. m = r.to /\ promise' = [promise EXCEPT ![m] = IF r.ok THEN "resolved" ELSE "rejected"]
      BY <1>4, <2>3, <2>7 DEF ResponseArrives, Settle
    <3>2. ASSUME NEW n \in Requests, promise'[n] = "resolved", kind[n] \in {"tap", "up"}
          PROVE  n \in done
      <4>1. CASE n = r.to
        BY <1>0, <2>4, <3>1, <3>2, <4>1 DEF ReqInv, RequestTypes
      <4>2. CASE n # r.to
        BY <1>0, <3>1, <3>2, <4>2 DEF ReqInv, RequestTypes, ResolvedMeansInjected
      <4> QED BY <4>1, <4>2
    <3> QED BY <2>5, <3>2 DEF ResolvedMeansInjected
  <2> QED BY <2>6, <2>7
<1>5. \/ \A n \in Requests : promise'[n] = "resolved" => promise[n] = "resolved"
      \/ \E b \in Backends : ResponseArrives(b)
  <2>1. ASSUME NEW b \in Backends, ClientStep(b), ~ResponseArrives(b), NEW n \in Requests, promise'[n] = "resolved"
        PROVE  promise[n] = "resolved"
    <3>1. CASE UNCHANGED requestVars
      BY <2>1, <3>1 DEF requestVars
    <3>2. CASE FailAll(b)
      BY <2>1, <3>2 DEF FailAll
    <3>3. CASE \E k, live : Request(b, k, live)
      BY <1>0, <2>1, <3>3 DEF Request, ReqInv, RequestTypes
    <3>4. UNCHANGED requestVars \/ FailAll(b) \/ \E k, live : Request(b, k, live)
      <4>1. CASE Dial(b) \/ DialFails(b) \/ Breaks(b) \/ GarbageArrives(b) \/ CloseEvent(b)
        BY <4>1 DEF Dial, DialFails, Breaks, GarbageArrives, CloseEvent
      <4>2. CASE Greeted(b) \/ Dispose(b)
        BY <4>2 DEF Greeted, Dispose, Close
      <4>3. CASE Opens(b) \/ \E k \in Commands : Command(b, k)
        BY <4>3 DEF Opens, Command
      <4> QED BY <2>1, <4>1, <4>2, <4>3 DEF ClientStep
    <3> QED BY <3>1, <3>2, <3>3, <3>4
  <2>2. ASSUME NEW b \in Backends, CompanionStep(b) PROVE promise' = promise
    BY <2>2, CompanionShapes DEF requestVars
  <2>3. CASE UNCHANGED vars
    BY <2>3 DEF vars, requestVars
  <2>4. ASSUME NEW k \in Requests, TimerFires(k), NEW n \in Requests, promise'[n] = "resolved"
        PROVE  promise[n] = "resolved"
    BY <1>0, <2>4 DEF TimerFires, Settle, ReqInv, RequestTypes
  <2> QED BY <2>1, <2>2, <2>3, <2>4 DEF Next
<1> QED BY <1>3, <1>4, <1>5

-----------------------------------------------------------------------------
LEMMA InitHolds == Init => IInv
<1> SUFFICES ASSUME Init PROVE IInv
  OBVIOUS
<1>1. 1 \in 1..(MaxRequests + 1) /\ 0 \in 0..MaxRequests
  BY Bounds
<1>2. RequestTypes
  BY <1>1, Bounds DEF Init, RequestTypes
<1>3. IdsFit
  BY Bounds DEF Init, IdsFit
<1>4. Wiring
  BY DEF Init, Wiring, WireTypes
<1>5. Frames
  BY EmptySeq DEF Init, Frames
<1>6. Threads
  BY Bounds DEF Init, Threads
<1>7. \A b \in Backends : Work(b) = {}
  BY DEF Init, Work
<1>8. PathTypes
  BY EmptySeq DEF Init, PathTypes
<1>9. Paths
  BY <1>7, <1>8 DEF Init, Paths, PathOK, BeganAlone, MeantOK
<1>10. ResolvedMeansInjected
  BY DEF Init, ResolvedMeansInjected
<1> QED BY <1>2, <1>3, <1>4, <1>5, <1>6, <1>9, <1>10 DEF IInv, ReqInv

(* The inductive invariant: what client and companion keep between them, in  *)
(* every order of their steps and of losses, refusals and timeouts           *)
(* (xctest-backend.ts:38-171, RNDriverTouchCompanion.swift:96-245).          *)
THEOREM Inductive == Spec => []IInv
<1>1. ASSUME IInv, [Next]_vars PROVE IInv'
  BY <1>1, NextShapes, ThreadsKept, PathsKept, ResolvedKept DEF IInv
<1> QED BY <1>1, InitHolds, PTL DEF Spec

(* Types, and one injection at a time (RNDriverTouchCompanion.swift:187).    *)
THEOREM TypeCorrect == Spec => []TypeOK
<1>1. IInv => TypeOK
  BY DEF IInv, ReqInv, RequestTypes, Wiring, WireTypes, Frames, Threads, Paths, PathTypes, TypeOK
<1> QED BY <1>1, Inductive, PTL

(* Nobody waits on a connection that is gone (xctest-backend.ts:91-106,      *)
(* 119-126): whoever waits is pending under its id, with a socket.           *)
THEOREM WaitersHaveSocket == Spec => []WaiterHasSocket
<1>1. IInv => WaiterHasSocket
  BY DEF IInv, ReqInv, IdsFit, Wiring, WaiterHasSocket
<1> QED BY <1>1, Inductive, PTL

(* A command that resolved is over on the device                             *)
(* (RNDriverTouchCompanion.swift:134-139, 153-157).                          *)
THEOREM ResolvedIsDone == Spec => []ResolvedMeansInjected
<1>1. IInv => ResolvedMeansInjected
  BY DEF IInv
<1> QED BY <1>1, Inductive, PTL

(* A gesture that was handled alone is injected as it was asked for, and     *)
(* nothing of an earlier session's gesture with it                           *)
(* (RNDriverTouchCompanion.swift:126-157, 233-245).                          *)
THEOREM GestureAlone == Spec => []GestureInjectedAlone
<1>1. IInv => GestureInjectedAlone
  BY DEF IInv, Threads, Paths, MeantOK, GestureInjectedAlone
<1> QED BY <1>1, Inductive, PTL

(* The RPC client is a request channel (xctest-backend.ts:108-171): every    *)
(* step of client and companion issues a request, answers one with its own   *)
(* answer, gives some up, or is no step of the channel.                      *)
THEOREM ImplementsChannel == Spec => ChannelSpec
<1>1. Init => Channel!ChInit
  BY DEF Init, Channel!ChInit, NoRequest, Channel!NoAnswer
<1>2. ASSUME IInv, [Next]_vars
      PROVE  [Channel!ChNext]_Channel!chVars
  <2>0. ReqInv /\ RequestStep
    BY <1>2, NextIsRequestStep DEF IInv
  <2>1. CASE UNCHANGED <<promise, answer>>
    BY <2>1 DEF Channel!chVars
  <2>2. ASSUME NEW b \in Backends, NEW k \in Commands \union {"hello"}, NEW live \in BOOLEAN, Request(b, k, live)
        PROVE  Channel!ChNext
    <3>1. issued + 1 \in Requests /\ Channel!Issue(issued + 1)
      BY <2>0, <2>2, Bounds DEF Request, Channel!Issue, ReqInv, RequestTypes, IdsFit
    <3> QED BY <3>1 DEF Channel!ChNext
  <2>3. ASSUME NEW b \in Backends, FailAll(b)
        PROVE  Channel!ChNext
    <3> DEFINE S == {n \in Requests : IsPending(b, n)}
    <3>1. S \in SUBSET {r \in Requests : promise[r] = "waiting"}
      BY <2>0, Bounds DEF ReqInv, IdsFit, IsPending
    <3>2. Channel!GiveUp(S)
      BY <2>3 DEF FailAll, Channel!GiveUp
    <3> QED BY <3>1, <3>2 DEF Channel!ChNext
  <2>4. ASSUME NEW m \in Requests, NEW outcome \in {"resolved", "rejected"}, promise[m] = "waiting",
               Settle(of[m], m, outcome), answer' = [answer EXCEPT ![m] = m]
        PROVE  Channel!ChNext
    BY <2>4 DEF Settle, Channel!Answered, Channel!ChNext
  <2>5. ASSUME NEW m \in Requests, promise[m] = "waiting",
               Settle(of[m], m, "rejected"), answer' = answer
        PROVE  Channel!ChNext
    <3>1. Channel!GiveUp({m}) /\ {m} \in SUBSET {r \in Requests : promise[r] = "waiting"}
      BY <2>0, <2>5 DEF Settle, Channel!GiveUp, ReqInv, RequestTypes
    <3> QED BY <3>1 DEF Channel!ChNext
  <2> QED BY <2>0, <2>1, <2>2, <2>3, <2>4, <2>5 DEF RequestStep, requestVars
<1> QED BY <1>1, <1>2, Inductive, PTL DEF Spec, ChannelSpec, Channel!ChSpec

-----------------------------------------------------------------------------
(* Gestures: how far a move has come (gesture-utils.ts, easing.ts).          *)

(* Products keep the order.                                                  *)
LEMMA ProductOrder ==
  ASSUME NEW a \in Nat, NEW b \in Nat, NEW c \in Nat, a <= b
  PROVE  a * c \in Nat /\ b * c \in Nat /\ a * c <= b * c
BY Z3

(* So do squares.                                                            *)
LEMMA Squares ==
  ASSUME NEW a \in Nat, NEW b \in Nat, a <= b
  PROVE  a * a \in Nat /\ b * b \in Nat /\ a * a <= b * b
BY Z3

(* Up to the half of n a square is at most a quarter of that of n.           *)
LEMMA TwiceSquares ==
  ASSUME NEW a \in Nat, NEW n \in Nat, 2 * a <= n
  PROVE  4 * (a * a) <= n * n
BY Z3

(* Whole quotients keep the order.                                           *)
LEMMA Quotients ==
  ASSUME NEW x \in Int, NEW y \in Int, NEW m \in Nat, m > 0, x <= y
  PROVE  x \div m \in Int /\ y \div m \in Int /\ x \div m <= y \div m
BY Z3

(* A factor keeps the order or turns it round, by its sign.                  *)
LEMMA IntProducts ==
  ASSUME NEW x \in Int, NEW a \in Nat, NEW b \in Nat, a <= b
  PROVE  /\ x * a \in Int /\ x * b \in Int
         /\ x >= 0 => x * a <= x * b
         /\ x <= 0 => x * b <= x * a
BY Z3

(* What there is of a move goes up with its steps, whatever the easing.      *)
LEMMA EasedGoesUp ==
  ASSUME NEW easing \in Easings, NEW n \in Nat, n > 0, NEW i \in 0..n, NEW j \in 0..n, i <= j
  PROVE  /\ Eased(easing, i, n) \in Nat /\ Eased(easing, j, n) \in Nat
         /\ Eased(easing, i, n) <= Eased(easing, j, n)
         /\ Eased(easing, 0, n) = 0
         /\ n * n \in Nat /\ n * n > 0
<1> DEFINE p == n - i
           q == n - j
<1>1. i \in Nat /\ j \in Nat /\ p \in Nat /\ q \in Nat /\ q <= p /\ i <= n /\ p <= n
  OBVIOUS
<1> HIDE DEF p, q
<1>2. /\ i * n \in Nat /\ j * n \in Nat /\ i * n <= j * n /\ 0 * n = 0
      /\ i * i \in Nat /\ j * j \in Nat /\ i * i <= j * j /\ 0 * 0 = 0
      /\ p * p \in Nat /\ q * q \in Nat /\ q * q <= p * p
      /\ n * n \in Nat /\ n * n > 0 /\ p * p <= n * n
  BY <1>1, ProductOrder, Squares, Z3
<1>3. 2 * i <= n => 4 * (i * i) <= n * n
  BY <1>1, TwiceSquares
<1>4. 2 * p <= n => 4 * (p * p) <= n * n
  BY <1>1, TwiceSquares
<1>5. 2 * q <= n => 4 * (q * q) <= n * n
  BY <1>1, TwiceSquares
<1>6. i + p = n /\ j + q = n /\ 2 * i * i = 2 * (i * i) /\ 2 * j * j = 2 * (j * j)
  BY <1>1, Z3 DEF p, q
<1>7. CASE easing = "linear"
  BY <1>2, <1>7 DEF Eased
<1>8. CASE easing = "ease-in"
  BY <1>2, <1>8 DEF Eased
<1>9. CASE easing = "ease-out"
  <2>1. Eased(easing, i, n) = n * n - p * p /\ Eased(easing, j, n) = n * n - q * q
        /\ Eased(easing, 0, n) = n * n - (n - 0) * (n - 0)
    BY <1>9 DEF Eased, p, q
  <2> QED BY <1>2, <2>1
<1>10. CASE easing = "ease-in-out"
  <2>1. /\ Eased(easing, i, n) = IF 2 * i < n THEN 2 * (i * i) ELSE n * n - 2 * (p * p)
        /\ Eased(easing, j, n) = IF 2 * j < n THEN 2 * (j * j) ELSE n * n - 2 * (q * q)
    <3>1. /\ 2 * i * i = 2 * (i * i) /\ 2 * (n - i) * (n - i) = 2 * (p * p)
          /\ 2 * j * j = 2 * (j * j) /\ 2 * (n - j) * (n - j) = 2 * (q * q)
      BY <1>1, Z3 DEF p, q
    <3> QED BY <1>10, <3>1 DEF Eased
  <2>2. Eased(easing, 0, n) = 0
    BY <1>10 DEF Eased
  <2>3. CASE 2 * j < n
    <3>1. 2 * i < n
      BY <1>1, <2>3
    <3> QED BY <1>2, <2>1, <2>2, <2>3, <3>1
  <2>4. CASE ~(2 * i < n)
    <3>1. ~(2 * j < n) /\ 2 * p <= n /\ 2 * q <= n
      BY <1>1, <1>6, <2>4
    <3> QED BY <1>2, <1>4, <1>5, <2>1, <2>2, <2>4, <3>1
  <2>5. CASE 2 * i < n /\ ~(2 * j < n)
    <3>1. 2 * i <= n /\ 2 * q <= n
      BY <1>1, <1>6, <2>5
    <3>2. 4 * (i * i) <= n * n /\ 4 * (q * q) <= n * n
      BY <1>3, <1>5, <3>1
    <3> QED BY <1>2, <2>1, <2>2, <2>5, <3>2
  <2> QED BY <2>3, <2>4, <2>5
<1> QED BY <1>7, <1>8, <1>9, <1>10 DEF Easings

(* The points of a move go one way, from where it begins.                    *)
LEMMA MovesGoOneWay ==
  ASSUME NEW easing \in Easings, NEW n \in Nat, n > 0, NEW i \in 0..n, NEW j \in 0..n, i <= j,
         NEW from \in Int, NEW to \in Int
  PROVE  LET there(m) == Between(from, to, Eased(easing, m, n), n * n) IN
         /\ there(i) \in Int /\ there(j) \in Int /\ there(0) = from
         /\ from <= to => there(i) <= there(j)
         /\ to <= from => there(j) <= there(i)
<1> DEFINE x == to - from
           a == Eased(easing, i, n)
           b == Eased(easing, j, n)
           m == n * n
<1>1. a \in Nat /\ b \in Nat /\ a <= b /\ m \in Nat /\ m > 0 /\ Eased(easing, 0, n) = 0
  BY EasedGoesUp
<1>2. x \in Int /\ (from <= to => x >= 0) /\ (to <= from => x <= 0)
  OBVIOUS
<1>3. /\ Between(from, to, a, m) = from + (x * a) \div m
      /\ Between(from, to, b, m) = from + (x * b) \div m
      /\ Between(from, to, 0, m) = from + (x * 0) \div m
  BY DEF Between
<1> HIDE DEF x, a, b, m
<1>4. /\ x * a \in Int /\ x * b \in Int
      /\ x >= 0 => x * a <= x * b
      /\ x <= 0 => x * b <= x * a
  BY <1>1, <1>2, IntProducts
<1>5. /\ (x * a) \div m \in Int /\ (x * b) \div m \in Int
      /\ x >= 0 => (x * a) \div m <= (x * b) \div m
      /\ x <= 0 => (x * b) \div m <= (x * a) \div m
  <2>1. x * a <= x * b \/ x * b <= x * a
    BY <1>2, <1>4
  <2>2. /\ x * a <= x * b => (x * a) \div m \in Int /\ (x * b) \div m \in Int /\ (x * a) \div m <= (x * b) \div m
        /\ x * b <= x * a => (x * a) \div m \in Int /\ (x * b) \div m \in Int /\ (x * b) \div m <= (x * a) \div m
    BY <1>1, <1>4, Quotients
  <2> QED BY <1>4, <2>1, <2>2
<1>6. (x * 0) \div m = 0
  BY <1>1, <1>2, Z3
<1>7. /\ Between(from, to, Eased(easing, i, n), n * n) = from + (x * a) \div m
      /\ Between(from, to, Eased(easing, j, n), n * n) = from + (x * b) \div m
      /\ Between(from, to, Eased(easing, 0, n), n * n) = from
  <2>1. Between(from, to, Eased(easing, 0, n), n * n) = Between(from, to, 0, m)
    BY <1>1 DEF m
  <2> QED BY <1>3, <1>6, <2>1 DEF a, b, m
<1> QED BY <1>2, <1>5, <1>7

-----------------------------------------------------------------------------
(* Gestures: the order in which several pointers are merged                  *)
(* (multi-gesture-builder.ts:33-64).                                         *)

(* An event of a gesture, at its time.                                       *)
TimedEvents == [time : Nat, type : {"tap", "longPress", "swipe", "down", "move", "up"}, id : Ids, at : Int]

(* What each builder of a gesture is: events of one pointer in the order of  *)
(* their times.                                                              *)
OnePointer(events, id) ==
  /\ events \in Seq(TimedEvents)
  /\ \A k \in 1..Len(events) : events[k].id = id
  /\ \A j, k \in 1..Len(events) : j <= k => events[j].time <= events[k].time

(* Builders of different pointers.                                           *)
OfPointers(b) ==
  /\ Len(b) \in Nat
  /\ \A i \in 1..Len(b) : b[i].id \in Ids /\ OnePointer(b[i].events, b[i].id)
  /\ \A i, j \in 1..Len(b) : b[i].id = b[j].id => i = j

(* Places that are not shared are all taken.                                 *)
LEMMA PlacesAreTaken ==
  ASSUME NEW S, IsFiniteSet(S), NEW r \in [S -> 1..Cardinality(S)], \A x, y \in S : r[x] = r[y] => x = y
  PROVE  /\ Cardinality(S) \in Nat
         /\ \A n \in 1..Cardinality(S) : \E x \in S : r[x] = n
<1> DEFINE T == 1..Cardinality(S)
<1>1. Cardinality(S) \in Nat
  BY FS_CardinalityType
<1>2. IsFiniteSet(T) /\ Cardinality(T) = Cardinality(S)
  BY <1>1, FS_Interval
<1>3. r \in Injection(S, T)
  <2>1. r \in [S -> T]
    OBVIOUS
  <2> QED BY <2>1, Zenon DEF Injection, IsInjective
<1>4. r \in Surjection(S, T)
  BY <1>2, <1>3, FS_Injection
<1> QED BY <1>1, <1>4 DEF Surjection

(* What is scheduled: the event of each place of each builder, one each.     *)
LEMMA ScheduledIs ==
  ASSUME NEW b, OfPointers(b)
  PROVE  /\ IsFiniteSet(Scheduled(b)) /\ Cardinality(Scheduled(b)) \in Nat
         /\ \A x : x \in Scheduled(b) <=> /\ x = <<x[1], x[2]>> /\ x[1] \in 1..Len(b)
                                          /\ x[2] \in 1..Len(b[x[1]].events)
         /\ \A i \in 1..Len(b) : \A k \in 1..Len(b[i].events) : <<i, k>> \in Scheduled(b)
         /\ \A x \in Scheduled(b) : /\ Due(b, x) \in TimedEvents /\ Due(b, x).time \in Nat
                                    /\ Due(b, x).id = b[x[1]].id /\ x[1] \in Nat /\ x[2] \in Nat
<1> DEFINE S == Scheduled(b)
<1>1. \A i \in 1..Len(b) : b[i].events \in Seq(TimedEvents) /\ Len(b[i].events) \in Nat
  BY LenProperties DEF OfPointers, OnePointer
<1>2. \A x : x \in S <=> \E i \in 1..Len(b) : \E k \in 1..Len(b[i].events) : x = <<i, k>>
  BY DEF Scheduled
<1>3. IsFiniteSet(S)
  <2> DEFINE placesOf(i) == {<<i, k>> : k \in 1..Len(b[i].events)}
             all == {placesOf(i) : i \in 1..Len(b)}
  <2>1. ASSUME NEW i \in 1..Len(b) PROVE IsFiniteSet(placesOf(i))
    <3> DEFINE f == [k \in 1..Len(b[i].events) |-> <<i, k>>]
    <3>1. IsFiniteSet(1..Len(b[i].events))
      <4>1. Len(b[i].events) \in Int /\ 1 \in Int
        BY <1>1
      <4> QED BY <4>1, FS_Interval
    <3>2. f \in Surjection(1..Len(b[i].events), placesOf(i))
      BY DEF Surjection
    <3> HIDE DEF f, placesOf
    <3> QED BY <3>1, <3>2, FS_Surjection
  <2> DEFINE g == [i \in 1..Len(b) |-> placesOf(i)]
  <2>2. g \in Surjection(1..Len(b), all)
    BY DEF Surjection
  <2>3. IsFiniteSet(1..Len(b))
    BY FS_Interval DEF OfPointers
  <2>4. \A T \in all : IsFiniteSet(T)
    BY <2>1
  <2>5. S = UNION all
    BY DEF Scheduled
  <2> HIDE DEF g, all
  <2>6. IsFiniteSet(all)
    BY <2>2, <2>3, FS_Surjection
  <2> QED BY <2>4, <2>5, <2>6, FS_UNION
<1>4. Cardinality(S) \in Nat
  BY <1>3, FS_CardinalityType
<1>5. \A x : x \in S <=> x = <<x[1], x[2]>> /\ x[1] \in 1..Len(b) /\ x[2] \in 1..Len(b[x[1]].events)
  <2> SUFFICES ASSUME NEW x
               PROVE  x \in S <=> x = <<x[1], x[2]>> /\ x[1] \in 1..Len(b) /\ x[2] \in 1..Len(b[x[1]].events)
    OBVIOUS
  <2>1. ASSUME x \in S
        PROVE  x = <<x[1], x[2]>> /\ x[1] \in 1..Len(b) /\ x[2] \in 1..Len(b[x[1]].events)
    <3>1. PICK i \in 1..Len(b) : \E k \in 1..Len(b[i].events) : x = <<i, k>>
      BY <1>2, <2>1
    <3>2. PICK k \in 1..Len(b[i].events) : x = <<i, k>>
      BY <3>1
    <3>3. x[1] = i /\ x[2] = k
      BY <3>2
    <3> QED BY <3>2, <3>3
  <2>2. ASSUME x = <<x[1], x[2]>>, x[1] \in 1..Len(b), x[2] \in 1..Len(b[x[1]].events) PROVE x \in S
    BY <1>2, <2>2
  <2> QED BY <2>1, <2>2
<1>6. \A i \in 1..Len(b) : \A k \in 1..Len(b[i].events) : <<i, k>> \in S
  BY <1>2
<1>7. ASSUME NEW x \in S
      PROVE  Due(b, x) \in TimedEvents /\ Due(b, x).time \in Nat /\ Due(b, x).id = b[x[1]].id /\ x[1] \in Nat /\ x[2] \in Nat
  <2> DEFINE i == x[1]
             k == x[2]
  <2>1. i \in 1..Len(b) /\ k \in 1..Len(b[i].events) /\ i \in Nat /\ k \in Nat
    BY <1>1, <1>5 DEF OfPointers
  <2> HIDE DEF i, k
  <2>2. OnePointer(b[i].events, b[i].id)
    BY <2>1 DEF OfPointers
  <2>3. Due(b, x) = b[i].events[k]
    BY DEF Due, i, k
  <2>4. b[i].events[k] \in TimedEvents
    BY <1>1, <2>1, ElementOfSeq
  <2>5. b[i].events[k].id = b[i].id
    BY <2>1, <2>2 DEF OnePointer
  <2> QED BY <2>1, <2>3, <2>4, <2>5 DEF i, k, TimedEvents
<1> HIDE DEF S
<1>8. S = Scheduled(b)
  BY DEF S
<1> QED BY <1>3, <1>4, <1>5, <1>6, <1>7, <1>8, Zenon

(* The order of the schedule is strict, and total.                           *)
LEMMA BeforeIsOrder ==
  ASSUME NEW b, OfPointers(b), NEW x \in Scheduled(b), NEW y \in Scheduled(b)
  PROVE  /\ ~Before(b, x, x)
         /\ x # y => Before(b, x, y) \/ Before(b, y, x)
         /\ \A z \in Scheduled(b) : Before(b, x, y) /\ Before(b, y, z) => Before(b, x, z)
<1>1. \A z \in Scheduled(b) : Due(b, z).time \in Nat /\ z[1] \in Nat /\ z[2] \in Nat /\ z = <<z[1], z[2]>>
  BY ScheduledIs
<1>2. ~Before(b, x, x)
  BY <1>1 DEF Before
<1>3. x # y => Before(b, x, y) \/ Before(b, y, x)
  <2> SUFFICES ASSUME ~Before(b, x, y), ~Before(b, y, x) PROVE x = y
    OBVIOUS
  <2>1. x[1] = y[1] /\ x[2] = y[2]
    BY <1>1 DEF Before
  <2> QED BY <1>1, <2>1, Zenon
<1>4. ASSUME NEW z \in Scheduled(b), Before(b, x, y), Before(b, y, z) PROVE Before(b, x, z)
  BY <1>1, <1>4 DEF Before
<1> QED BY <1>2, <1>3, <1>4

(* Where something scheduled goes: after all that is before it.              *)
Position(b, x) == Cardinality(Earlier(b, x)) + 1

(* Everything scheduled has a position of its own, and before means earlier. *)
LEMMA PositionsOrder ==
  ASSUME NEW b, OfPointers(b), NEW x \in Scheduled(b)
  PROVE  /\ IsFiniteSet(Earlier(b, x)) /\ Position(b, x) \in 1..Cardinality(Scheduled(b))
         /\ \A y \in Scheduled(b) : /\ Before(b, x, y) <=> Position(b, x) < Position(b, y)
                                    /\ Position(b, x) = Position(b, y) => x = y
<1> DEFINE S == Scheduled(b)
<1>1. IsFiniteSet(S) /\ Cardinality(S) \in Nat
  BY ScheduledIs
<1>2. ASSUME NEW y \in S
      PROVE  /\ Earlier(b, y) \in SUBSET S /\ y \notin Earlier(b, y)
             /\ IsFiniteSet(Earlier(b, y)) /\ Cardinality(Earlier(b, y)) \in Nat
             /\ Cardinality(Earlier(b, y)) < Cardinality(S)
  <2>1. Earlier(b, y) \in SUBSET S /\ y \notin Earlier(b, y)
    BY BeforeIsOrder DEF Earlier
  <2>2. IsFiniteSet(Earlier(b, y)) /\ Cardinality(Earlier(b, y)) <= Cardinality(S)
        /\ (Cardinality(Earlier(b, y)) = Cardinality(S) => Earlier(b, y) = S)
    BY <1>1, <2>1, FS_Subset
  <2>3. Cardinality(Earlier(b, y)) \in Nat
    BY <2>2, FS_CardinalityType
  <2>4. Earlier(b, y) # S
    BY <2>1
  <2> QED BY <1>1, <2>1, <2>2, <2>3, <2>4
<1>3. ASSUME NEW y \in S, NEW z \in S, Before(b, y, z) PROVE Position(b, y) < Position(b, z)
  <2>1. Earlier(b, y) \subseteq Earlier(b, z) /\ y \in Earlier(b, z)
    BY <1>3, BeforeIsOrder DEF Earlier
  <2>2. Earlier(b, y) # Earlier(b, z)
    BY <1>2, <2>1
  <2>3. Cardinality(Earlier(b, y)) <= Cardinality(Earlier(b, z))
        /\ (Cardinality(Earlier(b, y)) = Cardinality(Earlier(b, z)) => Earlier(b, y) = Earlier(b, z))
    BY <1>2, <2>1, FS_Subset
  <2> QED BY <1>2, <2>2, <2>3 DEF Position
<1>4. \A y \in S : Position(b, y) \in 1..Cardinality(S) /\ Position(b, y) \in Nat
  BY <1>1, <1>2 DEF Position
<1>5. ASSUME NEW y \in S
      PROVE  /\ Before(b, x, y) <=> Position(b, x) < Position(b, y)
             /\ Position(b, x) = Position(b, y) => x = y
  <2>1. x # y => Before(b, x, y) \/ Before(b, y, x)
    BY BeforeIsOrder
  <2>2. /\ Before(b, x, y) => Position(b, x) < Position(b, y)
        /\ Before(b, y, x) => Position(b, y) < Position(b, x)
    BY <1>3
  <2> QED BY <1>4, <2>1, <2>2
<1> QED BY <1>2, <1>4, <1>5

(* What is at a position is what has that position.                          *)
LEMMA SortedIs ==
  ASSUME NEW b, OfPointers(b)
  PROVE  LET N == Cardinality(Scheduled(b)) IN
         /\ N \in Nat /\ DOMAIN Sorted(b) = 1..N
         /\ \A n \in 1..N : Sorted(b)[n] \in Scheduled(b) /\ Position(b, Sorted(b)[n]) = n
         /\ \A x \in Scheduled(b) : Position(b, x) \in 1..N /\ Sorted(b)[Position(b, x)] = x
<1> DEFINE S == Scheduled(b)
           N == Cardinality(S)
<1>1. IsFiniteSet(S) /\ N \in Nat
  BY ScheduledIs
<1>2. \A x \in S : Position(b, x) \in 1..N /\ \A y \in S : Position(b, x) = Position(b, y) => x = y
  BY PositionsOrder
<1>3. \A n \in 1..N : \E x \in S : Position(b, x) = n
  <2> DEFINE r == [x \in S |-> Position(b, x)]
  <2>1. r \in [S -> 1..N] /\ \A x, y \in S : r[x] = r[y] => x = y
    BY <1>2
  <2>2. \A n \in 1..N : \E x \in S : r[x] = n
    <3> HIDE DEF r, S
    <3> QED BY <1>1, <2>1, PlacesAreTaken
  <2> QED BY <2>2
<1>4. ASSUME NEW n \in 1..N PROVE Sorted(b)[n] \in S /\ Position(b, Sorted(b)[n]) = n
  <2>1. Sorted(b)[n] = CHOOSE x \in S : Cardinality(Earlier(b, x)) = n - 1
    BY DEF Sorted
  <2>2. PICK x \in S : Position(b, x) = n
    BY <1>3
  <2>3. \A y \in S : IsFiniteSet(Earlier(b, y)) /\ Cardinality(Earlier(b, y)) \in Nat
    BY PositionsOrder, FS_CardinalityType
  <2>4. Cardinality(Earlier(b, x)) = n - 1
    BY <2>2, <2>3 DEF Position
  <2>5. Sorted(b)[n] \in S /\ Cardinality(Earlier(b, Sorted(b)[n])) = n - 1
    <3> HIDE DEF S
    <3> QED BY <2>1, <2>4, Zenon
  <2>6. n \in Nat
    BY <1>1
  <2> QED BY <2>5, <2>6 DEF Position
<1>5. ASSUME NEW x \in S PROVE Position(b, x) \in 1..N /\ Sorted(b)[Position(b, x)] = x
  BY <1>2, <1>4
<1>6. DOMAIN Sorted(b) = 1..N
  BY DEF Sorted
<1> QED BY <1>1, <1>4, <1>5, <1>6

(* If a pointer goes up at all, then at the end.                             *)
LastIsUp(events) ==
  (\E k \in 1..Len(events) : events[k].type = "up") => events[Len(events)].type = "up"

(* The times of a sequence of events never go back.                          *)
InOrder(w) == \A j, k \in 1..Len(w) : j <= k => w[j].time <= w[k].time

(* Each pointer does its own events o in their order, and all of them.       *)
EachItsOwn(w, o) ==
  /\ \A k \in 1..Len(w) : Nth(w, k) <= Len(o[w[k].id]) /\ w[k] = o[w[k].id][Nth(w, k)]
  /\ \A id \in Ids : Cardinality({k \in 1..Len(w) : w[k].id = id}) = Len(o[id])

(* The last that a pointer does which goes up is to go up.                   *)
Lifted(w, o) ==
  \A id \in Ids : (\E k \in 1..Len(o[id]) : o[id][k].type = "up") =>
    \E k \in 1..Len(w) : w[k].id = id /\ w[k].type = "up" /\ \A m \in (k + 1)..Len(w) : w[m].id # id

(* What is to be dispatched is what each pointer is to do on its own.        *)
Faithful(w, o) == w \in Seq(TimedEvents) /\ InOrder(w) /\ EachItsOwn(w, o) /\ Lifted(w, o)

(* What the pointers are to do is what their builders say.                   *)
OwnOf(b, o) ==
  /\ \A i \in 1..Len(b) : o[b[i].id] = b[i].events
  /\ \A id \in Ids : (\A i \in 1..Len(b) : b[i].id # id) => o[id] = <<>>

(* What k places take up, each one of its own, are k.                        *)
LEMMA CountedIs ==
  ASSUME NEW T, NEW k \in Nat, NEW f, f \in [1..k -> T], \A i, j \in 1..k : f[i] = f[j] => i = j,
         \A t \in T : \E i \in 1..k : f[i] = t
  PROVE  Cardinality(T) = k
<1>1. IsFiniteSet(1..k) /\ Cardinality(1..k) = k
  BY FS_Interval
<1>2. f \in Surjection(1..k, T) /\ f \in Injection(1..k, T)
  BY Zenon DEF Surjection, Injection, IsInjective
<1> QED BY <1>1, <1>2, FS_Surjection

(* The merged events are those that are scheduled, each at its position.     *)
LEMMA MergedIs ==
  ASSUME NEW b, OfPointers(b)
  PROVE  /\ Merged(b) \in Seq(TimedEvents) /\ Len(Merged(b)) = Cardinality(Scheduled(b))
         /\ \A x \in Scheduled(b) : Position(b, x) \in 1..Len(Merged(b)) /\ Merged(b)[Position(b, x)] = Due(b, x)
         /\ \A n \in 1..Len(Merged(b)) : \E x \in Scheduled(b) : n = Position(b, x)
<1> DEFINE N == Cardinality(Scheduled(b))
<1>1. /\ N \in Nat /\ DOMAIN Sorted(b) = 1..N
      /\ \A n \in 1..N : Sorted(b)[n] \in Scheduled(b) /\ Position(b, Sorted(b)[n]) = n
      /\ \A x \in Scheduled(b) : Position(b, x) \in 1..N /\ Sorted(b)[Position(b, x)] = x
  BY SortedIs
<1>2. \A x \in Scheduled(b) : Due(b, x) \in TimedEvents
  BY ScheduledIs
<1>3. Merged(b) = [n \in 1..N |-> Due(b, Sorted(b)[n])]
  BY <1>1 DEF Merged
<1> HIDE DEF N
<1>4. Merged(b) \in [1..N -> TimedEvents]
  BY <1>1, <1>2, <1>3
<1>5. Merged(b) \in Seq(TimedEvents) /\ Len(Merged(b)) = N
  BY <1>1, <1>4, SeqDef, LenProperties
<1>6. \A x \in Scheduled(b) : Position(b, x) \in 1..N /\ Merged(b)[Position(b, x)] = Due(b, x)
  BY <1>1, <1>3
<1> QED BY <1>1, <1>5, <1>6 DEF N

(* However many pointers, each does its own.                                 *)
LEMMA MergedIsFaithful ==
  ASSUME NEW b, OfPointers(b), NEW o, OwnOf(b, o), \A i \in 1..Len(b) : LastIsUp(b[i].events)
  PROVE  Faithful(Merged(b), o)
<1> DEFINE w == Merged(b)
           S == Scheduled(b)
           p(i, k) == Position(b, <<i, k>>)
<1>1. /\ w \in Seq(TimedEvents) /\ Len(w) \in Nat
      /\ \A x \in S : Position(b, x) \in 1..Len(w) /\ w[Position(b, x)] = Due(b, x)
      /\ \A n \in 1..Len(w) : \E x \in S : n = Position(b, x)
  <2>1. w \in Seq(TimedEvents)
    BY MergedIs
  <2> QED BY <2>1, MergedIs, LenProperties
<1>2. ASSUME NEW i \in 1..Len(b)
      PROVE  /\ i \in Nat /\ b[i].id \in Ids /\ b[i].events \in Seq(TimedEvents) /\ Len(b[i].events) \in Nat
             /\ o[b[i].id] = b[i].events
             /\ \A k \in 1..Len(b[i].events) :
                  /\ k \in Nat /\ <<i, k>> \in S /\ p(i, k) \in 1..Len(w) /\ p(i, k) \in Nat
                  /\ w[p(i, k)] = b[i].events[k] /\ b[i].events[k].id = b[i].id
             /\ \A j, k \in 1..Len(b[i].events) : j < k <=> p(i, j) < p(i, k)
  <2>1. i \in Nat /\ b[i].id \in Ids /\ b[i].events \in Seq(TimedEvents) /\ Len(b[i].events) \in Nat
        /\ o[b[i].id] = b[i].events /\ OnePointer(b[i].events, b[i].id)
    BY LenProperties DEF OfPointers, OnePointer, OwnOf
  <2>2. ASSUME NEW k \in 1..Len(b[i].events)
        PROVE  /\ k \in Nat /\ <<i, k>> \in S /\ p(i, k) \in 1..Len(w) /\ p(i, k) \in Nat
               /\ w[p(i, k)] = b[i].events[k] /\ b[i].events[k].id = b[i].id
               /\ Due(b, <<i, k>>) = b[i].events[k]
    <3>1. <<i, k>> \in S
      BY ScheduledIs
    <3>2. p(i, k) \in 1..Len(w) /\ w[p(i, k)] = Due(b, <<i, k>>)
      BY <1>1, <3>1
    <3>3. Due(b, <<i, k>>) = b[i].events[k]
      BY DEF Due
    <3>4. k \in Nat /\ p(i, k) \in Nat
      BY <1>1, <2>1, <3>2
    <3> HIDE DEF p, w, S
    <3> QED BY <2>1, <3>1, <3>2, <3>3, <3>4 DEF OnePointer
  <2>3. ASSUME NEW j \in 1..Len(b[i].events), NEW k \in 1..Len(b[i].events)
        PROVE  j < k <=> p(i, j) < p(i, k)
    <3>0. b[i].events[j] \in TimedEvents /\ b[i].events[k] \in TimedEvents
      BY <2>1, ElementOfSeq
    <3>1. /\ j \in Nat /\ k \in Nat /\ b[i].events[j].time \in Nat /\ b[i].events[k].time \in Nat
          /\ j <= k => b[i].events[j].time <= b[i].events[k].time
          /\ k <= j => b[i].events[k].time <= b[i].events[j].time
      BY <2>1, <2>2, <3>0 DEF OnePointer, TimedEvents
    <3>2. Before(b, <<i, j>>, <<i, k>>) <=> j < k
      <4>1. /\ Due(b, <<i, j>>) = b[i].events[j] /\ Due(b, <<i, k>>) = b[i].events[k]
            /\ <<i, j>>[1] = i /\ <<i, j>>[2] = j /\ <<i, k>>[1] = i /\ <<i, k>>[2] = k
        BY <2>2
      <4> QED BY <2>1, <3>1, <4>1 DEF Before
    <3>3. Before(b, <<i, j>>, <<i, k>>) <=> p(i, j) < p(i, k)
      BY <2>2, PositionsOrder
    <3> QED BY <3>2, <3>3
  <2> HIDE DEF p, w, S
  <2> QED BY <2>1, <2>2, <2>3
<1>3. ASSUME NEW n \in 1..Len(w)
      PROVE  \E i \in 1..Len(b) : \E k \in 1..Len(b[i].events) : n = p(i, k)
  <2>1. PICK x \in S : n = Position(b, x)
    BY <1>1
  <2>2. x = <<x[1], x[2]>> /\ x[1] \in 1..Len(b) /\ x[2] \in 1..Len(b[x[1]].events)
    BY ScheduledIs
  <2>3. n = Position(b, <<x[1], x[2]>>)
    BY <2>1, <2>2, Zenon
  <2> QED BY <2>2, <2>3
<1>4. ASSUME NEW j \in 1..Len(w), NEW k \in 1..Len(w), j <= k PROVE w[j].time <= w[k].time
  <2>1. PICK x \in S : j = Position(b, x)
    BY <1>1
  <2>2. PICK y \in S : k = Position(b, y)
    BY <1>1
  <2>3. w[j] = Due(b, x) /\ w[k] = Due(b, y) /\ Due(b, x).time \in Nat /\ Due(b, y).time \in Nat /\ j \in Nat /\ k \in Nat
    BY <1>1, <2>1, <2>2, ScheduledIs
  <2>4. ~(k < j)
    BY <1>4, <2>3
  <2>5. ~Before(b, y, x)
    BY <2>1, <2>2, <2>4, PositionsOrder
  <2>6. ~(Due(b, y).time < Due(b, x).time)
    BY <2>5 DEF Before
  <2> QED BY <2>3, <2>6
<1> HIDE DEF p, w, S
<1>5. ASSUME NEW i \in 1..Len(b), NEW k \in 1..Len(b[i].events)
      PROVE  Nth(w, p(i, k)) = k
  <2> DEFINE T == {j \in 1..p(i, k) : w[j].id = w[p(i, k)].id}
             f == [m \in 1..k |-> p(i, m)]
  <2>0. k \in Nat /\ p(i, k) \in 1..Len(w) /\ w[p(i, k)].id = b[i].id /\ p(i, k) \in Nat
    BY <1>2
  <2>1. \A m \in 1..k : /\ m \in 1..Len(b[i].events) /\ m \in Nat /\ ~(k < m)
                        /\ p(i, m) \in Nat /\ p(i, m) \in 1..Len(w) /\ w[p(i, m)].id = b[i].id
    <3> SUFFICES ASSUME NEW m \in 1..k
                 PROVE  /\ m \in 1..Len(b[i].events) /\ m \in Nat /\ ~(k < m)
                        /\ p(i, m) \in Nat /\ p(i, m) \in 1..Len(w) /\ w[p(i, m)].id = b[i].id
      OBVIOUS
    <3>0. Len(b[i].events) \in Nat
      BY <1>2
    <3>1. m \in 1..Len(b[i].events) /\ m \in Nat /\ ~(k < m)
      BY <2>0, <3>0
    <3> QED BY <1>2, <3>1
  <2>2. \A m \in 1..k : p(i, m) \in 1..p(i, k)
    <3> SUFFICES ASSUME NEW m \in 1..k PROVE p(i, m) \in 1..p(i, k)
      OBVIOUS
    <3>1. ~(p(i, k) < p(i, m))
      BY <1>2, <2>1
    <3> QED BY <1>1, <2>0, <2>1, <3>1
  <2>3. f \in [1..k -> T]
    BY <2>0, <2>1, <2>2
  <2>4. \A m, n \in 1..k : f[m] = f[n] => m = n
    <3> SUFFICES ASSUME NEW m \in 1..k, NEW n \in 1..k, p(i, m) = p(i, n) PROVE m = n
      OBVIOUS
    <3>1. ~(p(i, m) < p(i, n)) /\ ~(p(i, n) < p(i, m))
      BY <2>1
    <3>2. ~(m < n) /\ ~(n < m)
      BY <1>2, <2>1, <3>1
    <3> QED BY <2>1, <3>2
  <2>5. \A t \in T : \E m \in 1..k : f[m] = t
    <3> SUFFICES ASSUME NEW t \in T PROVE \E m \in 1..k : p(i, m) = t
      OBVIOUS
    <3>1. t \in 1..Len(w) /\ w[t].id = b[i].id /\ ~(p(i, k) < t)
      BY <1>1, <2>0
    <3>2a. PICK h \in 1..Len(b) : \E m \in 1..Len(b[h].events) : t = p(h, m)
      BY <1>3, <3>1
    <3>2. PICK m \in 1..Len(b[h].events) : t = p(h, m)
      BY <3>2a
    <3>a. w[p(h, m)].id = b[h].id
      BY <1>2
    <3>3. b[h].id = b[i].id
      BY <3>1, <3>2, <3>a
    <3>4. h = i
      BY <3>3 DEF OfPointers
    <3>q. m \in 1..Len(b[i].events)
      BY <3>2, <3>4
    <3>r. k < m <=> p(i, k) < p(i, m)
      BY <1>2, <3>q
    <3>5. ~(k < m) /\ m \in Nat
      BY <1>2, <3>1, <3>2, <3>4, <3>q, <3>r
    <3>6. m \in 1..k
      BY <2>0, <3>2, <3>5
    <3> QED BY <3>2, <3>4, <3>6
  <2> HIDE DEF f, T
  <2>a. k \in Nat
    BY <2>0
  <2>6. Cardinality(T) = k
    BY <2>a, <2>3, <2>4, <2>5, CountedIs
  <2> QED BY <2>6 DEF T, Nth
<1>6. \A n \in 1..Len(w) : Nth(w, n) <= Len(o[w[n].id]) /\ w[n] = o[w[n].id][Nth(w, n)]
  <2> SUFFICES ASSUME NEW n \in 1..Len(w) PROVE Nth(w, n) <= Len(o[w[n].id]) /\ w[n] = o[w[n].id][Nth(w, n)]
    OBVIOUS
  <2>1a. PICK i \in 1..Len(b) : \E k \in 1..Len(b[i].events) : n = p(i, k)
    BY <1>3
  <2>1. PICK k \in 1..Len(b[i].events) : n = p(i, k)
    BY <2>1a
  <2>2. Nth(w, n) = k /\ w[n] = b[i].events[k] /\ w[n].id = b[i].id /\ o[b[i].id] = b[i].events
    BY <1>2, <1>5, <2>1
  <2>3. k <= Len(b[i].events)
    BY <1>2
  <2> QED BY <2>2, <2>3
<1>7. ASSUME NEW id \in Ids PROVE Cardinality({n \in 1..Len(w) : w[n].id = id}) = Len(o[id])
  <2> DEFINE T == {n \in 1..Len(w) : w[n].id = id}
  <2>1. CASE \A i \in 1..Len(b) : b[i].id # id
    <3>1. T = {}
      <4> SUFFICES ASSUME NEW n \in T PROVE FALSE
        OBVIOUS
      <4>1a. PICK i \in 1..Len(b) : \E k \in 1..Len(b[i].events) : n = p(i, k)
        BY <1>3
      <4>1. PICK k \in 1..Len(b[i].events) : n = p(i, k)
        BY <4>1a
      <4>2. w[p(i, k)].id = b[i].id
        BY <1>2
      <4> QED BY <2>1, <4>1, <4>2
    <3>2. o[id] = <<>>
      BY <2>1 DEF OwnOf
    <3> HIDE DEF T
    <3>3. Cardinality(T) = 0 /\ Len(o[id]) = 0
      BY <3>1, <3>2, FS_EmptySet
    <3> QED BY <3>3 DEF T
  <2>2. ASSUME NEW i \in 1..Len(b), b[i].id = id PROVE Cardinality(T) = Len(o[id])
    <3> DEFINE k == Len(b[i].events)
               f == [m \in 1..k |-> p(i, m)]
    <3>0. k \in Nat /\ o[id] = b[i].events
      BY <1>2, <2>2
    <3>1. \A m \in 1..k : p(i, m) \in Nat /\ p(i, m) \in 1..Len(w) /\ w[p(i, m)].id = id
      BY <1>2, <2>2
    <3>3. f \in [1..k -> T]
      BY <3>1
    <3>4. \A m, n \in 1..k : f[m] = f[n] => m = n
      <4> SUFFICES ASSUME NEW m \in 1..k, NEW n \in 1..k, p(i, m) = p(i, n) PROVE m = n
        OBVIOUS
      <4>1. ~(p(i, m) < p(i, n)) /\ ~(p(i, n) < p(i, m)) /\ m \in Nat /\ n \in Nat
        BY <3>0, <3>1
      <4>2. ~(m < n) /\ ~(n < m)
        BY <1>2, <4>1
      <4> QED BY <4>1, <4>2
    <3>5. \A t \in T : \E m \in 1..k : f[m] = t
      <4> SUFFICES ASSUME NEW t \in T PROVE \E m \in 1..k : p(i, m) = t
        OBVIOUS
      <4>2a. PICK h \in 1..Len(b) : \E m \in 1..Len(b[h].events) : t = p(h, m)
        BY <1>3
      <4>2. PICK m \in 1..Len(b[h].events) : t = p(h, m)
        BY <4>2a
      <4>a. w[p(h, m)].id = b[h].id
        BY <1>2
      <4>3. b[h].id = b[i].id
        BY <2>2, <4>2, <4>a
      <4>4. h = i
        BY <4>3 DEF OfPointers
      <4> QED BY <4>2, <4>4
    <3> HIDE DEF f, T, k
    <3>6. Cardinality(T) = k
      BY <3>0, <3>3, <3>4, <3>5, CountedIs
    <3> QED BY <3>0, <3>6 DEF k
  <2> QED BY <2>1, <2>2
<1>8. Lifted(w, o)
  <2> SUFFICES ASSUME NEW id \in Ids, NEW l \in 1..Len(o[id]), o[id][l].type = "up"
               PROVE  \E n \in 1..Len(w) : /\ w[n].id = id /\ w[n].type = "up"
                                           /\ \A m \in (n + 1)..Len(w) : w[m].id # id
    BY DEF Lifted
  <2>1. PICK i \in 1..Len(b) : b[i].id = id
    <3> SUFFICES ASSUME \A i \in 1..Len(b) : b[i].id # id PROVE FALSE
      OBVIOUS
    <3>1. o[id] = <<>>
      BY DEF OwnOf
    <3> QED BY <3>1
  <2> DEFINE k == Len(b[i].events)
             n == p(i, k)
  <2>2. o[id] = b[i].events /\ k \in Nat /\ l \in 1..k
    BY <1>2, <2>1
  <2>3. k \in 1..k /\ b[i].events[k].type = "up"
    BY <2>2 DEF LastIsUp
  <2>4. n \in 1..Len(w) /\ w[n] = b[i].events[k] /\ w[n].id = id /\ n \in Nat
    BY <1>2, <2>1, <2>3
  <2>5. ASSUME NEW m \in (n + 1)..Len(w), w[m].id = id PROVE FALSE
    <3>0. m \in 1..Len(w) /\ n < m
      BY <1>1, <2>4
    <3>1a. PICK h \in 1..Len(b) : \E q \in 1..Len(b[h].events) : m = p(h, q)
      BY <1>3, <3>0
    <3>1. PICK q \in 1..Len(b[h].events) : m = p(h, q)
      BY <3>1a
    <3>a. w[p(h, q)].id = b[h].id
      BY <1>2
    <3>2. h = i
      BY <2>1, <2>5, <3>1, <3>a DEF OfPointers
    <3>3. k < q
      BY <1>2, <2>3, <3>0, <3>1, <3>2
    <3> QED BY <2>2, <3>1, <3>2, <3>3
  <2> QED BY <2>3, <2>4, <2>5
<1> QED BY <1>1, <1>4, <1>6, <1>7, <1>8 DEF Faithful, InOrder, EachItsOwn, w

-----------------------------------------------------------------------------
(* Gestures: what the builders and the pointer's own gestures are made of.   *)

(* Steps or a duration, with an easing.                                      *)
Interps == [by : {"steps", "duration"}, n : Nat, easing : Easings]

(* Events of one pointer, in the order of their times, between two times.    *)
Within(s, id, a, b) ==
  /\ OnePointer(s, id)
  /\ \A k \in 1..Len(s) : a <= s[k].time /\ s[k].time <= b

(* What Straight asks for of each pointer.                                   *)
StraightWay(s) ==
  \A i, j, k \in 1..Len(s) :
    i < j /\ j < k /\ s[k].type = "move" =>
      \/ s[i].at <= s[j].at /\ s[j].at <= s[k].at
      \/ s[i].at >= s[j].at /\ s[j].at >= s[k].at

(* An event alone, and events after others.                                  *)
LEMMA OneEvent ==
  ASSUME NEW e \in TimedEvents, NEW b \in Nat, e.time <= b
  PROVE  Within(<<e>>, e.id, 0, b) /\ Within(<<e>>, e.id, e.time, b) /\ StraightWay(<<e>>) /\ LastIsUp(<<e>>)
<1>1. <<e>> \in Seq(TimedEvents) /\ Len(<<e>>) = 1 /\ <<e>>[1] = e /\ 1..1 = {1} /\ e.time \in Nat
  BY DEF TimedEvents
<1> HIDE DEF TimedEvents
<1> DEFINE s == <<e>>
<1>2. s \in Seq(TimedEvents) /\ Len(s) = 1 /\ s[1] = e
  BY <1>1
<1> HIDE DEF s
<1>3. \A k \in 1..Len(s) : s[k] = e /\ k = 1
  BY <1>2
<1>4. Within(s, e.id, 0, b) /\ Within(s, e.id, e.time, b) /\ StraightWay(s) /\ LastIsUp(s)
  BY <1>1, <1>2, <1>3 DEF Within, OnePointer, StraightWay, LastIsUp
<1> QED BY <1>4 DEF s

(* What comes later after what comes earlier is in the order of the times.   *)
LEMMA OneAfterAnother ==
  ASSUME NEW id, NEW a \in Nat, NEW b \in Nat, NEW c \in Nat, a <= b, b <= c,
         NEW s, Within(s, id, a, b), NEW t, Within(t, id, b, c)
  PROVE  Within(s \o t, id, a, c)
<1>1. s \in Seq(TimedEvents) /\ t \in Seq(TimedEvents) /\ Len(s) \in Nat /\ Len(t) \in Nat
  <2>1. s \in Seq(TimedEvents) /\ t \in Seq(TimedEvents)
    BY DEF Within, OnePointer
  <2> QED BY <2>1, LenProperties
<1>2. /\ s \o t \in Seq(TimedEvents) /\ Len(s \o t) = Len(s) + Len(t)
      /\ \A i \in 1..(Len(s) + Len(t)) : (s \o t)[i] = IF i <= Len(s) THEN s[i] ELSE t[i - Len(s)]
  BY <1>1, ConcatProperties
<1>3. /\ \A i \in 1..Len(s) : s[i].time \in Nat /\ s[i].id = id /\ a <= s[i].time /\ s[i].time <= b
      /\ \A i \in 1..Len(t) : t[i].time \in Nat /\ t[i].id = id /\ b <= t[i].time /\ t[i].time <= c
      /\ \A j, k \in 1..Len(s) : j <= k => s[j].time <= s[k].time
      /\ \A j, k \in 1..Len(t) : j <= k => t[j].time <= t[k].time
  <2>1. (\A i \in 1..Len(s) : s[i] \in TimedEvents) /\ (\A i \in 1..Len(t) : t[i] \in TimedEvents)
    BY <1>1, ElementOfSeq
  <2>2. (\A i \in 1..Len(s) : s[i].time \in Nat) /\ (\A i \in 1..Len(t) : t[i].time \in Nat)
    BY <2>1 DEF TimedEvents
  <2> QED BY <2>2 DEF Within, OnePointer
<1> DEFINE u == s \o t
<1>4. Len(u) = Len(s) + Len(t) /\ u \in Seq(TimedEvents)
      /\ \A i \in 1..Len(u) : u[i] = IF i <= Len(s) THEN s[i] ELSE t[i - Len(s)]
  BY <1>2
<1> HIDE DEF u
<1>5. \A i \in 1..Len(u) : i \in Nat /\ (i <= Len(s) => i \in 1..Len(s)) /\ (~(i <= Len(s)) => i - Len(s) \in 1..Len(t))
  BY <1>1, <1>4
<1>6. \A k \in 1..Len(u) : /\ u[k].id = id /\ a <= u[k].time /\ u[k].time <= c /\ u[k].time \in Nat
                           /\ k <= Len(s) => u[k].time <= b
                           /\ ~(k <= Len(s)) => b <= u[k].time
  <2> TAKE k \in 1..Len(u)
  <2>1. CASE k <= Len(s)
    <3>1. u[k] = s[k] /\ k \in 1..Len(s)
      BY <1>4, <1>5, <2>1
    <3>2. s[k].time \in Nat /\ s[k].id = id /\ a <= s[k].time /\ s[k].time <= b
      BY <1>3, <3>1
    <3> HIDE DEF u
    <3> QED BY <2>1, <3>1, <3>2
  <2>2. CASE ~(k <= Len(s))
    <3>1. u[k] = t[k - Len(s)] /\ k - Len(s) \in 1..Len(t)
      BY <1>4, <1>5, <2>2
    <3>2. t[k - Len(s)].time \in Nat /\ t[k - Len(s)].id = id /\ b <= t[k - Len(s)].time /\ t[k - Len(s)].time <= c
      BY <1>3, <3>1
    <3> QED BY <2>2, <3>1, <3>2
  <2> QED BY <2>1, <2>2
<1>7. ASSUME NEW j \in 1..Len(u), NEW k \in 1..Len(u), j <= k PROVE u[j].time <= u[k].time
  <2>1. CASE k <= Len(s)
    <3>1. j <= Len(s) /\ j \in 1..Len(s) /\ k \in 1..Len(s)
      BY <1>1, <1>5, <1>7, <2>1
    <3>2. u[j] = s[j] /\ u[k] = s[k]
      BY <1>4, <2>1, <3>1
    <3> QED BY <1>3, <1>7, <3>1, <3>2
  <2>2. CASE ~(j <= Len(s))
    <3>1. ~(k <= Len(s)) /\ j - Len(s) <= k - Len(s)
      BY <1>1, <1>5, <1>7, <2>2
    <3> QED BY <1>3, <1>4, <1>5, <2>2, <3>1
  <2>3. CASE j <= Len(s) /\ ~(k <= Len(s))
    BY <1>6, <2>3
  <2> QED BY <2>1, <2>2, <2>3
<1>8. Within(u, id, a, c)
  BY <1>4, <1>6, <1>7 DEF Within, OnePointer
<1> QED BY <1>8 DEF u

(* The events of a move (gesture-builder.ts:151-173, pointer.ts): as many as *)
(* it has steps, each a delay after the one before.                          *)
LEMMA MovesAre ==
  ASSUME NEW id \in Ids, NEW from \in Int, NEW to \in Int, NEW interp \in Interps, NEW start \in Nat
  PROVE  LET n == Steps(interp)
             s == Moves(id, from, to, interp, start)
             there(m) == Between(from, to, Eased(interp.easing, m, n), n * n) IN
         /\ n \in Nat /\ n > 0 /\ StepDelay(interp) \in Nat /\ Lasts(interp) \in Nat
         /\ Within(s, id, start, start + Lasts(interp)) /\ Len(s) = n
         /\ \A i \in 1..n : s[i].type = "move" /\ s[i].at = there(i)
<1> DEFINE n == Steps(interp)
           d == StepDelay(interp)
           there(m) == Between(from, to, Eased(interp.easing, m, n), n * n)
           s == Moves(id, from, to, interp, start)
<1>1. n \in Nat /\ n > 0
  <2>1. interp.n \in Nat /\ interp.easing \in Easings
    BY DEF Interps
  <2>2. (interp.n + 8) \div 16 \in Int
    BY <2>1
  <2> QED BY <2>1, <2>2 DEF Steps, AtLeastOne
<1>2. d \in Nat
  <2>1. interp.n \in Nat
    BY DEF Interps
  <2> HIDE DEF n
  <2>2. interp.n \div n \in Nat
    BY <1>1, <2>1, Z3
  <2> QED BY <1>1, <2>2 DEF StepDelay, n
<1>3. n * d \in Nat /\ Lasts(interp) = n * d
  <2>1. Lasts(interp) = n * d
    BY DEF Lasts
  <2> HIDE DEF n, d
  <2> QED BY <1>1, <1>2, <2>1, Z3
<1>4. s = [i \in 1..n |-> Event(start + i * d, "move", id, there(i))]
  BY DEF Moves
<1>5. \A i \in 0..n : there(i) \in Int
  <2>1. interp.easing \in Easings
    BY DEF Interps
  <2> HIDE DEF n
  <2>2. \A i \in 0..n : i <= i
    BY <1>1
  <2> QED BY <1>1, <2>1, <2>2, MovesGoOneWay DEF there
<1> HIDE DEF n, d, there, s
<1>6. \A i, j \in 1..n : /\ i * d \in Nat /\ i * d <= n * d /\ i \in Nat
                         /\ i <= j => i * d <= j * d
  <2> TAKE i, j \in 1..n
  <2>1. i \in Nat /\ j \in Nat /\ i <= n
    BY <1>1
  <2>2. i * d \in Nat /\ i * d <= n * d /\ (i <= j => i * d <= j * d)
    BY <1>1, <1>2, <2>1, ProductOrder
  <2> QED BY <2>1, <2>2
<1>7. s \in [1..n -> TimedEvents]
  <2>1. \A i \in 1..n : i \in 0..n
    BY <1>1
  <2> QED BY <1>4, <1>5, <1>6, <2>1 DEF Event, TimedEvents
<1>8. s \in Seq(TimedEvents) /\ Len(s) = n
  BY <1>1, <1>7, SeqDef, LenProperties
<1>9. \A i \in 1..n : s[i].type = "move" /\ s[i].at = there(i) /\ s[i].id = id /\ s[i].time = start + i * d
  BY <1>4 DEF Event
<1>10. Within(s, id, start, start + Lasts(interp))
  BY <1>3, <1>6, <1>8, <1>9 DEF Within, OnePointer
<1> QED BY <1>1, <1>2, <1>3, <1>8, <1>9, <1>10 DEF n, d, there, s

(* A finger that goes down, moves and goes up.                               *)
Stroke(id, from, to, interp, hold) ==
  <<Event(0, "down", id, from)>> \o Moves(id, from, to, interp, hold)
    \o <<Event(hold + Lasts(interp) + hold, "up", id, Nowhere)>>

(* It goes straight, in the order of its times, and ends with the up.        *)
LEMMA StrokeIs ==
  ASSUME NEW id \in Ids, NEW from \in Int, NEW to \in Int, NEW interp \in Interps, NEW hold \in Nat
  PROVE  LET s == Stroke(id, from, to, interp, hold) IN
         /\ OnePointer(s, id) /\ StraightWay(s) /\ LastIsUp(s)
<1> DEFINE n == Steps(interp)
           l == Lasts(interp)
           m == Moves(id, from, to, interp, hold)
           d == Event(0, "down", id, from)
           u == Event(hold + l + hold, "up", id, Nowhere)
           there(i) == Between(from, to, Eased(interp.easing, i, n), n * n)
           s == (<<d>> \o m) \o <<u>>
<1>1. n \in Nat /\ n > 0 /\ l \in Nat /\ Within(m, id, hold, hold + l) /\ Len(m) = n
      /\ \A i \in 1..n : m[i].type = "move" /\ m[i].at = there(i)
  BY MovesAre
<1>2. /\ d \in TimedEvents /\ d.id = id /\ d.time = 0 /\ d.at = from
      /\ u \in TimedEvents /\ u.id = id /\ u.time = hold + l + hold /\ u.type = "up"
  BY <1>1 DEF Event, TimedEvents, Nowhere
<1>3. /\ there(0) = from
      /\ from <= to => \A i, j \in 0..n : i <= j => there(i) <= there(j)
      /\ to <= from => \A i, j \in 0..n : i <= j => there(j) <= there(i)
  <2>1. interp.easing \in Easings /\ 0 \in 0..n /\ 0 <= 0
    BY <1>1 DEF Interps
  <2> HIDE DEF n
  <2>2. there(0) = from
    BY <1>1, <2>1, MovesGoOneWay DEF there
  <2>3. ASSUME NEW i \in 0..n, NEW j \in 0..n, i <= j
        PROVE  (from <= to => there(i) <= there(j)) /\ (to <= from => there(j) <= there(i))
    BY <1>1, <2>1, <2>3, MovesGoOneWay DEF there
  <2> QED BY <2>2, <2>3
<1> HIDE DEF n, l, m, d, u, there
<1>4. Within(<<d>>, id, 0, hold)
  BY <1>2, OneEvent
<1>5. Within(<<u>>, id, hold + l + hold, hold + l + hold)
  <2>1. u.time \in Nat /\ u.time <= u.time
    BY <1>1, <1>2
  <2> QED BY <1>2, <2>1, OneEvent
<1>6. Within(<<u>>, id, hold + l, hold + l + hold)
  <2>1. hold + l <= hold + l + hold
    BY <1>1
  <2>2. Len(<<u>>) = 1 /\ <<u>>[1] = u
    OBVIOUS
  <2> QED BY <1>1, <1>2, <1>5, <2>1, <2>2 DEF Within
<1>7. Within(<<d>> \o m, id, 0, hold + l)
  <2>1. 0 <= hold /\ hold <= hold + l /\ 0 \in Nat /\ hold + l \in Nat
    BY <1>1
  <2> QED BY <1>1, <1>4, <2>1, OneAfterAnother
<1>8. Within(s, id, 0, hold + l + hold)
  <2>1. 0 <= hold + l /\ hold + l <= hold + l + hold /\ 0 \in Nat /\ hold + l \in Nat /\ hold + l + hold \in Nat
    BY <1>1
  <2> QED BY <1>6, <1>7, <2>1, OneAfterAnother
<1>9. m \in Seq(TimedEvents) /\ <<d>> \in Seq(TimedEvents) /\ <<u>> \in Seq(TimedEvents)
  BY <1>1, <1>2 DEF Within, OnePointer
<1>10. /\ Len(s) = n + 2 /\ s[1] = d /\ s[n + 2] = u
       /\ \A i \in 1..n : s[i + 1] = m[i]
  BY <1>1, <1>9
<1>11. OnePointer(s, id)
  BY <1>8 DEF Within
<1> HIDE DEF s
<1>12. LastIsUp(s)
  BY <1>1, <1>2, <1>10 DEF LastIsUp
<1>13. StraightWay(s)
  <2>1. \A i \in 1..(n + 1) : s[i].at = there(i - 1)
    <3> TAKE i \in 1..(n + 1)
    <3>1. CASE i = 1
      BY <1>2, <1>3, <1>10, <3>1
    <3>2. CASE i # 1
      <4>1. i - 1 \in 1..n /\ (i - 1) + 1 = i
        BY <1>1, <3>2
      <4> QED BY <1>1, <1>10, <4>1
    <3> QED BY <3>1, <3>2
  <2> SUFFICES ASSUME NEW i \in 1..Len(s), NEW j \in 1..Len(s), NEW k \in 1..Len(s),
                      i < j, j < k, s[k].type = "move"
               PROVE  \/ s[i].at <= s[j].at /\ s[j].at <= s[k].at
                      \/ s[i].at >= s[j].at /\ s[j].at >= s[k].at
    BY DEF StraightWay
  <2>2. k # n + 2
    BY <1>2, <1>10
  <2>3. i \in 1..(n + 1) /\ j \in 1..(n + 1) /\ k \in 1..(n + 1) /\ i - 1 \in 0..n /\ j - 1 \in 0..n /\ k - 1 \in 0..n
        /\ i - 1 <= j - 1 /\ j - 1 <= k - 1
    BY <1>1, <1>10, <2>2
  <2>4. from <= to \/ to <= from
    OBVIOUS
  <2> QED
    <3>1. s[i].at = there(i - 1) /\ s[j].at = there(j - 1) /\ s[k].at = there(k - 1)
      BY <2>1, <2>3
    <3>2. CASE from <= to
      <4>1. there(i - 1) <= there(j - 1) /\ there(j - 1) <= there(k - 1)
        <5>1. \A q, r \in 0..n : q <= r => there(q) <= there(r)
          BY <1>3, <3>2
        <5> QED BY <2>3, <5>1
      <4> QED BY <3>1, <4>1
    <3>3. CASE to <= from
      <4>1. there(k - 1) <= there(j - 1) /\ there(j - 1) <= there(i - 1)
        <5>1. \A q, r \in 0..n : q <= r => there(r) <= there(q)
          BY <1>3, <3>3
        <5> QED BY <2>3, <5>1
      <4>2. there(k - 1) \in Int /\ there(j - 1) \in Int /\ there(i - 1) \in Int
        <5>1. \A q \in 0..n : there(q) \in Int
          <6>1. interp.easing \in Easings
            BY DEF Interps
          <6>2. \A q \in 0..n : q <= q
            BY <1>1
          <6> QED BY <1>1, <6>1, <6>2, MovesGoOneWay DEF there
        <5> QED BY <2>3, <5>1
      <4> QED BY <3>1, <4>1, <4>2
    <3> QED BY <2>4, <3>2, <3>3
<1> QED BY <1>11, <1>12, <1>13 DEF Stroke, s, d, m, u, l

(* One pointer alone does what is its own.                                   *)
LEMMA AloneIsFaithful ==
  ASSUME NEW s, OnePointer(s, 0), LastIsUp(s)
  PROVE  Faithful(s, Alone(s))
<1> DEFINE o == Alone(s)
<1>1. o[0] = s /\ o[1] = <<>> /\ Ids = {0, 1} /\ \A id \in Ids : id = 0 \/ id = 1
  <2>1. 0 \in Ids /\ 1 \in Ids /\ Ids = {0, 1}
    BY DEF Ids
  <2> QED BY <2>1 DEF Alone
<1> HIDE DEF o
<1>2. s \in Seq(TimedEvents) /\ Len(s) \in Nat /\ InOrder(s) /\ \A k \in 1..Len(s) : s[k].id = 0
  BY LenProperties DEF OnePointer, InOrder
<1>3. ASSUME NEW k \in 1..Len(s) PROVE Nth(s, k) = k
  <2>1. {j \in 1..k : s[j].id = s[k].id} = 1..k
    BY <1>2
  <2>2. k \in Nat
    BY <1>2
  <2>3. Cardinality(1..k) = k
    BY <2>2, FS_Interval
  <2> QED BY <2>1, <2>3 DEF Nth
<1>4. Cardinality({k \in 1..Len(s) : s[k].id = 0}) = Len(o[0])
  <2>1. {k \in 1..Len(s) : s[k].id = 0} = 1..Len(s)
    BY <1>2
  <2>2. Cardinality(1..Len(s)) = Len(s)
    BY <1>2, FS_Interval
  <2> QED BY <1>1, <2>1, <2>2
<1>5. Cardinality({k \in 1..Len(s) : s[k].id = 1}) = Len(o[1])
  <2>1. {k \in 1..Len(s) : s[k].id = 1} = {}
    BY <1>2
  <2>2. Cardinality({}) = 0 /\ Len(<<>>) = 0
    BY FS_EmptySet
  <2> QED BY <1>1, <2>1, <2>2
<1>6. EachItsOwn(s, o)
  <2>1. \A k \in 1..Len(s) : Nth(s, k) <= Len(o[s[k].id]) /\ s[k] = o[s[k].id][Nth(s, k)]
    <3> TAKE k \in 1..Len(s)
    <3>1. Nth(s, k) = k /\ s[k].id = 0 /\ k <= Len(s)
      BY <1>2, <1>3
    <3> QED BY <1>1, <3>1
  <2> QED BY <1>1, <1>4, <1>5, <2>1 DEF EachItsOwn
<1>7. Lifted(s, o)
  <2> SUFFICES ASSUME NEW id \in Ids, NEW l \in 1..Len(o[id]), o[id][l].type = "up"
               PROVE  \E k \in 1..Len(s) : s[k].id = id /\ s[k].type = "up" /\ \A m \in (k + 1)..Len(s) : s[m].id # id
    BY DEF Lifted
  <2>1. id = 0 /\ l \in 1..Len(s) /\ s[l].type = "up"
    <3>1. id # 1
      <4> SUFFICES ASSUME id = 1 PROVE FALSE
        OBVIOUS
      <4>1. Len(o[id]) = 0
        BY <1>1
      <4> QED BY <4>1
    <3> QED BY <1>1, <3>1
  <2>2. s[Len(s)].type = "up" /\ Len(s) \in 1..Len(s)
    BY <1>2, <2>1 DEF LastIsUp
  <2>3. \A m \in (Len(s) + 1)..Len(s) : FALSE
    BY <1>2
  <2> QED BY <1>2, <2>1, <2>2, <2>3
<1> QED BY <1>2, <1>6, <1>7 DEF Faithful, o

(* What each pointer is to do on its own are the events of its builder.      *)
LEMMA BuildersOwn ==
  ASSUME NEW b, OfPointers(b)
  PROVE  OwnOf(b, [id \in Ids |-> LET mine == {i \in 1..Len(b) : b[i].id = id} IN
                                  IF mine = {} THEN <<>> ELSE b[CHOOSE i \in mine : TRUE].events])
<1> DEFINE mine(id) == {i \in 1..Len(b) : b[i].id = id}
           o == [id \in Ids |-> IF mine(id) = {} THEN <<>> ELSE b[CHOOSE i \in mine(id) : TRUE].events]
<1>1. ASSUME NEW i \in 1..Len(b) PROVE o[b[i].id] = b[i].events
  <2>1. b[i].id \in Ids /\ mine(b[i].id) = {i}
    BY DEF OfPointers
  <2>2. (CHOOSE j \in mine(b[i].id) : TRUE) = i
    BY <2>1
  <2> QED BY <2>1, <2>2
<1>2. ASSUME NEW id \in Ids, \A i \in 1..Len(b) : b[i].id # id PROVE o[id] = <<>>
  BY <1>2
<1> QED BY <1>1, <1>2 DEF OwnOf

(* A builder with those events, at that place and time.                      *)
Builder(i, es, a, t) == [id |-> i, events |-> es, at |-> a, time |-> t]

(* What such a builder has.                                                  *)
LEMMA BuiltIs ==
  ASSUME NEW i, NEW es, NEW a, NEW t
  PROVE  LET b == Builder(i, es, a, t) IN b.id = i /\ b.events = es /\ b.at = a /\ b.time = t
BY DEF Builder

(* What its calls add to it (gesture-builder.ts).                            *)
LEMMA BuildsMore ==
  ASSUME NEW i, NEW es, NEW a, NEW t, NEW more, NEW to
  PROVE  Adds(Builder(i, es, a, t), more, to) = Builder(i, es \o more, to, t)
<1> DEFINE b == Builder(i, es, a, t)
           e == es \o more
<1>1. Adds(b, more, to) = [b EXCEPT !.events = b.events \o more, !.at = to]
  BY DEF Adds
<1>2. b.events = es
  BY BuiltIs
<1>3. Adds(b, more, to) = [b EXCEPT !.events = e, !.at = to]
  BY <1>1, <1>2
<1> HIDE DEF e
<1>4. Adds(b, more, to) = Builder(i, e, to, t)
  BY <1>3 DEF Builder
<1> QED BY <1>4 DEF e

(* A wait adds to its time alone.                                            *)
LEMMA BuildsWait ==
  ASSUME NEW i, NEW es, NEW a, NEW t, NEW ms
  PROVE  BuildWait(Builder(i, es, a, t), ms) = Builder(i, es, a, t + ms)
<1> DEFINE b == Builder(i, es, a, t)
           u == t + ms
<1>1. BuildWait(b, ms) = [b EXCEPT !.time = b.time + ms]
  BY DEF BuildWait
<1>2. b.time = t
  BY BuiltIs
<1>3. BuildWait(b, ms) = [b EXCEPT !.time = u]
  BY <1>1, <1>2
<1> HIDE DEF u
<1>4. BuildWait(b, ms) = Builder(i, es, a, u)
  BY <1>3 DEF Builder
<1> QED BY <1>4 DEF u

(* An up is added at its time.                                               *)
LEMMA BuildsUp ==
  ASSUME NEW i, NEW es, NEW a, NEW t
  PROVE  BuildUp(Builder(i, es, a, t)) = Builder(i, es \o <<Event(t, "up", i, Nowhere)>>, a, t)
<1> DEFINE b == Builder(i, es, a, t)
           u == <<Event(t, "up", i, Nowhere)>>
<1>1. b.id = i /\ b.at = a /\ b.time = t
  BY BuiltIs
<1> HIDE DEF b
<1>2. BuildUp(b) = Adds(b, u, a)
  BY <1>1, Zenon DEF BuildUp
<1> HIDE DEF u
<1>3. Adds(b, u, a) = Builder(i, es \o u, a, t)
  BY BuildsMore DEF b
<1> QED BY <1>2, <1>3, Zenon DEF b, u

(* The first call of a builder.                                              *)
LEMMA BuildsDown ==
  ASSUME NEW i \in Ids, NEW q \in Int
  PROVE  BuildDown(NewBuilder(i), q) = Builder(i, <<Event(0, "down", i, q)>>, q, 0)
<1> DEFINE d == <<Event(0, "down", i, q)>>
<1>1. Event(0, "down", i, q) \in TimedEvents
  BY DEF Event, TimedEvents
<1>2. d \in Seq(TimedEvents)
  BY <1>1
<1>3. <<>> \o d = d
  BY <1>2, ConcatEmptySeq
<1>4. NewBuilder(i) = Builder(i, <<>>, Nowhere, 0)
  BY DEF NewBuilder, Builder
<1> DEFINE b == Builder(i, <<>>, Nowhere, 0)
<1>b. b.id = i /\ b.time = 0
  BY BuiltIs
<1> HIDE DEF b
<1>5. BuildDown(NewBuilder(i), q) = Builder(i, <<>> \o d, q, 0)
  <2>1. BuildDown(b, q) = Adds(b, d, q)
    BY <1>b, Zenon DEF BuildDown
  <2> HIDE DEF d
  <2>2. Adds(b, d, q) = Builder(i, <<>> \o d, q, 0)
    <3> DEFINE z == <<>>
    <3>1. Adds(Builder(i, z, Nowhere, 0), d, q) = Builder(i, z \o d, q, 0)
      <4> HIDE DEF z
      <4> QED BY BuildsMore
    <3> QED BY <3>1, Zenon DEF b, z
  <2> QED BY <1>4, <2>1, <2>2, Zenon DEF b
<1> HIDE DEF d
<1>6. BuildDown(NewBuilder(i), q) = Builder(i, d, q, 0)
  BY <1>3, <1>5, Zenon
<1> QED BY <1>6 DEF d

(* A move from a place that is known.                                        *)
LEMMA BuildsMoves ==
  ASSUME NEW i, NEW es, NEW a, NEW t, NEW to, NEW interp, a # Nowhere
  PROVE  BuildMoveTo(Builder(i, es, a, t), to, interp)
           = Builder(i, es \o Moves(i, a, to, interp, t), to, t + Lasts(interp))
<1> DEFINE b == Builder(i, es, a, t)
           m == Moves(i, a, to, interp, t)
<1>1. b.id = i /\ b.at = a /\ b.time = t
  BY BuiltIs
<1> HIDE DEF b
<1>2. BuildMoveTo(b, to, interp) = BuildWait(Adds(b, m, to), Lasts(interp))
  BY <1>1, Zenon DEF BuildMoveTo, m
<1> HIDE DEF m
<1>3. Adds(b, m, to) = Builder(i, es \o m, to, t)
  BY BuildsMore DEF b
<1>4. BuildWait(Builder(i, es \o m, to, t), Lasts(interp)) = Builder(i, es \o m, to, t + Lasts(interp))
  BY BuildsWait
<1> QED BY <1>2, <1>3, <1>4, Zenon DEF b, m

(* A finger of pinch and rotate is such a stroke (pointer.ts).               *)
LEMMA FingerIs ==
  ASSUME NEW id \in Ids, NEW from \in Nat, NEW to \in Nat, NEW interp \in Interps, NEW hold \in Nat
  PROVE  LET f == Finger(id, from, to, interp, hold) IN
         f.id = id /\ f.events = Stroke(id, from, to, interp, hold)
<1> DEFINE d == <<Event(0, "down", id, from)>>
           m == Moves(id, from, to, interp, hold)
           l == Lasts(interp)
           u == <<Event(hold + l + hold, "up", id, Nowhere)>>
           b1 == BuildWait(BuildDown(NewBuilder(id), from), hold)
           b2 == BuildWait(BuildMoveTo(b1, to, interp), hold)
<1>0. from # Nowhere /\ l \in Nat
  <2>1. from \in Int /\ to \in Int /\ from # Nowhere
    BY DEF Nowhere
  <2> QED BY <2>1, MovesAre
<1>1. b1 = Builder(id, d, from, hold)
  <2>1. BuildDown(NewBuilder(id), from) = Builder(id, d, from, 0)
    <3>1. from \in Int
      OBVIOUS
    <3> QED BY <3>1, BuildsDown
  <2>2. BuildWait(Builder(id, d, from, 0), hold) = Builder(id, d, from, 0 + hold)
    BY BuildsWait
  <2>3. 0 + hold = hold
    OBVIOUS
  <2> QED BY <2>1, <2>2, <2>3, Zenon
<1> HIDE DEF d, b1
<1>2. b2 = Builder(id, d \o m, to, (hold + l) + hold)
  <2>1. BuildMoveTo(Builder(id, d, from, hold), to, interp) = Builder(id, d \o m, to, hold + l)
    BY <1>0, BuildsMoves DEF m, l
  <2>2. BuildWait(Builder(id, d \o m, to, hold + l), hold) = Builder(id, d \o m, to, (hold + l) + hold)
    BY BuildsWait
  <2> QED BY <1>1, <2>1, <2>2, Zenon DEF b2
<1> HIDE DEF m, l, b2
<1>3. Finger(id, from, to, interp, hold) = BuildUp(b2)
  BY DEF Finger, b2, b1
<1>4. BuildUp(b2) = Builder(id, (d \o m) \o u, to, (hold + l) + hold)
  <2>1. BuildUp(Builder(id, d \o m, to, (hold + l) + hold))
          = Builder(id, (d \o m) \o <<Event((hold + l) + hold, "up", id, Nowhere)>>, to, (hold + l) + hold)
    BY BuildsUp, Zenon
  <2> QED BY <1>2, <2>1, Zenon DEF u
<1>5. Finger(id, from, to, interp, hold).id = id /\ Finger(id, from, to, interp, hold).events = (d \o m) \o u
  <2> DEFINE w == (d \o m) \o u
  <2>1. BuildUp(b2) = Builder(id, w, to, (hold + l) + hold)
    BY <1>4
  <2> HIDE DEF w
  <2>2. Builder(id, w, to, (hold + l) + hold).id = id /\ Builder(id, w, to, (hold + l) + hold).events = w
    BY BuiltIs
  <2>3. Finger(id, from, to, interp, hold).id = id /\ Finger(id, from, to, interp, hold).events = w
    BY <1>3, <2>1, <2>2, Zenon
  <2> QED BY <2>3 DEF w
<1> QED BY <1>5, Zenon DEF Stroke, d, m, l, u

(* The builder that moves on from where it is.                               *)
LEMMA MovesOn ==
  ASSUME NEW from \in Nat, NEW to \in Nat, NEW interp \in Interps
  PROVE  LET b == BuildUp(BuildMoveBy(BuildMoveTo(BuildDown(NewBuilder(0), from), to, interp), from - to, interp)) IN
         b.id = 0 /\ OnePointer(b.events, 0) /\ LastIsUp(b.events)
<1> DEFINE d == Event(0, "down", 0, from)
           l == Lasts(interp)
           m1 == Moves(0, from, to, interp, 0)
           m2 == Moves(0, to, from, interp, l)
           u == Event(l + l, "up", 0, Nowhere)
           b1 == BuildDown(NewBuilder(0), from)
           b2 == BuildMoveTo(b1, to, interp)
           b3 == BuildMoveBy(b2, from - to, interp)
           s == ((<<d>> \o m1) \o m2) \o <<u>>
<1>0. 0 \in Ids /\ from # Nowhere /\ to # Nowhere /\ from \in Int /\ to \in Int
  BY DEF Nowhere, Ids
<1>1. l \in Nat /\ Within(m1, 0, 0, l) /\ Within(m2, 0, l, l + l)
  <2>1. l \in Nat /\ Within(m1, 0, 0, 0 + l)
    BY <1>0, MovesAre
  <2>2. Within(m2, 0, l, l + l)
    BY <1>0, <2>1, MovesAre
  <2> QED BY <2>1, <2>2
<1>2. /\ d \in TimedEvents /\ d.id = 0 /\ d.time = 0
      /\ u \in TimedEvents /\ u.id = 0 /\ u.time = l + l /\ u.type = "up"
  BY <1>1, <1>0 DEF Event, TimedEvents, Nowhere
<1>3. b1 = Builder(0, <<d>>, from, 0)
  BY <1>0, BuildsDown
<1> HIDE DEF b1
<1>4. b2 = Builder(0, <<d>> \o m1, to, l)
  <2>1. BuildMoveTo(Builder(0, <<d>>, from, 0), to, interp) = Builder(0, <<d>> \o m1, to, 0 + l)
    BY <1>0, BuildsMoves
  <2>2. 0 + l = l
    BY <1>1
  <2> QED BY <1>3, <2>1, <2>2, Zenon DEF b2
<1> HIDE DEF d, m1, b2
<1>5. b3 = Builder(0, (<<d>> \o m1) \o m2, from, l + l)
  <2>1. b2.at + (from - to) = from
    <3>1. b2.at = to
      <4> DEFINE w == <<d>> \o m1
      <4>1. b2 = Builder(0, w, to, l)
        BY <1>4
      <4> HIDE DEF w
      <4> QED BY <4>1, BuiltIs
    <3> QED BY <3>1
  <2>2. b3 = BuildMoveTo(b2, from, interp)
    BY <2>1, Zenon DEF BuildMoveBy, b3
  <2>3. BuildMoveTo(Builder(0, <<d>> \o m1, to, l), from, interp) = Builder(0, (<<d>> \o m1) \o m2, from, l + l)
    BY <1>0, BuildsMoves
  <2> QED BY <1>4, <2>2, <2>3, Zenon
<1> HIDE DEF m2, b3
<1>6. BuildUp(b3) = Builder(0, s, from, l + l)
  <2>1. BuildUp(Builder(0, (<<d>> \o m1) \o m2, from, l + l))
          = Builder(0, ((<<d>> \o m1) \o m2) \o <<Event(l + l, "up", 0, Nowhere)>>, from, l + l)
    BY BuildsUp, Zenon
  <2> QED BY <1>5, <2>1, Zenon DEF u
<1> HIDE DEF u, l
<1>7. Within(<<d>>, 0, 0, 0) /\ Within(<<u>>, 0, l + l, l + l)
  <2>1. u.time \in Nat /\ u.time <= u.time
    BY <1>1, <1>2
  <2> QED BY <1>2, <2>1, OneEvent
<1>8. Within(s, 0, 0, l + l)
  <2>1. 0 <= 0 /\ 0 <= l /\ l <= l + l /\ l + l <= l + l /\ 0 \in Nat /\ l + l \in Nat /\ 0 <= l + l
    BY <1>1
  <2>2. Within(<<d>> \o m1, 0, 0, l)
    BY <1>1, <1>7, <2>1, OneAfterAnother
  <2>3. Within((<<d>> \o m1) \o m2, 0, 0, l + l)
    BY <1>1, <2>1, <2>2, OneAfterAnother
  <2> QED BY <1>1, <1>7, <2>1, <2>3, OneAfterAnother
<1>9. LastIsUp(s)
  <2> DEFINE t == (<<d>> \o m1) \o m2
  <2>1. <<d>> \in Seq(TimedEvents) /\ m1 \in Seq(TimedEvents) /\ m2 \in Seq(TimedEvents)
    BY <1>1, <1>2 DEF Within, OnePointer
  <2>2. t \in Seq(TimedEvents)
    BY <2>1
  <2> HIDE DEF t
  <2>3. Len(t \o <<u>>) = Len(t) + 1 /\ (t \o <<u>>)[Len(t) + 1] = u
    BY <1>2, <2>2
  <2>4. s = t \o <<u>>
    BY DEF t
  <2> HIDE DEF s
  <2> QED BY <1>2, <2>3, <2>4 DEF LastIsUp
<1> HIDE DEF s
<1>10. BuildUp(b3).id = 0 /\ BuildUp(b3).events = s
  BY <1>6, BuiltIs
<1>11. OnePointer(s, 0)
  BY <1>8 DEF Within
<1> QED BY <1>9, <1>10, <1>11, Zenon DEF b1, b2, b3

-----------------------------------------------------------------------------
(* Gestures: what is asked for (pointer.ts).                                 *)

(* The gestures that go from one place to another.                           *)
StraightKinds == {"drag", "swipe", "move", "pinch", "multiGesture"}

(* What a gesture asks for is what its pointers are to do, each on its own.  *)
AsAsked(g) ==
  /\ g.kind \in Kinds \union {"move"}
  /\ Faithful(g.events, g.own)
  /\ g.kind \in StraightKinds => \A id \in Ids : StraightWay(g.own[id])

(* Where nothing moves nothing turns back.                                   *)
LEMMA NothingIsStraight ==
  StraightWay(<<>>)
<1>1. \A k \in 1..Len(<<>>) : FALSE
  OBVIOUS
<1> QED BY <1>1, Zenon DEF StraightWay

(* A gesture of one pointer is as asked if its events are.                   *)
LEMMA AloneAsAsked ==
  ASSUME NEW form \in Kinds \union {"move"}, NEW s, OnePointer(s, 0), LastIsUp(s), form \in StraightKinds => StraightWay(s)
  PROVE  AsAsked([kind |-> form, events |-> s, own |-> Alone(s)])
<1>1. Faithful(s, Alone(s))
  BY AloneIsFaithful
<1>2. ASSUME NEW id \in Ids, form \in StraightKinds PROVE StraightWay(Alone(s)[id])
  <2>1. Alone(s)[id] = s \/ Alone(s)[id] = <<>>
    BY DEF Alone
  <2> QED BY <1>2, <2>1, NothingIsStraight
<1> QED BY <1>1, <1>2 DEF AsAsked

(* So is one that builders make, merged as it may be.                        *)
LEMMA BuiltAsAsked ==
  ASSUME NEW form \in Built, NEW from \in Nat, NEW to \in Nat, from # to,
         NEW interp \in Interps, NEW other \in Interps, NEW hold \in Nat
  PROVE  AsAsked(Gesture(form, from, to, interp, other, hold))
<1> DEFINE b == Builders(form, from, to, interp, other, hold)
           own0 == [id \in Ids |-> LET mine == {i \in 1..Len(b) : b[i].id = id} IN
                                   IF mine = {} THEN <<>> ELSE b[CHOOSE i \in mine : TRUE].events]
           g == Gesture(form, from, to, interp, other, hold)
<1>1. g.kind = form /\ g.events = Merged(b) /\ g.own = own0
  BY DEF Gesture
<1>2. form \in Kinds
  BY DEF Kinds
<1>3. 0 \in Ids /\ 1 \in Ids /\ 0 \in Nat /\ from \in Int /\ to \in Int
  BY DEF Ids
<1>4. /\ OfPointers(b) /\ \A i \in 1..Len(b) : LastIsUp(b[i].events)
      /\ form # "gesture" => \A i \in 1..Len(b) : StraightWay(b[i].events)
  <2>1. CASE form = "gesture"
    <3> DEFINE c == BuildUp(BuildMoveBy(BuildMoveTo(BuildDown(NewBuilder(0), from), to, interp), from - to, interp))
    <3>1. b = <<c>>
      BY <2>1 DEF Builders
    <3>2. c.id = 0 /\ OnePointer(c.events, 0) /\ LastIsUp(c.events)
      BY MovesOn
    <3> HIDE DEF b, c
    <3>3. Len(b) = 1 /\ b[1] = c /\ \A i \in 1..Len(b) : i = 1 /\ b[i] = c
      BY <3>1
    <3> QED BY <1>3, <2>1, <3>2, <3>3 DEF OfPointers
  <2>2. ASSUME NEW c, NEW d, b = <<c, d>>, c.id \in Ids, d.id \in Ids, c.id # d.id,
               OnePointer(c.events, c.id), OnePointer(d.events, d.id),
               LastIsUp(c.events), LastIsUp(d.events), StraightWay(c.events), StraightWay(d.events)
        PROVE  /\ OfPointers(b) /\ \A i \in 1..Len(b) : LastIsUp(b[i].events)
               /\ \A i \in 1..Len(b) : StraightWay(b[i].events)
    <3> HIDE DEF b
    <3>1. Len(b) = 2 /\ b[1] = c /\ b[2] = d /\ \A i \in 1..Len(b) : (i = 1 /\ b[i] = c) \/ (i = 2 /\ b[i] = d)
      BY <2>2
    <3> QED BY <2>2, <3>1 DEF OfPointers
  <2>3. CASE form = "pinch"
    <3> DEFINE c == Finger(0, from, to, interp, hold)
               d == Finger(1, to, from, interp, hold)
    <3>1. b = <<c, d>>
      BY <2>3 DEF Builders
    <3>2. /\ c.id = 0 /\ c.events = Stroke(0, from, to, interp, hold)
          /\ d.id = 1 /\ d.events = Stroke(1, to, from, interp, hold)
      BY <1>3, FingerIs
    <3>3. /\ OnePointer(c.events, 0) /\ LastIsUp(c.events) /\ StraightWay(c.events)
          /\ OnePointer(d.events, 1) /\ LastIsUp(d.events) /\ StraightWay(d.events)
      <4>1. OnePointer(c.events, 0) /\ LastIsUp(c.events) /\ StraightWay(c.events)
        BY <1>3, <3>2, StrokeIs
      <4>2. OnePointer(d.events, 1) /\ LastIsUp(d.events) /\ StraightWay(d.events)
        BY <1>3, <3>2, StrokeIs
      <4> QED BY <4>1, <4>2
    <3> HIDE DEF b, c, d
    <3>4. c.id \in Ids /\ d.id \in Ids /\ c.id # d.id
      BY <1>3, <3>2
    <3> QED BY <2>2, <3>1, <3>2, <3>3, <3>4
  <2>4. CASE form = "multiGesture"
    <3> DEFINE c == Finger(1, from, to, interp, hold)
               d == Finger(0, to, from, other, 0)
    <3>1. b = <<c, d>>
      BY <2>4 DEF Builders
    <3>2. /\ c.id = 1 /\ c.events = Stroke(1, from, to, interp, hold)
          /\ d.id = 0 /\ d.events = Stroke(0, to, from, other, 0)
      BY <1>3, FingerIs
    <3>3. /\ OnePointer(c.events, 1) /\ LastIsUp(c.events) /\ StraightWay(c.events)
          /\ OnePointer(d.events, 0) /\ LastIsUp(d.events) /\ StraightWay(d.events)
      <4>1. OnePointer(c.events, 1) /\ LastIsUp(c.events) /\ StraightWay(c.events)
        BY <1>3, <3>2, StrokeIs
      <4>2. OnePointer(d.events, 0) /\ LastIsUp(d.events) /\ StraightWay(d.events)
        BY <1>3, <3>2, StrokeIs
      <4> QED BY <4>1, <4>2
    <3> HIDE DEF b, c, d
    <3>4. c.id \in Ids /\ d.id \in Ids /\ c.id # d.id
      BY <1>3, <3>2
    <3> QED BY <2>2, <3>1, <3>2, <3>3, <3>4
  <2> QED BY <2>1, <2>3, <2>4 DEF Built
<1> HIDE DEF b
<1>5. OwnOf(b, own0)
  BY <1>4, BuildersOwn
<1>6. ASSUME form # "gesture", NEW id \in Ids PROVE StraightWay(own0[id])
  <2>1. CASE \E i \in 1..Len(b) : b[i].id = id
    <3>1. PICK i \in 1..Len(b) : b[i].id = id
      BY <2>1
    <3>2. own0[id] = b[i].events
      <4> HIDE DEF own0
      <4> QED BY <1>5, <3>1 DEF OwnOf
    <3> HIDE DEF own0
    <3> QED BY <1>4, <1>6, <3>2
  <2>2. CASE ~\E i \in 1..Len(b) : b[i].id = id
    <3> HIDE DEF own0
    <3>1. own0[id] = <<>>
      BY <1>5, <2>2 DEF OwnOf
    <3> QED BY <3>1, NothingIsStraight
  <2> QED BY <2>1, <2>2
<1>7. Faithful(Merged(b), own0)
  <2> HIDE DEF own0
  <2> QED BY <1>4, <1>5, MergedIsFaithful
<1>8. "gesture" \notin StraightKinds
  BY DEF StraightKinds
<1> HIDE DEF own0, g
<1>9. AsAsked(g)
  BY <1>1, <1>2, <1>6, <1>7, <1>8 DEF AsAsked
<1> QED BY <1>9 DEF g

(* Gestures of one pointer that no builder makes.                            *)
LEMMA TwoEvents ==
  ASSUME NEW a \in TimedEvents, NEW b \in TimedEvents, a.id = 0, b.id = 0, a.time <= b.time
  PROVE  OnePointer(<<a, b>>, 0)
<1> DEFINE s == <<a, b>>
<1>1. s \in Seq(TimedEvents) /\ Len(s) = 2 /\ s[1] = a /\ s[2] = b
  OBVIOUS
<1>2. a.time \in Nat /\ b.time \in Nat
  BY DEF TimedEvents
<1> HIDE DEF s
<1>3. \A k \in 1..Len(s) : (k = 1 /\ s[k] = a) \/ (k = 2 /\ s[k] = b)
  BY <1>1
<1>4. OnePointer(s, 0)
  BY <1>1, <1>2, <1>3 DEF OnePointer
<1> QED BY <1>4 DEF s

(* The same of four events.                                                  *)
LEMMA FourEvents ==
  ASSUME NEW a \in TimedEvents, NEW b \in TimedEvents, NEW c \in TimedEvents, NEW d \in TimedEvents,
         a.id = 0, b.id = 0, c.id = 0, d.id = 0, a.time <= b.time, b.time <= c.time, c.time <= d.time
  PROVE  OnePointer(<<a, b, c, d>>, 0)
<1> DEFINE s == <<a, b, c, d>>
<1>1. s \in Seq(TimedEvents) /\ Len(s) = 4 /\ s[1] = a /\ s[2] = b /\ s[3] = c /\ s[4] = d
  OBVIOUS
<1>2. a.time \in Nat /\ b.time \in Nat /\ c.time \in Nat /\ d.time \in Nat
  BY DEF TimedEvents
<1> HIDE DEF s
<1>3. \A k \in 1..Len(s) : (k = 1 /\ s[k] = a) \/ (k = 2 /\ s[k] = b) \/ (k = 3 /\ s[k] = c) \/ (k = 4 /\ s[k] = d)
  BY <1>1
<1>4. OnePointer(s, 0)
  BY <1>1, <1>2, <1>3 DEF OnePointer
<1> QED BY <1>4 DEF s

(* The gestures that no builder makes (pointer.ts): in the order of their    *)
(* times, with an up at the end if there is one.                             *)
LEMMA PlainIs ==
  ASSUME NEW form \in Kinds \ Built, NEW from \in Nat, NEW to \in Nat,
         NEW interp \in Interps, NEW hold \in Nat
  PROVE  LET s == Plain(form, from, to, interp, hold) IN
         /\ OnePointer(s, 0) /\ LastIsUp(s)
         /\ form \in StraightKinds => StraightWay(s)
<1> DEFINE s == Plain(form, from, to, interp, hold)
<1> SUFFICES OnePointer(s, 0) /\ LastIsUp(s) /\ (form \in StraightKinds => StraightWay(s))
  OBVIOUS
<1>1. 0 \in Ids /\ from \in Int /\ to \in Int /\ 0 \in Nat /\ hold + 100 \in Nat /\ 2 * hold + 100 \in Nat
      /\ 2 * hold \in Nat /\ hold + 500 + hold \in Nat /\ Nowhere \in Int
  BY DEF Ids, Nowhere
<1>2. ASSUME NEW t \in Nat, NEW type \in {"tap", "longPress", "swipe", "down", "move", "up"}, NEW at \in Int
      PROVE  /\ Event(t, type, 0, at) \in TimedEvents /\ Event(t, type, 0, at).id = 0
             /\ Event(t, type, 0, at).time = t /\ Event(t, type, 0, at).type = type
  BY <1>1 DEF Event, TimedEvents
<1>3. ASSUME NEW type \in {"tap", "longPress", "swipe", "down", "move", "up"}, NEW at \in Int
      PROVE  LET e == <<Event(0, type, 0, at)>> IN OnePointer(e, 0) /\ LastIsUp(e) /\ StraightWay(e)
  <2>1. Event(0, type, 0, at) \in TimedEvents /\ Event(0, type, 0, at).id = 0 /\ Event(0, type, 0, at).time <= 0
    BY <1>1, <1>2
  <2> QED BY <1>1, <2>1, OneEvent DEF Within
<1>4. CASE form = "down" \/ form = "up"
  <2>1. (form = "down" => s = <<Event(0, "down", 0, from)>>) /\ (form = "up" => s = <<Event(0, "up", 0, Nowhere)>>)
    BY <1>4 DEF Plain, Press, Lift
  <2> HIDE DEF s
  <2> QED BY <1>1, <1>3, <1>4, <2>1
<1>5. CASE form \in {"tap", "longPress"} /\ hold = 0
  <2>1. (form = "tap" => s = <<Event(0, "tap", 0, from)>>) /\ (form = "longPress" => s = <<Event(0, "longPress", 0, from)>>)
    BY <1>5 DEF Plain
  <2> HIDE DEF s
  <2> QED BY <1>1, <1>3, <1>5, <2>1
<1>6. CASE form = "tap" /\ hold # 0
  <2> DEFINE a == Event(0, "down", 0, from)
             b == Event(hold, "up", 0, Nowhere)
             c == Event(hold + 100, "down", 0, from)
             d == Event(2 * hold + 100, "up", 0, Nowhere)
  <2>1. s = <<a, b, c, d>>
    BY <1>6 DEF Plain, Press, Lift
  <2>2. /\ a \in TimedEvents /\ b \in TimedEvents /\ c \in TimedEvents /\ d \in TimedEvents /\ d.type = "up"
        /\ a.id = 0 /\ b.id = 0 /\ c.id = 0 /\ d.id = 0
        /\ a.time = 0 /\ b.time = hold /\ c.time = hold + 100 /\ d.time = 2 * hold + 100
    BY <1>1, <1>2
  <2> HIDE DEF a, b, c, d, s
  <2>3. OnePointer(s, 0)
    BY <2>1, <2>2, FourEvents
  <2>4. Len(s) = 4 /\ s[4] = d
    BY <2>1
  <2> QED BY <1>6, <2>2, <2>3, <2>4 DEF LastIsUp, StraightKinds
<1>7. CASE form = "longPress" /\ hold # 0
  <2> DEFINE a == Event(0, "down", 0, from)
             b == Event(hold + 500 + hold, "up", 0, Nowhere)
  <2>1. s = <<a, b>>
    BY <1>7 DEF Plain, Press, Lift
  <2>2. a \in TimedEvents /\ b \in TimedEvents /\ b.type = "up" /\ a.id = 0 /\ b.id = 0 /\ a.time <= b.time
    BY <1>1, <1>2
  <2> HIDE DEF a, b, s
  <2>3. OnePointer(s, 0)
    BY <2>1, <2>2, TwoEvents
  <2>4. Len(s) = 2 /\ s[2] = b
    BY <2>1
  <2> QED BY <1>7, <2>2, <2>3, <2>4 DEF LastIsUp, StraightKinds
<1>8. CASE form = "dragPath"
  <2> DEFINE a == Event(0, "down", 0, from)
             b == Event(hold, "move", 0, to)
             c == Event(hold, "move", 0, from)
             d == Event(2 * hold, "up", 0, Nowhere)
  <2>1. s = <<a, b, c, d>>
    BY <1>8 DEF Plain, Press, Lift
  <2>2. /\ a \in TimedEvents /\ b \in TimedEvents /\ c \in TimedEvents /\ d \in TimedEvents /\ d.type = "up"
        /\ a.id = 0 /\ b.id = 0 /\ c.id = 0 /\ d.id = 0
        /\ a.time = 0 /\ b.time = hold /\ c.time = hold /\ d.time = 2 * hold
    BY <1>1, <1>2
  <2> HIDE DEF a, b, c, d, s
  <2>3. OnePointer(s, 0)
    BY <2>1, <2>2, FourEvents
  <2>4. Len(s) = 4 /\ s[4] = d
    BY <2>1
  <2> QED BY <1>8, <2>2, <2>3, <2>4 DEF LastIsUp, StraightKinds
<1>9. CASE form = "movePath"
  <2> DEFINE a == Event(0, "move", 0, from)
             b == Event(hold, "move", 0, to)
  <2>1. s = <<a, b>>
    BY <1>9 DEF Plain
  <2>2. a \in TimedEvents /\ b \in TimedEvents /\ a.type = "move" /\ b.type = "move" /\ a.id = 0 /\ b.id = 0 /\ a.time <= b.time
    BY <1>1, <1>2
  <2> HIDE DEF a, b, s
  <2>3. OnePointer(s, 0)
    BY <2>1, <2>2, TwoEvents
  <2>4. \A k \in 1..Len(s) : s[k].type = "move"
    <3>1. Len(s) = 2 /\ s[1] = a /\ s[2] = b
      BY <2>1
    <3>2. \A k \in 1..Len(s) : k = 1 \/ k = 2
      BY <3>1
    <3> QED BY <2>2, <3>1, <3>2
  <2> QED BY <1>9, <2>3, <2>4 DEF LastIsUp, StraightKinds
<1>10. CASE form \in {"drag", "swipe"}
  <2>1. CASE OneCommand(form, interp, hold)
    <3>1. s = <<Event(0, "swipe", 0, to)>>
      BY <1>10, <2>1 DEF Plain
    <3> HIDE DEF s
    <3> QED BY <1>1, <1>3, <3>1
  <2>2. CASE ~OneCommand(form, interp, hold)
    <3>1. s = Stroke(0, from, to, interp, hold)
      BY <1>10, <2>2 DEF Plain, Stroke, Press, Lift
    <3>2. OnePointer(s, 0) /\ StraightWay(s) /\ LastIsUp(s)
      <4> HIDE DEF s
      <4> QED BY <1>1, <3>1, StrokeIs
    <3> QED BY <3>2
  <2> QED BY <2>1, <2>2
<1>11. \/ form = "down" \/ form = "up" \/ form \in {"tap", "longPress"}
       \/ form = "dragPath" \/ form = "movePath" \/ form \in {"drag", "swipe"}
  BY DEF Kinds
<1> HIDE DEF s
<1> QED BY <1>4, <1>5, <1>6, <1>7, <1>8, <1>9, <1>10, <1>11

(* Every gesture there is.                                                   *)
LEMMA ProgramsAsAsked ==
  ASSUME NEW g \in Programs
  PROVE  AsAsked(g)
<1> USE GestureBounds
<1>1. \A way \in Ways : way[1] \in Nat /\ way[2] \in Nat /\ way[1] # way[2]
  BY DEF Ways
<1>2. \A i \in Interpolations : i \in Interps
  BY DEF Interps
<1>3. \A h \in Holds : h \in Nat
  OBVIOUS
<1>4. ASSUME NEW form \in Kinds, NEW from \in Nat, NEW to \in Nat, from # to,
             NEW interp \in Interps, NEW other \in Interps, NEW hold \in Nat
      PROVE  AsAsked(Gesture(form, from, to, interp, other, hold))
  <2>1. CASE form \in Built
    BY <1>4, <2>1, BuiltAsAsked
  <2>2. CASE form \notin Built
    <3> DEFINE s == Plain(form, from, to, interp, hold)
    <3>1. Gesture(form, from, to, interp, other, hold) = [kind |-> form, events |-> s, own |-> Alone(s)]
      BY <2>2 DEF Gesture
    <3>2. OnePointer(s, 0) /\ LastIsUp(s) /\ (form \in StraightKinds => StraightWay(s))
      BY <2>2, PlainIs
    <3> HIDE DEF s
    <3>3. AsAsked([kind |-> form, events |-> s, own |-> Alone(s)])
      BY <3>2, AloneAsAsked
    <3> QED BY <3>1, <3>3, Zenon
  <2> QED BY <2>1, <2>2
<1>5. \/ \E form \in Kinds, way \in Ways, interp \in Interpolations, hold \in Holds :
           g = Gesture(form, way[1], way[2], interp, interp, hold)
      \/ \E way \in Ways, interp \in Interpolations, other \in Interpolations, hold \in Holds :
           g = Gesture("multiGesture", way[1], way[2], interp, other, hold)
  BY DEF Programs
<1>6. "multiGesture" \in Kinds
  BY DEF Kinds, Built
<1> QED BY <1>1, <1>2, <1>3, <1>4, <1>5, <1>6

(* The moves alone go straight too.                                          *)
LEMMA MovesAlone ==
  ASSUME NEW from \in Int, NEW to \in Int, NEW interp \in Interps
  PROVE  LET s == Moves(0, from, to, interp, 0) IN
         OnePointer(s, 0) /\ StraightWay(s) /\ LastIsUp(s)
<1> DEFINE n == Steps(interp)
           s == Moves(0, from, to, interp, 0)
           there(i) == Between(from, to, Eased(interp.easing, i, n), n * n)
<1>1. 0 \in Ids /\ 0 \in Nat /\ interp.easing \in Easings
  BY DEF Ids, Interps
<1>2. n \in Nat /\ n > 0 /\ Within(s, 0, 0, 0 + Lasts(interp)) /\ Len(s) = n
      /\ \A i \in 1..n : s[i].type = "move" /\ s[i].at = there(i)
  BY <1>1, MovesAre
<1> HIDE DEF n, s
<1>3. ASSUME NEW j \in 0..n, NEW k \in 0..n, j <= k
      PROVE  /\ there(j) \in Int /\ there(k) \in Int
             /\ from <= to => there(j) <= there(k)
             /\ to <= from => there(k) <= there(j)
  BY <1>1, <1>2, <1>3, MovesGoOneWay DEF there
<1> HIDE DEF there
<1>4. StraightWay(s)
  <2> SUFFICES ASSUME NEW j \in 1..n, NEW k \in 1..n, NEW l \in 1..n, j < k, k < l
               PROVE  \/ s[j].at <= s[k].at /\ s[k].at <= s[l].at
                      \/ s[j].at >= s[k].at /\ s[k].at >= s[l].at
    BY <1>2 DEF StraightWay
  <2>1. s[j].at = there(j) /\ s[k].at = there(k) /\ s[l].at = there(l)
    BY <1>2
  <2>2. j \in 0..n /\ k \in 0..n /\ l \in 0..n /\ j <= k /\ k <= l
    BY <1>2
  <2>3. from <= to \/ to <= from
    OBVIOUS
  <2>4. /\ there(j) \in Int /\ there(k) \in Int /\ there(l) \in Int
        /\ from <= to => there(j) <= there(k) /\ there(k) <= there(l)
        /\ to <= from => there(k) <= there(j) /\ there(l) <= there(k)
    BY <1>3, <2>2
  <2> QED BY <2>1, <2>3, <2>4
<1>5. OnePointer(s, 0)
  BY <1>2 DEF Within
<1>6. LastIsUp(s)
  BY <1>2 DEF LastIsUp
<1> QED BY <1>4, <1>5, <1>6 DEF s

(* A stepped move, from whatever place is known.                             *)
LEMMA MoveAsAsked ==
  ASSUME positions[0] \in Int, NEW to \in Nat, NEW interp \in Interps
  PROVE  AsAsked(SteppedMove(to, interp))
<1> DEFINE from == positions[0]
           i == [interp EXCEPT !.easing = "linear"]
           s == IF from = Nowhere THEN <<Event(0, "move", 0, to)>> ELSE Moves(0, from, to, i, 0)
<1>1. i \in Interps
  BY DEF Interps, Easings
<1>2. 0 \in Ids /\ from \in Int /\ to \in Int /\ 0 \in Nat
  BY DEF Ids
<1> HIDE DEF i
<1>3. OnePointer(s, 0) /\ LastIsUp(s) /\ StraightWay(s)
  <2>1. CASE from = Nowhere
    <3> DEFINE e == Event(0, "move", 0, to)
    <3>1. e \in TimedEvents /\ e.id = 0 /\ e.time <= 0
      BY <1>2 DEF Event, TimedEvents
    <3>2. s = <<e>>
      BY <2>1
    <3> HIDE DEF e, s
    <3> QED BY <1>2, <3>1, <3>2, OneEvent DEF Within
  <2>2. CASE from # Nowhere
    <3>1. s = Moves(0, from, to, i, 0)
      BY <2>2
    <3> HIDE DEF from, s
    <3> QED BY <1>1, <1>2, <3>1, MovesAlone
  <2> QED BY <2>1, <2>2
<1>4. SteppedMove(to, interp) = [kind |-> "move", events |-> s, own |-> Alone(s)]
  BY DEF SteppedMove, i
<1>5. "move" \in Kinds \union {"move"}
  OBVIOUS
<1> HIDE DEF s
<1>6. AsAsked([kind |-> "move", events |-> s, own |-> Alone(s)])
  BY <1>3, <1>5, AloneAsAsked
<1> QED BY <1>4, <1>6, Zenon

-----------------------------------------------------------------------------
(* Gestures: what is dispatched of it, and what the device is left with.     *)

(* Of the events w of the gesture the device has done d, and the rest is     *)
(* planned; what was dispatched is the beginning of w, at its times. A       *)
(* finger whose last event so far took it up is not down by the connection   *)
(* of the gesture's last event.                                              *)
Course(w, d) ==
  /\ Faithful(w, own) /\ d \in 0..Len(w)
  /\ Len(plan) = Len(w) - d /\ \A k \in 1..Len(plan) : plan[k] = Paced(w)[d + k]
  /\ Len(dispatched) \in {d, d + 1} /\ Len(dispatched) <= Len(w)
  /\ course.step = "sent" => Len(dispatched) = d + 1
  /\ course.step \in {"idle", "next", "resolved"} => Len(dispatched) = d
  /\ \A k \in 1..Len(dispatched) : dispatched[k] = w[k]
  /\ course.time = IF Len(dispatched) = 0 THEN 0 ELSE w[Len(dispatched)].time
  /\ course.step = "resolved" => d = Len(w)
  /\ \A k \in 1..d :
       w[k].type = "up" /\ (\A m \in (k + 1)..Len(dispatched) : w[m].id # w[k].id) =>
         fingers[w[k].id] < course.over

(* The invariant of the gestures.                                            *)
GeInv ==
  /\ GeTypeOK /\ link \in {0, links} /\ dispatched \in Seq(TimedEvents)
  /\ course.kind \in StraightKinds => \A id \in Ids : StraightWay(own[id])
  /\ dispatched # <<>> => \A id \in Ids : fingers[id] <= course.over
  /\ \E w \in Seq(TimedEvents) : \E d \in Nat : Course(w, d)

(* The waits before the events take each to its time, and none is negative   *)
(* (multi-gesture-builder.ts:54-62).                                         *)
LEMMA PacedIs ==
  ASSUME NEW w \in Seq(TimedEvents), InOrder(w)
  PROVE  /\ Paced(w) \in Seq(Waits) /\ Len(Paced(w)) = Len(w) /\ Len(w) \in Nat
         /\ \A k \in 1..Len(w) :
              /\ w[k] \in TimedEvents /\ w[k].time \in Nat /\ Paced(w)[k] \in Waits
              /\ w[k] = Event(w[k].time, w[k].type, w[k].id, w[k].at)
              /\ Paced(w)[k].type = w[k].type /\ Paced(w)[k].id = w[k].id /\ Paced(w)[k].at = w[k].at
              /\ (IF k = 1 THEN 0 ELSE w[k - 1].time) + Paced(w)[k].after = w[k].time
<1>1. Len(w) \in Nat /\ DOMAIN w = 1..Len(w) /\ \A k \in 1..Len(w) : w[k] \in TimedEvents /\ w[k].time \in Nat
  <2>1. Len(w) \in Nat /\ DOMAIN w = 1..Len(w) /\ \A k \in 1..Len(w) : w[k] \in TimedEvents
    BY LenProperties, ElementOfSeq
  <2> QED BY <2>1 DEF TimedEvents
<1>2. ASSUME NEW k \in 1..Len(w)
      PROVE  /\ w[k] = Event(w[k].time, w[k].type, w[k].id, w[k].at)
             /\ Paced(w)[k].type = w[k].type /\ Paced(w)[k].id = w[k].id /\ Paced(w)[k].at = w[k].at
             /\ (IF k = 1 THEN 0 ELSE w[k - 1].time) + Paced(w)[k].after = w[k].time
             /\ Paced(w)[k] \in Waits
  <2> DEFINE before == IF k = 1 THEN 0 ELSE w[k - 1].time
             e == w[k]
  <2>1. before \in Nat /\ before <= e.time /\ e.time \in Nat
    <3>1. CASE k = 1
      BY <1>1, <3>1
    <3>2. CASE k # 1
      <4>1. k - 1 \in 1..Len(w) /\ k - 1 <= k
        BY <1>1, <3>2
      <4> QED BY <1>1, <3>2, <4>1 DEF InOrder
    <3> QED BY <3>1, <3>2
  <2>2. Paced(w)[k] = [after |-> e.time - before, type |-> e.type, id |-> e.id, at |-> e.at]
    BY <1>1 DEF Paced, Gap
  <2>3. e \in TimedEvents
    BY <1>1
  <2> HIDE DEF before, e
  <2>4. e.time - before \in Nat /\ before + (e.time - before) = e.time
    BY <2>1
  <2>5. e = Event(e.time, e.type, e.id, e.at)
    BY <2>3 DEF TimedEvents, Event
  <2>6. Paced(w)[k] \in Waits
    BY <2>2, <2>3, <2>4 DEF Waits, TimedEvents
  <2>7. before + Paced(w)[k].after = e.time
    BY <2>2, <2>4
  <2>8. Paced(w)[k].type = e.type /\ Paced(w)[k].id = e.id /\ Paced(w)[k].at = e.at
    BY <2>2
  <2> QED BY <2>5, <2>6, <2>7, <2>8 DEF before, e
<1>3. Paced(w) \in [1..Len(w) -> Waits]
  <2>1. DOMAIN Paced(w) = 1..Len(w) /\ Paced(w) = [k \in 1..Len(w) |-> Paced(w)[k]]
    BY <1>1 DEF Paced
  <2> QED BY <1>2, <2>1
<1>4. Paced(w) \in Seq(Waits) /\ Len(Paced(w)) = Len(w)
  BY <1>1, <1>3, SeqDef, LenProperties
<1> QED BY <1>1, <1>2, <1>4

(* Before the first gesture nothing is asked for and nothing done.           *)
LEMMA GesturesBegin == GeInit => GeInv
<1> SUFFICES ASSUME GeInit PROVE GeInv
  OBVIOUS
<1> USE DEF GeInit
<1>1. MaxGestures \in Nat /\ MaxLinks \in Nat /\ Nowhere \in Int
  BY GestureBounds DEF Nowhere
<1>2. GeTypeOK
  BY <1>1 DEF GeTypeOK
<1>3. Course(<<>>, 0) /\ <<>> \in Seq(TimedEvents)
  <2>1. Len(<<>>) = 0 /\ <<>> \in Seq(TimedEvents) /\ (\A k \in 1..Len(<<>>) : FALSE) /\ 0 \in 0..0
        /\ (\A k \in 1..0 : FALSE)
    OBVIOUS
  <2>2. ASSUME NEW id \in Ids PROVE Cardinality({k \in 1..Len(<<>>) : <<>>[k].id = id}) = Len(own[id]) /\ own[id] = <<>>
    <3>1. {k \in 1..Len(<<>>) : <<>>[k].id = id} = {}
      BY <2>1
    <3> QED BY <2>1, <3>1, FS_EmptySet
  <2>3. \A id \in Ids : \A k \in 1..Len(own[id]) : FALSE
    <3> TAKE id \in Ids
    <3>1. own[id] = <<>>
      OBVIOUS
    <3> QED BY <2>1, <3>1
  <2>4. Faithful(<<>>, own)
    <3>1. InOrder(<<>>)
      BY <2>1, Zenon DEF InOrder
    <3>2. EachItsOwn(<<>>, own)
      BY <2>1, <2>2, Zenon DEF EachItsOwn
    <3>3. Lifted(<<>>, own)
      BY <2>3, Zenon DEF Lifted
    <3> QED BY <2>1, <3>1, <3>2, <3>3 DEF Faithful
  <2> QED BY <2>1, <2>4 DEF Course
<1>4. course.kind \notin StraightKinds
  BY DEF StraightKinds
<1> QED BY <1>2, <1>3, <1>4 DEF GeInv

(* A gesture that is as asked begins.                                        *)
LEMMA StartKeeps ==
  ASSUME GeInv, NEW g, AsAsked(g), StartsGesture(g)
  PROVE  GeInv'
<1> DEFINE w == g.events
<1>1. /\ w \in Seq(TimedEvents) /\ Faithful(w, g.own) /\ InOrder(w)
      /\ g.kind \in Kinds \union {"move"}
      /\ g.kind \in StraightKinds => \A id \in Ids : StraightWay(g.own[id])
  BY DEF AsAsked, Faithful
<1>2. /\ gestures' = gestures + 1 /\ gestures < MaxGestures /\ plan' = Paced(w)
      /\ course' = [kind |-> g.kind, step |-> "next", time |-> 0, over |-> 0]
      /\ own' = g.own /\ dispatched' = <<>>
      /\ link' = link /\ links' = links /\ positions' = positions /\ fingers' = fingers
  BY DEF StartsGesture
<1> HIDE DEF w
<1>3. Paced(w) \in Seq(Waits) /\ Len(Paced(w)) = Len(w) /\ Len(w) \in Nat
  BY <1>1, PacedIs
<1>4. GeTypeOK'
  <2>1. GeTypeOK /\ MaxGestures \in Nat
    BY GestureBounds DEF GeInv
  <2> QED BY <1>1, <1>2, <1>3, <2>1 DEF GeTypeOK
<1>5. Course(w, 0)'
  <2>1. /\ Len(dispatched') = 0 /\ (\A k \in 1..0 : FALSE) /\ 0 \in 0..Len(w)
        /\ Len(plan') = Len(w) - 0
    BY <1>2, <1>3
  <2>2. \A k \in 1..Len(plan') : plan'[k] = Paced(w)[0 + k]
    <3>1. \A k \in 1..Len(plan') : 0 + k = k
      BY <1>3, <2>1
    <3> QED BY <1>2, <3>1
  <2> QED BY <1>1, <1>2, <1>3, <2>1, <2>2 DEF Course
<1>6. dispatched' \in Seq(TimedEvents) /\ link' \in {0, links'}
  BY <1>2 DEF GeInv
<1> QED BY <1>1, <1>2, <1>4, <1>5, <1>6 DEF GeInv

(* What is known of the next event.                                          *)
LEMMA NextEvent ==
  ASSUME GeInv, NEW w \in Seq(TimedEvents), NEW d \in Nat, Course(w, d)
  PROVE  /\ Len(w) \in Nat /\ InOrder(w) /\ Len(plan) \in Nat /\ plan \in Seq(Waits) /\ Len(dispatched) \in Nat
         /\ plan # <<>> =>
              /\ d + 1 \in 1..Len(w) /\ plan[1] = Paced(w)[d + 1] /\ Head(plan) = plan[1] /\ plan[1] \in Waits
              /\ plan[1].id = w[d + 1].id /\ plan[1].type = w[d + 1].type /\ plan[1].at = w[d + 1].at
              /\ w[d + 1] \in TimedEvents /\ w[d + 1].time \in Nat
              /\ Len(dispatched) = d =>
                   /\ course.time + plan[1].after = w[d + 1].time
                   /\ Event(course.time + plan[1].after, plan[1].type, plan[1].id, plan[1].at) = w[d + 1]
         /\ course.step = "sent" => plan # <<>>
<1>1. /\ InOrder(w) /\ plan \in Seq(Waits) /\ dispatched \in Seq(TimedEvents)
      /\ Len(plan) = Len(w) - d /\ \A k \in 1..Len(plan) : plan[k] = Paced(w)[d + k]
      /\ Len(dispatched) <= Len(w) /\ (course.step = "sent" => Len(dispatched) = d + 1)
      /\ course.time = IF Len(dispatched) = 0 THEN 0 ELSE w[Len(dispatched)].time
  BY DEF GeInv, GeTypeOK, Course, Faithful
<1>2. Len(w) \in Nat /\ Len(plan) \in Nat /\ Len(dispatched) \in Nat
  BY <1>1, LenProperties
<1>3. course.step = "sent" => plan # <<>>
  <2> SUFFICES ASSUME course.step = "sent", plan = <<>> PROVE FALSE
    OBVIOUS
  <2>1. Len(plan) = 0
    OBVIOUS
  <2> QED BY <1>1, <1>2, <2>1
<1>4. ASSUME plan # <<>>
      PROVE  /\ d + 1 \in 1..Len(w) /\ plan[1] = Paced(w)[d + 1] /\ Head(plan) = plan[1] /\ plan[1] \in Waits
             /\ plan[1].id = w[d + 1].id /\ plan[1].type = w[d + 1].type /\ plan[1].at = w[d + 1].at
             /\ w[d + 1] \in TimedEvents /\ w[d + 1].time \in Nat
             /\ Len(dispatched) = d =>
                  /\ course.time + plan[1].after = w[d + 1].time
                  /\ Event(course.time + plan[1].after, plan[1].type, plan[1].id, plan[1].at) = w[d + 1]
  <2>1. 1 \in 1..Len(plan) /\ Head(plan) = plan[1] /\ plan[1] \in Waits
    BY <1>1, <1>4
  <2>2. plan[1] = Paced(w)[d + 1]
    BY <1>1, <2>1
  <2>3. d + 1 \in 1..Len(w)
    BY <1>1, <1>2, <2>1
  <2>4. /\ w[d + 1] \in TimedEvents /\ w[d + 1].time \in Nat
        /\ w[d + 1] = Event(w[d + 1].time, w[d + 1].type, w[d + 1].id, w[d + 1].at)
        /\ Paced(w)[d + 1].type = w[d + 1].type /\ Paced(w)[d + 1].id = w[d + 1].id /\ Paced(w)[d + 1].at = w[d + 1].at
        /\ (IF d + 1 = 1 THEN 0 ELSE w[(d + 1) - 1].time) + Paced(w)[d + 1].after = w[d + 1].time
    BY <1>1, <2>3, PacedIs
  <2>5. ASSUME Len(dispatched) = d PROVE course.time + plan[1].after = w[d + 1].time
    <3>1. (d + 1 = 1 <=> d = 0) /\ (d + 1) - 1 = d
      OBVIOUS
    <3> QED BY <1>1, <2>2, <2>4, <2>5, <3>1
  <2> QED BY <2>1, <2>2, <2>3, <2>4, <2>5
<1> QED BY <1>1, <1>2, <1>3, <1>4

(* The next event goes out, at its time, or finds no backend.                *)
LEMMA DispatchKeeps ==
  ASSUME GeInv, Dispatches
  PROVE  GeInv'
<1>1. PICK w \in Seq(TimedEvents) : \E d \in Nat : Course(w, d)
  BY DEF GeInv
<1>2. PICK d \in Nat : Course(w, d)
  BY <1>1
<1> DEFINE e == plan[1]
           now == course.time + e.after
<1>3. /\ course.step = "next" /\ plan # <<>>
      /\ link' = link /\ links' = links /\ positions' = positions /\ plan' = plan /\ gestures' = gestures /\ own' = own
  BY DEF Dispatches
<1>4. /\ GeTypeOK /\ link \in {0, links} /\ dispatched \in Seq(TimedEvents)
      /\ course.kind \in StraightKinds => \A id \in Ids : StraightWay(own[id])
      /\ dispatched # <<>> => \A id \in Ids : fingers[id] <= course.over
      /\ links \in Nat /\ link \in Nat
  <2>1. GeTypeOK
    BY DEF GeInv
  <2> QED BY <2>1, GestureBounds DEF GeInv, GeTypeOK
<1>5. /\ d + 1 \in 1..Len(w) /\ Head(plan) = e /\ e \in Waits /\ w[d + 1] \in TimedEvents /\ w[d + 1].time \in Nat
      /\ e.id = w[d + 1].id /\ e.type = w[d + 1].type
      /\ now = w[d + 1].time /\ Event(now, e.type, e.id, e.at) = w[d + 1] /\ Len(dispatched) = d /\ Len(w) \in Nat
  <2>1. Len(dispatched) = d
    BY <1>2, <1>3 DEF Course
  <2> QED BY <1>2, <1>3, <2>1, NextEvent
<1>6. CASE link = 0
  <2>1. course' = [course EXCEPT !.step = "rejected"] /\ dispatched' = dispatched /\ fingers' = fingers
    BY <1>6 DEF Dispatches
  <2>2. /\ course'.kind = course.kind /\ course'.time = course.time /\ course'.over = course.over
        /\ course'.step = "rejected"
    BY <1>4, <2>1 DEF GeTypeOK
  <2>3. GeTypeOK'
    BY <1>3, <1>4, <2>1 DEF GeTypeOK
  <2>4. Course(w, d)'
    BY <1>2, <1>3, <2>1, <2>2 DEF Course
  <2> QED BY <1>3, <1>4, <2>1, <2>2, <2>3, <2>4 DEF GeInv
<1>7. CASE link # 0
  <2>1. /\ course' = [course EXCEPT !.step = "sent", !.time = now, !.over = link]
        /\ dispatched' = Append(dispatched, w[d + 1])
        /\ \/ \E finger \in Touched(e) : fingers' = [fingers EXCEPT ![e.id] = finger]
           \/ UNCHANGED fingers
    BY <1>5, <1>7 DEF Dispatches
  <2>2. link = links /\ links > 0
    BY <1>4, <1>7
  <2>3. fingers \in [Ids -> 0..links] /\ e.id \in Ids /\ \A id \in Ids : fingers[id] <= links /\ fingers[id] \in Nat
    <3>1. e.id \in Ids
      <4> HIDE DEF e
      <4> QED BY <1>5 DEF Waits
    <3>2. fingers \in [Ids -> 0..links]
      BY <1>4 DEF GeTypeOK
    <3>3. \A id \in Ids : fingers[id] \in 0..links
      BY <3>2
    <3> QED BY <1>4, <3>1, <3>2, <3>3
  <2>4. Touched(e) \subseteq 0..links
    <3>1. fingers[e.id] \in 0..links /\ link \in 0..links /\ 0 \in 0..links
      BY <1>4, <2>2, <2>3
    <3> QED BY <3>1 DEF Touched
  <2>5. fingers' \in [Ids -> 0..links] /\ \A id \in Ids : id # e.id => fingers'[id] = fingers[id]
    BY <2>1, <2>3, <2>4
  <2>6. /\ course'.kind = course.kind /\ course'.time = w[d + 1].time /\ course'.over = links /\ course'.step = "sent"
        /\ course' \in [kind : Kinds \union {"move", "none"}, step : {"idle", "next", "sent", "resolved", "rejected"},
                        time : Nat, over : 0..links]
    <3> HIDE DEF e, now
    <3> QED BY <1>4, <1>5, <2>1, <2>2 DEF GeTypeOK
  <2>7. GeTypeOK'
    BY <1>3, <1>4, <2>5, <2>6 DEF GeTypeOK
  <2>8. /\ Len(dispatched') = d + 1 /\ dispatched' \in Seq(TimedEvents) /\ dispatched'[d + 1] = w[d + 1]
        /\ \A k \in 1..d : dispatched'[k] = dispatched[k]
    BY <1>4, <1>5, <2>1
  <2>9. \A k \in 1..(d + 1) : dispatched'[k] = w[k]
    <3> TAKE k \in 1..(d + 1)
    <3>1. CASE k = d + 1
      BY <2>8, <3>1
    <3>2. CASE k # d + 1
      <4>1. k \in 1..d
        BY <3>2
      <4> QED BY <1>2, <1>5, <2>8, <4>1 DEF Course
    <3> QED BY <3>1, <3>2
  <2>10. ASSUME NEW k \in 1..d, w[k].type = "up", \A m \in (k + 1)..Len(dispatched') : w[m].id # w[k].id
         PROVE  fingers'[w[k].id] < course'.over
    <3>1. d + 1 \in (k + 1)..Len(dispatched') /\ w[d + 1].id # w[k].id
      <4>1. d + 1 \in (k + 1)..Len(dispatched')
        BY <2>8
      <4> QED BY <2>10, <4>1
    <3>2. \A m \in (k + 1)..Len(dispatched) : w[m].id # w[k].id
      <4> TAKE m \in (k + 1)..Len(dispatched)
      <4>1. m \in (k + 1)..Len(dispatched')
        BY <1>5, <2>8
      <4> QED BY <2>10, <4>1
    <3>3. fingers[w[k].id] < course.over
      BY <1>2, <2>10, <3>2 DEF Course
    <3>4. w[k] \in TimedEvents /\ w[k].id \in Ids
      <4>1. k \in 1..Len(w)
        BY <1>5
      <4>2. w[k] \in TimedEvents
        BY <4>1, ElementOfSeq
      <4> QED BY <4>2 DEF TimedEvents
    <3>5. fingers'[w[k].id] = fingers[w[k].id] /\ fingers[w[k].id] \in Nat
      BY <1>5, <2>3, <2>5, <3>1, <3>4
    <3>6. course.over \in 0..links
      BY <1>4 DEF GeTypeOK
    <3> QED BY <1>4, <2>6, <3>3, <3>5, <3>6
  <2>11. Course(w, d)'
    <3>1. Len(dispatched') \in {d, d + 1} /\ Len(dispatched') <= Len(w) /\ Len(dispatched') # 0
      BY <1>5, <2>8
    <3>2. course'.step \notin {"idle", "next", "resolved"}
      BY <2>6
    <3>3. Faithful(w, own') /\ d \in 0..Len(w) /\ Len(plan') = Len(w) - d /\ \A k \in 1..Len(plan') : plan'[k] = Paced(w)[d + k]
      BY <1>2, <1>3 DEF Course
    <3> QED BY <2>6, <2>8, <2>9, <2>10, <3>1, <3>2, <3>3 DEF Course
  <2>12. \A id \in Ids : fingers'[id] <= course'.over
    BY <1>4, <2>5, <2>6
  <2> QED BY <1>3, <1>4, <2>6, <2>7, <2>8, <2>11, <2>12 DEF GeInv
<1> QED BY <1>6, <1>7

(* The device did what was dispatched (pointer.ts:377-391).                  *)
LEMMA ReturnKeeps ==
  ASSUME GeInv, Returns
  PROVE  GeInv'
<1>1. PICK w \in Seq(TimedEvents) : \E d \in Nat : Course(w, d)
  BY DEF GeInv
<1>2. PICK d \in Nat : Course(w, d)
  BY <1>1
<1> DEFINE e == plan[1]
<1>3. /\ course.step = "sent" /\ plan' = Tail(plan) /\ course' = [course EXCEPT !.step = "next"]
      /\ link' = link /\ links' = links /\ fingers' = fingers /\ gestures' = gestures
      /\ own' = own /\ dispatched' = dispatched
  BY DEF Returns
<1>4. /\ GeTypeOK /\ link \in {0, links} /\ dispatched \in Seq(TimedEvents)
      /\ course.kind \in StraightKinds => \A id \in Ids : StraightWay(own[id])
      /\ dispatched # <<>> => \A id \in Ids : fingers[id] <= course.over
  BY DEF GeInv
<1>5. /\ plan # <<>> /\ plan \in Seq(Waits) /\ Len(plan) \in Nat
      /\ d + 1 \in 1..Len(w) /\ Head(plan) = e /\ e \in Waits /\ w[d + 1] \in TimedEvents
      /\ e.id = w[d + 1].id /\ e.type = w[d + 1].type /\ Len(w) \in Nat
  BY <1>2, <1>3, NextEvent
<1>6. Len(dispatched) = d + 1 /\ dispatched # <<>>
  <2>1. Len(dispatched) = d + 1
    BY <1>2, <1>3 DEF Course
  <2> QED BY <2>1
<1>7. e.id \in Ids /\ e.at \in Int
  <2> HIDE DEF e
  <2> QED BY <1>5 DEF Waits
<1>8. /\ e.type = "up" => fingers[e.id] # course.over
      /\ positions' = IF e.type \in {"down", "move"} THEN [positions EXCEPT ![e.id] = e.at] ELSE positions
  BY <1>5 DEF Returns
<1> HIDE DEF e
<1>9. /\ course'.kind = course.kind /\ course'.time = course.time /\ course'.over = course.over
      /\ course'.step = "next"
      /\ course' \in [kind : Kinds \union {"move", "none"}, step : {"idle", "next", "sent", "resolved", "rejected"},
                      time : Nat, over : 0..links]
  BY <1>3, <1>4 DEF GeTypeOK
<1>10. plan' \in Seq(Waits) /\ Len(plan') = Len(plan) - 1 /\ \A k \in 1..Len(plan') : plan'[k] = plan[k + 1]
  BY <1>3, <1>5, HeadTailProperties
<1>11. GeTypeOK'
  <2>1. positions' \in [Ids -> Int]
    BY <1>4, <1>7, <1>8 DEF GeTypeOK
  <2> QED BY <1>3, <1>4, <1>9, <1>10, <2>1 DEF GeTypeOK
<1>12. ASSUME NEW k \in 1..(d + 1), w[k].type = "up", \A m \in (k + 1)..Len(dispatched') : w[m].id # w[k].id
       PROVE  fingers'[w[k].id] < course'.over
  <2>1. CASE k = d + 1
    <3>1. fingers[e.id] <= course.over /\ fingers[e.id] # course.over
      BY <1>4, <1>5, <1>6, <1>7, <1>8, <1>12, <2>1
    <3>2. fingers[e.id] \in Nat /\ course.over \in Nat
      <4>1. fingers[e.id] \in 0..links /\ course.over \in 0..links /\ links \in 0..MaxLinks /\ MaxLinks \in Nat
        BY <1>4, <1>7, GestureBounds DEF GeTypeOK
      <4> QED BY <4>1
    <3> QED BY <1>3, <1>5, <1>9, <2>1, <3>1, <3>2
  <2>2. CASE k # d + 1
    <3>1. k \in 1..d
      BY <2>2
    <3> QED BY <1>2, <1>3, <1>9, <1>12, <3>1 DEF Course
  <2> QED BY <2>1, <2>2
<1>13. Course(w, d + 1)'
  <2>1. \A k \in 1..Len(plan') : plan'[k] = Paced(w)[(d + 1) + k]
    <3> TAKE k \in 1..Len(plan')
    <3>1. k + 1 \in 1..Len(plan) /\ d + (k + 1) = (d + 1) + k
      BY <1>5, <1>10
    <3>2. plan[k + 1] = Paced(w)[d + (k + 1)]
      BY <1>2, <3>1 DEF Course
    <3> QED BY <1>10, <3>1, <3>2
  <2>2. Len(plan') = Len(w) - (d + 1) /\ d + 1 \in 0..Len(w)
    <3>1. Len(plan) = Len(w) - d
      BY <1>2 DEF Course
    <3> QED BY <1>5, <1>10, <3>1
  <2>3. /\ Faithful(w, own') /\ \A k \in 1..Len(dispatched') : dispatched'[k] = w[k]
        /\ course'.time = IF Len(dispatched') = 0 THEN 0 ELSE w[Len(dispatched')].time
        /\ Len(dispatched') <= Len(w)
    BY <1>2, <1>3, <1>9 DEF Course
  <2>4. Len(dispatched') = d + 1 /\ course'.step \notin {"sent", "resolved"}
    BY <1>3, <1>6, <1>9
  <2> QED BY <1>12, <2>1, <2>2, <2>3, <2>4 DEF Course
<1>14. d + 1 \in Nat
  OBVIOUS
<1> QED BY <1>3, <1>4, <1>9, <1>11, <1>13, <1>14 DEF GeInv

(* A gesture ends, by failing or because nothing is left of it.              *)
LEMMA EndKeeps ==
  ASSUME GeInv, DispatchFails \/ GestureDone
  PROVE  GeInv'
<1>1. PICK w \in Seq(TimedEvents) : \E d \in Nat : Course(w, d)
  BY DEF GeInv
<1>2. PICK d \in Nat : Course(w, d)
  BY <1>1
<1>3. PICK s \in {"resolved", "rejected"} :
        /\ course' = [course EXCEPT !.step = s]
        /\ s = "resolved" => plan = <<>> /\ course.step = "next"
  BY DEF DispatchFails, GestureDone
<1>4. /\ link' = link /\ links' = links /\ fingers' = fingers /\ gestures' = gestures /\ plan' = plan
      /\ own' = own /\ dispatched' = dispatched /\ positions' = positions
  BY DEF DispatchFails, GestureDone
<1>5. GeTypeOK
  BY DEF GeInv
<1>6. /\ course'.kind = course.kind /\ course'.time = course.time /\ course'.over = course.over /\ course'.step = s
      /\ course' \in [kind : Kinds \union {"move", "none"}, step : {"idle", "next", "sent", "resolved", "rejected"},
                      time : Nat, over : 0..links]
  BY <1>3, <1>5 DEF GeTypeOK
<1>7. GeTypeOK'
  BY <1>4, <1>5, <1>6 DEF GeTypeOK
<1>8. Course(w, d)'
  <2>1. s = "resolved" => d = Len(w) /\ Len(dispatched) = d
    <3> SUFFICES ASSUME s = "resolved" PROVE d = Len(w) /\ Len(dispatched) = d
      OBVIOUS
    <3>1. Len(plan) = 0 /\ Len(plan) = Len(w) - d /\ Len(dispatched) = d /\ Len(w) \in Nat
      BY <1>2, <1>3, NextEvent DEF Course
    <3> QED BY <3>1
  <2> QED BY <1>2, <1>4, <1>6, <2>1 DEF Course
<1> QED BY <1>4, <1>6, <1>7, <1>8 DEF GeInv

(* Another connection, or none: what is under way goes on without it.        *)
LEMMA BackendKeeps ==
  ASSUME GeInv, NEW l, SetBackend(l),
         (links < MaxLinks /\ links' = links + 1 /\ l = links + 1) \/ (links' = links /\ l = 0)
  PROVE  GeInv'
<1>1. PICK w \in Seq(TimedEvents) : \E d \in Nat : Course(w, d)
  BY DEF GeInv
<1>2. PICK d \in Nat : Course(w, d)
  BY <1>1
<1>3. /\ link' = l /\ plan' = plan /\ course' = course /\ gestures' = gestures /\ own' = own /\ dispatched' = dispatched
      /\ positions' = [id \in Ids |-> Nowhere] /\ fingers' \in {fingers, [id \in Ids |-> 0]}
  BY DEF SetBackend
<1>4. GeTypeOK /\ links \in Nat /\ MaxLinks \in Nat /\ Nowhere \in Int /\ course.over \in 0..links
  BY GestureBounds DEF GeInv, GeTypeOK, Nowhere
<1>5. links' \in 0..MaxLinks /\ link' \in {0, links'} /\ link' \in 0..links' /\ links <= links' /\ links' \in Nat
  BY <1>3, <1>4 DEF GeTypeOK
<1>6. 0..links \subseteq 0..links'
  BY <1>4, <1>5
<1>7. fingers \in [Ids -> 0..links] /\ fingers' \in [Ids -> 0..links]
  BY <1>3, <1>4 DEF GeTypeOK
<1>8. GeTypeOK'
  <2>1. fingers' \in [Ids -> 0..links']
    BY <1>6, <1>7
  <2>2. course' \in [kind : Kinds \union {"move", "none"}, step : {"idle", "next", "sent", "resolved", "rejected"},
                     time : Nat, over : 0..links']
    BY <1>3, <1>4, <1>6 DEF GeTypeOK
  <2> QED BY <1>3, <1>4, <1>5, <2>1, <2>2 DEF GeTypeOK
<1>9. \A id \in Ids : fingers'[id] <= fingers[id] /\ fingers[id] \in Nat /\ fingers'[id] \in Nat
  <2> TAKE id \in Ids
  <2>1. fingers[id] \in 0..links /\ (fingers'[id] = fingers[id] \/ fingers'[id] = 0)
    BY <1>3, <1>7
  <2> QED BY <1>4, <2>1
<1>10. Course(w, d)'
  <2>1. ASSUME NEW k \in 1..d, w[k].type = "up", \A m \in (k + 1)..Len(dispatched') : w[m].id # w[k].id
        PROVE  fingers'[w[k].id] < course'.over
    <3>1. fingers[w[k].id] < course.over
      BY <1>2, <1>3, <2>1 DEF Course
    <3>2. w[k].id \in Ids
      <4>1. k \in 1..Len(w)
        BY <1>2, NextEvent DEF Course
      <4>2. w[k] \in TimedEvents
        BY <4>1, ElementOfSeq
      <4> QED BY <4>2 DEF TimedEvents
    <3> QED BY <1>3, <1>4, <1>9, <3>1, <3>2
  <2> QED BY <1>2, <1>3, <2>1 DEF Course
<1>11. dispatched' # <<>> => \A id \in Ids : fingers'[id] <= course'.over
  <2> SUFFICES ASSUME dispatched # <<>>, NEW id \in Ids PROVE fingers'[id] <= course.over
    BY <1>3
  <2>1. fingers[id] <= course.over
    BY DEF GeInv
  <2> QED BY <1>4, <1>9, <2>1
<1>12. dispatched' \in Seq(TimedEvents) /\ (course'.kind \in StraightKinds => \A id \in Ids : StraightWay(own'[id]))
  BY <1>3 DEF GeInv
<1> QED BY <1>5, <1>8, <1>10, <1>11, <1>12 DEF GeInv

(* The invariant holds of the gestures: every program there is asks for what *)
(* its builders say, and every step keeps to the course.                     *)
THEOREM GesturesInductive == GeSpec => []GeInv
<1>1. ASSUME GeInv, [GeNext]_geVars PROVE GeInv'
  <2>1. CASE UNCHANGED geVars
    <3>1. PICK w \in Seq(TimedEvents) : \E d \in Nat : Course(w, d)
      BY <1>1 DEF GeInv
    <3>2. PICK d \in Nat : Course(w, d)
      BY <3>1
    <3>3. Course(w, d)'
      BY <2>1, <3>2 DEF Course, geVars
    <3> QED BY <1>1, <2>1, <3>3 DEF GeInv, GeTypeOK, geVars
  <2>2. ASSUME NEW g \in Programs, StartsGesture(g) PROVE GeInv'
    BY <1>1, <2>2, ProgramsAsAsked, StartKeeps
  <2>3. ASSUME NEW to \in Spots, NEW interp \in Interpolations, StartsGesture(SteppedMove(to, interp)) PROVE GeInv'
    <3>1. to \in Nat /\ interp \in Interps /\ positions[0] \in Int
      BY <1>1, GestureBounds DEF Interps, GeInv, GeTypeOK, Ids
    <3>2. AsAsked(SteppedMove(to, interp))
      BY <3>1, MoveAsAsked
    <3> QED BY <1>1, <2>3, <3>2, StartKeeps
  <2>4. CASE Dispatches
    BY <1>1, <2>4, DispatchKeeps
  <2>5. CASE Returns
    BY <1>1, <2>5, ReturnKeeps
  <2>6. CASE DispatchFails \/ GestureDone
    BY <1>1, <2>6, EndKeeps
  <2>7. CASE links < MaxLinks /\ links' = links + 1 /\ SetBackend(links + 1)
    BY <1>1, <2>7, BackendKeeps
  <2>8. CASE link # 0 /\ UNCHANGED links /\ SetBackend(0)
    BY <1>1, <2>8, BackendKeeps
  <2> QED BY <1>1, <2>1, <2>2, <2>3, <2>4, <2>5, <2>6, <2>7, <2>8 DEF GeNext
<1> QED BY <1>1, GesturesBegin, PTL DEF GeSpec

(* What was asked for follows: what was dispatched is the beginning of w, so *)
(* the n-th event of a pointer in it is the n-th in w.                       *)
LEMMA AsAskedFollows == GeInv => GestureAsAsked
<1> SUFFICES ASSUME GeInv PROVE GestureAsAsked
  OBVIOUS
<1>1. PICK w \in Seq(TimedEvents) : \E d \in Nat : Course(w, d)
  BY DEF GeInv
<1>2. PICK d \in Nat : Course(w, d)
  BY <1>1
<1>3. /\ EachItsOwn(w, own) /\ Lifted(w, own) /\ Len(dispatched) \in Nat /\ Len(w) \in Nat
      /\ Len(dispatched) <= Len(w) /\ \A k \in 1..Len(dispatched) : dispatched[k] = w[k]
      /\ course.step = "resolved" => d = Len(w) /\ Len(dispatched) = Len(w)
      /\ DOMAIN dispatched = 1..Len(dispatched)
  <2>1. dispatched \in Seq(TimedEvents)
    BY DEF GeInv
  <2> QED BY <1>2, <2>1, NextEvent, LenProperties DEF Course, Faithful
<1>4. ASSUME NEW k \in 1..Len(dispatched) PROVE Nth(dispatched, k) = Nth(w, k) /\ k \in 1..Len(w)
  <2>1. k \in 1..Len(w) /\ \A j \in 1..k : j \in 1..Len(dispatched)
    BY <1>3
  <2>2. {j \in 1..k : dispatched[j].id = dispatched[k].id} = {j \in 1..k : w[j].id = w[k].id}
    BY <1>3, <2>1
  <2> QED BY <2>1, <2>2 DEF Nth
<1>5. InOwnTime
  <2>1. ASSUME NEW k \in DOMAIN dispatched
        PROVE  LET e == dispatched[k]
                   n == Nth(dispatched, k)
               IN n <= Len(own[e.id]) /\ e = own[e.id][n]
    <3>1. k \in 1..Len(dispatched) /\ k \in 1..Len(w) /\ Nth(dispatched, k) = Nth(w, k) /\ dispatched[k] = w[k]
      BY <1>3, <1>4
    <3>2. Nth(w, k) <= Len(own[w[k].id]) /\ w[k] = own[w[k].id][Nth(w, k)]
      BY <1>3, <3>1 DEF EachItsOwn
    <3> QED BY <3>1, <3>2
  <2>2. ASSUME course.step = "resolved", NEW id \in Ids
        PROVE  Cardinality({k \in DOMAIN dispatched : dispatched[k].id = id}) = Len(own[id])
    <3>1. {k \in DOMAIN dispatched : dispatched[k].id = id} = {k \in 1..Len(w) : w[k].id = id}
      BY <1>3, <2>2
    <3> QED BY <1>3, <3>1 DEF EachItsOwn
  <2> QED BY <2>1, <2>2 DEF InOwnTime
<1>6. Straight
  BY DEF GeInv, Straight, StraightKinds, StraightWay
<1>7. FingersLifted
  <2> SUFFICES ASSUME course.step = "resolved", NEW id \in Ids, NEW l \in 1..Len(own[id]), own[id][l].type = "up"
               PROVE  fingers[id] < course.over
    BY DEF FingersLifted
  <2>1. PICK k \in 1..Len(w) : w[k].id = id /\ w[k].type = "up" /\ \A m \in (k + 1)..Len(w) : w[m].id # id
    BY <1>3 DEF Lifted
  <2>2. k \in 1..d /\ Len(dispatched) = Len(w)
    BY <1>3, <2>1
  <2> QED BY <1>2, <2>1, <2>2 DEF Course
<1> QED BY <1>5, <1>6, <1>7 DEF GestureAsAsked

(* A behaviour of touch as it is model-checked is one of each part, so that  *)
(* what is proved of a part holds of it.                                     *)
THEOREM TouchIsItsParts == TouchSpec => Spec /\ GeSpec
<1>1. TouchInit => Init /\ GeInit
  BY DEF TouchInit
<1>2. [TouchNext]_<<part, vars, geVars>> => [Next]_vars /\ [GeNext]_geVars
  BY DEF TouchNext
<1> QED BY <1>1, <1>2, PTL DEF TouchSpec, Spec, GeSpec

(* However pointers are merged, steps eased and connections lost, each       *)
(* pointer does its own events in order and in time, moves straight, and a   *)
(* gesture that returns leaves no finger down that it has to take up         *)
(* (multi-gesture-builder.ts:33-64, easing.ts:5-20, pointer.ts:180-197).     *)
THEOREM GesturesAreAsAsked == TouchSpec => []GestureAsAsked
BY GesturesInductive, TouchIsItsParts, AsAskedFollows, PTL

(* Types of both parts: the client's and the companion's as TypeCorrect has  *)
(* them; of the gestures, that no wait is negative and no finger is held by  *)
(* a connection that is still to come.                                       *)
THEOREM TouchTypes == TouchSpec => []TypesOK
<1>1. GeInv => GeTypeOK
  BY DEF GeInv
<1>2. TypeOK /\ GeTypeOK => TypesOK
  BY DEF TypesOK
<1> QED BY <1>1, <1>2, TypeCorrect, GesturesInductive, TouchIsItsParts, PTL
=============================================================================
