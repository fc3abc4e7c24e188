----------------------------- MODULE XCTestTouch -----------------------------
(* Touch input on iOS, from end to end: the XCTest backend of the driver     *)
(* (packages/driver/src/touch/xctest-backend.ts), a WebSocket RPC client     *)
(* that every connect() of RNDevice creates anew, and the companion it talks *)
(* to (packages/xctest-companion/ios/RNDriverTouchCompanion.swift), one      *)
(* server for all of them.                                                   *)
(*                                                                           *)
(* The companion reads every session on a thread of its own, buffers the     *)
(* points of down and move in one path, and injects on the main thread. A    *)
(* point is named by the request that brought it; tap stands for every       *)
(* command that injects at once (tap, swipe, longPress, typeText). Accesses  *)
(* to the path from two threads are taken as atomic. The client runs on one  *)
(* JavaScript thread: an action is one callback with the continuations it    *)
(* makes runnable.                                                           *)
EXTENDS Naturals, Sequences, FiniteSets

CONSTANTS Commands,      \* the commands a test uses
          MaxBackends,   \* bound: backends created, one per connect()
          MaxCommands,   \* bound: commands issued, besides every hello
          MaxWaiting     \* bound: commands that wait at a time, 1 if each is awaited

ASSUME CommandsAssumption == Commands \subseteq {"tap", "down", "move", "up"}
ASSUME BoundsAssumption ==
  MaxBackends \in Nat \ {0} /\ MaxCommands \in Nat /\ MaxWaiting \in Nat \ {0}

Backends    == 1..MaxBackends
NoBackend   == 0
MaxRequests == MaxBackends + MaxCommands
Requests    == 1..MaxRequests
NoRequest   == 0

VARIABLES
  \* the client of each backend
  init,        \* where init() is
  disposed,    \* dispose() was called
  socket,      \* this.socket is not null
  wire,        \* the WebSocket and the connection under it
  nextId, pending,
  \* requests, in the order they were issued
  issued, of, kind, idOf, promise, answer,
  \* the companion
  inbox,       \* frames sent to a session and not handled yet
  outbox,      \* responses on their way back
  session,     \* what the session's thread does
  current,     \* the request it does it for
  main,        \* the session whose work the main thread runs
  path,        \* pendingPath, one for the whole server
  \* history
  asked,       \* the path of each session's own down and move commands
  injected,    \* first and last point of the drag an up injected
  meant,       \* first and last point of the path its session had asked for
  crowded,     \* requests handled while another session had work, and that work
  done         \* requests whose injection is over

clientVars    == <<init, disposed, socket, wire, nextId, pending>>
requestVars   == <<issued, of, kind, idOf, promise, answer>>
companionVars == <<inbox, outbox, session, current, main, path>>
historyVars   == <<asked, injected, meant, crowded, done>>
vars == <<clientVars, requestVars, companionVars, historyVars>>

Init ==
  /\ init = [b \in Backends |-> "none"]
  /\ disposed = [b \in Backends |-> FALSE]
  /\ socket = [b \in Backends |-> FALSE]
  /\ wire = [b \in Backends |-> "none"]
  /\ nextId = [b \in Backends |-> 1]
  /\ pending = [b \in Backends |-> [i \in Requests |-> NoRequest]]
  /\ issued = 0
  /\ of = [n \in Requests |-> NoBackend]
  /\ kind = [n \in Requests |-> "hello"]
  /\ idOf = [n \in Requests |-> 0]
  /\ promise = [n \in Requests |-> "unsent"]
  /\ answer = [n \in Requests |-> NoRequest]
  /\ inbox = [b \in Backends |-> <<>>]
  /\ outbox = [b \in Backends |-> <<>>]
  /\ session = [b \in Backends |-> "idle"]
  /\ current = [b \in Backends |-> NoRequest]
  /\ main = NoBackend
  /\ path = <<>>
  /\ asked = [b \in Backends |-> <<>>]
  /\ injected = [n \in Requests |-> <<>>]
  /\ meant = [n \in Requests |-> <<>>]
  /\ crowded = {}
  /\ done = {}

-----------------------------------------------------------------------------
(* The RPC client.                                                           *)

(* Mutant of Request: an id is free again once its request has settled.      *)
RequestReusingIds(b, k, live) ==
  LET n  == issued + 1
      id == 1 + Cardinality({i \in Requests : pending[b][i] # NoRequest})
  IN /\ n \in Requests
     /\ issued' = n
     /\ of' = [of EXCEPT ![n] = b]
     /\ kind' = [kind EXCEPT ![n] = k]
     /\ idOf' = [idOf EXCEPT ![n] = id]
     /\ nextId' = [nextId EXCEPT ![b] = @ + 1]
     /\ pending' = [pending EXCEPT ![b][id] = n]
     /\ promise' = [promise EXCEPT ![n] = "waiting"]
     /\ inbox' = IF live THEN [inbox EXCEPT ![b] = Append(@, n)] ELSE inbox
     /\ UNCHANGED answer

(* request(): what is sent on a connection that is not live is lost.         *)
Request(b, k, live) ==
  LET n  == issued + 1
      id == nextId[b]
  IN /\ n \in Requests
     /\ issued' = n
     /\ of' = [of EXCEPT ![n] = b]
     /\ kind' = [kind EXCEPT ![n] = k]
     /\ idOf' = [idOf EXCEPT ![n] = id]
     /\ nextId' = [nextId EXCEPT ![b] = id + 1]
     /\ pending' = [pending EXCEPT ![b][id] = n]
     /\ promise' = [promise EXCEPT ![n] = "waiting"]
     /\ inbox' = IF live THEN [inbox EXCEPT ![b] = Append(@, n)] ELSE inbox
     /\ UNCHANGED answer

IsPending(b, n) == \E i \in Requests : pending[b][i] = n

(* Mutant of FailAll: timers are cleared, entries deleted, nobody is told.   *)
FailAllSilently(b) ==
  /\ pending' = [pending EXCEPT ![b] = [i \in Requests |-> NoRequest]]
  /\ UNCHANGED <<issued, of, kind, idOf, promise, answer>>

FailAll(b) ==
  /\ promise' = [n \in Requests |-> IF IsPending(b, n) THEN "rejected" ELSE promise[n]]
  /\ pending' = [pending EXCEPT ![b] = [i \in Requests |-> NoRequest]]
  /\ UNCHANGED <<issued, of, kind, idOf, answer>>

(* Mutant of Close: failing what is pending is left to the close event.      *)
CloseOnly(b) ==
  /\ socket' = [socket EXCEPT ![b] = FALSE]
  /\ wire' = [wire EXCEPT ![b] = "closed"]
  /\ outbox' = [outbox EXCEPT ![b] = <<>>]
  /\ UNCHANGED <<pending, requestVars>>

(* close(): nothing happens without a socket. The frames sent before it are  *)
(* still handled; their responses find nothing pending and are left out.     *)
Close(b) ==
  IF socket[b]
  THEN /\ socket' = [socket EXCEPT ![b] = FALSE]
       /\ wire' = [wire EXCEPT ![b] = "closed"]
       /\ outbox' = [outbox EXCEPT ![b] = <<>>]
       /\ FailAll(b)
  ELSE UNCHANGED <<socket, wire, outbox, pending, requestVars>>

(* createTouchBackend() for a connect(), after the previous teardown.        *)
Dial(b) ==
  /\ init[b] = "none"
  /\ \A c \in 1..(b - 1) : disposed[c]
  /\ init' = [init EXCEPT ![b] = "dialing"]
  /\ wire' = [wire EXCEPT ![b] = "connecting"]
  /\ UNCHANGED <<disposed, socket, nextId, pending, requestVars, companionVars, historyVars>>

(* The connection opens; connect() resolves and init() says hello.           *)
Opens(b) ==
  /\ wire[b] = "connecting"
  /\ wire' = [wire EXCEPT ![b] = "open"]
  /\ socket' = [socket EXCEPT ![b] = TRUE]
  /\ init' = [init EXCEPT ![b] = "greeting"]
  /\ Request(b, "hello", TRUE)
  /\ UNCHANGED <<disposed, outbox, session, current, main, path, historyVars>>

(* Refused, or not in time: the backend is disposed of without a socket.     *)
DialFails(b) ==
  /\ wire[b] = "connecting"
  /\ wire' = [wire EXCEPT ![b] = "closed"]
  /\ init' = [init EXCEPT ![b] = "rejected"]
  /\ disposed' = [disposed EXCEPT ![b] = TRUE]
  /\ UNCHANGED <<socket, nextId, pending, requestVars, companionVars, historyVars>>

(* The hello has settled: init() resolves, or rejects and the backend is     *)
(* disposed of.                                                              *)
Greeted(b) ==
  /\ init[b] = "greeting"
  /\ \E n \in Requests :
       /\ of[n] = b /\ kind[n] = "hello"
       /\ \/ /\ promise[n] = "resolved"
             /\ init' = [init EXCEPT ![b] = "ready"]
             /\ UNCHANGED <<disposed, socket, wire, outbox, pending, requestVars>>
          \/ /\ promise[n] = "rejected"
             /\ init' = [init EXCEPT ![b] = "rejected"]
             /\ disposed' = [disposed EXCEPT ![b] = TRUE]
             /\ Close(b)
  /\ UNCHANGED <<nextId, inbox, session, current, main, path, historyVars>>

(* Without a socket a command is rejected on the spot.                       *)
Command(b, k) ==
  /\ init[b] = "ready" /\ ~disposed[b] /\ socket[b]
  /\ Cardinality({n \in 1..issued : kind[n] \in Commands}) < MaxCommands
  /\ Cardinality({n \in 1..issued : promise[n] = "waiting"}) < MaxWaiting
  /\ Request(b, k, wire[b] = "open")
  /\ UNCHANGED <<init, disposed, socket, wire>>
  /\ UNCHANGED <<outbox, session, current, main, path, historyVars>>

Dispose(b) ==
  /\ init[b] = "ready" /\ ~disposed[b]
  /\ disposed' = [disposed EXCEPT ![b] = TRUE]
  /\ Close(b)
  /\ UNCHANGED <<init, nextId, inbox, session, current, main, path, historyVars>>

Settle(b, m, outcome) ==
  /\ pending' = [pending EXCEPT ![b][idOf[m]] = NoRequest]
  /\ promise' = [promise EXCEPT ![m] = outcome]

TimerFires(n) ==
  /\ promise[n] = "waiting" /\ pending[of[n]][idOf[n]] = n
  /\ Settle(of[n], n, "rejected")
  /\ UNCHANGED <<init, disposed, socket, wire, nextId>>
  /\ UNCHANGED <<issued, of, kind, idOf, answer, companionVars, historyVars>>

(* handleMessage: the response settles what is pending under its id.         *)
ResponseArrives(b) ==
  /\ outbox[b] # <<>>
  /\ wire[b] \in {"open", "broken"}
  /\ outbox' = [outbox EXCEPT ![b] = Tail(@)]
  /\ LET r == Head(outbox[b])
         m == pending[b][idOf[r.to]]
     IN IF m # NoRequest
        THEN /\ Settle(b, m, IF r.ok THEN "resolved" ELSE "rejected")
             /\ answer' = [answer EXCEPT ![m] = r.to]
        ELSE UNCHANGED <<pending, promise, answer>>
  /\ UNCHANGED <<init, disposed, socket, wire, nextId, issued, of, kind, idOf>>
  /\ UNCHANGED <<inbox, session, current, main, path, historyVars>>

(* A message that is no response, of another server or another version.      *)
GarbageArrives(b) ==
  /\ wire[b] = "open"
  /\ FailAll(b)
  /\ UNCHANGED <<init, disposed, socket, wire, nextId, companionVars, historyVars>>

(* The connection is lost, and with it the end of what was sent.             *)
Breaks(b) ==
  /\ wire[b] = "open"
  /\ wire' = [wire EXCEPT ![b] = "broken"]
  /\ \E k \in 0..Len(inbox[b]) : inbox' = [inbox EXCEPT ![b] = SubSeq(@, 1, k)]
  /\ UNCHANGED <<init, disposed, socket, nextId, pending, requestVars>>
  /\ UNCHANGED <<outbox, session, current, main, path, historyVars>>

(* The close event after a loss; after close() it finds nothing to do.       *)
CloseEvent(b) ==
  /\ wire[b] = "broken"
  /\ wire' = [wire EXCEPT ![b] = "closed"]
  /\ socket' = [socket EXCEPT ![b] = FALSE]
  /\ FailAll(b)
  /\ outbox' = [outbox EXCEPT ![b] = <<>>]
  /\ UNCHANGED <<init, disposed, nextId>>
  /\ UNCHANGED <<inbox, session, current, main, path, historyVars>>

-----------------------------------------------------------------------------
(* The companion.                                                            *)

Ends(p) == IF p = <<>> THEN <<>> ELSE <<p[1], p[Len(p)]>>

(* A response that cannot be sent closes the session: of the frames behind   *)
(* it only those that were read already are still handled. After close() it  *)
(* can be sent or not; then all are handled, or some.                        *)
Respond(b, n, ok, rest) ==
  IF wire[b] = "open"
  THEN /\ outbox' = [outbox EXCEPT ![b] = Append(@, [to |-> n, ok |-> ok])]
       /\ inbox' = [inbox EXCEPT ![b] = rest]
  ELSE /\ UNCHANGED outbox
       /\ \E k \in 0..Len(rest) : inbox' = [inbox EXCEPT ![b] = SubSeq(rest, 1, k)]

Work(b) == {inbox[b][i] : i \in DOMAIN inbox[b]} \union ({current[b]} \ {NoRequest})

(* History: session b takes up n.                                            *)
TakesUp(b, n) ==
  LET others == UNION {Work(c) : c \in Backends \ {b}}
  IN crowded' = IF others = {} THEN crowded ELSE crowded \union others \union {n}

HasFrame(b) == session[b] = "idle" /\ inbox[b] # <<>>
Frame(b) == Head(inbox[b])

(* Unauthorized: a client with another token does not get past its hello.    *)
Refuses(b) ==
  /\ HasFrame(b) /\ kind[Frame(b)] = "hello"
  /\ Respond(b, Frame(b), FALSE, Tail(inbox[b]))
  /\ UNCHANGED <<clientVars, requestVars, session, current, main, path, historyVars>>

Greets(b) ==
  /\ HasFrame(b) /\ kind[Frame(b)] = "hello"
  /\ Respond(b, Frame(b), TRUE, Tail(inbox[b]))
  /\ UNCHANGED <<clientVars, requestVars, session, current, main, path, historyVars>>

(* Mutant of PathAfter: a down does not start a path of its own.             *)
PathAfterAppending(p, n) == Append(p, n)

PathAfter(p, n) == IF kind[n] = "down" THEN <<n>> ELSE Append(p, n)

(* down and move only change the buffered path.                              *)
Buffers(b) ==
  /\ HasFrame(b) /\ kind[Frame(b)] \in {"down", "move"}
  /\ path' = PathAfter(path, Frame(b))
  /\ asked' = [asked EXCEPT ![b] =
                 IF kind[Frame(b)] = "down" THEN <<Frame(b)>> ELSE Append(@, Frame(b))]
  /\ TakesUp(b, Frame(b))
  /\ Respond(b, Frame(b), TRUE, Tail(inbox[b]))
  /\ UNCHANGED <<clientVars, requestVars, session, current, main, injected, meant, done>>

(* tap and up hand their work to the main thread and wait for it.            *)
Hands(b) ==
  /\ HasFrame(b) /\ kind[Frame(b)] \in {"tap", "up"}
  /\ current' = [current EXCEPT ![b] = Frame(b)]
  /\ session' = [session EXCEPT ![b] = "waiting"]
  /\ inbox' = [inbox EXCEPT ![b] = Tail(@)]
  /\ TakesUp(b, Frame(b))
  /\ UNCHANGED <<clientVars, requestVars, outbox, main, path, asked, injected, meant, done>>

(* Mutants of MainStarts: the work runs on the session's own thread; the     *)
(* response does not wait for it.                                            *)
StartsAnywhere(b) ==
  /\ session[b] = "waiting"
  /\ main' = b
  /\ session' = [session EXCEPT ![b] = "injecting"]
  /\ UNCHANGED <<clientVars, requestVars, inbox, outbox, current, path, historyVars>>

StartsAndResponds(b) ==
  /\ session[b] = "waiting" /\ main = NoBackend
  /\ main' = b
  /\ session' = [session EXCEPT ![b] = "injecting"]
  /\ Respond(b, current[b], TRUE, inbox[b])
  /\ UNCHANGED <<clientVars, requestVars, current, path, historyVars>>

(* flushPendingPath reads the path before the drag...                        *)
MainStarts(b) ==
  /\ session[b] = "waiting" /\ main = NoBackend
  /\ main' = b
  /\ session' = [session EXCEPT ![b] = "injecting"]
  /\ LET n == current[b] IN
       IF kind[n] = "up"
       THEN /\ injected' = [injected EXCEPT ![n] = Ends(path)]
            /\ meant' = [meant EXCEPT ![n] = Ends(asked[b])]
            /\ asked' = [asked EXCEPT ![b] = <<>>]
       ELSE UNCHANGED <<injected, meant, asked>>
  /\ UNCHANGED <<clientVars, requestVars, inbox, outbox, current, path, crowded, done>>

(* ... and clears it after the drag.                                         *)
MainEnds(b) ==
  /\ session[b] = "injecting" /\ main = b
  /\ main' = NoBackend
  /\ session' = [session EXCEPT ![b] = "idle"]
  /\ current' = [current EXCEPT ![b] = NoRequest]
  /\ path' = IF injected[current[b]] # <<>> THEN <<>> ELSE path
  /\ done' = done \union {current[b]}
  /\ Respond(b, current[b], TRUE, inbox[b])
  /\ UNCHANGED <<clientVars, requestVars, asked, injected, meant, crowded>>

-----------------------------------------------------------------------------
ClientStep(b) ==
  \/ Dial(b) \/ Opens(b) \/ DialFails(b) \/ Greeted(b)
  \/ \E k \in Commands : Command(b, k)
  \/ Dispose(b)
  \/ ResponseArrives(b) \/ GarbageArrives(b)
  \/ Breaks(b) \/ CloseEvent(b)

CompanionStep(b) ==
  \/ Refuses(b) \/ Greets(b) \/ Buffers(b)
  \/ Hands(b) \/ MainStarts(b) \/ MainEnds(b)

Next ==
  \/ \E b \in Backends : ClientStep(b) \/ CompanionStep(b)
  \/ \E n \in Requests : TimerFires(n)

Spec == Init /\ [][Next]_vars

(* A dial has a timeout, so has a request, and init() goes on once its       *)
(* request has settled. Nothing is assumed of the companion.                 *)
Fairness ==
  /\ \A b \in Backends : WF_vars(Opens(b) \/ DialFails(b)) /\ WF_vars(Greeted(b))
  /\ \A n \in Requests : WF_vars(TimerFires(n))

FairSpec == Spec /\ Fairness

-----------------------------------------------------------------------------
(* Properties.                                                               *)

Points == Requests \X Requests

(* Types, and the main thread runs the work of one session at a time         *)
(* (RNDriverTouchCompanion.swift:187).                                       *)
TypeOK ==
  /\ init \in [Backends -> {"none", "dialing", "greeting", "ready", "rejected"}]
  /\ disposed \in [Backends -> BOOLEAN] /\ socket \in [Backends -> BOOLEAN]
  /\ wire \in [Backends -> {"none", "connecting", "open", "broken", "closed"}]
  /\ nextId \in [Backends -> 1..(MaxRequests + 1)]
  /\ pending \in [Backends -> [Requests -> Requests \union {NoRequest}]]
  /\ issued \in 0..MaxRequests
  /\ of \in [Requests -> Backends \union {NoBackend}]
  /\ kind \in [Requests -> Commands \union {"hello"}]
  /\ idOf \in [Requests -> 0..MaxRequests]
  /\ promise \in [Requests -> {"unsent", "waiting", "resolved", "rejected"}]
  /\ answer \in [Requests -> Requests \union {NoRequest}]
  /\ inbox \in [Backends -> Seq(Requests)]
  /\ outbox \in [Backends -> Seq([to : Requests, ok : BOOLEAN])]
  /\ session \in [Backends -> {"idle", "waiting", "injecting"}]
  /\ current \in [Backends -> Requests \union {NoRequest}]
  /\ \A b \in Backends : session[b] = "injecting" <=> main = b
  /\ path \in Seq(Requests) /\ asked \in [Backends -> Seq(Requests)]
  /\ injected \in [Requests -> Points \union {<<>>}]
  /\ meant \in [Requests -> Points \union {<<>>}]
  /\ crowded \subseteq Requests /\ done \subseteq Requests

(* Nobody waits on a connection that is gone: a request that has not settled *)
(* is pending under its id with a timer, and its client still has a socket   *)
(* whose loss rejects it (xctest-backend.ts:91-106, 119-126).                *)
WaiterHasSocket ==
  \A n \in Requests : promise[n] = "waiting" =>
    socket[of[n]] /\ pending[of[n]][idOf[n]] = n

(* A command that resolved is over on the device: the response waits for the *)
(* main thread, whatever other sessions do there                             *)
(* (RNDriverTouchCompanion.swift:134-139, 153-157).                          *)
ResolvedMeansInjected ==
  \A n \in Requests :
    promise[n] = "resolved" /\ kind[n] \in {"tap", "up"} => n \in done

(* "down and move buffer a path and the companion injects that path when up  *)
(* is received" (xctest-companion/README.md:181-182): an up whose session    *)
(* had buffered a path that begins with a down injects that path.            *)
UpInjectsPath ==
  \A n \in done :
    meant[n] # <<>> /\ kind[meant[n][1]] = "down" => injected[n] = meant[n]

(* What holds of it: the gesture is injected as asked, whatever an earlier   *)
(* session left in the buffer and whatever timed out on the way, if no two   *)
(* sessions had work at a time while it was handled                          *)
(* (RNDriverTouchCompanion.swift:126-157, 233-245).                          *)
GestureInjectedAlone ==
  \A n \in done :
    /\ meant[n] # <<>> /\ kind[meant[n][1]] = "down"
    /\ {n, meant[n][1], meant[n][2]} \intersect crowded = {}
    => injected[n] = meant[n]

(* init() comes to an end (xctest-backend.ts:189-196): one at a time, as the *)
(* next backend is made when the one before it is disposed of.               *)
Starting == \E b \in Backends : init[b] \in {"dialing", "greeting"}
InitSettles == Starting ~> ~Starting

(* The RPC client is a request channel, like the CDP client                  *)
(* (xctest-backend.ts:108-171).                                              *)
Channel == INSTANCE RequestChannel WITH Requests <- Requests, promise <- promise, answer <- answer
ChannelSpec == Channel!ChSpec
=============================================================================
