------------------------------ MODULE CdpClient ------------------------------
(* The Chrome-DevTools-Protocol client of the driver                         *)
(* (packages/driver/src/cdp/client.ts): one WebSocket at a time, requests    *)
(* matched to answers by id, a timer per request, an optional reconnect loop.*)
(*                                                                           *)
(* The client runs on one JavaScript thread. A callback (a socket event, a   *)
(* timer, a call of the user) runs to completion and then every continuation *)
(* it made runnable runs before the next callback: callbacks are the actions *)
(* guarded by Quiescent, continuations the ones named After... and below.    *)
(* What a request carries is abstracted away; which promise settles, when,   *)
(* and by whose answer is kept.                                              *)
EXTENDS Naturals, FiniteSets

CONSTANTS AutoReconnect,          \* options.autoReconnect
          MaxReconnectAttempts,   \* options.maxReconnectAttempts
          MaxSockets,             \* bound: WebSockets ever created
          MaxUser                 \* bound: requests issued by evaluate/ping

ASSUME AutoReconnectAssumption == AutoReconnect \in BOOLEAN
ASSUME BoundsAssumption ==
  /\ MaxReconnectAttempts \in Nat
  /\ MaxSockets \in Nat \ {0}
  /\ MaxUser \in Nat

Sockets  == 1..MaxSockets
NoSocket == 0
(* A connection attempt sends at most three requests of its own: enable,     *)
(* probe and, on a reconnect, a second enable.                               *)
MaxRequests == MaxUser + 3 * MaxSockets
Requests  == 1..MaxRequests
NoRequest == 0

VARIABLES
  ws,                 \* this.ws
  created,            \* number of WebSockets constructed so far
  sstate,             \* readyState of every WebSocket
  handlers,           \* how often message/close/error handlers are attached
  openCbs,            \* doConnect's own open/error listeners are attached
  proc,               \* where the doConnect that made the socket (and its caller) is
  caller,             \* who called that doConnect
  awaits,             \* the request that doConnect awaits
  messageId,          \* this.messageId
  issued,             \* requests issued so far (each has an identity of its own)
  userSent,           \* how many of them evaluate/ping issued
  pending,            \* this.pending: id -> request
  idOf, sentOn,       \* id and socket of every request
  promise, answer,    \* its promise, and the request whose answer settled it
  owed,               \* requests the runtime has not answered yet
  isReconnecting, reconnectAttempts,
  backoffs,           \* attemptReconnect calls asleep in their backoff
  awaitPromiseChecked

sockVars   == <<ws, created, sstate, handlers, openCbs, caller>>
procVars   == <<proc, awaits>>
reqVars    == <<messageId, issued, userSent, pending, idOf, sentOn, promise, answer, owed>>
reconVars  == <<isReconnecting, reconnectAttempts, backoffs>>
vars == <<sockVars, procVars, reqVars, reconVars, awaitPromiseChecked>>

Settled == {"resolved", "rejected"}
ProcStates == {"none", "opening", "opened", "enabling", "enabled", "probing",
               "ready", "reenabling", "done", "failing", "failed"}

Init ==
  /\ ws = NoSocket
  /\ created = 0
  /\ sstate = [s \in Sockets |-> "unused"]
  /\ handlers = [s \in Sockets |-> 0]
  /\ openCbs = [s \in Sockets |-> FALSE]
  /\ proc = [s \in Sockets |-> "none"]
  /\ caller = [s \in Sockets |-> "connect"]
  /\ awaits = [s \in Sockets |-> NoRequest]
  /\ messageId = 0
  /\ issued = 0
  /\ userSent = 0
  /\ pending = [i \in Requests |-> NoRequest]
  /\ idOf = [n \in Requests |-> 0]
  /\ sentOn = [n \in Requests |-> NoSocket]
  /\ promise = [n \in Requests |-> "unsent"]
  /\ answer = [n \in Requests |-> NoRequest]
  /\ owed = {}
  /\ isReconnecting = FALSE
  /\ reconnectAttempts = 0
  /\ backoffs = 0
  /\ awaitPromiseChecked = FALSE

-----------------------------------------------------------------------------
(* The event loop.                                                           *)

Runnable(s) ==
  \/ proc[s] \in {"opened", "enabled", "ready", "failing"}
  \/ /\ proc[s] \in {"enabling", "probing", "reenabling"}
     /\ promise[awaits[s]] \in Settled

Quiescent == \A s \in Sockets : ~Runnable(s)

Goto(s, where) ==
  /\ proc' = [proc EXCEPT ![s] = where]
  /\ awaits' = [awaits EXCEPT ![s] = NoRequest]

-----------------------------------------------------------------------------
(* Requests.                                                                 *)

CanSend == ws # NoSocket /\ sstate[ws] = "open"

(* Mutant of Send: the id is the number of requests in flight, plus one.     *)
SendReusingIds(users) ==
  LET n  == issued + 1
      id == 1 + Cardinality({i \in Requests : pending[i] # NoRequest})
  IN /\ n \in Requests
     /\ issued' = n
     /\ userSent' = userSent + users
     /\ messageId' = messageId + 1
     /\ idOf' = [idOf EXCEPT ![n] = id]
     /\ pending' = [pending EXCEPT ![id] = n]
     /\ promise' = [promise EXCEPT ![n] = "waiting"]
     /\ sentOn' = [sentOn EXCEPT ![n] = ws]
     /\ owed' = owed \union {n}
     /\ UNCHANGED answer

(* this.send: the id is one more than the last one used. users is 1 when     *)
(* evaluate or ping sends, 0 when the client does.                           *)
Send(users) ==
  LET n  == issued + 1
      id == messageId + 1
  IN /\ n \in Requests
     /\ issued' = n
     /\ userSent' = userSent + users
     /\ messageId' = id
     /\ idOf' = [idOf EXCEPT ![n] = id]
     /\ pending' = [pending EXCEPT ![id] = n]
     /\ promise' = [promise EXCEPT ![n] = "waiting"]
     /\ sentOn' = [sentOn EXCEPT ![n] = ws]
     /\ owed' = owed \union {n}
     /\ UNCHANGED answer

(* An await on a request of doConnect's own.                                 *)
SendAndAwait(s, where) ==
  /\ Send(0)
  /\ proc' = [proc EXCEPT ![s] = where]
  /\ awaits' = [awaits EXCEPT ![s] = issued + 1]

(* Every pending request is rejected and the map is cleared.                 *)
IsPending(n) == \E i \in Requests : pending[i] = n

(* Mutant of RejectAll: the map is cleared, the callers are forgotten.       *)
ForgetAll ==
  /\ pending' = [i \in Requests |-> NoRequest]
  /\ UNCHANGED <<promise, messageId, issued, userSent, idOf, sentOn, answer>>

RejectAll ==
  /\ promise' = [n \in Requests |-> IF IsPending(n) THEN "rejected" ELSE promise[n]]
  /\ pending' = [i \in Requests |-> NoRequest]
  /\ UNCHANGED <<messageId, issued, userSent, idOf, sentOn, answer>>

-----------------------------------------------------------------------------
(* Connecting.                                                               *)

(* Mutant of NewSocket: message and close are listened to from the start,    *)
(* and again once the socket is open.                                        *)
NewSocketListening(who) ==
  LET s == created + 1 IN
  /\ s \in Sockets
  /\ created' = s
  /\ ws' = s
  /\ sstate' = [sstate EXCEPT ![s] = "connecting"]
  /\ openCbs' = [openCbs EXCEPT ![s] = TRUE]
  /\ handlers' = [handlers EXCEPT ![s] = 1]
  /\ caller' = [caller EXCEPT ![s] = who]
  /\ Goto(s, "opening")

NewSocket(who) ==
  LET s == created + 1 IN
  /\ s \in Sockets
  /\ created' = s
  /\ ws' = s
  /\ sstate' = [sstate EXCEPT ![s] = "connecting"]
  /\ openCbs' = [openCbs EXCEPT ![s] = TRUE]
  /\ caller' = [caller EXCEPT ![s] = who]
  /\ Goto(s, "opening")
  /\ UNCHANGED handlers

(* connect(): every caller in the repository has disconnected first          *)
(* (device.ts tears the previous connection down), hence the first guard.    *)
Connect ==
  /\ Quiescent
  /\ ws = NoSocket
  /\ NewSocket("connect")
  /\ reconnectAttempts' = 0
  /\ UNCHANGED <<reqVars, isReconnecting, backoffs, awaitPromiseChecked>>

(* disconnect(): settles what is pending, silences and closes the current    *)
(* socket. It stops neither a backoff nor a doConnect.                       *)
(* Mutants of Silence: the socket is dropped but not closed; and exactly the *)
(* handlers thought to be attached are taken off.                            *)
SilenceOnly(s) ==
  /\ handlers' = [handlers EXCEPT ![s] = 0]
  /\ openCbs' = [openCbs EXCEPT ![s] = FALSE]
  /\ UNCHANGED <<sstate, owed>>

SilenceOneHandler(s) ==
  /\ sstate' = [sstate EXCEPT ![s] = "closed"]
  /\ handlers' = [handlers EXCEPT ![s] = @ - 1]
  /\ openCbs' = [openCbs EXCEPT ![s] = FALSE]
  /\ owed' = {n \in owed : sentOn[n] # s}

Silence(s) ==
  /\ sstate' = [sstate EXCEPT ![s] = "closed"]
  /\ handlers' = [handlers EXCEPT ![s] = 0]
  /\ openCbs' = [openCbs EXCEPT ![s] = FALSE]
  /\ owed' = {n \in owed : sentOn[n] # s}

Disconnect ==
  /\ Quiescent
  /\ ws # NoSocket
  /\ RejectAll
  /\ Silence(ws)
  /\ ws' = NoSocket
  /\ UNCHANGED <<created, caller, procVars, reconVars, awaitPromiseChecked>>

(* The open event: only a socket that disconnect() left alone still has      *)
(* listeners for it.                                                         *)
SocketOpens(s) ==
  /\ Quiescent
  /\ sstate[s] = "connecting"
  /\ sstate' = [sstate EXCEPT ![s] = "open"]
  /\ openCbs' = [openCbs EXCEPT ![s] = FALSE]
  /\ IF openCbs[s] THEN Goto(s, "opened") ELSE UNCHANGED procVars
  /\ UNCHANGED <<ws, created, handlers, caller, reqVars, reconVars, awaitPromiseChecked>>

(* The continuation of the open event: handlers go onto whatever this.ws is  *)
(* now; on null that throws.                                                 *)
AfterOpen(s) ==
  /\ proc[s] = "opened"
  /\ handlers' = [t \in Sockets |-> IF t = ws THEN handlers[t] + 1 ELSE handlers[t]]
  /\ IF CanSend
     THEN SendAndAwait(s, "enabling")
     ELSE Goto(s, "failing") /\ UNCHANGED reqVars
  /\ UNCHANGED <<ws, created, sstate, openCbs, caller, reconVars, awaitPromiseChecked>>

(* Mutant of AfterEnable: a failed enable is not noticed.                    *)
AfterEnableResolved(s) ==
  /\ proc[s] = "enabling"
  /\ promise[awaits[s]] = "resolved"
  /\ Goto(s, "enabled")
  /\ UNCHANGED <<sockVars, reqVars, reconVars, awaitPromiseChecked>>

AfterEnable(s) ==
  /\ proc[s] = "enabling"
  /\ promise[awaits[s]] \in Settled
  /\ Goto(s, IF promise[awaits[s]] = "resolved" THEN "enabled" ELSE "failing")
  /\ UNCHANGED <<sockVars, reqVars, reconVars, awaitPromiseChecked>>

(* detectAwaitPromiseSupport: once per client; a probe that cannot be sent   *)
(* or fails only means "no support".                                         *)
DetectAwaitPromise(s) ==
  /\ proc[s] = "enabled"
  /\ awaitPromiseChecked' = TRUE
  /\ IF ~awaitPromiseChecked /\ CanSend
     THEN SendAndAwait(s, "probing")
     ELSE Goto(s, "ready") /\ UNCHANGED reqVars
  /\ UNCHANGED <<sockVars, reconVars>>

AfterProbe(s) ==
  /\ proc[s] = "probing"
  /\ promise[awaits[s]] \in Settled
  /\ Goto(s, "ready")
  /\ UNCHANGED <<sockVars, reqVars, reconVars, awaitPromiseChecked>>

-----------------------------------------------------------------------------
(* The reconnect loop.                                                       *)

Exhausted == reconnectAttempts >= MaxReconnectAttempts

(* Mutant of AttemptReconnect: giving up leaves the reconnecting flag set.   *)
AttemptReconnectSticky ==
  /\ isReconnecting' = TRUE
  /\ reconnectAttempts' = IF Exhausted THEN reconnectAttempts ELSE reconnectAttempts + 1
  /\ backoffs' = IF Exhausted THEN backoffs ELSE backoffs + 1

(* attemptReconnect up to its backoff sleep.                                 *)
AttemptReconnect ==
  /\ isReconnecting' = ~Exhausted
  /\ reconnectAttempts' = IF Exhausted THEN reconnectAttempts ELSE reconnectAttempts + 1
  /\ backoffs' = IF Exhausted THEN backoffs ELSE backoffs + 1

(* doConnect resolved: connect() is done; attemptReconnect leaves the        *)
(* reconnecting state and enables the runtime once more.                     *)
Finish(s) ==
  /\ proc[s] = "ready"
  /\ IF caller[s] = "connect"
     THEN Goto(s, "done") /\ UNCHANGED <<reqVars, isReconnecting>>
     ELSE /\ isReconnecting' = FALSE
          /\ IF CanSend
             THEN SendAndAwait(s, "reenabling")
             ELSE Goto(s, "failing") /\ UNCHANGED reqVars
  /\ UNCHANGED <<sockVars, reconnectAttempts, backoffs, awaitPromiseChecked>>

AfterReenable(s) ==
  /\ proc[s] = "reenabling"
  /\ promise[awaits[s]] \in Settled
  /\ Goto(s, IF promise[awaits[s]] = "resolved" THEN "done" ELSE "failing")
  /\ UNCHANGED <<sockVars, reqVars, reconVars, awaitPromiseChecked>>

(* doConnect (or the second enable) rejected: connect() rejects;             *)
(* attemptReconnect tries again, or gives up and rejects what is pending.    *)
AfterFail(s) ==
  /\ proc[s] = "failing"
  /\ Goto(s, "failed")
  /\ IF caller[s] = "connect"
     THEN UNCHANGED <<reqVars, reconVars>>
     ELSE /\ AttemptReconnect
          /\ IF Exhausted THEN RejectAll /\ UNCHANGED owed ELSE UNCHANGED reqVars
  /\ UNCHANGED <<sockVars, awaitPromiseChecked>>

BackoffElapsed ==
  /\ Quiescent
  /\ backoffs > 0
  /\ backoffs' = backoffs - 1
  /\ NewSocket("reconnect")
  /\ UNCHANGED <<reqVars, isReconnecting, reconnectAttempts, awaitPromiseChecked>>

-----------------------------------------------------------------------------
(* The socket's end.                                                         *)

(* Mutant of HandleClose: only a failed reconnect rejects what is pending.   *)
HandleCloseQuietly(s) ==
  LET mayReconnect == handlers[s] > 0 /\ AutoReconnect /\ ~isReconnecting
      rejects == handlers[s] > 0 /\ mayReconnect /\ Exhausted
  IN /\ IF mayReconnect THEN AttemptReconnect ELSE UNCHANGED reconVars
     /\ IF rejects
        THEN RejectAll
        ELSE UNCHANGED <<messageId, issued, userSent, pending, idOf, sentOn, promise, answer>>

(* handleClose runs once for every time it was attached: the first run may   *)
(* start a reconnect, any other rejects what is pending.                     *)
HandleClose(s) ==
  LET mayReconnect == handlers[s] > 0 /\ AutoReconnect /\ ~isReconnecting
      rejects == \/ handlers[s] > 1
                 \/ handlers[s] = 1 /\ (~mayReconnect \/ Exhausted)
  IN /\ IF mayReconnect THEN AttemptReconnect ELSE UNCHANGED reconVars
     /\ IF rejects
        THEN RejectAll
        ELSE UNCHANGED <<messageId, issued, userSent, pending, idOf, sentOn, promise, answer>>

(* An open socket is closed by the peer or the network.                      *)
PeerCloses(s) ==
  /\ Quiescent
  /\ sstate[s] = "open"
  /\ sstate' = [sstate EXCEPT ![s] = "closed"]
  /\ owed' = {n \in owed : sentOn[n] # s}
  /\ HandleClose(s)
  /\ UNCHANGED <<ws, created, handlers, openCbs, caller, procVars, awaitPromiseChecked>>

(* The connection is refused: error, then close.                             *)
SocketFails(s) ==
  /\ Quiescent
  /\ sstate[s] = "connecting"
  /\ sstate' = [sstate EXCEPT ![s] = "closed"]
  /\ openCbs' = [openCbs EXCEPT ![s] = FALSE]
  /\ IF openCbs[s] THEN Goto(s, "failing") ELSE UNCHANGED procVars
  /\ HandleClose(s)
  /\ UNCHANGED <<ws, created, handlers, caller, owed, awaitPromiseChecked>>

-----------------------------------------------------------------------------
(* Requests of the user, answers, timers.                                    *)

UserSends ==
  /\ Quiescent
  /\ userSent < MaxUser
  /\ CanSend
  /\ Send(1)
  /\ UNCHANGED <<sockVars, procVars, reconVars, awaitPromiseChecked>>

(* The pending entry of request m is removed and its promise settles.        *)
Settle(m, outcome) ==
  /\ pending' = [pending EXCEPT ![idOf[m]] = NoRequest]
  /\ promise' = [promise EXCEPT ![m] = IF @ = "waiting" THEN outcome ELSE @]

(* The answer to request n, a result or a protocol error, arrives on the     *)
(* socket it was sent on, in any order. It settles whichever request is      *)
(* pending under its id; without one, or without handlers, it is dropped.    *)
AnswerArrives(n, outcome) ==
  LET m == pending[idOf[n]] IN
  /\ Quiescent
  /\ n \in owed
  /\ owed' = owed \ {n}
  /\ IF handlers[sentOn[n]] > 0 /\ m # NoRequest
     THEN /\ Settle(m, outcome)
          /\ answer' = [answer EXCEPT ![m] = n]
     ELSE UNCHANGED <<pending, promise, answer>>
  /\ UNCHANGED <<messageId, issued, userSent, idOf, sentOn>>
  /\ UNCHANGED <<sockVars, procVars, reconVars, awaitPromiseChecked>>

(* The timer of request n fires. It is cleared whenever the request settles. *)
TimerFires(n) ==
  /\ Quiescent
  /\ promise[n] = "waiting"
  /\ Settle(n, "rejected")
  /\ UNCHANGED <<messageId, issued, userSent, idOf, sentOn, answer, owed>>
  /\ UNCHANGED <<sockVars, procVars, reconVars, awaitPromiseChecked>>

-----------------------------------------------------------------------------
Continues(s) ==
  \/ AfterOpen(s)
  \/ AfterEnable(s)
  \/ DetectAwaitPromise(s)
  \/ AfterProbe(s)
  \/ Finish(s)
  \/ AfterReenable(s)
  \/ AfterFail(s)

Next ==
  \/ Connect
  \/ Disconnect
  \/ UserSends
  \/ BackoffElapsed
  \/ \E s \in Sockets : SocketOpens(s) \/ SocketFails(s) \/ PeerCloses(s) \/ Continues(s)
  \/ \E n \in Requests, outcome \in Settled : AnswerArrives(n, outcome)
  \/ \E n \in Requests : TimerFires(n)

Spec == Init /\ [][Next]_vars

(* The event loop runs what is runnable, a dial ends one way or the other    *)
(* and timers fire. Nothing obliges the runtime to answer, a peer to stay,   *)
(* or a user to call anything.                                               *)
Fairness ==
  /\ \A s \in Sockets : WF_vars(Continues(s)) /\ WF_vars(SocketOpens(s) \/ SocketFails(s))
  /\ \A n \in Requests : WF_vars(TimerFires(n))
  /\ WF_vars(BackoffElapsed)

FairSpec == Spec /\ Fairness

-----------------------------------------------------------------------------
(* Properties.                                                               *)

SocketTypes ==
  /\ ws \in Sockets \union {NoSocket}
  /\ created \in 0..MaxSockets
  /\ sstate \in [Sockets -> {"unused", "connecting", "open", "closed"}]
  /\ handlers \in [Sockets -> Nat]
  /\ openCbs \in [Sockets -> BOOLEAN]
  /\ caller \in [Sockets -> {"connect", "reconnect"}]
  /\ proc \in [Sockets -> ProcStates]
  /\ awaits \in [Sockets -> Requests \union {NoRequest}]

RequestTypes ==
  /\ messageId \in 0..MaxRequests
  /\ issued \in 0..MaxRequests
  /\ userSent \in 0..MaxUser
  /\ pending \in [Requests -> Requests \union {NoRequest}]
  /\ idOf \in [Requests -> 0..MaxRequests]
  /\ sentOn \in [Requests -> Sockets \union {NoSocket}]
  /\ promise \in [Requests -> {"unsent", "waiting"} \union Settled]
  /\ answer \in [Requests -> Requests \union {NoRequest}]
  /\ owed \subseteq Requests

ReconnectTypes ==
  /\ isReconnecting \in BOOLEAN
  /\ reconnectAttempts \in Nat
  /\ backoffs \in Nat
  /\ awaitPromiseChecked \in BOOLEAN

(* The type of every variable (client.ts:36-48).                             *)
TypeOK == SocketTypes /\ RequestTypes /\ ReconnectTypes

(* Whoever waits for an answer can still be woken: a promise is unsettled    *)
(* exactly while its request is in the pending map under its own id, where   *)
(* an answer, a close or a disconnect finds it (client.ts:336, 100-104, 351).*)
WaitingIsPending ==
  \A n \in Requests : promise[n] = "waiting" <=> (idOf[n] # 0 /\ pending[idOf[n]] = n)

(* No cross-talk: across reconnects, disconnects and late answers, a request *)
(* is only ever settled by the answer to itself (client.ts:350-364).         *)
NoCrossTalk == \A n \in Requests : answer[n] \in {NoRequest, n}

(* A client that does not reconnect holds at most one live WebSocket         *)
(* (device.ts:284, "never open a second WebSocket over a live one").         *)
Live == {s \in Sockets : sstate[s] = "open"}

SingleLiveSocket == Cardinality(Live) <= 1

(* Without auto-reconnect nobody waits on a dead connection: an unsettled    *)
(* request was sent on the current socket, which is open and listened to, so *)
(* the loss of the connection is reported at once and not by a timeout       *)
(* (client.ts:394-405, 98-104).                                              *)
NoWaitOnDeadSocket ==
  ~AutoReconnect =>
    \A n \in Requests : promise[n] = "waiting" =>
      sentOn[n] = ws /\ CanSend /\ handlers[ws] = 1

(* Events of a socket reach their subscribers exactly once: a socket over    *)
(* which requests have gone out, and which still is open, has its handlers   *)
(* attached exactly once (client.ts:90-94).                                  *)
EventsHeardOnce ==
  \A s \in Live : (\E n \in Requests : sentOn[n] = s) => handlers[s] = 1

(* connect() comes to an end, by success or by an error, unless disconnect() *)
(* is called while its socket is still being opened (client.ts:59-96).       *)
ConnectSettles ==
  \A s \in Sockets :
    (proc[s] = "opening" /\ caller[s] = "connect")
      ~> (proc[s] \in {"done", "failed"} \/ (proc[s] = "opening" /\ ~openCbs[s]))

(* A reconnect comes to an end, by success or by giving up, except when      *)
(* disconnect() silenced the socket it was dialling: that doConnect never    *)
(* settles and the reconnecting flag stays up for good (client.ts:408-436,   *)
(* 106-122). The last disjunct is the bound on sockets: no dial is left.     *)
DialSilenced ==
  \E s \in Sockets : caller[s] = "reconnect" /\ proc[s] = "opening" /\ ~openCbs[s]

ReconnectEnds ==
  isReconnecting ~>
    (~isReconnecting \/ DialSilenced \/ (backoffs > 0 /\ created = MaxSockets))

(* The client implements the request channel its callers rely on.            *)
Channel == INSTANCE RequestChannel WITH Requests <- Requests, promise <- promise, answer <- answer
ChannelSpec == Channel!ChSpec
=============================================================================
