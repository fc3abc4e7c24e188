-------------------------- MODULE DeviceConnection --------------------------
(* The connection life cycle of RNDevice (packages/driver/src/device.ts):    *)
(* connect() brings up, in this order, event forwarders, a CDP socket, a     *)
(* touch backend with its own connection to a companion, the pointer and a   *)
(* liveness token for device.files; teardownConnection(), shared by          *)
(* disconnect(), by a second connect() and by a failing connect(), takes     *)
(* them down.                                                                *)
(*                                                                           *)
(* Calls are numbered in the order they are made, and a resource is named    *)
(* by the call of connect() that brought it up. The CDP client is the one    *)
(* CdpClient describes, without auto-reconnect (device.ts:109), reduced to   *)
(* its socket. A step of a call is what runs between two awaits.             *)
EXTENDS Naturals, Sequences, FiniteSets

CONSTANTS MaxCalls,        \* bound: calls of connect() and disconnect()
          MaxExceptions,   \* MAX_BUFFERED_EXCEPTIONS
          Sequential       \* callers await one call before they make the next

ASSUME CallsAssumption ==
  /\ MaxCalls \in Nat \ {0}
  /\ MaxExceptions \in Nat \ {0}
  /\ Sequential \in BOOLEAN

Calls  == 1..MaxCalls
Nobody == 0                \* null

VARIABLES
  pc,             \* where each call is
  called,         \* calls made so far
  ws,             \* the CDP client's current socket
  sock,           \* state of the socket each connect() opened
  attached,       \* sockets with message and close handlers
  via,            \* the socket on which a connect() sent Runtime.enable
  forwarders,     \* this._eventForwarderCleanups is not empty
  exceptions,     \* this._uncaughtExceptions, by the socket they came from
  backend,        \* this._touchBackend
  info,           \* this._touchBackendInfo
  pointer,        \* the pointer's backend
  token,          \* this._filesLifecycle (and this._files)
  liveTokens,     \* tokens whose connected flag is still set
  companion,      \* each backend's own connection
  disposing,      \* the backend whose dispose() a call awaits
  position,       \* connection the pointer's recorded position was reached on
  gesture         \* connection a pointer operation in flight was started on

callVars == <<pc, called, via, disposing>>
cdpVars  == <<ws, sock, attached>>
evtVars  == <<forwarders, exceptions>>
capVars  == <<backend, info, pointer, token, liveTokens, position>>
vars == <<callVars, cdpVars, evtVars, capVars, companion, gesture>>

InFlight == {"tearing", "discovering", "opening", "opened", "enabling",
             "detecting", "touching", "rolling", "closing"}
Finished == {"connected", "rejected", "disconnected"}

Init ==
  /\ pc = [c \in Calls |-> "idle"]
  /\ called = 0
  /\ ws = Nobody
  /\ sock = [c \in Calls |-> "none"]
  /\ attached = {}
  /\ via = [c \in Calls |-> Nobody]
  /\ forwarders = FALSE
  /\ exceptions = <<>>
  /\ backend = Nobody
  /\ info = Nobody
  /\ pointer = Nobody
  /\ token = Nobody
  /\ liveTokens = {}
  /\ companion = [c \in Calls |-> "none"]
  /\ disposing = [c \in Calls |-> Nobody]
  /\ position = Nobody
  /\ gesture = Nobody

-----------------------------------------------------------------------------
(* teardownConnection(): the synchronous part, up to the await. The CDP      *)
(* client's disconnect() runs within it; a backend's dispose() is awaited.   *)

(* Mutant of DropEvents: what is buffered stays buffered.                    *)
KeepExceptions == forwarders' = FALSE /\ UNCHANGED exceptions

DropEvents == forwarders' = FALSE /\ exceptions' = <<>>

(* Mutant of ClearPointer: the pointer keeps its backend.                    *)
KeepPointer == UNCHANGED <<pointer, position>>

ClearPointer == pointer' = Nobody /\ position' = Nobody

(* Mutant of RevokeToken: the reference is dropped, its flag left set.       *)
DropToken == token' = Nobody /\ UNCHANGED liveTokens

RevokeToken == token' = Nobody /\ liveTokens' = liveTokens \ {token}

(* Mutant of DisposeBackend: the reference is dropped, nothing disposed.     *)
ForgetBackend(c) == backend' = Nobody /\ UNCHANGED disposing

DisposeBackend(c) ==
  /\ backend' = Nobody
  /\ disposing' = [disposing EXCEPT ![c] = backend]

(* Mutant of CdpDisconnect: the reference is dropped, the socket left open.  *)
CdpForget == ws' = Nobody /\ UNCHANGED <<sock, attached>>

CdpDisconnect ==
  /\ sock' = [c \in Calls |-> IF c = ws THEN "closed" ELSE sock[c]]
  /\ attached' = attached \ {ws}
  /\ ws' = Nobody

Teardown(c, where) ==
  /\ DropEvents
  /\ info' = Nobody
  /\ ClearPointer
  /\ RevokeToken
  /\ DisposeBackend(c)
  /\ CdpDisconnect
  /\ pc' = [pc EXCEPT ![c] = where]

(* The await of teardownConnection() ends. Disconnecting CDP cannot fail;    *)
(* dispose() may. A rejected teardown rejects disconnect() and the up-front  *)
(* teardown of connect(), and is swallowed after a failed connect().         *)
TeardownDone(c, disposed) ==
  /\ pc[c] \in {"tearing", "rolling", "closing"}
  /\ disposed \/ disposing[c] # Nobody
  /\ companion' = [b \in Calls |-> IF b # disposing[c] THEN companion[b]
                                    ELSE IF disposed THEN "gone" ELSE "stuck"]
  /\ disposing' = [disposing EXCEPT ![c] = Nobody]
  /\ pc' = [pc EXCEPT ![c] =
              IF ~disposed \/ pc[c] = "rolling" THEN "rejected"
              ELSE IF pc[c] = "tearing" THEN "discovering" ELSE "disconnected"]
  /\ UNCHANGED <<called, via, cdpVars, evtVars, capVars, gesture>>

-----------------------------------------------------------------------------
(* connect() and disconnect() are called.                                    *)

MayCall == Sequential => \A c \in Calls : pc[c] \notin InFlight

StartConnect ==
  LET c == called + 1 IN
  /\ MayCall
  /\ c \in Calls
  /\ called' = c
  /\ Teardown(c, "tearing")
  /\ UNCHANGED <<via, companion, gesture>>

Disconnect ==
  LET c == called + 1 IN
  /\ MayCall
  /\ c \in Calls
  /\ called' = c
  /\ Teardown(c, "closing")
  /\ UNCHANGED <<via, companion, gesture>>

(* No target within the timeout, or none that may be selected.               *)
DiscoveryFails(c) ==
  /\ pc[c] = "discovering"
  /\ pc' = [pc EXCEPT ![c] = "rejected"]
  /\ UNCHANGED <<called, via, disposing, cdpVars, evtVars, capVars, companion, gesture>>

(* A target is found: forwarders first, then the CDP client dials.           *)
Dial(c) ==
  /\ pc[c] = "discovering"
  /\ pc' = [pc EXCEPT ![c] = "opening"]
  /\ forwarders' = TRUE
  /\ ws' = c
  /\ sock' = [sock EXCEPT ![c] = "opening"]
  /\ UNCHANGED <<called, via, disposing, attached, exceptions, capVars, companion, gesture>>

(* Mutant of RollBack: a failing connect() just rejects.                     *)
JustReject(c) ==
  /\ pc' = [pc EXCEPT ![c] = "rejected"]
  /\ UNCHANGED <<called, via, disposing, cdpVars, evtVars, capVars, companion, gesture>>

(* The catch block of connect().                                             *)
RollBack(c) == Teardown(c, "rolling") /\ UNCHANGED <<called, via, companion, gesture>>

SocketOpens(c) ==
  /\ pc[c] = "opening"
  /\ sock[c] = "opening"
  /\ sock' = [sock EXCEPT ![c] = "open"]
  /\ pc' = [pc EXCEPT ![c] = "opened"]
  /\ UNCHANGED <<called, via, disposing, ws, attached, evtVars, capVars, companion, gesture>>

(* The client goes on with the socket that is current by now.                *)
AfterOpen(c) ==
  /\ pc[c] = "opened"
  /\ IF ws # Nobody /\ sock[ws] = "open"
     THEN /\ attached' = attached \union {ws}
          /\ via' = [via EXCEPT ![c] = ws]
          /\ pc' = [pc EXCEPT ![c] = "enabling"]
          /\ UNCHANGED <<called, disposing, ws, sock, evtVars, capVars, companion, gesture>>
     ELSE RollBack(c)

(* The dial is refused.                                                      *)
DialFails(c) ==
  /\ pc[c] = "opening"
  /\ sock[c] = "opening"
  /\ RollBack(c)

(* The runtime answers the enable and the probe.                             *)
Enabled(c) ==
  /\ pc[c] = "enabling"
  /\ sock[via[c]] = "open" /\ via[c] \in attached
  /\ pc' = [pc EXCEPT ![c] = "detecting"]
  /\ UNCHANGED <<called, via, disposing, cdpVars, evtVars, capVars, companion, gesture>>

(* Mutant of EnableFails: the loss of the socket goes unnoticed.             *)
EnableFailsWhileOpen(c) ==
  /\ pc[c] = "enabling"
  /\ sock[via[c]] = "open"
  /\ RollBack(c)

(* It answers with an error, not in time, or the socket is gone.             *)
EnableFails(c) ==
  /\ pc[c] = "enabling"
  /\ RollBack(c)

(* detectPlatform(): the name of the device tells, or the harness does.      *)
PlatformKnown(c) ==
  /\ pc[c] = "detecting"
  /\ pc' = [pc EXCEPT ![c] = "touching"]
  /\ UNCHANGED <<called, via, disposing, cdpVars, evtVars, capVars, companion, gesture>>

PlatformUnknown(c) ==
  /\ pc[c] = "detecting"
  /\ RollBack(c)

(* createTouchBackend() resolves: everything is installed in one go.         *)
BackendReady(c) ==
  /\ pc[c] = "touching"
  /\ companion' = [companion EXCEPT ![c] = "live"]
  /\ backend' = c
  /\ info' = c
  /\ pointer' = c /\ position' = Nobody
  /\ token' = c /\ liveTokens' = liveTokens \union {c}
  /\ pc' = [pc EXCEPT ![c] = "connected"]
  /\ UNCHANGED <<called, via, disposing, cdpVars, evtVars, gesture>>

(* No backend is available; those that were tried have been disposed.        *)
NoBackend(c) ==
  /\ pc[c] = "touching"
  /\ RollBack(c)

-----------------------------------------------------------------------------
(* Meanwhile: the app, the network, and operations of the test.              *)

PeerCloses(c) ==
  /\ sock[c] = "open"
  /\ sock' = [sock EXCEPT ![c] = "closed"]
  /\ UNCHANGED <<callVars, ws, attached, evtVars, capVars, companion, gesture>>

(* Mutant of AppThrows: the buffer is not bounded.                           *)
AppThrowsUnbounded(c) ==
  /\ sock[c] = "open" /\ c \in attached
  /\ forwarders
  /\ exceptions' = Append(exceptions, c)
  /\ UNCHANGED <<callVars, cdpVars, forwarders, capVars, companion, gesture>>

(* An uncaught exception in the app reaches the forwarder, which buffers it  *)
(* unless the buffer is full.                                                *)
AppThrows(c) ==
  /\ sock[c] = "open" /\ c \in attached
  /\ forwarders
  /\ Len(exceptions) < MaxExceptions
  /\ exceptions' = Append(exceptions, c)
  /\ UNCHANGED <<callVars, cdpVars, forwarders, capVars, companion, gesture>>

(* An operation reports the oldest exception instead of doing its work.      *)
OperationReports ==
  /\ exceptions # <<>>
  /\ exceptions' = Tail(exceptions)
  /\ UNCHANGED <<callVars, cdpVars, forwarders, capVars, companion, gesture>>

(* A pointer down or move: the backend is looked up, its command awaited,    *)
(* and only then is the position recorded. A disposed backend may still      *)
(* succeed: dispose() of the instrumentation and adb backends does nothing.  *)
GestureStarts ==
  /\ gesture = Nobody
  /\ pointer # Nobody
  /\ gesture' = pointer
  /\ UNCHANGED <<callVars, cdpVars, evtVars, capVars, companion>>

GestureEnds(succeeds) ==
  /\ gesture # Nobody
  /\ gesture' = Nobody
  /\ position' = IF succeeds THEN gesture ELSE position
  /\ UNCHANGED <<callVars, cdpVars, evtVars, backend, info, pointer, token, liveTokens, companion>>

-----------------------------------------------------------------------------
Advance(c) ==
  \/ \E disposed \in BOOLEAN : TeardownDone(c, disposed)
  \/ DiscoveryFails(c) \/ Dial(c)
  \/ SocketOpens(c) \/ AfterOpen(c) \/ DialFails(c)
  \/ Enabled(c) \/ EnableFails(c)
  \/ PlatformKnown(c) \/ PlatformUnknown(c)
  \/ BackendReady(c) \/ NoBackend(c)

Next ==
  \/ StartConnect \/ Disconnect
  \/ \E c \in Calls : Advance(c) \/ PeerCloses(c) \/ AppThrows(c)
  \/ OperationReports
  \/ GestureStarts
  \/ \E succeeds \in BOOLEAN : GestureEnds(succeeds)

Spec == Init /\ [][Next]_vars

(* Every await of a call is bounded by a timeout of the driver, or by the    *)
(* operating system for a dial.                                              *)
FairSpec == Spec /\ \A c \in Calls : WF_vars(Advance(c))
-----------------------------------------------------------------------------
(* Properties.                                                               *)

TypeOK ==
  /\ pc \in [Calls -> {"idle"} \union InFlight \union Finished]
  /\ called \in 0..MaxCalls
  /\ {ws, backend, info, pointer, token, position, gesture} \subseteq Calls \union {Nobody}
  /\ sock \in [Calls -> {"none", "opening", "open", "closed"}]
  /\ attached \subseteq Calls
  /\ liveTokens \subseteq Calls
  /\ via \in [Calls -> Calls \union {Nobody}]
  /\ disposing \in [Calls -> Calls \union {Nobody}]
  /\ companion \in [Calls -> {"none", "live", "gone", "stuck"}]
  /\ forwarders \in BOOLEAN
  /\ exceptions \in Seq(Calls) /\ Len(exceptions) <= MaxExceptions

(* connect() is atomic (device.ts:133): the touch backend, its description,  *)
(* the pointer and the file token always stem from the same connect(), and   *)
(* while they exist the forwarders are registered and the CDP client holds   *)
(* the socket of that very connect(), not none and not another one.          *)
CapabilitiesAgree ==
  /\ info = backend /\ pointer = backend /\ token = backend
  /\ backend # Nobody => ws = backend /\ forwarders

(* A device.files object that was captured earlier is dead once its          *)
(* connection is (device.ts:86): no token but the current one is live.       *)
NoOrphanToken == liveTokens \subseteq {token}

(* A reconnect never opens a second WebSocket over a live one                *)
(* (device.ts:284).                                                          *)
OneSocket == Cardinality({c \in Calls : sock[c] \in {"opening", "open"}}) <= 1

(* Unless a connect() is under way or was the last to succeed, nothing of a  *)
(* connection is left: whichever step failed, including dispose(), the       *)
(* socket, forwarders, exceptions and capabilities are gone                  *)
(* (device.ts:194-202, 259-296).                                             *)
NothingLeftBehind ==
  (called > 0 => pc[called] \in {"rejected", "disconnected"}) =>
    /\ ws = Nobody /\ backend = Nobody /\ liveTokens = {}
    /\ \A c \in Calls : sock[c] \in {"none", "closed"}
    /\ ~forwarders /\ exceptions = <<>>

(* The companion's connection is not leaked: it is live only while its       *)
(* backend is installed or being disposed (device.ts:289-291).               *)
CompanionAccountedFor ==
  \A b \in Calls : companion[b] = "live" =>
    b = backend \/ \E c \in Calls : disposing[c] = b

(* An exception of an earlier connection is never held against an operation  *)
(* of a later one (device.ts:268-270): all that is buffered came over the    *)
(* current socket.                                                           *)
NoStaleException == \A i \in 1..Len(exceptions) : exceptions[i] = ws

(* A position recorded on one connection is not there for the stepped moves  *)
(* of another (pointer.ts:60-62).                                            *)
NoStalePosition ==
  position # Nobody /\ pointer # Nobody => position = pointer

(* connect() and disconnect() settle.                                        *)
CallsSettle == \A c \in Calls : pc[c] \in InFlight ~> pc[c] \in Finished
=============================================================================
