------------------------------ MODULE DeviceProofs ------------------------------
(* What holds of RNDevice, for every number of calls, operations and         *)
(* connections, every size of a buffer, every path, and any configuration of *)
(* the touch backends.                                                       *)
(*                                                                           *)
(* DeviceConnection. The types hold for any caller; the other theorems are   *)
(* about callers that await one call before they make the next (Sequential), *)
(* as the fixture does: with overlapping calls they are false. The argument: *)
(* only the latest call can be in flight (OneInFlight), and what is up of a  *)
(* connection is a function of where that call is (Stage).                   *)
(*                                                                           *)
(* DeviceFiles. The argument: where an operation is tells what it is and by  *)
(* which transport it goes (Route); the place it asks for does not climb,    *)
(* and once it was found inside the container it stays inside, although the  *)
(* app writes meanwhile (PlaceSound); and a result is decided only when the  *)
(* transport is done, by what was read or written then (ResultSound).        *)
(*                                                                           *)
(* AndroidTouch. The argument: only the latest request is waited for         *)
(* (Asked), and the companion takes requests in the order they were made, so *)
(* that all it still has to do is later than what it answered (Queued). An   *)
(* event after one of a later request is therefore that of a request given   *)
(* up (Ordered). What is done and what is left of a command make the whole   *)
(* (Performing), and while a drag goes on companion and backend know where   *)
(* it was moved to last (Dragging).                                          *)
EXTENDS MCDevice, FiniteSetTheorems, SequenceTheorems, TLAPS

Down == {"tearing", "discovering", "rolling", "closing", "rejected", "disconnected"}
Rising == {"opening", "opened", "enabling", "detecting", "touching"}

(* Calls are made in order, and all but the latest have settled.             *)
OneInFlight ==
  /\ \A c \in Calls : pc[c] = "idle" <=> c > called
  /\ \A c \in Calls : pc[c] \in InFlight => c = called

(* Where the latest call is tells what is up.                                *)
Stage ==
  /\ (called = 0 \/ (called \in Calls /\ pc[called] \in Down)) =>
       /\ ws = Nobody /\ backend = Nobody
       /\ ~forwarders /\ exceptions = <<>>
  /\ (called \in Calls /\ pc[called] \in Rising) =>
       ws = called /\ backend = Nobody /\ forwarders
  /\ (called \in Calls /\ pc[called] = "connected") =>
       ws = called /\ backend = called /\ forwarders

(* Capabilities come and go together, and the token is the only live one.    *)
Bundled ==
  /\ info = backend /\ pointer = backend /\ token = backend
  /\ liveTokens \subseteq {token}

(* No socket is alive but the current one, and it feeds the buffer.          *)
OnlyCurrent ==
  /\ \A c \in Calls : sock[c] \in {"opening", "open"} => c = ws
  /\ NoStaleException

(* A call holds a backend to dispose of only while it awaits its dispose().  *)
Disposal ==
  /\ \A c \in Calls : disposing[c] # Nobody => pc[c] \in {"tearing", "rolling", "closing"}
  /\ CompanionAccountedFor

IInv == TypeOK /\ OneInFlight /\ Stage /\ Bundled /\ OnlyCurrent /\ Disposal

-----------------------------------------------------------------------------
(* Null is no call.                                                          *)
LEMMA NobodyIsNoCall == Nobody \notin Calls /\ Calls \subseteq Nat
BY CallsAssumption DEF Nobody, Calls

(* The synchronous part of teardownConnection keeps the types                *)
(* (device.ts:259-296).                                                      *)
LEMMA TeardownKeepsTypes ==
  ASSUME TypeOK, NEW c \in Calls, NEW where \in {"tearing", "rolling", "closing"},
         Teardown(c, where), called' \in 0..MaxCalls,
         UNCHANGED <<via, companion, gesture>>
  PROVE  TypeOK'
<1>1. /\ pc' \in [Calls -> {"idle"} \union InFlight \union Finished]
      /\ sock' \in [Calls -> {"none", "opening", "open", "closed"}]
      /\ disposing' \in [Calls -> Calls \union {Nobody}]
      /\ companion' \in [Calls -> {"none", "live", "gone", "stuck"}]
      /\ via' \in [Calls -> Calls \union {Nobody}]
  BY DEF TypeOK, Teardown, DisposeBackend, CdpDisconnect, InFlight
<1>2. /\ {ws', backend', info', pointer', token', position', gesture'}
           \subseteq Calls \union {Nobody}
      /\ attached' \subseteq Calls
      /\ liveTokens' \subseteq Calls
  BY DEF TypeOK, Teardown, ClearPointer, RevokeToken, DisposeBackend, CdpDisconnect
<1>3. forwarders' = FALSE /\ exceptions' = <<>>
  BY DEF Teardown, DropEvents
<1>4. exceptions' \in Seq(Calls) /\ Len(exceptions') <= MaxExceptions
  BY <1>3, CallsAssumption
<1> QED BY <1>1, <1>2, <1>3, <1>4 DEF TypeOK

(* Every step of a call, and every step around it, keeps the types.          *)
LEMMA StepKeepsTypes ==
  ASSUME TypeOK, [Next]_vars
  PROVE  TypeOK'
<1> USE NobodyIsNoCall DEF callVars, cdpVars, evtVars, capVars
<1>1. CASE StartConnect
  BY <1>1, TeardownKeepsTypes DEF StartConnect, Calls
<1>2. CASE Disconnect
  BY <1>2, TeardownKeepsTypes DEF Disconnect, Calls
<1>3. ASSUME NEW c \in Calls, Advance(c) PROVE TypeOK'
  <2>1. ASSUME RollBack(c) PROVE TypeOK'
    BY <2>1, TeardownKeepsTypes DEF RollBack, TypeOK
  <2>2. ASSUME NEW disposed \in BOOLEAN, TeardownDone(c, disposed) PROVE TypeOK'
    BY <2>2 DEF TeardownDone, TypeOK, InFlight, Finished
  <2>3. CASE DiscoveryFails(c)
    BY <2>3 DEF DiscoveryFails, TypeOK, Finished
  <2>4. CASE Dial(c)
    BY <2>4 DEF Dial, TypeOK, InFlight
  <2>5. CASE SocketOpens(c)
    BY <2>5 DEF SocketOpens, TypeOK, InFlight
  <2>6. CASE AfterOpen(c)
    <3>1. CASE ws # Nobody /\ sock[ws] = "open"
      <4>1. ws \in Calls
        BY <3>1 DEF TypeOK
      <4>2. /\ attached' = attached \union {ws}
            /\ via' = [via EXCEPT ![c] = ws]
            /\ pc' = [pc EXCEPT ![c] = "enabling"]
            /\ UNCHANGED <<called, disposing, ws, sock, evtVars, capVars, companion, gesture>>
        BY <2>6, <3>1 DEF AfterOpen
      <4> QED BY <4>1, <4>2 DEF TypeOK, InFlight
    <3>2. CASE ~(ws # Nobody /\ sock[ws] = "open")
      BY <2>6, <3>2, <2>1 DEF AfterOpen
    <3> QED BY <3>1, <3>2
  <2>7. CASE Enabled(c)
    BY <2>7 DEF Enabled, TypeOK, InFlight
  <2>8. CASE PlatformKnown(c)
    BY <2>8 DEF PlatformKnown, TypeOK, InFlight
  <2>9. CASE BackendReady(c)
    BY <2>9 DEF BackendReady, TypeOK, Finished
  <2>10. CASE DialFails(c) \/ EnableFails(c) \/ PlatformUnknown(c) \/ NoBackend(c)
    BY <2>10, <2>1 DEF DialFails, EnableFails, PlatformUnknown, NoBackend
  <2> QED
    BY <1>3, <2>2, <2>3, <2>4, <2>5, <2>6, <2>7, <2>8, <2>9, <2>10 DEF Advance
<1>4. ASSUME NEW c \in Calls, PeerCloses(c) PROVE TypeOK'
  BY <1>4 DEF PeerCloses, TypeOK
<1>5. ASSUME NEW c \in Calls, AppThrows(c) PROVE TypeOK'
  BY <1>5, CallsAssumption DEF AppThrows, TypeOK
<1>6. CASE OperationReports
  BY <1>6, CallsAssumption DEF OperationReports, TypeOK
<1>7. CASE GestureStarts
  BY <1>7 DEF GestureStarts, TypeOK
<1>8. ASSUME NEW succeeds \in BOOLEAN, GestureEnds(succeeds) PROVE TypeOK'
  BY <1>8 DEF GestureEnds, TypeOK
<1>9. CASE UNCHANGED vars
  BY <1>9 DEF vars, TypeOK
<1> QED
  BY <1>1, <1>2, <1>3, <1>4, <1>5, <1>6, <1>7, <1>8, <1>9 DEF Next

(* The initial state has the types.                                          *)
LEMMA InitTypes == Init => TypeOK
<1> SUFFICES ASSUME Init PROVE TypeOK
  OBVIOUS
<1>1. exceptions \in Seq(Calls) /\ Len(exceptions) <= MaxExceptions
  BY CallsAssumption DEF Init
<1>2. called \in 0..MaxCalls
  BY CallsAssumption DEF Init
<1> QED BY <1>1, <1>2 DEF Init, TypeOK

(* The types of RNDevice's state hold for any caller, and the exception      *)
(* buffer keeps its limit (device.ts:370).                                   *)
THEOREM TypeCorrect == Spec => []TypeOK
BY InitTypes, StepKeepsTypes, PTL DEF Spec

-----------------------------------------------------------------------------
(* teardownConnection by the latest call, or by the one that is now made the *)
(* latest, takes everything down (device.ts:259-296).                        *)
LEMMA TeardownTakesDown ==
  ASSUME IInv, NEW c \in Calls, NEW where \in {"tearing", "rolling", "closing"},
         Teardown(c, where), UNCHANGED <<via, companion, gesture>>,
         called' = c, c \in {called, called + 1},
         disposing[c] = Nobody,
         \A d \in Calls : d # c => pc[d] \notin InFlight
  PROVE  IInv'
<1> USE NobodyIsNoCall DEF IInv
<1>1. TypeOK'
  <2>1. called' \in 0..MaxCalls
    BY CallsAssumption DEF Calls
  <2> QED BY <2>1, TeardownKeepsTypes
<1>2. pc' = [pc EXCEPT ![c] = where] /\ pc \in [Calls -> {"idle"} \union InFlight \union Finished]
  BY DEF Teardown, TypeOK
<1>3. OneInFlight'
  <2>1. called \in Nat /\ c \in Nat
    BY DEF TypeOK
  <2>2. \A d \in Calls : d # c => (d > c <=> d > called)
    <3>1. CASE c = called
      BY <3>1
    <3>2. CASE c = called + 1
      BY <3>2, <2>1
    <3> QED BY <3>1, <3>2
  <2> QED BY <1>2, <2>1, <2>2 DEF OneInFlight, InFlight
<1>4. Stage'
  <2>1. pc'[called'] = where /\ called' # 0
    BY <1>2 DEF Nobody
  <2> QED BY <2>1 DEF Stage, Teardown, DropEvents, DisposeBackend, CdpDisconnect, Down, Rising
<1>5. Bundled'
  BY DEF Bundled, Teardown, ClearPointer, RevokeToken, DisposeBackend
<1>6. OnlyCurrent'
  <2>1. \A d \in Calls : sock'[d] \notin {"opening", "open"}
    BY DEF OnlyCurrent, Teardown, CdpDisconnect
  <2>2. NoStaleException'
    BY DEF NoStaleException, Teardown, DropEvents
  <2> QED BY <2>1, <2>2 DEF OnlyCurrent
<1>7. Disposal'
  <2>1. disposing' = [disposing EXCEPT ![c] = backend] /\ backend' = Nobody
    BY DEF Teardown, DisposeBackend
  <2>2. \A d \in Calls : d # c => disposing[d] = Nobody
    BY DEF Disposal, InFlight
  <2>3. \A d \in Calls : disposing'[d] # Nobody => pc'[d] \in {"tearing", "rolling", "closing"}
    BY <1>2, <2>1, <2>2 DEF TypeOK
  <2>4. CompanionAccountedFor'
    <3>1. ASSUME NEW b \in Calls, companion[b] = "live" PROVE b = backend
      BY <3>1, <2>2 DEF Disposal, CompanionAccountedFor
    <3>2. disposing'[c] = backend
      BY <2>1 DEF TypeOK
    <3> QED BY <3>1, <3>2 DEF CompanionAccountedFor
  <2> QED BY <2>3, <2>4 DEF Disposal
<1> QED BY <1>1, <1>3, <1>4, <1>5, <1>6, <1>7

(* A failing connect() is in flight, hence the latest, and disposes nothing. *)
LEMMA RollBackTakesDown ==
  ASSUME IInv, NEW c \in Calls, pc[c] \in Rising, RollBack(c)
  PROVE  IInv'
<1>1. c = called /\ disposing[c] = Nobody /\ \A d \in Calls : d # c => pc[d] \notin InFlight
  BY DEF IInv, OneInFlight, Disposal, Rising, InFlight
<1> QED BY <1>1, TeardownTakesDown DEF RollBack

(* A new connect() or disconnect() of a caller that awaits its calls.        *)
LEMMA CallTakesDown ==
  ASSUME IInv, Sequential, MayCall, NEW where \in {"tearing", "closing"},
         called + 1 \in Calls, called' = called + 1, Teardown(called + 1, where),
         UNCHANGED <<via, companion, gesture>>
  PROVE  IInv'
<1>1. \A d \in Calls : pc[d] \notin InFlight
  BY DEF MayCall
<1>2. \A d \in Calls : disposing[d] = Nobody
  BY <1>1 DEF IInv, Disposal, InFlight
<1> QED BY <1>1, <1>2, TeardownTakesDown

-----------------------------------------------------------------------------
(* The steps of a call in flight.                                            *)
LEMMA AdvanceKeepsInv ==
  ASSUME IInv, NEW c \in Calls, Advance(c), TypeOK'
  PROVE  IInv'
<1> USE NobodyIsNoCall DEF IInv, callVars, cdpVars, evtVars, capVars
<1> USE DEF InFlight, Finished, Down, Rising
<1>1. ASSUME pc[c] \in InFlight
      PROVE  called = c /\ called \in Calls /\ called # 0
  BY <1>1 DEF OneInFlight, Nobody
<1>2. ASSUME NEW disposed \in BOOLEAN, TeardownDone(c, disposed) PROVE IInv'
  <2>1. /\ called = c /\ called' = called
        /\ pc'[c] \in {"discovering", "rejected", "disconnected"}
        /\ pc[c] \in {"tearing", "rolling", "closing"}
        /\ \A d \in Calls : d # c => pc'[d] = pc[d]
    BY <1>2, <1>1 DEF TeardownDone, TypeOK
  <2>2. OneInFlight'
    BY <2>1 DEF OneInFlight
  <2>3. Stage'
    BY <1>1, <1>2, <2>1 DEF TeardownDone, Stage
  <2>4. Bundled' /\ OnlyCurrent'
    BY <1>2 DEF TeardownDone, Bundled, OnlyCurrent, NoStaleException
  <2>5. \A d \in Calls : disposing'[d] = Nobody
    BY <1>2, <2>1 DEF TeardownDone, Disposal, OneInFlight, TypeOK
  <2>6. CompanionAccountedFor'
    <3> SUFFICES ASSUME NEW b \in Calls, companion'[b] = "live" PROVE b = backend'
      BY DEF CompanionAccountedFor
    <3>1. b # disposing[c] /\ companion[b] = "live"
      BY <1>2 DEF TeardownDone, TypeOK
    <3>2. \A d \in Calls : disposing[d] # Nobody => d = c
      BY <2>1 DEF Disposal, OneInFlight
    <3> QED BY <3>1, <3>2, <1>2 DEF TeardownDone, Disposal, CompanionAccountedFor
  <2> QED BY <2>2, <2>3, <2>4, <2>5, <2>6 DEF Disposal
<1>3. ASSUME \/ DiscoveryFails(c) \/ SocketOpens(c) \/ Enabled(c) \/ PlatformKnown(c)
      PROVE  IInv'
  <2>1. /\ called = c /\ called' = called
        /\ \/ pc[c] = "discovering" /\ pc'[c] = "rejected"
           \/ pc[c] \in Rising /\ pc'[c] \in Rising
        /\ \A d \in Calls : d # c => pc'[d] = pc[d]
    BY <1>1, <1>3 DEF DiscoveryFails, SocketOpens, Enabled, PlatformKnown, TypeOK
  <2>2. UNCHANGED <<ws, evtVars, capVars, disposing, companion>>
    BY <1>3 DEF DiscoveryFails, SocketOpens, Enabled, PlatformKnown
  <2>3. OneInFlight'
    BY <2>1 DEF OneInFlight
  <2>4. Stage'
    BY <2>1, <2>2, <1>1 DEF Stage
  <2>5. Bundled'
    BY <2>2 DEF Bundled
  <2>6. OnlyCurrent'
    <3>1. \A d \in Calls : sock'[d] \in {"opening", "open"} => sock[d] \in {"opening", "open"}
      BY <1>3 DEF DiscoveryFails, SocketOpens, Enabled, PlatformKnown, TypeOK
    <3> QED BY <3>1, <2>2 DEF OnlyCurrent, NoStaleException
  <2>7. Disposal'
    BY <2>1, <2>2 DEF Disposal, CompanionAccountedFor
  <2> QED BY <2>3, <2>4, <2>5, <2>6, <2>7
<1>4. CASE Dial(c)
  <2>1. called = c /\ pc[c] = "discovering" /\ pc'[c] = "opening"
    BY <1>1, <1>4 DEF Dial, TypeOK
  <2>2. ws = Nobody /\ backend = Nobody /\ exceptions = <<>>
    BY <2>1 DEF Stage
  <2>3. OneInFlight'
    BY <1>4, <2>1 DEF OneInFlight, Dial
  <2>4. Stage'
    BY <1>1, <1>4, <2>1, <2>2 DEF Stage, Dial
  <2>5. Bundled'
    BY <1>4 DEF Bundled, Dial
  <2>6. OnlyCurrent'
    BY <1>4, <2>2 DEF OnlyCurrent, NoStaleException, Dial, TypeOK
  <2>7. Disposal'
    BY <1>4, <2>1 DEF Disposal, CompanionAccountedFor, Dial
  <2> QED BY <2>3, <2>4, <2>5, <2>6, <2>7
<1>5. CASE AfterOpen(c)
  <2>1. CASE ws # Nobody /\ sock[ws] = "open"
    <3>1. /\ called = c /\ pc[c] = "opened" /\ pc'[c] = "enabling" /\ called' = called
          /\ \A d \in Calls : d # c => pc'[d] = pc[d]
      BY <1>1, <1>5, <2>1 DEF AfterOpen, TypeOK
    <3>2. UNCHANGED <<disposing, ws, sock, evtVars, capVars, companion>>
      BY <1>5, <2>1 DEF AfterOpen
    <3>3. OneInFlight'
      BY <3>1 DEF OneInFlight
    <3>4. Stage'
      BY <3>1, <3>2, <1>1 DEF Stage
    <3>5. Bundled' /\ OnlyCurrent'
      BY <3>2 DEF Bundled, OnlyCurrent, NoStaleException
    <3>6. Disposal'
      BY <3>1, <3>2 DEF Disposal, CompanionAccountedFor
    <3> QED BY <3>3, <3>4, <3>5, <3>6
  <2>2. CASE ~(ws # Nobody /\ sock[ws] = "open")
    BY <1>5, <2>2, RollBackTakesDown DEF AfterOpen
  <2> QED BY <2>1, <2>2
<1>6. CASE BackendReady(c)
  <2>1. /\ called = c /\ pc[c] = "touching" /\ pc'[c] = "connected" /\ called' = called
        /\ \A d \in Calls : d # c => pc'[d] = pc[d]
    BY <1>1, <1>6 DEF BackendReady, TypeOK
  <2>2. ws = c /\ backend = Nobody /\ forwarders /\ liveTokens = {}
    BY <2>1 DEF Stage, Bundled, TypeOK
  <2>3. OneInFlight'
    BY <2>1 DEF OneInFlight
  <2>4. Stage'
    BY <1>1, <1>6, <2>1, <2>2 DEF Stage, BackendReady
  <2>5. Bundled'
    BY <1>6, <2>2 DEF Bundled, BackendReady
  <2>6. OnlyCurrent'
    BY <1>6 DEF OnlyCurrent, NoStaleException, BackendReady
  <2>7. Disposal'
    BY <1>6, <2>1, <2>2 DEF Disposal, CompanionAccountedFor, BackendReady, TypeOK
  <2> QED BY <2>3, <2>4, <2>5, <2>6, <2>7
<1>7. CASE DialFails(c) \/ EnableFails(c) \/ PlatformUnknown(c) \/ NoBackend(c)
  BY <1>7, RollBackTakesDown DEF DialFails, EnableFails, PlatformUnknown, NoBackend
<1> QED
  BY <1>2, <1>3, <1>4, <1>5, <1>6, <1>7 DEF Advance

(* What happens around the calls: the peer closes a socket, the app throws,  *)
(* operations of the test.                                                   *)
LEMMA SurroundingsKeepInv ==
  ASSUME IInv, TypeOK',
         \/ \E c \in Calls : PeerCloses(c) \/ AppThrows(c)
         \/ OperationReports \/ GestureStarts
         \/ \E succeeds \in BOOLEAN : GestureEnds(succeeds)
         \/ UNCHANGED vars
  PROVE  IInv'
<1> USE DEF IInv, callVars, cdpVars, evtVars, capVars
<1>1. UNCHANGED <<pc, called, disposing, companion, ws, backend, info, pointer,
                  token, liveTokens, forwarders>>
  BY DEF PeerCloses, AppThrows, OperationReports, GestureStarts, GestureEnds, vars
<1>2. exceptions = <<>> => exceptions' = <<>> \/ ws # Nobody
  <2>1. ASSUME NEW c \in Calls, AppThrows(c) PROVE ws # Nobody
    BY <2>1, NobodyIsNoCall DEF AppThrows, OnlyCurrent
  <2> QED BY <2>1 DEF PeerCloses, OperationReports, GestureStarts, GestureEnds, vars
<1>3. OneInFlight' /\ Bundled' /\ Disposal'
  BY <1>1 DEF OneInFlight, Bundled, Disposal, CompanionAccountedFor
<1>4. Stage'
  BY <1>1, <1>2 DEF Stage
<1>5. \A c \in Calls : sock'[c] \in {"opening", "open"} => sock[c] \in {"opening", "open"}
  BY DEF PeerCloses, AppThrows, OperationReports, GestureStarts, GestureEnds, vars, TypeOK
<1>6. NoStaleException'
  <2>1. ASSUME NEW c \in Calls, AppThrows(c) PROVE NoStaleException'
    <3>1. c = ws /\ exceptions' = Append(exceptions, ws) /\ exceptions \in Seq(Calls)
      BY <2>1 DEF AppThrows, OnlyCurrent, TypeOK
    <3> QED BY <3>1, <1>1 DEF OnlyCurrent, NoStaleException
  <2>2. CASE OperationReports
    <3>1. exceptions \in Seq(Calls) /\ exceptions # <<>> /\ exceptions' = Tail(exceptions)
      BY <2>2 DEF OperationReports, TypeOK
    <3> QED BY <3>1, <1>1 DEF OnlyCurrent, NoStaleException
  <2> QED
    BY <2>1, <2>2, <1>1
    DEF PeerCloses, GestureStarts, GestureEnds, vars, OnlyCurrent, NoStaleException
<1> QED BY <1>1, <1>3, <1>4, <1>5, <1>6 DEF OnlyCurrent

-----------------------------------------------------------------------------
(* The invariant holds before the first call.                                *)
LEMMA InitInv == Init => IInv
<1> SUFFICES ASSUME Init PROVE IInv
  OBVIOUS
<1>1. OneInFlight
  BY NobodyIsNoCall DEF Init, OneInFlight, InFlight, Calls
<1>2. Stage
  BY DEF Init, Stage, Calls
<1>3. Bundled /\ OnlyCurrent /\ Disposal
  BY DEF Init, Bundled, OnlyCurrent, NoStaleException, Disposal, CompanionAccountedFor
<1> QED BY <1>1, <1>2, <1>3, InitTypes DEF IInv

(* For a caller that awaits its calls, the invariant is inductive: the       *)
(* latest call alone decides what is up (device.ts:133-296).                 *)
THEOREM Inductive == ASSUME Sequential PROVE Spec => []IInv
<1>1. IInv /\ [Next]_vars => IInv'
  <2> SUFFICES ASSUME IInv, [Next]_vars PROVE IInv'
    OBVIOUS
  <2>1. TypeOK'
    BY StepKeepsTypes DEF IInv
  <2>2. CASE StartConnect \/ Disconnect
    BY <2>2, CallTakesDown DEF StartConnect, Disconnect
  <2>3. CASE \E c \in Calls : Advance(c)
    BY <2>1, <2>3, AdvanceKeepsInv
  <2>4. CASE ~(StartConnect \/ Disconnect \/ \E c \in Calls : Advance(c))
    BY <2>1, <2>4, SurroundingsKeepInv DEF Next
  <2> QED BY <2>2, <2>3, <2>4
<1> QED BY <1>1, InitInv, PTL DEF Spec

(* connect() is atomic: pointer, backend, its description and file token are *)
(* those of one connect(), over its own socket (device.ts:133-202).          *)
THEOREM ConnectIsAtomic == ASSUME Sequential PROVE Spec => []CapabilitiesAgree
<1>1. IInv => CapabilitiesAgree
  <2> SUFFICES ASSUME IInv, backend # Nobody PROVE ws = backend /\ forwarders
    BY DEF IInv, Bundled, CapabilitiesAgree
  <2>1. called \in Nat /\ (called # 0 => called \in Calls)
    BY CallsAssumption DEF IInv, TypeOK, Calls
  <2>2. called \in Calls => pc[called] # "idle"
    BY <2>1 DEF IInv, OneInFlight
  <2>3. called \in Calls => pc[called] \in Down \union Rising \union {"connected"}
    BY <2>2 DEF IInv, TypeOK, InFlight, Finished, Down, Rising
  <2> QED BY <2>1, <2>3 DEF IInv, Stage
<1> QED BY <1>1, Inductive, PTL

(* A captured device.files object is dead after its connection               *)
(* (device.ts:86, 279-281).                                                  *)
THEOREM NoTokenSurvives == ASSUME Sequential PROVE Spec => []NoOrphanToken
<1>1. IInv => NoOrphanToken
  BY DEF IInv, Bundled, NoOrphanToken
<1> QED BY <1>1, Inductive, PTL

(* At most one WebSocket is dialled or open (device.ts:284-293).             *)
THEOREM AtMostOneSocket == ASSUME Sequential PROVE Spec => []OneSocket
<1>1. IInv => OneSocket
  <2> SUFFICES ASSUME IInv PROVE OneSocket
    OBVIOUS
  <2> DEFINE Alive == {c \in Calls : sock[c] \in {"opening", "open"}}
  <2>1. Alive \subseteq {ws}
    BY DEF IInv, OnlyCurrent
  <2>2. IsFiniteSet({ws}) /\ Cardinality({ws}) = 1
    BY FS_Singleton
  <2>3. Cardinality(Alive) <= 1
    BY <2>1, <2>2, FS_Subset
  <2> QED BY <2>3 DEF OneSocket
<1> QED BY <1>1, Inductive, PTL

(* Whichever step of connect() or of a teardown fails, nothing of the        *)
(* connection is left (device.ts:194-202, 259-296).                          *)
THEOREM FailureLeavesNothing == ASSUME Sequential PROVE Spec => []NothingLeftBehind
<1>1. IInv => NothingLeftBehind
  <2> SUFFICES ASSUME IInv, called > 0 => pc[called] \in {"rejected", "disconnected"}
               PROVE  /\ ws = Nobody /\ backend = Nobody /\ liveTokens = {}
                      /\ \A c \in Calls : sock[c] \in {"none", "closed"}
                      /\ ~forwarders /\ exceptions = <<>>
    BY DEF NothingLeftBehind
  <2>1. called = 0 \/ (called \in Calls /\ pc[called] \in Down)
    BY CallsAssumption DEF IInv, TypeOK, Calls, Down
  <2>2. ws = Nobody /\ backend = Nobody /\ ~forwarders /\ exceptions = <<>>
    BY <2>1 DEF IInv, Stage
  <2>3. liveTokens = {}
    BY <2>2, NobodyIsNoCall DEF IInv, Bundled, TypeOK
  <2>4. \A c \in Calls : sock[c] \in {"none", "closed"}
    BY <2>2, NobodyIsNoCall DEF IInv, OnlyCurrent, TypeOK
  <2> QED BY <2>2, <2>3, <2>4
<1> QED BY <1>1, Inductive, PTL

(* No companion connection is leaked (device.ts:289-291).                    *)
THEOREM CompanionNotLeaked == ASSUME Sequential PROVE Spec => []CompanionAccountedFor
<1>1. IInv => CompanionAccountedFor
  BY DEF IInv, Disposal
<1> QED BY <1>1, Inductive, PTL

(* No exception of an earlier connection is buffered (device.ts:268-270).    *)
THEOREM ExceptionsAreCurrent == ASSUME Sequential PROVE Spec => []NoStaleException
<1>1. IInv => NoStaleException
  BY DEF IInv, OnlyCurrent
<1> QED BY <1>1, Inductive, PTL

-----------------------------------------------------------------------------
(* device.files.                                                             *)

Steps ==
  {"new", "ended", "probe", "load", "locate", "contain", "walk", "size", "open", "read", "write",
   "stage", "payload", "copy", "shell", "unstage", "check"}

Reasons ==
  {"none", "noFile", "noDevice", "notDebuggable", "other", "tool", "host", "size", "escape",
   "noContainer", "relic"}

Effects == {"nothing", "file", "outside", "part", "diagnostic", "relic", "noContainer"}

(* What a place is made of (the provers know of no string that it is one).   *)
Segments == STRING \union {"Documents"}

OpRecords ==
  [step : Steps, kind : {"none", "pull", "push"}, via : {"none", "simctl", "devicectl", "adb"},
   object : 0..MaxObjects, place : Seq(Segments), holds : Sizes, room : 0..(MaxBuffer + 1),
   staged : Sizes \union {Missing}, result : Codes \union {"none", "ok"},
   found : 0..2, touched : Effects, cause : Reasons]

(* Where an operation is tells what it is and by which transport it goes.    *)
RouteAt(step, kind, how) ==
  /\ step # "new" => kind \in {"pull", "push"}
  /\ step \in {"size", "open", "read"} => kind = "pull"
  /\ step \in {"probe", "load", "write", "payload"} => kind = "push"
  /\ step \in {"probe", "load"} => how \in {"simctl", "devicectl", "adb"}
  /\ step \in {"locate", "contain", "walk", "write"} => how = "simctl"
  /\ step \in {"stage", "payload", "copy", "unstage"} => how = "devicectl"
  /\ step \in {"size", "open", "read"} => how \in {"simctl", "devicectl"}
  /\ step = "shell" => how = "adb"

Route(r) == RouteAt(r.step, r.kind, r.via)

(* The place never climbs, nor does it name the directory.                   *)
PlaceSound(r) ==
  /\ ~Climbs(r.place)
  /\ r.via = "simctl" /\ r.place # <<>> => r.place[Len(r.place)] # "d"

(* What a success can have read or written, and what may be not found.       *)
Served  == {"file", "relic", "noContainer"}
Absence == {"noFile", "relic", "noContainer"}

(* Nothing is decided before the transport is done, a push holds what it may *)
(* write, and what is staged is not forgotten.                               *)
ResultSound(r) ==
  /\ r.step \in {"ended", "check", "unstage"} \/ r.result = "none"
  /\ r.result = "none" => r.cause = "none"
  /\ r.result = "ok" => r.touched \in Served /\ r.holds <= MaxBuffer
  /\ r.result = "NOT_FOUND" => r.cause \in Absence \union {"none"}
  /\ r.kind = "push" /\ r.step \notin {"ended", "check", "unstage"} => r.holds <= MaxBuffer
  /\ r.staged # Missing =>
       /\ r.via = "devicectl"
       /\ r.step \in {"payload", "copy", "size", "open", "read", "unstage"}

Sound(r, k) ==
  /\ r \in OpRecords /\ r.object \in 0..k
  /\ r.step # "new" => r.object # 0
  /\ Route(r) /\ PlaceSound(r) /\ ResultSound(r)

OpsSound == op \in [FileOps -> OpRecords] /\ \A o \in FileOps : Sound(op[o], objects)

(* The container of a simulator as an operation knows it: cached from when   *)
(* it looked for it, there while the app is not installed anew, and with no  *)
(* link that leads out of it once the path was resolved. Only an operation   *)
(* that was superseded takes a container that is gone for anything else.      *)
Looked(o)   == op[o].via = "simctl" /\ op[o].step \in {"walk", "size", "open", "read", "write"}
Resolved(o) == op[o].via = "simctl" /\ op[o].step \in {"size", "open", "read", "write"}

SiteKnown(o) ==
  /\ op[o].found <= install
  /\ At(o, "contain") \/ Looked(o) => container[op[o].object] # 0
  /\ Looked(o) => op[o].found # 0
  /\ Looked(o) /\ op[o].found = install => ~Vanished(o)
  /\ Resolved(o) /\ Current(o) => ~(Through(o) /\ dir = "link")
  /\ op[o].result = "ok" /\ op[o].touched = "noContainer" => Superseded(o)
  /\ op[o].result # "TRANSPORT_FAILED" /\ op[o].cause = "noContainer" => Superseded(o)

ContainersKnown ==
  /\ \A k \in 1..MaxObjects : container[k] <= install
  /\ \A o \in FileOps : SiteKnown(o)

FiInv == FiTypeOK /\ OpsSound /\ ContainersKnown

-----------------------------------------------------------------------------
LEMMA SizesAreNumbers ==
  /\ MaxBuffer \in Nat /\ MaxBuffer > 0 /\ Headroom \in Nat /\ MaxObjects \in Nat /\ MaxFileOps \in Nat
  /\ Missing = -1 /\ OverflowCap = MaxBuffer + 1
  /\ \A n : n \in Sizes <=> n \in Nat /\ n <= MaxBuffer + Headroom + 1
BY FileBounds DEF Sizes, Missing, OverflowCap

(* The k-th segment that names something exists, for k up to their number.   *)
LEMMA RanksAreTaken ==
  ASSUME NEW n \in Nat, NEW I \in SUBSET (1..n), NEW k \in 1..Cardinality(I)
  PROVE  \E i \in I : Rank(I, i) = k
<1> DEFINE r == [i \in I |-> Rank(I, i)]
<1>a. IsFiniteSet(1..n)
  BY FS_Interval
<1>b. IsFiniteSet(I)
  BY <1>a, FS_Subset
<1>1. IsFiniteSet(I) /\ Cardinality(I) \in Nat
  BY <1>b, FS_CardinalityType
<1>2. \A i \in I : Rank(I, i) \in 1..Cardinality(I)
  <2> SUFFICES ASSUME NEW i \in I PROVE Rank(I, i) \in 1..Cardinality(I)
    OBVIOUS
  <2> DEFINE T == {j \in I : j <= i}
  <2>1. T \in SUBSET I /\ i \in T
    OBVIOUS
  <2>2. IsFiniteSet(T) /\ Cardinality(T) <= Cardinality(I) /\ Cardinality(T) \in Nat
    BY <1>1, <2>1, FS_Subset, FS_CardinalityType
  <2>3. Cardinality(T) # 0
    BY <2>1, <2>2, FS_EmptySet
  <2> QED BY <1>1, <2>2, <2>3 DEF Rank
<1>3. \A i, j \in I : i < j => Rank(I, i) < Rank(I, j)
  <2> SUFFICES ASSUME NEW i \in I, NEW j \in I, i < j PROVE Rank(I, i) < Rank(I, j)
    OBVIOUS
  <2> DEFINE T == {h \in I : h <= i}
             U == {h \in I : h <= j}
  <2>1. T \in SUBSET U /\ U \in SUBSET I /\ j \in U /\ j \notin T
    <3>1. \A h \in I : h \in Nat
      OBVIOUS
    <3>2. \A h \in I : h <= i => h <= j
      BY <3>1
    <3>3. j <= j /\ ~(j <= i)
      BY <3>1
    <3> QED BY <3>2, <3>3, Zenon
  <2>2. IsFiniteSet(U) /\ Cardinality(U) \in Nat
    BY <1>1, <2>1, FS_Subset, FS_CardinalityType
  <2>3. /\ IsFiniteSet(T) /\ Cardinality(T) \in Nat /\ Cardinality(T) <= Cardinality(U)
        /\ Cardinality(U) = Cardinality(T) => U = T
    BY <2>1, <2>2, FS_Subset, FS_CardinalityType
  <2> QED BY <2>1, <2>2, <2>3 DEF Rank
<1>4. r \in Injection(I, 1..Cardinality(I))
  <2>1. r \in [I -> 1..Cardinality(I)]
    BY <1>2
  <2>2. \A i, j \in I : r[i] = r[j] => i = j
    BY <1>1, <1>2, <1>3
  <2> QED BY <2>1, <2>2 DEF Injection, IsInjective
<1>5. IsFiniteSet(1..Cardinality(I)) /\ Cardinality(1..Cardinality(I)) = Cardinality(I)
  BY <1>1, FS_Interval
<1>6. r \in Surjection(I, 1..Cardinality(I))
  BY <1>4, <1>5, FS_Injection
<1> QED BY <1>6 DEF Surjection

LEMMA NamedIsPath ==
  ASSUME NEW p \in Seq(Segments)
  PROVE  Named(p) \in Seq(Segments)
<1>1. Len(p) \in Nat /\ \A i \in 1..Len(p) : p[i] \in Segments
  BY LenProperties, ElementOfSeq
<1>a. Kept(p) \in SUBSET (1..Len(p))
  BY Zenon DEF Kept
<1>b. IsFiniteSet(1..Len(p))
  BY <1>1, FS_Interval
<1>c. IsFiniteSet(Kept(p))
  BY <1>a, <1>b, FS_Subset
<1>2. Cardinality(Kept(p)) \in Nat
  BY <1>c, FS_CardinalityType
<1>3. \A k \in 1..Cardinality(Kept(p)) : p[CHOOSE i \in Kept(p) : Rank(Kept(p), i) = k] \in Segments
  <2> SUFFICES ASSUME NEW k \in 1..Cardinality(Kept(p))
               PROVE  (CHOOSE i \in Kept(p) : Rank(Kept(p), i) = k) \in 1..Len(p)
    BY <1>1
  <2>1. \E i \in Kept(p) : Rank(Kept(p), i) = k
    BY <1>1, <1>a, RanksAreTaken
  <2> QED BY <1>a, <2>1
<1>4. Named(p) \in [1..Cardinality(Kept(p)) -> Segments]
  BY <1>3, Zenon DEF Named
<1> QED BY <1>2, <1>4

(* A place that does not climb is not above the container.                   *)
LEMMA StaysBelow ==
  ASSUME NEW place \in Seq(Segments), ~Climbs(place)
  PROVE  ~Above(place)
<1> SUFFICES ASSUME NEW n \in 1..Len(place)
             PROVE  ~(2 * Cardinality({i \in 1..n : place[i] = ".."}) > n)
  BY DEF Above
<1>1. {i \in 1..n : place[i] = ".."} = {}
  BY DEF Climbs
<1>2. Cardinality({i \in 1..n : place[i] = ".."}) = 0
  BY <1>1, FS_EmptySet
<1> QED BY <1>2

(* What resolveInsideContainer lets pass no link leads out of.               *)
LEMMA ContainedIsInside ==
  ASSUME NEW place \in Seq(Segments), ~Climbs(place), place # <<>> => place[Len(place)] # "d",
         Contained(place)
  PROVE  ~(ByD(place, Len(place)) /\ dir = "link")
<1> SUFFICES ASSUME ByD(place, Len(place)), dir = "link" PROVE FALSE
  OBVIOUS
<1> DEFINE there == {n \in 0..Len(place) : RealPath(place, n) # "ENOENT"}
           deepest == CHOOSE n \in there : \A m \in there : m <= n
<1>1. PICK i \in 1..Len(place) : place[i] = "d"
  BY DEF ByD
<1>2. i < Len(place)
  BY <1>1
<1>3. \A n \in 0..Len(place) : n \in there <=> ~(n = Len(place) /\ size = Missing)
  BY DEF RealPath
<1>4. Len(place) - 1 \in there
  BY <1>2, <1>3
<1>5. \E n \in there : \A m \in there : m <= n
  <2>1. CASE Len(place) \in there
    BY <2>1
  <2>2. CASE Len(place) \notin there
    <3>1. \A m \in there : m <= Len(place) - 1
      BY <2>2
    <3> QED BY <1>4, <3>1
  <2> QED BY <2>1, <2>2
<1>6. deepest \in there /\ \A m \in there : m <= deepest
  BY <1>5
<1>7. deepest >= Len(place) - 1 /\ deepest \in 0..Len(place)
  BY <1>4, <1>6
<1>8. ByD(place, deepest)
  <2>1. i \in 1..deepest
    BY <1>2, <1>7, LenProperties
  <2> QED BY <1>1, <2>1, Zenon DEF ByD
<1>9. RealPath(place, deepest) # "inside"
  BY <1>8 DEF RealPath
<1> QED BY <1>9 DEF Contained

-----------------------------------------------------------------------------
(* One operation moves on: what is sound of the others stays so.             *)
LEMMA OneMoves ==
  ASSUME FiInv, NEW o \in FileOps, NEW r, op' = [op EXCEPT ![o] = r],
         objects' \in Nat, objects <= objects',
         Sound(r, objects')
  PROVE  OpsSound'
<1>1. op' \in [FileOps -> OpRecords]
  BY DEF FiInv, OpsSound, Sound
<1>2. ASSUME NEW p \in FileOps PROVE Sound(op'[p], objects')
  <2>1. CASE p = o
    <3>1. op'[p] = r
      BY <2>1 DEF FiInv, OpsSound
    <3> QED BY <3>1
  <2>2. CASE p # o
    <3>1. op'[p] = op[p] /\ Sound(op[p], objects)
      BY <2>2 DEF FiInv, OpsSound
    <3>2. op[p].object \in 0..objects'
      BY <3>1 DEF FiInv, FiTypeOK, Sound
    <3> QED BY <3>1, <3>2 DEF Sound
  <2> QED BY <2>1, <2>2
<1> QED BY <1>1, <1>2 DEF OpsSound

LEMMA OthersMove ==
  ASSUME FiInv, UNCHANGED op, objects' \in Nat, objects <= objects'
  PROVE  OpsSound'
<1>1. ASSUME NEW p \in FileOps PROVE Sound(op[p], objects')
  <2>1. Sound(op[p], objects)
    BY DEF FiInv, OpsSound
  <2>2. op[p].object \in 0..objects'
    BY <2>1 DEF FiInv, FiTypeOK, Sound
  <2> QED BY <2>1, <2>2 DEF Sound
<1> QED BY <1>1 DEF FiInv, OpsSound

(* The types of the rest follow.                                             *)
LEMMA TypesFollow ==
  ASSUME OpsSound', ContainersKnown',
         objects' \in 0..MaxObjects /\ liveObject' \in 0..objects',
         bound' \in [1..MaxObjects -> Targets],
         container' \in [1..MaxObjects -> 0..2] /\ install' \in 1..2,
         size' \in Sizes \union {Missing},
         dir' \in {"none", "real", "link"} /\ relic' \in Sizes \union {Missing, Gone}
  PROVE  FiInv'
BY DEF FiInv, FiTypeOK, OpsSound, Sound, OpRecords

(* An operation in the hands of its transport, and what it may conclude.     *)
UnderWay == {"locate", "contain", "walk", "size", "open", "read", "write", "stage", "payload", "copy", "shell"}

LEMMA Concluding ==
  ASSUME FiInv, NEW o \in FileOps, op[o].step \in UnderWay,
         UNCHANGED objects,
         NEW result \in Codes \union {"ok"}, NEW touched \in Effects, NEW cause \in Reasons,
         result = "ok" => touched \in Served /\ op[o].holds <= MaxBuffer,
         result = "NOT_FOUND" => cause \in Absence,
         Concludes(o, result, touched, cause)
  PROVE  OpsSound'
<1> DEFINE last == IF op[o].staged # Missing THEN "unstage" ELSE "check"
           r == [op[o] EXCEPT !.step = last, !.room = 0, !.place = <<>>,
                              !.result = result, !.touched = touched, !.cause = cause]
<1>1. /\ op \in [FileOps -> OpRecords] /\ op[o] \in OpRecords
      /\ Sound(op[o], objects)
  BY DEF FiInv, OpsSound
<1>a. objects \in Nat /\ objects' = objects
  BY SizesAreNumbers DEF FiInv, FiTypeOK
<1>2. op' = [op EXCEPT ![o] = r]
  BY <1>1 DEF Concludes
<1>3. last \in Steps /\ 0 \in 0..(MaxBuffer + 1) /\ <<>> \in Seq(Segments)
  <2>1. last \in Steps
    BY DEF Steps
  <2>2. <<>> \in Seq(Segments)
    BY EmptySeq
  <2> QED BY <2>1, <2>2, SizesAreNumbers
<1>4. r \in OpRecords
  BY <1>1, <1>3 DEF OpRecords
<1>5. /\ r.step = last /\ r.place = <<>> /\ r.result = result /\ r.touched = touched /\ r.cause = cause
      /\ r.kind = op[o].kind /\ r.via = op[o].via /\ r.object = op[o].object
      /\ r.holds = op[o].holds /\ r.staged = op[o].staged
  BY <1>1 DEF OpRecords
<1> HIDE DEF r
<1>6. Route(r)
  BY <1>1, <1>5 DEF Sound, Route, RouteAt, ResultSound, UnderWay
<1>7. PlaceSound(r)
  <2>1. ~Climbs(<<>>)
    BY DEF Climbs
  <2> QED BY <1>5, <2>1 DEF PlaceSound
<1>b. result # "none"
  BY DEF Codes
<1>8. ResultSound(r)
  BY <1>1, <1>5, <1>b DEF Sound, ResultSound, UnderWay
<1>9. Sound(r, objects')
  BY <1>1, <1>a, <1>4, <1>5, <1>6, <1>7, <1>8 DEF Sound, UnderWay
<1>10. objects' \in Nat /\ objects <= objects'
  BY <1>a
<1> QED BY <1>2, <1>9, <1>10, OneMoves

LEMMA Failing ==
  ASSUME FiInv, NEW o \in FileOps, op[o].step \in UnderWay,
         UNCHANGED objects,
         NEW code \in Codes, NEW cause \in Reasons, code = "NOT_FOUND" => cause \in Absence,
         Fails(o, code, cause)
  PROVE  OpsSound'
<1>1. op[o].touched \in Effects
  BY DEF FiInv, OpsSound, Sound, OpRecords
<1>2. code \in Codes \union {"ok"} /\ code # "ok"
  BY DEF Codes
<1>3. Concludes(o, code, op[o].touched, cause)
  BY DEF Fails
<1> QED BY <1>1, <1>2, <1>3, Concluding

(* It goes on to the next step, whatever of this it sets.                    *)
LEMMA Proceeding ==
  ASSUME FiInv, NEW o \in FileOps, op[o].step \in UnderWay \union {"probe", "load"},
         UNCHANGED objects,
         NEW s \in UnderWay \union {"load"}, NEW h \in Sizes, NEW m \in 0..(MaxBuffer + 1),
         NEW g \in Sizes \union {Missing}, NEW f \in 0..2,
         op' = [op EXCEPT ![o].step = s, ![o].holds = h, ![o].room = m, ![o].staged = g, ![o].found = f],
         RouteAt(s, op[o].kind, op[o].via),
         s = "load" => op[o].step = "probe",
         op[o].kind = "push" => h <= MaxBuffer,
         g # Missing => op[o].via = "devicectl" /\ s \in {"payload", "copy", "size", "open", "read"}
  PROVE  OpsSound'
<1> DEFINE r == [op[o] EXCEPT !.step = s, !.holds = h, !.room = m, !.staged = g, !.found = f]
<1>1. /\ op \in [FileOps -> OpRecords] /\ op[o] \in OpRecords
      /\ Sound(op[o], objects)
  BY DEF FiInv, OpsSound
<1>a. objects \in Nat /\ objects' = objects
  BY SizesAreNumbers DEF FiInv, FiTypeOK
<1>2. op' = [op EXCEPT ![o] = r]
  BY <1>1
<1>3. s \in Steps
  BY DEF Steps, UnderWay
<1>4. r \in OpRecords
  BY <1>1, <1>3 DEF OpRecords
<1>5. /\ r.step = s /\ r.place = op[o].place /\ r.result = op[o].result /\ r.touched = op[o].touched
      /\ r.kind = op[o].kind /\ r.via = op[o].via /\ r.object = op[o].object
      /\ r.holds = h /\ r.staged = g /\ r.cause = op[o].cause
  BY <1>1 DEF OpRecords
<1> HIDE DEF r
<1>6. Route(r)
  BY <1>5 DEF Route
<1>7. PlaceSound(r)
  BY <1>1, <1>a, <1>5 DEF Sound, PlaceSound
<1>8. ResultSound(r)
  BY <1>1, <1>5 DEF Sound, ResultSound, UnderWay
<1>9. Sound(r, objects')
  BY <1>1, <1>a, <1>4, <1>5, <1>6, <1>7, <1>8 DEF Sound, UnderWay
<1>10. objects' \in Nat /\ objects <= objects'
  BY <1>a
<1> QED BY <1>a, <1>2, <1>9, <1>10, OneMoves

LEMMA Going ==
  ASSUME FiInv, NEW o \in FileOps, op[o].step \in UnderWay \union {"probe", "load"},
         UNCHANGED objects,
         NEW s \in UnderWay \union {"load"}, Goes(o, s),
         RouteAt(s, op[o].kind, op[o].via),
         s = "load" => op[o].step = "probe",
         op[o].staged # Missing =>
           op[o].via = "devicectl" /\ s \in {"payload", "copy", "size", "open", "read"}
  PROVE  OpsSound'
<1>1. /\ op \in [FileOps -> OpRecords] /\ op[o] \in OpRecords
      /\ Sound(op[o], objects)
  BY DEF FiInv, OpsSound
<1>2. /\ op[o].holds \in Sizes /\ op[o].room \in 0..(MaxBuffer + 1)
      /\ op[o].staged \in Sizes \union {Missing} /\ op[o].found \in 0..2
  BY <1>1 DEF OpRecords
<1>3. op' = [op EXCEPT ![o].step = s, ![o].holds = op[o].holds,
                       ![o].room = op[o].room, ![o].staged = op[o].staged, ![o].found = op[o].found]
  BY <1>1 DEF Goes, OpRecords
<1>4. op[o].kind = "push" => op[o].holds <= MaxBuffer
  BY <1>1 DEF Sound, ResultSound, UnderWay
<1> QED BY <1>2, <1>3, <1>4, Proceeding

(* It ends before the transport was asked.                                   *)
LEMMA Refusing ==
  ASSUME FiInv, NEW o \in FileOps, op[o].step \in {"probe", "load"},
         UNCHANGED objects, NEW code \in Codes, Refused(o, code)
  PROVE  OpsSound'
<1> DEFINE r == [op[o] EXCEPT !.step = "ended", !.result = code]
<1>1. /\ op \in [FileOps -> OpRecords] /\ op[o] \in OpRecords
      /\ Sound(op[o], objects)
  BY DEF FiInv, OpsSound
<1>a. objects \in Nat /\ objects' = objects
  BY SizesAreNumbers DEF FiInv, FiTypeOK
<1>2. op' = [op EXCEPT ![o] = r]
  BY <1>1 DEF Refused
<1>3. r \in OpRecords
  BY <1>1 DEF OpRecords, Steps
<1>4. /\ r.step = "ended" /\ r.place = op[o].place /\ r.result = code /\ r.touched = op[o].touched
      /\ r.kind = op[o].kind /\ r.via = op[o].via /\ r.object = op[o].object
      /\ r.holds = op[o].holds /\ r.staged = op[o].staged /\ r.cause = op[o].cause
  BY <1>1 DEF OpRecords
<1> HIDE DEF r
<1>5. Route(r)
  BY <1>1, <1>4 DEF Route, RouteAt, Sound
<1>6. PlaceSound(r)
  BY <1>1, <1>a, <1>4 DEF Sound, PlaceSound
<1>7. ResultSound(r)
  BY <1>1, <1>4 DEF Sound, ResultSound, Codes
<1>8. Sound(r, objects')
  BY <1>1, <1>a, <1>3, <1>4, <1>5, <1>6, <1>7 DEF Sound
<1>9. objects' \in Nat /\ objects <= objects'
  BY <1>a
<1> QED BY <1>a, <1>2, <1>8, <1>9, OneMoves

-----------------------------------------------------------------------------
(* What is known of an operation in the hands of its transport.              *)
LEMMA Known ==
  ASSUME FiInv, NEW o \in FileOps
  PROVE  /\ op[o] \in OpRecords /\ Sound(op[o], objects)
         /\ op[o].place \in Seq(Segments) /\ ~Climbs(op[o].place) /\ ~Above(op[o].place)
         /\ RouteAt(op[o].step, op[o].kind, op[o].via)
         /\ op[o].step \in UnderWay => op[o].result = "none"
         /\ op[o].object \in 0..MaxObjects /\ (op[o].step # "new" => op[o].object \in 1..MaxObjects)
<1>1. op[o] \in OpRecords /\ Sound(op[o], objects)
  BY DEF FiInv, OpsSound
<1>2. op[o].place \in Seq(Segments) /\ ~Climbs(op[o].place)
  BY <1>1 DEF OpRecords, Sound, PlaceSound
<1>3. ~Above(op[o].place)
  BY <1>2, StaysBelow
<1>4. op[o].object \in 0..MaxObjects
  BY <1>1 DEF OpRecords
<1>5. op[o].step # "new" => op[o].object \in 1..MaxObjects
  BY <1>1, <1>4, SizesAreNumbers DEF Sound
<1> QED BY <1>1, <1>2, <1>3, <1>4, <1>5 DEF Sound, Route, ResultSound, UnderWay

LEMMA CodesOfTools ==
  \A cause, words : words \in Words(cause) =>
    /\ ClassifyCliFailure(words) \in Codes
    /\ ClassifyCliFailure(words) = "NOT_FOUND" => cause = "noFile"
BY DEF Words, ClassifyCliFailure, Codes

LEMMA FailuresOfFiles ==
  ASSUME FiInv, NEW o \in FileOps, op[o].step \in UnderWay,
         UNCHANGED objects, FsError(o)
  PROVE  OpsSound'
<1>1. CASE /\ ~Staged(o) /\ (Bytes(o) = Missing \/ Site(o) = "relic")
           /\ Fails(o, "NOT_FOUND", IF Current(o) THEN "noFile" ELSE Site(o))
  <2> DEFINE cause == IF Current(o) THEN "noFile" ELSE Site(o)
  <2>1. cause \in Absence /\ cause \in Reasons /\ "NOT_FOUND" \in Codes
    BY DEF Site, Absence, Reasons, Codes
  <2> HIDE DEF cause
  <2>2. Fails(o, "NOT_FOUND", cause)
    BY <1>1 DEF cause
  <2> QED BY <2>1, <2>2, Failing
<1>2. CASE Fails(o, "TRANSPORT_FAILED", "host")
  BY <1>2, Failing DEF Codes, Reasons
<1> QED BY <1>1, <1>2 DEF FsError

LEMMA LocalSourceSound ==
  ASSUME FiInv, NEW o \in FileOps, ProbesSource(o) \/ LoadsSource(o)
  PROVE  OpsSound'
<1>0. UNCHANGED objects /\ op[o].step \in {"probe", "load"}
  BY DEF ProbesSource, LoadsSource, At, fiEnv
<1>1. ASSUME NEW code \in {"NOT_FOUND", "TRANSPORT_FAILED", "TOO_LARGE", "UNAVAILABLE"}, Refused(o, code)
      PROVE  OpsSound'
  BY <1>0, <1>1, Refusing DEF Codes
<1>2. CASE At(o, "probe") /\ Goes(o, "load")
  BY <1>0, <1>2, Known, Going DEF At, RouteAt, UnderWay, Sound, ResultSound
<1>3. ASSUME At(o, "load"), NEW bytes \in 0..MaxBuffer,
             op' = [op EXCEPT ![o].step = FirstStep[op[o].via], ![o].holds = bytes]
      PROVE  OpsSound'
  <2> DEFINE s == FirstStep[op[o].via]
  <2>1. op[o].via \in {"simctl", "devicectl", "adb"} /\ op[o].kind = "push" /\ op[o].staged = Missing
    BY <1>3, Known DEF At, RouteAt, Sound, ResultSound
  <2>2. /\ s \in {"locate", "stage", "shell"}
        /\ RouteAt(s, op[o].kind, op[o].via)
    BY <2>1 DEF FirstStep, RouteAt
  <2>3. bytes \in Sizes /\ bytes <= MaxBuffer
    BY SizesAreNumbers
  <2>4. op[o].room \in 0..(MaxBuffer + 1) /\ op[o].staged \in Sizes \union {Missing} /\ op[o].found \in 0..2
    BY Known DEF OpRecords
  <2> HIDE DEF s
  <2>5. op' = [op EXCEPT ![o].step = s, ![o].holds = bytes,
                         ![o].room = op[o].room, ![o].staged = op[o].staged, ![o].found = op[o].found]
    BY <1>3, Known DEF s, OpRecords, FiInv, OpsSound
  <2> QED BY <1>0, <2>1, <2>2, <2>3, <2>4, <2>5, Proceeding DEF UnderWay
<1> QED BY <1>1, <1>2, <1>3 DEF ProbesSource, LoadsSource

LEMMA ContainerSound ==
  ASSUME FiInv, NEW o \in FileOps, LocatesContainer(o) \/ FindsContainer(o) \/ ResolvesInside(o)
  PROVE  OpsSound'
<1>0. UNCHANGED objects /\ op[o].step \in {"locate", "contain", "walk"}
  BY DEF LocatesContainer, FindsContainer, ResolvesInside, At, fiEnv, fiDisk
<1>1. /\ op[o].via = "simctl" /\ op[o].staged = Missing /\ op[o].kind \in {"pull", "push"}
      /\ op[o].step \in UnderWay
  BY <1>0, Known DEF RouteAt, Sound, ResultSound, UnderWay
<1>2. ASSUME NEW code \in {"TRANSPORT_FAILED", "UNSUPPORTED"},
             NEW cause \in Reasons, Fails(o, code, cause)
      PROVE  OpsSound'
  BY <1>0, <1>1, <1>2, Failing DEF Codes
<1>3. CASE At(o, "locate") /\ Goes(o, "contain")
  BY <1>0, <1>1, <1>3, Going DEF RouteAt, UnderWay
<1>4. CASE op' = [op EXCEPT ![o].step = "walk", ![o].found = install]
  <2>1. /\ op[o].holds \in Sizes /\ op[o].room \in 0..(MaxBuffer + 1)
        /\ op[o].staged \in Sizes \union {Missing} /\ install \in 0..2
        /\ op[o].kind = "push" => op[o].holds <= MaxBuffer
    BY <1>1, Known DEF OpRecords, Sound, ResultSound, UnderWay, FiInv, FiTypeOK
  <2>2. op' = [op EXCEPT ![o].step = "walk", ![o].holds = op[o].holds, ![o].room = op[o].room,
                         ![o].staged = op[o].staged, ![o].found = install]
    BY <1>4, Known DEF OpRecords, FiInv, OpsSound
  <2>3. RouteAt("walk", op[o].kind, op[o].via) /\ "walk" \in UnderWay
    BY <1>1 DEF RouteAt, UnderWay
  <2> QED BY <1>0, <1>1, <2>1, <2>2, <2>3, Proceeding
<1>5. CASE Goes(o, IF Pulls(o) THEN "size" ELSE "write")
  <2> DEFINE s == IF Pulls(o) THEN "size" ELSE "write"
  <2>1. s \in UnderWay /\ s # "load" /\ RouteAt(s, op[o].kind, op[o].via)
    BY <1>1 DEF Pulls, UnderWay, RouteAt
  <2> HIDE DEF s
  <2> QED BY <1>0, <1>1, <1>5, <2>1, Going DEF s
<1>6. {"noContainer", "host", "escape", "tool"} \subseteq Reasons
  BY DEF Reasons
<1>7. CASE LocatesContainer(o)
  BY <1>2, <1>3, <1>6, <1>7 DEF LocatesContainer
<1>8. CASE FindsContainer(o)
  BY <1>2, <1>4, <1>6, <1>8 DEF FindsContainer
<1>9. CASE ResolvesInside(o)
  BY <1>2, <1>5, <1>6, <1>9 DEF ResolvesInside
<1> QED BY <1>7, <1>8, <1>9

LEMMA ReadingSound ==
  ASSUME FiInv, NEW o \in FileOps, ProbesSize(o) \/ OpensFile(o)
  PROVE  OpsSound'
<1>0. UNCHANGED objects /\ op[o].step \in {"size", "open"}
  BY DEF ProbesSize, OpensFile, At, fiEnv, fiDisk
<1>1. /\ op[o].via \in {"simctl", "devicectl"} /\ op[o].kind = "pull"
      /\ op[o].staged # Missing => op[o].via = "devicectl"
      /\ op[o].step \in UnderWay
  BY <1>0, Known DEF RouteAt, Sound, ResultSound, PlaceSound, UnderWay
<1>2. CASE FsError(o)
  BY <1>0, <1>1, <1>2, FailuresOfFiles
<1>3. CASE Fails(o, "TOO_LARGE", "size")
  BY <1>0, <1>1, <1>3, Failing DEF Codes, Reasons
<1>4. CASE Goes(o, "open")
  BY <1>0, <1>1, <1>4, Going DEF RouteAt, UnderWay
<1>5. ASSUME Bytes(o) # Missing,
             op' = [op EXCEPT ![o].step = "read", ![o].holds = 0,
                              ![o].room = Lesser(Bytes(o), MaxBuffer) + 1]
      PROVE  OpsSound'
  <2> DEFINE m == Lesser(Bytes(o), MaxBuffer) + 1
  <2>1. Bytes(o) \in Sizes
    BY <1>5, Known DEF Bytes, OpRecords, FiInv, FiTypeOK
  <2>2. m \in 0..(MaxBuffer + 1) /\ 0 \in Sizes /\ 0 <= MaxBuffer
    BY <2>1, SizesAreNumbers DEF Lesser
  <2>3. op[o].staged \in Sizes \union {Missing} /\ op[o].found \in 0..2
    BY Known DEF OpRecords
  <2> HIDE DEF m
  <2>4. op' = [op EXCEPT ![o].step = "read", ![o].holds = 0, ![o].room = m, ![o].staged = op[o].staged,
                         ![o].found = op[o].found]
    BY <1>5, Known DEF m, OpRecords, FiInv, OpsSound
  <2>5. RouteAt("read", op[o].kind, op[o].via)
    BY <1>1 DEF RouteAt
  <2>6. op[o].step \in UnderWay \union {"probe", "load"} /\ "read" \in UnderWay \union {"load"}
    BY <1>1 DEF UnderWay
  <2> QED BY <1>0, <1>1, <2>2, <2>3, <2>4, <2>5, <2>6, Proceeding
<1> QED BY <1>2, <1>3, <1>4, <1>5 DEF ProbesSize, OpensFile

LEMMA ReadsSound ==
  ASSUME FiInv, NEW o \in FileOps, ReadsFile(o)
  PROVE  OpsSound'
<1> DEFINE held == op[o].holds
           rest == IF Superseded(o) THEN Missing ELSE Bytes(o)
           out  == (~Staged(o) /\ Current(o) /\ Whole(o) = "outside") \/ Above(op[o].place)
           room == IF held = op[o].room /\ op[o].room < OverflowCap THEN OverflowCap ELSE op[o].room
           what == IF out THEN "outside" ELSE IF rest > held THEN "part"
                   ELSE IF Staged(o) THEN "file" ELSE Site(o)
           ends == IF held > MaxBuffer THEN Fails(o, "TOO_LARGE", "size")
                   ELSE Concludes(o, "ok", what, "none")
           more == IF rest = Missing THEN room ELSE Lesser(rest, room)
<1>0. UNCHANGED objects /\ op[o].step = "read" /\ objects' = objects
  BY DEF ReadsFile, At, fiEnv
<1>1. /\ op[o].via \in {"simctl", "devicectl"} /\ op[o].kind = "pull"
      /\ op[o].staged # Missing => op[o].via = "devicectl"
      /\ op[o].step \in UnderWay
  BY <1>0, Known DEF RouteAt, Sound, ResultSound, PlaceSound, UnderWay
<1>2. held \in Sizes /\ op[o].room \in 0..(MaxBuffer + 1) /\ op[o].staged \in Sizes \union {Missing}
      /\ op[o].found \in 0..2
  BY Known DEF OpRecords
<1>a. Bytes(o) \in Sizes \union {Missing}
  BY <1>2 DEF Bytes, FiInv, FiTypeOK
<1>3. rest \in Sizes \union {Missing}
  BY <1>a
<1>4. ~out
  <2>1. ~Above(op[o].place)
    BY Known
  <2>a. op[o].via = "simctl" /\ Current(o) => ~(Through(o) /\ dir = "link")
    BY <1>0 DEF FiInv, ContainersKnown, SiteKnown, Resolved
  <2>2. ~Staged(o) /\ Current(o) => Whole(o) # "outside"
    BY <1>1, <2>1, <2>a DEF Staged, Whole, RealPath, Through
  <2> QED BY <2>1, <2>2
<1>5. room \in 0..(MaxBuffer + 1) /\ more \in Int /\ more <= MaxBuffer + 1
  BY <1>2, <1>3, SizesAreNumbers DEF Lesser
<1>6. CASE held >= OverflowCap /\ ends
  <2>1. Fails(o, "TOO_LARGE", "size")
    BY <1>2, <1>6, SizesAreNumbers
  <2> QED BY <1>0, <1>1, <2>1, Failing DEF Codes, Reasons
<1>7. CASE held < OverflowCap /\ rest <= held /\ ends
  <2>1. ~(held > MaxBuffer) /\ held <= MaxBuffer
    BY <1>2, <1>7, SizesAreNumbers
  <2>a. ~(rest > held)
    BY <1>2, <1>3, <1>7, SizesAreNumbers
  <2>2. what \in Served
    BY <1>4, <2>a DEF Site, Served
  <2>3. Concludes(o, "ok", what, "none")
    BY <1>7, <2>1
  <2> HIDE DEF what
  <2>4. what \in Effects /\ "none" \in Reasons /\ "ok" \in Codes \union {"ok"}
    BY <2>2 DEF Served, Effects, Reasons
  <2> QED BY <1>0, <1>1, <2>1, <2>2, <2>3, <2>4, Concluding
<1>8. ASSUME NEW n \in (held + 1)..more, op' = [op EXCEPT ![o].room = room, ![o].holds = n]
      PROVE  OpsSound'
  <2> HIDE DEF rest, out, room, more, what, ends, held
  <2>1. n \in Sizes
    BY <1>2, <1>5, SizesAreNumbers DEF held
  <2>2. op' = [op EXCEPT ![o].step = "read", ![o].holds = n, ![o].room = room, ![o].staged = op[o].staged,
                         ![o].found = op[o].found]
    <3>1. op \in [FileOps -> OpRecords] /\ op[o] \in OpRecords /\ op[o].step = "read"
      BY <1>0 DEF FiInv, OpsSound
    <3>2. [op[o] EXCEPT !.room = room, !.holds = n] =
            [op[o] EXCEPT !.step = "read", !.holds = n, !.room = room, !.staged = op[o].staged,
                          !.found = op[o].found]
      BY <3>1 DEF OpRecords
    <3>3. op' = [op EXCEPT ![o] = [op[o] EXCEPT !.room = room, !.holds = n]]
      BY <1>8, <3>1
    <3> QED BY <3>1, <3>2, <3>3
  <2>3. RouteAt("read", op[o].kind, op[o].via)
    BY <1>1 DEF RouteAt
  <2>4. op[o].step \in UnderWay \union {"probe", "load"} /\ "read" \in UnderWay \union {"load"} /\ "read" # "load"
    BY <1>1 DEF UnderWay
  <2>5. op[o].room \in 0..(MaxBuffer + 1) /\ op[o].staged \in Sizes \union {Missing} /\ op[o].found \in 0..2
    BY <1>2
  <2>6. room \in 0..(MaxBuffer + 1) /\ (op[o].kind = "push" => n <= MaxBuffer)
    BY <1>1, <1>5
  <2>7. op[o].staged # Missing => op[o].via = "devicectl" /\ "read" \in {"payload", "copy", "size", "open", "read"}
    BY <1>1
  <2>8. UNCHANGED objects
    BY <1>0
  <2> QED BY <2>1, <2>2, <2>3, <2>4, <2>5, <2>6, <2>7, <2>8, Proceeding
<1> QED BY <1>6, <1>7, <1>8 DEF ReadsFile

(* What a write leaves of the file, the directory and a relic.               *)
LEMMA PutsSound ==
  ASSUME FiInv, NEW o \in FileOps, NEW bytes \in Sizes \union {Missing}, Puts(o, bytes)
  PROVE  /\ size' \in Sizes \union {Missing} /\ dir' \in {"none", "real", "link"}
         /\ relic' \in Sizes \union {Missing, Gone}
         /\ relic # Gone => relic' # Gone
         /\ dir' = "link" => dir = "link"
<1>1. Gone \notin Sizes \union {Missing}
  BY SizesAreNumbers DEF Gone
<1> QED BY <1>1 DEF Puts, FiInv, FiTypeOK

LEMMA WritesSound ==
  ASSUME FiInv, NEW o \in FileOps, WritesFile(o)
  PROVE  /\ OpsSound' /\ dir' \in {"none", "real", "link"}
         /\ size' \in Sizes \union {Missing}
         /\ relic' \in Sizes \union {Missing, Gone}
         /\ relic # Gone => relic' # Gone
         /\ dir' = "link" => dir = "link"
<1>0. UNCHANGED objects /\ op[o].step = "write" /\ objects' = objects
  BY DEF WritesFile, At, fiEnv
<1>1. /\ op[o].via = "simctl" /\ op[o].kind = "push" /\ op[o].step \in UnderWay
      /\ op[o].holds <= MaxBuffer /\ op[o].holds \in Sizes
      /\ op[o].staged \in Sizes \union {Missing}
  BY <1>0, Known DEF RouteAt, Sound, ResultSound, OpRecords, UnderWay
<1>2. ~Outside(o)
  <2>1. Current(o) => ~(Through(o) /\ dir = "link")
    BY <1>0, <1>1 DEF FiInv, ContainersKnown, SiteKnown, Resolved
  <2> QED BY <2>1, Known DEF Outside
<1>3. /\ size \in Sizes \union {Missing} /\ dir \in {"none", "real", "link"}
      /\ relic \in Sizes \union {Missing, Gone}
  BY DEF FiInv, FiTypeOK
<1>4. Bytes(o) \in Sizes \union {Missing} /\ 0..op[o].holds \subseteq Sizes
  BY <1>1, <1>3, SizesAreNumbers DEF Bytes
<1>5. CASE FsError(o) /\ UNCHANGED fiDisk
  BY <1>0, <1>1, <1>3, <1>5, FailuresOfFiles DEF fiDisk
<1>6. ASSUME FsError(o), NEW bytes \in {Bytes(o)} \union 0..op[o].holds, Puts(o, bytes)
      PROVE  /\ OpsSound' /\ dir' \in {"none", "real", "link"}
             /\ size' \in Sizes \union {Missing}
             /\ relic' \in Sizes \union {Missing, Gone}
             /\ relic # Gone => relic' # Gone
             /\ dir' = "link" => dir = "link"
  BY <1>0, <1>1, <1>4, <1>6, FailuresOfFiles, PutsSound
<1>7. CASE /\ Concludes(o, "ok", IF Outside(o) THEN "outside" ELSE Site(o), "none")
           /\ Puts(o, op[o].holds)
  <2>1. Concludes(o, "ok", Site(o), "none")
    BY <1>2, <1>7
  <2>2. /\ Site(o) \in Effects /\ Site(o) \in Served
        /\ "none" \in Reasons /\ "ok" \in Codes \union {"ok"}
    BY DEF Effects, Reasons, Site, Served
  <2>3. OpsSound'
    BY <1>0, <1>1, <2>1, <2>2, Concluding
  <2> QED BY <1>1, <1>7, <2>3, PutsSound
<1> QED BY <1>5, <1>6, <1>7 DEF WritesFile

LEMMA StagingSound ==
  ASSUME FiInv, NEW o \in FileOps, Stages(o) \/ StagesPayload(o)
  PROVE  OpsSound'
<1>0. UNCHANGED objects /\ op[o].step \in {"stage", "payload"} /\ objects' = objects
  BY DEF Stages, StagesPayload, At, fiEnv
<1>1. /\ op[o].via = "devicectl" /\ op[o].kind \in {"pull", "push"}
      /\ op[o].step \in UnderWay
      /\ op[o].step = "payload" => op[o].kind = "push"
      /\ op[o].kind = "push" => op[o].holds <= MaxBuffer
  BY <1>0, Known DEF RouteAt, Sound, ResultSound, UnderWay
<1>2. op[o].holds \in Sizes /\ op[o].room \in 0..(MaxBuffer + 1) /\ 0 \in Sizes
      /\ op[o].found \in 0..2
  BY Known, SizesAreNumbers DEF OpRecords
<1>3. CASE Fails(o, "TRANSPORT_FAILED", "host")
  BY <1>0, <1>1, <1>3, Failing DEF Codes, Reasons
<1>4. ASSUME NEW g \in Sizes, NEW s \in {"copy", "payload"}, s = "payload" => op[o].kind = "push",
             op' = [op EXCEPT ![o].staged = g, ![o].step = s]
      PROVE  OpsSound'
  <2>1. op' = [op EXCEPT ![o].step = s, ![o].holds = op[o].holds,
                         ![o].room = op[o].room, ![o].staged = g, ![o].found = op[o].found]
    BY <1>4, Known DEF OpRecords, FiInv, OpsSound
  <2>2. RouteAt(s, op[o].kind, op[o].via)
    BY <1>1, <1>4 DEF RouteAt
  <2>3. op[o].step \in UnderWay \union {"probe", "load"} /\ s \in UnderWay \union {"load"} /\ s # "load"
    BY <1>1 DEF UnderWay
  <2> QED BY <1>0, <1>1, <1>2, <2>1, <2>2, <2>3, Proceeding
<1>5. CASE Stages(o)
  <2>1. CASE op' = [op EXCEPT ![o].staged = 0, ![o].step = IF Pulls(o) THEN "copy" ELSE "payload"]
    <3> DEFINE s == IF Pulls(o) THEN "copy" ELSE "payload"
    <3>1. s \in {"copy", "payload"} /\ (s = "payload" => op[o].kind = "push")
      BY <1>1 DEF Pulls
    <3> HIDE DEF s
    <3>2. op' = [op EXCEPT ![o].staged = 0, ![o].step = s]
      BY <2>1 DEF s
    <3> QED BY <1>2, <1>4, <3>1, <3>2
  <2> QED BY <1>3, <1>5, <2>1 DEF Stages
<1>6. CASE StagesPayload(o)
  BY <1>0, <1>1, <1>2, <1>3, <1>4, <1>6 DEF StagesPayload
<1> QED BY <1>5, <1>6

(* What a tool that fails leaves of the remote file, and says of it.         *)
LEMMA ToolFailsSound ==
  ASSUME FiInv, NEW o \in FileOps, op[o].step \in UnderWay, UNCHANGED objects, ToolFails(o)
  PROVE  OpsSound' /\ size' \in Sizes \union {Missing}
<1>1. size \in Sizes \union {Missing} /\ op[o].holds \in Sizes
  BY Known DEF FiInv, FiTypeOK, OpRecords
<1>2. 0..op[o].holds \subseteq Sizes
  BY <1>1, SizesAreNumbers
<1>3. size' \in Sizes \union {Missing}
  BY <1>1, <1>2 DEF ToolFails
<1>4. CASE Fails(o, "TRANSPORT_FAILED", "tool")
  BY <1>3, <1>4, Failing DEF Codes, Reasons
<1>5. ASSUME NEW cause \in Causes(o), NEW words \in Words(cause),
             Fails(o, ClassifyCliFailure(words), cause)
      PROVE  OpsSound'
  <2>1. cause \in Reasons
    BY DEF Causes, Reasons
  <2>2. /\ ClassifyCliFailure(words) \in Codes
        /\ ClassifyCliFailure(words) = "NOT_FOUND" => cause = "noFile"
    BY CodesOfTools
  <2>3. "noFile" \in Absence
    BY DEF Absence
  <2> QED BY <1>5, <2>1, <2>2, <2>3, Failing
<1> QED BY <1>3, <1>4, <1>5 DEF ToolFails

LEMMA CopiesSound ==
  ASSUME FiInv, NEW o \in FileOps, Copies(o)
  PROVE  OpsSound' /\ size' \in Sizes \union {Missing}
<1>0. UNCHANGED objects /\ op[o].step = "copy" /\ objects' = objects
  BY DEF Copies, At, fiEnv
<1>1. /\ op[o].via = "devicectl" /\ op[o].kind \in {"pull", "push"} /\ op[o].step \in UnderWay
      /\ op[o].kind = "push" => op[o].holds <= MaxBuffer
  BY <1>0, Known DEF RouteAt, Sound, ResultSound, UnderWay
<1>2. op[o].holds \in Sizes /\ op[o].room \in 0..(MaxBuffer + 1) /\ size \in Sizes \union {Missing}
      /\ op[o].found \in 0..2
  BY Known DEF OpRecords, FiInv, FiTypeOK
<1>3. CASE ToolFails(o)
  BY <1>0, <1>1, <1>3, ToolFailsSound
<1>4. CASE /\ Pulls(o) /\ size # Missing
           /\ op' = [op EXCEPT ![o].staged = size, ![o].step = "size"]
           /\ UNCHANGED size
  <2>1. op' = [op EXCEPT ![o].step = "size", ![o].holds = op[o].holds,
                         ![o].room = op[o].room, ![o].staged = size, ![o].found = op[o].found]
    BY <1>4, Known DEF OpRecords, FiInv, OpsSound
  <2>2. RouteAt("size", op[o].kind, op[o].via) /\ op[o].kind = "pull"
    BY <1>1, <1>4 DEF RouteAt, Pulls
  <2>3. op[o].step \in UnderWay \union {"probe", "load"} /\ "size" \in UnderWay \union {"load"}
    BY <1>1 DEF UnderWay
  <2>4. OpsSound'
    BY <1>0, <1>1, <1>2, <2>1, <2>2, <2>3, Proceeding
  <2> QED BY <1>2, <1>4, <2>4
<1>5. CASE ~Pulls(o) /\ Concludes(o, "ok", Reached(o), "none") /\ size' = op[o].holds
  <2>1. Reached(o) = "file" /\ op[o].kind = "push"
    BY <1>1, <1>5, Known DEF Reached, Pulls
  <2>2. "file" \in Effects /\ "file" \in Served /\ "none" \in Reasons /\ "ok" \in Codes \union {"ok"}
    BY DEF Effects, Served, Reasons
  <2>3. OpsSound'
    BY <1>0, <1>1, <1>5, <2>1, <2>2, Concluding
  <2> QED BY <1>2, <1>5, <2>3
<1> QED BY <1>3, <1>4, <1>5 DEF Copies

LEMMA PipesSound ==
  ASSUME FiInv, NEW o \in FileOps, Pipes(o)
  PROVE  OpsSound' /\ size' \in Sizes \union {Missing}
<1>0. UNCHANGED objects /\ op[o].step = "shell" /\ ~Pulls(o) /\ objects' = objects
  BY DEF Pipes, At, fiEnv
<1>1. /\ op[o].kind = "push" /\ op[o].step \in UnderWay /\ op[o].holds <= MaxBuffer
      /\ op[o].holds \in Sizes
  BY <1>0, Known DEF RouteAt, Sound, ResultSound, UnderWay, Pulls, OpRecords
<1>2. CASE ToolFails(o)
  BY <1>0, <1>1, <1>2, ToolFailsSound
<1>3. CASE Concludes(o, "ok", Reached(o), "none") /\ size' = op[o].holds
  <2>1. Reached(o) = "file"
    BY Known DEF Reached
  <2>2. "file" \in Effects /\ "file" \in Served /\ "none" \in Reasons /\ "ok" \in Codes \union {"ok"}
    BY DEF Effects, Served, Reasons
  <2>3. OpsSound'
    BY <1>0, <1>1, <1>3, <2>1, <2>2, Concluding
  <2> QED BY <1>1, <1>3, <2>3
<1> QED BY <1>2, <1>3 DEF Pipes

LEMMA CatsSound ==
  ASSUME FiInv, NEW o \in FileOps, Cats(o)
  PROVE  OpsSound'
<1>0. UNCHANGED objects /\ op[o].step = "shell" /\ Pulls(o) /\ objects' = objects
  BY DEF Cats, At, fiEnv
<1>1. /\ op[o].kind = "pull" /\ op[o].via = "adb" /\ op[o].staged = Missing /\ op[o].step \in UnderWay
  BY <1>0, Known DEF RouteAt, Sound, ResultSound, UnderWay, Pulls
<1>2. ASSUME NEW code \in {"TRANSPORT_FAILED", "TOO_LARGE"}, NEW cause \in {"tool", "size"},
             Fails(o, code, cause)
      PROVE  OpsSound'
  BY <1>0, <1>1, <1>2, Failing DEF Codes, Reasons
<1>3. ASSUME NEW cause \in {"noDevice", "notDebuggable", "other", "noFile"}, NEW words \in Words(cause),
             NEW sentinel \in BOOLEAN, NEW status \in {"", "1", "garbled"}, sentinel => status # "",
             Concludes(o, ReadVerdict(sentinel, status, words, 0), "diagnostic", cause)
      PROVE  OpsSound'
  <2> DEFINE code == ReadVerdict(sentinel, status, words, 0)
  <2>1. /\ ClassifyCliFailure(words) \in Codes
        /\ ClassifyCliFailure(words) = "NOT_FOUND" => cause = "noFile"
    BY CodesOfTools
  <2>2. code \in {"TRANSPORT_FAILED", ClassifyCliFailure(words)}
    BY <1>3 DEF ReadVerdict
  <2>3. code \in Codes /\ code # "ok" /\ (code = "NOT_FOUND" => cause = "noFile")
    BY <2>1, <2>2 DEF Codes
  <2> HIDE DEF code
  <2>4. Concludes(o, code, "diagnostic", cause)
    BY <1>3 DEF code
  <2>5. cause \in Reasons /\ "diagnostic" \in Effects /\ "noFile" \in Absence
    BY DEF Reasons, Effects, Absence
  <2> QED BY <1>0, <1>1, <2>3, <2>4, <2>5, Concluding
<1>4. CASE /\ size \in 0..(MaxBuffer + Headroom)
           /\ op' = [op EXCEPT ![o].step = "check", ![o].place = <<>>, ![o].holds = size,
                               ![o].result = ReadVerdict(TRUE, "0", {}, size), ![o].touched = Reached(o)]
  <2> DEFINE code == ReadVerdict(TRUE, "0", {}, size)
             r == [op[o] EXCEPT !.step = "check", !.place = <<>>, !.holds = size,
                                !.result = code, !.touched = "file"]
  <2>1. /\ op \in [FileOps -> OpRecords] /\ op[o] \in OpRecords
        /\ Sound(op[o], objects)
    BY DEF FiInv, OpsSound
  <2>2. Reached(o) = "file"
    BY Known DEF Reached
  <2>3. code \in {"TOO_LARGE", "ok"} /\ (code = "ok" => size <= MaxBuffer)
    BY <1>4, SizesAreNumbers DEF ReadVerdict
  <2>4. size \in Sizes /\ <<>> \in Seq(Segments) /\ objects \in Nat
    BY <1>4, SizesAreNumbers, EmptySeq DEF FiInv, FiTypeOK
  <2> HIDE DEF code
  <2>5. op' = [op EXCEPT ![o] = r]
    BY <1>4, <2>1, <2>2 DEF code
  <2>6. r \in OpRecords
    <3>1. code \in Codes \union {"none", "ok"} /\ "file" \in Effects /\ "check" \in Steps
      BY <2>3 DEF Codes, Effects, Steps
    <3> QED BY <2>1, <2>4, <3>1 DEF OpRecords
  <2>7. /\ r.step = "check" /\ r.place = <<>> /\ r.result = code /\ r.touched = "file"
        /\ r.kind = op[o].kind /\ r.via = op[o].via /\ r.object = op[o].object
        /\ r.holds = size /\ r.staged = op[o].staged /\ r.cause = op[o].cause
    BY <2>1 DEF OpRecords
  <2> HIDE DEF r
  <2>8. Route(r)
    BY <1>1, <2>7 DEF Route, RouteAt
  <2>9. PlaceSound(r)
    <3>1. ~Climbs(<<>>)
      BY DEF Climbs
    <3> QED BY <1>1, <2>7, <3>1 DEF PlaceSound
  <2>10. ResultSound(r)
    BY <1>1, <2>3, <2>7 DEF ResultSound, Served
  <2>11. Sound(r, objects')
    BY <1>0, <2>1, <2>6, <2>7, <2>8, <2>9, <2>10 DEF Sound
  <2>12. objects' \in Nat /\ objects <= objects'
    BY <1>0, <2>4
  <2> QED BY <1>0, <2>5, <2>11, <2>12, OneMoves
<1>5. CASE \E cause \in {"noDevice", "notDebuggable", "other"} : \E words \in Words(cause) :
             Concludes(o, ReadVerdict(FALSE, "", words, 0), "diagnostic", cause)
  BY <1>3, <1>5
<1>6. CASE \E cause \in {IF size = Missing THEN "noFile" ELSE "other"}, status \in {"1", "garbled"} :
             \E words \in Words(cause) :
               Concludes(o, ReadVerdict(TRUE, status, words, 0), "diagnostic", cause)
  BY <1>3, <1>6
<1> QED BY <1>2, <1>4, <1>5, <1>6 DEF Cats

LEMMA EndingSound ==
  ASSUME FiInv, NEW o \in FileOps, RemovesStaging(o) \/ ChecksToken(o)
  PROVE  OpsSound'
<1>0. UNCHANGED objects /\ op[o].step \in {"unstage", "check"} /\ objects' = objects
  BY DEF RemovesStaging, ChecksToken, At, fiEnv
<1>1. /\ op \in [FileOps -> OpRecords] /\ op[o] \in OpRecords
      /\ Sound(op[o], objects) /\ objects \in Nat
  BY SizesAreNumbers DEF FiInv, OpsSound, FiTypeOK
<1>2. ASSUME NEW s \in {"check", "ended"}, NEW g \in {Missing, op[o].staged},
             g # Missing => op[o].step # "unstage" /\ op[o].step # "check",
             NEW c \in {op[o].result, "UNAVAILABLE"},
             op' = [op EXCEPT ![o].step = s, ![o].staged = g, ![o].result = c]
      PROVE  OpsSound'
  <2> DEFINE r == [op[o] EXCEPT !.step = s, !.staged = g, !.result = c]
  <2>1. op' = [op EXCEPT ![o] = r]
    BY <1>1, <1>2
  <2>2. r \in OpRecords
    BY <1>1 DEF OpRecords, Codes, Steps
  <2>3. /\ r.step = s /\ r.place = op[o].place /\ r.result = c /\ r.touched = op[o].touched
        /\ r.kind = op[o].kind /\ r.via = op[o].via /\ r.object = op[o].object
        /\ r.holds = op[o].holds /\ r.staged = g /\ r.cause = op[o].cause
    BY <1>1 DEF OpRecords
  <2> HIDE DEF r
  <2>4. Route(r)
    BY <1>0, <1>1, <2>3 DEF Sound, Route, RouteAt
  <2>5. PlaceSound(r)
    BY <1>0, <1>1, <2>3 DEF Sound, PlaceSound
  <2>6. ResultSound(r)
    BY <1>0, <1>1, <1>2, <2>3 DEF Sound, ResultSound
  <2>7. Sound(r, objects')
    BY <1>0, <1>1, <2>2, <2>3, <2>4, <2>5, <2>6 DEF Sound
  <2>8. objects' \in Nat /\ objects <= objects'
    BY <1>0, <1>1
  <2> QED BY <1>0, <2>1, <2>7, <2>8, OneMoves
<1>3. CASE RemovesStaging(o)
  <2>1. op' = [op EXCEPT ![o].step = "check", ![o].staged = Missing, ![o].result = op[o].result]
    BY <1>1, <1>3 DEF RemovesStaging, OpRecords
  <2> QED BY <1>2, <2>1
<1>4. CASE ChecksToken(o)
  <2> DEFINE c == IF op[o].result = "ok" /\ ~Live(o) THEN "UNAVAILABLE" ELSE op[o].result
  <2>1. op[o].staged = Missing
    BY <1>1, <1>4 DEF ChecksToken, At, Sound, ResultSound
  <2>2. c \in {op[o].result, "UNAVAILABLE"}
    OBVIOUS
  <2>3. op' = [op EXCEPT ![o].step = "ended", ![o].result = c]
    BY <1>1, <1>4 DEF ChecksToken, OpRecords
  <2> HIDE DEF c
  <2>4. op' = [op EXCEPT ![o].step = "ended", ![o].staged = op[o].staged, ![o].result = c]
    BY <1>1, <2>3 DEF OpRecords
  <2> QED BY <1>2, <2>1, <2>2, <2>4
<1> QED BY <1>3, <1>4

(* What a path that is not refused leads to.                                 *)
LEMMA PlaceIsSound ==
  ASSUME NEW t \in Targets, NEW root \in {"document", "absolute", "documents"}, NEW p \in RemotePaths,
         ~PathRefused(t, root, p)
  PROVE  /\ Place(root, p) \in Seq(Segments) /\ ~Climbs(Place(root, p))
         /\ t.platform = "ios" /\ Place(root, p) # <<>> =>
              Place(root, p)[Len(Place(root, p))] # "d"
<1>1. p \in Seq(Segments) /\ Named(p) \in Seq(Segments)
  <2>1. p \in Seq(STRING) /\ STRING \subseteq Segments
    BY FileBounds DEF Segments
  <2>2. p \in Seq(Segments)
    BY <2>1, SeqMonotonic
  <2> QED BY <2>2, NamedIsPath
<1>2. CASE root = "absolute"
  BY <1>1, <1>2 DEF PathRefused, Place
<1>3. CASE root = "document"
  <2> DEFINE q == <<"Documents">> \o Named(p)
  <2>1. Named(p) # <<>> /\ ~Climbs(Named(p)) /\ Place(root, p) = q
    BY <1>3 DEF PathRefused, Place
  <2>2. <<"Documents">> \in Seq(Segments) /\ Len(<<"Documents">>) = 1 /\ <<"Documents">>[1] = "Documents"
    <3>1. <<"Documents">> \in Seq(Segments)
      <4>1. "Documents" \in Segments
        BY DEF Segments
      <4>2. \A x \in Segments : <<x>> \in Seq(Segments)
        OBVIOUS
      <4> QED BY <4>1, <4>2
    <3>2. Len(<<"Documents">>) = 1
      OBVIOUS
    <3>3. <<"Documents">>[1] = "Documents"
      OBVIOUS
    <3> QED BY <3>1, <3>2, <3>3
  <2>3. Len(Named(p)) \in Nat /\ Len(Named(p)) > 0
    BY <1>1, <2>1, EmptySeq
  <2>4. /\ q \in Seq(Segments) /\ Len(q) = 1 + Len(Named(p))
        /\ \A i \in 1..Len(q) : q[i] = IF i = 1 THEN "Documents" ELSE Named(p)[i - 1]
    <3>1. /\ q \in Seq(Segments) /\ Len(q) = Len(<<"Documents">>) + Len(Named(p))
          /\ \A i \in 1..(Len(<<"Documents">>) + Len(Named(p))) :
               q[i] = IF i <= Len(<<"Documents">>) THEN <<"Documents">>[i]
                      ELSE Named(p)[i - Len(<<"Documents">>)]
      BY <1>1, <2>2, ConcatProperties
    <3> HIDE DEF q
    <3> QED BY <2>2, <2>3, <3>1
  <2> HIDE DEF q
  <2>5. ~Climbs(q)
    BY <2>1, <2>3, <2>4 DEF Climbs
  <2>6. q[Len(q)] # "d"
    BY <2>1, <2>3, <2>4, DirectoryAssumption
  <2> QED BY <2>1, <2>4, <2>5, <2>6
<1> QED BY <1>2, <1>3 DEF PathRefused

LEMMA TargetsAndTransports ==
  ASSUME NEW t \in Targets
  PROVE  /\ ResolveFileTarget(t) \in {"UNAVAILABLE", "UNSUPPORTED", "simctl", "devicectl", "adb"}
         /\ ResolveFileTarget(t) = "simctl" => t.platform = "ios"
BY FileBounds DEF ResolveFileTarget

LEMMA FreshIsRecord ==
  /\ FreshOp \in OpRecords
  /\ FreshOp.step = "new" /\ FreshOp.kind = "none" /\ FreshOp.via = "none" /\ FreshOp.object = 0
  /\ FreshOp.place = <<>> /\ FreshOp.holds = 0 /\ FreshOp.room = 0 /\ FreshOp.staged = Missing
  /\ FreshOp.result = "none" /\ FreshOp.touched = "nothing" /\ FreshOp.cause = "none"
  /\ FreshOp.found = 0
<1>1. <<>> \in Seq(Segments)
  BY EmptySeq
<1>2. 0 \in Sizes /\ 0 \in 0..(MaxBuffer + 1) /\ 0 \in 0..MaxObjects
  BY SizesAreNumbers
<1> QED BY <1>1, <1>2 DEF FreshOp, OpRecords, Steps, Effects, Reasons

LEMMA StartsSound ==
  ASSUME FiInv, NEW o \in FileOps, NEW k \in 1..objects, NEW kind \in {"pull", "push"},
         NEW cap \in {0, MaxBuffer}, NEW root \in {"document", "absolute", "documents"},
         NEW p \in RemotePaths, NEW b \in {Missing, 0, MaxBuffer, MaxBuffer + 1},
         kind = "pull" => b = 0, kind = "push" => cap = MaxBuffer,
         StartsOp(o, k, kind, cap, root, p, b)
  PROVE  OpsSound'
<1> DEFINE fresh == [FreshOp EXCEPT !.kind = kind, !.object = k]
           no  == Refusal(k, kind, cap, root, p, b)
           how == ResolveFileTarget(bound[k])
           refused == [fresh EXCEPT !.step = "ended", !.result = no]
           begun == [fresh EXCEPT !.via = how, !.place = Place(root, p),
                                  !.step = IF kind = "push" /\ b = Missing THEN "probe" ELSE FirstStep[how],
                                  !.holds = IF b = Missing THEN 0 ELSE b]
<1>0. UNCHANGED objects /\ objects' = objects
  BY DEF StartsOp, fiEnv
<1>1. objects \in Nat /\ objects \in 0..MaxObjects /\ k \in 1..MaxObjects /\ bound[k] \in Targets
  BY SizesAreNumbers DEF FiInv, FiTypeOK
<1>2. op \in [FileOps -> OpRecords]
  BY DEF FiInv, OpsSound
<1>3. op' = [op EXCEPT ![o] = IF no # "none" THEN refused ELSE begun]
  BY DEF StartsOp
<1>4. /\ fresh \in OpRecords
      /\ fresh.step = "new" /\ fresh.kind = kind /\ fresh.via = "none" /\ fresh.object = k
      /\ fresh.place = <<>> /\ fresh.holds = 0 /\ fresh.room = 0 /\ fresh.staged = Missing
      /\ fresh.result = "none" /\ fresh.touched = "nothing" /\ fresh.cause = "none"
  <2>1. k \in 0..MaxObjects /\ kind \in {"none", "pull", "push"}
    BY <1>1
  <2> QED BY <2>1, FreshIsRecord DEF OpRecords
<1>5. <<>> \in Seq(Segments) /\ ~Climbs(<<>>) /\ 0 \in Sizes /\ 0 \in 0..(MaxBuffer + 1) /\ k \in 0..MaxObjects
      /\ k # 0 /\ k \in 0..objects
  <2>1. <<>> \in Seq(Segments) /\ ~Climbs(<<>>)
    BY EmptySeq DEF Climbs
  <2> QED BY <1>1, <2>1, SizesAreNumbers
<1>6. no \in Codes \union {"none"}
  BY <1>1, TargetsAndTransports DEF Refusal, Codes
<1>7. objects' \in Nat /\ objects <= objects'
  BY <1>0, <1>1
<1> HIDE DEF no, how
<1>8. CASE no # "none"
  <2> HIDE DEF fresh
  <2>1. /\ refused.step = "ended" /\ refused.kind = kind /\ refused.via = "none" /\ refused.object = k
        /\ refused.place = <<>> /\ refused.holds = 0 /\ refused.staged = Missing
        /\ refused.result = no /\ refused.touched = "nothing" /\ refused.cause = "none"
    BY <1>4 DEF OpRecords
  <2>a. no \in Codes \union {"none", "ok"} /\ "ended" \in Steps
    BY <1>6 DEF Steps
  <2>2. refused \in OpRecords
    BY <1>4, <2>a DEF OpRecords
  <2> HIDE DEF refused
  <2>3. Route(refused) /\ PlaceSound(refused) /\ ResultSound(refused)
    BY <1>5, <1>6, <1>8, <2>1 DEF Route, RouteAt, PlaceSound, ResultSound, Codes
  <2>4. Sound(refused, objects')
    BY <1>0, <1>5, <2>1, <2>2, <2>3 DEF Sound
  <2> QED BY <1>0, <1>3, <1>7, <1>8, <2>4, OneMoves
<1>9. CASE no = "none"
  <2> DEFINE step == IF kind = "push" /\ b = Missing THEN "probe" ELSE FirstStep[how]
             h == IF b = Missing THEN 0 ELSE b
             place == Place(root, p)
  <2>a. liveObject = k /\ cap > 0 /\ ResolveFileTarget(bound[k]) \notin Codes
    BY <1>9, SizesAreNumbers DEF no, Refusal, Codes
  <2>b. ~PathRefused(bound[k], root, p) /\ ~(kind = "push" /\ b > cap)
    BY <1>9, <2>a DEF no, Refusal
  <2>1. /\ how \in {"simctl", "devicectl", "adb"} /\ ~PathRefused(bound[k], root, p)
        /\ kind = "push" => ~(b > cap)
        /\ how = "simctl" => bound[k].platform = "ios"
    BY <1>1, <2>a, <2>b, TargetsAndTransports DEF how, Codes
  <2>2. /\ place \in Seq(Segments) /\ ~Climbs(place)
        /\ how = "simctl" /\ place # <<>> => place[Len(place)] # "d"
    BY <1>1, <2>1, PlaceIsSound
  <2>3. h \in Sizes /\ h <= MaxBuffer
    BY <2>1, SizesAreNumbers
  <2>4. /\ step \in {"probe", "locate", "stage", "shell"} /\ RouteAt(step, kind, how)
    BY <2>1 DEF FirstStep, RouteAt
  <2>c. step \in Steps /\ how \in {"none", "simctl", "devicectl", "adb"}
    BY <2>1, <2>4 DEF Steps
  <2> HIDE DEF fresh, step, h, place
  <2>5. /\ begun.step = step /\ begun.kind = kind /\ begun.via = how /\ begun.object = k
        /\ begun.place = place /\ begun.holds = h /\ begun.staged = Missing
        /\ begun.result = "none" /\ begun.touched = "nothing" /\ begun.cause = "none"
    BY <1>4 DEF OpRecords, step, h, place
  <2>6. begun \in OpRecords
    BY <1>4, <2>2, <2>3, <2>c DEF OpRecords, step, h, place
  <2> HIDE DEF begun
  <2>7. Route(begun) /\ PlaceSound(begun) /\ ResultSound(begun)
    BY <2>2, <2>3, <2>4, <2>5 DEF Route, PlaceSound, ResultSound
  <2>8. Sound(begun, objects')
    BY <1>0, <1>5, <2>5, <2>6, <2>7 DEF Sound
  <2>9. op' = [op EXCEPT ![o] = begun]
    BY <1>3, <1>9
  <2> QED BY <1>0, <1>7, <2>8, <2>9, OneMoves
<1> QED BY <1>8, <1>9

-----------------------------------------------------------------------------
(* What other operations do to the containers leaves what o knows of its own.*)
Setting ==
  /\ install \in 1..2 /\ install' \in 1..2 /\ install <= install'
  /\ container \in [1..MaxObjects -> 0..2]
  /\ \A k \in 1..MaxObjects : container[k] # 0 => container'[k] = container[k]
  /\ \A k \in 1..MaxObjects : container'[k] <= install'
  /\ relic # Gone => relic' # Gone
  /\ dir' = "link" => dir = "link"

LEMMA SiteStays ==
  ASSUME FiInv, Setting, NEW o \in FileOps, op'[o] = op[o]
  PROVE  SiteKnown(o)'
<1> DEFINE k == op[o].object
<1>1. /\ SiteKnown(o) /\ op[o].found \in 0..2 /\ install \in 1..2 /\ install' \in 1..2 /\ install <= install'
      /\ \A h \in 1..MaxObjects : container[h] <= install /\ container[h] \in 0..2
  BY Known DEF FiInv, ContainersKnown, OpRecords, Setting, FiTypeOK
<1>2. At(o, "contain") \/ Looked(o) =>
        k \in 1..MaxObjects /\ container[k] # 0 /\ container'[k] = container[k] /\ container[k] <= install
  <2>1. At(o, "contain") \/ Looked(o) => k \in 1..MaxObjects /\ container[k] # 0
    BY <1>1, Known DEF At, Looked, SiteKnown
  <2> QED BY <1>1, <2>1 DEF Setting
<1>3. Looked(o) /\ Current(o)' => Current(o)
  <2> SUFFICES ASSUME Looked(o), container'[k] = install' PROVE container[k] = install
    BY DEF Current
  <2> QED BY <1>1, <1>2
<1>4. Superseded(o) => Superseded(o)'
  BY <1>1 DEF Superseded, SiteKnown
<1>5. op[o].found <= install'
  BY <1>1 DEF SiteKnown
<1>6. Looked(o) /\ op[o].found = install' => ~Vanished(o)'
  <2> SUFFICES ASSUME Looked(o), op[o].found = install' PROVE ~Vanished(o)'
    OBVIOUS
  <2>1. install' = install
    BY <1>1 DEF SiteKnown
  <2>2. ~Vanished(o)
    BY <1>1, <2>1 DEF SiteKnown
  <2>3. Current(o) => Current(o)'
    BY <1>2, <2>1 DEF Current
  <2> QED BY <2>2, <2>3 DEF Vanished, Setting
<1>7. Resolved(o) /\ Current(o)' => ~(Through(o) /\ dir' = "link")
  BY <1>1, <1>3 DEF Resolved, Looked, SiteKnown, Setting
<1>8. /\ At(o, "contain")' = At(o, "contain") /\ Looked(o)' = Looked(o) /\ Resolved(o)' = Resolved(o)
      /\ Through(o)' = Through(o)
  BY DEF At, Looked, Resolved, Through, ByD
<1> QED BY <1>1, <1>2, <1>4, <1>5, <1>6, <1>7, <1>8 DEF SiteKnown

(* What is concluded of a container that is gone.                            *)
LEMMA SiteConcluded ==
  ASSUME FiInv, Setting, UNCHANGED install, NEW o \in FileOps, NEW result, NEW touched, NEW cause,
         Concludes(o, result, touched, cause),
         result = "ok" /\ touched = "noContainer" => Superseded(o),
         result # "TRANSPORT_FAILED" /\ cause = "noContainer" => Superseded(o)
  PROVE  SiteKnown(o)'
<1>1. /\ op \in [FileOps -> OpRecords] /\ op[o] \in OpRecords /\ SiteKnown(o)
  BY DEF FiInv, OpsSound, ContainersKnown
<1>2. /\ op'[o].step \in {"unstage", "check"} /\ op'[o].result = result /\ op'[o].touched = touched
      /\ op'[o].cause = cause /\ op'[o].found = op[o].found
  BY <1>1 DEF Concludes, OpRecords
<1> QED BY <1>1, <1>2 DEF SiteKnown, At, Looked, Resolved, Superseded

LEMMA SiteFailed ==
  ASSUME FiInv, Setting, UNCHANGED install, NEW o \in FileOps, NEW code \in Codes, NEW cause,
         Fails(o, code, cause),
         code # "TRANSPORT_FAILED" /\ cause = "noContainer" => Superseded(o)
  PROVE  SiteKnown(o)'
<1>1. code # "ok" /\ Concludes(o, code, op[o].touched, cause)
  BY DEF Codes, Fails
<1> QED BY <1>1, SiteConcluded

(* It goes on, with nothing decided yet.                                     *)
LEMMA SiteWalked ==
  ASSUME FiInv, Setting, UNCHANGED <<install, relic, dir>>, NEW o \in FileOps, op[o].step \in UnderWay,
         op' \in [FileOps -> OpRecords],
         op'[o].via = op[o].via, op'[o].object = op[o].object, op'[o].place = op[o].place,
         op'[o].result = op[o].result, op'[o].touched = op[o].touched, op'[o].cause = op[o].cause,
         op'[o].found = op[o].found,
         op'[o].step # "contain",
         op'[o].via = "simctl" /\ op'[o].step = "walk" => Looked(o),
         op'[o].via = "simctl" /\ op'[o].step \in {"size", "open", "read", "write"} =>
           Looked(o) /\ (Resolved(o) \/ (Current(o) => ~(Through(o) /\ dir = "link")))
  PROVE  SiteKnown(o)'
<1>1. /\ SiteKnown(o) /\ op[o].object \in 1..MaxObjects
      /\ op[o] \in OpRecords
  BY Known DEF FiInv, ContainersKnown, UnderWay
<1>2. Looked(o)' => Looked(o) /\ container[op[o].object] # 0
  BY <1>1 DEF Looked, SiteKnown
<1>3. Looked(o)' => container'[op[o].object] = container[op[o].object]
  BY <1>1, <1>2 DEF Setting
<1>4. Looked(o)' => Vanished(o)' = Vanished(o) /\ Current(o)' = Current(o)
  BY <1>3 DEF Vanished, Current
<1>5. Through(o)' = Through(o) /\ Superseded(o)' = Superseded(o)
  BY DEF Through, ByD, Superseded
<1>6. Resolved(o)' /\ Current(o)' => ~(Through(o)' /\ dir' = "link")
  BY <1>1, <1>4, <1>5 DEF Resolved, Looked, SiteKnown
<1>7. Looked(o)' /\ op'[o].found = install' => ~Vanished(o)'
  BY <1>1, <1>2, <1>4 DEF SiteKnown
<1> QED BY <1>1, <1>2, <1>3, <1>5, <1>6, <1>7 DEF SiteKnown, At

LEMMA SiteGoes ==
  ASSUME FiInv, Setting, UNCHANGED <<install, relic, dir>>, NEW o \in FileOps, op[o].step \in UnderWay,
         NEW s, Goes(o, s), op' \in [FileOps -> OpRecords],
         s # "contain",
         op[o].via = "simctl" /\ s = "walk" => Looked(o),
         op[o].via = "simctl" /\ s \in {"size", "open", "read", "write"} =>
           Looked(o) /\ (Resolved(o) \/ (Current(o) => ~(Through(o) /\ dir = "link")))
  PROVE  SiteKnown(o)'
<1>1. op \in [FileOps -> OpRecords] /\ op[o] \in OpRecords
  BY DEF FiInv, OpsSound
<1>2. /\ op'[o].step = s /\ op'[o].via = op[o].via /\ op'[o].object = op[o].object
      /\ op'[o].place = op[o].place /\ op'[o].found = op[o].found
      /\ op'[o].result = op[o].result /\ op'[o].touched = op[o].touched /\ op'[o].cause = op[o].cause
  BY <1>1 DEF Goes, OpRecords
<1> QED BY <1>2, SiteWalked

(* An operation that is not in a simulator's container.                      *)
LEMMA SiteElsewhere ==
  ASSUME FiInv, UNCHANGED install, NEW o \in FileOps, op'[o].found = op[o].found \/ op'[o].found = 0,
         op'[o].via # "simctl" \/ op'[o].step \notin {"contain", "walk", "size", "open", "read", "write"},
         op'[o].step # "contain",
         op'[o].result = "ok" /\ op'[o].touched = "noContainer" => Superseded(o)',
         op'[o].result # "TRANSPORT_FAILED" /\ op'[o].cause = "noContainer" => Superseded(o)'
  PROVE  SiteKnown(o)'
<1>1. SiteKnown(o) /\ op[o].found \in 0..2 /\ install \in 1..2
  BY Known DEF FiInv, ContainersKnown, OpRecords, FiTypeOK
<1>2. op'[o].found <= install'
  BY <1>1 DEF SiteKnown
<1> QED BY <1>2 DEF SiteKnown, At, Looked, Resolved

LEMMA SiteOfSteps ==
  ASSUME FiInv, Setting, UNCHANGED <<objects, install>>, NEW o \in FileOps, OpStep(o), OpsSound'
  PROVE  SiteKnown(o)'
<1>1. /\ op \in [FileOps -> OpRecords] /\ op[o] \in OpRecords /\ SiteKnown(o) /\ Sound(op[o], objects)
      /\ op' \in [FileOps -> OpRecords] /\ RouteAt(op[o].step, op[o].kind, op[o].via)
  BY Known DEF FiInv, OpsSound, ContainersKnown
<1>2. CASE ProbesSource(o) \/ LoadsSource(o)
  <2>1. /\ op[o].step \in {"probe", "load"} /\ op[o].cause = "none"
        /\ op[o].via \in {"simctl", "devicectl", "adb"}
    BY <1>1, <1>2 DEF ProbesSource, LoadsSource, At, Sound, ResultSound, RouteAt
  <2>2. /\ op'[o].found = op[o].found /\ op'[o].cause = op[o].cause
        /\ op'[o].step \in {"ended", "load", "locate", "stage", "shell"}
        /\ op'[o].result # "ok"
    <3>1. op[o].result = "none"
      BY <1>1, <2>1 DEF Sound, ResultSound
    <3>2. ASSUME NEW code \in Codes, Refused(o, code)
          PROVE  /\ op'[o].found = op[o].found /\ op'[o].cause = op[o].cause
                 /\ op'[o].step = "ended" /\ op'[o].result # "ok"
      BY <1>1, <3>2 DEF Refused, OpRecords, Codes
    <3>3. CASE Goes(o, "load")
      BY <1>1, <3>1, <3>3 DEF Goes, OpRecords
    <3>4. ASSUME NEW bytes \in 0..MaxBuffer,
                 op' = [op EXCEPT ![o].step = FirstStep[op[o].via], ![o].holds = bytes]
          PROVE  /\ op'[o].found = op[o].found /\ op'[o].cause = op[o].cause
                 /\ op'[o].step \in {"locate", "stage", "shell"} /\ op'[o].result # "ok"
      BY <1>1, <2>1, <3>1, <3>4 DEF OpRecords, FirstStep
    <3>5. {"NOT_FOUND", "TRANSPORT_FAILED", "TOO_LARGE", "UNAVAILABLE"} \subseteq Codes
      BY DEF Codes
    <3> QED BY <1>2, <3>2, <3>3, <3>4, <3>5 DEF ProbesSource, LoadsSource
  <2> QED BY <2>1, <2>2, SiteElsewhere
<1>3. CASE RemovesStaging(o) \/ ChecksToken(o)
  <2>1. op[o].step \in {"unstage", "check"} /\ UNCHANGED install
    BY <1>3 DEF RemovesStaging, ChecksToken, At, fiEnv
  <2>2. /\ op'[o].found = op[o].found /\ op'[o].cause = op[o].cause /\ op'[o].touched = op[o].touched
        /\ op'[o].step \in {"check", "ended"}
        /\ op'[o].result = op[o].result \/ (op[o].result = "ok" /\ op'[o].result = "UNAVAILABLE")
    BY <1>1, <1>3 DEF RemovesStaging, ChecksToken, OpRecords
  <2>3. Superseded(o)' = Superseded(o)
    BY <2>2 DEF Superseded
  <2>4. /\ op[o].result = "ok" /\ op[o].touched = "noContainer" => Superseded(o)
        /\ op[o].result # "TRANSPORT_FAILED" /\ op[o].cause = "noContainer" => Superseded(o)
    BY <1>1 DEF SiteKnown
  <2> QED BY <2>2, <2>3, <2>4, SiteElsewhere
<1>4. CASE LocatesContainer(o)
  <2> DEFINE k == op[o].object
  <2>1. k \in 1..MaxObjects /\ op[o].step = "locate" /\ op[o].result = "none" /\ op[o].via = "simctl"
    BY <1>1, <1>4, Known DEF LocatesContainer, At, UnderWay, RouteAt
  <2>2. CASE Goes(o, "contain") /\ container' = [container EXCEPT ![k] = IF @ = 0 THEN install ELSE @]
    <3>1. /\ op'[o].step = "contain" /\ op'[o].object = k /\ op'[o].found = op[o].found
          /\ op'[o].result = "none" /\ op'[o].cause = op[o].cause
      BY <1>1, <2>1, <2>2 DEF Goes, OpRecords
    <3>2. container'[k] # 0
      BY <2>1, <2>2 DEF Setting
    <3>3. op[o].cause = "noContainer" => Superseded(o)
      BY <1>1, <2>1 DEF SiteKnown
    <3>4. Superseded(o)' = Superseded(o) /\ op[o].found <= install'
      BY <1>1, <3>1 DEF Superseded, SiteKnown
    <3> QED BY <3>1, <3>2, <3>3, <3>4 DEF SiteKnown, At, Looked, Resolved
  <2>3. CASE Fails(o, "TRANSPORT_FAILED", "tool")
    BY <2>3, SiteFailed DEF Codes
  <2> QED BY <1>4, <2>2, <2>3 DEF LocatesContainer
<1>5. CASE FindsContainer(o)
  <2>1. /\ op[o].object \in 1..MaxObjects /\ op[o].step = "contain" /\ op[o].result = "none"
        /\ container[op[o].object] # 0 /\ UNCHANGED <<container, relic>>
    BY <1>1, <1>5, Known DEF FindsContainer, At, UnderWay, SiteKnown, fiDisk
  <2>2. ASSUME NEW cause, Fails(o, "TRANSPORT_FAILED", cause) PROVE SiteKnown(o)'
    BY <2>2, SiteFailed DEF Codes
  <2>3. CASE ~Vanished(o) /\ op' = [op EXCEPT ![o].step = "walk", ![o].found = install]
    <3>1. /\ op'[o].step = "walk" /\ op'[o].object = op[o].object /\ op'[o].found = install
          /\ op'[o].result = "none" /\ op'[o].cause = op[o].cause
      BY <1>1, <2>1, <2>3 DEF OpRecords
    <3>2. ~Vanished(o)' /\ container'[op'[o].object] # 0
      BY <2>1, <2>3, <3>1 DEF Vanished, Current
    <3>3. op[o].cause # "noContainer"
      BY <1>1, <2>1 DEF Sound, ResultSound
    <3>4. op'[o].found <= install' /\ op'[o].found # 0
      BY <3>1 DEF Setting
    <3> QED BY <3>1, <3>2, <3>3, <3>4 DEF SiteKnown, At, Looked, Resolved
  <2> QED BY <1>5, <2>2, <2>3 DEF FindsContainer
<1>6. CASE ResolvesInside(o)
  <2>1. op[o].step = "walk" /\ op[o].via = "simctl" /\ UNCHANGED <<relic, dir>> /\ op[o].step \in UnderWay
    BY <1>1, <1>6 DEF ResolvesInside, At, RouteAt, fiDisk, UnderWay
  <2>2. Looked(o) /\ (op[o].found = install => ~Vanished(o)) /\ op[o].found # 0
    BY <1>1, <2>1 DEF Looked, SiteKnown
  <2>3. CASE Fails(o, "TRANSPORT_FAILED", "host")
    BY <2>3, SiteFailed DEF Codes
  <2>4. CASE Fails(o, "UNSUPPORTED", IF Vanished(o) THEN "noContainer" ELSE "escape")
    <3> DEFINE cause == IF Vanished(o) THEN "noContainer" ELSE "escape"
    <3>1. cause = "noContainer" => Superseded(o)
      BY <2>2 DEF Superseded
    <3> HIDE DEF cause
    <3>2. Fails(o, "UNSUPPORTED", cause) /\ "UNSUPPORTED" \in Codes
      BY <2>4 DEF cause, Codes
    <3> QED BY <3>1, <3>2, SiteFailed
  <2>5. CASE /\ IF Current(o) THEN Contained(op[o].place) ELSE ~Vanished(o) /\ ~Above(op[o].place)
             /\ Goes(o, IF Pulls(o) THEN "size" ELSE "write")
    <3> DEFINE s == IF Pulls(o) THEN "size" ELSE "write"
    <3>1. op[o].place # <<>> => op[o].place[Len(op[o].place)] # "d"
      BY <1>1, <2>1 DEF Sound, PlaceSound
    <3>2. Current(o) => ~(Through(o) /\ dir = "link")
      BY <2>5, <3>1, Known, ContainedIsInside DEF Through
    <3>3. Goes(o, s) /\ s # "contain" /\ s # "walk"
      BY <2>5
    <3> HIDE DEF s
    <3> QED BY <1>1, <2>1, <2>2, <3>2, <3>3, SiteGoes
  <2> QED BY <1>6, <2>3, <2>4, <2>5 DEF ResolvesInside
<1> DEFINE Read == ProbesSize(o) \/ OpensFile(o) \/ ReadsFile(o) \/ WritesFile(o)
<1>7. ASSUME Read
      PROVE  /\ op[o].step \in {"size", "open", "read", "write"} /\ op[o].step \in UnderWay
             /\ op[o].result = "none"
             /\ op[o].via \in {"simctl", "devicectl"} /\ Staged(o) = (op[o].via = "devicectl")
             /\ op[o].via = "simctl" =>
                  Looked(o) /\ Resolved(o) /\ op[o].found # 0 /\ (Vanished(o) => Superseded(o))
  <2>1. op[o].step \in {"size", "open", "read", "write"} /\ op[o].step \in UnderWay
    BY <1>7 DEF ProbesSize, OpensFile, ReadsFile, WritesFile, At, UnderWay
  <2>2. op[o].via = "simctl" => Looked(o) /\ Resolved(o)
    BY <2>1 DEF Looked, Resolved
  <2>3. op[o].via = "simctl" => op[o].found # 0 /\ (Vanished(o) => Superseded(o))
    BY <1>1, <2>2 DEF SiteKnown, Superseded
  <2> QED BY <1>1, <2>1, <2>2, <2>3, Known DEF RouteAt, Staged
<1>8. ASSUME Read, FsError(o) PROVE SiteKnown(o)'
  <2> DEFINE cause == IF Current(o) THEN "noFile" ELSE Site(o)
  <2>1. CASE ~Staged(o) /\ Fails(o, "NOT_FOUND", cause)
    <3>1. cause = "noContainer" => Superseded(o)
      BY <1>7, <1>8, <2>1 DEF Site, Vanished
    <3> HIDE DEF cause
    <3> QED BY <2>1, <3>1, SiteFailed DEF Codes
  <2>2. CASE Fails(o, "TRANSPORT_FAILED", "host")
    BY <2>2, SiteFailed DEF Codes
  <2> QED BY <1>8, <2>1, <2>2 DEF FsError
<1>9. ASSUME Read, Fails(o, "TOO_LARGE", "size") PROVE SiteKnown(o)'
  BY <1>9, SiteFailed DEF Codes
<1>10. CASE ProbesSize(o)
  <2>1. UNCHANGED <<relic, dir>> /\ Read
    BY <1>10 DEF ProbesSize, fiDisk
  <2>2. CASE Goes(o, "open")
    BY <1>1, <1>7, <2>1, <2>2, SiteGoes
  <2> QED BY <1>8, <1>9, <1>10, <2>1, <2>2 DEF ProbesSize
<1>11. CASE OpensFile(o)
  <2>1. UNCHANGED <<relic, dir>> /\ Read
    BY <1>11 DEF OpensFile, fiDisk
  <2>2. CASE op' = [op EXCEPT ![o].step = "read", ![o].holds = 0, ![o].room = Lesser(Bytes(o), MaxBuffer) + 1]
    <3>1. /\ op'[o].step = "read" /\ op'[o].via = op[o].via /\ op'[o].object = op[o].object
          /\ op'[o].place = op[o].place /\ op'[o].found = op[o].found
          /\ op'[o].result = op[o].result /\ op'[o].touched = op[o].touched /\ op'[o].cause = op[o].cause
      BY <1>1, <2>2 DEF OpRecords
    <3> QED BY <1>1, <1>7, <2>1, <3>1, SiteWalked
  <2> QED BY <1>8, <1>11, <2>1, <2>2 DEF OpensFile
<1>12. CASE ReadsFile(o)
  <2>1. UNCHANGED <<relic, dir>> /\ Read /\ op[o].step = "read"
    BY <1>12 DEF ReadsFile, fiDisk, At
  <2>2. ASSUME NEW room, NEW n, op' = [op EXCEPT ![o].room = room, ![o].holds = n]
        PROVE  SiteKnown(o)'
    <3>1. /\ op'[o].step = "read" /\ op'[o].via = op[o].via /\ op'[o].object = op[o].object
          /\ op'[o].place = op[o].place /\ op'[o].found = op[o].found
          /\ op'[o].result = op[o].result /\ op'[o].touched = op[o].touched /\ op'[o].cause = op[o].cause
      BY <1>1, <2>1, <2>2 DEF OpRecords
    <3> QED BY <1>1, <1>7, <2>1, <3>1, SiteWalked
  <2>3. ASSUME NEW what \in {"outside", "part", "file", Site(o)}, what # Site(o) \/ ~Staged(o),
               Concludes(o, "ok", what, "none")
        PROVE  SiteKnown(o)'
    <3>1. what = "noContainer" => Superseded(o)
      BY <1>7, <2>1, <2>3 DEF Site
    <3> QED BY <2>3, <3>1, SiteConcluded
  <2> DEFINE held == op[o].holds
             rest == IF Superseded(o) THEN Missing ELSE Bytes(o)
             out  == (~Staged(o) /\ Current(o) /\ Whole(o) = "outside") \/ Above(op[o].place)
             read == IF out THEN "outside" ELSE IF rest > held THEN "part"
                     ELSE IF Staged(o) THEN "file" ELSE Site(o)
  <2>4. CASE IF held > MaxBuffer THEN Fails(o, "TOO_LARGE", "size") ELSE Concludes(o, "ok", read, "none")
    <3>2. read = "noContainer" => ~Staged(o) /\ read = Site(o)
      OBVIOUS
    <3> HIDE DEF read
    <3>3. read = "noContainer" => Superseded(o)
      BY <1>7, <2>1, <3>2 DEF Site
    <3> QED BY <1>9, <2>1, <2>4, <3>3, SiteConcluded
  <2> QED BY <1>12, <2>2, <2>4 DEF ReadsFile
<1>13. CASE WritesFile(o)
  <2>1. Read /\ op[o].via = "simctl"
    BY <1>1, <1>13 DEF WritesFile, At, RouteAt
  <2>2. CASE Concludes(o, "ok", IF Outside(o) THEN "outside" ELSE Site(o), "none")
    <3> DEFINE what == IF Outside(o) THEN "outside" ELSE Site(o)
    <3>1. what = "noContainer" => Superseded(o)
      BY <1>7, <2>1 DEF Site
    <3> HIDE DEF what
    <3>2. Concludes(o, "ok", what, "none")
      BY <2>2 DEF what
    <3> QED BY <3>1, <3>2, SiteConcluded
  <2> QED BY <1>8, <1>13, <2>1, <2>2 DEF WritesFile
<1>14. CASE Stages(o) \/ StagesPayload(o) \/ Copies(o) \/ Cats(o) \/ Pipes(o)
  <2>1. /\ op[o].step \in {"stage", "payload", "copy", "shell"} /\ op[o].step \in UnderWay
        /\ op[o].via \in {"devicectl", "adb"} /\ op[o].result = "none" /\ op[o].cause # "noContainer"
    <3>1. op[o].step \in {"stage", "payload", "copy", "shell"} /\ op[o].step \in UnderWay
      BY <1>14 DEF Stages, StagesPayload, Copies, Cats, Pipes, At, UnderWay
    <3> QED BY <1>1, <3>1, Known DEF RouteAt, Sound, ResultSound
  <2>2. ASSUME NEW code \in Codes, NEW cause, cause # "noContainer", Fails(o, code, cause)
        PROVE  SiteKnown(o)'
    BY <2>2, SiteFailed
  <2>3. ASSUME NEW what, what # "noContainer", NEW result, NEW cause, cause # "noContainer",
               Concludes(o, result, what, cause)
        PROVE  SiteKnown(o)'
    BY <2>3, SiteConcluded
  <2>4. ASSUME op'[o].via = op[o].via, op'[o].found = op[o].found, op'[o].cause = op[o].cause,
               op'[o].touched # "noContainer" \/ op'[o].result = "none", op'[o].step # "contain"
        PROVE  SiteKnown(o)'
    BY <2>1, <2>4, SiteElsewhere
  <2>5. CASE Stages(o) \/ StagesPayload(o)
    <3>1. ASSUME NEW g, NEW s, s # "contain", op' = [op EXCEPT ![o].staged = g, ![o].step = s]
          PROVE  SiteKnown(o)'
      BY <1>1, <2>1, <2>4, <3>1 DEF OpRecords
    <3>2. (IF Pulls(o) THEN "copy" ELSE "payload") # "contain"
      OBVIOUS
    <3> QED BY <2>2, <2>5, <3>1, <3>2 DEF Stages, StagesPayload, Codes
  <2>6. ASSUME ToolFails(o) PROVE SiteKnown(o)'
    <3>1. ASSUME NEW cause \in Causes(o), NEW words \in Words(cause),
                 Fails(o, ClassifyCliFailure(words), cause)
          PROVE  SiteKnown(o)'
      BY <2>2, <3>1, CodesOfTools DEF Causes
    <3> QED BY <2>2, <2>6, <3>1 DEF ToolFails, Codes
  <2>7. Reached(o) # "noContainer"
    BY DEF Reached
  <2>8. CASE Copies(o)
    <3>1. CASE op' = [op EXCEPT ![o].staged = size, ![o].step = "size"]
      BY <1>1, <2>1, <2>4, <3>1 DEF OpRecords
    <3> QED BY <2>3, <2>6, <2>7, <2>8, <3>1 DEF Copies
  <2>9. CASE Pipes(o)
    BY <2>3, <2>6, <2>7, <2>9 DEF Pipes
  <2>10. CASE Cats(o)
    <3>1. CASE op' = [op EXCEPT ![o].step = "check", ![o].place = <<>>, ![o].holds = size,
                                ![o].result = ReadVerdict(TRUE, "0", {}, size), ![o].touched = Reached(o)]
      BY <1>1, <2>1, <2>4, <2>7, <3>1 DEF OpRecords
    <3>2. ASSUME NEW cause \in {"noDevice", "notDebuggable", "other", "noFile"}, NEW result,
                 Concludes(o, result, "diagnostic", cause)
          PROVE  SiteKnown(o)'
      BY <2>3, <3>2
    <3>3. (IF size = Missing THEN "noFile" ELSE "other") \in {"other", "noFile"}
      OBVIOUS
    <3>4. CASE \E cause \in {"noDevice", "notDebuggable", "other"} : \E words \in Words(cause) :
                 Concludes(o, ReadVerdict(FALSE, "", words, 0), "diagnostic", cause)
      BY <3>2, <3>4
    <3>5. CASE \E cause \in {IF size = Missing THEN "noFile" ELSE "other"}, status \in {"1", "garbled"} :
                 \E words \in Words(cause) :
                   Concludes(o, ReadVerdict(TRUE, status, words, 0), "diagnostic", cause)
      BY <3>2, <3>3, <3>5
    <3> QED BY <2>2, <2>10, <3>1, <3>4, <3>5 DEF Cats, Codes
  <2> QED BY <1>14, <2>5, <2>8, <2>9, <2>10
<1> QED BY <1>2, <1>3, <1>4, <1>5, <1>6, <1>10, <1>11, <1>12, <1>13, <1>14 DEF OpStep

LEMMA OpStepKeeps ==
  ASSUME FiInv, NEW o \in FileOps, OpStep(o)
  PROVE  FiInv'
<1>0. /\ objects \in 0..MaxObjects /\ liveObject \in 0..objects /\ bound \in [1..MaxObjects -> Targets]
      /\ container \in [1..MaxObjects -> 0..2] /\ install \in 1..2
      /\ size \in Sizes \union {Missing} /\ dir \in {"none", "real", "link"}
      /\ relic \in Sizes \union {Missing, Gone}
      /\ \A k \in 1..MaxObjects : container[k] <= install
  BY DEF FiInv, FiTypeOK, ContainersKnown
<1>1. UNCHANGED <<objects, liveObject, bound, install>>
  BY DEF OpStep, ProbesSource, LoadsSource, ChecksToken, LocatesContainer, FindsContainer, ResolvesInside,
         ProbesSize, OpensFile, ReadsFile, WritesFile, Stages, StagesPayload, Copies, RemovesStaging, Cats,
         Pipes, fiEnv
<1>2. /\ container' \in [1..MaxObjects -> 0..2]
      /\ \A k \in 1..MaxObjects : container[k] # 0 => container'[k] = container[k]
      /\ \A k \in 1..MaxObjects : container'[k] <= install
  <2>1. CASE LocatesContainer(o)
    <3> DEFINE k == op[o].object
    <3>1. k \in 1..MaxObjects
      BY <2>1, Known DEF LocatesContainer, At
    <3>2. CASE container' = container
      BY <1>0, <3>2
    <3>3. CASE container' = [container EXCEPT ![k] = IF @ = 0 THEN install ELSE @]
      <4>1. \A h \in 1..MaxObjects :
              container'[h] = IF h = k /\ container[k] = 0 THEN install ELSE container[h]
        BY <1>0, <3>1, <3>3
      <4>2. container' \in [1..MaxObjects -> 0..2]
        BY <1>0, <3>1, <3>3
      <4> QED BY <1>0, <4>1, <4>2
    <3> QED BY <2>1, <3>2, <3>3 DEF LocatesContainer
  <2>2. CASE ~LocatesContainer(o)
    <3>1. container' = container
      BY <2>2 DEF OpStep, ProbesSource, LoadsSource, ChecksToken, FindsContainer, ResolvesInside, ProbesSize,
         OpensFile, ReadsFile, WritesFile, Stages, StagesPayload, Copies, RemovesStaging, Cats, Pipes
    <3> QED BY <1>0, <3>1
  <2> QED BY <2>1, <2>2
<1>3. /\ OpsSound' /\ size' \in Sizes \union {Missing} /\ dir' \in {"none", "real", "link"}
      /\ relic' \in Sizes \union {Missing, Gone}
      /\ relic # Gone => relic' # Gone
      /\ dir' = "link" => dir = "link"
  <2>1. CASE WritesFile(o)
    BY <2>1, WritesSound
  <2>2. CASE Copies(o)
    BY <1>0, <2>2, CopiesSound DEF Copies
  <2>3. CASE Pipes(o)
    BY <1>0, <2>3, PipesSound DEF Pipes
  <2>4. CASE ~(WritesFile(o) \/ Copies(o) \/ Pipes(o))
    <3>1. UNCHANGED <<size, dir, relic>>
      BY <2>4 DEF OpStep, ProbesSource, LoadsSource, ChecksToken, LocatesContainer, FindsContainer,
         ResolvesInside, ProbesSize, OpensFile, ReadsFile, Stages, StagesPayload, RemovesStaging, Cats, fiDisk
    <3>2. OpsSound'
      BY <2>4, LocalSourceSound, ContainerSound, ReadingSound, ReadsSound, StagingSound, CatsSound,
         EndingSound DEF OpStep
    <3> QED BY <1>0, <3>1, <3>2
  <2> QED BY <2>1, <2>2, <2>3, <2>4
<1>4. Setting
  BY <1>0, <1>1, <1>2, <1>3 DEF Setting
<1>5. \A p \in FileOps : op'[p] = op[p] \/ p = o
  BY DEF FiInv, OpsSound, OpStep, ProbesSource, LoadsSource, ChecksToken, LocatesContainer, FindsContainer,
         ResolvesInside, ProbesSize, OpensFile, ReadsFile, WritesFile, Stages, StagesPayload, Copies,
         RemovesStaging, Cats, Pipes, ToolFails, FsError, Fails, Concludes, Refused, Goes
<1>6. ASSUME NEW p \in FileOps PROVE SiteKnown(p)'
  BY <1>1, <1>3, <1>4, <1>5, SiteStays, SiteOfSteps
<1>7. ContainersKnown'
  BY <1>1, <1>2, <1>6 DEF ContainersKnown
<1> QED BY <1>0, <1>1, <1>2, <1>3, <1>7, TypesFollow

LEMMA StartsKeeps ==
  ASSUME FiInv, NEW o \in FileOps, NEW k \in 1..objects, NEW root \in {"document", "absolute", "documents"},
         NEW p \in RemotePaths,
         \/ \E cap \in {0, MaxBuffer} : StartsOp(o, k, "pull", cap, root, p, 0)
         \/ \E b \in {Missing, MaxBuffer, MaxBuffer + 1} : StartsOp(o, k, "push", MaxBuffer, root, p, b)
  PROVE  FiInv'
<1>1. OpsSound'
  <2>1. ASSUME NEW cap \in {0, MaxBuffer}, StartsOp(o, k, "pull", cap, root, p, 0)
        PROVE  OpsSound'
    BY <2>1, StartsSound
  <2>2. ASSUME NEW b \in {Missing, MaxBuffer, MaxBuffer + 1}, StartsOp(o, k, "push", MaxBuffer, root, p, b)
        PROVE  OpsSound'
    BY <2>2, StartsSound
  <2> QED BY <2>1, <2>2
<1>2. UNCHANGED <<objects, liveObject, bound, install, container, size, dir, relic>>
  BY DEF StartsOp, fiEnv, fiDisk
<1>3. Setting
  BY <1>2 DEF Setting, FiInv, FiTypeOK, ContainersKnown
<1>4. ASSUME NEW q \in FileOps PROVE SiteKnown(q)'
  <2>1. op \in [FileOps -> OpRecords]
    BY DEF FiInv, OpsSound
  <2>2. CASE q # o
    <3>1. op'[q] = op[q]
      BY <2>1, <2>2 DEF StartsOp
    <3> QED BY <1>3, <3>1, SiteStays
  <2>3. ASSUME q = o, NEW kind, NEW cap \in {0, MaxBuffer}, NEW b,
               StartsOp(o, k, kind, cap, root, p, b)
        PROVE  SiteKnown(o)'
    <3> DEFINE fresh == [FreshOp EXCEPT !.kind = kind, !.object = k]
               no    == Refusal(k, kind, cap, root, p, b)
               how   == ResolveFileTarget(bound[k])
               first == IF kind = "push" /\ b = Missing THEN "probe" ELSE FirstStep[how]
               begun == [fresh EXCEPT !.via = how, !.place = Place(root, p), !.step = first,
                                      !.holds = IF b = Missing THEN 0 ELSE b]
    <3>1. op'[o] = IF no # "none" THEN [fresh EXCEPT !.step = "ended", !.result = no] ELSE begun
      BY <2>1, <2>3 DEF StartsOp
    <3>2. /\ fresh.found = 0 /\ fresh.cause = "none" /\ fresh.touched = "nothing"
          /\ fresh.result = "none" /\ fresh.via = "none"
      BY DEF FreshOp
    <3>3. op'[o].found = 0 /\ op'[o].cause = "none" /\ op'[o].touched = "nothing"
      BY <3>1 DEF FreshOp
    <3>4. op'[o].via = "none" \/ op'[o].step = first
      BY <3>1 DEF FreshOp
    <3>5. op'[o].step = "ended" \/ no = "none"
      BY <3>1 DEF FreshOp
    <3>6. no = "none" => how \in {"simctl", "devicectl", "adb"}
      <4>1. bound[k] \in Targets
        BY SizesAreNumbers DEF FiInv, FiTypeOK
      <4>2. no = "none" => how \notin Codes
        BY SizesAreNumbers DEF Refusal, Codes
      <4> QED BY <4>1, <4>2, TargetsAndTransports DEF Codes
    <3>7. op'[o].step \in {"ended", "probe", "locate", "stage", "shell"}
      BY <3>1, <3>6 DEF FirstStep, FreshOp
    <3> QED BY <1>2, <3>3, <3>7, SiteElsewhere
  <2> QED BY <2>2, <2>3
<1>5. ContainersKnown'
  BY <1>2, <1>4 DEF ContainersKnown, FiInv
<1> QED BY <1>1, <1>2, <1>5, TypesFollow DEF FiInv, FiTypeOK

LEMMA OthersKeep ==
  ASSUME FiInv, MakesObject \/ RevokesToken \/ AppWrites \/ AppReinstalled \/ UNCHANGED fiVars
  PROVE  FiInv'
<1>0. /\ objects \in 0..MaxObjects /\ liveObject \in 0..objects /\ bound \in [1..MaxObjects -> Targets]
      /\ container \in [1..MaxObjects -> 0..2] /\ install \in 1..2
      /\ size \in Sizes \union {Missing} /\ dir \in {"none", "real", "link"} /\ objects \in Nat
      /\ relic \in Sizes \union {Missing, Gone}
      /\ \A k \in 1..MaxObjects : container[k] <= install
  BY SizesAreNumbers DEF FiInv, FiTypeOK, ContainersKnown
<1>1. /\ objects' \in 0..MaxObjects /\ liveObject' \in 0..objects' /\ objects <= objects' /\ objects' \in Nat
      /\ UNCHANGED <<op, dir, relic, bound, container>>
      /\ install' \in 1..2 /\ install <= install'
      /\ size' \in Sizes \union {Missing}
  BY <1>0, SizesAreNumbers DEF MakesObject, RevokesToken, AppWrites, AppReinstalled, fiVars, fiEnv, fiDisk
<1>2. OpsSound'
  BY <1>1, OthersMove
<1>a. \A k \in 1..MaxObjects : container'[k] <= install'
  BY <1>0, <1>1
<1>3. Setting
  BY <1>0, <1>1, <1>a DEF Setting
<1>4. ContainersKnown'
  BY <1>1, <1>3, <1>a, SiteStays DEF ContainersKnown
<1> QED BY <1>0, <1>1, <1>2, <1>4, TypesFollow

LEMMA FiStepKeeps ==
  ASSUME FiInv, FiNext \/ UNCHANGED fiVars
  PROVE  FiInv'
BY OpStepKeeps, StartsKeeps, OthersKeep DEF FiNext

LEMMA FiInitSound == FiInit => FiInv
<1> SUFFICES ASSUME FiInit PROVE FiInv
  OBVIOUS
<1>1. Sound(FreshOp, 0)
  <2>1. <<>> \in Seq(Segments) /\ ~Climbs(<<>>) /\ 0 \in 0..0 /\ 0 \in 0..MaxObjects /\ 0 \in Sizes
        /\ 0 \in 0..(MaxBuffer + 1)
    <3>1. <<>> \in Seq(Segments) /\ ~Climbs(<<>>)
      BY EmptySeq DEF Climbs
    <3> QED BY <3>1, SizesAreNumbers
  <2>2. FreshOp \in OpRecords
    BY <2>1 DEF FreshOp, OpRecords, Steps, Effects, Reasons
  <2>3. Route(FreshOp) /\ PlaceSound(FreshOp) /\ ResultSound(FreshOp)
    BY <2>1 DEF FreshOp, Route, RouteAt, PlaceSound, ResultSound
  <2> QED BY <2>1, <2>2, <2>3 DEF Sound, FreshOp
<1>2. OpsSound
  BY <1>1 DEF FiInit, OpsSound, Sound
<1>3. /\ objects \in 0..MaxObjects /\ liveObject \in 0..objects /\ bound \in [1..MaxObjects -> Targets]
      /\ container \in [1..MaxObjects -> 0..2] /\ install \in 1..2
      /\ size \in Sizes \union {Missing} /\ dir \in {"none", "real", "link"}
      /\ relic \in Sizes \union {Missing, Gone}
  BY SizesAreNumbers DEF FiInit
<1>4. ContainersKnown
  BY FreshIsRecord DEF FiInit, ContainersKnown, SiteKnown, At, Looked, Resolved
<1> QED BY <1>2, <1>3, <1>4 DEF FiInv, FiTypeOK, OpsSound, Sound, OpRecords

(* What every reachable state promises of pull and push.                     *)
LEMMA FilesAreTrue == FiInv => FilesTrue
<1> SUFFICES ASSUME FiInv, NEW o \in FileOps
             PROVE  /\ op[o].result = "ok" =>
                         /\ op[o].touched \in IF Superseded(o) THEN {"file", "relic", "noContainer"}
                                             ELSE {"file", "relic"}
                         /\ op[o].holds <= MaxBuffer
                    /\ op[o].result = "NOT_FOUND" =>
                         op[o].cause \in {"none", "noFile", "relic", "noContainer"}
                    /\ op[o].cause = "noContainer" => op[o].result = "TRANSPORT_FAILED" \/ Superseded(o)
                    /\ At(o, "ended") => op[o].staged = Missing
  BY DEF FilesTrue
<1>1. SiteKnown(o)
  BY DEF FiInv, ContainersKnown
<1> QED BY <1>1, Known DEF Sound, ResultSound, At, Served, Absence, SiteKnown

(* In the hands of its transport an operation neither ends nor loads.        *)
Elsewhere(o, q) ==
  \/ op'[o].step = op[o].step
  \/ o = q /\ op[o].step # "load" /\ op'[o].step # "ended"

LEMMA TransportsDoNotEnd ==
  ASSUME FiInv, NEW o \in FileOps, NEW q \in FileOps, OpStep(q),
         ~LoadsSource(q), ~ChecksToken(q), ~ProbesSource(q)
  PROVE  Elsewhere(o, q)
<1>1. op \in [FileOps -> OpRecords] /\ op[o] \in OpRecords /\ op[q] \in OpRecords
  BY DEF FiInv, OpsSound
<1>2. ASSUME op[q].step # "load", NEW result, NEW touched, NEW cause, Concludes(q, result, touched, cause)
      PROVE  Elsewhere(o, q)
  BY <1>1, <1>2 DEF Concludes, Elsewhere, OpRecords
<1>3. ASSUME op[q].step # "load", NEW code, NEW cause, Fails(q, code, cause)
      PROVE  Elsewhere(o, q)
  BY <1>2, <1>3 DEF Fails
<1>4. ASSUME op[q].step # "load", FsError(q)
      PROVE  Elsewhere(o, q)
  BY <1>3, <1>4 DEF FsError
<1>5. ASSUME op[q].step # "load", NEW s, s # "ended", Goes(q, s)
      PROVE  Elsewhere(o, q)
  BY <1>1, <1>5 DEF Goes, Elsewhere, OpRecords
<1>6. CASE LocatesContainer(q)
  BY <1>3, <1>5, <1>6 DEF LocatesContainer, At
<1>a. CASE FindsContainer(q)
  <2>1. CASE op' = [op EXCEPT ![q].step = "walk", ![q].found = install]
    BY <1>1, <1>a, <2>1 DEF FindsContainer, At, Elsewhere, OpRecords
  <2> QED BY <1>3, <1>a, <2>1 DEF FindsContainer, At
<1>7. CASE ResolvesInside(q)
  BY <1>3, <1>5, <1>7 DEF ResolvesInside, At
<1>8. CASE ProbesSize(q)
  BY <1>3, <1>4, <1>5, <1>8 DEF ProbesSize, At
<1>9. CASE OpensFile(q)
  <2>1. CASE op' = [op EXCEPT ![q].step = "read", ![q].holds = 0,
                              ![q].room = Lesser(Bytes(q), MaxBuffer) + 1]
    BY <1>1, <1>9, <2>1 DEF OpensFile, At, Elsewhere, OpRecords
  <2> QED BY <1>4, <1>9, <2>1 DEF OpensFile, At
<1>10. CASE ReadsFile(q)
  <2>1. ASSUME NEW room, NEW n, op' = [op EXCEPT ![q].room = room, ![q].holds = n]
        PROVE  Elsewhere(o, q)
    BY <1>1, <2>1 DEF Elsewhere, OpRecords
  <2> QED BY <1>2, <1>3, <1>10, <2>1 DEF ReadsFile, At
<1>11. CASE WritesFile(q)
  BY <1>2, <1>4, <1>11 DEF WritesFile, At
<1>12. CASE Stages(q)
  <2>1. CASE op' = [op EXCEPT ![q].staged = 0, ![q].step = IF Pulls(q) THEN "copy" ELSE "payload"]
    BY <1>1, <1>12, <2>1 DEF Stages, At, Elsewhere, OpRecords
  <2> QED BY <1>3, <1>12, <2>1 DEF Stages, At
<1>13. CASE StagesPayload(q)
  <2>1. CASE op' = [op EXCEPT ![q].staged = op[q].holds, ![q].step = "copy"]
    BY <1>1, <1>13, <2>1 DEF StagesPayload, At, Elsewhere, OpRecords
  <2> QED BY <1>3, <1>13, <2>1 DEF StagesPayload, At
<1>14. CASE Copies(q)
  <2>1. CASE op' = [op EXCEPT ![q].staged = size, ![q].step = "size"]
    BY <1>1, <1>14, <2>1 DEF Copies, At, Elsewhere, OpRecords
  <2> QED BY <1>2, <1>3, <1>14, <2>1 DEF Copies, ToolFails, At
<1>15. CASE RemovesStaging(q)
  BY <1>1, <1>15 DEF RemovesStaging, At, Elsewhere, OpRecords
<1>16. CASE Cats(q)
  <2>1. ASSUME op' = [op EXCEPT ![q].step = "check", ![q].place = <<>>, ![q].holds = size,
                                ![q].result = ReadVerdict(TRUE, "0", {}, size), ![q].touched = Reached(q)]
        PROVE  Elsewhere(o, q)
    BY <1>1, <1>16, <2>1 DEF Cats, At, Elsewhere, OpRecords
  <2> QED BY <1>2, <1>3, <1>16, <2>1 DEF Cats, At
<1>17. CASE Pipes(q)
  BY <1>2, <1>3, <1>17 DEF Pipes, ToolFails, At
<1> QED BY <1>6, <1>a, <1>7, <1>8, <1>9, <1>10, <1>11, <1>12, <1>13, <1>14, <1>15, <1>16, <1>17 DEF OpStep

(* So LoadsSource and ChecksToken are where the token has to be looked at.   *)
LEMMA EndsAreChecked ==
  ASSUME FiInv, FiNext \/ UNCHANGED fiVars
  PROVE  \A o \in FileOps :
           /\ At(o, "load") /\ op'[o].step \in {"locate", "stage", "shell"} => Live(o)
           /\ ~At(o, "ended") /\ op'[o].step = "ended" /\ op'[o].result = "ok" => Live(o)
<1> SUFFICES ASSUME NEW o \in FileOps
             PROVE  /\ At(o, "load") /\ op'[o].step \in {"locate", "stage", "shell"} => Live(o)
                    /\ ~At(o, "ended") /\ op'[o].step = "ended" /\ op'[o].result = "ok" => Live(o)
  OBVIOUS
<1> DEFINE Goal == /\ At(o, "load") /\ op'[o].step \in {"locate", "stage", "shell"} => Live(o)
                   /\ ~At(o, "ended") /\ op'[o].step = "ended" /\ op'[o].result = "ok" => Live(o)
<1>0. op \in [FileOps -> OpRecords] /\ op[o] \in OpRecords
  BY DEF FiInv, OpsSound
<1>1. CASE op'[o].step = op[o].step
  BY <1>1 DEF At
<1>2. ASSUME NEW q \in FileOps, NEW code \in Codes, Refused(q, code)
      PROVE  Goal
  BY <1>0, <1>2 DEF Refused, OpRecords, Codes, At
<1>3. ASSUME NEW q \in FileOps, ProbesSource(q)
      PROVE  Goal
  <2>1. CASE Goes(q, "load")
    BY <1>0, <2>1 DEF Goes, At, OpRecords
  <2> QED BY <1>2, <1>3, <2>1 DEF ProbesSource, Codes
<1>4. ASSUME NEW q \in FileOps, LoadsSource(q)
      PROVE  Goal
  <2>1. ASSUME Live(q), NEW bytes \in 0..MaxBuffer,
               op' = [op EXCEPT ![q].step = FirstStep[op[q].via], ![q].holds = bytes]
        PROVE  Goal
    <3>1. CASE o = q
      BY <2>1, <3>1
    <3>2. CASE o # q
      <4>1. op'[o] = op[o]
        BY <1>0, <2>1, <3>2
      <4> QED BY <1>1, <4>1
    <3> QED BY <3>1, <3>2
  <2> QED BY <1>2, <1>4, <2>1 DEF LoadsSource, Codes
<1>5. ASSUME NEW q \in FileOps, ChecksToken(q)
      PROVE  Goal
  BY <1>0, <1>5 DEF ChecksToken, At, Live, OpRecords
<1>6. ASSUME NEW q \in FileOps, OpStep(q)
      PROVE  Goal
  <2>1. CASE Elsewhere(o, q)
    BY <1>1, <2>1 DEF Elsewhere, At
  <2> QED BY <1>3, <1>4, <1>5, <1>6, <2>1, TransportsDoNotEnd
<1>7. ASSUME NEW q \in FileOps, NEW k, NEW kind, NEW cap, NEW root, NEW p, NEW b,
             StartsOp(q, k, kind, cap, root, p, b)
      PROVE  Goal
  <2> DEFINE fresh == [FreshOp EXCEPT !.kind = kind, !.object = k]
             no    == Refusal(k, kind, cap, root, p, b)
             how   == ResolveFileTarget(bound[k])
             first == IF kind = "push" /\ b = Missing THEN "probe" ELSE FirstStep[how]
             begun == [fresh EXCEPT !.via = how, !.place = Place(root, p), !.step = first,
                                    !.holds = IF b = Missing THEN 0 ELSE b]
  <2>1. CASE o # q
    BY <1>0, <1>1, <1>7, <2>1 DEF StartsOp
  <2>2. op'[q] = (IF no # "none" THEN [fresh EXCEPT !.step = "ended", !.result = no] ELSE begun)
        /\ ~At(q, "load")
    BY <1>0, <1>7 DEF StartsOp, At
  <2>3. no \in Codes \union {"none"} /\ (no # "none" => no # "ok") 
    BY DEF Refusal, Codes
  <2>4. begun.result = "none" /\ [fresh EXCEPT !.step = "ended", !.result = no].result = no
    BY DEF FreshOp
  <2> HIDE DEF begun, no, fresh
  <2>5. CASE o = q
    BY <2>2, <2>3, <2>4, <2>5
  <2> QED BY <2>1, <2>5
<1>8. CASE MakesObject \/ RevokesToken \/ AppWrites \/ AppReinstalled \/ UNCHANGED fiVars
  BY <1>1, <1>8 DEF MakesObject, RevokesToken, AppWrites, AppReinstalled, fiVars
<1> QED BY <1>6, <1>7, <1>8 DEF FiNext

(* Wherever an operation is and whatever changes meanwhile, what is kept of  *)
(* it is what the code can have there (device-files.ts, transports/).        *)
THEOREM FilesInductive == FiSpec => []FiInv
BY FiInitSound, FiStepKeeps, PTL DEF FiSpec

(* What pull returns is the file of the app, all of it and no more than      *)
(* maxBuffer; what push says is written is written inside the container;     *)
(* NOT_FOUND is said of the file only; and no staging directory outlives its *)
(* operation. For any paths, targets and sizes, whatever the app writes and  *)
(* whenever it is installed anew (roots.ts, host-fs.ts, transports/).        *)
THEOREM FilesToldTrue == FiSpec => [](FiTypeOK /\ FilesTrue)
<1>1. FiInv => FiTypeOK /\ FilesTrue
  BY FilesAreTrue DEF FiInv
<1> QED BY <1>1, FilesInductive, PTL

(* A behaviour of the device as it is model-checked is one of each part, so  *)
(* that what is proved of a part holds of it.                                *)
THEOREM DeviceIsItsParts == DeviceSpec => Spec /\ FiSpec /\ AnInit /\ [][AnNext]_androidVars
<1>1. DeviceInit => Init /\ FiInit /\ AnInit
  BY DEF DeviceInit
<1>2. [DeviceNext]_<<part, vars, fiVars, androidVars>> =>
        [Next]_vars /\ [FiNext]_fiVars /\ [AnNext]_androidVars
  BY DEF DeviceNext
<1> QED BY <1>1, <1>2, PTL DEF DeviceSpec, Spec, FiSpec

(* A transport is asked to write only with the connection up that the caller *)
(* uses, and no operation succeeds after it ended (device-files.ts:140-175). *)
THEOREM TokenIsChecked == DeviceSpec => FilesNeedConnection
<1>1. FiInv /\ [FiNext]_fiVars =>
        [\A o \in FileOps :
           /\ At(o, "load") /\ op'[o].step \in {"locate", "stage", "shell"} => Live(o)
           /\ ~At(o, "ended") /\ op'[o].step = "ended" /\ op'[o].result = "ok" => Live(o)]_fiVars
  BY EndsAreChecked
<1>2. FiSpec => FilesNeedConnection
  BY <1>1, FilesInductive, PTL DEF FiSpec, FilesNeedConnection
<1> QED BY <1>2, DeviceIsItsParts, PTL

-----------------------------------------------------------------------------
(* AndroidTouch: touches on Android.                                         *)

(* In the stream of events s a request n did just these, in this order.      *)
SawIn(s, n, events) ==
  \E at \in [DOMAIN events -> DOMAIN s] :
    /\ \A i, j \in DOMAIN events : i < j => at[i] < at[j]
    /\ \A i \in DOMAIN events : s[at[i]] = events[i]
    /\ \A k \in DOMAIN s : s[k].by = n => \E i \in DOMAIN events : k = at[i]

(* The least and the greatest of a set of places.                            *)
LEMMA MinAndMax ==
  ASSUME NEW n \in Nat, NEW I \in SUBSET (1..n), I # {}
  PROVE  /\ Min(I) \in I /\ \A j \in I : Min(I) <= j
         /\ Max(I) \in I /\ \A j \in I : j <= Max(I)
<1>1. IsFiniteSet(1..n) /\ \A j \in I : j \in Nat
  BY FS_Interval
<1>2. IsFiniteSet(I) /\ Cardinality(I) \in Nat /\ Cardinality(I) # 0
  BY <1>1, FS_Subset, FS_CardinalityType, FS_EmptySet
<1>3. PICK first \in I : Rank(I, first) = 1
  BY <1>2, RanksAreTaken
<1>a. 1 \in 1..Cardinality(I) /\ Cardinality(I) \in 1..Cardinality(I)
  BY <1>2
<1>4. PICK last \in I : Rank(I, last) = Cardinality(I)
  BY <1>a, RanksAreTaken
<1>5. \A j \in I : first <= j
  <2> SUFFICES ASSUME NEW j \in I, j < first PROVE FALSE
    BY <1>1
  <2> DEFINE T == {h \in I : h <= first}
  <2>1. IsFiniteSet(T) /\ j \in T /\ first \in T /\ j # first
    <3>1. T \in SUBSET I /\ j <= first /\ first <= first /\ j # first
      BY <1>1
    <3> QED BY <1>2, <3>1, FS_Subset
  <2>2. {first} \subseteq T /\ IsFiniteSet({first}) /\ Cardinality({first}) = 1 /\ {first} # T
    BY <2>1, FS_Singleton
  <2>3. Cardinality({first}) # Cardinality(T)
    BY <2>1, <2>2, FS_Subset
  <2> QED BY <1>3, <2>2, <2>3 DEF Rank
<1>6. \A j \in I : j <= last
  <2> DEFINE T == {h \in I : h <= last}
  <2>1. T \in SUBSET I /\ Cardinality(T) = Cardinality(I)
    BY <1>4 DEF Rank
  <2>2. T = I
    BY <1>2, <2>1, FS_Subset
  <2> QED BY <2>2
<1>7. \E x \in I : \A y \in I : x <= y
  BY <1>5
<1>8. \E x \in I : \A y \in I : x >= y
  BY <1>1, <1>6
<1>9. Min(I) \in I /\ \A j \in I : Min(I) <= j
  BY <1>7 DEF Min
<1>10. Max(I) \in I /\ \A j \in I : Max(I) >= j
  BY <1>8 DEF Max
<1> QED BY <1>1, <1>9, <1>10

-----------------------------------------------------------------------------
(* One more event was injected.                                              *)
LEMMA SawOneMore ==
  ASSUME NEW s \in Seq(Touches), NEW e \in Touches, NEW n, NEW events \in Seq(Touches),
         SawIn(s, n, events)
  PROVE  SawIn(Append(s, e), n, IF e.by = n THEN Append(events, e) ELSE events)
<1> DEFINE t == Append(s, e)
           last == Len(s) + 1
           more == Append(events, e)
<1>1. /\ Len(s) \in Nat /\ DOMAIN s = 1..Len(s) /\ DOMAIN t = 1..last
      /\ \A k \in 1..Len(s) : t[k] = s[k]
      /\ t[last] = e
  <2>1. t \in Seq(Touches) /\ Len(t) = last
    BY AppendProperties
  <2> QED BY <2>1, AppendProperties, LenProperties
<1>2. /\ Len(events) \in Nat /\ DOMAIN events = 1..Len(events) /\ DOMAIN more = 1..(Len(events) + 1)
      /\ \A i \in 1..Len(events) : more[i] = events[i]
      /\ more[Len(events) + 1] = e
  <2>1. more \in Seq(Touches) /\ Len(more) = Len(events) + 1
    BY AppendProperties
  <2> QED BY <2>1, AppendProperties, LenProperties
<1> HIDE DEF t, more
<1>3. PICK at \in [DOMAIN events -> DOMAIN s] :
        /\ \A i, j \in DOMAIN events : i < j => at[i] < at[j]
        /\ \A i \in DOMAIN events : s[at[i]] = events[i]
        /\ \A k \in DOMAIN s : s[k].by = n => \E i \in DOMAIN events : k = at[i]
  BY DEF SawIn
<1>4. CASE e.by # n
  <2>1. at \in [DOMAIN events -> DOMAIN t]
    BY <1>1, <1>3
  <2>2. \A i \in DOMAIN events : t[at[i]] = events[i]
    BY <1>1, <1>3
  <2>3. \A k \in DOMAIN t : t[k].by = n => \E i \in DOMAIN events : k = at[i]
    BY <1>1, <1>3, <1>4
  <2> QED BY <1>3, <1>4, <2>1, <2>2, <2>3 DEF SawIn, t
<1>5. CASE e.by = n
  <2> DEFINE to == [i \in DOMAIN more |-> IF i <= Len(events) THEN at[i] ELSE last]
  <2>1. to \in [DOMAIN more -> DOMAIN t]
    BY <1>1, <1>2, <1>3
  <2>2. \A i, j \in DOMAIN more : i < j => to[i] < to[j]
    BY <1>1, <1>2, <1>3
  <2>3. \A i \in DOMAIN more : t[to[i]] = more[i]
    BY <1>1, <1>2, <1>3
  <2>4. \A k \in DOMAIN t : t[k].by = n => \E i \in DOMAIN more : k = to[i]
    <3> SUFFICES ASSUME NEW k \in DOMAIN t, t[k].by = n PROVE \E i \in DOMAIN more : k = to[i]
      OBVIOUS
    <3>1. CASE k = last
      <4>1. Len(events) + 1 \in DOMAIN more /\ to[Len(events) + 1] = last
        BY <1>2
      <4> QED BY <3>1, <4>1
    <3>2. CASE k # last
      <4>1. k \in DOMAIN s /\ s[k].by = n
        BY <1>1, <3>2
      <4>2. PICK i \in DOMAIN events : k = at[i]
        BY <1>3, <4>1
      <4>3. i \in DOMAIN more /\ to[i] = at[i]
        BY <1>2
      <4> QED BY <4>2, <4>3
    <3> QED BY <3>1, <3>2
  <2> HIDE DEF to
  <2>5. SawIn(t, n, more)
    BY <2>1, <2>2, <2>3, <2>4 DEF SawIn
  <2> QED BY <1>5, <2>5 DEF t, more
<1> QED BY <1>4, <1>5

(* A request that is not in the stream did nothing yet.                      *)
LEMMA SawNothing ==
  ASSUME NEW s, NEW n, \A k \in DOMAIN s : s[k].by # n
  PROVE  SawIn(s, n, <<>>)
<1>1. DOMAIN <<>> = {} /\ <<>> \in [{} -> DOMAIN s]
  OBVIOUS
<1> QED BY <1>1 DEF SawIn

(* What a short sequence of events is.                                       *)
LEMMA Scripts ==
  \A a, b, c :
    /\ Head(<<a>>) = a /\ Tail(<<a>>) = <<>> /\ Head(<<a, b>>) = a /\ Tail(<<a, b>>) = <<b>>
    /\ Head(<<a, b, c>>) = a /\ Tail(<<a, b, c>>) = <<b, c>> /\ Append(<<>>, a) = <<a>>
    /\ <<a>> # <<>> /\ <<a, b>> # <<>> /\ <<a, b, c>> # <<>>
OBVIOUS

(* Sequences of up to three events, made by appending.                       *)
LEMMA Longer ==
  ASSUME NEW S, NEW a \in S, NEW b \in S, NEW c \in S
  PROVE  Append(<<a>>, b) = <<a, b>> /\ Append(<<a, b>>, c) = <<a, b, c>>
<1>2. ASSUME NEW s \in Seq(S), NEW t \in Seq(S), NEW e \in S,
             Len(t) = Len(s) + 1, \A i \in 1..Len(s) : t[i] = s[i], t[Len(s) + 1] = e
      PROVE  Append(s, e) = t
  <2>1. /\ Append(s, e) \in Seq(S) /\ Len(Append(s, e)) = Len(s) + 1 /\ Len(s) \in Nat
        /\ \A i \in 1..Len(s) : Append(s, e)[i] = s[i]
        /\ Append(s, e)[Len(s) + 1] = e
    BY AppendProperties, LenProperties
  <2>2. \A i \in 1..(Len(s) + 1) : Append(s, e)[i] = t[i]
    BY <1>2, <2>1
  <2> QED BY <1>2, <2>1, <2>2, SeqEqual
<1>3. Append(<<a>>, b) = <<a, b>>
  <2> DEFINE s == <<a>>
             t == <<a, b>>
  <2>1. s \in Seq(S) /\ t \in Seq(S) /\ Len(s) = 1 /\ Len(t) = 2 /\ t[1] = s[1] /\ t[2] = b
    OBVIOUS
  <2> HIDE DEF s, t
  <2>2. Len(t) = Len(s) + 1 /\ t[Len(s) + 1] = b /\ \A i \in 1..Len(s) : t[i] = s[i]
    BY <2>1
  <2>3. Append(s, b) = t
    BY <1>2, <2>1, <2>2
  <2> QED BY <2>3 DEF s, t
<1>4. Append(<<a, b>>, c) = <<a, b, c>>
  <2> DEFINE s == <<a, b>>
             t == <<a, b, c>>
  <2>1. s \in Seq(S) /\ t \in Seq(S) /\ Len(s) = 2 /\ Len(t) = 3 /\ t[1] = s[1] /\ t[2] = s[2] /\ t[3] = c
    OBVIOUS
  <2> HIDE DEF s, t
  <2>2. Len(t) = Len(s) + 1 /\ t[Len(s) + 1] = c /\ \A i \in 1..Len(s) : t[i] = s[i]
    BY <2>1
  <2>3. Append(s, c) = t
    BY <1>2, <2>1, <2>2
  <2> QED BY <2>3 DEF s, t
<1> QED BY <1>3, <1>4

(* Two events at once, and three, are one after the other.                   *)
LEMMA OneByOne ==
  ASSUME NEW s \in Seq(Touches), NEW a \in Touches, NEW b \in Touches, NEW c \in Touches
  PROVE  /\ s \o <<a>> = Append(s, a)
         /\ s \o <<a, b>> = Append(Append(s, a), b)
         /\ s \o <<a, b, c>> = Append(Append(Append(s, a), b), c)
<1>1. <<a>> \in Seq(Touches) /\ <<b>> \in Seq(Touches) /\ <<c>> \in Seq(Touches)
      /\ <<a, b>> \in Seq(Touches)
  OBVIOUS
<1>2. Append(s, a) \in Seq(Touches) /\ Append(Append(s, a), b) \in Seq(Touches)
  BY AppendProperties
<1>3. Append(s, a) = s \o <<a>> /\ Append(Append(s, a), b) = Append(s, a) \o <<b>>
      /\ Append(Append(Append(s, a), b), c) = Append(Append(s, a), b) \o <<c>>
  BY <1>2, AppendIsConcat
<1>4. <<a, b>> = <<a>> \o <<b>>
  <2>1. Append(<<a>>, b) = <<a, b>>
    BY Longer, Zenon
  <2>2. Append(<<a>>, b) = <<a>> \o <<b>>
    BY <1>1, AppendIsConcat
  <2> QED BY <2>1, <2>2
<1>5. <<a, b, c>> = <<a, b>> \o <<c>>
  <2>1. Append(<<a, b>>, c) = <<a, b, c>>
    BY Longer, Zenon
  <2>2. Append(<<a, b>>, c) = <<a, b>> \o <<c>>
    BY <1>1, AppendIsConcat
  <2> QED BY <2>1, <2>2
<1>6. s \o (<<a>> \o <<b>>) = (s \o <<a>>) \o <<b>>
  BY <1>1, ConcatAssociative
<1>7. s \o (<<a, b>> \o <<c>>) = (s \o <<a, b>>) \o <<c>>
  BY <1>1, ConcatAssociative
<1> QED BY <1>3, <1>4, <1>5, <1>6, <1>7

(* A connection is accepted: the others are those behind it.                 *)
LEMMA FirstIsRemoved ==
  ASSUME NEW S, NEW s \in Seq(S), s # <<>>
  PROVE  /\ RemoveAt(s, 1) \in Seq(S) /\ Len(RemoveAt(s, 1)) = Len(s) - 1
         /\ \A i \in DOMAIN RemoveAt(s, 1) : i + 1 \in DOMAIN s /\ RemoveAt(s, 1)[i] = s[i + 1]
<1>1. SubSeq(s, 1, 0) = <<>>
  BY SubSeqEmpty
<1>2. Tail(s) \in Seq(S) /\ SubSeq(s, 1 + 1, Len(s)) = Tail(s)
  BY TailIsSubSeq, HeadTailProperties
<1>3. RemoveAt(s, 1) = Tail(s)
  BY <1>1, <1>2, ConcatEmptySeq DEF RemoveAt
<1> QED BY <1>2, <1>3, HeadTailProperties, LenProperties

(* The commands of a touch, the stages a session goes through, and what a    *)
(* request can be.                                                           *)
Commands == {"tap", "swipe", "down", "move", "up"}
SessionStages == {"none", "trying", "ready", "failed", "closed"}

AskRecords ==
  [of : Sessions \union {NoAsk}, kind : Commands \union {"hello", "none"},
   at : {NoAsk} \union Asks, promise : {"unsent", "waiting", "resolved", "rejected"},
   reply : {"none", "ok", "error"}]

Ok(n)       == asks[n].reply = "ok"
OverHttp(n) == asks[n].kind = "hello" \/ Backend(asks[n].of) = "instrumentation"

(* The types, with what the numbers in them are bounded by: the requests     *)
(* made so far.                                                              *)
AnTyped ==
  /\ touchConfig \in TouchConfigs /\ authorized \in BOOLEAN /\ oldSdk \in BOOLEAN
  /\ sessions \in [Sessions -> [stage : SessionStages, tried : SUBSET (DOMAIN Order)]]
  /\ asks \in [Asks -> AskRecords] /\ askCount \in 0..MaxAsks
  /\ known \in [Sessions -> SUBSET {"sdk", "density"}]
  /\ lastPoint \in [Sessions -> {NoAsk} \union Asks]
  /\ running \subseteq 1..askCount
  /\ serving \in BOOLEAN
  /\ backlog \in Seq(Asks) /\ (\A i \in DOMAIN backlog : backlog[i] <= askCount)
  /\ cut \subseteq ToSet(backlog)
  /\ handling \in [ask : {NoAsk} \union Asks, todo : Seq(Touches)]
  /\ activeDown \in BOOLEAN /\ lastXY \in {NoAsk} \union Asks
  /\ stream \in Seq(Touches)

(* Requests and the session they are of.                                     *)
AskedOf(n) ==
  /\ asks[n].of \in Sessions /\ asks[n].kind \in Commands \union {"hello"}
  /\ asks[n].promise # "unsent"
  /\ asks[n].kind # "hello" =>
       /\ sessions[asks[n].of].stage \in {"ready", "closed"}
       /\ Backend(asks[n].of) \in {"instrumentation", "cli"}
  /\ asks[n].promise = "waiting" =>
       /\ n = askCount
       /\ IF asks[n].kind = "hello"
          THEN sessions[asks[n].of].stage = "trying" /\ Backend(asks[n].of) = "instrumentation"
          ELSE sessions[asks[n].of].stage = "ready"
  /\ Ok(n) => asks[n].promise \in {"waiting", "resolved"}
  /\ asks[n].promise = "resolved" => Ok(n)

(* Requests are numbered as they are made. Those not made yet are blank, and *)
(* only the latest can have somebody waiting for it.                         *)
Asked ==
  /\ \A n \in Asks : n > askCount => asks[n] = Unasked
  /\ \A n \in 1..askCount : AskedOf(n)

(* One session is being made or in use at a time.                            *)
OneActive ==
  \A b, c \in Sessions : b < c /\ sessions[c].stage # "none" => sessions[b].stage \in {"failed", "closed"}

(* The places tried are the first usable ones; and the hello of a session is *)
(* what decides about its instrumentation backend.                           *)
SelectedOf(b) ==
  LET s == sessions[b] IN
  /\ s.stage = "none" => s.tried = {}
  /\ s.stage \in {"trying", "ready", "closed"} => s.tried # {}
  /\ \A i \in s.tried : Usable(Order[i])
  /\ \A i \in DOMAIN Order :
       Usable(Order[i]) /\ (s.stage = "failed" \/ \E j \in s.tried : i < j) => i \in s.tried
  /\ s.stage = "trying" /\ Backend(b) = "instrumentation" =>
       askCount > 0 /\ asks[askCount].of = b /\ asks[askCount].kind = "hello"
  /\ \A n \in Asks : asks[n].of = b /\ asks[n].kind = "hello" /\ asks[n].promise = "resolved" =>
       /\ s.stage \in {"trying", "ready", "closed"} /\ Backend(b) = "instrumentation"
       /\ s.stage = "trying" => n = askCount
  /\ s.stage = "ready" /\ Backend(b) = "instrumentation" =>
       \E n \in Asks : asks[n].of = b /\ asks[n].kind = "hello" /\ asks[n].promise = "resolved"

Selected == OneActive /\ \A b \in Sessions : SelectedOf(b)

(* The companion takes the requests in the order they were made, whether or  *)
(* not anybody still waits for them, and so whatever it answered is behind   *)
(* it. A process of adb has not injected anything yet.                       *)
QueuedAt(i) ==
  /\ OverHttp(backlog[i]) /\ handling.ask < backlog[i]
  /\ \A j \in DOMAIN backlog : i < j => backlog[i] < backlog[j]

Behind(n) ==
  /\ \A i \in DOMAIN backlog : n < backlog[i]
  /\ handling # NoWork => n < handling.ask

Queued ==
  /\ \A i \in DOMAIN backlog : QueuedAt(i)
  /\ \A n \in running :
       /\ ~OverHttp(n) /\ asks[n].at \in Asks /\ (asks[n].kind # "up" => asks[n].at = n)
  /\ ~serving => backlog = <<>> /\ handling = NoWork
  /\ handling # NoWork =>
       /\ handling.ask \in 1..askCount /\ OverHttp(handling.ask)
       /\ asks[handling.ask].kind # "hello" /\ handling.todo # <<>>
  /\ \A n \in 1..askCount : Ok(n) => n \notin running /\ (OverHttp(n) => Behind(n))
  /\ activeDown => lastXY \in Asks

(* An event of a request after one of a later request is a stray.            *)
Strays(n, u) == asks[n].promise = "rejected" /\ ~(OverHttp(n) /\ OverHttp(u))

InjectedAt(k) ==
  LET n == stream[k].by IN
  /\ n \in 1..askCount /\ n \notin running /\ asks[n].kind # "hello"
  /\ OverHttp(n) => /\ \A i \in DOMAIN backlog : n < backlog[i]
                    /\ handling # NoWork => n <= handling.ask

Ordered ==
  /\ \A k \in DOMAIN stream : InjectedAt(k)
  /\ \A k, l \in DOMAIN stream :
       k < l /\ stream[l].by < stream[k].by => Strays(stream[l].by, stream[k].by)

(* How far the companion is with the command it performs.                    *)
Rest(n, done, todo) == handling.todo = todo /\ SawIn(stream, n, done)

PerformingOf(n) ==
  LET kind == asks[n].kind
      down == Touch("down", n, n)
      move == Touch("move", n, n)
      up   == Touch("up", n, n)
  IN
  /\ kind = "tap" => Rest(n, <<>>, <<down, up>>) \/ Rest(n, <<down>>, <<up>>)
  /\ kind = "swipe" => \/ Rest(n, <<>>, <<down, move, up>>) \/ Rest(n, <<down>>, <<move, up>>)
                       \/ Rest(n, <<down, move>>, <<up>>)
  /\ kind = "down" => Rest(n, <<>>, <<down>>) /\ activeDown /\ lastXY = n
  /\ kind = "move" => Rest(n, <<>>, <<move>>) /\ activeDown /\ lastXY = n
  /\ kind = "up" => \E at \in Asks : Rest(n, <<>>, <<Touch("up", n, at)>>)

Performing == handling # NoWork => PerformingOf(handling.ask)

(* What was answered with ok is done.                                        *)
Performed ==
  \A n \in 1..askCount : Ok(n) =>
    /\ asks[n].kind \in {"tap", "swipe"} => SawIn(stream, n, Stroke(asks[n].kind, n))
    /\ asks[n].kind = "down" => SawIn(stream, n, <<Touch("down", n, n)>>)

(* A drag of requests a is done up to n.                                     *)
Chain(a, d, n) ==
  /\ a[d].kind = "down"
  /\ \A m \in (d + 1)..n : a[m].kind = "move"
  /\ \A m \in d..n : a[m].of = a[n].of /\ a[m].reply = "ok"

Held(a, n) == \E d \in 1..n : Chain(a, d, n)

Lifts(n) == n + 1 <= askCount /\ asks[n + 1].kind = "up" /\ asks[n + 1].of = asks[n].of /\ Held(asks, n)

(* While a drag goes on the finger is down where it was moved to last, on    *)
(* the device and in what companion or backend keep of it.                   *)
LatestIs(n) == askCount = n \/ (askCount = n + 1 /\ n + 1 \in ToSet(backlog))

DraggingAt(n) ==
  /\ Held(asks, n) => SawIn(stream, n, <<Touch(asks[n].kind, n, n)>>)
  /\ Lifts(n) /\ Ok(n + 1) => SawIn(stream, n + 1, <<Touch("up", n + 1, n)>>)
  /\ Held(asks, n) /\ OverHttp(n) /\ serving /\ LatestIs(n) => activeDown /\ lastXY = n
  /\ Lifts(n) /\ asks[n + 1].promise = "waiting" /\ handling.ask = n + 1 =>
       handling.todo = <<Touch("up", n + 1, n)>>
  /\ Held(asks, n) /\ ~OverHttp(n) /\ askCount = n /\ asks[n].promise = "resolved" =>
       lastPoint[asks[n].of] = n
  /\ Lifts(n) /\ ~OverHttp(n) /\ asks[n + 1].promise # "rejected" => asks[n + 1].at = n

Dragging == \A n \in 1..askCount : DraggingAt(n)

AnInv == AnTyped /\ Asked /\ Selected /\ Queued /\ Ordered /\ Performing /\ Performed /\ Dragging

-----------------------------------------------------------------------------
(* The numbers of sessions and requests are positive.                        *)
LEMMA AndroidNumbers ==
  /\ MaxSessions \in Nat /\ MaxAsks \in Nat /\ MaxSessions > 0 /\ MaxAsks > 0
  /\ Sessions = 1..MaxSessions /\ Asks = 1..MaxAsks /\ NoAsk = 0
  /\ NoAsk \notin Asks /\ NoAsk \notin Sessions
  /\ \A n \in Asks : n \in Nat /\ n > 0
BY AndroidBounds DEF Sessions, Asks, NoAsk

(* The order is a sequence of kinds, and stays as it is.                     *)
LEMMA OrderIsSequence ==
  ASSUME touchConfig \in TouchConfigs
  PROVE  Order \in Seq(Types) /\ DOMAIN Order = 1..Len(Order) /\ Len(Order) \in Nat
<1>1. touchConfig \in [mode : {"auto", "force"}, backend : Types \union {"unset"},
                       order : Seq(Types), enabled : SUBSET Types]
  BY TouchConfigsAssumption
<1>2. DefaultOrder \in Seq(Types) /\ DefaultOrder[1] \in Types
  <2>1. "instrumentation" \in Types
    BY DEF Types
  <2> QED BY <2>1 DEF DefaultOrder
<1>3. CASE touchConfig.mode = "force"
  <2> DEFINE t == IF touchConfig.backend = "unset" THEN DefaultOrder[1] ELSE touchConfig.backend
  <2>1. t \in Types
    BY <1>1, <1>2
  <2>2. Order = <<t>>
    BY <1>3 DEF Order
  <2> HIDE DEF t
  <2> QED BY <2>1, <2>2
<1>4. CASE touchConfig.mode # "force"
  <2>1. Order \in Seq(Types)
    BY <1>1, <1>2, <1>4 DEF Order
  <2> QED BY <2>1, LenProperties
<1> QED BY <1>3, <1>4

(* Which backends are tried, and in which order, is settled by the           *)
(* configuration.                                                            *)
LEMMA OrderStays ==
  ASSUME touchConfig' = touchConfig
  PROVE  Order' = Order /\ \A t : Usable(t)' <=> Usable(t)
BY DEF Order, DefaultOrder, Usable, IsBackendSupportedOnPlatform, IsBackendEnabled

(* A session that tries nothing more keeps its backend.                      *)
LEMMA BackendStays ==
  ASSUME touchConfig' = touchConfig, NEW b, sessions'[b].tried = sessions[b].tried
  PROVE  Backend(b)' = Backend(b)
BY OrderStays DEF Backend

-----------------------------------------------------------------------------
(* Whatever happens, a request stays what it is, and one that has settled    *)
(* stays settled.                                                            *)
Settled(r) ==
  /\ r.promise # "unsent" /\ (r.reply = "ok" => r.promise # "rejected")
  /\ r.promise = "resolved" => r.reply = "ok"

Continues ==
  /\ touchConfig' = touchConfig
  /\ askCount \in 0..MaxAsks /\ askCount' \in {askCount, askCount + 1}
  /\ asks' \in [Asks -> AskRecords]
  /\ \A n \in 1..askCount :
       /\ n \in Asks
       /\ asks'[n].of = asks[n].of /\ asks'[n].kind = asks[n].kind /\ asks'[n].at = asks[n].at
       /\ OverHttp(n)' <=> OverHttp(n)
       /\ asks[n].promise # "waiting" => asks'[n] = asks[n]
       /\ n # askCount => asks'[n] = asks[n] /\ asks[n].promise # "waiting"
  /\ \A n \in Asks : asks'[n] # asks[n] => n = askCount' /\ Settled(asks'[n])
  /\ askCount' = askCount + 1 =>
       /\ askCount + 1 \in Asks /\ asks'[askCount + 1].reply = "none"
       /\ \A n \in 1..askCount : asks'[n] = asks[n]

(* What a step does to the requests.                                         *)
Changes(n, promise, reply) ==
  /\ n \in Asks /\ asks[n].promise = "waiting" /\ askCount' = askCount
  /\ (reply = "ok" => promise # "rejected") /\ (promise = "resolved" => reply = "ok")
  /\ asks' = [asks EXCEPT ![n].promise = promise, ![n].reply = reply]

AsksMove ==
  \/ UNCHANGED <<asks, askCount>>
  \/ \E b \in Sessions, kind \in Commands \union {"hello"}, at \in {NoAsk} \union Asks,
        promise \in {"waiting", "rejected"} : NewAsk(b, kind, at, promise)
  \/ \E n \in Asks, promise \in {"waiting", "resolved", "rejected"}, reply \in {"none", "ok", "error"} :
       Changes(n, promise, reply)

(* A session is changed only while it is none of a command.                  *)
SessionsMove ==
  \A b \in Sessions :
    sessions[b].stage \in {"ready", "closed"} =>
      sessions'[b].tried = sessions[b].tried /\ sessions'[b].stage \in {"ready", "closed"}

(* The request somebody waits for is the latest.                             *)
LEMMA WaitingIsAsked ==
  ASSUME AnTyped, Asked, NEW n \in Asks, asks[n].promise = "waiting"
  PROVE  n = askCount /\ n \in 1..askCount
<1>1. ~(n > askCount)
  BY DEF Asked, Unasked
<1>2. n \in 1..askCount
  BY <1>1, AndroidNumbers DEF AnTyped
<1> QED BY <1>2 DEF Asked, AskedOf

(* Steps in which requests and sessions move on continue what they were.     *)
LEMMA MovesContinue ==
  ASSUME AnTyped, Asked, touchConfig' = touchConfig, AsksMove, SessionsMove
  PROVE  Continues
<1>1. /\ asks \in [Asks -> AskRecords] /\ askCount \in 0..MaxAsks /\ askCount \in Nat
      /\ \A n \in 1..askCount : n \in Asks /\ asks[n] \in AskRecords
  BY AndroidNumbers DEF AnTyped
<1>2. ASSUME NEW n \in 1..askCount, asks'[n].of = asks[n].of, asks'[n].kind = asks[n].kind
      PROVE  OverHttp(n)' <=> OverHttp(n)
  <2>1. CASE asks[n].kind = "hello"
    BY <1>2, <2>1 DEF OverHttp
  <2>2. CASE asks[n].kind # "hello"
    <3>1. asks[n].of \in Sessions /\ sessions[asks[n].of].stage \in {"ready", "closed"}
      BY <2>2 DEF Asked, AskedOf
    <3>2. Backend(asks[n].of)' = Backend(asks[n].of)
      BY <1>2, <3>1, BackendStays DEF SessionsMove
    <3> QED BY <1>2, <3>2 DEF OverHttp
  <2> QED BY <2>1, <2>2
<1>3. CASE UNCHANGED <<asks, askCount>>
  <2>1. \A n \in 1..askCount : n # askCount => asks[n].promise # "waiting"
    BY <1>1, WaitingIsAsked
  <2> QED BY <1>1, <1>2, <1>3, <2>1 DEF Continues
<1>4. ASSUME NEW b \in Sessions, NEW kind \in Commands \union {"hello"}, NEW at \in {NoAsk} \union Asks,
             NEW promise \in {"waiting", "rejected"}, NewAsk(b, kind, at, promise)
      PROVE  Continues
  <2> DEFINE r == [of |-> b, kind |-> kind, at |-> at, promise |-> promise, reply |-> "none"]
  <2>1. r \in AskRecords /\ r.reply = "none" /\ Settled(r)
    BY DEF AskRecords, Settled
  <2>2. askCount' = askCount + 1 /\ askCount + 1 \in Asks /\ asks' = [asks EXCEPT ![askCount + 1] = r]
    BY <1>1, <1>4, AndroidNumbers DEF NewAsk
  <2> HIDE DEF r
  <2>3. asks' \in [Asks -> AskRecords] /\ asks'[askCount + 1].reply = "none"
    BY <1>1, <2>1, <2>2
  <2>4. \A n \in 1..askCount : asks'[n] = asks[n]
    BY <1>1, <2>2
  <2>5. \A n \in 1..askCount : n # askCount => asks[n].promise # "waiting"
    BY <1>1, WaitingIsAsked
  <2>6. \A n \in Asks : asks'[n] # asks[n] => n = askCount' /\ Settled(asks'[n])
    BY <1>1, <2>1, <2>2
  <2> QED BY <1>1, <1>2, <2>2, <2>3, <2>4, <2>5, <2>6 DEF Continues
<1>5. ASSUME NEW n \in Asks, NEW promise \in {"waiting", "resolved", "rejected"},
             NEW reply \in {"none", "ok", "error"}, Changes(n, promise, reply)
      PROVE  Continues
  <2>1. n = askCount /\ n \in 1..askCount
    BY <1>5, WaitingIsAsked DEF Changes
  <2> DEFINE r == [asks[n] EXCEPT !.promise = promise, !.reply = reply]
  <2>a. asks[n] \in AskRecords /\ promise \in {"unsent", "waiting", "resolved", "rejected"}
    BY <1>1
  <2>2. r \in AskRecords /\ r.of = asks[n].of /\ r.kind = asks[n].kind /\ r.at = asks[n].at
        /\ r.promise = promise /\ r.reply = reply /\ Settled(r)
    BY <1>5, <2>a DEF AskRecords, Changes, Settled
  <2>3. asks' = [asks EXCEPT ![n] = r] /\ askCount' = askCount
    BY <1>1, <1>5 DEF Changes
  <2> HIDE DEF r
  <2>4. asks' \in [Asks -> AskRecords] /\ asks'[n] = r
    BY <1>1, <2>2, <2>3
  <2>5. \A m \in 1..askCount : m # askCount => asks[m].promise # "waiting" /\ asks'[m] = asks[m]
    BY <1>1, <2>1, <2>3, WaitingIsAsked
  <2>6. asks[n].promise = "waiting"
    BY <1>5 DEF Changes
  <2>7. \A m \in 1..askCount :
          /\ asks'[m].of = asks[m].of /\ asks'[m].kind = asks[m].kind /\ asks'[m].at = asks[m].at
          /\ asks[m].promise # "waiting" => asks'[m] = asks[m]
    BY <2>1, <2>2, <2>4, <2>5, <2>6
  <2>8. \A m \in Asks : asks'[m] # asks[m] => m = askCount' /\ Settled(asks'[m])
    BY <1>1, <2>1, <2>2, <2>3, <2>4
  <2> QED BY <1>1, <1>2, <2>3, <2>4, <2>5, <2>7, <2>8 DEF Continues
<1> QED BY <1>3, <1>4, <1>5 DEF AsksMove

(* What the loop of createTouchBackend does next.                            *)
LEMMA NextCandidate ==
  ASSUME AnTyped, NEW b \in Sessions, NEW tried \in SUBSET (DOMAIN Order), TriesNext(b, tried)
  PROVE  \/ /\ Left(tried) = {}
            /\ sessions' = [sessions EXCEPT ![b] = [stage |-> "failed", tried |-> tried]]
            /\ UNCHANGED <<asks, askCount, serverVars>>
         \/ \E i \in Left(tried) :
              /\ \A j \in Left(tried) : i <= j
              /\ i \in DOMAIN Order /\ Usable(Order[i]) /\ (\A j \in tried : j < i)
              /\ Max(tried \union {i}) = i
              /\ sessions' = [sessions EXCEPT ![b] = [stage |-> "trying", tried |-> tried \union {i}]]
              /\ StartsInit(b, Order[i])
<1>1. CASE Left(tried) = {}
  BY <1>1 DEF TriesNext
<1>2. CASE Left(tried) # {}
  <2> DEFINE i == Min(Left(tried))
  <2>1. DOMAIN Order = 1..Len(Order) /\ Len(Order) \in Nat /\ Left(tried) \in SUBSET (1..Len(Order))
    BY OrderIsSequence DEF AnTyped, Left
  <2>2. i \in Left(tried) /\ \A j \in Left(tried) : i <= j
    BY <1>2, <2>1, MinAndMax
  <2>3. i \in DOMAIN Order /\ Usable(Order[i]) /\ (\A j \in tried : j < i)
    BY <2>2 DEF Left
  <2>4. Max(tried \union {i}) = i
    <3> DEFINE I == tried \union {i}
    <3>1. I \in SUBSET (1..Len(Order)) /\ I # {} /\ i \in I
      BY <2>1, <2>3
    <3>2. Max(I) \in I /\ \A j \in I : j <= Max(I)
      BY <2>1, <3>1, MinAndMax
    <3>a. i \in Nat /\ \A j \in I : j \in Nat
      BY <2>1, <2>3, <3>1
    <3>b. \A j \in I : j <= i
      BY <2>3, <3>a
    <3>3. Max(I) \in Nat /\ i <= Max(I) /\ Max(I) <= i
      BY <3>1, <3>2, <3>a, <3>b
    <3> HIDE DEF I
    <3> HIDE DEF i
    <3>4. Max(I) = i
      BY <3>3, <3>a
    <3> QED BY <3>4 DEF I
  <2>5. /\ sessions' = [sessions EXCEPT ![b] = [stage |-> "trying", tried |-> tried \union {i}]]
        /\ StartsInit(b, Order[i])
    BY <1>2 DEF TriesNext
  <2> QED BY <2>2, <2>3, <2>4, <2>5
<1> QED BY <1>1, <1>2

(* An answer changes nothing but its request.                                *)
LEMMA AnswersChange ==
  ASSUME AnTyped, NEW n \in Asks, NEW reply \in {"none", "ok", "error"}, Answers(n, reply), askCount' = askCount
  PROVE  AsksMove
<1>1. CASE asks[n].promise = "waiting"
  <2>1. asks' = [asks EXCEPT ![n].promise = "waiting", ![n].reply = reply]
    BY <1>1 DEF Answers, AnTyped, AskRecords
  <2>2. Changes(n, "waiting", reply)
    BY <1>1, <2>1 DEF Changes
  <2> QED BY <2>2 DEF AsksMove
<1>2. CASE asks[n].promise # "waiting"
  BY <1>2 DEF Answers, AsksMove
<1> QED BY <1>1, <1>2

(* A new request is one more, after those there were.                        *)
LEMMA NewIsMove ==
  ASSUME NEW b \in Sessions, NEW kind \in TouchCommands \union {"hello"}, NEW at \in {NoAsk} \union Asks,
         NEW promise \in {"waiting", "rejected"}, NewAsk(b, kind, at, promise)
  PROVE  AsksMove
<1>1. kind \in Commands \union {"hello"}
  BY TouchCommandsAssumption DEF Commands
<1> QED BY <1>1 DEF AsksMove

(* To try the next backend moves on one session, and at most one request is  *)
(* made for it.                                                              *)
LEMMA NextCandidateMoves ==
  ASSUME AnTyped, NEW b \in Sessions, sessions[b].stage \in {"none", "trying"},
         NEW tried \in SUBSET (DOMAIN Order), TriesNext(b, tried)
  PROVE  AsksMove /\ SessionsMove
<1>1. AsksMove
  <2>1. CASE UNCHANGED <<asks, askCount, serverVars>>
    BY <2>1 DEF AsksMove
  <2>2. ASSUME SendCommand(b, "hello") PROVE AsksMove
    <3>1. NoAsk \in {NoAsk} \union Asks /\ "hello" \in TouchCommands \union {"hello"}
      OBVIOUS
    <3>2. NewAsk(b, "hello", NoAsk, "waiting")
      BY <2>2 DEF SendCommand
    <3> QED BY <3>1, <3>2, NewIsMove
  <2> QED BY <2>1, <2>2, NextCandidate DEF StartsInit
<1>2. SessionsMove
  <2>0. sessions \in [Sessions -> [stage : SessionStages, tried : SUBSET (DOMAIN Order)]]
    BY DEF AnTyped
  <2>a. \E r : sessions' = [sessions EXCEPT ![b] = r]
    BY NextCandidate
  <2>1. \A c \in Sessions : c # b => sessions'[c] = sessions[c]
    BY <2>0, <2>a
  <2> QED BY <2>1 DEF SessionsMove
<1> QED BY <1>1, <1>2

(* Every step moves requests and sessions like this.                         *)
LEMMA StepContinues ==
  ASSUME AnTyped, Asked, Queued, AnNext
  PROVE  Continues /\ SessionsMove /\ UNCHANGED fixedVars
<1> SUFFICES UNCHANGED fixedVars /\ AsksMove /\ SessionsMove
  BY MovesContinue DEF fixedVars
<1>0. UNCHANGED fixedVars
  BY DEF AnNext, CreateTouchBackend, InitSucceeds, InitFails, Leaves, InstrumentationCommand, CliRefuses,
         CliRuns, ProcessInjects, ProcessFails, AskReturns, GivesUp, HandleClient, InjectEvent,
         InjectEventThrows, CompanionDies
<1>a. ASSUME UNCHANGED sessions PROVE SessionsMove
  BY <1>a DEF SessionsMove
<1>b. NoAsk \in {NoAsk} \union Asks /\ 
      \A b \in Sessions : sessions[b].tried \in SUBSET (DOMAIN Order)
  BY DEF AnTyped
<1>1. ASSUME NEW b \in Sessions, CreateTouchBackend(b) PROVE AsksMove /\ SessionsMove
  <2>1. {} \in SUBSET (DOMAIN Order) /\ sessions[b].stage \in {"none", "trying"}
    BY <1>1 DEF CreateTouchBackend
  <2> QED BY <1>1, <2>1, NextCandidateMoves DEF CreateTouchBackend
<1>2. ASSUME NEW b \in Sessions, InitFails(b) PROVE AsksMove /\ SessionsMove
  BY <1>2, <1>b, NextCandidateMoves DEF InitFails
<1>3. ASSUME NEW b \in Sessions, InitSucceeds(b) PROVE AsksMove /\ SessionsMove
  BY <1>3 DEF InitSucceeds, AsksMove, SessionsMove, AnTyped
<1>4. ASSUME NEW b \in Sessions, Leaves(b) PROVE AsksMove /\ SessionsMove
  BY <1>4 DEF Leaves, AsksMove, SessionsMove, AnTyped
<1>5. ASSUME NEW b \in Sessions, NEW kind \in TouchCommands, InstrumentationCommand(b, kind)
      PROVE AsksMove /\ SessionsMove
  BY <1>5, <1>a, <1>b, NewIsMove DEF InstrumentationCommand, SendCommand
<1>6. ASSUME NEW b \in Sessions, NEW kind \in TouchCommands, CliRefuses(b, kind)
      PROVE AsksMove /\ SessionsMove
  BY <1>6, <1>a, <1>b, NewIsMove DEF CliRefuses
<1>7. ASSUME NEW b \in Sessions, NEW kind \in TouchCommands, CliRuns(b, kind)
      PROVE AsksMove /\ SessionsMove
  <2> DEFINE at == IF kind = "up" THEN lastPoint[b] ELSE askCount + 1
  <2>1. at \in {NoAsk} \union Asks /\ NewAsk(b, kind, at, "waiting") /\ UNCHANGED sessions
    <3>1. askCount < MaxAsks /\ askCount \in Nat
      BY <1>7, AndroidNumbers DEF CliRuns, NewAsk, AnTyped
    <3>2. askCount + 1 \in Asks
      BY <3>1, AndroidNumbers
    <3>3. lastPoint[b] \in {NoAsk} \union Asks
      BY DEF AnTyped
    <3> QED BY <1>7, <3>2, <3>3 DEF CliRuns
  <2> HIDE DEF at
  <2> QED BY <2>1, <1>a, NewIsMove
<1>8. ASSUME NEW n \in Asks, ProcessInjects(n) \/ ProcessFails(n) PROVE AsksMove /\ SessionsMove
  BY <1>8, <1>a, AnswersChange DEF ProcessInjects, ProcessFails
<1>9. ASSUME NEW n \in Asks, AskReturns(n) \/ GivesUp(n) PROVE AsksMove /\ SessionsMove
  <2>1. CASE GivesUp(n)
    <3>1. Changes(n, "rejected", "none") /\ UNCHANGED sessions
      BY <2>1 DEF GivesUp, Changes
    <3> QED BY <1>a, <3>1 DEF AsksMove
  <2>2. CASE AskReturns(n)
    <3> DEFINE promise == IF asks[n].reply = "ok" THEN "resolved" ELSE "rejected"
    <3>1. asks[n].reply \in {"none", "ok", "error"} /\ promise \in {"waiting", "resolved", "rejected"}
      BY DEF AnTyped, AskRecords
    <3>2. asks' = [asks EXCEPT ![n].promise = promise, ![n].reply = asks[n].reply] /\ UNCHANGED sessions
          /\ askCount' = askCount /\ asks[n].promise = "waiting"
      BY <2>2 DEF AskReturns, AnTyped, AskRecords
    <3>3. Changes(n, promise, asks[n].reply)
      BY <3>2 DEF Changes
    <3> HIDE DEF promise
    <3> QED BY <1>a, <3>1, <3>2, <3>3 DEF AsksMove
  <2> QED BY <1>9, <2>1, <2>2
<1>10. ASSUME NEW i \in DOMAIN backlog, HandleClient(i) PROVE AsksMove /\ SessionsMove
  <2>1. backlog[i] \in Asks
    BY LenProperties, ElementOfSeq DEF AnTyped
  <2>2. UNCHANGED <<asks, askCount>> \/ (askCount' = askCount /\ \E reply \in {"ok", "error"} : Answers(backlog[i], reply))
    BY <1>10 DEF HandleClient
  <2>3. UNCHANGED <<asks, askCount>> => AsksMove
    BY DEF AsksMove
  <2>4. UNCHANGED sessions
    BY <1>10 DEF HandleClient
  <2> QED BY <1>a, <2>1, <2>2, <2>3, <2>4, AnswersChange
<1>11. ASSUME InjectEvent \/ InjectEventThrows PROVE AsksMove /\ SessionsMove
  <2>1. handling # NoWork
    BY <1>11 DEF InjectEvent, InjectEventThrows
  <2>2. handling.ask \in Asks
    BY <2>1, AndroidNumbers DEF Queued, AnTyped
  <2>3. UNCHANGED <<asks, askCount>> \/ (askCount' = askCount /\ \E reply \in {"ok", "error"} : Answers(handling.ask, reply))
    BY <1>11 DEF InjectEvent, InjectEventThrows
  <2>4. UNCHANGED <<asks, askCount>> => AsksMove
    BY DEF AsksMove
  <2>5. UNCHANGED sessions
    BY <1>11 DEF InjectEvent, InjectEventThrows
  <2> QED BY <1>a, <2>2, <2>3, <2>4, <2>5, AnswersChange
<1>12. ASSUME CompanionDies PROVE AsksMove /\ SessionsMove
  BY <1>12, <1>a DEF CompanionDies, AsksMove
<1> QED BY <1>0, <1>1, <1>2, <1>3, <1>4, <1>5, <1>6, <1>7, <1>8, <1>9, <1>10, <1>11, <1>12 DEF AnNext

(* A request goes to the companion.                                          *)
Sends ==
  \E b \in Sessions, kind \in Commands \union {"hello"} :
    /\ SendCommand(b, kind)
    /\ kind # "hello" => Backend(b) = "instrumentation" /\ sessions[b].stage = "ready"
    /\ UNCHANGED <<fixedVars, cliVars, stream>>

(* Which steps change what.                                                  *)
LEMMA WhatChanges ==
  ASSUME AnTyped, AnNext
  PROVE  /\ \/ UNCHANGED sessions
            \/ \E b \in Sessions : CreateTouchBackend(b) \/ InitSucceeds(b) \/ InitFails(b) \/ Leaves(b)
         /\ UNCHANGED known \/ \E b \in Sessions, kind \in TouchCommands : CliRefuses(b, kind) \/ CliRuns(b, kind)
         /\ UNCHANGED lastPoint \/ \E n \in Asks : AskReturns(n)
         /\ \/ UNCHANGED running
            \/ \E b \in Sessions, kind \in TouchCommands : CliRuns(b, kind)
            \/ \E n \in Asks : ProcessInjects(n) \/ ProcessFails(n) \/ GivesUp(n)
         /\ UNCHANGED stream \/ InjectEvent \/ \E n \in Asks : ProcessInjects(n)
         /\ \/ UNCHANGED <<serving, backlog, cut>> \/ Sends \/ CompanionDies
            \/ \E i \in DOMAIN backlog : HandleClient(i)
            \/ \E n \in Asks : GivesUp(n)
         /\ \/ UNCHANGED <<handling, activeDown, lastXY>>
            \/ \E i \in DOMAIN backlog : HandleClient(i)
            \/ InjectEvent \/ InjectEventThrows \/ CompanionDies
<1>a. ASSUME NEW b \in Sessions, CreateTouchBackend(b) \/ InitFails(b)
      PROVE  UNCHANGED <<fixedVars, cliVars, stream>> /\ (UNCHANGED serverVars \/ (Sends /\ UNCHANGED <<handling, activeDown, lastXY>>))
  <2>1. UNCHANGED <<fixedVars, cliVars, stream>>
    BY <1>a DEF CreateTouchBackend, InitFails
  <2>2. \E tried \in SUBSET (DOMAIN Order) : TriesNext(b, tried)
    BY <1>a DEF CreateTouchBackend, InitFails, AnTyped
  <2>3. UNCHANGED serverVars \/ SendCommand(b, "hello")
    BY <2>2, NextCandidate DEF StartsInit
  <2>4. SendCommand(b, "hello") => Sends /\ UNCHANGED <<handling, activeDown, lastXY>>
    <3> SUFFICES ASSUME SendCommand(b, "hello") PROVE Sends /\ UNCHANGED <<handling, activeDown, lastXY>>
      OBVIOUS
    <3>1. "hello" \in Commands \union {"hello"}
      OBVIOUS
    <3>2. Sends
      BY <2>1, <3>1 DEF Sends
    <3> QED BY <3>2 DEF SendCommand
  <2> QED BY <2>1, <2>3, <2>4
<1>b. ASSUME NEW b \in Sessions, NEW kind \in TouchCommands, InstrumentationCommand(b, kind)
      PROVE  Sends /\ UNCHANGED <<sessions, cliVars, stream, handling, activeDown, lastXY>>
  <2>1. kind \in Commands \union {"hello"}
    BY TouchCommandsAssumption DEF Commands
  <2>2. SendCommand(b, kind) /\ Backend(b) = "instrumentation" /\ sessions[b].stage = "ready"
        /\ UNCHANGED <<fixedVars, sessions, cliVars, stream>>
    BY <1>b DEF InstrumentationCommand, Ready
  <2>3. Sends
    BY <2>1, <2>2 DEF Sends
  <2> QED BY <2>2, <2>3 DEF SendCommand
<1> DEFINE Goal ==
         /\ \/ UNCHANGED sessions
            \/ \E b \in Sessions : CreateTouchBackend(b) \/ InitSucceeds(b) \/ InitFails(b) \/ Leaves(b)
         /\ UNCHANGED known \/ \E b \in Sessions, kind \in TouchCommands : CliRefuses(b, kind) \/ CliRuns(b, kind)
         /\ UNCHANGED lastPoint \/ \E n \in Asks : AskReturns(n)
         /\ \/ UNCHANGED running
            \/ \E b \in Sessions, kind \in TouchCommands : CliRuns(b, kind)
            \/ \E n \in Asks : ProcessInjects(n) \/ ProcessFails(n) \/ GivesUp(n)
         /\ UNCHANGED stream \/ InjectEvent \/ \E n \in Asks : ProcessInjects(n)
         /\ \/ UNCHANGED <<serving, backlog, cut>> \/ Sends \/ CompanionDies
            \/ \E i \in DOMAIN backlog : HandleClient(i)
            \/ \E n \in Asks : GivesUp(n)
         /\ \/ UNCHANGED <<handling, activeDown, lastXY>>
            \/ \E i \in DOMAIN backlog : HandleClient(i)
            \/ InjectEvent \/ InjectEventThrows \/ CompanionDies
<1> SUFFICES Goal OBVIOUS
<1>1. ASSUME NEW b \in Sessions, CreateTouchBackend(b) \/ InitFails(b) PROVE Goal
  BY <1>1, <1>a DEF cliVars, serverVars
<1>2. ASSUME NEW b \in Sessions, InitSucceeds(b) \/ Leaves(b) PROVE Goal
  BY <1>2 DEF InitSucceeds, Leaves, cliVars, serverVars
<1>3. ASSUME NEW b \in Sessions, NEW kind \in TouchCommands, InstrumentationCommand(b, kind) PROVE Goal
  BY <1>3, <1>b DEF cliVars
<1>4. ASSUME NEW b \in Sessions, NEW kind \in TouchCommands, CliRefuses(b, kind) \/ CliRuns(b, kind) PROVE Goal
  BY <1>4 DEF CliRefuses, CliRuns, serverVars
<1>5. ASSUME NEW n \in Asks, ProcessInjects(n) \/ ProcessFails(n) PROVE Goal
  BY <1>5 DEF ProcessInjects, ProcessFails, serverVars
<1>6. ASSUME NEW n \in Asks, AskReturns(n) \/ GivesUp(n) PROVE Goal
  BY <1>6 DEF AskReturns, GivesUp, serverVars
<1>7. ASSUME NEW i \in DOMAIN backlog, HandleClient(i) PROVE Goal
  BY <1>7 DEF HandleClient, cliVars
<1>8. ASSUME InjectEvent \/ InjectEventThrows \/ CompanionDies PROVE Goal
  BY <1>8 DEF InjectEvent, InjectEventThrows, CompanionDies, cliVars
<1> HIDE DEF Goal
<1> QED BY <1>1, <1>2, <1>3, <1>4, <1>5, <1>6, <1>7, <1>8 DEF AnNext

(* What the companion does with a command is a few events.                   *)
LEMMA EventsAreTouches ==
  ASSUME AnTyped, Queued, NEW n \in Asks
  PROVE  /\ EventsFor(n) \in Seq(Touches)
         /\ \A m \in Asks : \A act \in {"down", "move", "up"} : Touch(act, n, m) \in Touches
         /\ Tap(n) \in Seq(Touches) /\ Swipe(n) \in Seq(Touches)
<1>1. \A m \in Asks : \A act \in {"down", "move", "up"} : Touch(act, n, m) \in Touches
  BY DEF Touch, Touches
<1>2. Touch("down", n, n) \in Touches /\ Touch("move", n, n) \in Touches /\ Touch("up", n, n) \in Touches
  BY <1>1
<1>3. Tap(n) \in Seq(Touches) /\ Swipe(n) \in Seq(Touches) /\ <<Touch("down", n, n)>> \in Seq(Touches)
      /\ <<Touch("move", n, n)>> \in Seq(Touches) /\ <<>> \in Seq(Touches)
  BY <1>2 DEF Tap, Swipe
<1>4. activeDown => <<Touch("up", n, lastXY)>> \in Seq(Touches)
  <2>1. activeDown => Touch("up", n, lastXY) \in Touches
    BY <1>1 DEF Queued
  <2> QED BY <2>1
<1>5. EventsFor(n) \in {Tap(n), Swipe(n), <<Touch("down", n, n)>>, <<Touch("move", n, n)>>, <<>>}
      \/ (activeDown /\ EventsFor(n) = <<Touch("up", n, lastXY)>>)
  BY DEF EventsFor, Stroke
<1> QED BY <1>1, <1>3, <1>4, <1>5

(* A connection that is accepted is the first.                               *)
LEMMA Accepting ==
  ASSUME AnTyped, Queued, NEW i \in DOMAIN backlog, HandleClient(i)
  PROVE  /\ i = 1 /\ backlog # <<>> /\ backlog[1] \in 1..askCount /\ backlog[1] \in Asks
         /\ handling = NoWork /\ serving
         /\ backlog' \in Seq(Asks) /\ backlog' = RemoveAt(backlog, 1)
         /\ DOMAIN backlog = 1..Len(backlog) /\ DOMAIN backlog' = 1..Len(backlog') /\ Len(backlog) \in Nat
         /\ Len(backlog') = Len(backlog) - 1
         /\ \A j \in DOMAIN backlog' : j + 1 \in DOMAIN backlog /\ backlog'[j] = backlog[j + 1]
         /\ \A j \in DOMAIN backlog : j # 1 => j - 1 \in DOMAIN backlog' /\ backlog'[j - 1] = backlog[j]
         /\ \A j \in DOMAIN backlog' : backlog[1] < backlog'[j]
<1>1. i = 1 /\ handling = NoWork /\ backlog' = RemoveAt(backlog, 1)
  BY DEF HandleClient, Accepts
<1>2. backlog \in Seq(Asks) /\ DOMAIN backlog = 1..Len(backlog) /\ Len(backlog) \in Nat /\ backlog # <<>>
  BY LenProperties DEF AnTyped
<1>3. /\ backlog' \in Seq(Asks) /\ Len(backlog') = Len(backlog) - 1
      /\ \A j \in DOMAIN backlog' : j + 1 \in DOMAIN backlog /\ backlog'[j] = backlog[j + 1]
  BY <1>1, <1>2, FirstIsRemoved
<1>4. DOMAIN backlog' = 1..Len(backlog')
  BY <1>3, LenProperties
<1>5. backlog[1] \in 1..askCount /\ backlog[1] \in Asks
  <2>1. backlog[1] \in Asks /\ backlog[1] <= askCount
    BY <1>1, <1>2, ElementOfSeq DEF AnTyped
  <2> QED BY <2>1, AndroidNumbers DEF AnTyped
<1>6. serving
  BY <1>2 DEF Queued, AnTyped
<1>7. \A j \in DOMAIN backlog : j # 1 => j - 1 \in DOMAIN backlog' /\ backlog'[j - 1] = backlog[j]
  <2> SUFFICES ASSUME NEW j \in DOMAIN backlog, j # 1
               PROVE  j - 1 \in DOMAIN backlog' /\ backlog'[j - 1] = backlog[j]
    OBVIOUS
  <2>1. j \in Nat /\ j - 1 \in DOMAIN backlog' /\ (j - 1) + 1 = j
    BY <1>2, <1>3, <1>4
  <2> QED BY <1>3, <2>1
<1>8. \A j \in DOMAIN backlog' : backlog[1] < backlog'[j]
  <2> SUFFICES ASSUME NEW j \in DOMAIN backlog' PROVE backlog[1] < backlog'[j]
    OBVIOUS
  <2>1. j + 1 \in DOMAIN backlog /\ 1 < j + 1 /\ backlog'[j] = backlog[j + 1] /\ 1 \in DOMAIN backlog
    BY <1>1, <1>3, <1>4
  <2> QED BY <2>1 DEF Queued, QueuedAt
<1> QED BY <1>1, <1>2, <1>3, <1>4, <1>5, <1>6, <1>7, <1>8

(* What a companion that has work injects next.                              *)
LEMMA Injecting ==
  ASSUME AnTyped, Queued, handling # NoWork
  PROVE  /\ handling.ask \in 1..askCount /\ handling.ask \in Asks /\ handling.todo \in Seq(Touches)
         /\ handling.todo # <<>> /\ Head(handling.todo) \in Touches /\ Tail(handling.todo) \in Seq(Touches)
         /\ serving /\ OverHttp(handling.ask)
<1>1. handling.todo \in Seq(Touches) /\ handling.todo # <<>> /\ handling.ask \in 1..askCount /\ OverHttp(handling.ask)
  BY DEF AnTyped, Queued
<1>2. Head(handling.todo) \in Touches /\ Tail(handling.todo) \in Seq(Touches)
  BY <1>1, HeadTailProperties
<1>3. handling.ask \in Asks /\ serving
  BY <1>1, AndroidNumbers DEF AnTyped, Queued
<1> QED BY <1>1, <1>2, <1>3

(* The types are kept.                                                       *)
LEMMA TypedStays ==
  ASSUME AnTyped, Asked, Queued, AnNext
  PROVE  AnTyped'
<1>1. Continues /\ UNCHANGED fixedVars /\ Order' = Order
  BY StepContinues, OrderStays DEF fixedVars
<1>2. /\ asks' \in [Asks -> AskRecords] /\ askCount' \in 0..MaxAsks
      /\ askCount \in Nat /\ askCount' \in Nat /\ askCount <= askCount'
      /\ askCount' = askCount + 1 => askCount + 1 \in Asks
  BY <1>1, AndroidNumbers DEF Continues
<1>3. sessions' \in [Sessions -> [stage : SessionStages, tried : SUBSET (DOMAIN Order')]]
  <2>1. sessions \in [Sessions -> [stage : SessionStages, tried : SUBSET (DOMAIN Order')]]
    BY <1>1 DEF AnTyped
  <2>2. ASSUME NEW b \in Sessions, InitSucceeds(b) \/ Leaves(b)
        PROVE  sessions' \in [Sessions -> [stage : SessionStages, tried : SUBSET (DOMAIN Order')]]
    BY <2>1, <2>2 DEF InitSucceeds, Leaves, SessionStages
  <2>3. ASSUME NEW b \in Sessions, CreateTouchBackend(b) \/ InitFails(b)
        PROVE  sessions' \in [Sessions -> [stage : SessionStages, tried : SUBSET (DOMAIN Order')]]
    <3>1. PICK tried \in SUBSET (DOMAIN Order) : TriesNext(b, tried)
      BY <2>3 DEF CreateTouchBackend, InitFails, AnTyped
    <3>2. \E s \in [stage : SessionStages, tried : SUBSET (DOMAIN Order')] : sessions' = [sessions EXCEPT ![b] = s]
      <4> DEFINE Records == [stage : SessionStages, tried : SUBSET (DOMAIN Order')]
      <4>1. [stage |-> "failed", tried |-> tried] \in Records
        BY <1>1 DEF SessionStages
      <4>2. \A i \in DOMAIN Order : [stage |-> "trying", tried |-> tried \union {i}] \in Records
        BY <1>1 DEF SessionStages
      <4> HIDE DEF Records
      <4>3. \E s \in Records : sessions' = [sessions EXCEPT ![b] = s]
        BY <3>1, <4>1, <4>2, NextCandidate
      <4> QED BY <4>3 DEF Records
    <3> QED BY <2>1, <3>2
  <2> QED BY <2>1, <2>2, <2>3, WhatChanges
<1>4. known' \in [Sessions -> SUBSET {"sdk", "density"}]
  <2>1. known \in [Sessions -> SUBSET {"sdk", "density"}]
    BY DEF AnTyped
  <2>2. ASSUME NEW b \in Sessions, NEW kind \in TouchCommands, CliRefuses(b, kind) \/ CliRuns(b, kind)
        PROVE  \E k \in SUBSET {"sdk", "density"} : known' = known \/ known' = [known EXCEPT ![b] = k]
    <3>1. EnsureSdk(b, kind) \in SUBSET {"sdk", "density"}
          /\ EnsureSdk(b, kind) \union EnsureDensity(b, kind) \in SUBSET {"sdk", "density"}
      BY <2>1 DEF EnsureSdk, EnsureDensity
    <3> QED BY <2>2, <3>1 DEF CliRefuses, CliRuns
  <2> QED BY <2>1, <2>2, WhatChanges
<1>5. lastPoint' \in [Sessions -> {NoAsk} \union Asks]
  BY WhatChanges DEF AnTyped, AskReturns, ReachesPoint
<1>6. running' \subseteq 1..askCount'
  <2>1. running \subseteq 1..askCount'
    BY <1>2 DEF AnTyped
  <2>2. ASSUME NEW b \in Sessions, NEW kind \in TouchCommands, CliRuns(b, kind) PROVE running' \subseteq 1..askCount'
    <3>1. running' = running \union {askCount + 1} /\ askCount' = askCount + 1
      BY <2>2 DEF CliRuns, NewAsk
    <3> QED BY <1>2, <2>1, <3>1
  <2> QED BY <2>1, <2>2, WhatChanges DEF ProcessInjects, ProcessFails, GivesUp, AdbKilled
<1>7. /\ serving' \in BOOLEAN /\ backlog' \in Seq(Asks) /\ cut' \subseteq ToSet(backlog')
      /\ \A i \in DOMAIN backlog' : backlog'[i] <= askCount'
  <2> DEFINE Goal == /\ serving' \in BOOLEAN /\ backlog' \in Seq(Asks) /\ cut' \subseteq ToSet(backlog')
                     /\ \A i \in DOMAIN backlog' : backlog'[i] <= askCount'
  <2>0. /\ serving \in BOOLEAN /\ backlog \in Seq(Asks) /\ cut \subseteq ToSet(backlog)
        /\ DOMAIN backlog = 1..Len(backlog) /\ Len(backlog) \in Nat
        /\ \A i \in DOMAIN backlog : backlog[i] \in Nat /\ backlog[i] <= askCount /\ backlog[i] <= askCount'
    BY <1>2, AndroidNumbers, ElementOfSeq, LenProperties DEF AnTyped
  <2>1. CASE UNCHANGED <<serving, backlog, cut>>
    BY <2>0, <2>1
  <2>2. CASE Sends
    <3>1. serving' = serving /\ cut' = cut /\ askCount' = askCount + 1
          /\ backlog' = (IF serving THEN Append(backlog, askCount + 1) ELSE backlog)
      BY <2>2 DEF Sends, SendCommand, NewAsk
    <3>2. CASE serving
      <4>1. backlog' = Append(backlog, askCount + 1) /\ askCount + 1 \in Asks
        BY <1>2, <3>1, <3>2
      <4>2. /\ backlog' \in Seq(Asks) /\ Len(backlog') = Len(backlog) + 1
            /\ \A i \in 1..Len(backlog) : backlog'[i] = backlog[i]
            /\ backlog'[Len(backlog) + 1] = askCount + 1
        BY <2>0, <4>1, AppendProperties
      <4>3. DOMAIN backlog' = 1..(Len(backlog) + 1)
        BY <4>2, LenProperties
      <4>4. \A i \in DOMAIN backlog' : backlog'[i] <= askCount'
        BY <1>2, <2>0, <3>1, <4>2, <4>3
      <4>5. cut' \subseteq ToSet(backlog')
        BY <2>0, <3>1, <4>2, <4>3 DEF ToSet
      <4> QED BY <2>0, <3>1, <4>2, <4>4, <4>5
    <3>3. CASE ~serving
      BY <2>0, <3>1, <3>3
    <3> QED BY <3>2, <3>3
  <2>3. CASE CompanionDies
    <3>1. serving' = FALSE /\ backlog' = <<>> /\ cut' = {}
      BY <2>3 DEF CompanionDies
    <3>2. backlog' \in Seq(Asks) /\ \A i \in DOMAIN backlog' : FALSE
      BY <3>1
    <3> QED BY <3>1, <3>2
  <2>4. ASSUME NEW i \in DOMAIN backlog, HandleClient(i) PROVE Goal
    <3>1. serving' = serving /\ cut' = cut \ {backlog[1]}
      BY <2>4, Accepting DEF HandleClient
    <3>2. \A j \in DOMAIN backlog' : backlog'[j] <= askCount'
      BY <2>0, <2>4, Accepting
    <3>3. cut' \subseteq ToSet(backlog')
      <4> SUFFICES ASSUME NEW c \in cut' PROVE c \in ToSet(backlog')
        OBVIOUS
      <4>1. PICK j \in DOMAIN backlog : c = backlog[j]
        BY <2>0, <3>1 DEF ToSet
      <4>2. j # 1
        BY <3>1, <4>1
      <4>3. j - 1 \in DOMAIN backlog' /\ backlog'[j - 1] = c
        BY <2>4, <4>1, <4>2, Accepting
      <4>4. DOMAIN backlog' = 1..Len(backlog')
        BY <2>4, Accepting
      <4> QED BY <4>3, <4>4 DEF ToSet
    <3> QED BY <2>0, <2>4, <3>1, <3>2, <3>3, Accepting
  <2>5. ASSUME NEW n \in Asks, GivesUp(n) PROVE Goal
    <3>1. serving' = serving /\ backlog' = backlog /\ cut' \subseteq cut \union ToSet(backlog)
      BY <2>5 DEF GivesUp
    <3> QED BY <2>0, <3>1
  <2> HIDE DEF Goal
  <2>6. Goal
    BY <2>1, <2>2, <2>3, <2>4, <2>5, WhatChanges DEF Goal
  <2> QED BY <2>6 DEF Goal
<1>8. handling' \in [ask : {NoAsk} \union Asks, todo : Seq(Touches)]
  <2>0. handling \in [ask : {NoAsk} \union Asks, todo : Seq(Touches)]
        /\ NoWork \in [ask : {NoAsk} \union Asks, todo : Seq(Touches)]
    BY DEF AnTyped, NoWork
  <2>1. ASSUME NEW i \in DOMAIN backlog, HandleClient(i) PROVE handling' \in [ask : {NoAsk} \union Asks, todo : Seq(Touches)]
    <3>1. backlog[i] \in Asks
      BY <2>1, Accepting
    <3>2. EventsFor(backlog[i]) \in Seq(Touches)
      BY <3>1, EventsAreTouches
    <3>3. handling' = handling \/ handling' = [ask |-> backlog[i], todo |-> EventsFor(backlog[i])]
      BY <2>1 DEF HandleClient
    <3> QED BY <2>0, <3>1, <3>2, <3>3
  <2>2. ASSUME InjectEvent PROVE handling' \in [ask : {NoAsk} \union Asks, todo : Seq(Touches)]
    BY <2>0, <2>2, Injecting DEF InjectEvent
  <2> QED BY <2>0, <2>1, <2>2, WhatChanges DEF InjectEventThrows, CompanionDies
<1>9. activeDown' \in BOOLEAN /\ lastXY' \in {NoAsk} \union Asks
  <2>1. ASSUME NEW i \in DOMAIN backlog, HandleClient(i) PROVE activeDown' \in BOOLEAN /\ lastXY' \in {NoAsk} \union Asks
    <3>1. backlog[i] \in Asks
      BY <2>1, Accepting
    <3> QED BY <2>1, <3>1 DEF HandleClient, TracksTouch, AnTyped
  <2> QED BY <2>1, WhatChanges DEF AnTyped, InjectEvent, InjectEventThrows, CompanionDies, EndsTouch
<1>10. stream' \in Seq(Touches)
  <2>1. ASSUME InjectEvent PROVE stream' \in Seq(Touches)
    <3>1. Head(handling.todo) \in Touches /\ stream' = Append(stream, Head(handling.todo))
      BY <2>1, Injecting DEF InjectEvent
    <3> QED BY <3>1, AppendProperties DEF AnTyped
  <2>2. ASSUME NEW n \in Asks, ProcessInjects(n) PROVE stream' \in Seq(Touches)
    <3>1. Tap(n) \in Seq(Touches) /\ Swipe(n) \in Seq(Touches)
      BY EventsAreTouches
    <3>2. Streaming(asks[n].kind) => <<Touch(asks[n].kind, n, asks[n].at)>> \in Seq(Touches)
      <4>1. asks[n].at \in Asks
        BY <2>2 DEF ProcessInjects, Queued
      <4>2. Streaming(asks[n].kind) => Touch(asks[n].kind, n, asks[n].at) \in Touches
        BY <4>1, EventsAreTouches DEF Streaming
      <4> QED BY <4>2
    <3>3. \E events \in Seq(Touches) : stream' = stream \o events
      BY <2>2, <3>1, <3>2 DEF ProcessInjects, Stroke
    <3> QED BY <3>3, ConcatProperties DEF AnTyped
  <2> QED BY <2>1, <2>2, WhatChanges DEF AnTyped
<1>11. touchConfig' \in TouchConfigs /\ authorized' \in BOOLEAN /\ oldSdk' \in BOOLEAN
  BY <1>1 DEF fixedVars, AnTyped
<1> QED BY <1>2, <1>3, <1>4, <1>5, <1>6, <1>7, <1>8, <1>9, <1>10, <1>11 DEF AnTyped

(* A session goes on: its backend is made or the next one tried, it is ready,*)
(* it ends.                                                                  *)
Makes(b) ==
  /\ sessions[b].stage \in {"none", "trying"} /\ TriesNext(b, sessions[b].tried)
  /\ sessions[b].stage = "none" => \A c \in 1..(b - 1) : sessions[c].stage \in {"failed", "closed"}
  /\ sessions[b].stage = "trying" /\ Backend(b) = "instrumentation" => asks[askCount].promise = "rejected"

(* A session finds its backend usable (the init of                           *)
(* instrumentation-backend.ts and cli-backend.ts).                           *)
Finds(b) ==
  /\ sessions[b].stage = "trying" /\ sessions' = [sessions EXCEPT ![b].stage = "ready"]
  /\ UNCHANGED <<asks, askCount>>
  /\ Backend(b) = "instrumentation" => asks[askCount].promise = "resolved"

(* A session is over: the test ends or its connection is torn down.          *)
Closes(b) ==
  /\ sessions[b].stage = "ready" /\ sessions' = [sessions EXCEPT ![b].stage = "closed"]
  /\ UNCHANGED <<asks, askCount>>

(* While one is being made, nothing but its hello may be under way.          *)
LEMMA NobodyWaits ==
  ASSUME AnTyped, Asked, Selected, NEW b \in Sessions, sessions[b].stage = "trying",
         Backend(b) = "instrumentation" => asks[askCount].promise # "waiting"
  PROVE  Waiting = {}
<1> SUFFICES ASSUME NEW n \in Asks, asks[n].promise = "waiting" PROVE FALSE
  BY DEF Waiting
<1>1. n = askCount /\ n \in 1..askCount
  BY WaitingIsAsked
<1> DEFINE c == asks[n].of
<1>2. c \in Sessions /\ sessions[c].stage \in {"trying", "ready"}
      /\ (sessions[c].stage = "trying" => Backend(c) = "instrumentation")
  BY <1>1 DEF Asked, AskedOf
<1>3. c = b
  <2>1. b \in Nat /\ c \in Nat
    BY <1>2, AndroidNumbers
  <2> HIDE DEF c
  <2>2. ~(b < c) /\ ~(c < b)
    BY <1>2 DEF Selected, OneActive
  <2> QED BY <2>1, <2>2
<1> QED BY <1>1, <1>2, <1>3

(* While a session is made no request of another waits.                      *)
LEMMA Making ==
  ASSUME AnTyped, Asked, Selected, NEW b \in Sessions, CreateTouchBackend(b) \/ InitFails(b)
  PROVE  Waiting = {} /\ Makes(b)
<1>1. CASE CreateTouchBackend(b)
  <2>1. sessions[b].tried = {}
    BY <1>1 DEF CreateTouchBackend, Selected, SelectedOf
  <2> QED BY <1>1, <2>1 DEF CreateTouchBackend, Makes
<1>2. CASE InitFails(b)
  <2>1. Makes(b) /\ sessions[b].stage = "trying"
    BY <1>2 DEF InitFails, Inited, Hello, Makes
  <2> QED BY <2>1, NobodyWaits DEF Makes
<1> QED BY <1>1, <1>2

(* What a step does to a session: it tries a backend, takes the one it       *)
(* tried, or is over.                                                        *)
LEMMA SessionSteps ==
  ASSUME AnTyped, Asked, Selected, AnNext
  PROVE  UNCHANGED sessions \/ (Waiting = {} /\ \E b \in Sessions : Makes(b) \/ Finds(b) \/ Closes(b))
<1>2. ASSUME NEW b \in Sessions, InitSucceeds(b) PROVE Waiting = {} /\ Finds(b)
  <2>1. Finds(b)
    BY <1>2 DEF InitSucceeds, Inited, Hello, Finds
  <2> QED BY <2>1, NobodyWaits DEF Finds
<1>4. ASSUME NEW b \in Sessions, Leaves(b) PROVE Waiting = {} /\ Closes(b)
  BY <1>4 DEF Leaves, Closes
<1> QED BY <1>2, <1>4, Making, WhatChanges

(* A request is of a session that is being made or is ready.                 *)
NewOf(b, kind) ==
  /\ asks'[askCount + 1].of = b /\ asks'[askCount + 1].kind = kind
  /\ asks'[askCount + 1].promise \in {"waiting", "rejected"} /\ asks'[askCount + 1].reply = "none"
  /\ kind = "hello" =>
       /\ Makes(b) /\ sessions'[b].stage = "trying" /\ Backend(b)' = "instrumentation"
       /\ SendCommand(b, "hello")
  /\ kind # "hello" =>
       /\ UNCHANGED sessions /\ sessions[b].stage = "ready"
       /\ \/ Backend(b) = "instrumentation" /\ SendCommand(b, kind)
          \/ Backend(b) = "cli" /\ (CliRefuses(b, kind) \/ CliRuns(b, kind))

(* To try a backend sends a hello when it is the one of the instrumentation, *)
(* and no request when it is another.                                        *)
LEMMA Hellos ==
  ASSUME AnTyped, NEW b \in Sessions, Makes(b), UNCHANGED touchConfig
  PROVE  \/ UNCHANGED <<asks, askCount, serverVars>>
         \/ /\ SendCommand(b, "hello") /\ sessions'[b].stage = "trying" /\ Backend(b)' = "instrumentation"
<1>1. sessions[b].tried \in SUBSET (DOMAIN Order) /\ TriesNext(b, sessions[b].tried)
      /\ sessions \in [Sessions -> [stage : SessionStages, tried : SUBSET (DOMAIN Order)]]
  BY DEF AnTyped, Makes
<1>2. ASSUME NEW i \in Left(sessions[b].tried), Max(sessions[b].tried \union {i}) = i,
             sessions' = [sessions EXCEPT ![b] = [stage |-> "trying", tried |-> sessions[b].tried \union {i}]],
             StartsInit(b, Order[i]), ~UNCHANGED <<asks, askCount, serverVars>>
      PROVE  SendCommand(b, "hello") /\ sessions'[b].stage = "trying" /\ Backend(b)' = "instrumentation"
  <2>1. SendCommand(b, "hello") /\ Order[i] = "instrumentation"
    BY <1>2 DEF StartsInit
  <2>2. sessions'[b].stage = "trying" /\ sessions'[b].tried = sessions[b].tried \union {i}
    BY <1>1, <1>2
  <2>3. Backend(b)' = "instrumentation"
    BY <1>2, <2>1, <2>2, OrderStays DEF Backend
  <2> QED BY <2>1, <2>2, <2>3
<1> QED BY <1>1, <1>2, NextCandidate

(* A request is made only when nobody waits for another, and by a session    *)
(* that is ready or being made.                                              *)
LEMMA NewRequests ==
  ASSUME AnTyped, Asked, Selected, Queued, AnNext, askCount' # askCount
  PROVE  /\ askCount' = askCount + 1 /\ askCount + 1 \in Asks /\ Waiting = {}
         /\ \E b \in Sessions, kind \in TouchCommands \union {"hello"} : NewOf(b, kind)
<1>0. Continues /\ askCount' = askCount + 1 /\ askCount + 1 \in Asks /\ UNCHANGED touchConfig
  BY StepContinues DEF Continues
<1>a. ASSUME NEW b, NEW kind, NEW at, NEW promise \in {"waiting", "rejected"}, NewAsk(b, kind, at, promise)
      PROVE  /\ asks'[askCount + 1].of = b /\ asks'[askCount + 1].kind = kind
             /\ asks'[askCount + 1].promise \in {"waiting", "rejected"} /\ asks'[askCount + 1].reply = "none"
  BY <1>0, <1>a DEF NewAsk, AnTyped
<1>1. ASSUME NEW b \in Sessions, Makes(b) PROVE NewOf(b, "hello")
  <2>1. SendCommand(b, "hello") /\ sessions'[b].stage = "trying" /\ Backend(b)' = "instrumentation"
    BY <1>0, <1>1, Hellos
  <2>2. NewAsk(b, "hello", NoAsk, "waiting")
    BY <2>1 DEF SendCommand
  <2> QED BY <1>1, <1>a, <2>1, <2>2 DEF NewOf
<1>2. ASSUME NEW b \in Sessions, NEW kind \in TouchCommands, InstrumentationCommand(b, kind)
      PROVE  Waiting = {} /\ NewOf(b, kind)
  <2>1. NewAsk(b, kind, NoAsk, "waiting") /\ SendCommand(b, kind) /\ Ready(b, "instrumentation") /\ UNCHANGED sessions
    BY <1>2 DEF InstrumentationCommand, SendCommand
  <2>2. kind # "hello"
    BY TouchCommandsAssumption
  <2> QED BY <1>a, <2>1, <2>2 DEF NewOf, Ready
<1>3. ASSUME NEW b \in Sessions, NEW kind \in TouchCommands, CliRefuses(b, kind) \/ CliRuns(b, kind)
      PROVE  Waiting = {} /\ NewOf(b, kind)
  <2>1. Ready(b, "cli") /\ UNCHANGED sessions
    BY <1>3 DEF CliRefuses, CliRuns
  <2>a. CliRefuses(b, kind) => NewAsk(b, kind, NoAsk, "rejected")
    BY DEF CliRefuses
  <2>b. CliRuns(b, kind) => NewAsk(b, kind, IF kind = "up" THEN lastPoint[b] ELSE askCount + 1, "waiting")
    BY DEF CliRuns
  <2>2. \E at : \E promise \in {"waiting", "rejected"} : NewAsk(b, kind, at, promise)
    BY <1>3, <2>a, <2>b
  <2>3. kind # "hello"
    BY TouchCommandsAssumption
  <2> QED BY <1>3, <1>a, <2>1, <2>2, <2>3 DEF NewOf, Ready
<1>4. CASE \E b \in Sessions : CreateTouchBackend(b) \/ InitSucceeds(b) \/ InitFails(b) \/ Leaves(b)
  <2>1. PICK b \in Sessions : CreateTouchBackend(b) \/ InitFails(b)
    BY <1>0, <1>4 DEF InitSucceeds, Leaves
  <2>2. Waiting = {} /\ Makes(b)
    BY <2>1, Making
  <2> QED BY <1>0, <1>1, <2>2
<1>5. CASE \E b \in Sessions, kind \in TouchCommands :
             InstrumentationCommand(b, kind) \/ CliRefuses(b, kind) \/ CliRuns(b, kind)
  BY <1>0, <1>2, <1>3, <1>5
<1>6. CASE \/ \E n \in Asks : ProcessInjects(n) \/ ProcessFails(n) \/ AskReturns(n) \/ GivesUp(n)
           \/ \E i \in DOMAIN backlog : HandleClient(i)
           \/ InjectEvent \/ InjectEventThrows \/ CompanionDies
  BY <1>6, <1>0 DEF ProcessInjects, ProcessFails, AskReturns, GivesUp, HandleClient, InjectEvent, InjectEventThrows, CompanionDies
<1> QED BY <1>4, <1>5, <1>6 DEF AnNext

(* A step keeps the numbering of the requests, and that only the latest      *)
(* waits.                                                                    *)
LEMMA AskedStays ==
  ASSUME AnTyped, Asked, Selected, Queued, AnNext
  PROVE  Asked'
<1>0. Continues /\ SessionsMove /\ UNCHANGED touchConfig /\ askCount \in Nat
  BY StepContinues, AndroidNumbers DEF fixedVars, AnTyped
<1>1. ASSUME NEW n \in Asks, n > askCount' PROVE asks'[n] = Unasked
  <2>1. n > askCount /\ asks'[n] = asks[n]
    BY <1>0, <1>1, AndroidNumbers DEF Continues
  <2> QED BY <2>1 DEF Asked
<1>2. ASSUME NEW n \in 1..askCount PROVE AskedOf(n)'
  <2> DEFINE b == asks[n].of
  <2>1. /\ n \in Asks /\ b \in Sessions /\ asks[n].kind \in Commands \union {"hello"} /\ asks[n].promise # "unsent"
        /\ asks'[n].of = b /\ asks'[n].kind = asks[n].kind
        /\ (asks'[n].reply = "ok" => asks'[n].promise # "rejected") /\ (asks'[n].promise = "resolved" => asks'[n].reply = "ok")
        /\ asks'[n].promise # "unsent" /\ asks'[n] \in AskRecords
    BY <1>0 DEF Continues, Settled, Asked, AskedOf, Ok
  <2>2. asks[n].kind # "hello" =>
          sessions'[b].stage \in {"ready", "closed"} /\ Backend(b)' \in {"instrumentation", "cli"}
    BY <1>0, <2>1, BackendStays DEF SessionsMove, Asked, AskedOf
  <2>3. ASSUME asks'[n].promise = "waiting"
        PROVE  n = askCount' /\ IF asks[n].kind = "hello"
                                THEN sessions'[b].stage = "trying" /\ Backend(b)' = "instrumentation"
                                ELSE sessions'[b].stage = "ready"
    <3>1. asks[n].promise = "waiting"
      BY <1>0, <2>1, <2>3 DEF Continues
    <3>2. n = askCount /\ n \in Waiting
      BY <2>1, <3>1, WaitingIsAsked DEF Waiting
    <3>3. UNCHANGED sessions /\ askCount' = askCount
      BY <3>2, SessionSteps, NewRequests
    <3>4. Backend(b)' = Backend(b)
      BY <1>0, <2>1, <3>3, BackendStays
    <3> QED BY <2>1, <3>1, <3>2, <3>3, <3>4 DEF Asked, AskedOf
  <2>4. Ok(n)' => asks'[n].promise \in {"waiting", "resolved"}
    BY <2>1 DEF Ok, AskRecords
  <2> QED BY <2>1, <2>2, <2>3, <2>4 DEF AskedOf, Ok
<1>3. ASSUME askCount' # askCount, NEW n \in Asks, n = askCount + 1 PROVE AskedOf(n)'
  <2>1. PICK b \in Sessions, kind \in TouchCommands \union {"hello"} : NewOf(b, kind)
    BY <1>3, NewRequests
  <2>2. askCount' = n /\ kind \in Commands \union {"hello"}
    BY <1>3, NewRequests, TouchCommandsAssumption DEF Commands
  <2>3. /\ asks'[n].of = b /\ asks'[n].kind = kind
        /\ asks'[n].promise \in {"waiting", "rejected"} /\ asks'[n].reply = "none"
    BY <1>3, <2>1 DEF NewOf
  <2>4. CASE kind = "hello"
    <3>1. sessions'[b].stage = "trying" /\ Backend(b)' = "instrumentation"
      BY <2>1, <2>4 DEF NewOf
    <3> QED BY <2>2, <2>3, <2>4, <3>1 DEF AskedOf, Ok
  <2>5. CASE kind # "hello"
    <3>1. UNCHANGED sessions /\ sessions[b].stage = "ready" /\ Backend(b) \in {"instrumentation", "cli"}
      BY <2>1, <2>5 DEF NewOf
    <3>2. Backend(b)' = Backend(b)
      BY <1>0, <3>1, BackendStays
    <3> QED BY <2>2, <2>3, <2>5, <3>1, <3>2 DEF AskedOf, Ok
  <2> QED BY <2>4, <2>5
<1>4. \A n \in 1..askCount' : n \in 1..askCount \/ (askCount' # askCount /\ n = askCount + 1 /\ n \in Asks)
  BY <1>0 DEF Continues
<1> QED BY <1>1, <1>2, <1>3, <1>4 DEF Asked

(* One active session stays one.                                             *)
LEMMA OneActiveStays ==
  ASSUME AnTyped, Asked, Selected, AnNext
  PROVE  OneActive'
<1>1. CASE UNCHANGED sessions
  BY <1>1 DEF Selected, OneActive
<1>2. ASSUME NEW b \in Sessions, NEW r, sessions' = [sessions EXCEPT ![b] = r], sessions[b].stage \notin {"failed", "closed"},
             r.stage # "none",
             sessions[b].stage = "none" => \A c \in 1..(b - 1) : sessions[c].stage \in {"failed", "closed"}
      PROVE  OneActive'
  <2> SUFFICES ASSUME NEW c \in Sessions, NEW d \in Sessions, c < d, sessions'[d].stage # "none"
               PROVE  sessions'[c].stage \in {"failed", "closed"}
    BY DEF OneActive
  <2>1. \A e \in Sessions : sessions'[e] = IF e = b THEN r ELSE sessions[e]
    BY <1>2 DEF AnTyped
  <2>2. b \in Nat /\ c \in Nat /\ d \in Nat /\ c > 0
    BY AndroidNumbers
  <2>3. CASE d = b
    <3>1. c \in 1..(b - 1) /\ c # b
      BY <2>2, <2>3
    <3>2. sessions[c].stage \in {"failed", "closed"}
      BY <1>2, <2>3, <3>1 DEF Selected, OneActive
    <3> QED BY <2>1, <3>1, <3>2
  <2>4. CASE d # b
    <3>1. sessions[c].stage \in {"failed", "closed"}
      BY <2>1, <2>4 DEF Selected, OneActive
    <3> QED BY <1>2, <2>1, <3>1
  <2> QED BY <2>3, <2>4
<1>3. ASSUME NEW b \in Sessions, Makes(b) PROVE OneActive'
  <2>1. \E r : sessions' = [sessions EXCEPT ![b] = r] /\ r.stage # "none"
    <3>1. sessions[b].tried \in SUBSET (DOMAIN Order) /\ TriesNext(b, sessions[b].tried)
      BY <1>3 DEF Makes, AnTyped
    <3>2. [stage |-> "failed", tried |-> sessions[b].tried].stage # "none"
          /\ \A i : [stage |-> "trying", tried |-> sessions[b].tried \union {i}].stage # "none"
      OBVIOUS
    <3> QED BY <3>1, <3>2, NextCandidate
  <2> QED BY <1>2, <1>3, <2>1 DEF Makes
<1>4. ASSUME NEW b \in Sessions, Finds(b) \/ Closes(b) PROVE OneActive'
  <2> DEFINE r(stage) == [sessions[b] EXCEPT !.stage = stage]
  <2>1. \E stage \in {"ready", "closed"} : sessions' = [sessions EXCEPT ![b] = r(stage)]
    BY <1>4 DEF Finds, Closes
  <2>2. \A stage \in {"ready", "closed"} : r(stage).stage = stage
    BY DEF AnTyped
  <2>3. sessions[b].stage \in {"trying", "ready"}
    BY <1>4 DEF Finds, Closes
  <2> HIDE DEF r
  <2> QED BY <1>2, <2>1, <2>2, <2>3
<1> QED BY <1>1, <1>3, <1>4, SessionSteps

(* The places a session has tried are the first usable ones.                 *)
FirstOnes(s) ==
  /\ s.stage = "none" => s.tried = {}
  /\ s.stage \in {"trying", "ready", "closed"} => s.tried # {}
  /\ \A i \in s.tried : Usable(Order[i])
  /\ \A i \in DOMAIN Order :
       Usable(Order[i]) /\ (s.stage = "failed" \/ \E j \in s.tried : i < j) => i \in s.tried

(* And what its hello decides.                                               *)
ByItsHello(b) ==
  LET s == sessions[b] IN
  /\ s.stage = "trying" /\ Backend(b) = "instrumentation" =>
       askCount > 0 /\ asks[askCount].of = b /\ asks[askCount].kind = "hello"
  /\ \A n \in Asks : asks[n].of = b /\ asks[n].kind = "hello" /\ asks[n].promise = "resolved" =>
       /\ s.stage \in {"trying", "ready", "closed"} /\ Backend(b) = "instrumentation"
       /\ s.stage = "trying" => n = askCount
  /\ s.stage = "ready" /\ Backend(b) = "instrumentation" =>
       \E n \in Asks : asks[n].of = b /\ asks[n].kind = "hello" /\ asks[n].promise = "resolved"

(* To try the next usable backend leaves no usable one out.                  *)
LEMMA FirstOnesStay ==
  ASSUME AnTyped, Selected, UNCHANGED touchConfig, NEW b \in Sessions, Makes(b)
  PROVE  FirstOnes(sessions'[b])
<1> DEFINE tried == sessions[b].tried
           Records == [stage : SessionStages, tried : SUBSET (DOMAIN Order)]
<1>1. tried \in SUBSET (DOMAIN Order) /\ TriesNext(b, tried) /\ sessions \in [Sessions -> Records]
      /\ FirstOnes(sessions[b]) /\ sessions[b].stage \in {"none", "trying"}
  BY DEF Makes, AnTyped, Selected, SelectedOf, FirstOnes
<1>2. DOMAIN Order = 1..Len(Order) /\ Len(Order) \in Nat
  BY OrderIsSequence DEF AnTyped
<1>3. \A i \in DOMAIN Order : Usable(Order[i]) => i \in tried \/ i \in Left(tried)
  <2> SUFFICES ASSUME NEW i \in DOMAIN Order, Usable(Order[i]), i \notin Left(tried) PROVE i \in tried
    OBVIOUS
  <2>1. PICK j \in tried : ~(j < i)
    BY DEF Left
  <2>2. i = j \/ i < j
    BY <1>1, <1>2, <2>1
  <2> HIDE DEF tried
  <2> QED BY <1>1, <2>1, <2>2 DEF FirstOnes, tried
<1>4. CASE Left(tried) = {} /\ sessions' = [sessions EXCEPT ![b] = [stage |-> "failed", tried |-> tried]]
  <2>1. sessions'[b] = [stage |-> "failed", tried |-> tried]
    BY <1>1, <1>4
  <2>2. \A i \in tried : Usable(Order[i])
    BY <1>1 DEF FirstOnes
  <2> QED BY <1>3, <1>4, <2>1, <2>2 DEF FirstOnes
<1>5. ASSUME NEW i \in Left(tried), \A j \in Left(tried) : i <= j,
             sessions' = [sessions EXCEPT ![b] = [stage |-> "trying", tried |-> tried \union {i}]]
      PROVE  FirstOnes(sessions'[b])
  <2>1. sessions'[b] = [stage |-> "trying", tried |-> tried \union {i}]
    BY <1>1, <1>5
  <2>2. i \in DOMAIN Order /\ Usable(Order[i]) /\ \A j \in tried : Usable(Order[j])
    BY <1>1 DEF FirstOnes, Left
  <2>3. ASSUME NEW j \in DOMAIN Order, Usable(Order[j]), NEW k \in tried \union {i}, j < k
        PROVE  j \in tried \union {i}
    <3>1. CASE j \in tried
      BY <3>1
    <3>2. CASE j \in Left(tried)
      <4>1. \A h \in tried : h < j
        BY <3>2 DEF Left
      <4>2. j \in Nat /\ i \in Nat /\ k \in Nat
        BY <1>1, <1>2, <2>2
      <4>3. i <= j
        BY <1>5, <3>2
      <4> HIDE DEF tried
      <4> QED BY <2>3, <4>1, <4>2, <4>3
    <3> QED BY <1>3, <2>3, <3>1, <3>2
  <2> HIDE DEF tried
  <2> QED BY <2>1, <2>2, <2>3 DEF FirstOnes
<1> QED BY <1>1, <1>4, <1>5, NextCandidate

(* A step keeps that sessions try the usable backends in the order           *)
(* configured.                                                               *)
LEMMA SelectedStays ==
  ASSUME AnTyped, Asked, Selected, Queued, AnNext
  PROVE  Selected'
<1>0. Continues /\ SessionsMove /\ UNCHANGED touchConfig /\ askCount \in Nat /\ askCount' \in Nat
      /\ Order' = Order /\ (\A t : Usable(t)' <=> Usable(t)) /\ OneActive' /\ Asked' /\ AnTyped'
  <2>1. Continues /\ SessionsMove /\ UNCHANGED touchConfig /\ OneActive' /\ Asked' /\ AnTyped'
    BY StepContinues, OneActiveStays, AskedStays, TypedStays DEF fixedVars
  <2>2. askCount \in Nat /\ askCount' \in Nat
    BY <2>1, AndroidNumbers DEF AnTyped, Continues
  <2> QED BY <2>1, <2>2, OrderStays
<1>1. ASSUME NEW b \in Sessions PROVE FirstOnes(sessions'[b])
  <2>1. FirstOnes(sessions[b])
    BY DEF Selected, SelectedOf, FirstOnes
  <2>2. ASSUME NEW c \in Sessions, Makes(c) PROVE FirstOnes(sessions'[b])
    <3>1. CASE b = c
      BY <1>0, <2>2, <3>1, FirstOnesStay
    <3>2. CASE b # c
      <4>1. sessions'[b] = sessions[b]
        <5>1. sessions[c].tried \in SUBSET (DOMAIN Order) /\ TriesNext(c, sessions[c].tried)
          BY <2>2 DEF Makes, AnTyped
        <5>2. \E r : sessions' = [sessions EXCEPT ![c] = r]
          BY <5>1, NextCandidate
        <5> QED BY <3>2, <5>2 DEF AnTyped
      <4> QED BY <2>1, <4>1
    <3> QED BY <3>1, <3>2
  <2>3. ASSUME NEW c \in Sessions, Finds(c) \/ Closes(c) PROVE FirstOnes(sessions'[b])
    <3>1. \/ sessions'[b] = sessions[b]
          \/ /\ sessions[b].stage \in {"trying", "ready"} /\ sessions'[b].stage \in {"ready", "closed"}
             /\ sessions'[b].tried = sessions[b].tried
      BY <2>3 DEF AnTyped, Finds, Closes
    <3> QED BY <2>1, <3>1 DEF FirstOnes
  <2> QED BY <2>1, <2>2, <2>3, SessionSteps
<1>2. ASSUME NEW b \in Sessions, sessions'[b].stage = "trying", Backend(b)' = "instrumentation"
      PROVE  askCount' > 0 /\ asks'[askCount'].of = b /\ asks'[askCount'].kind = "hello"
  <2>1. CASE askCount' # askCount
    <3>1. PICK c \in Sessions, kind \in TouchCommands \union {"hello"} : NewOf(c, kind)
      BY <2>1, NewRequests
    <3>2. sessions'[c].stage \in {"trying", "ready"} /\ (kind # "hello" => sessions'[c].stage = "ready")
      BY <3>1 DEF NewOf
    <3>3. b \in Nat /\ c \in Nat
      BY AndroidNumbers
    <3>4. ~(b < c) /\ ~(c < b)
      BY <1>0, <1>2, <3>2 DEF OneActive
    <3>5. b = c /\ kind = "hello"
      BY <1>2, <3>2, <3>3, <3>4
    <3>6. askCount' = askCount + 1
      BY <2>1, <1>0 DEF Continues
    <3> QED BY <1>0, <3>1, <3>5, <3>6 DEF NewOf
  <2>2. CASE askCount' = askCount
    <3>1. sessions[b].stage = "trying" /\ Backend(b)' = Backend(b)
      <4>1. CASE UNCHANGED sessions
        BY <1>0, <1>2, <4>1, BackendStays
      <4>2. ASSUME NEW c \in Sessions, Makes(c) PROVE FALSE
        <5>1. UNCHANGED <<asks, askCount, serverVars>>
          <6>1. SendCommand(c, "hello") => askCount' = askCount + 1
            BY DEF SendCommand, NewAsk
          <6> QED BY <1>0, <2>2, <4>2, <6>1, Hellos
        <5>2. sessions[c].tried \in SUBSET (DOMAIN Order) /\ TriesNext(c, sessions[c].tried)
              /\ sessions \in [Sessions -> [stage : SessionStages, tried : SUBSET (DOMAIN Order)]]
          BY <4>2 DEF Makes, AnTyped
        <5>3. CASE b # c
          <6>1. sessions'[b] = sessions[b] /\ sessions[c].stage \in {"none", "trying"}
            BY <4>2, <5>2, <5>3, NextCandidate DEF Makes
          <6>2. CASE sessions[c].stage = "trying"
            <7>1. b \in Nat /\ c \in Nat
              BY AndroidNumbers
            <7>2. ~(b < c) /\ ~(c < b)
              BY <1>2, <6>1, <6>2 DEF Selected, OneActive
            <7> QED BY <5>3, <7>1, <7>2
          <6>3. CASE sessions[c].stage = "none"
            <7>1. b \in Nat /\ c \in Nat /\ b > 0
              BY AndroidNumbers
            <7>2. ~(b < c)
              BY <1>2, <4>2, <6>1, <6>3, <7>1 DEF Makes
            <7>3. ~(c < b)
              BY <1>2, <6>1, <6>3 DEF Selected, OneActive
            <7> QED BY <5>3, <7>1, <7>2, <7>3
          <6> QED BY <6>1, <6>2, <6>3
        <5>4. CASE b = c
          <6>1. PICK i \in Left(sessions[c].tried) :
                  /\ Max(sessions[c].tried \union {i}) = i
                  /\ sessions' = [sessions EXCEPT ![c] = [stage |-> "trying", tried |-> sessions[c].tried \union {i}]]
                  /\ StartsInit(c, Order[i])
            <7>1. ~(sessions' = [sessions EXCEPT ![c] = [stage |-> "failed", tried |-> sessions[c].tried]])
              BY <1>2, <5>2, <5>4
            <7> QED BY <5>2, <7>1, NextCandidate
          <6>2. sessions'[b].tried = sessions[c].tried \union {i}
            BY <5>2, <5>4, <6>1
          <6>3. Order[i] = "instrumentation"
            BY <1>0, <1>2, <6>1, <6>2 DEF Backend
          <6>4. askCount' = askCount + 1
            BY <6>1, <6>3 DEF StartsInit, SendCommand, NewAsk
          <6> QED BY <1>0, <2>2, <6>4
        <5> QED BY <5>3, <5>4
      <4>3. ASSUME NEW c \in Sessions, Finds(c) \/ Closes(c) PROVE sessions'[b] = sessions[b]
        BY <1>2, <4>3 DEF Finds, Closes, AnTyped
      <4> QED BY <1>0, <1>2, <4>1, <4>2, <4>3, SessionSteps, BackendStays
    <3>2. askCount > 0 /\ asks[askCount].of = b /\ asks[askCount].kind = "hello"
      BY <1>2, <3>1 DEF Selected, SelectedOf
    <3>3. askCount \in 1..askCount
      BY <1>0, <3>2
    <3> QED BY <1>0, <2>2, <3>2, <3>3 DEF Continues
  <2> QED BY <2>1, <2>2
<1>3. ASSUME NEW b \in Sessions, NEW n \in Asks, asks'[n].of = b, asks'[n].kind = "hello", asks'[n].promise = "resolved"
      PROVE  /\ sessions'[b].stage \in {"trying", "ready", "closed"} /\ Backend(b)' = "instrumentation"
             /\ sessions'[b].stage = "trying" => n = askCount'
  <2>1. n \in 1..askCount
    <3>1. n <= askCount'
      BY <1>0, <1>3, AndroidNumbers DEF Asked, Unasked
    <3>2. ~(askCount' = askCount + 1 /\ n = askCount + 1)
      <4> SUFFICES ASSUME askCount' = askCount + 1, n = askCount + 1 PROVE FALSE
        OBVIOUS
      <4>1. asks'[n].promise \in {"waiting", "rejected"}
        BY <1>0, NewRequests DEF NewOf
      <4> QED BY <1>3, <4>1
    <3> QED BY <1>0, <3>1, <3>2, AndroidNumbers DEF Continues
  <2>2. asks[n].of = b /\ asks[n].kind = "hello"
    BY <1>0, <1>3, <2>1 DEF Continues
  <2>3. CASE asks[n].promise = "resolved"
    <3>1. /\ sessions[b].stage \in {"trying", "ready", "closed"} /\ Backend(b) = "instrumentation"
          /\ sessions[b].stage = "trying" => n = askCount
      BY <2>2, <2>3 DEF Selected, SelectedOf
    <3>2. sessions'[b].stage \in {"trying", "ready", "closed"} /\ sessions'[b].tried = sessions[b].tried
          /\ (sessions'[b].stage = "trying" => sessions[b].stage = "trying")
      <4>1. ASSUME NEW c \in Sessions, Makes(c) PROVE sessions'[b] = sessions[b]
        <5>1. b # c
          <6> SUFFICES ASSUME b = c PROVE FALSE
            OBVIOUS
          <6>1. sessions[b].stage = "trying" /\ n = askCount /\ asks[askCount].promise = "rejected"
            BY <3>1, <4>1 DEF Makes
          <6> QED BY <2>3, <6>1
        <5>2. sessions[c].tried \in SUBSET (DOMAIN Order) /\ TriesNext(c, sessions[c].tried)
          BY <4>1 DEF Makes, AnTyped
        <5>3. \E r : sessions' = [sessions EXCEPT ![c] = r]
          BY <5>2, NextCandidate
        <5> QED BY <5>1, <5>3 DEF AnTyped
      <4>2. ASSUME NEW c \in Sessions, Finds(c) \/ Closes(c)
            PROVE  /\ sessions'[b].tried = sessions[b].tried
                   /\ sessions'[b] = sessions[b] \/ sessions'[b].stage \in {"ready", "closed"}
        BY <4>2 DEF Finds, Closes, AnTyped
      <4> QED BY <3>1, <4>1, <4>2, SessionSteps
    <3>3. Backend(b)' = Backend(b)
      BY <1>0, <3>2, BackendStays
    <3>4. sessions'[b].stage = "trying" => askCount' = askCount
      <4> SUFFICES ASSUME sessions'[b].stage = "trying", askCount' # askCount PROVE FALSE
        OBVIOUS
      <4>1. asks'[askCount + 1].kind = "hello" /\ asks'[askCount + 1].of = b /\ askCount' = askCount + 1
        BY <1>0, <1>2, <3>1, <3>3 DEF Continues
      <4>2. PICK c \in Sessions, kind \in TouchCommands \union {"hello"} : NewOf(c, kind)
        BY NewRequests
      <4>3. c = b /\ Makes(b)
        BY <4>1, <4>2 DEF NewOf
      <4>4. sessions[b].stage = "trying" /\ n = askCount
        BY <3>1, <3>2
      <4>5. asks[askCount].promise = "rejected"
        BY <3>1, <4>3, <4>4 DEF Makes
      <4> QED BY <2>3, <4>4, <4>5
    <3> QED BY <3>1, <3>2, <3>3, <3>4
  <2>4. CASE asks[n].promise # "resolved"
    <3>1. asks'[n] # asks[n]
      BY <1>3, <2>4
    <3>2. n = askCount /\ asks[n].promise = "waiting" /\ askCount' = askCount /\ n = askCount'
      BY <1>0, <2>1, <3>1 DEF Continues
    <3>3. n \in Waiting
      BY <3>2 DEF Waiting
    <3>4. UNCHANGED sessions
      BY <3>3, SessionSteps
    <3>5. sessions[b].stage = "trying" /\ Backend(b) = "instrumentation"
      BY <2>1, <2>2, <3>2 DEF Asked, AskedOf
    <3> QED BY <1>0, <3>2, <3>4, <3>5, BackendStays
  <2> QED BY <2>3, <2>4
<1>4. ASSUME NEW b \in Sessions, sessions'[b].stage = "ready", Backend(b)' = "instrumentation"
      PROVE  \E n \in Asks : asks'[n].of = b /\ asks'[n].kind = "hello" /\ asks'[n].promise = "resolved"
  <2>1. sessions[b].stage \in {"ready", "trying"} /\ Backend(b) = "instrumentation"
        /\ (sessions[b].stage = "trying" => Finds(b))
    <3>1. ASSUME NEW c \in Sessions, Makes(c) PROVE sessions'[b] = sessions[b]
      <4>1. sessions[c].tried \in SUBSET (DOMAIN Order) /\ TriesNext(c, sessions[c].tried)
            /\ sessions \in [Sessions -> [stage : SessionStages, tried : SUBSET (DOMAIN Order)]]
        BY <3>1 DEF Makes, AnTyped
      <4>2. \E r : r.stage \in {"trying", "failed"} /\ sessions' = [sessions EXCEPT ![c] = r]
        <5> DEFINE fails == [stage |-> "failed", tried |-> sessions[c].tried]
                   tries(i) == [stage |-> "trying", tried |-> sessions[c].tried \union {i}]
        <5>1. fails.stage = "failed" /\ \A i : tries(i).stage = "trying"
          OBVIOUS
        <5>2. \/ sessions' = [sessions EXCEPT ![c] = fails]
              \/ \E i : sessions' = [sessions EXCEPT ![c] = tries(i)]
          BY <4>1, NextCandidate
        <5> HIDE DEF fails, tries
        <5> QED BY <5>1, <5>2
      <4> QED BY <1>4, <4>1, <4>2
    <3>2. ASSUME NEW c \in Sessions, Finds(c) \/ Closes(c)
          PROVE  sessions'[b] = sessions[b]
                 \/ (sessions[b].stage = "trying" /\ sessions'[b].tried = sessions[b].tried /\ Finds(b))
      BY <1>4, <3>2 DEF Finds, Closes, AnTyped
    <3>3. sessions'[b] = sessions[b]
          \/ (sessions[b].stage = "trying" /\ sessions'[b].tried = sessions[b].tried /\ Finds(b))
      BY <3>1, <3>2, SessionSteps
    <3>4. Backend(b)' = Backend(b)
      BY <1>0, <3>3, BackendStays
    <3> QED BY <1>4, <3>3, <3>4
  <2>2. \E n \in Asks : n \in 1..askCount /\ asks[n].of = b /\ asks[n].kind = "hello" /\ asks[n].promise = "resolved"
    <3>1. CASE sessions[b].stage = "ready"
      <4>1. PICK n \in Asks : asks[n].of = b /\ asks[n].kind = "hello" /\ asks[n].promise = "resolved"
        BY <2>1, <3>1 DEF Selected, SelectedOf
      <4>2. n \in 1..askCount
        BY <1>0, <4>1, AndroidNumbers DEF Asked, Unasked
      <4> QED BY <4>1, <4>2
    <3>2. CASE sessions[b].stage = "trying"
      <4>1. askCount > 0 /\ asks[askCount].of = b /\ asks[askCount].kind = "hello" /\ asks[askCount].promise = "resolved"
        BY <2>1, <3>2 DEF Selected, SelectedOf, Finds
      <4>2. askCount \in Asks /\ askCount \in 1..askCount
        BY <1>0, <4>1, AndroidNumbers DEF AnTyped
      <4> QED BY <4>1, <4>2
    <3> QED BY <2>1, <3>1, <3>2
  <2> QED BY <1>0, <2>2 DEF Continues
<1>5. ASSUME NEW b \in Sessions PROVE SelectedOf(b)'
  <2>1. FirstOnes(sessions'[b])
    BY <1>1
  <2> QED BY <1>0, <1>2, <1>3, <1>4, <2>1 DEF SelectedOf, FirstOnes
<1> QED BY <1>0, <1>5 DEF Selected

(* How a command comes to be answered with ok.                               *)
Injects(n) == ProcessInjects(n)

(* A companion answers a command that is not one to inject: a hello, or a    *)
(* move or an up without a finger down.                                      *)
NothingToDo(n) ==
  /\ \E i \in DOMAIN backlog : HandleClient(i) /\ n = backlog[i]
  /\ EventsFor(n) = <<>> /\ handling' = handling

(* The companion injects the last event of the command it performs.          *)
Finishes(n) == InjectEvent /\ n = handling.ask /\ Tail(handling.todo) = <<>> /\ handling' = NoWork /\ EndsTouch(n)

(* A request is answered with ok only while it is the latest, waited for,    *)
(* and when its last event is injected or it has none.                       *)
LEMMA NewOks ==
  ASSUME AnTyped, Asked, Selected, Queued, AnNext, NEW n \in Asks, asks'[n].reply = "ok", asks[n].reply # "ok"
  PROVE  /\ n = askCount /\ n \in 1..askCount /\ askCount' = askCount /\ asks[n].promise = "waiting"
         /\ UNCHANGED sessions
         /\ Injects(n) \/ NothingToDo(n) \/ Finishes(n)
<1>0. Continues
  BY StepContinues
<1>1. askCount' = askCount
  <2> SUFFICES ASSUME askCount' # askCount PROVE FALSE
    OBVIOUS
  <2>1. askCount' = askCount + 1 /\ asks'[askCount + 1].reply = "none" /\ n = askCount'
    BY <1>0 DEF Continues
  <2> QED BY <2>1
<1>2. asks[n].promise = "waiting" /\ n = askCount /\ n \in 1..askCount
  <2>1. n = askCount
    BY <1>0, <1>1 DEF Continues
  <2>2. n \in 1..askCount
    BY <2>1, AndroidNumbers
  <2> QED BY <1>0, <2>1, <2>2 DEF Continues
<1>3. UNCHANGED sessions
  <2>1. n \in Waiting
    BY <1>2 DEF Waiting
  <2> QED BY <2>1, SessionSteps
<1>a. \A m, reply : Answers(m, reply) => m = n /\ reply = "ok"
  <2> SUFFICES ASSUME NEW m, NEW reply, Answers(m, reply) PROVE m = n /\ reply = "ok"
    OBVIOUS
  <2>1. asks' # asks
    OBVIOUS
  <2>2. asks' = [asks EXCEPT ![m].reply = reply]
    BY <2>1 DEF Answers
  <2> QED BY <2>2 DEF AnTyped, AskRecords
<1>b. asks' # asks
  OBVIOUS
<1>4. ASSUME NEW m \in Asks, AskReturns(m) \/ GivesUp(m) PROVE FALSE
  <2>0. asks \in [Asks -> AskRecords]
    BY DEF AnTyped
  <2>1. AskReturns(m) => asks'[n].reply = asks[n].reply
    BY <2>0 DEF AskReturns, AskRecords
  <2>2. GivesUp(m) => asks'[n].reply \in {asks[n].reply, "none"}
    <3> SUFFICES ASSUME GivesUp(m) PROVE asks'[n].reply \in {asks[n].reply, "none"}
      OBVIOUS
    <3>1. asks' = [asks EXCEPT ![m] = [asks[m] EXCEPT !.promise = "rejected", !.reply = "none"]]
      BY <2>0 DEF GivesUp
    <3>2. [asks[m] EXCEPT !.promise = "rejected", !.reply = "none"].reply = "none"
      BY <2>0 DEF AskRecords
    <3> QED BY <2>0, <3>1, <3>2
  <2> QED BY <1>4, <2>1, <2>2
<1>5. CASE \E m \in Asks : ProcessInjects(m) \/ ProcessFails(m) \/ AskReturns(m) \/ GivesUp(m)
  <2>1. PICK m \in Asks : ProcessInjects(m) \/ ProcessFails(m)
    BY <1>4, <1>5
  <2>2. ~ProcessFails(m)
    BY <1>a DEF ProcessFails
  <2>3. ProcessInjects(m) /\ m = n
    BY <1>a, <2>1, <2>2 DEF ProcessInjects
  <2> QED BY <1>1, <1>2, <1>3, <2>3 DEF Injects
<1>6. CASE \E i \in DOMAIN backlog : HandleClient(i)
  <2>1. PICK i \in DOMAIN backlog : HandleClient(i)
    BY <1>6
  <2>2. EventsFor(backlog[i]) = <<>> /\ Answers(backlog[i], "ok") /\ UNCHANGED handling
    BY <1>a, <1>b, <2>1 DEF HandleClient
  <2>3. backlog[i] = n
    BY <1>a, <2>2
  <2> QED BY <1>1, <1>2, <1>3, <2>1, <2>2, <2>3 DEF NothingToDo
<1>7. CASE InjectEvent
  <2>1. Tail(handling.todo) = <<>> /\ Answers(handling.ask, "ok") /\ handling' = NoWork /\ EndsTouch(handling.ask)
    BY <1>b, <1>7 DEF InjectEvent
  <2>2. handling.ask = n
    BY <1>a, <2>1
  <2> QED BY <1>1, <1>2, <1>3, <1>7, <2>1, <2>2 DEF Finishes
<1>8. CASE InjectEventThrows
  BY <1>8, <1>a DEF InjectEventThrows
<1>9. CASE CompanionDies
  BY <1>9 DEF CompanionDies
<1>10. CASE \E b \in Sessions : CreateTouchBackend(b) \/ InitSucceeds(b) \/ InitFails(b) \/ Leaves(b)
  <2>1. UNCHANGED <<asks, askCount>> \/ askCount' = askCount + 1
    <3>1. ASSUME NEW b \in Sessions, NEW tried \in SUBSET (DOMAIN Order), TriesNext(b, tried)
          PROVE  UNCHANGED <<asks, askCount>> \/ askCount' = askCount + 1
      BY <3>1, NextCandidate DEF StartsInit, SendCommand, NewAsk
    <3>2. \A b \in Sessions : sessions[b].tried \in SUBSET (DOMAIN Order)
      BY DEF AnTyped
    <3> QED BY <1>10, <3>1, <3>2 DEF CreateTouchBackend, InitFails, InitSucceeds, Leaves
  <2>2. askCount \in Nat
    BY <1>2
  <2> QED BY <1>1, <2>1, <2>2
<1>11. CASE \E b \in Sessions, kind \in TouchCommands :
              InstrumentationCommand(b, kind) \/ CliRefuses(b, kind) \/ CliRuns(b, kind)
  <2>1. askCount' = askCount + 1
    BY <1>11 DEF InstrumentationCommand, CliRefuses, CliRuns, SendCommand, NewAsk
  <2>2. askCount \in Nat
    BY <1>2
  <2> QED BY <1>1, <2>1, <2>2
<1> QED BY <1>5, <1>6, <1>7, <1>8, <1>9, <1>10, <1>11 DEF AnNext

(* A new request that goes to the companion, and one of adb.                 *)
LEMMA SendsOverHttp ==
  ASSUME AnTyped, Asked, Selected, Queued, AnNext, Sends
  PROVE  /\ askCount' = askCount + 1 /\ askCount + 1 \in Asks /\ serving' = serving
         /\ \A n \in Asks : n = askCount + 1 => OverHttp(n)'
         /\ UNCHANGED <<handling, activeDown, lastXY, running, stream>>
         /\ ~serving => backlog' = backlog
         /\ serving => /\ DOMAIN backlog' = 1..(Len(backlog) + 1)
                       /\ \A i \in 1..Len(backlog) : backlog'[i] = backlog[i]
                       /\ backlog'[Len(backlog) + 1] = askCount + 1
         /\ DOMAIN backlog = 1..Len(backlog) /\ Len(backlog) \in Nat
<1>0. Continues /\ SessionsMove /\ UNCHANGED touchConfig
  BY StepContinues DEF fixedVars
<1>1. PICK b \in Sessions, kind \in Commands \union {"hello"} :
        /\ SendCommand(b, kind) /\ UNCHANGED <<cliVars, stream>>
        /\ kind # "hello" => Backend(b) = "instrumentation" /\ sessions[b].stage = "ready"
  BY DEF Sends
<1>2. askCount' = askCount + 1 /\ askCount + 1 \in Asks /\ asks'[askCount + 1].of = b /\ asks'[askCount + 1].kind = kind
  BY <1>0, <1>1 DEF SendCommand, NewAsk, AnTyped, Continues
<1>3. ASSUME NEW n \in Asks, n = askCount + 1 PROVE OverHttp(n)'
  <2>1. CASE kind = "hello"
    BY <1>2, <1>3, <2>1 DEF OverHttp
  <2>2. CASE kind # "hello"
    <3>1. Backend(b)' = "instrumentation"
      BY <1>0, <1>1, <2>2, BackendStays DEF SessionsMove
    <3>2. asks'[n].of = b
      BY <1>2, <1>3
    <3> QED BY <3>1, <3>2 DEF OverHttp
  <2> QED BY <2>1, <2>2
<1>4. serving' = serving /\ UNCHANGED <<handling, activeDown, lastXY, running, stream>>
      /\ backlog' = (IF serving THEN Append(backlog, askCount + 1) ELSE backlog)
  BY <1>1 DEF SendCommand, cliVars
<1>5. backlog \in Seq(Asks) /\ DOMAIN backlog = 1..Len(backlog) /\ Len(backlog) \in Nat
  BY LenProperties DEF AnTyped
<1>6. ASSUME serving
      PROVE  /\ DOMAIN backlog' = 1..(Len(backlog) + 1)
             /\ \A i \in 1..Len(backlog) : backlog'[i] = backlog[i]
             /\ backlog'[Len(backlog) + 1] = askCount + 1
  <2>1. backlog' = Append(backlog, askCount + 1)
    BY <1>4, <1>6
  <2>2. /\ backlog' \in Seq(Asks) /\ Len(backlog') = Len(backlog) + 1
        /\ \A i \in 1..Len(backlog) : backlog'[i] = backlog[i]
        /\ backlog'[Len(backlog) + 1] = askCount + 1
    BY <1>2, <1>5, <2>1, AppendProperties
  <2> QED BY <2>2, LenProperties
<1> QED BY <1>2, <1>3, <1>4, <1>5, <1>6

(* Where a connection of the companion comes from.                           *)
LEMMA QueueFrom ==
  ASSUME AnTyped, Asked, Selected, Queued, AnNext, NEW i \in DOMAIN backlog'
  PROVE  \/ /\ i \in DOMAIN backlog /\ backlog'[i] = backlog[i]
            /\ UNCHANGED backlog \/ Sends
         \/ /\ Sends /\ backlog'[i] = askCount + 1 /\ serving
            /\ i = Len(backlog) + 1
         \/ /\ i + 1 \in DOMAIN backlog /\ backlog'[i] = backlog[i + 1] /\ HandleClient(1) /\ backlog[1] < backlog'[i]
            /\ 1 \in DOMAIN backlog
<1>1. CASE UNCHANGED backlog
  BY <1>1
<1>2. CASE Sends
  <2>1. CASE serving
    BY <1>2, <2>1, SendsOverHttp
  <2>2. CASE ~serving
    BY <1>2, <2>2, SendsOverHttp
  <2> QED BY <2>1, <2>2
<1>3. ASSUME NEW j \in DOMAIN backlog, HandleClient(j)
      PROVE  i + 1 \in DOMAIN backlog /\ backlog'[i] = backlog[i + 1] /\ HandleClient(1) /\ backlog[1] < backlog'[i]
             /\ 1 \in DOMAIN backlog
  BY <1>3, Accepting
<1>4. CASE CompanionDies
  <2>1. backlog' = <<>>
    BY <1>4 DEF CompanionDies
  <2> QED BY <2>1
<1> QED BY <1>1, <1>2, <1>3, <1>4, WhatChanges DEF GivesUp

(* What the companion works on, and what becomes of it.                      *)
LEMMA HandlingFrom ==
  ASSUME AnTyped, Asked, Selected, Queued, AnNext
  PROVE  \/ UNCHANGED handling
         \/ handling' = NoWork /\ (InjectEvent \/ InjectEventThrows \/ CompanionDies)
         \/ /\ HandleClient(1) /\ handling' = [ask |-> backlog[1], todo |-> EventsFor(backlog[1])]
            /\ EventsFor(backlog[1]) # <<>> /\ 1 \in DOMAIN backlog
         \/ /\ InjectEvent /\ handling' = [handling EXCEPT !.todo = Tail(handling.todo)]
            /\ Tail(handling.todo) # <<>>
<1>1. ASSUME NEW i \in DOMAIN backlog, HandleClient(i), ~UNCHANGED handling
      PROVE  HandleClient(1) /\ handling' = [ask |-> backlog[1], todo |-> EventsFor(backlog[1])]
             /\ EventsFor(backlog[1]) # <<>> /\ 1 \in DOMAIN backlog
  <2>1. i = 1
    BY <1>1, Accepting
  <2> QED BY <1>1, <2>1 DEF HandleClient
<1>2. ASSUME InjectEvent
      PROVE  \/ handling' = NoWork
             \/ handling' = [handling EXCEPT !.todo = Tail(handling.todo)] /\ Tail(handling.todo) # <<>>
  BY <1>2 DEF InjectEvent
<1> QED BY <1>1, <1>2, WhatChanges DEF InjectEventThrows, CompanionDies

(* What has events is a command.                                             *)
LEMMA HelloHasNoEvents ==
  ASSUME NEW n, EventsFor(n) # <<>>
  PROVE  asks[n].kind \in Commands
BY DEF EventsFor, Commands

(* A step keeps the order of the connections: what the companion has         *)
(* answered is behind all it still has to do.                                *)
LEMMA QueuedStays ==
  ASSUME AnTyped, Asked, Selected, Queued, AnNext
  PROVE  Queued'
<1>0. Continues /\ SessionsMove /\ UNCHANGED touchConfig /\ AnTyped'
  BY StepContinues, TypedStays DEF fixedVars
<1>a. /\ askCount \in Nat /\ askCount' \in Nat /\ askCount <= askCount' /\ askCount' <= MaxAsks
      /\ \A n \in 1..askCount : n \in Asks /\ n \in 1..askCount'
      /\ \A n \in 1..askCount' : n \in Asks
      /\ handling.ask \in Nat /\ handling.ask <= askCount /\ NoWork.ask = 0 /\ handling'.ask \in Nat
  <2>1. askCount \in Nat /\ askCount' \in Nat /\ askCount <= askCount' /\ askCount' <= MaxAsks
    BY <1>0, AndroidNumbers DEF Continues, AnTyped
  <2>2. handling = NoWork \/ handling.ask \in 1..askCount
    BY DEF Queued
  <2>3. NoWork.ask = 0
    BY DEF NoWork, NoAsk
  <2>4. handling'.ask \in Nat
    <3>1. handling'.ask \in {NoAsk} \union Asks
      BY <1>0 DEF AnTyped
    <3> QED BY <3>1, AndroidNumbers
  <2> QED BY <2>1, <2>2, <2>3, <2>4, AndroidNumbers
<1>b. \A n \in 1..askCount : OverHttp(n)' <=> OverHttp(n)
  BY <1>0 DEF Continues
<1>c. \A i \in DOMAIN backlog : backlog[i] \in 1..askCount /\ backlog[i] \in Nat /\ handling.ask < backlog[i] /\ OverHttp(backlog[i])
  <2> SUFFICES ASSUME NEW i \in DOMAIN backlog
               PROVE  backlog[i] \in 1..askCount /\ backlog[i] \in Nat /\ handling.ask < backlog[i] /\ OverHttp(backlog[i])
    OBVIOUS
  <2>1. backlog[i] \in Asks /\ backlog[i] <= askCount
    BY LenProperties, ElementOfSeq DEF AnTyped
  <2> QED BY <1>a, <2>1, AndroidNumbers DEF Queued, QueuedAt
<1>d. /\ handling' = handling \/ handling'.ask = 0 \/ handling'.ask = handling.ask
         \/ (HandleClient(1) /\ handling'.ask = backlog[1])
  BY <1>a, HandlingFrom DEF AnTyped
<1>e. Sends => askCount' = askCount + 1 /\ UNCHANGED <<handling, activeDown, lastXY, running, stream>>
  BY SendsOverHttp
<1>1. ASSUME NEW i \in DOMAIN backlog' PROVE QueuedAt(i)'
  <2>1. OverHttp(backlog[i])' /\ handling'.ask < backlog'[i]
    <3>1. CASE i \in DOMAIN backlog /\ backlog'[i] = backlog[i] /\ (UNCHANGED backlog \/ Sends)
      <4>1. ~HandleClient(1)
        <5>1. Sends => ~HandleClient(1)
          BY <1>a, <1>e DEF HandleClient
        <5>2. HandleClient(1) /\ UNCHANGED backlog => FALSE
          <6> SUFFICES ASSUME HandleClient(1), UNCHANGED backlog PROVE FALSE
            OBVIOUS
          <6>1. 1 \in DOMAIN backlog
            BY <3>1, LenProperties DEF AnTyped
          <6>2. Len(backlog') = Len(backlog) - 1 /\ Len(backlog) \in Nat
            BY <6>1, Accepting
          <6> QED BY <6>2
        <5> QED BY <3>1, <5>1, <5>2
      <4>2. handling'.ask < backlog'[i]
        BY <1>a, <1>c, <1>d, <3>1, <4>1
      <4>3. OverHttp(backlog[i])'
        BY <1>b, <1>c, <3>1
      <4> QED BY <4>2, <4>3
    <3>2. CASE Sends /\ backlog'[i] = askCount + 1
      <4>1. handling' = handling
        BY <1>e, <3>2
      <4> QED BY <1>a, <3>2, <4>1, SendsOverHttp
    <3>3. CASE i + 1 \in DOMAIN backlog /\ backlog'[i] = backlog[i + 1] /\ HandleClient(1) /\ backlog[1] < backlog'[i]
      <4>1. handling'.ask < backlog'[i]
        BY <1>a, <1>c, <1>d, <3>3
      <4> QED BY <1>b, <1>c, <3>3, <4>1
    <3> QED BY <3>1, <3>2, <3>3, QueueFrom
  <2>2. ASSUME NEW j \in DOMAIN backlog', i < j PROVE backlog'[i] < backlog'[j]
    <3>1. CASE Sends
      <4>1. DOMAIN backlog = 1..Len(backlog) /\ Len(backlog) \in Nat
        BY <3>1, SendsOverHttp
      <4>2. CASE serving
        <5>1. i \in DOMAIN backlog /\ backlog'[i] = backlog[i]
          BY <2>2, <3>1, <4>1, <4>2, SendsOverHttp
        <5>2. (j \in DOMAIN backlog /\ backlog'[j] = backlog[j]) \/ backlog'[j] = askCount + 1
          BY <3>1, <4>1, <4>2, SendsOverHttp
        <5> QED BY <1>a, <1>c, <2>2, <5>1, <5>2 DEF Queued, QueuedAt
      <4>3. CASE ~serving
        BY <2>2, <3>1, <4>3, SendsOverHttp DEF Queued, QueuedAt
      <4> QED BY <4>2, <4>3
    <3>2. CASE HandleClient(1) /\ ~UNCHANGED backlog /\ ~Sends
      <4>1. 1 \in DOMAIN backlog /\ DOMAIN backlog = 1..Len(backlog) /\ Len(backlog) \in Nat
        BY <3>2, QueueFrom, LenProperties DEF AnTyped
      <4>2. i + 1 \in DOMAIN backlog /\ backlog'[i] = backlog[i + 1] /\ j + 1 \in DOMAIN backlog /\ backlog'[j] = backlog[j + 1]
        BY <3>2, <4>1, Accepting
      <4>3. DOMAIN backlog' = 1..Len(backlog')
        BY <3>2, <4>1, Accepting
      <4>4. i + 1 < j + 1
        BY <2>2, <4>3
      <4> QED BY <4>2, <4>4 DEF Queued, QueuedAt
    <3>3. CASE UNCHANGED backlog
      BY <2>2, <3>3 DEF Queued, QueuedAt
    <3> QED BY <3>1, <3>2, <3>3, QueueFrom
  <2> QED BY <2>1, <2>2 DEF QueuedAt
<1>2. ASSUME NEW n \in running' PROVE ~OverHttp(n)' /\ asks'[n].at \in Asks /\ (asks'[n].kind # "up" => asks'[n].at = n)
  <2>1. CASE n \in running
    <3>1. n \in 1..askCount
      BY <2>1 DEF AnTyped
    <3> QED BY <1>0, <1>b, <2>1, <3>1 DEF Queued, Continues
  <2>2. ASSUME NEW b \in Sessions, NEW kind \in TouchCommands, CliRuns(b, kind), n = askCount + 1
        PROVE  ~OverHttp(n)' /\ asks'[n].at \in Asks /\ (asks'[n].kind # "up" => asks'[n].at = n)
    <3>1. askCount' = askCount + 1 /\ n \in Asks
      BY <1>0, <2>2 DEF CliRuns, NewAsk, Continues
    <3>2. NewAsk(b, kind, IF kind = "up" THEN lastPoint[b] ELSE askCount + 1, "waiting")
      BY <2>2 DEF CliRuns
    <3>3. /\ asks'[n].kind = kind /\ asks'[n].of = b
          /\ asks'[n].at = (IF kind = "up" THEN lastPoint[b] ELSE askCount + 1)
      BY <2>2, <3>1, <3>2 DEF NewAsk, AnTyped
    <3>4. kind = "up" => lastPoint[b] \in Asks
      BY <2>2, AndroidNumbers DEF CliRuns, AnTyped
    <3>5. kind # "hello" /\ Backend(b) = "cli" /\ UNCHANGED sessions
      BY <2>2, TouchCommandsAssumption DEF CliRuns, Ready
    <3>6. Backend(b)' = "cli"
      BY <1>0, <3>5, BackendStays
    <3> QED BY <2>2, <3>1, <3>3, <3>4, <3>5, <3>6 DEF OverHttp
  <2>3. n \in running \/ \E b \in Sessions, kind \in TouchCommands : CliRuns(b, kind) /\ n = askCount + 1
    BY WhatChanges DEF CliRuns, ProcessInjects, ProcessFails, GivesUp, AdbKilled
  <2> QED BY <2>1, <2>2, <2>3
<1>3. ASSUME ~serving' PROVE backlog' = <<>> /\ handling' = NoWork
  <2>1. CASE serving
    <3>1. CompanionDies
      BY <1>3, <2>1, WhatChanges, SendsOverHttp DEF HandleClient, GivesUp
    <3> QED BY <3>1 DEF CompanionDies
  <2>2. CASE ~serving
    <3>1. backlog = <<>> /\ handling = NoWork
      BY <2>2 DEF Queued
    <3>2. UNCHANGED backlog
      <4>1. (\E i \in DOMAIN backlog : HandleClient(i)) => FALSE
        BY <3>1
      <4>2. Sends => UNCHANGED backlog
        BY <2>2, SendsOverHttp
      <4> QED BY <2>2, <4>1, <4>2, WhatChanges DEF GivesUp, CompanionDies
    <3>3. UNCHANGED handling
      <4>1. (\E i \in DOMAIN backlog : HandleClient(i)) => FALSE
        BY <3>1
      <4> QED BY <2>2, <3>1, <4>1, WhatChanges DEF CompanionDies, InjectEvent, InjectEventThrows
    <3> QED BY <3>1, <3>2, <3>3
  <2> QED BY <2>1, <2>2
<1>4. ASSUME handling' # NoWork
      PROVE  /\ handling'.ask \in 1..askCount' /\ OverHttp(handling.ask)'
             /\ asks'[handling'.ask].kind # "hello" /\ handling'.todo # <<>>
  <2>1. CASE HandleClient(1) /\ handling' = [ask |-> backlog[1], todo |-> EventsFor(backlog[1])] /\ EventsFor(backlog[1]) # <<>>
             /\ 1 \in DOMAIN backlog
    <3>2. asks[backlog[1]].kind # "hello"
      BY <2>1, HelloHasNoEvents DEF Commands
    <3>3. handling'.ask = backlog[1] /\ handling'.todo # <<>>
      BY <2>1
    <3> QED BY <1>0, <1>a, <1>b, <1>c, <2>1, <3>2, <3>3 DEF Continues
  <2>2. CASE handling # NoWork /\ handling'.ask = handling.ask /\ handling'.todo # <<>>
    <3>1. handling.ask \in 1..askCount /\ OverHttp(handling.ask) /\ asks[handling.ask].kind # "hello"
      BY <2>2 DEF Queued
    <3> QED BY <1>0, <1>a, <1>b, <2>2, <3>1 DEF Continues
  <2>3. UNCHANGED handling => handling # NoWork /\ handling'.ask = handling.ask /\ handling'.todo # <<>>
    BY <1>4 DEF Queued
  <2>4. InjectEvent /\ handling' = [handling EXCEPT !.todo = Tail(handling.todo)] /\ Tail(handling.todo) # <<>>
        => handling # NoWork /\ handling'.ask = handling.ask /\ handling'.todo # <<>>
    BY DEF InjectEvent, AnTyped
  <2> QED BY <1>4, <2>1, <2>2, <2>3, <2>4, HandlingFrom
<1>5. ASSUME NEW n \in 1..askCount', Ok(n)'
      PROVE  n \notin running' /\ (OverHttp(n)' => Behind(n)')
  <2>1. n \in 1..askCount
    BY <1>0, <1>5 DEF Ok, Continues
  <2>2. n \in Asks /\ (OverHttp(n)' <=> OverHttp(n))
    BY <1>a, <1>b, <2>1
  <2>3. ASSUME n \notin running PROVE n \notin running'
    <3>1. running' \subseteq running \union {askCount + 1}
      BY WhatChanges DEF CliRuns, ProcessInjects, ProcessFails, GivesUp, AdbKilled
    <3>2. n # askCount + 1
      BY <1>a, <2>1
    <3> QED BY <2>3, <3>1, <3>2
  <2>4. ASSUME OverHttp(n), \A i \in DOMAIN backlog : n < backlog[i], handling # NoWork => n < handling.ask
        PROVE  Behind(n)'
    <3>1. ASSUME NEW i \in DOMAIN backlog' PROVE n < backlog'[i]
      BY <1>a, <2>1, <2>4, <3>1, QueueFrom
    <3>2. handling' # NoWork => n < handling'.ask
      <4>1. handling' = [handling EXCEPT !.todo = Tail(handling.todo)] => handling'.ask = handling.ask
        BY DEF AnTyped
      <4>2. InjectEvent => handling # NoWork
        BY DEF InjectEvent
      <4>3. HandleClient(1) /\ handling' = [ask |-> backlog[1], todo |-> EventsFor(backlog[1])] => handling'.ask = backlog[1]
        OBVIOUS
      <4> QED BY <2>4, <4>1, <4>2, <4>3, HandlingFrom
    <3> QED BY <3>1, <3>2 DEF Behind
  <2>5. CASE Ok(n)
    BY <2>1, <2>2, <2>3, <2>4, <2>5 DEF Queued, Behind
  <2>6. CASE ~Ok(n)
    <3>1. Injects(n) \/ NothingToDo(n) \/ Finishes(n)
      BY <1>5, <2>2, <2>6, NewOks DEF Ok
    <3>2. CASE Injects(n)
      BY <2>2, <3>2 DEF Injects, ProcessInjects, Queued
    <3>3. CASE NothingToDo(n)
      <4>1. PICK i \in DOMAIN backlog : HandleClient(i) /\ n = backlog[i] /\ handling' = handling
        BY <3>3 DEF NothingToDo
      <4>2. handling' = NoWork /\ OverHttp(n) /\ \A j \in DOMAIN backlog' : n < backlog'[j]
        BY <1>c, <4>1, Accepting
      <4> QED BY <2>2, <2>3, <4>2 DEF Queued, Behind
    <3>4. CASE Finishes(n)
      <4>1. handling # NoWork /\ handling' = NoWork /\ n = handling.ask /\ OverHttp(n) /\ backlog' = backlog
        BY <3>4, Injecting DEF Finishes, InjectEvent
      <4> QED BY <1>c, <2>2, <2>3, <4>1 DEF Queued, Behind
    <3> QED BY <3>1, <3>2, <3>3, <3>4
  <2> QED BY <2>5, <2>6
<1>6. ASSUME activeDown' PROVE lastXY' \in Asks
  <2>1. ASSUME NEW i \in DOMAIN backlog, HandleClient(i) PROVE lastXY' \in Asks
    BY <1>6, <2>1, Accepting DEF HandleClient, TracksTouch, Queued
  <2> QED BY <1>6, <2>1, WhatChanges DEF Queued, InjectEvent, InjectEventThrows, CompanionDies, EndsTouch
<1> QED BY <1>1, <1>2, <1>3, <1>4, <1>5, <1>6 DEF Queued

(* The companion works on events of one command.                             *)
LEMMA WorkIsOwn ==
  ASSUME AnTyped, Asked, Queued, Performing, handling # NoWork
  PROVE  Head(handling.todo).by = handling.ask /\ asks[handling.ask].kind \in Commands
<1> DEFINE n == handling.ask
<1>1. n \in 1..askCount /\ asks[n].kind \in Commands /\ PerformingOf(n)
  BY Injecting DEF Queued, Asked, AskedOf, Performing
<1>2. \A act, at : Touch(act, n, at).by = n
  BY DEF Touch
<1> HIDE DEF n
<1>3. ASSUME NEW a, NEW b, NEW c, a.by = n, handling.todo \in {<<a>>, <<a, b>>, <<a, b, c>>}
      PROVE  Head(handling.todo).by = n
  <2>1. Head(<<a>>) = a /\ Head(<<a, b>>) = a /\ Head(<<a, b, c>>) = a
    BY Scripts
  <2> QED BY <1>3, <2>1
<1>4. \E act1, act2, act3, at :
        handling.todo \in {<<Touch(act1, n, at)>>, <<Touch(act1, n, at), Touch(act2, n, at)>>,
                           <<Touch(act1, n, at), Touch(act2, n, at), Touch(act3, n, at)>>}
  BY <1>1 DEF PerformingOf, Rest, Commands
<1>5. Head(handling.todo).by = n
  BY <1>2, <1>3, <1>4
<1> QED BY <1>1, <1>5 DEF n

(* What a process of adb injects.                                            *)
Script(n) == IF Streaming(asks[n].kind) THEN <<Touch(asks[n].kind, n, asks[n].at)>> ELSE Stroke(asks[n].kind, n)

(* What a process of adb does is one, two or three events of its request.    *)
LEMMA ScriptIs ==
  ASSUME AnTyped, Queued, NEW n \in running
  PROVE  /\ n \in Asks /\ n \in 1..askCount
         /\ \E a, b, c \in Touches : /\ a.by = n /\ b.by = n /\ c.by = n
                                     /\ Script(n) \in {<<a>>, <<a, b>>, <<a, b, c>>}
<1>1. n \in 1..askCount /\ n \in Asks /\ asks[n].at \in Asks
  BY AndroidNumbers DEF AnTyped, Queued
<1>2. \A at \in Asks : \A act \in {"down", "move", "up"} : Touch(act, n, at) \in Touches /\ Touch(act, n, at).by = n
  BY <1>1 DEF Touch, Touches
<1>3. CASE Streaming(asks[n].kind)
  <2>1. Touch(asks[n].kind, n, asks[n].at) \in Touches /\ Touch(asks[n].kind, n, asks[n].at).by = n
    BY <1>1, <1>2, <1>3 DEF Streaming
  <2> QED BY <1>1, <1>3, <2>1 DEF Script
<1>4. CASE ~Streaming(asks[n].kind)
  <2> DEFINE d == Touch("down", n, n)
             m == Touch("move", n, n)
             u == Touch("up", n, n)
  <2>1. d \in Touches /\ m \in Touches /\ u \in Touches /\ d.by = n /\ m.by = n /\ u.by = n
    BY <1>1, <1>2
  <2>2. Script(n) = <<d, u>> \/ Script(n) = <<d, m, u>>
    BY <1>4 DEF Script, Stroke, Tap, Swipe
  <2> HIDE DEF d, m, u
  <2>3. CASE Script(n) = <<d, u>>
    BY <1>1, <2>1, <2>3
  <2>4. CASE Script(n) = <<d, m, u>>
    BY <1>1, <2>1, <2>4
  <2> QED BY <2>2, <2>3, <2>4
<1> QED BY <1>3, <1>4

(* The events of another request: what was seen stays what it is.            *)
LEMMA SawOther ==
  ASSUME NEW s \in Seq(Touches), NEW e \in Touches, NEW n, NEW events \in Seq(Touches), SawIn(s, n, events), e.by # n
  PROVE  Append(s, e) \in Seq(Touches) /\ SawIn(Append(s, e), n, events)
BY SawOneMore, AppendProperties

(* What was seen of a request that no step works on stays what it is.        *)
LEMMA SawStays ==
  ASSUME AnTyped, Asked, Queued, Performing, AnNext, NEW n, NEW events \in Seq(Touches), SawIn(stream, n, events),
         InjectEvent => handling.ask # n, ProcessInjects(n) => FALSE
  PROVE  SawIn(stream', n, events)
<1>0. stream \in Seq(Touches)
  BY DEF AnTyped
<1>1. CASE UNCHANGED stream
  BY <1>1
<1>2. CASE InjectEvent
  <2>1. stream' = Append(stream, Head(handling.todo)) /\ handling # NoWork /\ handling.ask # n
    BY <1>2 DEF InjectEvent
  <2>2. Head(handling.todo) \in Touches /\ Head(handling.todo).by # n
    BY <2>1, Injecting, WorkIsOwn
  <2> QED BY <1>0, <2>1, <2>2, SawOther
<1>3. ASSUME NEW m \in Asks, ProcessInjects(m) PROVE SawIn(stream', n, events)
  <2>1. m # n /\ m \in running /\ stream' = stream \o Script(m)
    BY <1>3 DEF ProcessInjects, Script
  <2>2. PICK a, b, c \in Touches : /\ a.by = m /\ b.by = m /\ c.by = m
                                   /\ Script(m) \in {<<a>>, <<a, b>>, <<a, b, c>>}
    BY <2>1, ScriptIs
  <2>3. Append(stream, a) \in Seq(Touches) /\ SawIn(Append(stream, a), n, events)
    BY <1>0, <2>1, <2>2, SawOther
  <2>4. Append(Append(stream, a), b) \in Seq(Touches) /\ SawIn(Append(Append(stream, a), b), n, events)
    BY <2>1, <2>2, <2>3, SawOther
  <2>5. SawIn(Append(Append(Append(stream, a), b), c), n, events)
    BY <2>1, <2>2, <2>4, SawOther
  <2>6. stream' \in {Append(stream, a), Append(Append(stream, a), b), Append(Append(Append(stream, a), b), c)}
    <3>1. /\ stream \o <<a>> = Append(stream, a)
          /\ stream \o <<a, b>> = Append(Append(stream, a), b)
          /\ stream \o <<a, b, c>> = Append(Append(Append(stream, a), b), c)
      BY <1>0, OneByOne
    <3>2. CASE Script(m) = <<a>>
      BY <2>1, <3>1, <3>2, Zenon
    <3>3. CASE Script(m) = <<a, b>>
      BY <2>1, <3>1, <3>3, Zenon
    <3>4. CASE Script(m) = <<a, b, c>>
      BY <2>1, <3>1, <3>4, Zenon
    <3> QED BY <2>2, <3>2, <3>3, <3>4
  <2> QED BY <2>3, <2>4, <2>5, <2>6
<1> QED BY <1>1, <1>2, <1>3, WhatChanges

(* An event the device has seen is an old one, or of what injects now.       *)
LEMMA NewEvents ==
  ASSUME AnTyped, Asked, Queued, Performing, AnNext
  PROVE  /\ DOMAIN stream = 1..Len(stream) /\ DOMAIN stream' = 1..Len(stream')
         /\ Len(stream) \in Nat /\ Len(stream') \in Nat /\ Len(stream) <= Len(stream')
         /\ \A k \in DOMAIN stream : k \in DOMAIN stream' /\ stream'[k] = stream[k]
         /\ \A k \in DOMAIN stream' :
              \/ k \in DOMAIN stream
              \/ InjectEvent /\ handling # NoWork /\ stream'[k].by = handling.ask
              \/ ProcessInjects(stream'[k].by) /\ stream'[k].by \in running
<1>0. stream \in Seq(Touches) /\ DOMAIN stream = 1..Len(stream) /\ Len(stream) \in Nat
  BY LenProperties DEF AnTyped
<1>1. CASE UNCHANGED stream
  BY <1>0, <1>1
<1>2. CASE InjectEvent
  <2>1. stream' = Append(stream, Head(handling.todo)) /\ handling # NoWork
    BY <1>2 DEF InjectEvent
  <2>2. Head(handling.todo) \in Touches /\ Head(handling.todo).by = handling.ask
    BY <2>1, Injecting, WorkIsOwn
  <2>3. /\ stream' \in Seq(Touches) /\ Len(stream') = Len(stream) + 1
        /\ \A k \in 1..Len(stream) : stream'[k] = stream[k]
        /\ stream'[Len(stream) + 1] = Head(handling.todo)
    BY <1>0, <2>1, <2>2, AppendProperties
  <2>4. DOMAIN stream' = 1..Len(stream')
    BY <2>3, LenProperties
  <2>5. \A k \in DOMAIN stream' : k \in DOMAIN stream \/ k = Len(stream) + 1
    BY <1>0, <2>3, <2>4
  <2> QED BY <1>0, <1>2, <2>1, <2>2, <2>3, <2>4, <2>5
<1>3. ASSUME NEW m \in Asks, ProcessInjects(m)
      PROVE  /\ stream' \in Seq(Touches) /\ Len(stream') \in Nat /\ Len(stream) <= Len(stream')
             /\ \A k \in DOMAIN stream : k \in DOMAIN stream' /\ stream'[k] = stream[k]
             /\ \A k \in DOMAIN stream' : k \in DOMAIN stream \/ (stream'[k].by = m /\ m \in running)
  <2>1. m \in running /\ stream' = stream \o Script(m)
    BY <1>3 DEF ProcessInjects, Script
  <2>2. PICK a, b, c \in Touches : /\ a.by = m /\ b.by = m /\ c.by = m
                                   /\ Script(m) \in {<<a>>, <<a, b>>, <<a, b, c>>}
    BY <2>1, ScriptIs
  <2> DEFINE t == Script(m)
  <2>3. t \in Seq(Touches) /\ \A k \in DOMAIN t : t[k].by = m
    <3>1. <<a>> \in Seq(Touches) /\ <<a, b>> \in Seq(Touches) /\ <<a, b, c>> \in Seq(Touches)
      OBVIOUS
    <3>2. CASE t = <<a>>
      BY <2>2, <3>1, <3>2
    <3>3. CASE t = <<a, b>>
      BY <2>2, <3>1, <3>3
    <3>4. CASE t = <<a, b, c>>
      BY <2>2, <3>1, <3>4
    <3> QED BY <2>2, <3>2, <3>3, <3>4
  <2> HIDE DEF t
  <2>4. Len(t) \in Nat /\ DOMAIN t = 1..Len(t)
    BY <2>3, LenProperties
  <2>5. /\ stream' \in Seq(Touches) /\ Len(stream') = Len(stream) + Len(t)
        /\ \A k \in 1..(Len(stream) + Len(t)) : stream'[k] = IF k <= Len(stream) THEN stream[k] ELSE t[k - Len(stream)]
    BY <1>0, <2>1, <2>3, ConcatProperties DEF t
  <2>6. DOMAIN stream' = 1..(Len(stream) + Len(t))
    BY <2>5, LenProperties
  <2>7. \A k \in DOMAIN stream : k \in DOMAIN stream' /\ stream'[k] = stream[k]
    BY <1>0, <2>4, <2>5, <2>6
  <2>8. ASSUME NEW k \in DOMAIN stream', k \notin DOMAIN stream PROVE stream'[k].by = m
    <3>1. k - Len(stream) \in DOMAIN t /\ stream'[k] = t[k - Len(stream)]
      BY <1>0, <2>4, <2>5, <2>6, <2>8
    <3> QED BY <2>3, <3>1
  <2> QED BY <1>0, <2>1, <2>4, <2>5, <2>7, <2>8
<1>4. ASSUME NEW m \in Asks, ProcessInjects(m) PROVE DOMAIN stream' = 1..Len(stream')
  BY <1>3, <1>4, LenProperties
<1> QED BY <1>0, <1>1, <1>2, <1>3, <1>4, WhatChanges

(* What is not over of a request has no answer, or nobody waits for it.      *)
LEMMA Overtaken ==
  ASSUME AnTyped, Asked, NEW n \in 1..askCount, n # askCount, ~Ok(n)
  PROVE  asks[n].promise = "rejected"
<1>1. n \in Asks /\ asks[n].promise # "waiting"
  BY WaitingIsAsked, AndroidNumbers DEF AnTyped
<1> QED BY <1>1 DEF Asked, AskedOf, AnTyped, AskRecords

(* A step keeps the order of the events: one of an earlier request after one *)
(* of a later is a stray.                                                    *)
LEMMA OrderedStays ==
  ASSUME AnTyped, Asked, Selected, Queued, Ordered, Performing, AnNext
  PROVE  Ordered'
<1>0. Continues
  BY StepContinues
<1>a. /\ DOMAIN stream = 1..Len(stream) /\ DOMAIN stream' = 1..Len(stream') /\ Len(stream) \in Nat /\ Len(stream') \in Nat
      /\ Len(stream) <= Len(stream')
      /\ \A k \in DOMAIN stream : k \in DOMAIN stream' /\ stream'[k] = stream[k]
  BY NewEvents
<1>b. askCount \in Nat /\ askCount' \in Nat /\ askCount <= askCount' /\ \A n \in 1..askCount : n \in 1..askCount' /\ n \in Asks
  BY <1>0, AndroidNumbers DEF Continues, AnTyped
<1>c. \A i \in DOMAIN backlog : backlog[i] \in 1..askCount
  <2> SUFFICES ASSUME NEW i \in DOMAIN backlog PROVE backlog[i] \in 1..askCount
    OBVIOUS
  <2>1. backlog[i] \in Asks /\ backlog[i] <= askCount
    BY LenProperties, ElementOfSeq DEF AnTyped
  <2> QED BY <1>b, <2>1, AndroidNumbers
<1>d. \A n \in 1..askCount : n \notin running => n \notin running'
  <2>1. running' \subseteq running \union {askCount + 1}
    BY WhatChanges DEF CliRuns, ProcessInjects, ProcessFails, GivesUp, AdbKilled
  <2> QED BY <1>b, <2>1
<1>e. ASSUME NEW n \in 1..askCount, \A i \in DOMAIN backlog : n < backlog[i]
      PROVE  \A i \in DOMAIN backlog' : n < backlog'[i]
  BY <1>b, <1>c, <1>e, QueueFrom
<1>1. ASSUME NEW k \in DOMAIN stream' PROVE InjectedAt(k)'
  <2>n. PICK n : n = stream'[k].by
    OBVIOUS
  <2>1. CASE k \in DOMAIN stream
    <3>1. n = stream[k].by
      BY <1>a, <2>1, <2>n
    <3>2. /\ n \in 1..askCount /\ n \notin running /\ asks[n].kind # "hello"
          /\ OverHttp(n) => /\ \A i \in DOMAIN backlog : n < backlog[i]
                            /\ handling # NoWork => n <= handling.ask
      BY <2>1, <3>1 DEF Ordered, InjectedAt
    <3>3. n \in 1..askCount' /\ n \notin running' /\ asks'[n].kind # "hello" /\ (OverHttp(n)' <=> OverHttp(n))
      BY <1>0, <1>b, <1>d, <3>2 DEF Continues
    <3>4. OverHttp(n) /\ handling' # NoWork => n <= handling'.ask
      <4>1. handling' = [handling EXCEPT !.todo = Tail(handling.todo)] => handling'.ask = handling.ask
        BY DEF AnTyped
      <4>2. InjectEvent => handling # NoWork
        BY DEF InjectEvent
      <4>3. HandleClient(1) /\ handling' = [ask |-> backlog[1], todo |-> EventsFor(backlog[1])] => handling'.ask = backlog[1]
        OBVIOUS
      <4>4. OverHttp(n) /\ 1 \in DOMAIN backlog => n <= backlog[1]
        BY <1>b, <1>c, <3>2
      <4> QED BY <3>2, <4>1, <4>2, <4>3, <4>4, HandlingFrom
    <3> QED BY <1>e, <2>n, <3>2, <3>3, <3>4 DEF InjectedAt
  <2>2. CASE InjectEvent /\ handling # NoWork /\ n = handling.ask
    <3>1. n \in 1..askCount /\ n \in Asks /\ OverHttp(n) /\ asks[n].kind # "hello" /\ n \notin running
      BY <2>2, Injecting DEF Queued
    <3>2. \A i \in DOMAIN backlog : n < backlog[i]
      BY <2>2 DEF Queued, QueuedAt
    <3>3. handling' # NoWork => handling'.ask = n
      BY <2>2 DEF InjectEvent, AnTyped
    <3>4. n \in 1..askCount' /\ n \notin running' /\ asks'[n].kind # "hello"
      BY <1>0, <1>b, <1>d, <3>1 DEF Continues
    <3>5. \A i \in DOMAIN backlog' : n < backlog'[i]
      BY <1>e, <3>1, <3>2
    <3>6. handling' # NoWork => n <= handling'.ask
      BY <1>b, <3>1, <3>3
    <3> QED BY <2>n, <3>4, <3>5, <3>6 DEF InjectedAt
  <2>3. CASE ProcessInjects(n) /\ n \in running
    <3>1. n \in 1..askCount /\ ~OverHttp(n) /\ n \notin running'
      BY <2>3 DEF ProcessInjects, AnTyped, Queued
    <3>2. ~OverHttp(n)' /\ n \in 1..askCount' /\ asks'[n].kind # "hello"
      BY <1>0, <1>b, <3>1 DEF Continues, OverHttp
    <3> QED BY <2>n, <3>1, <3>2 DEF InjectedAt
  <2> QED BY <2>n, <2>1, <2>2, <2>3, NewEvents
<1>2. ASSUME NEW k \in DOMAIN stream', NEW l \in DOMAIN stream', k < l, stream'[l].by < stream'[k].by
      PROVE  Strays(stream[l].by, stream[k].by)'
  <2>n. PICK n, m : n = stream'[l].by /\ m = stream'[k].by
    OBVIOUS
  <2>0. m \in 1..askCount /\ n \in 1..askCount
    <3>1. \A j \in DOMAIN stream' : stream'[j].by \in 1..askCount
      <4> SUFFICES ASSUME NEW j \in DOMAIN stream' PROVE stream'[j].by \in 1..askCount
        OBVIOUS
      <4>1. CASE j \in DOMAIN stream
        BY <1>a, <4>1 DEF Ordered, InjectedAt
      <4>2. CASE j \notin DOMAIN stream
        BY <4>2, NewEvents, Injecting DEF AnTyped
      <4> QED BY <4>1, <4>2
    <3> QED BY <2>n, <3>1
  <2>1. Strays(n, m)
    <3>1. CASE l \in DOMAIN stream
      <4>1. k \in DOMAIN stream
        BY <1>2, <1>a, <3>1
      <4>2. stream'[k] = stream[k] /\ stream'[l] = stream[l]
        BY <1>a, <3>1, <4>1
      <4> QED BY <1>2, <2>n, <3>1, <4>1, <4>2 DEF Ordered
    <3>2. CASE l \notin DOMAIN stream
      <4>a. n # askCount
        BY <1>2, <1>b, <2>0, <2>n
      <4>1. k \in DOMAIN stream /\ stream'[k] = stream[k]
        <5> SUFFICES ASSUME k \notin DOMAIN stream PROVE FALSE
          BY <1>a
        <5>1. n = m
          <6>1. \A j \in DOMAIN stream' : j \notin DOMAIN stream =>
                  \/ InjectEvent /\ handling # NoWork /\ stream'[j].by = handling.ask
                  \/ ProcessInjects(stream'[j].by) /\ stream'[j].by \in running
            BY NewEvents
          <6>2. InjectEvent => running' = running
            BY DEF InjectEvent, cliVars
          <6>3. \A h : ProcessInjects(h) => h \in running /\ running' = running \ {h}
            BY DEF ProcessInjects
          <6> QED BY <2>n, <3>2, <6>1, <6>2, <6>3
        <5> QED BY <1>2, <1>b, <2>0, <2>n, <5>1
      <4>2. CASE InjectEvent /\ handling # NoWork /\ n = handling.ask
        <5>1. OverHttp(n)
          BY <4>2, Injecting
        <5>2. ~Ok(n)
          <6> SUFFICES ASSUME Ok(n) PROVE FALSE
            OBVIOUS
          <6>1. n < handling.ask
            BY <2>0, <4>2, <5>1 DEF Queued, Behind
          <6> QED BY <1>b, <2>0, <4>2, <6>1
        <5>3. asks[n].promise = "rejected"
          BY <2>0, <4>a, <5>2, Overtaken
        <5>4. ~OverHttp(m)
          <6> SUFFICES ASSUME OverHttp(m) PROVE FALSE
            OBVIOUS
          <6>1. m <= handling.ask
            BY <2>n, <4>1, <4>2 DEF Ordered, InjectedAt
          <6> QED BY <1>2, <1>b, <2>0, <2>n, <4>2, <6>1
        <5> QED BY <5>3, <5>4 DEF Strays
      <4>3. CASE ProcessInjects(n) /\ n \in running
        <5>1. ~OverHttp(n) /\ ~Ok(n)
          BY <2>0, <4>3 DEF Queued
        <5>2. asks[n].promise = "rejected"
          BY <2>0, <4>a, <5>1, Overtaken
        <5> QED BY <5>1, <5>2 DEF Strays
      <4> QED BY <2>n, <3>2, <4>2, <4>3, NewEvents
    <3> QED BY <3>1, <3>2
  <2>2. asks'[n].promise = "rejected" /\ (OverHttp(n)' <=> OverHttp(n)) /\ (OverHttp(m)' <=> OverHttp(m))
    BY <1>0, <2>0, <2>1 DEF Continues, Strays
  <2> QED BY <2>n, <2>1, <2>2 DEF Strays
<1> QED BY <1>1, <1>2 DEF Ordered

(* The events of a command, and the first of them.                           *)
LEMMA TouchesOf ==
  ASSUME NEW n \in Asks
  PROVE  /\ Touch("down", n, n) \in Touches /\ Touch("move", n, n) \in Touches
         /\ \A at \in Asks : Touch("up", n, at) \in Touches
         /\ <<>> \in Seq(Touches) /\ <<Touch("down", n, n)>> \in Seq(Touches)
         /\ <<Touch("down", n, n), Touch("move", n, n)>> \in Seq(Touches)
         /\ \A act, at : Touch(act, n, at).by = n
<1>1. Touch("down", n, n) \in Touches /\ Touch("move", n, n) \in Touches
      /\ (\A at \in Asks : Touch("up", n, at) \in Touches) /\ (\A act, at : Touch(act, n, at).by = n)
  BY DEF Touch, Touches
<1> QED BY <1>1

(* Nothing of a request that waits to be handled has been injected.          *)
LEMMA NothingYet ==
  ASSUME AnTyped, Ordered, Queued, NEW n,
         n \in running \/ \E i \in DOMAIN backlog : n = backlog[i]
  PROVE  SawIn(stream, n, <<>>)
<1> SUFFICES ASSUME NEW k \in DOMAIN stream, stream[k].by = n PROVE FALSE
  BY SawNothing
<1>1. n \in 1..askCount /\ n \notin running /\ (OverHttp(n) => \A i \in DOMAIN backlog : n < backlog[i])
  BY DEF Ordered, InjectedAt
<1>2. PICK i \in DOMAIN backlog : n = backlog[i]
  BY <1>1
<1>3. n < n
  BY <1>1, <1>2 DEF Queued, QueuedAt
<1> QED BY <1>1, <1>3

(* A step keeps how far the companion is with its command: what is done and  *)
(* what is left make the whole.                                              *)
LEMMA PerformingStays ==
  ASSUME AnTyped, Asked, Selected, Queued, Ordered, Performing, AnNext
  PROVE  Performing'
<1> SUFFICES ASSUME handling' # NoWork PROVE PerformingOf(handling.ask)'
  BY DEF Performing
<1>0. Continues /\ askCount \in Nat
  BY StepContinues, AndroidNumbers DEF AnTyped
<1>1. CASE UNCHANGED handling
  <2>n. PICK n : n = handling.ask
    OBVIOUS
  <2>1. n \in 1..askCount /\ n \in Asks /\ PerformingOf(n) /\ handling # NoWork /\ OverHttp(n)
    BY <1>1, <2>n, Injecting DEF Performing
  <2>2. ~InjectEvent
    <3> SUFFICES ASSUME InjectEvent PROVE FALSE
      OBVIOUS
    <3>1. handling' = NoWork \/ handling'.todo = Tail(handling.todo)
      BY DEF InjectEvent, AnTyped
    <3>2. handling.todo = Tail(handling.todo) /\ handling.todo \in Seq(Touches) /\ handling.todo # <<>>
      BY <1>1, <2>1, <3>1, Injecting
    <3>3. ASSUME NEW t \in Seq(Touches), t # <<>> PROVE t # Tail(t)
      <4>1. Len(Tail(t)) = Len(t) - 1 /\ Len(t) \in Nat
        BY <3>3, HeadTailProperties, LenProperties
      <4>2. Len(Tail(t)) # Len(t)
        BY <4>1
      <4> QED BY <4>2
    <3> QED BY <3>2, <3>3
  <2>3. UNCHANGED <<activeDown, lastXY>>
    BY <1>1, <2>1, <2>2, WhatChanges DEF HandleClient, Accepts, InjectEventThrows, CompanionDies
  <2>4. ~ProcessInjects(n)
    BY <2>1 DEF ProcessInjects, Queued
  <2>5. ASSUME NEW done \in Seq(Touches), NEW todo, Rest(n, done, todo)
        PROVE  handling'.todo = todo /\ SawIn(stream', n, done)
    BY <1>1, <2>2, <2>4, <2>5, SawStays DEF Rest
  <2>6. asks'[n].kind = asks[n].kind
    BY <1>0, <2>1 DEF Continues
  <2>7. n = handling'.ask
    BY <1>1, <2>n
  <2>8. PerformingOf(n)'
    BY <2>1, <2>3, <2>5, <2>6, TouchesOf DEF PerformingOf, Rest
  <2> QED BY <2>7, <2>8
<1>2. CASE HandleClient(1) /\ handling' = [ask |-> backlog[1], todo |-> EventsFor(backlog[1])]
           /\ EventsFor(backlog[1]) # <<>> /\ 1 \in DOMAIN backlog
  <2>n. PICK n : n = backlog[1]
    OBVIOUS
  <2>1. n \in 1..askCount /\ n \in Asks
    BY <1>2, <2>n, Accepting
  <2>2. stream' = stream /\ TracksTouch(n) /\ handling'.ask = n /\ handling'.todo = EventsFor(n)
    BY <1>2, <2>n DEF HandleClient, Accepts, NoWork
  <2>3. SawIn(stream', n, <<>>)
    BY <1>2, <2>2, <2>n, NothingYet
  <2>4. asks'[n].kind = asks[n].kind
    BY <1>0, <2>1 DEF Continues
  <2>5. PerformingOf(n)'
    <3>1. asks[n].kind = "tap" => EventsFor(n) = <<Touch("down", n, n), Touch("up", n, n)>>
      BY DEF EventsFor, Stroke, Tap
    <3>2. asks[n].kind = "swipe" => EventsFor(n) = <<Touch("down", n, n), Touch("move", n, n), Touch("up", n, n)>>
      BY DEF EventsFor, Stroke, Swipe
    <3>3. asks[n].kind = "down" => EventsFor(n) = <<Touch("down", n, n)>> /\ activeDown' /\ lastXY' = n
      BY <2>2 DEF EventsFor, TracksTouch
    <3>4. asks[n].kind = "move" => EventsFor(n) = <<Touch("move", n, n)>> /\ activeDown' /\ lastXY' = n
      BY <1>2, <2>2, <2>n DEF EventsFor, TracksTouch
    <3>5. asks[n].kind = "up" => EventsFor(n) = <<Touch("up", n, lastXY)>> /\ lastXY \in Asks
      BY <1>2, <2>n DEF EventsFor, Queued
    <3> QED BY <2>2, <2>3, <2>4, <3>1, <3>2, <3>3, <3>4, <3>5 DEF PerformingOf, Rest
  <2> QED BY <2>2, <2>5
<1>3. CASE InjectEvent /\ handling' = [handling EXCEPT !.todo = Tail(handling.todo)] /\ Tail(handling.todo) # <<>>
  <2>n. PICK n : n = handling.ask
    OBVIOUS
  <2>1. n \in 1..askCount /\ n \in Asks /\ PerformingOf(n) /\ handling # NoWork /\ asks[n].kind \in Commands
    BY <1>3, <2>n, Injecting, WorkIsOwn DEF Performing, InjectEvent
  <2>2. stream' = Append(stream, Head(handling.todo)) /\ handling'.ask = n /\ handling'.todo = Tail(handling.todo)
    BY <1>3, <2>n DEF InjectEvent, AnTyped
  <2>3. asks'[n].kind = asks[n].kind /\ stream \in Seq(Touches)
    BY <1>0, <2>1 DEF Continues, AnTyped
  <2> DEFINE d == Touch("down", n, n)
             m == Touch("move", n, n)
             u == Touch("up", n, n)
  <2>4. d \in Touches /\ m \in Touches /\ u \in Touches /\ d.by = n /\ m.by = n /\ u.by = n
        /\ <<>> \in Seq(Touches) /\ <<d>> \in Seq(Touches) /\ <<d, m>> \in Seq(Touches)
    BY <2>1, TouchesOf
  <2>5. ASSUME NEW act, NEW at, handling.todo = <<Touch(act, n, at)>> PROVE FALSE
    BY <1>3, <2>5, Scripts
  <2>6. asks[n].kind \in {"tap", "swipe"}
    BY <2>1, <2>5 DEF PerformingOf, Rest, Commands
  <2>7. \/ asks[n].kind = "tap" /\ Rest(n, <<>>, <<d, u>>)
        \/ asks[n].kind = "swipe" /\ Rest(n, <<>>, <<d, m, u>>)
        \/ asks[n].kind = "swipe" /\ Rest(n, <<d>>, <<m, u>>)
    BY <2>1, <2>5, <2>6 DEF PerformingOf, Rest
  <2> HIDE DEF d, m, u
  <2>8. CASE asks[n].kind = "tap" /\ Rest(n, <<>>, <<d, u>>)
    <3>1. stream' = Append(stream, d) /\ handling'.todo = <<u>> /\ Append(<<>>, d) = <<d>>
      BY <2>2, <2>8, Scripts DEF Rest
    <3>2. SawIn(stream', n, <<d>>)
      BY <2>3, <2>4, <2>8, <3>1, SawOneMore DEF Rest
    <3> QED BY <2>2, <2>3, <2>8, <3>1, <3>2 DEF PerformingOf, Rest, d, u
  <2>9. CASE asks[n].kind = "swipe" /\ Rest(n, <<>>, <<d, m, u>>)
    <3>1. stream' = Append(stream, d) /\ handling'.todo = <<m, u>> /\ Append(<<>>, d) = <<d>>
      BY <2>2, <2>9, Scripts DEF Rest
    <3>2. SawIn(stream', n, <<d>>)
      BY <2>3, <2>4, <2>9, <3>1, SawOneMore DEF Rest
    <3> QED BY <2>2, <2>3, <2>9, <3>1, <3>2 DEF PerformingOf, Rest, d, m, u
  <2>10. CASE asks[n].kind = "swipe" /\ Rest(n, <<d>>, <<m, u>>)
    <3>1. stream' = Append(stream, m) /\ handling'.todo = <<u>>
      BY <2>2, <2>10, Scripts DEF Rest
    <3>2. Append(<<d>>, m) = <<d, m>>
      BY <2>4, Longer, Zenon
    <3>3. SawIn(stream', n, Append(<<d>>, m))
      BY <2>3, <2>4, <2>10, <3>1, SawOneMore DEF Rest
    <3>4. SawIn(stream', n, <<d, m>>)
      BY <3>2, <3>3, Zenon
    <3> QED BY <2>2, <2>3, <2>10, <3>1, <3>4 DEF PerformingOf, Rest, d, m, u
  <2> QED BY <2>7, <2>8, <2>9, <2>10
<1> QED BY <1>1, <1>2, <1>3, HandlingFrom

(* What is injected last, or at once, is all of the command.                 *)
LEMMA LastIsAll ==
  ASSUME AnTyped, Asked, Selected, Queued, Ordered, Performing, AnNext, NEW n \in Asks, Injects(n) \/ Finishes(n)
  PROVE  /\ asks[n].kind \in {"tap", "swipe"} => SawIn(stream', n, Stroke(asks[n].kind, n))
         /\ asks[n].kind \in {"down", "move"} => SawIn(stream', n, <<Touch(asks[n].kind, n, n)>>)
         /\ asks[n].kind = "up" =>
              \A at : (Injects(n) /\ at = asks[n].at) \/ (Finishes(n) /\ handling.todo = <<Touch("up", n, at)>>) =>
                SawIn(stream', n, <<Touch("up", n, at)>>)
<1> DEFINE d == Touch("down", n, n)
           m == Touch("move", n, n)
           u == Touch("up", n, n)
<1>0. /\ d \in Touches /\ m \in Touches /\ u \in Touches /\ d.by = n /\ m.by = n /\ u.by = n
      /\ <<>> \in Seq(Touches) /\ <<d>> \in Seq(Touches) /\ <<d, m>> \in Seq(Touches)
      /\ stream \in Seq(Touches)
  BY TouchesOf DEF AnTyped
<1>a. Stroke("tap", n) = <<d, u>> /\ Stroke("swipe", n) = <<d, m, u>>
  BY DEF Stroke, Tap, Swipe
<1> HIDE DEF d, m, u
<1>b. Append(<<>>, d) = <<d>> /\ Append(<<>>, m) = <<m>>
  BY Scripts
<1>c. Append(<<d>>, u) = <<d, u>> /\ Append(<<d>>, m) = <<d, m>> /\ Append(<<d, m>>, u) = <<d, m, u>>
  BY <1>0, Longer, Zenon
<1>d. ASSUME SawIn(stream, n, <<>>), NEW e \in Touches, e.by = n, stream' = Append(stream, e)
      PROVE  SawIn(stream', n, <<e>>)
  <2>1. Append(<<>>, e) = <<e>>
    BY Scripts
  <2> QED BY <1>0, <1>d, <2>1, SawOneMore
<1>1. CASE Injects(n)
  <2>1. n \in running /\ stream' = stream \o Script(n) /\ SawIn(stream, n, <<>>)
    BY <1>1, NothingYet DEF Injects, ProcessInjects, Script
  <2>2. asks[n].at \in Asks /\ (asks[n].kind # "up" => asks[n].at = n)
    BY <2>1 DEF Queued
  <2>3. asks[n].kind = "tap" => SawIn(stream', n, <<d, u>>)
    <3> SUFFICES ASSUME asks[n].kind = "tap" PROVE SawIn(stream', n, <<d, u>>)
      OBVIOUS
    <3>1. stream' = stream \o <<d, u>>
      BY <1>a, <2>1 DEF Script, Streaming
    <3>2. stream \o <<d, u>> = Append(Append(stream, d), u)
      BY <1>0, OneByOne
    <3>3. Append(stream, d) \in Seq(Touches) /\ SawIn(Append(stream, d), n, Append(<<>>, d))
      BY <1>0, <2>1, SawOneMore, AppendProperties
    <3>4. SawIn(Append(Append(stream, d), u), n, Append(<<d>>, u))
      BY <1>0, <1>b, <3>3, SawOneMore
    <3> QED BY <1>c, <3>1, <3>2, <3>4, Zenon
  <2>4. asks[n].kind = "swipe" => SawIn(stream', n, <<d, m, u>>)
    <3> SUFFICES ASSUME asks[n].kind = "swipe" PROVE SawIn(stream', n, <<d, m, u>>)
      OBVIOUS
    <3>1. stream' = stream \o <<d, m, u>>
      BY <1>a, <2>1 DEF Script, Streaming
    <3>2. stream \o <<d, m, u>> = Append(Append(Append(stream, d), m), u)
      BY <1>0, OneByOne
    <3>3. Append(stream, d) \in Seq(Touches) /\ SawIn(Append(stream, d), n, Append(<<>>, d))
      BY <1>0, <2>1, SawOneMore, AppendProperties
    <3>4. Append(Append(stream, d), m) \in Seq(Touches) /\ SawIn(Append(Append(stream, d), m), n, Append(<<d>>, m))
      BY <1>0, <1>b, <3>3, SawOneMore, AppendProperties
    <3>a. SawIn(Append(Append(stream, d), m), n, <<d, m>>)
      BY <1>c, <3>4, Zenon
    <3>5. SawIn(Append(Append(Append(stream, d), m), u), n, Append(<<d, m>>, u))
      BY <1>0, <3>4, <3>a, SawOneMore
    <3> QED BY <1>c, <3>1, <3>2, <3>5, Zenon
  <2>5. ASSUME asks[n].kind \in {"down", "move", "up"}
        PROVE  SawIn(stream', n, <<Touch(asks[n].kind, n, asks[n].at)>>)
    <3> DEFINE e == Touch(asks[n].kind, n, asks[n].at)
    <3>1. e \in Touches /\ e.by = n
      BY <2>2, <2>5 DEF Touch, Touches
    <3>2. stream' = stream \o <<e>>
      BY <2>1, <2>5 DEF Script, Streaming
    <3> HIDE DEF e
    <3>3. stream' = Append(stream, e)
      BY <1>0, <3>1, <3>2, OneByOne
    <3> QED BY <1>d, <2>1, <3>1, <3>3 DEF e
  <2>6. asks[n].kind = "up" =>
          \A at : (Injects(n) /\ at = asks[n].at) \/ (Finishes(n) /\ handling.todo = <<Touch("up", n, at)>>) =>
            SawIn(stream', n, <<Touch("up", n, at)>>)
    <3>1. ~Finishes(n)
      <4> SUFFICES ASSUME Finishes(n) PROVE FALSE
        OBVIOUS
      <4>1. running' = running \ {n}
        BY <1>1 DEF Injects, ProcessInjects
      <4>2. running' = running
        BY DEF Finishes, InjectEvent, cliVars
      <4> QED BY <2>1, <4>1, <4>2
    <3> QED BY <2>5, <3>1
  <2> QED BY <1>a, <2>2, <2>3, <2>4, <2>5, <2>6
<1>2. CASE Finishes(n)
  <2>1. /\ handling # NoWork /\ n = handling.ask /\ stream' = Append(stream, Head(handling.todo))
        /\ Tail(handling.todo) = <<>> /\ PerformingOf(n) /\ ~Injects(n)
    <3>1. handling # NoWork /\ n = handling.ask /\ stream' = Append(stream, Head(handling.todo)) /\ Tail(handling.todo) = <<>>
      BY <1>2 DEF Finishes, InjectEvent
    <3>2. ~Injects(n)
      BY <3>1, Injecting DEF Injects, ProcessInjects, Queued
    <3> QED BY <3>1, <3>2 DEF Performing
  <2>2. ASSUME NEW a, NEW b, NEW c PROVE Tail(<<a, b>>) # <<>> /\ Tail(<<a, b, c>>) # <<>> /\ Head(<<a>>) = a
    BY Scripts
  <2>3. asks[n].kind = "tap" => SawIn(stream', n, <<d, u>>)
    <3> SUFFICES ASSUME asks[n].kind = "tap" PROVE SawIn(stream', n, <<d, u>>)
      OBVIOUS
    <3>1. Rest(n, <<d>>, <<u>>)
      BY <2>1, <2>2 DEF PerformingOf, Rest, d, u
    <3>2. SawIn(stream', n, Append(<<d>>, u))
      BY <1>0, <2>1, <2>2, <3>1, SawOneMore DEF Rest
    <3> QED BY <1>c, <3>2, Zenon
  <2>4. asks[n].kind = "swipe" => SawIn(stream', n, <<d, m, u>>)
    <3> SUFFICES ASSUME asks[n].kind = "swipe" PROVE SawIn(stream', n, <<d, m, u>>)
      OBVIOUS
    <3>a. Rest(n, <<>>, <<d, m, u>>) \/ Rest(n, <<d>>, <<m, u>>) \/ Rest(n, <<d, m>>, <<u>>)
      BY <2>1 DEF PerformingOf, d, m, u
    <3>b. Tail(<<d, m, u>>) # <<>> /\ Tail(<<m, u>>) # <<>>
      BY <2>2
    <3>1. Rest(n, <<d, m>>, <<u>>)
      BY <2>1, <3>a, <3>b DEF Rest
    <3>2. SawIn(stream', n, Append(<<d, m>>, u))
      BY <1>0, <2>1, <2>2, <3>1, SawOneMore DEF Rest
    <3> QED BY <1>c, <3>2, Zenon
  <2>5. asks[n].kind = "down" => SawIn(stream', n, <<d>>)
    <3> SUFFICES ASSUME asks[n].kind = "down" PROVE SawIn(stream', n, <<d>>)
      OBVIOUS
    <3>1. Rest(n, <<>>, <<d>>)
      BY <2>1 DEF PerformingOf, d
    <3> QED BY <1>0, <1>d, <2>1, <2>2, <3>1 DEF Rest
  <2>6. asks[n].kind = "move" => SawIn(stream', n, <<m>>)
    <3> SUFFICES ASSUME asks[n].kind = "move" PROVE SawIn(stream', n, <<m>>)
      OBVIOUS
    <3>1. Rest(n, <<>>, <<m>>)
      BY <2>1 DEF PerformingOf, m
    <3> QED BY <1>0, <1>d, <2>1, <2>2, <3>1 DEF Rest
  <2>7. ASSUME asks[n].kind = "up", NEW at, handling.todo = <<Touch("up", n, at)>>
        PROVE  SawIn(stream', n, <<Touch("up", n, at)>>)
    <3> DEFINE e == Touch("up", n, at)
    <3>1. e \in Touches /\ e.by = n
      <4>1. Head(handling.todo) \in Touches /\ Head(handling.todo) = e
        BY <2>1, <2>2, <2>7, Injecting
      <4> QED BY <4>1, TouchesOf
    <3>2. SawIn(stream, n, <<>>)
      BY <2>1, <2>7 DEF PerformingOf, Rest
    <3>3. stream' = Append(stream, e)
      BY <2>1, <2>2, <2>7
    <3> HIDE DEF e
    <3> QED BY <1>d, <3>1, <3>2, <3>3 DEF e
  <2> QED BY <1>a, <2>1, <2>3, <2>4, <2>5, <2>6, <2>7 DEF d, m
<1> QED BY <1>1, <1>2

(* A step keeps that what was answered with ok is done.                      *)
LEMMA PerformedStays ==
  ASSUME AnTyped, Asked, Selected, Queued, Ordered, Performing, Performed, AnNext
  PROVE  Performed'
<1>0. Continues
  BY StepContinues
<1> SUFFICES ASSUME NEW n \in 1..askCount', asks'[n].reply = "ok"
             PROVE  /\ asks'[n].kind \in {"tap", "swipe"} => SawIn(stream', n, Stroke(asks'[n].kind, n))
                    /\ asks'[n].kind = "down" => SawIn(stream', n, <<Touch("down", n, n)>>)
  BY DEF Performed, Ok, Stroke, Tap, Swipe
<1>1. n \in 1..askCount /\ n \in Asks /\ asks'[n].kind = asks[n].kind
  BY <1>0 DEF Continues
<1>2. CASE Ok(n)
  <2>1. InjectEvent => handling.ask # n
    BY <1>1, <1>2, Injecting DEF Queued, Behind, InjectEvent
  <2>2. ~ProcessInjects(n)
    BY <1>1, <1>2 DEF ProcessInjects, Queued
  <2>3. Stroke(asks[n].kind, n) \in Seq(Touches) /\ <<Touch("down", n, n)>> \in Seq(Touches)
    BY <1>1, EventsAreTouches, TouchesOf DEF Stroke
  <2>4. /\ asks[n].kind \in {"tap", "swipe"} => SawIn(stream, n, Stroke(asks[n].kind, n))
        /\ asks[n].kind = "down" => SawIn(stream, n, <<Touch("down", n, n)>>)
    BY <1>1, <1>2 DEF Performed
  <2>5. ASSUME NEW events \in Seq(Touches), SawIn(stream, n, events) PROVE SawIn(stream', n, events)
    BY <2>1, <2>2, <2>5, SawStays
  <2> QED BY <1>1, <2>3, <2>4, <2>5
<1>3. CASE ~Ok(n)
  <2>1. Injects(n) \/ NothingToDo(n) \/ Finishes(n)
    BY <1>1, <1>3, NewOks DEF Ok
  <2>2. CASE NothingToDo(n)
    <3>1. EventsFor(n) = <<>>
      BY <2>2 DEF NothingToDo
    <3>2. asks[n].kind \notin {"tap", "swipe", "down"}
      <4>1. \A a, b, c : <<a>> # <<>> /\ <<a, b>> # <<>> /\ <<a, b, c>> # <<>>
        BY Scripts
      <4> QED BY <3>1, <4>1 DEF EventsFor, Stroke, Tap, Swipe
    <3> QED BY <1>1, <3>2
  <2>3. CASE Injects(n) \/ Finishes(n)
    BY <1>1, <2>3, LastIsAll
  <2> QED BY <2>1, <2>2, <2>3
<1> QED BY <1>2, <1>3

(* What a drag that goes on is made of.                                      *)
LEMMA HeldIs ==
  ASSUME NEW a, NEW n \in Nat, Held(a, n)
  PROVE  a[n].reply = "ok" /\ a[n].kind \in {"down", "move"}
<1>1. PICK d \in 1..n : Chain(a, d, n)
  BY DEF Held
<1>2. n \in d..n /\ (n = d \/ n \in (d + 1)..n)
  BY <1>1
<1> QED BY <1>1, <1>2 DEF Chain

(* Whether a drag is held depends on its own requests alone.                 *)
LEMMA HeldSame ==
  ASSUME NEW a, NEW b, NEW n \in Nat, \A m \in 1..n : b[m] = a[m], Held(b, n)
  PROVE  Held(a, n)
<1>1. PICK d \in 1..n : Chain(b, d, n)
  BY DEF Held
<1>2. n \in 1..n /\ (\A m \in (d + 1)..n : m \in 1..n) /\ (\A m \in d..n : m \in 1..n)
  BY <1>1
<1>3. Chain(a, d, n)
  BY <1>1, <1>2 DEF Chain
<1> QED BY <1>3 DEF Held

(* A drag that was moved was held before.                                    *)
LEMMA HeldBefore ==
  ASSUME NEW a, NEW n \in Nat, Held(a, n), a[n].kind = "move"
  PROVE  n - 1 \in Nat /\ n - 1 > 0 /\ Held(a, n - 1) /\ a[n - 1].of = a[n].of
<1>1. PICK d \in 1..n : Chain(a, d, n)
  BY DEF Held
<1>2. d # n
  BY <1>1 DEF Chain
<1>3. /\ d \in 1..(n - 1) /\ n - 1 \in Nat /\ n - 1 > 0 /\ n - 1 \in d..n
      /\ \A m \in (d + 1)..(n - 1) : m \in (d + 1)..n
      /\ \A m \in d..(n - 1) : m \in d..n
  BY <1>1, <1>2
<1>4. Chain(a, d, n - 1) /\ a[n - 1].of = a[n].of
  BY <1>1, <1>3 DEF Chain
<1> QED BY <1>3, <1>4 DEF Held

(* A down holds a drag, and a move after one that is held.                   *)
LEMMA HeldLonger ==
  ASSUME NEW a, NEW n \in Nat, n > 0, a[n].reply = "ok",
         a[n].kind = "down" \/ (a[n].kind = "move" /\ n - 1 > 0 /\ Held(a, n - 1) /\ a[n - 1].of = a[n].of)
  PROVE  Held(a, n)
<1>1. CASE a[n].kind = "down"
  <2>1. n \in 1..n /\ (\A m \in (n + 1)..n : FALSE) /\ (\A m \in n..n : m = n)
    OBVIOUS
  <2>2. Chain(a, n, n)
    BY <1>1, <2>1 DEF Chain
  <2> QED BY <2>1, <2>2 DEF Held
<1>2. CASE a[n].kind = "move" /\ n - 1 > 0 /\ Held(a, n - 1) /\ a[n - 1].of = a[n].of
  <2>1. PICK d \in 1..(n - 1) : Chain(a, d, n - 1)
    BY <1>2 DEF Held
  <2>2. /\ d \in 1..n
        /\ \A m \in (d + 1)..n : m = n \/ m \in (d + 1)..(n - 1)
        /\ \A m \in d..n : m = n \/ m \in d..(n - 1)
    BY <1>2, <2>1
  <2>3. Chain(a, d, n)
    BY <1>2, <2>1, <2>2 DEF Chain
  <2> QED BY <2>2, <2>3 DEF Held
<1> QED BY <1>1, <1>2

(* What was done of a drag before this step.                                 *)
LEMMA HeldBack ==
  ASSUME AnTyped, Asked, Selected, Queued, AnNext, NEW n \in 1..askCount', Held(asks', n)
  PROVE  /\ n \in 1..askCount /\ n \in Asks /\ asks[n].kind \in {"down", "move"} /\ asks'[n].kind = asks[n].kind
         /\ asks'[n].of = asks[n].of /\ (OverHttp(n)' <=> OverHttp(n)) /\ asks'[n].reply = "ok"
         /\ n < askCount => Held(asks, n)
         /\ Ok(n) => Held(asks, n)
         /\ ~Ok(n) => \/ asks[n].kind = "down"
                      \/ /\ asks[n].kind = "move" /\ n - 1 \in 1..askCount /\ Held(asks, n - 1)
                         /\ asks[n - 1].of = asks[n].of
<1>0. Continues /\ askCount \in Nat /\ n \in Nat /\ n > 0
  BY StepContinues, AndroidNumbers DEF AnTyped, Continues
<1>1. asks'[n].reply = "ok" /\ asks'[n].kind \in {"down", "move"}
  BY <1>0, HeldIs
<1>2. n \in 1..askCount /\ n \in Asks /\ asks'[n].kind = asks[n].kind /\ asks'[n].of = asks[n].of
      /\ (OverHttp(n)' <=> OverHttp(n))
  BY <1>0, <1>1 DEF Continues
<1>3. \A m \in 1..askCount : m # askCount => asks'[m] = asks[m]
  BY <1>0 DEF Continues
<1>4. n < askCount => Held(asks, n)
  <2> SUFFICES ASSUME n < askCount PROVE Held(asks, n)
    OBVIOUS
  <2>1. \A m \in 1..n : m \in 1..askCount /\ m # askCount
    BY <1>0
  <2> QED BY <1>0, <1>3, <2>1, HeldSame
<1>5. asks[n].kind = "move" => n - 1 \in Nat /\ n - 1 > 0 /\ n - 1 \in 1..askCount /\ Held(asks, n - 1) /\ asks[n - 1].of = asks[n].of
  <2> SUFFICES ASSUME asks[n].kind = "move"
               PROVE  n - 1 \in Nat /\ n - 1 > 0 /\ n - 1 \in 1..askCount /\ Held(asks, n - 1) /\ asks[n - 1].of = asks[n].of
    OBVIOUS
  <2>1. n - 1 \in Nat /\ n - 1 > 0 /\ Held(asks', n - 1) /\ asks'[n - 1].of = asks'[n].of
    BY <1>0, <1>2, HeldBefore
  <2>2. n - 1 \in 1..askCount /\ \A m \in 1..(n - 1) : m \in 1..askCount /\ m # askCount
    BY <1>0, <1>2, <2>1
  <2>3. Held(asks, n - 1)
    BY <1>3, <2>1, <2>2, HeldSame
  <2>4. asks'[n - 1] = asks[n - 1]
    <3>1. n - 1 # askCount
      BY <1>0, <1>2
    <3> QED BY <1>3, <2>2, <3>1
  <2> QED BY <1>2, <2>1, <2>2, <2>3, <2>4
<1>6. Ok(n) => Held(asks, n)
  BY <1>0, <1>1, <1>2, <1>5, HeldLonger DEF Ok
<1> QED BY <1>1, <1>2, <1>4, <1>5, <1>6

(* Commands of one session go the same way.                                  *)
LEMMA SameWay ==
  ASSUME NEW m, NEW n, asks[m].of = asks[n].of, asks[m].kind # "hello", asks[n].kind # "hello"
  PROVE  OverHttp(m) <=> OverHttp(n)
BY DEF OverHttp

(* A command is sent while the finger is down: it is performed.              *)
LEMMA HasEvents ==
  ASSUME AnTyped, Asked, Queued, Dragging, NEW n \in 1..askCount, NEW i \in DOMAIN backlog, HandleClient(i),
         backlog[i] = n + 1, n + 1 \in 1..askCount, Held(asks, n), n + 1 = askCount, asks[n + 1].of = asks[n].of,
         asks[n + 1].kind \in {"move", "up"}
  PROVE  activeDown /\ lastXY = n /\ EventsFor(n + 1) # <<>>
<1>1. OverHttp(n + 1) /\ serving /\ n + 1 \in ToSet(backlog)
  <2>1. i = 1 /\ serving /\ DOMAIN backlog = 1..Len(backlog)
    BY Accepting
  <2> QED BY <2>1 DEF Queued, QueuedAt, ToSet
<1>2. n \in Nat /\ asks[n].kind \in {"down", "move"}
  BY HeldIs
<1>3. OverHttp(n)
  BY <1>1, <1>2, SameWay
<1>4. activeDown /\ lastXY = n
  BY <1>1, <1>3 DEF Dragging, DraggingAt, LatestIs
<1> QED BY <1>4, Scripts DEF EventsFor

(* A drag that was done so far when it began this step, or is now.           *)
LEMMA HeldOn ==
  ASSUME AnTyped, Asked, Selected, Queued, Ordered, Performing, Dragging, AnNext,
         NEW n \in 1..askCount', Held(asks', n)
  PROVE  \/ Ok(n) /\ Held(asks, n)
         \/ /\ ~Ok(n) /\ n = askCount /\ askCount' = askCount
            /\ Injects(n) \/ Finishes(n)
<1>0. Continues /\ askCount \in Nat
  BY StepContinues, AndroidNumbers DEF AnTyped
<1>1. n \in 1..askCount /\ n \in Asks /\ asks'[n].reply = "ok"
  BY HeldBack
<1>2. CASE Ok(n)
  BY <1>2, HeldBack
<1>3. CASE ~Ok(n)
  <2>1. n = askCount /\ askCount' = askCount /\ (Injects(n) \/ NothingToDo(n) \/ Finishes(n))
    BY <1>1, <1>3, NewOks DEF Ok
  <2>2. ~NothingToDo(n)
    <3> SUFFICES ASSUME NothingToDo(n) PROVE FALSE
      OBVIOUS
    <3>1. PICK i \in DOMAIN backlog : HandleClient(i) /\ n = backlog[i] /\ EventsFor(n) = <<>>
      BY DEF NothingToDo
    <3>2. CASE asks[n].kind = "down"
      <4>1. EventsFor(n) # <<>>
        BY <3>2, Scripts DEF EventsFor
      <4> QED BY <3>1, <4>1
    <3>3. CASE asks[n].kind # "down"
      <4>m. PICK m : m = n - 1
        OBVIOUS
      <4>1. asks[n].kind = "move" /\ m \in 1..askCount /\ Held(asks, m) /\ asks[m].of = asks[n].of
        BY <1>3, <3>3, <4>m, HeldBack
      <4>2. n = m + 1 /\ m + 1 = askCount /\ m + 1 \in 1..askCount
        BY <1>0, <1>1, <2>1, <4>m, <4>1
      <4>3. EventsFor(m + 1) # <<>>
        BY <3>1, <4>1, <4>2, HasEvents
      <4> QED BY <3>1, <4>2, <4>3
    <3> QED BY <3>2, <3>3
  <2> QED BY <1>3, <2>1, <2>2
<1> QED BY <1>2, <1>3

(* Each part of a drag that is held was injected once.                       *)
LEMMA DragSeen ==
  ASSUME AnTyped, Asked, Selected, Queued, Ordered, Performing, Dragging, AnNext,
         NEW n \in 1..askCount', Held(asks', n)
  PROVE  SawIn(stream', n, <<Touch(asks'[n].kind, n, n)>>)
<1>1. n \in 1..askCount /\ n \in Asks /\ asks[n].kind \in {"down", "move"} /\ asks'[n].kind = asks[n].kind
  BY HeldBack
<1>2. CASE Ok(n) /\ Held(asks, n)
  <2>1. SawIn(stream, n, <<Touch(asks[n].kind, n, n)>>)
    BY <1>1, <1>2 DEF Dragging, DraggingAt
  <2>2. InjectEvent => handling.ask # n
    BY <1>1, <1>2, Injecting DEF Queued, Behind, InjectEvent
  <2>3. ~ProcessInjects(n)
    BY <1>1, <1>2 DEF ProcessInjects, Queued
  <2>4. <<Touch(asks[n].kind, n, n)>> \in Seq(Touches)
    <3>1. Touch(asks[n].kind, n, n) \in Touches
      BY <1>1, TouchesOf
    <3> QED BY <3>1
  <2> QED BY <1>1, <2>1, <2>2, <2>3, <2>4, SawStays
<1>3. CASE Injects(n) \/ Finishes(n)
  BY <1>1, <1>3, LastIsAll
<1> QED BY <1>2, <1>3, HeldOn

(* The finger is lifted: what was asked before this step.                    *)
LiftsIn(a, count, n) == n + 1 <= count /\ a[n + 1].kind = "up" /\ a[n + 1].of = a[n].of /\ Held(a, n)

(* A drag that is lifted now, by a request there was, was held before.       *)
LEMMA LiftedBack ==
  ASSUME AnTyped, Asked, Selected, Queued, AnNext, NEW n \in 1..askCount', LiftsIn(asks', askCount', n), n + 1 <= askCount
  PROVE  /\ n \in 1..askCount /\ n + 1 \in 1..askCount /\ n + 1 \in Asks /\ Lifts(n) /\ Held(asks, n) /\ Ok(n)
         /\ asks[n + 1].kind = "up" /\ asks[n + 1].of = asks[n].of
         /\ (OverHttp(n)' <=> OverHttp(n)) /\ (OverHttp(n) <=> OverHttp(n + 1))
<1>0. Continues /\ askCount \in Nat /\ n \in Nat /\ n > 0 /\ Held(asks', n)
  BY StepContinues, AndroidNumbers DEF AnTyped, Continues, LiftsIn
<1>1. n \in 1..askCount /\ n < askCount /\ Held(asks, n) /\ asks[n].kind \in {"down", "move"} /\ (OverHttp(n)' <=> OverHttp(n))
      /\ asks'[n].of = asks[n].of /\ Ok(n)
  <2>1. n < askCount
    BY <1>0
  <2>2. Held(asks, n)
    BY <1>0, <2>1, HeldBack
  <2> QED BY <1>0, <2>1, <2>2, HeldBack, HeldIs DEF Ok
<1>2. n + 1 \in 1..askCount /\ n + 1 \in Asks
  BY <1>0, AndroidNumbers DEF AnTyped
<1>3. asks[n + 1].kind = "up" /\ asks[n + 1].of = asks[n].of
  BY <1>0, <1>1, <1>2 DEF Continues, LiftsIn
<1>4. OverHttp(n) <=> OverHttp(n + 1)
  BY <1>1, <1>3, SameWay
<1> QED BY <1>1, <1>2, <1>3, <1>4 DEF Lifts

(* The finger of a drag was lifted once, and where it was moved to last.     *)
LEMMA LiftSeen ==
  ASSUME AnTyped, Asked, Selected, Queued, Ordered, Performing, Dragging, AnNext,
         NEW n \in 1..askCount', LiftsIn(asks', askCount', n), asks'[n + 1].reply = "ok"
  PROVE  SawIn(stream', n + 1, <<Touch("up", n + 1, n)>>)
<1>0. Continues /\ askCount \in Nat /\ n \in Nat
  BY StepContinues, AndroidNumbers DEF AnTyped, Continues
<1>1. n + 1 <= askCount
  BY <1>0 DEF Continues, LiftsIn
<1>2. /\ n \in 1..askCount /\ n + 1 \in 1..askCount /\ n + 1 \in Asks /\ Lifts(n) /\ Held(asks, n)
      /\ asks[n + 1].kind = "up" /\ asks[n + 1].of = asks[n].of /\ (OverHttp(n) <=> OverHttp(n + 1))
      /\ n \in Asks
  BY <1>1, LiftedBack, AndroidNumbers DEF AnTyped
<1>u. PICK u : u = n + 1
  OBVIOUS
<1>3. CASE Ok(u)
  <2>1. SawIn(stream, u, <<Touch("up", u, n)>>)
    BY <1>2, <1>3, <1>u DEF Dragging, DraggingAt
  <2>2. InjectEvent => handling.ask # u
    BY <1>2, <1>3, <1>u, Injecting DEF Queued, Behind, InjectEvent
  <2>3. ~ProcessInjects(u)
    BY <1>2, <1>3, <1>u DEF ProcessInjects, Queued
  <2>4. <<Touch("up", u, n)>> \in Seq(Touches)
    <3>1. Touch("up", u, n) \in Touches
      BY <1>2, <1>u, TouchesOf
    <3> QED BY <3>1
  <2>5. SawIn(stream', u, <<Touch("up", u, n)>>)
    BY <2>1, <2>2, <2>3, <2>4, SawStays
  <2> QED BY <1>u, <2>5
<1>4. CASE ~Ok(u)
  <2>1. u = askCount /\ asks[u].promise = "waiting" /\ (Injects(u) \/ NothingToDo(u) \/ Finishes(u))
    BY <1>2, <1>4, <1>u, NewOks DEF Ok
  <2>2. ~NothingToDo(u)
    BY <1>2, <2>1, <1>u, HasEvents DEF NothingToDo
  <2>3. CASE Injects(u)
    <3>1. u \in running
      BY <2>3 DEF Injects, ProcessInjects
    <3>2. ~OverHttp(n)
      BY <1>2, <1>u, <3>1 DEF Queued
    <3>3. asks[u].at = n
      BY <1>2, <1>u, <2>1, <3>2 DEF Dragging, DraggingAt
    <3>4. SawIn(stream', u, <<Touch("up", u, n)>>)
      BY <1>2, <1>u, <2>3, <3>3, LastIsAll
    <3> QED BY <1>u, <3>4
  <2>4. CASE Finishes(u)
    <3>1. handling.ask = u
      BY <2>4 DEF Finishes
    <3>2. handling.todo = <<Touch("up", u, n)>>
      BY <1>2, <1>u, <2>1, <3>1 DEF Dragging, DraggingAt
    <3>3. SawIn(stream', u, <<Touch("up", u, n)>>)
      BY <1>2, <1>u, <2>4, <3>2, LastIsAll
    <3> QED BY <1>u, <3>3
  <2> QED BY <2>1, <2>2, <2>3, <2>4
<1> QED BY <1>3, <1>4

(* While a drag goes on the companion has the finger down, and keeps where   *)
(* it is.                                                                    *)
LEMMA FingerDown ==
  ASSUME AnTyped, Asked, Selected, Queued, Ordered, Performing, Dragging, AnNext, Queued',
         NEW n \in 1..askCount', Held(asks', n), OverHttp(n)', serving',
         askCount' = n \/ (askCount' = n + 1 /\ n + 1 \in ToSet(backlog'))
  PROVE  activeDown' /\ lastXY' = n
<1>0. /\ n \in 1..askCount /\ n \in Nat /\ asks[n].kind \in {"down", "move"} /\ OverHttp(n)
      /\ askCount \in Nat /\ askCount' \in {askCount, askCount + 1}
  BY HeldBack, StepContinues, AndroidNumbers DEF AnTyped, Continues
<1>1. CASE Ok(n) /\ Held(asks, n)
  <2>1. LatestIs(n)
    <3>1. CASE askCount' = askCount + 1
      BY <1>0, <3>1 DEF LatestIs
    <3>2. CASE askCount' = askCount /\ n # askCount
      <4>1. DOMAIN backlog = 1..Len(backlog) /\ n + 1 \in ToSet(backlog') /\ askCount = n + 1
        BY <1>0, <3>2, LenProperties DEF AnTyped
      <4>2. PICK i \in DOMAIN backlog' : backlog'[i] = n + 1
        <5>1. DOMAIN backlog' = 1..Len(backlog')
          BY TypedStays, LenProperties DEF AnTyped
        <5> QED BY <4>1, <5>1 DEF ToSet
      <4>3. \E j \in DOMAIN backlog : backlog[j] = n + 1
        BY <1>0, <4>1, <4>2, QueueFrom
      <4> QED BY <4>1, <4>3 DEF LatestIs, ToSet
    <3> QED BY <1>0, <3>1, <3>2 DEF LatestIs
  <2>2. serving
    BY WhatChanges, SendsOverHttp DEF HandleClient, GivesUp, CompanionDies
  <2>3. activeDown /\ lastXY = n
    BY <1>0, <1>1, <2>1, <2>2 DEF Dragging, DraggingAt
  <2>4. ASSUME NEW i \in DOMAIN backlog, HandleClient(i) PROVE FALSE
    <3>1. backlog[1] \in 1..askCount /\ n < backlog[1] /\ askCount' = askCount /\ i = 1
      BY <1>0, <1>1, <2>4, Accepting DEF Queued, Behind, HandleClient
    <3>2. backlog[1] = n + 1 /\ n + 1 \in ToSet(backlog')
      BY <1>0, <3>1
    <3>3. \A j \in DOMAIN backlog' : n + 1 < backlog'[j]
      BY <2>4, <3>2, Accepting
    <3>4. DOMAIN backlog' = 1..Len(backlog')
      BY <2>4, Accepting
    <3>5. n + 1 < n + 1
      BY <3>2, <3>3, <3>4 DEF ToSet
    <3> QED BY <1>0, <3>5
  <2>5. ~InjectEvent
    <3> SUFFICES ASSUME InjectEvent PROVE FALSE
      OBVIOUS
    <3>1. handling # NoWork /\ askCount' = askCount /\ backlog' = backlog
      BY DEF InjectEvent
    <3>2. handling.ask \in 1..askCount /\ n < handling.ask
      BY <1>0, <1>1, <3>1, Injecting DEF Queued, Behind
    <3>3. handling.ask = n + 1 /\ n + 1 \in ToSet(backlog)
      BY <1>0, <3>1, <3>2
    <3>4. DOMAIN backlog = 1..Len(backlog)
      BY LenProperties DEF AnTyped
    <3>5. PICK i \in DOMAIN backlog : backlog[i] = n + 1
      BY <3>3, <3>4 DEF ToSet
    <3>6. handling.ask < backlog[i]
      BY <3>5 DEF Queued, QueuedAt
    <3> QED BY <1>0, <3>3, <3>5, <3>6
  <2>6. UNCHANGED <<activeDown, lastXY>>
    BY <2>4, <2>5, WhatChanges DEF InjectEventThrows, CompanionDies
  <2> QED BY <2>3, <2>6
<1>2. CASE Injects(n) \/ Finishes(n)
  <2>1. ~Injects(n)
    BY <1>0 DEF Injects, ProcessInjects, Queued
  <2>2. /\ n = handling.ask /\ handling # NoWork /\ PerformingOf(n)
        /\ activeDown' = (activeDown /\ asks[n].kind # "up") /\ lastXY' = lastXY
    BY <1>2, <2>1 DEF Finishes, InjectEvent, EndsTouch, Performing
  <2> QED BY <1>0, <2>2 DEF PerformingOf
<1> QED BY <1>1, <1>2, HeldOn

(* The companion lifts a drag from where it was moved to last.               *)
LEMMA LiftsFrom ==
  ASSUME AnTyped, Asked, Selected, Queued, Ordered, Performing, Dragging, AnNext,
         NEW n \in 1..askCount', LiftsIn(asks', askCount', n), asks'[n + 1].promise = "waiting", handling'.ask = n + 1
  PROVE  handling'.todo = <<Touch("up", n + 1, n)>>
<1>0. Continues /\ askCount \in Nat /\ n \in Nat
  BY StepContinues, AndroidNumbers DEF AnTyped, Continues
<1>h. handling'.ask \in 1..askCount
  <2>1. handling' # NoWork
    BY <1>0 DEF NoWork, NoAsk
  <2>2. handling' = [handling EXCEPT !.todo = Tail(handling.todo)] => handling'.ask = handling.ask
    BY DEF AnTyped
  <2>3. ASSUME HandleClient(1), 1 \in DOMAIN backlog, handling' = [ask |-> backlog[1], todo |-> EventsFor(backlog[1])]
        PROVE  handling'.ask \in 1..askCount
    BY <2>3, Accepting
  <2> QED BY <2>1, <2>2, <2>3, HandlingFrom, Injecting DEF InjectEvent
<1>1. /\ n \in 1..askCount /\ n + 1 \in 1..askCount /\ n + 1 \in Asks /\ Lifts(n) /\ Held(asks, n)
      /\ asks[n + 1].kind = "up" /\ asks[n + 1].of = asks[n].of
  BY <1>0, <1>h, LiftedBack
<1>2. asks[n + 1].promise = "waiting" /\ n + 1 = askCount
  BY <1>0, <1>1 DEF Continues
<1>3. CASE UNCHANGED handling
  BY <1>1, <1>2, <1>3 DEF Dragging, DraggingAt
<1>4. CASE HandleClient(1) /\ handling' = [ask |-> backlog[1], todo |-> EventsFor(backlog[1])] /\ 1 \in DOMAIN backlog
  <2>1. backlog[1] = n + 1 /\ handling'.todo = EventsFor(n + 1)
    BY <1>4
  <2>2. activeDown /\ lastXY = n
    BY <1>1, <1>2, <1>4, <2>1, HasEvents
  <2> QED BY <1>1, <2>1, <2>2 DEF EventsFor
<1>5. CASE InjectEvent /\ handling' = [handling EXCEPT !.todo = Tail(handling.todo)] /\ Tail(handling.todo) # <<>>
  <2>1. handling # NoWork /\ handling.ask = n + 1 /\ PerformingOf(n + 1)
    BY <1>5 DEF InjectEvent, Performing, AnTyped
  <2>2. PICK e : handling.todo = <<e>>
    BY <1>1, <2>1 DEF PerformingOf, Rest
  <2>3. Tail(<<e>>) = <<>>
    BY Scripts
  <2> QED BY <1>5, <2>2, <2>3
<1>6. CASE handling' = NoWork
  BY <1>0, <1>6 DEF NoWork, NoAsk
<1> QED BY <1>3, <1>4, <1>5, <1>6, HandlingFrom

(* What resolves now is the latest request.                                  *)
LEMMA Resolving ==
  ASSUME AnTyped, Asked, Selected, Queued, AnNext, NEW n \in 1..askCount,
         asks'[n].promise = "resolved", asks[n].promise # "resolved"
  PROVE  AskReturns(n)
<1>0. /\ Continues /\ n \in Asks /\ asks[n].promise = "waiting" /\ n = askCount /\ askCount' = askCount
      /\ asks \in [Asks -> AskRecords]
  BY StepContinues DEF Continues, AnTyped
<1>a. \A m, reply : ~Answers(m, reply)
  <2> SUFFICES ASSUME NEW m, NEW reply, Answers(m, reply) PROVE FALSE
    OBVIOUS
  <2>1. asks' # asks
    OBVIOUS
  <2>2. asks' = [asks EXCEPT ![m].reply = reply]
    BY <2>1 DEF Answers
  <2> QED BY <1>0, <2>2 DEF AskRecords
<1>b. asks' # asks
  OBVIOUS
<1>1. ASSUME NEW m \in Asks, AskReturns(m) PROVE AskReturns(n)
  <2>1. m = n
    BY <1>1, <1>0 DEF AskReturns
  <2> QED BY <1>1, <2>1
<1>2. ASSUME NEW m \in Asks, GivesUp(m) PROVE FALSE
  <2>1. asks' = [asks EXCEPT ![m] = [asks[m] EXCEPT !.promise = "rejected", !.reply = "none"]]
    BY <1>0, <1>2 DEF GivesUp
  <2>2. [asks[m] EXCEPT !.promise = "rejected", !.reply = "none"].promise = "rejected"
    BY <1>0 DEF AskRecords
  <2> QED BY <1>0, <2>1, <2>2
<1>3. CASE \E m \in Asks : ProcessInjects(m) \/ ProcessFails(m) \/ AskReturns(m) \/ GivesUp(m)
  BY <1>a, <1>1, <1>2, <1>3 DEF ProcessInjects, ProcessFails
<1>4. CASE \E i \in DOMAIN backlog : HandleClient(i)
  BY <1>a, <1>b, <1>4 DEF HandleClient
<1>5. CASE InjectEvent \/ InjectEventThrows \/ CompanionDies
  BY <1>a, <1>b, <1>5 DEF InjectEvent, InjectEventThrows, CompanionDies
<1>6. CASE \E b \in Sessions : CreateTouchBackend(b) \/ InitSucceeds(b) \/ InitFails(b) \/ Leaves(b)
  <2>1. UNCHANGED <<asks, askCount>> \/ askCount' = askCount + 1
    <3>1. ASSUME NEW b \in Sessions, NEW tried \in SUBSET (DOMAIN Order), TriesNext(b, tried)
          PROVE  UNCHANGED <<asks, askCount>> \/ askCount' = askCount + 1
      BY <3>1, NextCandidate DEF StartsInit, SendCommand, NewAsk
    <3>2. \A b \in Sessions : sessions[b].tried \in SUBSET (DOMAIN Order)
      BY DEF AnTyped
    <3> QED BY <1>6, <3>1, <3>2 DEF CreateTouchBackend, InitFails, InitSucceeds, Leaves
  <2>2. askCount \in Nat
    BY <1>0
  <2> QED BY <1>0, <1>b, <2>1, <2>2
<1>7. CASE \E b \in Sessions, kind \in TouchCommands :
             InstrumentationCommand(b, kind) \/ CliRefuses(b, kind) \/ CliRuns(b, kind)
  <2>1. askCount' = askCount + 1
    BY <1>7 DEF InstrumentationCommand, CliRefuses, CliRuns, SendCommand, NewAsk
  <2>2. askCount \in Nat
    BY <1>0
  <2> QED BY <1>0, <2>1, <2>2
<1> QED BY <1>3, <1>4, <1>5, <1>6, <1>7 DEF AnNext

(* The backend of the CLI keeps the point a drag was moved to last.          *)
LEMMA PointReached ==
  ASSUME AnTyped, Asked, Selected, Queued, Dragging, AnNext,
         NEW n \in 1..askCount', Held(asks', n), ~OverHttp(n)', askCount' = n, asks'[n].promise = "resolved"
  PROVE  lastPoint'[asks'[n].of] = n
<1>0. /\ Continues /\ n \in 1..askCount /\ n \in Asks /\ asks[n].kind \in {"down", "move"} /\ ~OverHttp(n) /\ asks'[n].of = asks[n].of
      /\ n = askCount
  <2>1. Continues /\ n \in 1..askCount /\ n \in Asks /\ asks[n].kind \in {"down", "move"} /\ ~OverHttp(n) /\ asks'[n].of = asks[n].of
    BY HeldBack, StepContinues
  <2> QED BY <2>1 DEF Continues
<1>1. CASE asks[n].promise = "resolved"
  <2>1. asks'[n] = asks[n] /\ Ok(n) /\ Held(asks, n)
    BY <1>0, <1>1, HeldBack DEF Continues, Asked, AskedOf
  <2>2. lastPoint[asks[n].of] = n
    BY <1>0, <1>1, <2>1 DEF Dragging, DraggingAt
  <2>3. UNCHANGED lastPoint
    <3>1. ASSUME NEW m \in Asks, AskReturns(m) PROVE FALSE
      BY <1>0, <1>1, <3>1, WaitingIsAsked DEF AskReturns
    <3> QED BY <3>1, WhatChanges
  <2> QED BY <1>0, <2>2, <2>3
<1>2. CASE asks[n].promise # "resolved"
  <2>1. AskReturns(n)
    BY <1>0, <1>2, Resolving
  <2>2. asks[n].reply = "ok"
    BY <1>0, <2>1 DEF AskReturns, AnTyped, AskRecords
  <2>3. asks[n].of \in Sessions /\ Backend(asks[n].of) = "cli"
    BY <1>0 DEF Asked, AskedOf, OverHttp
  <2>4. lastPoint' = [lastPoint EXCEPT ![asks[n].of] = n]
    BY <1>0, <2>1, <2>2, <2>3 DEF AskReturns, Streaming, ReachesPoint
  <2> QED BY <1>0, <2>3, <2>4 DEF AnTyped
<1> QED BY <1>1, <1>2

(* The backend of the CLI lifts a drag from where it was moved to last.      *)
LEMMA LiftedThere ==
  ASSUME AnTyped, Asked, Selected, Queued, Dragging, AnNext,
         NEW n \in 1..askCount', LiftsIn(asks', askCount', n), ~OverHttp(n)', asks'[n + 1].promise # "rejected"
  PROVE  asks'[n + 1].at = n
<1>0. Continues /\ askCount \in Nat /\ n \in Nat /\ n > 0
  BY StepContinues, AndroidNumbers DEF AnTyped, Continues
<1>1. CASE n + 1 <= askCount
  <2>1. /\ n \in 1..askCount /\ n + 1 \in 1..askCount /\ n + 1 \in Asks /\ Lifts(n) /\ ~OverHttp(n)
    BY <1>1, LiftedBack
  <2>2. asks[n + 1].promise # "rejected" /\ asks'[n + 1].at = asks[n + 1].at
    BY <1>0, <2>1 DEF Continues
  <2> QED BY <2>1, <2>2 DEF Dragging, DraggingAt
<1>2. CASE ~(n + 1 <= askCount)
  <2>1. n = askCount /\ askCount' = askCount + 1 /\ askCount' # askCount /\ n + 1 = askCount + 1
    BY <1>0, <1>2 DEF Continues, LiftsIn
  <2>2. PICK b \in Sessions, kind \in TouchCommands \union {"hello"} : NewOf(b, kind)
    BY <2>1, NewRequests
  <2>3. n \in 1..askCount /\ n \in Asks /\ asks[n].kind \in {"down", "move"} /\ ~OverHttp(n) /\ asks'[n].of = asks[n].of
        /\ asks'[n].reply = "ok" /\ Held(asks', n)
    BY HeldBack DEF LiftsIn
  <2>4. kind = "up" /\ b = asks[n].of
    BY <2>1, <2>2, <2>3 DEF NewOf, LiftsIn
  <2>5. Backend(b) = "cli"
    BY <2>3, <2>4 DEF Asked, AskedOf, OverHttp
  <2>6. CliRefuses(b, "up") \/ CliRuns(b, "up")
    BY <2>2, <2>4, <2>5 DEF NewOf
  <2>a. n + 1 \in Asks /\ asks \in [Asks -> AskRecords]
    BY <1>0, <2>1 DEF Continues, AnTyped
  <2>7. CliRuns(b, "up")
    <3> SUFFICES ASSUME CliRefuses(b, "up") PROVE FALSE
      BY <2>6
    <3>1. NewAsk(b, "up", NoAsk, "rejected")
      BY DEF CliRefuses
    <3>2. asks'[n + 1].promise = "rejected"
      BY <2>1, <2>a, <3>1 DEF NewAsk
    <3> QED BY <3>2
  <2>8. NewAsk(b, "up", lastPoint[b], "waiting")
    BY <2>7 DEF CliRuns
  <2>9. asks'[n + 1].at = lastPoint[b]
    BY <2>1, <2>a, <2>8 DEF NewAsk
  <2>10. asks'[n] = asks[n] /\ Ok(n) /\ Held(asks, n)
    <3>1. asks'[n] = asks[n]
      BY <1>0, <2>1, <2>3 DEF Continues
    <3> QED BY <2>3, <3>1, HeldBack DEF Ok
  <2>11. asks[n].promise = "resolved"
    <3>1. n \notin Waiting
      BY <2>7 DEF CliRuns, Ready
    <3> QED BY <2>3, <2>10, <3>1 DEF Waiting, Asked, AskedOf
  <2> QED BY <2>1, <2>3, <2>4, <2>9, <2>10, <2>11 DEF Dragging, DraggingAt
<1> QED BY <1>1, <1>2

(* A step keeps that a drag that goes on is where it was moved to last.      *)
LEMMA DraggingStays ==
  ASSUME AnTyped, Asked, Selected, Queued, Ordered, Performing, Dragging, AnNext
  PROVE  Dragging'
<1> SUFFICES ASSUME NEW n \in 1..askCount' PROVE DraggingAt(n)'
  BY DEF Dragging
<1>1. Queued'
  BY QueuedStays
<1>2. Lifts(n)' <=> LiftsIn(asks', askCount', n)
  BY DEF Lifts, LiftsIn
<1>3. Held(asks', n) => SawIn(stream', n, <<Touch(asks'[n].kind, n, n)>>)
  BY DragSeen
<1>4. LiftsIn(asks', askCount', n) /\ asks'[n + 1].reply = "ok" => SawIn(stream', n + 1, <<Touch("up", n + 1, n)>>)
  BY LiftSeen
<1>5. Held(asks', n) /\ OverHttp(n)' /\ serving' /\ LatestIs(n)' => activeDown' /\ lastXY' = n
  BY <1>1, FingerDown DEF LatestIs
<1>6. LiftsIn(asks', askCount', n) /\ asks'[n + 1].promise = "waiting" /\ handling'.ask = n + 1 =>
        handling'.todo = <<Touch("up", n + 1, n)>>
  BY LiftsFrom
<1>7. Held(asks', n) /\ ~OverHttp(n)' /\ askCount' = n /\ asks'[n].promise = "resolved" => lastPoint'[asks'[n].of] = n
  BY PointReached
<1>8. LiftsIn(asks', askCount', n) /\ ~OverHttp(n)' /\ asks'[n + 1].promise # "rejected" => asks'[n + 1].at = n
  BY LiftedThere
<1> QED BY <1>2, <1>3, <1>4, <1>5, <1>6, <1>7, <1>8 DEF DraggingAt, Ok

(* The invariant holds before there is a session.                            *)
LEMMA AnInitSound == AnInit => AnInv
<1> SUFFICES ASSUME AnInit PROVE AnInv
  OBVIOUS
<1>1. /\ askCount = 0 /\ asks = [n \in Asks |-> Unasked] /\ running = {} /\ backlog = <<>> /\ handling = NoWork
      /\ stream = <<>> /\ ~activeDown /\ sessions = [b \in Sessions |-> [stage |-> "none", tried |-> {}]]
      /\ handling.ask = NoAsk /\ cut = {} /\ 1..askCount = {}
  BY DEF AnInit, NoWork
<1>2. AnTyped
  <2>1. sessions \in [Sessions -> [stage : SessionStages, tried : SUBSET (DOMAIN Order)]]
    BY <1>1 DEF SessionStages
  <2>2. asks \in [Asks -> AskRecords]
    <3>1. Unasked \in AskRecords
      BY DEF Unasked, AskRecords
    <3> QED BY <1>1, <3>1
  <2>3. NoWork \in [ask : {NoAsk} \union Asks, todo : Seq(Touches)]
    BY DEF NoWork
  <2>4. backlog \in Seq(Asks) /\ stream \in Seq(Touches) /\ DOMAIN backlog = {}
    BY <1>1
  <2>5. askCount \in 0..MaxAsks
    BY <1>1, AndroidNumbers
  <2> QED BY <1>1, <2>1, <2>2, <2>3, <2>4, <2>5 DEF AnInit, AnTyped
<1>3. Asked
  BY <1>1 DEF Asked
<1>4. Selected
  <2>1. \A n \in Asks : asks[n].promise # "resolved"
    BY <1>1 DEF Unasked
  <2>2. \A b \in Sessions : sessions[b].stage = "none" /\ sessions[b].tried = {}
    BY <1>1
  <2> QED BY <2>1, <2>2 DEF Selected, OneActive, SelectedOf
<1>5. Queued
  <2>1. DOMAIN backlog = {}
    BY <1>1
  <2> QED BY <1>1, <2>1 DEF Queued
<1>6. Ordered
  <2>1. DOMAIN stream = {}
    BY <1>1
  <2> QED BY <2>1 DEF Ordered
<1>7. Performing /\ Performed /\ Dragging
  BY <1>1 DEF Performing, Performed, Dragging
<1> QED BY <1>2, <1>3, <1>4, <1>5, <1>6, <1>7 DEF AnInv

(* Every step of backends, companion, processes and sessions keeps the       *)
(* invariant.                                                                *)
LEMMA AnStepKeeps == AnInv /\ [AnNext]_androidVars => AnInv'
<1>1. ASSUME AnInv, AnNext PROVE AnInv'
  BY <1>1, TypedStays, AskedStays, SelectedStays, QueuedStays, OrderedStays, PerformingStays, PerformedStays,
     DraggingStays DEF AnInv
<1>2. ASSUME AnInv, UNCHANGED androidVars PROVE AnInv'
  <2>1. /\ UNCHANGED <<touchConfig, authorized, oldSdk, sessions, asks, askCount, known, lastPoint, running>>
        /\ UNCHANGED <<serving, backlog, cut, handling, activeDown, lastXY, stream>>
    BY <1>2 DEF androidVars
  <2>2. Order' = Order /\ (\A t : Usable(t)' <=> Usable(t)) /\ \A b : Backend(b)' = Backend(b)
    BY <2>1, OrderStays, BackendStays
  <2>3. \A n : OverHttp(n)' <=> OverHttp(n)
    BY <2>1, <2>2 DEF OverHttp
  <2>4. AnTyped' /\ Asked' /\ Selected'
    BY <1>2, <2>1, <2>2 DEF AnInv, AnTyped, Asked, AskedOf, Selected, OneActive, SelectedOf, Ok
  <2>5. Queued'
    BY <1>2, <2>1, <2>3 DEF AnInv, Queued, QueuedAt, Behind, Ok
  <2>6. Ordered'
    BY <1>2, <2>1, <2>3 DEF AnInv, Ordered, InjectedAt, Strays
  <2>7. Performing'
    BY <1>2, <2>1 DEF AnInv, Performing, PerformingOf, Rest
  <2>8. Performed'
    BY <1>2, <2>1 DEF AnInv, Performed, Ok, Stroke, Tap, Swipe
  <2>9. Dragging'
    BY <1>2, <2>1, <2>3 DEF AnInv, Dragging, DraggingAt, Lifts, LatestIs, Ok
  <2> QED BY <2>4, <2>5, <2>6, <2>7, <2>8, <2>9 DEF AnInv
<1> QED BY <1>1, <1>2

(* The invariant says what is promised.                                      *)
LEMMA AndroidTypesHold == AnInv => AnTypeOK
<1> SUFFICES ASSUME AnInv PROVE AnTypeOK
  OBVIOUS
<1>0. AnTyped /\ Asked /\ askCount \in Nat
  BY AndroidNumbers DEF AnInv, AnTyped
<1>1. \A b \in Sessions : /\ sessions[b].stage \in {"none", "trying", "ready", "failed", "closed"}
                          /\ sessions[b].tried \subseteq DOMAIN Order
                          /\ known[b] \subseteq {"sdk", "density"}
                          /\ lastPoint[b] \in {NoAsk} \union Asks
  BY <1>0 DEF AnTyped, SessionStages
<1>2. \A n \in Asks : /\ asks[n].promise \in {"unsent", "waiting", "resolved", "rejected"}
                      /\ asks[n].reply \in {"none", "ok", "error"}
                      /\ asks[n].promise = "unsent" <=> n > askCount
  <2> SUFFICES ASSUME NEW n \in Asks
               PROVE  /\ asks[n].promise \in {"unsent", "waiting", "resolved", "rejected"}
                      /\ asks[n].reply \in {"none", "ok", "error"}
                      /\ asks[n].promise = "unsent" <=> n > askCount
    OBVIOUS
  <2>1. n > askCount \/ n \in 1..askCount
    BY <1>0, AndroidNumbers
  <2> QED BY <1>0, <2>1 DEF AnTyped, AskRecords, Asked, AskedOf, Unasked
<1>3. ToSet(backlog) \subseteq 1..askCount
  <2> SUFFICES ASSUME NEW n \in ToSet(backlog) PROVE n \in 1..askCount
    OBVIOUS
  <2>1. PICK i \in DOMAIN backlog : n = backlog[i]
    BY <1>0, LenProperties DEF ToSet, AnTyped
  <2>2. n \in Asks /\ n <= askCount
    BY <1>0, <2>1, LenProperties, ElementOfSeq DEF AnTyped
  <2> QED BY <1>0, <2>2, AndroidNumbers
<1>4. ASSUME NEW s \in Seq(Touches) PROVE ToSet(s) \subseteq Touches
  <2>1. \A i \in 1..Len(s) : s[i] \in Touches
    BY ElementOfSeq
  <2> QED BY <2>1, LenProperties DEF ToSet
<1>5. \A m, n \in Waiting : m = n
  BY <1>0, WaitingIsAsked DEF Waiting
<1>6. handling.todo \in Seq(Touches) /\ stream \in Seq(Touches)
  BY <1>0 DEF AnTyped
<1>7. /\ running \subseteq 1..askCount /\ cut \subseteq ToSet(backlog)
      /\ activeDown \in BOOLEAN /\ lastXY \in {NoAsk} \union Asks /\ handling.ask \in {NoAsk} \union Asks
  BY <1>0 DEF AnTyped
<1> QED BY <1>1, <1>2, <1>3, <1>4, <1>5, <1>6, <1>7 DEF AnTypeOK

(* The invariant implies that the backend selected is the first usable of    *)
(* the order.                                                                *)
LEMMA SelectionHolds == AnInv => SelectionRight
<1> SUFFICES ASSUME AnInv, NEW b \in Sessions
             PROVE  LET s == sessions[b] IN
                    /\ \A i \in s.tried : Usable(Order[i])
                    /\ \A i \in DOMAIN Order :
                         Usable(Order[i]) /\ (s.stage = "failed" \/ \E j \in s.tried : i < j) => i \in s.tried
                    /\ touchConfig.mode = "force" => s.tried \subseteq {1}
                    /\ s.stage = "ready" =>
                         (Backend(b) = "instrumentation" <=>
                          \E n \in Asks : asks[n].of = b /\ asks[n].kind = "hello" /\ asks[n].promise = "resolved")
  BY DEF SelectionRight
<1>1. SelectedOf(b) /\ AnTyped
  BY DEF AnInv, Selected
<1>2. touchConfig.mode = "force" => sessions[b].tried \subseteq {1}
  <2> SUFFICES ASSUME touchConfig.mode = "force" PROVE DOMAIN Order = {1}
    BY <1>1 DEF AnTyped
  <2>1. Order = <<IF touchConfig.backend = "unset" THEN DefaultOrder[1] ELSE touchConfig.backend>>
    BY DEF Order
  <2>2. \A t : DOMAIN <<t>> = {1}
    OBVIOUS
  <2> QED BY <2>1, <2>2, Zenon
<1> QED BY <1>1, <1>2 DEF SelectedOf

(* The invariant implies that a tap, a swipe or a down that resolved was     *)
(* injected once and whole.                                                  *)
LEMMA InjectedHolds == AnInv => OkMeansInjected
<1> SUFFICES ASSUME AnInv, NEW n \in Asks, asks[n].promise = "resolved"
             PROVE  /\ asks[n].kind \in {"tap", "swipe"} => Saw(n, Stroke(asks[n].kind, n))
                    /\ asks[n].kind = "down" => Saw(n, <<Touch("down", n, n)>>)
  BY DEF OkMeansInjected
<1>1. n \in 1..askCount /\ Ok(n)
  <2>1. Asked /\ askCount \in Nat
    BY AndroidNumbers DEF AnInv, AnTyped
  <2>2. ~(n > askCount)
    BY <2>1 DEF Asked, Unasked
  <2>3. n \in 1..askCount
    BY <2>1, <2>2, AndroidNumbers
  <2> QED BY <2>1, <2>3 DEF Asked, AskedOf
<1>2. \A m, events : SawIn(stream, m, events) => Saw(m, events)
  BY DEF SawIn, Saw
<1> QED BY <1>1, <1>2 DEF AnInv, Performed

(* A request that did one event is at one place of the stream.               *)
LEMMA SawOne ==
  ASSUME NEW s, NEW n, NEW e, SawIn(s, n, <<e>>)
  PROVE  \E k \in DOMAIN s : s[k] = e /\ \A j \in DOMAIN s : s[j].by = n => j = k
<1> DEFINE events == <<e>>
<1>1. DOMAIN events = {1} /\ events[1] = e
  OBVIOUS
<1> HIDE DEF events
<1>2. PICK at \in [DOMAIN events -> DOMAIN s] :
        /\ \A i \in DOMAIN events : s[at[i]] = events[i]
        /\ \A k \in DOMAIN s : s[k].by = n => \E i \in DOMAIN events : k = at[i]
  BY DEF SawIn, events
<1>3. at[1] \in DOMAIN s /\ s[at[1]] = e /\ \A k \in DOMAIN s : s[k].by = n => k = at[1]
  BY <1>1, <1>2
<1> QED BY <1>3

(* The invariant implies that a drag that resolved is whole and in order on  *)
(* the device.                                                               *)
LEMMA DragsHold == AnInv => DragsWhole
<1> SUFFICES ASSUME AnInv, NEW d \in Asks, NEW u \in Asks, Drag(d, u)
             PROVE  \E at \in [d..u -> DOMAIN stream] :
                      /\ \A m, n \in d..u : m < n => at[m] < at[n]
                      /\ \A n \in d..u : stream[at[n]] = Touch(asks[n].kind, n, IF n = u THEN u - 1 ELSE n)
                      /\ \A k \in at[d]..at[u] : Stray(stream[k].by, u) \/ \E n \in d..u : k = at[n]
  BY DEF DragsWhole
<1>0. /\ AnTyped /\ Asked /\ Ordered /\ Dragging /\ askCount \in Nat /\ d \in Nat /\ u \in Nat /\ d > 0 /\ u <= MaxAsks /\ d < u
      /\ asks[d].kind = "down" /\ asks[u].kind = "up"
      /\ \A n \in d..u : asks[n].of = asks[u].of /\ asks[n].promise = "resolved"
      /\ \A n \in (d + 1)..(u - 1) : asks[n].kind = "move"
  BY AndroidNumbers DEF AnInv, AnTyped, Drag
<1>1. ASSUME NEW n \in d..u PROVE n \in Asks /\ n \in 1..askCount /\ asks[n].reply = "ok" /\ n \in Nat
  <2>1. n \in Asks /\ n \in Nat
    BY <1>0, AndroidNumbers
  <2>2. ~(n > askCount)
    BY <1>0, <2>1 DEF Asked, Unasked
  <2>3. n \in 1..askCount
    BY <1>0, <2>1, <2>2
  <2> QED BY <1>0, <2>1, <2>3 DEF Asked, AskedOf, Ok
<1>2. ASSUME NEW n \in d..(u - 1) PROVE Held(asks, n)
  <2>1. /\ d \in 1..n /\ n \in d..u /\ \A m \in (d + 1)..n : m \in (d + 1)..(u - 1)
        /\ \A m \in d..n : m \in d..u
    BY <1>0
  <2>2. Chain(asks, d, n)
    BY <1>0, <1>1, <2>1 DEF Chain
  <2> QED BY <2>1, <2>2 DEF Held
<1> DEFINE e(n) == Touch(asks[n].kind, n, IF n = u THEN u - 1 ELSE n)
<1>3. ASSUME NEW n \in d..u PROVE SawIn(stream, n, <<e(n)>>)
  <2>1. CASE n = u
    <3>m. PICK m : m = u - 1
      OBVIOUS
    <3>1. m \in d..(u - 1) /\ m \in d..u /\ u = m + 1 /\ n = m + 1
      BY <1>0, <2>1, <3>m
    <3>2. m \in 1..askCount /\ m + 1 <= askCount /\ Held(asks, m) /\ asks[m + 1].of = asks[m].of /\ asks[m + 1].kind = "up"
          /\ Ok(m + 1)
      BY <1>0, <1>1, <1>2, <2>1, <3>1 DEF Ok
    <3>3. SawIn(stream, m + 1, <<Touch("up", m + 1, m)>>)
      BY <1>0, <3>2 DEF Dragging, DraggingAt, Lifts
    <3>4. e(n) = Touch("up", m + 1, m)
      BY <1>0, <2>1, <3>1, <3>m
    <3> HIDE DEF e
    <3> QED BY <3>1, <3>3, <3>4
  <2>2. CASE n # u
    <3>1. n \in d..(u - 1)
      BY <1>0, <2>2
    <3>2. SawIn(stream, n, <<Touch(asks[n].kind, n, n)>>)
      BY <1>0, <1>1, <1>2, <3>1 DEF Dragging, DraggingAt
    <3>3. e(n) = Touch(asks[n].kind, n, n)
      BY <2>2
    <3> HIDE DEF e
    <3> QED BY <3>2, <3>3
  <2> QED BY <2>1, <2>2
<1>4. \A n : e(n).by = n
  BY DEF Touch
<1> HIDE DEF e
<1> DEFINE at == [n \in d..u |-> CHOOSE k \in DOMAIN stream : stream[k] = e(n)]
<1>5. ASSUME NEW n \in d..u
      PROVE  /\ at[n] \in DOMAIN stream /\ stream[at[n]] = e(n)
             /\ \A j \in DOMAIN stream : stream[j].by = n => j = at[n]
  <2>1. PICK k \in DOMAIN stream : stream[k] = e(n) /\ \A j \in DOMAIN stream : stream[j].by = n => j = k
    <3>f. PICK f : f = e(n)
      OBVIOUS
    <3>1. SawIn(stream, n, <<f>>)
      BY <1>3, <3>f
    <3>2. \E k \in DOMAIN stream : stream[k] = f /\ \A j \in DOMAIN stream : stream[j].by = n => j = k
      BY <3>1, SawOne
    <3> QED BY <3>2, <3>f
  <2>2. at[n] \in DOMAIN stream /\ stream[at[n]] = e(n)
    BY <2>1
  <2>3. at[n] = k
    BY <1>4, <2>1, <2>2
  <2> HIDE DEF at
  <2> QED BY <2>1, <2>2, <2>3
<1>6. at \in [d..u -> DOMAIN stream]
  BY <1>5
<1> HIDE DEF at
<1>7. DOMAIN stream = 1..Len(stream) /\ Len(stream) \in Nat
  BY <1>0, LenProperties DEF AnTyped
<1>8. ASSUME NEW m \in d..u, NEW n \in d..u, m < n PROVE at[m] < at[n]
  <2> SUFFICES ASSUME ~(at[m] < at[n]) PROVE FALSE
    OBVIOUS
  <2>1. at[m] \in DOMAIN stream /\ at[n] \in DOMAIN stream /\ stream[at[m]].by = m /\ stream[at[n]].by = n
    BY <1>4, <1>5
  <2>2. at[m] # at[n]
    BY <1>1, <1>8, <2>1
  <2>3. at[n] < at[m]
    BY <1>7, <2>1, <2>2
  <2>4. Strays(m, n)
    BY <1>0, <1>8, <2>1, <2>3 DEF Ordered
  <2> QED BY <1>0, <2>4 DEF Strays
<1>9. ASSUME NEW k \in at[d]..at[u] PROVE Stray(stream[k].by, u) \/ \E n \in d..u : k = at[n]
  <2>0. /\ d \in d..u /\ u \in d..u /\ at[d] \in DOMAIN stream /\ at[u] \in DOMAIN stream
        /\ stream[at[d]].by = d /\ stream[at[u]].by = u
    BY <1>0, <1>4, <1>5
  <2>c. PICK c : c = stream[k].by
    OBVIOUS
  <2>1. k \in DOMAIN stream /\ at[d] <= k /\ k <= at[u] /\ k \in Nat /\ at[d] \in Nat /\ at[u] \in Nat
    BY <1>7, <2>0
  <2>2. c \in 1..askCount /\ c \in Nat
    BY <1>0, <2>1, <2>c DEF Ordered, InjectedAt
  <2>3. CASE c \in d..u
    BY <1>5, <2>1, <2>3, <2>c
  <2>4. CASE c < d
    <3>1. at[d] < k
      BY <1>0, <2>0, <2>1, <2>2, <2>4, <2>c
    <3>2. Strays(c, d)
      BY <1>0, <2>0, <2>1, <2>4, <2>c, <3>1 DEF Ordered
    <3>3. Stray(c, u)
      BY <1>0, <2>0, <3>2 DEF Strays, Stray, OverHttp
    <3> QED BY <2>c, <3>3
  <2>5. CASE u < c
    <3>1. k < at[u]
      BY <1>0, <2>0, <2>1, <2>2, <2>5, <2>c
    <3>2. Strays(u, c)
      BY <1>0, <2>0, <2>1, <2>5, <2>c, <3>1 DEF Ordered
    <3> QED BY <1>0, <2>0, <3>2 DEF Strays
  <2> QED BY <1>0, <2>2, <2>3, <2>4, <2>5
<1> QED BY <1>5, <1>6, <1>8, <1>9 DEF e

(* Touches are kept in order, for any configuration of the backends, any     *)
(* numbers of sessions and requests, and any crash of the companion          *)
(* (touch/index.ts:50-98, instrumentation-backend.ts:80-98,                  *)
(* cli-backend.ts:241-247, RNDriverTouchCompanion.kt:79-81 and 231-256).     *)
THEOREM TouchesInductive == AnInit /\ [][AnNext]_androidVars => []AnInv
<1> QED BY AnInitSound, AnStepKeeps, PTL

(* The backend selected is the first usable of the order                     *)
(* (touch/index.ts:50-98); a command that resolved was injected, once and    *)
(* whole; and a drag whose commands resolved is in order on the device, with *)
(* nothing between its events but strays of requests given up before         *)
(* (instrumentation-backend.ts:80-98, RNDriverTouchCompanion.kt:231-256).    *)
THEOREM TouchesToldTrue == AnInit /\ [][AnNext]_androidVars => [](AnTypeOK /\ AndroidTold)
<1>1. AnInv => AnTypeOK /\ AndroidTold
  BY AndroidTypesHold, SelectionHolds, InjectedHolds, DragsHold DEF AndroidTold
<1> QED BY <1>1, TouchesInductive, PTL

(* What device.files and the touches on Android tell their callers is done:  *)
(* the results of files are those of the place asked for, inside the         *)
(* container, and touches that resolved were injected. It holds together     *)
(* with the connection of the device and whatever it does (device.ts, files, *)
(* touch/).                                                                  *)
THEOREM DoneIsDone == DeviceSpec => []DoneAsTold
<1>1. FiTypeOK /\ FilesTrue /\ AnTypeOK /\ AndroidTold => DoneAsTold
  BY DEF DoneAsTold
<1> QED BY <1>1, DeviceIsItsParts, FilesToldTrue, TouchesToldTrue, PTL
=============================================================================
