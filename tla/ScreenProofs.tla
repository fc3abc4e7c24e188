----------------------------- MODULE ScreenProofs -----------------------------
(* Proofs about what a test does to the screen (MCScreen): the harness in    *)
(* the app, scrollIntoView, and the locators, each by an inductive invariant *)
(* of its own, and then the composition, in which one of them moves and the  *)
(* others stay as they are.                                                  *)
EXTENDS MCScreen, FiniteSetTheorems, TLAPS

-----------------------------------------------------------------------------
(* The harness: traces.                                                      *)

(* Adding an event to the newest of a list gives the newest of the list with *)
(* the event added: push and shift keep what a cut at the end would.         *)
LEMMA KeptIsNewest ==
  ASSUME NEW S, NEW list \in Seq(S), NEW event \in S
  PROVE  /\ Kept(Newest(list), event) = Newest(Append(list, event))
         /\ Newest(list) \in Seq(S) /\ Len(Newest(list)) <= MaxTrace
<1>1. MaxTrace \in Nat \ {0} BY HarnessBounds
<1>2. Newest(list) \in Seq(S) /\ Len(Newest(list)) <= MaxTrace
  BY <1>1 DEF Newest
<1>3. CASE Len(list) < MaxTrace
  BY <1>1, <1>3 DEF Newest, Kept
<1>4. CASE Len(list) = MaxTrace
  <2>1. Newest(list) = list BY <1>1, <1>4 DEF Newest
  <2>2. Len(Append(list, event)) = MaxTrace + 1 BY <1>4
  <2>3. Kept(list, event) = Tail(Append(list, event)) BY <1>1, <2>2 DEF Kept
  <2>4. Newest(Append(list, event)) = SubSeq(Append(list, event), 2, MaxTrace + 1)
    BY <1>1, <2>2 DEF Newest
  <2> QED BY <1>1, <1>2, <2>1, <2>2, <2>3, <2>4
<1>5. CASE Len(list) > MaxTrace
  <2> DEFINE cut == SubSeq(list, Len(list) - MaxTrace + 1, Len(list))
             all == Append(list, event)
  <2>1. Newest(list) = cut /\ cut \in Seq(S) /\ Len(cut) = MaxTrace
    BY <1>1, <1>5 DEF Newest
  <2>2. all \in Seq(S) /\ Len(all) = Len(list) + 1 OBVIOUS
  <2>3. Newest(all) = SubSeq(all, Len(list) - MaxTrace + 2, Len(list) + 1)
    BY <1>1, <1>5, <2>2 DEF Newest
  <2>4. Kept(cut, event) = Tail(Append(cut, event))
    BY <1>1, <2>1 DEF Kept
  <2>5. /\ Tail(Append(cut, event)) \in Seq(S) /\ Len(Tail(Append(cut, event))) = MaxTrace
        /\ Newest(all) \in Seq(S) /\ Len(Newest(all)) = MaxTrace
    <3> HIDE DEF cut, all
    <3>1. Append(cut, event) \in Seq(S) /\ Len(Append(cut, event)) = MaxTrace + 1 BY <2>1, <1>1
    <3>2. Tail(Append(cut, event)) \in Seq(S) /\ Len(Tail(Append(cut, event))) = MaxTrace
      BY <1>1, <3>1
    <3>3. Newest(all) \in Seq(S) /\ Len(Newest(all)) = MaxTrace BY <1>1, <1>5, <2>2, <2>3
    <3> QED BY <3>2, <3>3
  <2>6. ASSUME NEW i \in 1..MaxTrace
        PROVE  Tail(Append(cut, event))[i] = Newest(all)[i]
    <3>1. Tail(Append(cut, event))[i] = Append(cut, event)[i + 1]
      <4> HIDE DEF cut
      <4> QED BY <1>1, <2>1
    <3>2. Newest(all)[i] = all[Len(list) - MaxTrace + 1 + i]
      <4> HIDE DEF all
      <4> QED BY <1>1, <1>5, <2>2, <2>3
    <3>3. CASE i = MaxTrace
      <4>1. Append(cut, event)[i + 1] = event
        <5> HIDE DEF cut
        <5> QED BY <1>1, <2>1, <3>3
      <4>2. all[Len(list) - MaxTrace + 1 + i] = event BY <1>1, <1>5, <3>3
      <4> HIDE DEF cut, all
      <4> QED BY <3>1, <3>2, <4>1, <4>2
    <3>4. CASE i < MaxTrace
      <4>1. Append(cut, event)[i + 1] = cut[i + 1] BY <1>1, <2>1, <3>4
      <4>2. cut[i + 1] = list[Len(list) - MaxTrace + 1 + i] BY <1>1, <1>5, <3>4
      <4>3. all[Len(list) - MaxTrace + 1 + i] = list[Len(list) - MaxTrace + 1 + i]
        BY <1>1, <1>5, <3>4
      <4> HIDE DEF cut, all
      <4> QED BY <3>1, <3>2, <4>1, <4>2, <4>3
    <3>5. i = MaxTrace \/ i < MaxTrace BY <1>1
    <3> HIDE DEF cut, all
    <3> QED BY <3>3, <3>4, <3>5
  <2>7. Tail(Append(cut, event)) = Newest(all)
    <3> HIDE DEF cut, all
    <3> QED BY <1>1, <2>5, <2>6, Z3
  <2> QED BY <1>2, <2>1, <2>4, <2>7
<1> QED BY <1>1, <1>3, <1>4, <1>5

LEMMA AddedOne ==
  ASSUME NEW S, NEW list \in Seq(S), NEW a \in S
  PROVE  list \o <<a>> = Append(list, a)
OBVIOUS

LEMMA AddedTwo ==
  ASSUME NEW S, NEW list \in Seq(S), NEW a \in S, NEW b \in S
  PROVE  list \o <<a, b>> = Append(Append(list, a), b)
<1> DEFINE left == list \o <<a, b>>
           right == Append(Append(list, a), b)
<1>1. left \in Seq(S) /\ Len(left) = Len(list) + 2 OBVIOUS
<1>2. right \in Seq(S) /\ Len(right) = Len(list) + 2 OBVIOUS
<1>3. ASSUME NEW i \in 1..(Len(list) + 2) PROVE left[i] = right[i] OBVIOUS
<1> HIDE DEF left, right
<1>4. left = right BY <1>1, <1>2, <1>3, Z3
<1> QED BY <1>4 DEF left, right

(* What the harness keeps, to be proved of each of its actions: beside what  *)
(* it promises, what there is to undo of the console, and how far the frame  *)
(* counter can be ahead of the frames the wait has seen, which a reload, at  *)
(* which the counter starts over, can only lessen.                           *)
TracingIs == tracing \in [active : BOOLEAN, events : Seq(1..MaxHeard)]

ConsoleIs ==
  /\ printed
  /\ \/ original = {} /\ console = 0
     \/ original = {0} /\ console = 1 /\ tracing.active

RafIs ==
  /\ FramesWaited
  /\ rafWait.step = "polling" =>
       /\ rafWait.target >= rafWait.count
       /\ frameCount + rafWait.count <= rendered + rafWait.target

HaInv == HaTypeOK /\ TracingIs /\ TraceIsNewest /\ ConsoleIs /\ FillLands /\ RafIs

LEMMA EventsAreNewest ==
  ASSUME HaInv, NEW n \in 1..2, TraceEvents(n)
  PROVE  /\ TracingIs' /\ TraceIsNewest' /\ tracing'.active = tracing.active
         /\ emitted' \in 0..MaxHeard /\ heard' \in Seq(1..MaxHeard)
<1> DEFINE first == emitted + 1
           second == emitted + 2
<1>1. /\ MaxHeard \in Nat /\ MaxTrace \in Nat /\ emitted \in 0..MaxHeard /\ emitted + n <= MaxHeard
      /\ emitted' = emitted + n /\ heard \in Seq(1..MaxHeard) /\ TracingIs
      /\ tracing.events = IF tracing.active THEN Newest(heard) ELSE <<>>
  BY HarnessBounds DEF HaInv, HaTypeOK, TraceEvents, TraceIsNewest
<1>2. emitted' \in 0..MaxHeard BY <1>1
<1>3. CASE ~tracing.active
  <2>1. tracing' = tracing /\ heard' = heard BY <1>3 DEF TraceEvents
  <2> QED BY <1>1, <1>2, <1>3, <2>1 DEF TracingIs, TraceIsNewest
<1>4. CASE tracing.active
  <2> DEFINE one == Append(heard, first)
             two == Append(one, second)
  <2>1. first \in 1..MaxHeard BY <1>1
  <2>2. one \in Seq(1..MaxHeard) BY <1>1, <2>1
  <2>3. Kept(tracing.events, first) = Newest(one) /\ Newest(one) \in Seq(1..MaxHeard)
    BY <1>1, <1>4, <2>1, <2>2, KeptIsNewest
  <2>4. CASE n = 1
    <3>1. tracing' = [tracing EXCEPT !.events = Kept(tracing.events, first)]
      BY <1>4, <2>4 DEF TraceEvents
    <3>2. heard' = one
      <4>1. heard' = heard \o [i \in 1..n |-> emitted + i] BY <1>4 DEF TraceEvents
      <4>2. [i \in 1..n |-> emitted + i] = <<first>> BY <1>1, <2>4
      <4> QED BY <1>1, <2>1, <4>1, <4>2, AddedOne
    <3>3. tracing' = [active |-> TRUE, events |-> Newest(one)]
      BY <1>1, <1>4, <2>3, <3>1 DEF TracingIs
    <3>4. TracingIs' BY <2>3, <3>3 DEF TracingIs
    <3>5. TraceIsNewest' BY <3>2, <3>3 DEF TraceIsNewest
    <3> QED BY <1>2, <1>4, <2>2, <3>2, <3>3, <3>4, <3>5
  <2>5. CASE n = 2
    <3>1. second \in 1..MaxHeard BY <1>1, <2>5
    <3>2. two \in Seq(1..MaxHeard) BY <2>2, <3>1
    <3>3. Kept(Newest(one), second) = Newest(two) /\ Newest(two) \in Seq(1..MaxHeard)
      BY <2>2, <3>1, <3>2, KeptIsNewest
    <3>4. tracing' = [tracing EXCEPT !.events = Kept(Kept(tracing.events, first), second)]
      BY <1>4, <2>5 DEF TraceEvents
    <3>5. heard' = two
      <4>1. heard' = heard \o [i \in 1..n |-> emitted + i] BY <1>4 DEF TraceEvents
      <4>2. [i \in 1..n |-> emitted + i] = <<first, second>> BY <1>1, <2>5
      <4>3. heard \o <<first, second>> = two
        <5>1. heard \in Seq(1..MaxHeard) BY <1>1
        <5> HIDE DEF first, second
        <5> QED BY <5>1, <2>1, <3>1, AddedTwo
      <4> QED BY <4>1, <4>2, <4>3
    <3>6. tracing' = [active |-> TRUE, events |-> Newest(two)]
      BY <1>1, <1>4, <2>3, <3>3, <3>4 DEF TracingIs
    <3>7. TracingIs' BY <3>3, <3>6 DEF TracingIs
    <3>8. TraceIsNewest' BY <3>5, <3>6 DEF TraceIsNewest
    <3> QED BY <1>2, <1>4, <3>2, <3>5, <3>6, <3>7, <3>8
  <2> QED BY <2>4, <2>5
<1> QED BY <1>3, <1>4

LEMMA HaInvInit == HaInit => HaInv
<1> SUFFICES ASSUME HaInit PROVE HaInv OBVIOUS
<1>1. MaxTrace \in Nat /\ MaxHeard \in Nat /\ MaxFrames \in Nat /\ MaxRestarts \in Nat
  BY HarnessBounds
<1>2. tracing = [active |-> FALSE, events |-> <<>>] BY DEF HaInit, NotTracing
<1>a. TracingIs BY <1>2 DEF TracingIs
<1>b. rafWait \in [step : {"idle", "polling", "resolved", "timedOut"},
                  target : 0..(MaxFrames + 2), count : 0..2]
  BY <1>1 DEF HaInit
<1>c. field \in [controlled : BOOLEAN, handler : BOOLEAN, mirror : BOOLEAN,
                state : 0..2, native : 0..2]
  BY DEF HaInit
<1>d. touchModule \in BOOLEAN /\ ticking \in BOOLEAN /\ printed \in BOOLEAN
  BY Zenon DEF HaInit
<1>h. tracing.active \in BOOLEAN BY <1>2
<1>e. /\ tracing.events \in Seq(1..MaxHeard) /\ heard \in Seq(1..MaxHeard)
      /\ console \in Nat /\ original \in SUBSET Nat
  BY <1>2 DEF HaInit
<1>f. /\ frameCount \in 0..MaxFrames /\ restarts \in 0..MaxRestarts /\ emitted \in 0..MaxHeard
      /\ filled \in 0..2 /\ rendered \in Nat
  BY <1>1 DEF HaInit
<1>g. HaTypeOK BY <1>b, <1>c, <1>d, <1>h, <1>e, <1>f DEF HaTypeOK
<1>3. TraceIsNewest /\ ConsoleIs /\ FillLands /\ RafIs
  BY DEF HaInit, NotTracing, TraceIsNewest, ConsoleIs, FillLands, RafIs, FramesWaited
<1> QED BY <1>a, <1>g, <1>3 DEF HaInv

LEMMA HaInvNext ==
  ASSUME HaInv, HaNext \/ UNCHANGED haVars
  PROVE  HaInv'
<1>1. MaxTrace \in Nat /\ MaxHeard \in Nat /\ MaxFrames \in Nat /\ MaxRestarts \in Nat
  BY HarnessBounds
<1>2. HaTypeOK /\ TracingIs /\ TraceIsNewest /\ ConsoleIs /\ FillLands /\ RafIs
  BY DEF HaInv
<1>3. CASE UNCHANGED haVars
  BY <1>2, <1>3 DEF haVars, traceVars, fieldVars, frameVars, HaInv, HaTypeOK, TracingIs,
     TraceIsNewest, ConsoleIs, FillLands, RafIs, FramesWaited
<1>4. CASE BridgeCall
  <2>1. CASE TraceEvents(1)
    <3>1. /\ TracingIs' /\ TraceIsNewest' /\ tracing'.active = tracing.active
          /\ emitted' \in 0..MaxHeard /\ heard' \in Seq(1..MaxHeard)
      BY <2>1, EventsAreNewest
    <3>2. UNCHANGED <<console, original, printed, fieldVars, frameVars, touchModule, restarts>>
      BY <1>4 DEF BridgeCall
    <3>3. HaTypeOK' BY <1>2, <3>1, <3>2 DEF HaTypeOK, TracingIs, fieldVars, frameVars
    <3>4. ConsoleIs' BY <1>2, <3>1, <3>2 DEF ConsoleIs
    <3>5. FillLands' /\ RafIs'
      BY <1>2, <3>2 DEF FillLands, RafIs, FramesWaited, fieldVars, frameVars
    <3> QED BY <3>1, <3>3, <3>4, <3>5 DEF HaInv
  <2>2. CASE UNCHANGED <<tracing, emitted, heard>>
    BY <1>2, <1>4, <2>2 DEF BridgeCall, fieldVars, frameVars, HaInv, HaTypeOK, TracingIs,
       TraceIsNewest, ConsoleIs, FillLands, RafIs, FramesWaited
  <2> QED BY <1>4, <2>1, <2>2 DEF BridgeCall
<1>5. ASSUME NEW level \in {"log", "error"}, AppLogs(level) PROVE HaInv'
  <2>1. UNCHANGED <<console, original, fieldVars, frameVars, touchModule, restarts>>
    BY <1>5 DEF AppLogs
  <2>2. printed' BY <1>2, <1>5 DEF AppLogs, ConsoleIs
  <2>3. /\ TracingIs' /\ TraceIsNewest' /\ tracing'.active = tracing.active
        /\ emitted' \in 0..MaxHeard /\ heard' \in Seq(1..MaxHeard)
    <3>1. CASE console = 0
      <4>1. UNCHANGED <<tracing, emitted, heard>> BY <1>5, <3>1 DEF AppLogs
      <4> QED BY <1>2, <4>1 DEF HaTypeOK, TracingIs, TraceIsNewest
    <3>2. CASE console # 0
      <4>1. TraceEvents(IF level = "error" THEN 2 ELSE 1) BY <1>5, <3>2 DEF AppLogs
      <4>2. (IF level = "error" THEN 2 ELSE 1) \in 1..2 OBVIOUS
      <4> QED BY <4>1, <4>2, EventsAreNewest
    <3> QED BY <3>1, <3>2
  <2>4. HaTypeOK' BY <1>2, <2>1, <2>2, <2>3 DEF HaTypeOK, TracingIs, fieldVars, frameVars
  <2>5. ConsoleIs' BY <1>2, <2>1, <2>2, <2>3 DEF ConsoleIs
  <2>6. FillLands' /\ RafIs'
    BY <1>2, <2>1 DEF FillLands, RafIs, FramesWaited, fieldVars, frameVars
  <2> QED BY <2>3, <2>4, <2>5, <2>6 DEF HaInv
<1>6. ASSUME NEW includeConsole \in BOOLEAN, StartTracing(includeConsole) PROVE HaInv'
  <2>1. UNCHANGED <<emitted, printed, fieldVars, frameVars, touchModule, restarts>>
    BY <1>6 DEF StartTracing
  <2>2. tracing' = [active |-> TRUE, events |-> <<>>] /\ heard' = <<>> BY <1>6 DEF StartTracing
  <2>3. TracingIs' BY <2>2 DEF TracingIs
  <2>4. TraceIsNewest' BY <1>1, <2>2 DEF TraceIsNewest, Newest
  <2>5. ConsoleIs' BY <1>2, <1>6, <2>1, <2>2 DEF ConsoleIs, StartTracing, PatchConsole, Patched
  <2>6. HaTypeOK'
    BY <1>2, <2>1, <2>2, <2>5 DEF HaTypeOK, ConsoleIs, fieldVars, frameVars
  <2>7. FillLands' /\ RafIs'
    BY <1>2, <2>1 DEF FillLands, RafIs, FramesWaited, fieldVars, frameVars
  <2> QED BY <2>3, <2>4, <2>5, <2>6, <2>7 DEF HaInv
<1>7. CASE StopTracing
  <2>1. UNCHANGED <<emitted, printed, fieldVars, frameVars, touchModule, restarts>>
    BY <1>7 DEF StopTracing
  <2>2. tracing' = [active |-> FALSE, events |-> <<>>] /\ heard' = <<>>
    BY <1>7 DEF StopTracing, NotTracing
  <2>3. TracingIs' /\ TraceIsNewest' BY <2>2 DEF TracingIs, TraceIsNewest
  <2>4. ConsoleIs'
    <3>1. RestoreConsole /\ ConsoleIs BY <1>2, <1>7 DEF StopTracing
    <3>2. original' = {} /\ console' = 0 BY <3>1 DEF RestoreConsole, Patched, ConsoleIs
    <3> QED BY <2>1, <3>1, <3>2 DEF ConsoleIs
  <2>5. HaTypeOK'
    BY <1>2, <2>1, <2>2, <2>4 DEF HaTypeOK, ConsoleIs, fieldVars, frameVars
  <2>6. FillLands' /\ RafIs'
    BY <1>2, <2>1 DEF FillLands, RafIs, FramesWaited, fieldVars, frameVars
  <2> QED BY <2>3, <2>4, <2>5, <2>6 DEF HaInv
<1>8. ASSUME NEW text \in 1..2, ApplyFill(text) PROVE HaInv'
  <2>1. UNCHANGED <<traceVars, frameVars, touchModule, restarts>> BY <1>8 DEF ApplyFill
  <2>2. /\ field' = [field EXCEPT !.native = IF field.mirror THEN text ELSE field.native,
                                  !.state = IF field.handler THEN text ELSE field.state]
        /\ filled' = text
    BY <1>8 DEF ApplyFill
  <2>3. field \in [controlled : BOOLEAN, handler : BOOLEAN, mirror : BOOLEAN,
                   state : 0..2, native : 0..2]
    BY <1>2 DEF HaTypeOK
  <2>4. /\ (IF field.mirror THEN text ELSE field.native) \in 0..2
        /\ (IF field.handler THEN text ELSE field.state) \in 0..2
    BY <2>3
  <2>5. field' \in [controlled : BOOLEAN, handler : BOOLEAN, mirror : BOOLEAN,
                    state : 0..2, native : 0..2]
    BY <2>2, <2>3, <2>4
  <2>6. HaTypeOK' BY <1>2, <2>1, <2>2, <2>5 DEF HaTypeOK, traceVars, frameVars
  <2>7. FillLands' BY <2>2, <2>3 DEF FillLands
  <2>8. TracingIs' /\ TraceIsNewest' /\ ConsoleIs' /\ RafIs'
    BY <1>2, <2>1 DEF TracingIs, TraceIsNewest, ConsoleIs, RafIs, FramesWaited, traceVars, frameVars
  <2> QED BY <2>6, <2>7, <2>8 DEF HaInv
<1>9. CASE Renders
  <2>1. UNCHANGED <<filled, traceVars, frameVars, touchModule, restarts>> BY <1>9 DEF Renders
  <2>2. field.controlled /\ field' = [field EXCEPT !.native = field.state] BY <1>9 DEF Renders
  <2>3. field \in [controlled : BOOLEAN, handler : BOOLEAN, mirror : BOOLEAN,
                   state : 0..2, native : 0..2]
    BY <1>2 DEF HaTypeOK
  <2>4. field' \in [controlled : BOOLEAN, handler : BOOLEAN, mirror : BOOLEAN,
                    state : 0..2, native : 0..2]
    BY <2>2, <2>3
  <2>5. HaTypeOK' BY <1>2, <2>1, <2>4 DEF HaTypeOK, traceVars, frameVars
  <2>6. FillLands' BY <1>2, <2>1, <2>2, <2>3 DEF FillLands
  <2>7. TracingIs' /\ TraceIsNewest' /\ ConsoleIs' /\ RafIs'
    BY <1>2, <2>1 DEF TracingIs, TraceIsNewest, ConsoleIs, RafIs, FramesWaited, traceVars, frameVars
  <2> QED BY <2>5, <2>6, <2>7 DEF HaInv
<1>10. CASE FrameRendered
  <2>1. UNCHANGED <<ticking, rafWait, traceVars, fieldVars, touchModule, restarts>>
    BY <1>10 DEF FrameRendered
  <2>2. /\ frameCount < MaxFrames /\ frameCount' = frameCount + 1 /\ rendered' = rendered + 1
        /\ frameCount \in 0..MaxFrames /\ rendered \in Nat
    BY <1>2, <1>10 DEF FrameRendered, HaTypeOK
  <2>3. frameCount' \in 0..MaxFrames /\ rendered' \in Nat BY <1>1, <2>2
  <2>4. HaTypeOK' BY <1>2, <2>1, <2>3 DEF HaTypeOK, traceVars, fieldVars
  <2>5. /\ rafWait.count \in Nat /\ rafWait.target \in Nat
    BY <1>1, <1>2 DEF HaTypeOK
  <2>6. RafIs' BY <1>2, <2>1, <2>2, <2>5 DEF RafIs, FramesWaited
  <2>7. TracingIs' /\ TraceIsNewest' /\ ConsoleIs' /\ FillLands'
    BY <1>2, <2>1 DEF TracingIs, TraceIsNewest, ConsoleIs, FillLands, traceVars, fieldVars
  <2> QED BY <2>4, <2>6, <2>7 DEF HaInv
<1>11. CASE PollsFrames \/ RafTimesOut
  <2>1. UNCHANGED <<frameCount, rendered, traceVars, fieldVars, touchModule, restarts>>
    BY <1>11 DEF PollsFrames, RafTimesOut
  <2>2. /\ rafWait.step = "polling"
        /\ \/ rafWait' = [rafWait EXCEPT !.step = "resolved"] /\ frameCount >= rafWait.target
           \/ rafWait' = [rafWait EXCEPT !.step = "timedOut"]
        /\ ticking' \in BOOLEAN
    BY <1>2, <1>11 DEF PollsFrames, RafTimesOut, HaTypeOK
  <2>3. /\ rafWait \in [step : {"idle", "polling", "resolved", "timedOut"},
                        target : 0..(MaxFrames + 2), count : 0..2]
        /\ frameCount \in Nat /\ rendered \in Nat
    BY <1>1, <1>2 DEF HaTypeOK
  <2>4. rafWait' \in [step : {"idle", "polling", "resolved", "timedOut"},
                      target : 0..(MaxFrames + 2), count : 0..2]
    BY <2>2, <2>3
  <2>5. HaTypeOK' BY <1>2, <2>1, <2>2, <2>4 DEF HaTypeOK, traceVars, fieldVars
  <2>6. rafWait.count \in Nat /\ rafWait.target \in Nat BY <1>1, <2>3
  <2>7. RafIs' BY <1>2, <2>1, <2>2, <2>3, <2>6 DEF RafIs, FramesWaited
  <2>8. TracingIs' /\ TraceIsNewest' /\ ConsoleIs' /\ FillLands'
    BY <1>2, <2>1 DEF TracingIs, TraceIsNewest, ConsoleIs, FillLands, traceVars, fieldVars
  <2> QED BY <2>5, <2>7, <2>8 DEF HaInv
<1>12. ASSUME NEW count \in 1..2, WaitForRaf(count) PROVE HaInv'
  <2>1. UNCHANGED <<frameCount, traceVars, fieldVars, touchModule, restarts>>
    BY <1>12 DEF WaitForRaf
  <2>2. /\ rafWait' = [step |-> "polling", target |-> frameCount + count, count |-> count]
        /\ rendered' = 0 /\ ticking' = TRUE /\ frameCount \in 0..MaxFrames
    BY <1>2, <1>12 DEF WaitForRaf, HaTypeOK
  <2>3. frameCount + count \in 0..(MaxFrames + 2) /\ count \in 0..2 BY <1>1, <2>2
  <2>4. HaTypeOK' BY <1>2, <2>1, <2>2, <2>3 DEF HaTypeOK, traceVars, fieldVars
  <2>5. RafIs' BY <1>1, <2>1, <2>2 DEF RafIs, FramesWaited
  <2>6. TracingIs' /\ TraceIsNewest' /\ ConsoleIs' /\ FillLands'
    BY <1>2, <2>1 DEF TracingIs, TraceIsNewest, ConsoleIs, FillLands, traceVars, fieldVars
  <2> QED BY <2>4, <2>5, <2>6 DEF HaInv
<1>13. CASE Restarts
  <2>1. /\ restarts < MaxRestarts /\ restarts' = restarts + 1 /\ restarts \in 0..MaxRestarts
        /\ frameCount' = 0 /\ ticking' \in BOOLEAN
        /\ UNCHANGED <<touchModule, emitted, printed, rafWait, rendered>>
    BY <1>2, <1>13 DEF Restarts, HaTypeOK
  <2>2. /\ tracing' = [active |-> FALSE, events |-> <<>>] /\ heard' = <<>>
        /\ console' = 0 /\ original' = {} /\ filled' = 0
        /\ field' = [field EXCEPT !.state = 0, !.native = 0]
    BY <1>13 DEF Restarts, NotTracing
  <2>a. 0 \in 0..2 OBVIOUS
  <2>3. field \in [controlled : BOOLEAN, handler : BOOLEAN, mirror : BOOLEAN,
                   state : 0..2, native : 0..2]
    BY <1>2 DEF HaTypeOK
  <2>4. field' \in [controlled : BOOLEAN, handler : BOOLEAN, mirror : BOOLEAN,
                    state : 0..2, native : 0..2]
    BY <2>2, <2>3, <2>a
  <2>5. restarts' \in 0..MaxRestarts /\ frameCount' \in 0..MaxFrames BY <1>1, <2>1
  <2>6. HaTypeOK' BY <1>2, <2>1, <2>2, <2>4, <2>5 DEF HaTypeOK
  <2>7. /\ rafWait.count \in Nat /\ rafWait.target \in Nat /\ rendered \in Nat
        /\ frameCount \in Nat
    BY <1>1, <1>2 DEF HaTypeOK
  <2>8. RafIs' BY <1>2, <2>1, <2>7 DEF RafIs, FramesWaited
  <2>9. TracingIs' /\ TraceIsNewest' /\ ConsoleIs' /\ FillLands'
    BY <1>2, <2>1, <2>2 DEF TracingIs, TraceIsNewest, ConsoleIs, FillLands
  <2> QED BY <2>6, <2>8, <2>9 DEF HaInv
<1> QED
  BY <1>3, <1>4, <1>5, <1>6, <1>7, <1>8, <1>9, <1>10, <1>11, <1>12, <1>13 DEF HaNext

LEMMA HaInvGives == HaInv => HarnessKeepsFaith /\ HaTypeOK
BY DEF HaInv, HarnessKeepsFaith, ConsoleIs, ConsoleKept, RafIs

(* However traces, fills, frames and reloads follow each other, the harness  *)
(* keeps what it promises.                                                   *)
THEOREM HarnessIsFaithful == HaSpec => []HarnessKeepsFaith
<1>1. HaInv /\ [HaNext]_haVars => HaInv' BY HaInvNext
<1> QED BY HaInvInit, HaInvGives, <1>1, PTL DEF HaSpec

-----------------------------------------------------------------------------
(* scrollIntoView: the geometry of a swipe.                                  *)

Span(axis) == SafeBand(axis).hi - SafeBand(axis).lo

LEMMA BandIs ==
  ASSUME NEW axis \in Axes
  PROVE  /\ InsetOf(axis) \in Nat /\ Usable(axis) \in Nat \ {0}
         /\ SafeBand(axis).lo \in Int /\ SafeBand(axis).hi \in Int
         /\ Span(axis) >= 1
<1> DEFINE gutter == Usable(axis) \div 10
<1>1. /\ Window \in Nat /\ InsetOf(axis) \in Nat
      /\ 2 * InsetOf(axis) < Window
  BY ScrollBounds DEF InsetOf
<1>2. Usable(axis) \in Nat \ {0} BY <1>1 DEF Usable
<1>3. gutter \in Nat /\ 2 * gutter < Usable(axis) BY <1>2
<1>4. SafeBand(axis) = [lo |-> InsetOf(axis) + gutter, hi |-> Window - InsetOf(axis) - gutter]
  BY DEF SafeBand
<1> HIDE DEF gutter
<1>5. Span(axis) = Usable(axis) - 2 * gutter
  BY <1>1, <1>3, <1>4 DEF Span, Usable
<1> QED BY <1>1, <1>2, <1>3, <1>4, <1>5

LEMMA ClampIs ==
  ASSUME NEW n \in Int, NEW lo \in Int, NEW hi \in Int, lo <= hi
  PROVE  /\ Clamp(n, lo, hi) \in lo..hi
         /\ \/ Clamp(n, lo, hi) = n
            \/ Clamp(n, lo, hi) = lo /\ n < lo
            \/ Clamp(n, lo, hi) = hi /\ n > hi
<1>1. CASE n > hi BY <1>1 DEF Clamp
<1>2. CASE n < lo BY <1>2 DEF Clamp
<1>3. CASE n \in lo..hi BY <1>3 DEF Clamp
<1> QED BY <1>1, <1>2, <1>3

(* A swipe starts and ends in the safe band, and drags the content as far as *)
(* it was asked to, or by the whole of the band.                             *)
LEMMA SwipeIs ==
  ASSUME NEW axis \in Axes, NEW delta \in Int
  PROVE  /\ SolveAxis(axis, delta) \in [from : Int, to : Int]
         /\ {SolveAxis(axis, delta).from, SolveAxis(axis, delta).to}
              \subseteq SafeBand(axis).lo..SafeBand(axis).hi
         /\ SolveAxis(axis, delta).from - SolveAxis(axis, delta).to
              = Clamp(delta, -Span(axis), Span(axis))
<1> DEFINE lo   == SafeBand(axis).lo
           hi   == SafeBand(axis).hi
           d    == Clamp(delta, -Span(axis), Span(axis))
           from == Clamp(Window \div 2, lo, hi)
           to   == from - d
           shift == IF to < lo THEN lo - to ELSE IF to > hi THEN hi - to ELSE 0
<1>1. lo \in Int /\ hi \in Int /\ Span(axis) = hi - lo /\ Span(axis) >= 1 /\ Window \div 2 \in Int
  BY BandIs, ScrollBounds DEF Span
<1>2. SolveAxis(axis, delta) = [from |-> from + shift, to |-> to + shift]
  BY DEF SolveAxis, Span
<1>3. Span(axis) \in Int /\ -Span(axis) \in Int /\ -Span(axis) <= Span(axis) /\ lo <= hi
  BY <1>1
<1>4. d \in (-Span(axis))..Span(axis) BY <1>1, <1>3, ClampIs
<1>5. from \in lo..hi BY <1>1, <1>3, ClampIs
<1> HIDE DEF lo, hi, d, from
<1>6. from + shift \in lo..hi /\ to + shift \in lo..hi /\ shift \in Int
  BY <1>1, <1>3, <1>4, <1>5
<1> HIDE DEF shift
<1>7. (from + shift) - (to + shift) = d BY <1>1, <1>4, <1>5, <1>6
<1>8. from + shift \in Int /\ to + shift \in Int BY <1>1, <1>6
<1> HIDE DEF to
<1>9. /\ SolveAxis(axis, delta).from = from + shift /\ SolveAxis(axis, delta).to = to + shift
      /\ SolveAxis(axis, delta) \in [from : Int, to : Int]
  BY <1>2, <1>8
<1> QED BY <1>6, <1>7, <1>9 DEF lo, hi, d

-----------------------------------------------------------------------------
(* scrollIntoView: the loop.                                                 *)

LoopSteps == {"measure", "settle", "resolved", "rejected", "NOT_FOUND", "TIMEOUT", "BOUNDARY"}

ScTyped ==
  /\ home \in [Axes -> Int] /\ extent \in [Axes -> Nat \ {0}]
  /\ offset \in [Axes -> 0..Reach] /\ coasting \in [Axes -> Int]
  /\ \A a \in Axes : offset[a] + coasting[a] \in 0..Reach
  /\ loop \in [step : LoopSteps, attempt : 0..MaxScrolls,
               last : [axis : Axes \union {"none"}, position : Int],
               noProgress : 0..NoProgressForBoundary]
  /\ lostSwipes \in 0..MaxLost
  /\ stuck \in Nat /\ stuck <= loop.attempt
  /\ near \in BOOLEAN /\ blind \in BOOLEAN
  /\ swipe \in [Axes -> [from : Int, to : Int]]

SwipesAreSafe ==
  \A axis \in Axes : {swipe[axis].from, swipe[axis].to} \subseteq SafeBand(axis).lo..SafeBand(axis).hi

(* The element is out of reach of a measurement along an axis, and what is   *)
(* left of the motion takes it further away.                                 *)
Beyond(a) ==
  \/ Edge(a) + extent[a] <= -Mounted /\ coasting[a] >= 0
  \/ Edge(a) >= Window + Mounted /\ coasting[a] <= 0
Leaving == \E a \in Axes : Beyond(a)

(* The container is at its end along an axis, and the element is further.    *)
AtLimit(a) ==
  \/ offset[a] = 0 /\ Lacks(a) < 0
  \/ offset[a] = Reach /\ Lacks(a) > 0

(* What it takes for a measurement to be the one before again.               *)
MovedNothing(a) ==
  /\ coasting[a] = 0
  /\ loop.noProgress + 1 <= stuck
  /\ loop.noProgress >= 1 /\ lostSwipes = 0 => AtLimit(a)

(* The element, when it can be measured, is where it will be along the axis  *)
(* of the last swipe; and along the other one, but for blind swipes.         *)
LoopIs ==
  LET a == loop.last.axis IN
  /\ loop.step = "settle" =>
       /\ a \in Axes /\ (Measurable \/ Leaving)
       /\ Edge(a) - coasting[a] = loop.last.position => MovedNothing(a)
       /\ ~blind => \A b \in Axes \ {a} : coasting[b] = 0
  /\ loop.step = "measure" =>
       /\ ~blind => coasting = AtRest \/ Leaving
       /\ a \in Axes => Leaving \/ ( /\ coasting[a] = 0
                                     /\ Edge(a) = loop.last.position => MovedNothing(a) )
  /\ loop.step = "resolved" /\ ~blind => InView /\ coasting = AtRest
  /\ loop.step = "BOUNDARY" => stuck >= NoProgressForBoundary /\ (CanBeSeen => lostSwipes > 0)

ScInv == ScTyped /\ SwipesAreSafe /\ LoopIs

LEMMA FitIs ==
  ASSUME NEW axis \in Axes, NEW start \in Int, extent[axis] \in Nat
  PROVE  FitAxis(axis, start) \in Int
BY BandIs DEF FitAxis

LEMMA MeasuredIs ==
  ASSUME ScTyped
  PROVE  /\ \A a \in Axes : /\ Edge(a) \in Int /\ Lacks(a) \in Int
                            /\ home[a] \in Int /\ extent[a] \in Nat \ {0}
                            /\ offset[a] \in 0..Reach /\ coasting[a] \in Int
         /\ StepAxis \in Axes
         /\ ~InView => Lacks(StepAxis) # 0
         /\ ~(Measurable /\ Leaving)
         /\ ~Measurable <=> \E a \in Axes : \/ Edge(a) + extent[a] <= -Mounted
                                            \/ Edge(a) >= Window + Mounted
<1>1. ASSUME NEW a \in Axes
      PROVE  /\ Edge(a) \in Int /\ home[a] \in Int /\ extent[a] \in Nat \ {0}
             /\ offset[a] \in 0..Reach /\ coasting[a] \in Int
  BY ScrollBounds DEF ScTyped, Edge
<1>2. ASSUME NEW a \in Axes PROVE Lacks(a) \in Int
  BY <1>1, FitIs DEF Lacks
<1>3. StepAxis \in Axes BY DEF StepAxis, Axes
<1>4. ASSUME ~InView PROVE Lacks(StepAxis) # 0
  <2>1. PICK a \in Axes : Lacks(a) # 0 BY <1>4 DEF InView
  <2>2. Lacks("vertical") \in Int /\ Lacks("horizontal") \in Int /\ a \in {"vertical", "horizontal"}
    BY <1>2, <2>1 DEF Axes
  <2> QED BY <2>1, <2>2 DEF StepAxis, Abs
<1>5. ~Measurable <=> \E a \in Axes : Edge(a) + extent[a] <= -Mounted \/ Edge(a) >= Window + Mounted
  <2>1. Mounted \in Int /\ Window \in Int BY ScrollBounds
  <2> QED BY <1>1, <2>1 DEF Measurable
<1>6. ~(Measurable /\ Leaving) BY <1>5 DEF Leaving, Beyond
<1> QED BY <1>1, <1>2, <1>3, <1>4, <1>5, <1>6

(* At the end of the container, no place of the content shows an element     *)
(* that is further.                                                          *)
LEMMA LimitHides ==
  ASSUME ScTyped, NEW a \in Axes, AtLimit(a)
  PROVE  ~CanBeSeen
<1>1. /\ home[a] \in Int /\ extent[a] \in Nat \ {0} /\ offset[a] \in 0..Reach /\ Reach \in Nat
      /\ InsetOf(a) \in Nat /\ Usable(a) \in Nat \ {0}
  BY MeasuredIs, BandIs, ScrollBounds
<1>2. ASSUME NEW o \in 0..Reach PROVE FitAxis(a, home[a] - o) # 0
  <2>1. CASE offset[a] = 0 /\ Lacks(a) < 0
    BY <1>1, <1>2, <2>1 DEF Lacks, Edge, FitAxis
  <2>2. CASE offset[a] = Reach /\ Lacks(a) > 0
    BY <1>1, <1>2, <2>2 DEF Lacks, Edge, FitAxis
  <2> QED BY <2>1, <2>2 DEF AtLimit
<1> QED BY <1>2 DEF CanBeSeen

(* A swipe moves the content along its axis, if it moves it at all; one that *)
(* is not swallowed leaves resting content where it is only at an end.       *)
LEMMA SwipesDo ==
  ASSUME ScTyped, SwipesAreSafe, NEW axis \in Axes, NEW delta \in Int, delta # 0,
         Swipes(axis, delta)
  PROVE  /\ coasting' \in [Axes -> Int]
         /\ \A a \in Axes : offset[a] + coasting'[a] \in 0..Reach
         /\ \A a \in Axes \ {axis} : coasting'[a] = coasting[a]
         /\ swipe' \in [Axes -> [from : Int, to : Int]] /\ SwipesAreSafe'
         /\ lostSwipes' \in 0..MaxLost /\ lostSwipes' >= lostSwipes
         /\ stuck' = IF coasting'[axis] = 0 THEN stuck + 1 ELSE 0
         /\ lostSwipes' = lostSwipes /\ coasting[axis] = 0 /\ coasting'[axis] = 0 =>
              \/ offset[axis] = 0 /\ delta < 0
              \/ offset[axis] = Reach /\ delta > 0
<1> DEFINE seg  == SolveAxis(axis, delta)
           pull == seg.from - seg.to
           goal == Clamp(offset[axis] + coasting[axis] + seg.from - seg.to, 0, Reach)
<1>1. /\ offset \in [Axes -> 0..Reach] /\ coasting \in [Axes -> Int] /\ Reach \in Nat /\ MaxLost \in Nat
      /\ lostSwipes \in 0..MaxLost
      /\ \A a \in Axes : offset[a] + coasting[a] \in 0..Reach
  BY ScrollBounds DEF ScTyped
<1>2. /\ seg \in [from : Int, to : Int]
      /\ pull = Clamp(delta, -Span(axis), Span(axis)) /\ Span(axis) >= 1 /\ Span(axis) \in Int
  BY SwipeIs, BandIs DEF Span
<1>3. pull \in Int /\ (delta > 0 => pull > 0) /\ (delta < 0 => pull < 0)
  BY <1>2 DEF Clamp
<1>4. /\ swipe' = [a \in Axes |-> IF a = axis THEN seg ELSE SolveAxis(a, 0)]
      /\ \/ coasting' = [coasting EXCEPT ![axis] = goal - offset[axis]] /\ lostSwipes' = lostSwipes
         \/ lostSwipes < MaxLost /\ lostSwipes' = lostSwipes + 1 /\ coasting' = coasting
      /\ stuck' = IF coasting'[axis] = 0 THEN stuck + 1 ELSE 0
  BY DEF Swipes
<1>5. swipe' \in [Axes -> [from : Int, to : Int]] /\ SwipesAreSafe'
  <2>1. \A a \in Axes :
          /\ swipe'[a] = IF a = axis THEN SolveAxis(axis, delta) ELSE SolveAxis(a, 0)
          /\ swipe'[a] \in [from : Int, to : Int]
          /\ {swipe'[a].from, swipe'[a].to} \subseteq SafeBand(a).lo..SafeBand(a).hi
    <3> SUFFICES ASSUME NEW a \in Axes
                 PROVE  /\ swipe'[a] = IF a = axis THEN SolveAxis(axis, delta) ELSE SolveAxis(a, 0)
                        /\ swipe'[a] \in [from : Int, to : Int]
                        /\ {swipe'[a].from, swipe'[a].to} \subseteq SafeBand(a).lo..SafeBand(a).hi
      OBVIOUS
    <3>1. swipe'[a] = IF a = axis THEN SolveAxis(axis, delta) ELSE SolveAxis(a, 0) BY <1>4
    <3>2. CASE a = axis BY <3>1, <3>2, SwipeIs
    <3>3. CASE a # axis
      <4>1. 0 \in Int OBVIOUS
      <4> QED BY <3>1, <3>3, <4>1, SwipeIs
    <3> QED BY <3>1, <3>2, <3>3
  <2>2. SwipesAreSafe' BY <2>1 DEF SwipesAreSafe, SafeBand, Usable, InsetOf
  <2> QED BY <1>4, <2>1, <2>2
<1> HIDE DEF seg
<1>6. goal \in 0..Reach /\ offset[axis] \in 0..Reach /\ coasting[axis] \in Int
      /\ seg.from \in Int /\ seg.to \in Int
  <2>1. offset[axis] \in 0..Reach /\ coasting[axis] \in Int /\ seg.from \in Int /\ seg.to \in Int
    BY <1>1, <1>2
  <2>2. offset[axis] + coasting[axis] + seg.from - seg.to \in Int /\ 0 <= Reach BY <1>1, <2>1
  <2> QED BY <1>1, <2>1, <2>2, ClampIs
<1>7. CASE /\ coasting' = [coasting EXCEPT ![axis] = goal - offset[axis]]
           /\ lostSwipes' = lostSwipes
  <2>1. coasting'[axis] = goal - offset[axis] BY <1>1, <1>7
  <2>2. \A a \in Axes \ {axis} : coasting'[a] = coasting[a] BY <1>1, <1>7
  <2>3. goal - offset[axis] \in Int /\ offset[axis] + (goal - offset[axis]) = goal BY <1>1, <1>6
  <2> HIDE DEF goal
  <2>4. coasting' \in [Axes -> Int] BY <1>1, <1>7, <2>3
  <2>5. \A a \in Axes : offset[a] + coasting'[a] \in 0..Reach BY <1>1, <1>6, <2>1, <2>2, <2>3
  <2>6. ASSUME coasting[axis] = 0, coasting'[axis] = 0
        PROVE  \/ offset[axis] = 0 /\ delta < 0
               \/ offset[axis] = Reach /\ delta > 0
    <3>1. goal = offset[axis] BY <1>1, <1>6, <2>1, <2>6
    <3>2. goal = Clamp(offset[axis] + pull, 0, Reach) BY <1>6, <2>6 DEF goal
    <3> HIDE DEF pull
    <3> QED BY <1>1, <1>3, <1>6, <3>1, <3>2 DEF Clamp
  <2> QED BY <1>1, <1>4, <1>5, <1>7, <2>2, <2>4, <2>5, <2>6
<1>8. CASE lostSwipes < MaxLost /\ lostSwipes' = lostSwipes + 1 /\ coasting' = coasting
  BY <1>1, <1>4, <1>5, <1>8
<1> QED BY <1>4, <1>7, <1>8

(* A loop that ends leaves everything but its step and near.                 *)
LEMMA LoopEnds ==
  ASSUME ScInv, loop.step \in {"measure", "settle"},
         NEW how \in {"resolved", "rejected", "NOT_FOUND", "TIMEOUT", "BOUNDARY"}, EndsLoop(how),
         UNCHANGED <<home, extent, offset>>, near' \in BOOLEAN,
         how = "resolved" /\ ~blind => InView /\ coasting = AtRest,
         how = "BOUNDARY" => stuck >= NoProgressForBoundary /\ (CanBeSeen => lostSwipes > 0)
  PROVE  ScInv'
<1>1. /\ loop' = [loop EXCEPT !.step = how]
      /\ UNCHANGED <<home, extent, offset, coasting, lostSwipes, swipe, stuck, blind>>
  BY DEF EndsLoop
<1>2. loop \in [step : LoopSteps, attempt : 0..MaxScrolls,
                last : [axis : Axes \union {"none"}, position : Int],
                noProgress : 0..NoProgressForBoundary]
  BY DEF ScInv, ScTyped
<1>3. how \in LoopSteps BY DEF LoopSteps
<1>4. /\ loop' \in [step : LoopSteps, attempt : 0..MaxScrolls,
                    last : [axis : Axes \union {"none"}, position : Int],
                    noProgress : 0..NoProgressForBoundary]
      /\ loop'.step = how /\ loop'.attempt = loop.attempt
  BY <1>1, <1>2, <1>3
<1>5. ScTyped' BY <1>1, <1>4 DEF ScInv, ScTyped
<1>6. SwipesAreSafe'
  BY <1>1 DEF ScInv, SwipesAreSafe, SafeBand, Usable, InsetOf
<1>7. (InView <=> InView') /\ (CanBeSeen <=> CanBeSeen')
  BY <1>1 DEF InView, CanBeSeen, Lacks, FitAxis, Edge, Usable, InsetOf
<1>8. LoopIs'
  BY <1>1, <1>4, <1>7 DEF LoopIs, AtRest
<1> QED BY <1>5, <1>6, <1>8 DEF ScInv

LEMMA ScInvBlind ==
  ASSUME ScInv, ScrollsBlind
  PROVE  ScInv'
<1>1. ScTyped /\ SwipesAreSafe /\ LoopIs BY DEF ScInv
<1>2. /\ loop.step = "measure" /\ ~Measurable
      /\ UNCHANGED <<home, extent, offset, near>>
  BY DEF ScrollsBlind
<1>3. CASE loop.attempt >= MaxScrolls
  <2>1. EndsLoop("NOT_FOUND") BY <1>3 DEF ScrollsBlind
  <2>2. near' \in BOOLEAN BY <1>1, <1>2 DEF ScTyped
  <2> QED BY <1>2, <2>1, <2>2, LoopEnds
<1>4. CASE ~(loop.attempt >= MaxScrolls)
  <2>1. /\ Swipes("vertical", Window)
        /\ loop' = [loop EXCEPT !.attempt = loop.attempt + 1, !.last = NoLast]
        /\ blind' = (coasting' # AtRest)
    BY <1>4 DEF ScrollsBlind
  <2>2. "vertical" \in Axes /\ Window \in Int /\ Window # 0 BY ScrollBounds DEF Axes
  <2>3. /\ coasting' \in [Axes -> Int]
        /\ \A a \in Axes : offset[a] + coasting'[a] \in 0..Reach
        /\ swipe' \in [Axes -> [from : Int, to : Int]] /\ SwipesAreSafe'
        /\ lostSwipes' \in 0..MaxLost
        /\ stuck' = IF coasting'["vertical"] = 0 THEN stuck + 1 ELSE 0
    BY <1>1, <2>1, <2>2, SwipesDo
  <2>4. loop \in [step : LoopSteps, attempt : 0..MaxScrolls,
                  last : [axis : Axes \union {"none"}, position : Int],
                  noProgress : 0..NoProgressForBoundary]
    BY <1>1 DEF ScTyped
  <2>5. loop.attempt + 1 \in 0..MaxScrolls BY <1>4, <2>4, ScrollBounds
  <2>6. NoLast \in [axis : Axes \union {"none"}, position : Int] BY DEF NoLast
  <2>7. /\ loop' \in [step : LoopSteps, attempt : 0..MaxScrolls,
                      last : [axis : Axes \union {"none"}, position : Int],
                      noProgress : 0..NoProgressForBoundary]
        /\ loop'.step = "measure" /\ loop'.attempt = loop.attempt + 1 /\ loop'.last = NoLast
    BY <1>2, <2>1, <2>4, <2>5, <2>6
  <2>8. stuck' \in Nat /\ stuck' <= loop'.attempt
    BY <1>1, <2>3, <2>4, <2>7 DEF ScTyped
  <2>9. blind' \in BOOLEAN BY <2>1
  <2>10. ScTyped' BY <1>1, <1>2, <2>3, <2>7, <2>8, <2>9 DEF ScTyped
  <2>11. loop'.last.axis \notin Axes BY <2>7 DEF NoLast, Axes
  <2>12. LoopIs'
    <3>1. ~blind' => coasting' = AtRest' BY <2>1 DEF AtRest
    <3> QED BY <2>7, <2>11, <3>1 DEF LoopIs
  <2> QED BY <2>3, <2>10, <2>12 DEF ScInv
<1> QED BY <1>3, <1>4

LEMMA ScInvTowards ==
  ASSUME ScInv, ScrollsTowards
  PROVE  ScInv'
<1>0. PICK axis \in Axes : axis = StepAxis BY MeasuredIs DEF ScInv
<1> DEFINE lacks == Lacks(axis)
           step  == IF Abs(lacks) < MinStep THEN (IF lacks < 0 THEN -MinStep ELSE MinStep) ELSE lacks
           here  == [axis |-> axis, position |-> Edge(axis)]
<1>1. ScTyped /\ SwipesAreSafe /\ LoopIs BY DEF ScInv
<1>2. /\ axis \in Axes /\ lacks \in Int /\ Edge(axis) \in Int
      /\ ~InView => lacks # 0
      /\ ~(Measurable /\ Leaving)
  BY <1>0, <1>1, MeasuredIs
<1>3. /\ loop.step = "measure" /\ Measurable
      /\ UNCHANGED <<home, extent, offset>>
      /\ CASE InView -> EndsLoop("resolved")
           [] ~InView /\ loop.attempt >= MaxScrolls -> EndsLoop("TIMEOUT")
           [] ~InView /\ loop.attempt < MaxScrolls /\ NoProgress(axis) >= NoProgressForBoundary
                -> EndsLoop("BOUNDARY")
           [] OTHER ->
                /\ Swipes(axis, step)
                /\ loop' = [step |-> SettlesAfter, attempt |-> loop.attempt + 1,
                            last |-> here, noProgress |-> NoProgress(axis)]
                /\ blind' = (blind /\ coasting' # AtRest)
  BY <1>0 DEF ScrollsTowards
<1>4. near' \in BOOLEAN BY Zenon, <1>1 DEF ScrollsTowards, ScTyped
<1>5. /\ ~blind => coasting = AtRest
      /\ loop.last.axis \in Axes =>
           /\ coasting[loop.last.axis] = 0
           /\ Edge(loop.last.axis) = loop.last.position => MovedNothing(loop.last.axis)
  BY <1>1, <1>2, <1>3 DEF LoopIs
<1>6. /\ loop \in [step : LoopSteps, attempt : 0..MaxScrolls,
                   last : [axis : Axes \union {"none"}, position : Int],
                   noProgress : 0..NoProgressForBoundary]
      /\ loop.attempt \in Nat /\ MaxScrolls \in Nat /\ stuck \in Nat /\ lostSwipes \in Nat
      /\ stuck <= loop.attempt
  BY <1>1, ScrollBounds DEF ScTyped
(* What a measurement that repeats the one before shows.                     *)
<1>7. /\ NoProgress(axis) \in Nat
      /\ NoProgress(axis) >= 1 => /\ NoProgress(axis) = loop.noProgress + 1
                                  /\ NoProgress(axis) <= stuck /\ coasting[axis] = 0
                                  /\ loop.noProgress >= 1 /\ lostSwipes = 0 => AtLimit(axis)
  <2>1. loop.noProgress \in Nat BY <1>6 DEF NoProgressForBoundary
  <2>2. CASE loop.last = here
    <3>1. loop.last.axis = axis /\ Edge(loop.last.axis) = loop.last.position BY <2>2
    <3>2. MovedNothing(axis) BY <1>2, <1>5, <3>1
    <3> QED BY <2>1, <2>2, <3>2 DEF NoProgress, MovedNothing
  <2>3. CASE loop.last # here
    <3>1. NoProgress(axis) = 0 BY <2>3 DEF NoProgress
    <3> QED BY <3>1
  <2> QED BY <2>2, <2>3
<1> HIDE DEF lacks, step, here
<1>8. CASE InView
  <2>1. EndsLoop("resolved") BY <1>3, <1>8
  <2> QED BY <1>3, <1>4, <1>5, <1>8, <2>1, LoopEnds
<1>9. CASE ~InView /\ loop.attempt >= MaxScrolls
  <2>1. EndsLoop("TIMEOUT")
    <3>1. ~(loop.attempt < MaxScrolls) BY <1>6, <1>9
    <3> QED BY <1>3, <1>9, <3>1
  <2> QED BY <1>3, <1>4, <2>1, LoopEnds
<1>10. CASE ~InView /\ loop.attempt < MaxScrolls /\ NoProgress(axis) >= NoProgressForBoundary
  <2>1. EndsLoop("BOUNDARY")
    <3>1. ~(loop.attempt >= MaxScrolls) BY <1>6, <1>10
    <3> QED BY <1>3, <1>10, <3>1
  <2>2. NoProgress(axis) >= 2 BY <1>10 DEF NoProgressForBoundary
  <2>3. /\ stuck >= 2 /\ (lostSwipes = 0 => AtLimit(axis))
    BY <1>6, <1>7, <2>2 DEF NoProgressForBoundary
  <2>4. CanBeSeen => lostSwipes > 0 BY <1>1, <1>2, <1>6, <2>3, LimitHides
  <2> QED BY <1>3, <1>4, <2>1, <2>3, <2>4, LoopEnds DEF NoProgressForBoundary
<1>11. CASE ~InView /\ loop.attempt < MaxScrolls /\ ~(NoProgress(axis) >= NoProgressForBoundary)
  <2>1. /\ Swipes(axis, step)
        /\ loop' = [step |-> "settle", attempt |-> loop.attempt + 1,
                    last |-> here, noProgress |-> NoProgress(axis)]
        /\ blind' = (blind /\ coasting' # AtRest)
    <3>1. ~(loop.attempt >= MaxScrolls) BY <1>6, <1>11
    <3> QED BY <1>3, <1>11, <3>1 DEF SettlesAfter
  <2>2. step \in Int /\ step # 0 /\ (lacks < 0 => step < 0) /\ (lacks > 0 => step > 0)
        /\ lacks # 0
    BY <1>2, <1>11, ScrollBounds DEF step, Abs
  <2>3. /\ coasting' \in [Axes -> Int]
        /\ \A a \in Axes : offset[a] + coasting'[a] \in 0..Reach
        /\ \A a \in Axes \ {axis} : coasting'[a] = coasting[a]
        /\ swipe' \in [Axes -> [from : Int, to : Int]] /\ SwipesAreSafe'
        /\ lostSwipes' \in 0..MaxLost /\ lostSwipes' >= lostSwipes
        /\ stuck' = IF coasting'[axis] = 0 THEN stuck + 1 ELSE 0
        /\ lostSwipes' = lostSwipes /\ coasting[axis] = 0 /\ coasting'[axis] = 0 =>
             \/ offset[axis] = 0 /\ step < 0
             \/ offset[axis] = Reach /\ step > 0
    BY <1>1, <1>2, <2>1, <2>2, SwipesDo
  <2>4. /\ here \in [axis : Axes \union {"none"}, position : Int]
        /\ here.axis = axis /\ here.position = Edge(axis)
    BY <1>2 DEF here
  <2>5. /\ NoProgress(axis) \in 0..NoProgressForBoundary /\ loop.attempt + 1 \in 0..MaxScrolls
        /\ "settle" \in LoopSteps
    BY <1>6, <1>7, <1>11 DEF NoProgressForBoundary, LoopSteps
  <2>6. /\ loop' \in [step : LoopSteps, attempt : 0..MaxScrolls,
                      last : [axis : Axes \union {"none"}, position : Int],
                      noProgress : 0..NoProgressForBoundary]
        /\ loop'.step = "settle" /\ loop'.attempt = loop.attempt + 1
        /\ loop'.last.axis = axis /\ loop'.last.position = Edge(axis)
        /\ loop'.noProgress = NoProgress(axis)
    BY <2>1, <2>4, <2>5
  <2>7. stuck' \in Nat /\ stuck' <= loop'.attempt BY <1>6, <2>3, <2>6
  <2>8. blind' \in BOOLEAN BY <2>1, <1>1 DEF ScTyped
  <2>9. ScTyped' BY <1>1, <1>3, <1>4, <2>3, <2>6, <2>7, <2>8 DEF ScTyped
  <2>10. /\ Measurable' /\ \A a \in Axes : Edge(a)' = Edge(a) /\ Lacks(a)' = Lacks(a)
    BY <1>3 DEF Measurable, Edge, Lacks, FitAxis, Usable, InsetOf
  <2>11. Edge(axis)' - coasting'[axis] = loop'.last.position => MovedNothing(axis)'
    <3> SUFFICES ASSUME Edge(axis) - coasting'[axis] = Edge(axis) PROVE MovedNothing(axis)'
      BY <1>2, <2>6, <2>10
    <3>1. coasting'[axis] \in Int BY <1>2, <2>3
    <3>2. coasting'[axis] = 0 BY <1>2, <3>1
    <3>3. stuck' = stuck + 1 BY <2>3, <3>2
    <3>4. loop'.noProgress + 1 <= stuck' BY <1>6, <1>7, <2>6, <3>3
    <3>5. ASSUME loop'.noProgress >= 1, lostSwipes' = 0 PROVE AtLimit(axis)'
      <4>1. coasting[axis] = 0 /\ lostSwipes' = lostSwipes BY <1>6, <1>7, <2>3, <2>6, <3>5
      <4>2. \/ offset[axis] = 0 /\ step < 0
            \/ offset[axis] = Reach /\ step > 0
        BY <2>3, <3>2, <4>1
      <4>3. \/ offset[axis] = 0 /\ lacks < 0
            \/ offset[axis] = Reach /\ lacks > 0
        BY <1>2, <2>2, <4>2
      <4>4. Lacks(axis)' = lacks /\ offset' = offset BY <1>2, <1>3, <2>10 DEF lacks
      <4> QED BY <4>3, <4>4 DEF AtLimit
    <3> QED BY <3>2, <3>4, <3>5 DEF MovedNothing
  <2>12. ~blind' => \A b \in Axes \ {axis} : coasting'[b] = 0
    BY <1>5, <2>1, <2>3 DEF AtRest
  <2>13. LoopIs'
    <3>1. loop'.last.axis = axis /\ axis \in Axes BY <1>2, <2>6
    <3>2. Edge(loop.last.axis)' - coasting'[axis] = loop'.last.position
            => MovedNothing(loop.last.axis)'
      BY <2>11, <3>1 DEF MovedNothing, AtLimit, Lacks, FitAxis, Edge, Usable, InsetOf
    <3> QED BY <2>6, <2>10, <2>12, <3>1, <3>2 DEF LoopIs
  <2> QED BY <2>3, <2>9, <2>13 DEF ScInv
<1> QED BY <1>6, <1>8, <1>9, <1>10, <1>11

LEMMA ScInvSettles ==
  ASSUME ScInv, Settles
  PROVE  ScInv'
<1> DEFINE a == loop.last.axis
<1>1. ScTyped /\ SwipesAreSafe /\ LoopIs BY DEF ScInv
<1>2. /\ loop.step = "settle" /\ (coasting[a] = 0 \/ ~Measurable)
      /\ loop' = [loop EXCEPT !.step = "measure"]
      /\ UNCHANGED <<home, extent, offset, coasting, lostSwipes, swipe, stuck, near, blind>>
  BY DEF Settles
<1>3. /\ a \in Axes /\ (Measurable \/ Leaving)
      /\ Edge(a) - coasting[a] = loop.last.position => MovedNothing(a)
      /\ ~blind => \A b \in Axes \ {a} : coasting[b] = 0
  BY <1>1, <1>2 DEF LoopIs
<1>4. /\ loop \in [step : LoopSteps, attempt : 0..MaxScrolls,
                   last : [axis : Axes \union {"none"}, position : Int],
                   noProgress : 0..NoProgressForBoundary]
      /\ coasting \in [Axes -> Int] /\ Edge(a) \in Int
  BY <1>1, <1>3, MeasuredIs DEF ScTyped
<1>5. "measure" \in LoopSteps BY DEF LoopSteps
<1>6. /\ loop' \in [step : LoopSteps, attempt : 0..MaxScrolls,
                    last : [axis : Axes \union {"none"}, position : Int],
                    noProgress : 0..NoProgressForBoundary]
      /\ loop'.step = "measure" /\ loop'.attempt = loop.attempt /\ loop'.last = loop.last
      /\ loop'.noProgress = loop.noProgress
  BY <1>2, <1>4, <1>5
<1>7. ScTyped' BY <1>1, <1>2, <1>6 DEF ScTyped
<1>8. SwipesAreSafe' BY <1>1, <1>2 DEF SwipesAreSafe, SafeBand, Usable, InsetOf
<1>9. Leaving <=> Leaving' BY <1>2 DEF Leaving, Beyond, Edge
<1>10. ~blind => coasting = AtRest \/ Leaving
  BY <1>2, <1>3, <1>4 DEF AtRest
<1>11. Leaving \/ ( /\ coasting[a] = 0
                    /\ Edge(a) = loop.last.position => MovedNothing(a) )
  BY <1>2, <1>3, <1>4
<1>12. ~blind' => coasting' = AtRest' \/ Leaving'
  BY <1>2, <1>9, <1>10 DEF AtRest
<1>13. Leaving' \/ ( /\ coasting'[loop'.last.axis] = 0
                     /\ Edge(loop.last.axis)' = loop'.last.position => MovedNothing(loop.last.axis)' )
  BY <1>2, <1>6, <1>9, <1>11 DEF MovedNothing, AtLimit, Lacks, FitAxis, Edge, Usable, InsetOf
<1>14. LoopIs' BY <1>6, <1>12, <1>13 DEF LoopIs
<1> QED BY <1>7, <1>8, <1>14 DEF ScInv

LEMMA ScInvCoasts ==
  ASSUME ScInv, Coasts
  PROVE  ScInv'
<1> DEFINE a == loop.last.axis
<1>1. ScTyped /\ SwipesAreSafe /\ LoopIs BY DEF ScInv
<1>2. /\ coasting # AtRest
      /\ coasting' \in {AtRest, [b \in Axes |-> coasting[b] \div 2]}
      /\ offset' = [b \in Axes |-> offset[b] + coasting[b] - coasting'[b]]
      /\ blind' = (blind /\ (coasting' # AtRest \/ ~Looping))
      /\ UNCHANGED <<home, extent, loop, lostSwipes, swipe, stuck, near>>
  BY DEF Coasts
<1>3. ASSUME NEW b \in Axes
      PROVE  /\ offset[b] \in 0..Reach /\ coasting[b] \in Int /\ home[b] \in Int
             /\ extent[b] \in Nat \ {0} /\ offset[b] + coasting[b] \in 0..Reach
             /\ coasting'[b] \in Int
             /\ \/ 0 <= coasting'[b] /\ coasting'[b] <= coasting[b]
                \/ coasting[b] <= coasting'[b] /\ coasting'[b] <= 0
             /\ offset'[b] = offset[b] + coasting[b] - coasting'[b]
             /\ offset'[b] \in 0..Reach
             /\ Edge(b)' = Edge(b) - coasting[b] + coasting'[b] /\ Edge(b) \in Int
  <2>1. /\ offset[b] \in 0..Reach /\ coasting[b] \in Int /\ home[b] \in Int
        /\ extent[b] \in Nat \ {0} /\ Edge(b) \in Int /\ offset[b] + coasting[b] \in 0..Reach
    BY <1>1, MeasuredIs DEF ScTyped
  <2>2. coasting'[b] = 0 \/ coasting'[b] = coasting[b] \div 2 BY <1>2 DEF AtRest
  <2>3. /\ coasting'[b] \in Int
        /\ \/ 0 <= coasting'[b] /\ coasting'[b] <= coasting[b]
           \/ coasting[b] <= coasting'[b] /\ coasting'[b] <= 0
    BY <2>1, <2>2
  <2>4. offset'[b] = offset[b] + coasting[b] - coasting'[b] BY <1>2
  <2>5. offset'[b] \in 0..Reach BY <2>1, <2>3, <2>4, ScrollBounds
  <2>6. Edge(b)' = Edge(b) - coasting[b] + coasting'[b]
    BY <1>2, <2>1, <2>3, <2>4, ScrollBounds DEF Edge
  <2> QED BY <2>1, <2>3, <2>4, <2>5, <2>6
<1>4. ScTyped'
  <2>1. coasting' \in [Axes -> Int] /\ offset' \in [Axes -> 0..Reach]
    <3>1. coasting' = [b \in Axes |-> coasting'[b]] BY <1>2 DEF AtRest
    <3>2. offset' = [b \in Axes |-> offset'[b]] BY <1>2
    <3>3. \A b \in Axes : coasting'[b] \in Int /\ offset'[b] \in 0..Reach BY <1>3
    <3> QED BY <3>1, <3>2, <3>3
  <2>2. \A b \in Axes : offset'[b] + coasting'[b] \in 0..Reach BY <1>3, ScrollBounds
  <2>3. blind' \in BOOLEAN BY <1>2, <1>1 DEF ScTyped
  <2> QED BY <1>1, <1>2, <2>1, <2>2, <2>3 DEF ScTyped
<1>5. SwipesAreSafe' BY <1>1, <1>2 DEF SwipesAreSafe, SafeBand, Usable, InsetOf
<1>6. Mounted \in Nat /\ Window \in Nat BY ScrollBounds
<1>7. Leaving => Leaving'
  <2> SUFFICES ASSUME NEW b \in Axes, Beyond(b) PROVE Beyond(b)' BY DEF Leaving
  <2> QED BY <1>2, <1>3, <1>6 DEF Beyond
<1>8. Measurable => Measurable' \/ Leaving'
  <2> SUFFICES ASSUME Measurable, ~Measurable' PROVE Leaving' OBVIOUS
  <2>1. PICK b \in Axes : ~(Edge(b)' + extent'[b] > -Mounted /\ Edge(b)' < Window + Mounted)
    BY DEF Measurable
  <2>2. Edge(b) + extent[b] > -Mounted /\ Edge(b) < Window + Mounted BY DEF Measurable
  <2>3. Beyond(b)' BY <1>2, <1>3, <1>6, <2>1, <2>2 DEF Beyond
  <2> QED BY <2>3 DEF Leaving
<1>9. CanBeSeen <=> CanBeSeen'
  BY <1>2 DEF CanBeSeen, FitAxis, Usable, InsetOf
<1>10. CASE loop.step = "settle"
  <2>1. /\ a \in Axes /\ (Measurable \/ Leaving)
        /\ Edge(a) - coasting[a] = loop.last.position => MovedNothing(a)
        /\ ~blind => \A b \in Axes \ {a} : coasting[b] = 0
    BY <1>1, <1>10 DEF LoopIs
  <2>2. Edge(a)' - coasting'[a] = Edge(a) - coasting[a] BY <1>2, <1>3, <2>1
  <2>3. MovedNothing(a) => MovedNothing(a)'
    <3> SUFFICES ASSUME MovedNothing(a) PROVE MovedNothing(a)' OBVIOUS
    <3>1. coasting[a] = 0 BY DEF MovedNothing
    <3>2. coasting'[a] = 0 /\ offset'[a] = offset[a] BY <1>3, <2>1, <3>1
    <3> QED BY <1>2, <3>1, <3>2
          DEF MovedNothing, AtLimit, Lacks, FitAxis, Edge, Usable, InsetOf
  <2>4. ~blind' => \A b \in Axes \ {a} : coasting'[b] = 0
    <3>1. CASE ~blind BY <1>3, <2>1, <3>1
    <3>2. CASE blind /\ ~blind'
      <4>1. coasting' = AtRest BY <1>2, <1>10, <3>2 DEF Looping
      <4> QED BY <4>1 DEF AtRest
    <3> QED BY <3>1, <3>2
  <2>5. Edge(a)' - coasting'[a] = loop'.last.position => MovedNothing(a)'
    BY <1>2, <2>1, <2>2, <2>3
  <2> HIDE DEF a
  <2>6. a = loop.last.axis BY DEF a
  <2> QED BY <1>2, <1>4, <1>5, <1>7, <1>8, <1>10, <2>1, <2>4, <2>5, <2>6 DEF ScInv, LoopIs, a
<1>11. CASE loop.step = "measure"
  <2>1. ~blind' => coasting' = AtRest' \/ Leaving'
    <3>1. CASE ~blind BY <1>1, <1>2, <1>7, <1>11, <3>1 DEF LoopIs
    <3>2. CASE blind /\ ~blind'
      <4>1. coasting' = AtRest BY <1>2, <1>11, <3>2 DEF Looping
      <4> QED BY <4>1 DEF AtRest
    <3> QED BY <3>1, <3>2
  <2>2. ASSUME a \in Axes, ~Leaving'
        PROVE  coasting'[a] = 0 /\ (Edge(a)' = loop'.last.position => MovedNothing(a)')
    <3>1. coasting[a] = 0 /\ (Edge(a) = loop.last.position => MovedNothing(a))
      BY <1>1, <1>7, <1>11, <2>2 DEF LoopIs
    <3>2. coasting'[a] = 0 /\ offset'[a] = offset[a] BY <1>3, <2>2, <3>1
    <3> QED BY <1>2, <3>1, <3>2
          DEF MovedNothing, AtLimit, Lacks, FitAxis, Edge, Usable, InsetOf
  <2> QED BY <1>2, <1>4, <1>5, <1>11, <2>1, <2>2 DEF ScInv, LoopIs
<1>12. CASE loop.step \notin {"measure", "settle"}
  <2>1. blind' = blind BY <1>1, <1>2, <1>12 DEF Looping, ScTyped
  <2>2. loop.step = "resolved" => blind BY <1>1, <1>2 DEF LoopIs
  <2> QED BY <1>1, <1>2, <1>4, <1>5, <1>9, <1>12, <2>1, <2>2 DEF ScInv, LoopIs
<1> QED BY <1>10, <1>11, <1>12

LEMMA ScInvInit == ScInit => ScInv
<1> SUFFICES ASSUME ScInit PROVE ScInv OBVIOUS
<1>1. /\ home \in [Axes -> Homes] /\ extent \in [Axes -> Lengths]
      /\ offset = [a \in Axes |-> 0] /\ coasting = AtRest
      /\ loop = [step |-> "measure", attempt |-> 0, last |-> NoLast, noProgress |-> 0]
      /\ lostSwipes = 0
      /\ swipe = [a \in Axes |-> [from |-> Window \div 2, to |-> Window \div 2]]
      /\ stuck = 0 /\ near = FALSE /\ blind = FALSE
  BY DEF ScInit
<1>2. /\ Homes \subseteq Int /\ Lengths \subseteq Nat \ {0} /\ Reach \in Nat /\ MaxScrolls \in Nat
      /\ MaxLost \in Nat /\ Window \div 2 \in Int
  BY ScrollBounds
<1>3. /\ home \in [Axes -> Int] /\ extent \in [Axes -> Nat \ {0}]
      /\ offset \in [Axes -> 0..Reach] /\ coasting \in [Axes -> Int]
      /\ \A a \in Axes : offset[a] + coasting[a] \in 0..Reach
  <2>1. 0 \in 0..Reach /\ 0 \in Int /\ 0 + 0 = 0 BY <1>2
  <2>2. coasting = [a \in Axes |-> 0] BY <1>1 DEF AtRest
  <2>3. home \in [Axes -> Int] /\ extent \in [Axes -> Nat \ {0}] BY <1>1, <1>2
  <2>4. offset \in [Axes -> 0..Reach] /\ coasting \in [Axes -> Int] BY <1>1, <2>1, <2>2
  <2>5. \A a \in Axes : offset[a] + coasting[a] \in 0..Reach BY <1>1, <2>1, <2>2
  <2> QED BY <2>3, <2>4, <2>5
<1>4. loop \in [step : LoopSteps, attempt : 0..MaxScrolls,
                last : [axis : Axes \union {"none"}, position : Int],
                noProgress : 0..NoProgressForBoundary]
  BY <1>1, <1>2 DEF LoopSteps, NoLast, NoProgressForBoundary
<1>5. swipe \in [Axes -> [from : Int, to : Int]] BY <1>1, <1>2
<1>6. ScTyped
  <2>1. lostSwipes \in 0..MaxLost /\ stuck \in Nat /\ stuck <= loop.attempt BY <1>1, <1>2
  <2>2. near \in BOOLEAN /\ blind \in BOOLEAN BY <1>1
  <2> QED BY <1>3, <1>4, <1>5, <2>1, <2>2 DEF ScTyped
<1>7. SwipesAreSafe
  <2> SUFFICES ASSUME NEW a \in Axes
               PROVE  Window \div 2 \in SafeBand(a).lo..SafeBand(a).hi
    BY <1>1 DEF SwipesAreSafe
  <2> DEFINE gutter == Usable(a) \div 10
  <2>1. Window \in Nat /\ InsetOf(a) \in Nat /\ 2 * InsetOf(a) < Window
        /\ Usable(a) = Window - 2 * InsetOf(a)
    BY ScrollBounds DEF InsetOf, Usable
  <2>2. gutter \in Nat /\ 10 * gutter <= Usable(a) BY <2>1
  <2>3. SafeBand(a) = [lo |-> InsetOf(a) + gutter, hi |-> Window - InsetOf(a) - gutter]
    BY DEF SafeBand
  <2> HIDE DEF gutter
  <2> QED BY <2>1, <2>2, <2>3
<1>8. LoopIs BY <1>1 DEF LoopIs, NoLast, Axes
<1> QED BY <1>6, <1>7, <1>8 DEF ScInv

LEMMA ScInvNext ==
  ASSUME ScInv, ScNext \/ UNCHANGED scVars
  PROVE  ScInv'
<1>1. CASE ScrollFails
  <2>1. /\ loop.step \in {"measure", "settle"} /\ EndsLoop("rejected")
        /\ UNCHANGED <<home, extent, offset, near>>
    BY <1>1 DEF ScrollFails, Looping
  <2>2. near' \in BOOLEAN BY <2>1 DEF ScInv, ScTyped
  <2> QED BY <2>1, <2>2, LoopEnds
<1>2. CASE UNCHANGED scVars
  <2>1. UNCHANGED <<home, extent, offset, coasting, loop, lostSwipes, swipe, stuck, near, blind>>
    BY <1>2 DEF scVars
  <2> QED BY <2>1 DEF ScInv, ScTyped, SwipesAreSafe, SafeBand, LoopIs, MovedNothing, AtLimit, Leaving,
        Beyond, Measurable, InView, CanBeSeen, Lacks, FitAxis, Edge, Usable, InsetOf, AtRest
<1> QED BY <1>1, <1>2, ScInvBlind, ScInvTowards, ScInvSettles, ScInvCoasts DEF ScNext, ScLoop

LEMMA ScInvGives == ScInv => ScTypeOK /\ ScrollTold
<1> SUFFICES ASSUME ScInv PROVE ScTypeOK /\ ScrollTold OBVIOUS
<1>1. ScTyped /\ SwipesAreSafe /\ LoopIs BY DEF ScInv
<1>2. \A a \in Axes : offset[a] \in 0..Reach /\ coasting[a] \in Int /\ offset[a] + coasting[a] \in 0..Reach
  BY <1>1 DEF ScTyped
<1>3. coasting \in [Axes -> -Reach..Reach]
  <2>1. \A a \in Axes : coasting[a] \in -Reach..Reach BY <1>2, ScrollBounds
  <2> QED BY <1>1, <2>1 DEF ScTyped
<1>4. ScTypeOK
  BY <1>1, <1>3, ScrollBounds DEF ScTyped, ScTypeOK, LoopSteps
<1>5. ScrollTold BY <1>1 DEF LoopIs, SwipesAreSafe, ScrollTold
<1> QED BY <1>4, <1>5

(* Wherever the element is, however long it is, and whatever swipes are      *)
(* swallowed: scrollIntoView does as it says.                                *)
THEOREM ScrollIsAsTold == ScSpec => [](ScTypeOK /\ ScrollTold)
<1>1. ScInv /\ [ScNext]_scVars => ScInv' BY ScInvNext
<1> QED BY ScInvInit, ScInvGives, <1>1, PTL DEF ScSpec

-----------------------------------------------------------------------------
(* Locators: the queries, and what is true of the element they are about.    *)

Mounts == 0..(MaxChanges + 1)
Codes == {"ok", "NOT_FOUND", "MULTIPLE_FOUND", "INTERNAL", "NOT_SUPPORTED"}
Infos == [code : Codes, el : Elements \union {0}, handle : (Elements \union {0}) \X Mounts,
          at : 0..Bottom, visible : BOOLEAN, enabled : BOOLEAN]

Views == [mounts : 1..(MaxChanges + 1), there : BOOLEAN, at : 0..Bottom,
          visible : BOOLEAN, enabled : BOOLEAN]

VtTyped ==
  /\ screen \in [Elements -> Views]
  /\ \A e \in Elements : screen[e].mounts <= changes + 1
  /\ activity \in BOOLEAN /\ viewModule \in {"absent", "tapless", "whole"}
  /\ changes \in 0..MaxChanges

(* The answer is what is on the screen.                                      *)
Agrees(r) == r.el \in Elements /\ screen[r.el].there /\ r = ElementInfo(r.el)

(* What an answer says is among the facts: of the element that is denoted,   *)
(* of there being none or several, of there being no window to look at.      *)
Tells(r, facts) ==
  /\ r.code = "ok" => /\ "attached" \in facts
                      /\ IF r.visible THEN "visible" \in facts ELSE "hidden" \in facts
                      /\ IF r.enabled THEN "enabled" \in facts ELSE "disabled" \in facts
                      /\ r.visible /\ r.enabled => "actionable" \in facts
  /\ r.code = "NOT_FOUND" => "detached" \in facts
  /\ r.code = "MULTIPLE_FOUND" => "ambiguous" \in facts \/ "detached" \in facts
  /\ r.code = "INTERNAL" => "unreadable" \in facts

LEMMA ElementsAre ==
  /\ Len(Tags) \in Nat /\ Elements \subseteq Nat \ {0} /\ IsFiniteSet(Elements)
  /\ \A list \in SUBSET Elements : IsFiniteSet(list) /\ Cardinality(list) \in Nat
                                    /\ (Cardinality(list) = 0 => list = {})
<1>1. Len(Tags) \in Nat BY ScreenBounds
<1>2. Elements \subseteq Nat \ {0} BY <1>1 DEF Elements
<1>3. IsFiniteSet(Elements) BY <1>1, FS_Interval DEF Elements
<1>4. ASSUME NEW list \in SUBSET Elements
      PROVE  IsFiniteSet(list) /\ Cardinality(list) \in Nat /\ (Cardinality(list) = 0 => list = {})
  <2>1. IsFiniteSet(list) BY <1>3, <1>4, FS_Subset
  <2> QED BY <2>1, FS_CardinalityType, FS_EmptySet
<1> QED BY <1>1, <1>2, <1>3, <1>4

(* A list of one element, asked for its first, gives it.                     *)
LEMMA AtOnly ==
  ASSUME NEW x \in Elements
  PROVE  Nth({x}, 1) = {x} /\ At({x}, {}) = {x}
<1>1. x \in Nat BY ElementsAre
<1>2. Cardinality({x}) = 1 BY FS_Singleton
<1>3. Position({}, 1) = 1 BY DEF Position
<1>4. {d \in {x} : d <= x} = {x} BY <1>1
<1>5. Nth({x}, 1) = {x} BY <1>2, <1>4 DEF Nth
<1> QED BY <1>2, <1>3, <1>5 DEF At

LEMMA AtIsOf == \A list, index : At(list, index) \subseteq list
BY DEF At, Nth

LEMMA InfoIs ==
  ASSUME VtTyped, NEW e \in Elements
  PROVE  /\ ElementInfo(e) \in Infos /\ ElementInfo(e).code = "ok" /\ ElementInfo(e).el = e
         /\ ElementInfo(e).handle = <<e, screen[e].mounts>>
         /\ ElementInfo(e).at = screen[e].at
         /\ ElementInfo(e).visible = screen[e].visible /\ ElementInfo(e).enabled = screen[e].enabled
<1>1. /\ screen[e] \in Views /\ MaxChanges \in Nat BY ScreenBounds DEF VtTyped
<1>2. /\ screen[e].mounts \in Mounts /\ screen[e].at \in 0..Bottom
      /\ screen[e].visible \in BOOLEAN /\ screen[e].enabled \in BOOLEAN
  BY <1>1 DEF Views, Mounts
<1>3. HandleOf(e) = <<e, screen[e].mounts>> /\ HandleOf(e) \in (Elements \union {0}) \X Mounts
  BY <1>2 DEF HandleOf
<1>4. "ok" \in Codes BY DEF Codes
<1> QED BY <1>2, <1>3, <1>4 DEF ElementInfo, Infos

LEMMA FailureIs ==
  ASSUME NEW code \in Codes
  PROVE  Failed(code) \in Infos /\ Failed(code).code = code
<1>1. Bottom \in Nat /\ MaxChanges \in Nat BY ScreenBounds
<1>2. <<0, 0>> \in (Elements \union {0}) \X Mounts /\ 0 \in 0..Bottom BY <1>1 DEF Mounts
<1> QED BY <1>2 DEF Failed, Infos

(* Facts about an element the locator denotes.                               *)
LEMMA FactsOf ==
  ASSUME VtTyped, activity, NEW l, NEW e \in Elements, e \in Denoted(l)
  PROVE  Tells(ElementInfo(e), Facts(l))
<1>1. 0 \notin Elements /\ e # 0 BY ElementsAre
<1>2. Denoted(l) # {Ambiguous} /\ Denoted(l) # {} BY <1>1 DEF Ambiguous
<1> DEFINE about(d) ==
      {"attached"} \union {IF screen[d].visible THEN "visible" ELSE "hidden"}
                   \union {IF screen[d].enabled THEN "enabled" ELSE "disabled"}
                   \union {f \in {"actionable"} : screen[d].visible /\ screen[d].enabled}
<1>3. Facts(l) = UNION {about(d) : d \in Denoted(l)}
  BY <1>2, Zenon DEF Facts
<1>4. about(e) \subseteq Facts(l)
  <2> HIDE DEF about
  <2> QED BY <1>3
<1>5. /\ "attached" \in about(e)
      /\ IF screen[e].visible THEN "visible" \in about(e) ELSE "hidden" \in about(e)
      /\ IF screen[e].enabled THEN "enabled" \in about(e) ELSE "disabled" \in about(e)
      /\ screen[e].visible /\ screen[e].enabled => "actionable" \in about(e)
  OBVIOUS
<1>6. /\ ElementInfo(e).code = "ok" /\ ElementInfo(e).visible = screen[e].visible
      /\ ElementInfo(e).enabled = screen[e].enabled
  BY InfoIs
<1> HIDE DEF about
<1> QED BY <1>4, <1>5, <1>6 DEF Tells

LEMMA NothingFacts ==
  ASSUME NEW l, activity
  PROVE  /\ Denoted(l) = {} => "detached" \in Facts(l)
         /\ Denoted(l) = {Ambiguous} => "ambiguous" \in Facts(l)
BY Zenon DEF Facts

LEMMA TraverseIs ==
  ASSUME NEW tag
  PROVE  Traverse(tag) \subseteq Elements
BY DEF Traverse

(* The query of a testID: the one element that has it, none, or several.     *)
LEMMA FindSingleIs ==
  ASSUME VtTyped, NEW tag, NoViews = "none"
  PROVE  LET r == FindSingle(tag) IN
         /\ r \in Infos /\ r.code \in {"ok", "NOT_FOUND", "MULTIPLE_FOUND"}
         /\ r.code = "ok" => Agrees(r) /\ Traverse(tag) = {r.el}
         /\ r.code = "NOT_FOUND" => Traverse(tag) = {}
         /\ r.code = "MULTIPLE_FOUND" => Cardinality(Traverse(tag)) > 1
<1> DEFINE all == Traverse(tag)
           r   == FindSingle(tag)
<1>1. all \in SUBSET Elements BY TraverseIs
<1>2. Cardinality(all) \in Nat /\ (Cardinality(all) = 0 => all = {}) /\ Cardinality({}) = 0
  BY <1>1, ElementsAre, FS_EmptySet
<1>3. r = IF Cardinality(all) = 1 THEN ElementInfo(CHOOSE e \in all : TRUE)
          ELSE Failed(IF all = {} THEN "NOT_FOUND" ELSE "MULTIPLE_FOUND")
  BY DEF FindSingle
<1>4. CASE Cardinality(all) = 1
  <2>1. IsFiniteSet(all) BY <1>1, ElementsAre
  <2>2. PICK x : all = {x} BY <1>4, <2>1, FS_Singleton
  <2>3. x \in Elements /\ (CHOOSE e \in all : TRUE) = x BY <1>1, <2>2
  <2>4. r = ElementInfo(x) BY <1>3, <1>4, <2>3
  <2>5. screen[x].there BY <2>2 DEF Traverse
  <2>6. r \in Infos /\ r.code = "ok" /\ r.el = x BY <2>3, <2>4, InfoIs
  <2>7. Agrees(r) BY <2>3, <2>4, <2>5, <2>6 DEF Agrees
  <2> HIDE DEF r
  <2> QED BY <2>2, <2>6, <2>7 DEF r
<1>5. CASE Cardinality(all) # 1 /\ all = {}
  <2>1. r = Failed("NOT_FOUND") BY <1>3, <1>5
  <2>2. r \in Infos /\ r.code = "NOT_FOUND" BY <2>1, FailureIs DEF Codes
  <2> HIDE DEF r
  <2> QED BY <1>5, <2>2 DEF r
<1>6. CASE Cardinality(all) # 1 /\ all # {}
  <2>1. r = Failed("MULTIPLE_FOUND") BY <1>3, <1>6
  <2>2. r \in Infos /\ r.code = "MULTIPLE_FOUND" BY <2>1, FailureIs DEF Codes
  <2>3. Cardinality(all) > 1 BY <1>2, <1>6
  <2> HIDE DEF r
  <2> QED BY <2>2, <2>3 DEF r
<1> QED BY <1>4, <1>5, <1>6

LEMMA SelectIs ==
  ASSUME VtTyped, NEW list \in SUBSET Elements, NEW index,
         \A e \in list : screen[e].there
  PROVE  LET r == Select(list, index) IN
         /\ r \in Infos /\ r.code \in {"ok", "NOT_FOUND"}
         /\ r.code = "ok" => Agrees(r) /\ r.el \in At(list, index)
         /\ r.code = "NOT_FOUND" => At(list, index) = {}
<1> DEFINE found == At(list, index)
           r     == Select(list, index)
<1>1. found \subseteq list BY AtIsOf
<1>2. CASE found = {}
  <2>1. r = Failed("NOT_FOUND") BY <1>2 DEF Select
  <2>2. r \in Infos /\ r.code = "NOT_FOUND" BY <2>1, FailureIs DEF Codes
  <2> HIDE DEF r
  <2> QED BY <1>2, <2>2 DEF r
<1>3. CASE found # {}
  <2>1. PICK x \in found : x = CHOOSE e \in found : TRUE BY <1>3
  <2>2. r = ElementInfo(x) BY <1>3, <2>1 DEF Select
  <2>3. x \in Elements /\ screen[x].there BY <1>1, <2>1
  <2>4. r \in Infos /\ r.code = "ok" /\ r.el = x BY <2>2, <2>3, InfoIs
  <2>5. Agrees(r) BY <2>2, <2>3, <2>4 DEF Agrees
  <2> HIDE DEF r
  <2> QED BY <2>1, <2>4, <2>5 DEF r
<1> QED BY <1>2, <1>3

LEMMA NoViewsIs ==
  ASSUME VtTyped
  PROVE  /\ NoViews \in {"none", "INTERNAL", "NOT_SUPPORTED"}
         /\ NoViews = "none" => activity /\ viewModule # "absent"
         /\ NoViews = "INTERNAL" => ~activity /\ viewModule # "absent"
<1>1. CASE viewModule = "absent"
  BY <1>1 DEF NoViews
<1>2. CASE viewModule # "absent" /\ ~activity
  BY <1>2 DEF NoViews
<1>3. CASE viewModule # "absent" /\ activity
  BY <1>3 DEF NoViews
<1> QED BY <1>1, <1>2, <1>3

LEMMA NoViewsTells ==
  ASSUME VtTyped, NoViews # "none", NEW l
  PROVE  /\ Failed(NoViews) \in Infos /\ Failed(NoViews).code = NoViews
         /\ Failed(NoViews).code # "ok" /\ Tells(Failed(NoViews), Facts(l))
<1>1. NoViews \in {"INTERNAL", "NOT_SUPPORTED"} BY NoViewsIs
<1>2. Failed(NoViews) \in Infos /\ Failed(NoViews).code = NoViews
  BY <1>1, FailureIs DEF Codes
<1>3. NoViews = "INTERNAL" => "unreadable" \in Facts(l) BY NoViewsIs DEF Facts
<1>4. Tells(Failed(NoViews), Facts(l)) BY <1>1, <1>2, <1>3 DEF Tells
<1> QED BY <1>1, <1>2, <1>4

(* The parent of a scoped locator, as the locator keeps it, is where it was. *)
Scoped(l) ==
  \E p \in ParentOf(l) : screen[p].at = scope.at /\ Heights[p] = scope.tall

(* A query tells the truth about the element the locator denotes, if what it *)
(* keeps of the parent is still true.                                        *)
LEMMA QueryTells ==
  ASSUME VtTyped, NEW l
  PROVE  LET r == Query(l) IN
         /\ r \in Infos
         /\ r.code = "ok" => Agrees(r) /\ viewModule # "absent"
         /\ r.code = "ok" /\ l.within = "" /\ l.index = {} => Traverse(l.tag) = {r.el}
         /\ (l.within # "" => Scoped(l)) => Tells(r, Facts(l))
<1> DEFINE all == Traverse(l.tag)
           r   == Query(l)
<1>1. all \in SUBSET Elements /\ \A e \in all : screen[e].there
  BY TraverseIs DEF Traverse
<1>2. CASE NoViews # "none"
  <2>1. r = Failed(NoViews) BY <1>2 DEF Query
  <2>2. r \in Infos /\ r.code # "ok" /\ Tells(r, Facts(l)) BY <1>2, <2>1, NoViewsTells
  <2> HIDE DEF r
  <2> QED BY <2>2 DEF r
<1>3. CASE NoViews = "none" /\ l.within # ""
  <2> DEFINE inside == Inside(all, scope.at, scope.tall)
  <2>1. r = Select(inside, l.index) BY <1>3 DEF Query
  <2>2. inside \in SUBSET Elements /\ \A e \in inside : screen[e].there BY <1>1 DEF Inside
  <2>3. /\ r \in Infos /\ r.code \in {"ok", "NOT_FOUND"}
        /\ r.code = "ok" => Agrees(r) /\ r.el \in At(inside, l.index)
        /\ r.code = "NOT_FOUND" => At(inside, l.index) = {}
    BY <2>1, <2>2, SelectIs
  <2>4. activity /\ viewModule # "absent" BY <1>3, NoViewsIs
  <2>5. ASSUME Scoped(l) PROVE Tells(r, Facts(l))
    <3>1. PICK p \in ParentOf(l) : screen[p].at = scope.at /\ Heights[p] = scope.tall
      BY <2>5 DEF Scoped
    <3>2. ParentOf(l) = {p} BY <3>1 DEF ParentOf
    <3>3. Denoted(l) = At(inside, l.index) BY <1>3, <3>1, <3>2 DEF Denoted
    <3>4. CASE r.code = "ok"
      <4>1. r.el \in Elements /\ r = ElementInfo(r.el) BY <2>3, <3>4 DEF Agrees
      <4>2. Tells(ElementInfo(r.el), Facts(l)) BY <2>3, <2>4, <3>3, <3>4, <4>1, FactsOf
      <4> QED BY <4>1, <4>2
    <3>5. CASE r.code = "NOT_FOUND"
      <4>1. "detached" \in Facts(l) BY <2>3, <2>4, <3>3, <3>5, NothingFacts
      <4> HIDE DEF r
      <4> QED BY <3>5, <4>1 DEF Tells
    <3> QED BY <2>3, <3>4, <3>5
  <2> HIDE DEF r
  <2> QED BY <1>3, <2>3, <2>4, <2>5 DEF r
<1>4. CASE NoViews = "none" /\ l.within = "" /\ l.index = {}
  <2>1. r = FindSingle(l.tag) BY <1>4 DEF Query
  <2>2. /\ r \in Infos /\ r.code \in {"ok", "NOT_FOUND", "MULTIPLE_FOUND"}
        /\ r.code = "ok" => Agrees(r) /\ all = {r.el}
        /\ r.code = "NOT_FOUND" => all = {}
        /\ r.code = "MULTIPLE_FOUND" => Cardinality(all) > 1
    BY <1>4, <2>1, FindSingleIs
  <2>3. activity /\ viewModule # "absent" BY <1>4, NoViewsIs
  <2>4. Denoted(l) = IF Cardinality(all) > 1 THEN {Ambiguous} ELSE At(all, {})
    BY <1>4 DEF Denoted
  <2>5. Tells(r, Facts(l))
    <3>1. CASE r.code = "ok"
      <4>1. r.el \in Elements /\ r = ElementInfo(r.el) /\ all = {r.el} BY <2>2, <3>1 DEF Agrees
      <4>2. Cardinality(all) = 1 BY <4>1, FS_Singleton
      <4>3. Denoted(l) = {r.el} BY <2>4, <4>1, <4>2, AtOnly
      <4>4. Tells(ElementInfo(r.el), Facts(l)) BY <2>3, <4>1, <4>3, FactsOf
      <4> QED BY <4>1, <4>4
    <3>2. CASE r.code = "NOT_FOUND"
      <4>1. all = {} /\ Cardinality(all) = 0 BY <2>2, <3>2, FS_EmptySet
      <4>2. Denoted(l) = {} BY <2>4, <4>1, AtIsOf
      <4>3. "detached" \in Facts(l) BY <2>3, <4>2, NothingFacts
      <4> HIDE DEF r
      <4> QED BY <3>2, <4>3 DEF Tells
    <3>3. CASE r.code = "MULTIPLE_FOUND"
      <4>1. "ambiguous" \in Facts(l) BY <2>2, <2>3, <2>4, <3>3, NothingFacts
      <4> HIDE DEF r
      <4> QED BY <3>3, <4>1 DEF Tells
    <3> QED BY <2>2, <3>1, <3>2, <3>3
  <2> HIDE DEF r
  <2> QED BY <1>4, <2>2, <2>3, <2>5 DEF r
<1>5. CASE NoViews = "none" /\ l.within = "" /\ l.index # {}
  <2>1. r = Select(all, l.index) BY <1>5 DEF Query
  <2>2. /\ r \in Infos /\ r.code \in {"ok", "NOT_FOUND"}
        /\ r.code = "ok" => Agrees(r) /\ r.el \in At(all, l.index)
        /\ r.code = "NOT_FOUND" => At(all, l.index) = {}
    BY <1>1, <2>1, SelectIs
  <2>3. activity /\ viewModule # "absent" BY <1>5, NoViewsIs
  <2>4. Denoted(l) = At(all, l.index) BY <1>5 DEF Denoted
  <2>5. Tells(r, Facts(l))
    <3>1. CASE r.code = "ok"
      <4>1. r.el \in Elements /\ r = ElementInfo(r.el) BY <2>2, <3>1 DEF Agrees
      <4>2. Tells(ElementInfo(r.el), Facts(l)) BY <2>2, <2>3, <2>4, <3>1, <4>1, FactsOf
      <4> QED BY <4>1, <4>2
    <3>2. CASE r.code = "NOT_FOUND"
      <4>1. "detached" \in Facts(l) BY <2>2, <2>3, <2>4, <3>2, NothingFacts
      <4> HIDE DEF r
      <4> QED BY <3>2, <4>1 DEF Tells
    <3> QED BY <2>2, <3>1, <3>2
  <2> HIDE DEF r
  <2> QED BY <1>5, <2>2, <2>3, <2>5 DEF r
<1> QED BY <1>2, <1>3, <1>4, <1>5

-----------------------------------------------------------------------------
(* Locators: the steps of a call.                                            *)

LookupSteps == {"idle", "parent", "query", "asleep", "tap", "pointing", "fill", "capturing",
                "bounds", "region", "resolved", "rejected"}
Answered == {"tap", "pointing", "fill", "capturing", "bounds", "region"}
Touches == [by : {"none", "handle", "point", "fill", "region"}, hit : BOOLEAN, disturbed : BOOLEAN,
            covered : BOOLEAN]
Scopes == [known : BOOLEAN, at : 0..Bottom, tall : Nat, drifted : BOOLEAN]
Lookups == [op : LocatorOps, loc : Locs, step : LookupSteps, info : Infos, value : BOOLEAN]

LoTyped ==
  /\ VtTyped
  /\ lookups \in 0..MaxLookups /\ lookup \in Lookups /\ scope \in Scopes
  /\ baseline \in 0..(Len(Tags) + 1) /\ touched \in Touches /\ unheard \in BOOLEAN

(* What a locator keeps of its parent is true until the parent drifts.       *)
ScopeIs ==
  /\ scope.drifted => scope.known
  /\ scope.known /\ ~scope.drifted => Scoped(lookup.loc)

(* Where a call can be.                                                      *)
StepIs ==
  LET s == lookup.step IN
  /\ s = "parent" => lookup.loc.within # ""
  /\ s = "query" /\ lookup.loc.within # "" => scope.known
  /\ s \in {"tap", "pointing"} => lookup.op = "tap"
  /\ s = "fill" => lookup.op = "fill"
  /\ lookup.op = "fill" /\ ~Settled => lookup.loc.index = {} /\ lookup.loc.within = ""
  /\ s \in {"capturing", "bounds", "region"} => lookup.op \in Shots

(* The answer a call acts on is what the screen was, and is until it changes.*)
AnswerIs ==
  LET s == lookup.step
      r == lookup.info
  IN
  /\ s \in Answered => r.code = "ok" /\ r.el \in Elements /\ r.handle[1] = r.el
                       /\ viewModule # "absent"
  /\ s \in Answered \ {"bounds"} /\ ~touched.disturbed => Agrees(r)
  /\ s \in {"tap", "pointing"} => r.visible /\ r.enabled
  /\ s \in {"tap", "pointing"} /\ ~touched.disturbed /\ Covered(r.el) => touched.covered
  /\ s = "fill" /\ ~touched.disturbed => Traverse(lookup.loc.tag) = {r.el}
  /\ s = "pointing" => viewModule = "tapless"

TouchIs ==
  /\ ~Settled => touched.by = "none"
  /\ touched.by = "none" => touched.hit
  /\ ActionLands

(* What is true during a call is seen, and what it acts on was.              *)
SeenIs ==
  /\ ~Settled => Facts(lookup.loc) \subseteq seen
  /\ lookup.step \in {"tap", "pointing", "fill"} /\ ~scope.drifted => "actionable" \in seen
  /\ LocatorTold

LoInv == LoTyped /\ ScopeIs /\ StepIs /\ AnswerIs /\ TouchIs /\ SeenIs

LEMMA ScreenStays ==
  ASSUME UNCHANGED vtVars, lookup'.loc = lookup.loc
  PROVE  /\ Facts(lookup.loc)' = Facts(lookup.loc)
         /\ Traverse(lookup.loc.tag)' = Traverse(lookup.loc.tag)
         /\ UNCHANGED scope => (Scoped(lookup.loc)' <=> Scoped(lookup.loc))
<1>1. screen' = screen /\ activity' = activity /\ viewModule' = viewModule BY DEF vtVars
<1>2. Traverse(lookup.loc.tag)' = Traverse(lookup.loc.tag)
  BY <1>1 DEF Traverse
<1>3. ParentOf(lookup.loc)' = ParentOf(lookup.loc)
  BY <1>1 DEF ParentOf, Traverse
<1>4. UNCHANGED scope => (Scoped(lookup.loc)' <=> Scoped(lookup.loc))
  BY <1>1, <1>3 DEF Scoped
<1>5. Denoted(lookup.loc)' = Denoted(lookup.loc)
  BY <1>1 DEF Denoted, Traverse, ParentOf, Inside, At, Nth, Position, Ambiguous
<1>6. Facts(lookup.loc)' = Facts(lookup.loc)
  BY <1>1, <1>5 DEF Facts
<1> QED BY <1>2, <1>4, <1>6

(* What LocatorTold says of a call that returned.                            *)
Right(op, value, facts, deaf) ==
  /\ op \in Waits => op \in facts
  /\ op = "toBeVisible" => "visible" \in facts
  /\ op = "toBeEnabled" => "enabled" \in facts
  /\ op = "toBeDisabled" => "disabled" \in facts
  /\ op = "toBeAttached" => "attached" \in facts
  /\ op = "not.toBeVisible" => deaf \/ facts \intersect {"hidden", "detached"} # {}
  /\ op = "isVisible" => IF value THEN "visible" \in facts
                         ELSE facts \intersect {"hidden", "detached", "ambiguous", "unreadable"} # {}
  /\ op = "bounds" => IF value THEN "attached" \in facts
                      ELSE facts \intersect {"detached", "ambiguous", "unreadable"} # {}
  /\ op \in Acts => "actionable" \in facts

LEMMA ToldIsRight ==
  LocatorTold <=> (lookup.step = "resolved" /\ ~scope.drifted
                     => Right(lookup.op, lookup.value, seen, unheard))
BY DEF LocatorTold, Right

LEMMA InfoParts ==
  ASSUME NEW r \in Infos
  PROVE  r.code \in Codes /\ r.visible \in BOOLEAN /\ r.enabled \in BOOLEAN
BY DEF Infos

(* Where an answer takes a call, by the kind of the call.                    *)
LEMMA AfterWaits ==
  ASSUME NEW r \in Infos, NEW op \in Waits
  PROVE  /\ After(op, r) \in {"resolved", "rejected", "asleep"}
         /\ After(op, r) = "resolved" => MatchesState(r, op)
<1>1. op \in Waits /\ op \notin Asserts /\ op \notin Asks BY DEF Asserts, Waits, Asks
<1>2. op \notin Shots /\ op \notin Acts BY DEF Waits, Shots, Acts
<1>3. After(op, r) = IF Fatal(r) THEN "rejected" ELSE IF MatchesState(r, op) THEN "resolved" ELSE "asleep"
  BY <1>1, <1>2 DEF After
<1> QED BY <1>3

LEMMA AfterAsserts ==
  ASSUME NEW r \in Infos, NEW op \in Asserts
  PROVE  /\ After(op, r) \in {"resolved", "rejected", "asleep"}
         /\ After(op, r) = "resolved" => Passes(r, op)
<1>1. op \notin Waits BY DEF Asserts, Waits
<1>2. op \in Asserts /\ op \notin Asks /\ op \notin Shots /\ op \notin Acts
  BY DEF Asserts, Asks, Shots, Acts
<1>3. After(op, r) = IF op = "toBeAttached" /\ r.code = "NOT_SUPPORTED" THEN "rejected"
                     ELSE IF Passes(r, op) THEN "resolved" ELSE "asleep"
  BY <1>1, <1>2 DEF After
<1> QED BY <1>3

LEMMA AfterAsks ==
  ASSUME NEW r \in Infos, NEW op \in Asks
  PROVE  /\ After(op, r) \in {"resolved", "rejected"}
         /\ After(op, r) = "resolved" => r.code # "NOT_SUPPORTED"
<1>1. op \notin Waits /\ op \notin Asserts BY DEF Asserts, Waits, Asks
<1>2. op \notin Shots /\ op \notin Acts BY DEF Asks, Shots, Acts
<1>3. After(op, r) = IF r.code = "NOT_SUPPORTED" THEN "rejected" ELSE "resolved"
  BY <1>1, <1>2 DEF After
<1> QED BY <1>3

LEMMA AfterShots ==
  ASSUME NEW r \in Infos, NEW op \in Shots
  PROVE  /\ After(op, r) \in {"capturing", "rejected"}
         /\ After(op, r) = "capturing" => r.code = "ok"
<1>1. op \notin Waits /\ op \notin Asserts BY DEF Asserts, Waits, Shots
<1>2. op \notin Asks /\ op \notin Acts BY DEF Asks, Shots, Acts
<1>3. After(op, r) = IF r.code = "ok" THEN "capturing" ELSE "rejected"
  BY <1>1, <1>2 DEF After
<1> QED BY <1>3

LEMMA AfterActs ==
  ASSUME NEW r \in Infos, NEW op \in Acts
  PROVE  /\ After(op, r) \in {"rejected", "asleep", op}
         /\ After(op, r) = op => r.code = "ok" /\ r.visible /\ r.enabled
<1>1. op \notin Waits /\ op \notin Asserts BY DEF Asserts, Waits, Acts
<1>2. op \notin Asks /\ op \notin Shots /\ op # "rejected" /\ op # "asleep" BY DEF Asks, Shots, Acts
<1>3. After(op, r) = IF Fatal(r) THEN "rejected"
                     ELSE IF r.code = "ok" /\ r.visible /\ r.enabled THEN op ELSE "asleep"
  BY <1>1, <1>2 DEF After
<1> QED BY <1>2, <1>3

(* An answer that ends a call, and is true, makes the call right.            *)
LEMMA AfterIsRight ==
  ASSUME NEW r \in Infos, NEW op \in LocatorOps, NEW facts, NEW deaf \in BOOLEAN, NEW value,
         After(op, r) = "resolved",
         value = IF op = "isVisible" THEN r.code = "ok" /\ r.visible ELSE r.code = "ok",
         Tells(r, facts) \/ (deaf /\ r = Failed("NOT_FOUND") /\ op \in Asserts)
  PROVE  Right(op, value, facts, deaf)
<1>1. r.code \in Codes /\ r.visible \in BOOLEAN /\ r.enabled \in BOOLEAN BY InfoParts
<1>2. op \in Waits \/ op \in Asserts \/ op \in Asks \/ op \in Acts \/ op \in Shots
  BY DEF LocatorOps
<1>3. CASE op \in Waits
  <2>1. MatchesState(r, op) BY <1>3, AfterWaits
  <2>2. Tells(r, facts) BY <1>3 DEF Waits, Asserts
  <2>3. op \in facts
    <3>1. op \in {"attached", "visible", "hidden", "detached"} BY <1>3 DEF Waits
    <3> QED BY <1>1, <2>1, <2>2, <3>1 DEF MatchesState, Tells
  <2> QED BY <1>3, <2>3 DEF Right, Waits, Acts
<1>4. CASE op \in Asserts
  <2>1. Passes(r, op) BY <1>4, AfterAsserts
  <2>2. op \in {"toBeVisible", "not.toBeVisible", "toBeEnabled", "toBeDisabled", "toBeAttached"}
    BY <1>4 DEF Asserts
  <2>3. Failed("NOT_FOUND").code = "NOT_FOUND" BY DEF Failed
  <2>4. CASE op = "not.toBeVisible"
    <3>1. deaf \/ "hidden" \in facts \/ "detached" \in facts
      BY <1>1, <2>1, <2>4 DEF Passes, Tells
    <3> QED BY <2>4, <3>1 DEF Right, Waits, Acts
  <2>5. CASE op # "not.toBeVisible"
    <3>1. r.code = "ok" BY <2>1, <2>2, <2>5 DEF Passes
    <3>2. Tells(r, facts) BY <2>3, <3>1
    <3>3. /\ op = "toBeVisible" => r.visible
          /\ op = "toBeEnabled" => r.enabled
          /\ op = "toBeDisabled" => ~r.enabled
      BY <2>1, <2>2 DEF Passes
    <3> QED BY <2>2, <2>5, <3>1, <3>2, <3>3 DEF Right, Tells, Waits, Acts
  <2> QED BY <2>4, <2>5
<1>5. CASE op \in Asks
  <2>1. r.code # "NOT_SUPPORTED" BY <1>5, AfterAsks
  <2>2. Tells(r, facts) BY <1>5 DEF Asks, Asserts
  <2>3. CASE op = "isVisible"
    <3>1. value = (r.code = "ok" /\ r.visible) BY <2>3
    <3>2. CASE r.code = "ok" BY <1>1, <2>2, <2>3, <3>1, <3>2 DEF Right, Tells, Waits, Acts
    <3>3. CASE r.code # "ok"
      <4>1. \/ "detached" \in facts \/ "ambiguous" \in facts \/ "unreadable" \in facts
        BY <1>1, <2>1, <2>2, <3>3 DEF Tells, Codes
      <4> QED BY <2>3, <3>1, <3>3, <4>1 DEF Right, Waits, Acts
    <3> QED BY <3>2, <3>3
  <2>4. CASE op = "bounds"
    <3>1. value = (r.code = "ok") BY <2>4
    <3>2. CASE r.code = "ok" BY <1>1, <2>2, <2>4, <3>1, <3>2 DEF Right, Tells, Waits, Acts
    <3>3. CASE r.code # "ok"
      <4>1. \/ "detached" \in facts \/ "ambiguous" \in facts \/ "unreadable" \in facts
        BY <1>1, <2>1, <2>2, <3>3 DEF Tells, Codes
      <4> QED BY <2>4, <3>1, <3>3, <4>1 DEF Right, Waits, Acts
    <3> QED BY <3>2, <3>3
  <2> QED BY <1>5, <2>3, <2>4 DEF Asks
<1>6. CASE op \in Acts \/ op \in Shots
  <2>1. op \in {"tap", "fill", "screenshot", "toMatchSnapshot"} BY <1>6 DEF Acts, Shots
  <2>2. After(op, r) # "resolved" BY <1>6, <2>1, AfterActs, AfterShots
  <2> QED BY <2>2
<1> QED BY <1>2, <1>3, <1>4, <1>5, <1>6

(* Where an answer takes a call, whatever it is.                             *)
LEMMA AfterIs ==
  ASSUME NEW r \in Infos, NEW op \in LocatorOps
  PROVE  LET s == After(op, r) IN
         /\ s \in {"resolved", "rejected", "asleep", "capturing", "tap", "fill"}
         /\ s \in {"capturing", "tap", "fill"} => r.code = "ok"
         /\ s = "capturing" => op \in Shots
         /\ s \in {"tap", "fill"} => op = s /\ r.visible /\ r.enabled
         /\ s = "resolved" => op \notin Acts \union Shots
<1>1. op \in Waits \/ op \in Asserts \/ op \in Asks \/ op \in Acts \/ op \in Shots
  BY DEF LocatorOps
<1>2. CASE op \in Waits
  <2>1. op \notin Acts \union Shots BY <1>2 DEF Waits, Acts, Shots
  <2> QED BY <1>2, <2>1, AfterWaits
<1>3. CASE op \in Asserts
  <2>1. op \notin Acts \union Shots BY <1>3 DEF Asserts, Acts, Shots
  <2> QED BY <1>3, <2>1, AfterAsserts
<1>4. CASE op \in Asks
  <2>1. op \notin Acts \union Shots BY <1>4 DEF Asks, Acts, Shots
  <2> QED BY <1>4, <2>1, AfterAsks
<1>5. CASE op \in Acts
  <2>1. op \in {"tap", "fill"} BY <1>5 DEF Acts
  <2> QED BY <1>5, <2>1, AfterActs
<1>6. CASE op \in Shots BY <1>6, AfterShots
<1> QED BY <1>1, <1>2, <1>3, <1>4, <1>5, <1>6

(* A decision on an answer that is true keeps the invariant.                 *)
LEMMA DecidesKeeps ==
  ASSUME LoInv, NEW r \in Infos, ~Settled, Decides(r),
         UNCHANGED <<lookups, scope, baseline, seen, vtVars>>, unheard' \in BOOLEAN,
         r.code = "ok" => Agrees(r) /\ viewModule # "absent",
         r.code = "ok" /\ lookup.op = "fill" => Traverse(lookup.loc.tag) = {r.el},
         ~scope.drifted => \/ Tells(r, seen)
                           \/ unheard' /\ r = Failed("NOT_FOUND") /\ lookup.op \in Asserts
  PROVE  LoInv'
<1> DEFINE next == After(lookup.op, r)
           value == IF lookup.op = "isVisible" THEN r.code = "ok" /\ r.visible ELSE r.code = "ok"
<1>1. LoTyped /\ ScopeIs /\ StepIs /\ SeenIs BY DEF LoInv
<1>2. lookup \in Lookups /\ lookup.op \in LocatorOps BY <1>1 DEF LoTyped, Lookups
<1>3. /\ lookup' = [lookup EXCEPT !.step = next, !.info = r, !.value = value]
      /\ touched' = [Untouched EXCEPT !.covered = lookup.op = "tap" /\ r.code = "ok" /\ Covered(r.el)]
  BY DEF Decides
<1>4. /\ next \in {"resolved", "rejected", "asleep", "capturing", "tap", "fill"}
      /\ next \in {"capturing", "tap", "fill"} => r.code = "ok"
      /\ next = "capturing" => lookup.op \in Shots
      /\ next \in {"tap", "fill"} => lookup.op = next /\ r.visible /\ r.enabled
      /\ next = "resolved" => lookup.op \notin Acts \union Shots
  BY <1>2, AfterIs
<1>5. value \in BOOLEAN BY InfoParts
<1>6. next = "resolved" /\ ~scope.drifted => Right(lookup.op, value, seen, unheard')
  BY <1>2, AfterIsRight
<1> HIDE DEF next, value
<1>7. /\ lookup'.op = lookup.op /\ lookup'.loc = lookup.loc /\ lookup'.step = next
      /\ lookup'.info = r /\ lookup'.value = value
  BY <1>2, <1>3 DEF Lookups
<1>8. next \in LookupSteps BY <1>4 DEF LookupSteps
<1>9. UNCHANGED <<screen, activity, viewModule, changes>> BY DEF vtVars
<1> DEFINE covered == lookup.op = "tap" /\ r.code = "ok" /\ Covered(r.el)
<1>17. /\ touched' \in Touches /\ touched'.by = "none" /\ touched'.hit
       /\ touched'.covered = covered
  <2>1. covered \in BOOLEAN OBVIOUS
  <2> HIDE DEF covered
  <2>2. touched' = [Untouched EXCEPT !.covered = covered] BY <1>3 DEF covered
  <2> QED BY <2>1, <2>2 DEF Untouched, Touches
<1>10. LoTyped'
  <2>1. lookup' \in Lookups BY <1>2, <1>3, <1>5, <1>8 DEF Lookups
  <2>2. touched' \in Touches BY <1>17
  <2>3. VtTyped' BY <1>1, <1>9 DEF LoTyped, VtTyped
  <2> QED BY <1>1, <2>1, <2>2, <2>3 DEF LoTyped
<1>11. /\ Facts(lookup.loc)' = Facts(lookup.loc)
       /\ Traverse(lookup.loc.tag)' = Traverse(lookup.loc.tag)
       /\ Scoped(lookup.loc)' <=> Scoped(lookup.loc)
  BY <1>7, ScreenStays
<1>12. ScopeIs' BY <1>1, <1>11 DEF ScopeIs
<1>13. StepIs' BY <1>1, <1>4, <1>7 DEF StepIs, Settled
<1>14. AnswerIs'
  <2>1. r.code = "ok" => r.el \in Elements /\ r.handle[1] = r.el /\ Agrees(r)' /\ viewModule' # "absent"
    <3> SUFFICES ASSUME r.code = "ok"
                 PROVE  r.el \in Elements /\ r.handle[1] = r.el /\ Agrees(r)' /\ viewModule' # "absent"
      OBVIOUS
    <3>1. r.el \in Elements /\ screen[r.el].there /\ r = ElementInfo(r.el) BY DEF Agrees
    <3>2. r.handle = <<r.el, screen[r.el].mounts>> BY <1>1, <3>1, InfoIs DEF LoTyped
    <3>3. Agrees(r)' BY <1>9, <3>1 DEF Agrees, ElementInfo, HandleOf
    <3> QED BY <1>9, <3>1, <3>2, <3>3
  <2>2. next \in Answered => next \in {"capturing", "tap", "fill"} BY <1>4 DEF Answered
  <2>3. next = "fill" => Traverse(lookup.loc.tag)' = {r.el} BY <1>4, <1>11
  <2>4. lookup'.info = r /\ lookup'.step = next BY <1>7
  <2>5. Agrees(lookup.info)' <=> Agrees(r)' BY <2>4 DEF Agrees
  <2>6. next = "tap" /\ Covered(lookup.info.el)' => touched'.covered
    <3>1. Covered(r.el)' = Covered(r.el) BY <1>9 DEF Covered, Covers, Centre
    <3>2. Covered(lookup.info.el)' = Covered(r.el)' BY <2>4 DEF Covered, Covers, Centre
    <3> QED BY <1>4, <1>17, <3>1, <3>2
  <2> QED BY <1>4, <1>7, <1>11, <2>1, <2>2, <2>3, <2>4, <2>5, <2>6 DEF AnswerIs
<1>15. TouchIs' BY <1>4, <1>7, <1>17 DEF TouchIs, ActionLands
<1>16. SeenIs'
  <2>1. Facts(lookup.loc)' \subseteq seen' BY <1>1, <1>11 DEF SeenIs
  <2>2. next \in {"tap", "fill"} /\ ~scope.drifted => "actionable" \in seen
    <3> SUFFICES ASSUME next \in {"tap", "fill"}, ~scope.drifted PROVE "actionable" \in seen
      OBVIOUS
    <3>1. r.code = "ok" /\ r.visible /\ r.enabled BY <1>4
    <3>2. Tells(r, seen) BY <3>1 DEF Failed
    <3> QED BY <3>1, <3>2 DEF Tells
  <2>3. LocatorTold'
    <3> SUFFICES ASSUME next = "resolved", ~scope.drifted PROVE LocatorTold'
      BY <1>7 DEF LocatorTold
    <3>1. Right(lookup'.op, lookup'.value, seen', unheard') BY <1>6, <1>7
    <3> QED BY <3>1 DEF LocatorTold, Right
  <2> QED BY <1>4, <1>7, <2>1, <2>2, <2>3 DEF SeenIs
<1> QED BY <1>10, <1>12, <1>13, <1>14, <1>15, <1>16 DEF LoInv

(* Facts that hold now are facts seen.                                       *)
LEMMA TellsSeen ==
  ASSUME NEW r, NEW now, NEW facts, now \subseteq facts, Tells(r, now)
  PROVE  Tells(r, facts)
BY DEF Tells

LEMMA LoInvQuery ==
  ASSUME LoInv, QueryAnswers, UNCHANGED lookups
  PROVE  LoInv'
<1> DEFINE r == Query(lookup.loc)
<1>1. LoTyped /\ ScopeIs /\ StepIs /\ SeenIs BY DEF LoInv
<1>2. /\ lookup.step = "query" /\ Decides(r)
      /\ UNCHANGED <<scope, baseline, seen, unheard, vtVars>>
  BY DEF QueryAnswers
<1>3. ~Settled BY <1>2 DEF Settled
<1>4. VtTyped /\ unheard \in BOOLEAN BY <1>1 DEF LoTyped
<1>5. /\ r \in Infos
      /\ r.code = "ok" => Agrees(r) /\ viewModule # "absent"
      /\ r.code = "ok" /\ lookup.loc.within = "" /\ lookup.loc.index = {}
           => Traverse(lookup.loc.tag) = {r.el}
      /\ (lookup.loc.within # "" => Scoped(lookup.loc)) => Tells(r, Facts(lookup.loc))
  BY <1>4, QueryTells
<1>6. lookup.op = "fill" => lookup.loc.within = "" /\ lookup.loc.index = {}
  BY <1>1, <1>3 DEF StepIs
<1>7. lookup.loc.within # "" /\ ~scope.drifted => Scoped(lookup.loc)
  BY <1>1, <1>2 DEF StepIs, ScopeIs
<1>8. Facts(lookup.loc) \subseteq seen BY <1>1, <1>3 DEF SeenIs
<1> HIDE DEF r
<1>9. ~scope.drifted => Tells(r, seen) BY <1>5, <1>7, <1>8, TellsSeen
<1>10. unheard' \in BOOLEAN BY <1>2, <1>4
<1> QED BY <1>2, <1>3, <1>5, <1>6, <1>9, <1>10, DecidesKeeps

LEMMA LoInvParent ==
  ASSUME LoInv, ParentAnswers, UNCHANGED lookups
  PROVE  LoInv'
<1> DEFINE l == lookup.loc
           r == FindSingle(l.within)
<1>1. LoTyped /\ ScopeIs /\ StepIs /\ AnswerIs /\ TouchIs /\ SeenIs BY DEF LoInv
<1>2. lookup.step = "parent" /\ UNCHANGED <<baseline, seen, unheard, vtVars>>
  BY DEF ParentAnswers
<1>3. ~Settled /\ l.within # "" BY <1>1, <1>2 DEF Settled, StepIs
<1>4. VtTyped /\ unheard \in BOOLEAN /\ lookup \in Lookups BY <1>1 DEF LoTyped
<1>5. lookup.op # "fill" BY <1>1, <1>3 DEF StepIs
<1>6. Facts(l) \subseteq seen BY <1>1, <1>3 DEF SeenIs
<1>7. CASE NoViews # "none"
  <2>1. r = Failed(NoViews) BY <1>7 DEF FindSingle
  <2>2. r \in Infos /\ r.code # "ok" /\ Tells(r, Facts(l))
    <3> HIDE DEF r
    <3> QED BY <1>4, <1>7, <2>1, NoViewsTells
  <2>3. Decides(r) /\ UNCHANGED scope BY <2>2 DEF ParentAnswers
  <2> HIDE DEF r
  <2>4. Tells(r, seen) BY <1>6, <2>2, TellsSeen
  <2> QED BY <1>2, <1>3, <1>4, <2>2, <2>3, <2>4, DecidesKeeps
<1>8. CASE NoViews = "none"
  <2>1. /\ r \in Infos /\ r.code \in {"ok", "NOT_FOUND", "MULTIPLE_FOUND"}
        /\ r.code = "ok" => Agrees(r) /\ Traverse(l.within) = {r.el}
        /\ r.code = "NOT_FOUND" => Traverse(l.within) = {}
        /\ r.code = "MULTIPLE_FOUND" => Cardinality(Traverse(l.within)) > 1
    BY <1>4, <1>8, FindSingleIs
  <2>2. activity /\ viewModule # "absent" BY <1>4, <1>8, NoViewsIs
  <2>3. CASE r.code # "ok"
    <3>1. ParentOf(l) = {}
      <4> SUFFICES ASSUME NEW p \in ParentOf(l) PROVE FALSE OBVIOUS
      <4>1. Traverse(l.within) = {p} BY DEF ParentOf
      <4>2. Cardinality(Traverse(l.within)) = 1 BY <4>1, FS_Singleton
      <4> QED BY <2>1, <2>3, <4>1, <4>2
    <3>2. Denoted(l) = {} BY <1>3, <3>1 DEF Denoted
    <3>3. "detached" \in Facts(l) BY <2>2, <3>2, NothingFacts
    <3>4. Decides(r) /\ UNCHANGED scope BY <2>3 DEF ParentAnswers
    <3> HIDE DEF r
    <3>5. Tells(r, seen) BY <1>6, <2>1, <2>3, <3>3 DEF Tells
    <3> QED BY <1>2, <1>3, <1>4, <2>1, <2>3, <3>4, <3>5, DecidesKeeps
  <2>4. CASE r.code = "ok"
    <3>1. /\ scope' = [known |-> TRUE, at |-> r.at, tall |-> Heights[r.el], drifted |-> FALSE]
          /\ lookup' = [lookup EXCEPT !.step = "query"] /\ UNCHANGED touched
      BY <2>4 DEF ParentAnswers, Moves
    <3>2. r.el \in Elements /\ r = ElementInfo(r.el) /\ Traverse(l.within) = {r.el}
      BY <2>1, <2>4 DEF Agrees
    <3>3. r.at = screen[r.el].at /\ r.at \in 0..Bottom BY <1>4, <2>1, <3>2, InfoIs DEF Infos
    <3>4. Heights[r.el] \in Nat BY <3>2, ScreenBounds
    <3>5. r.el \in ParentOf(l) BY <3>2 DEF ParentOf
    <3> HIDE DEF r
    <3>6. UNCHANGED <<screen, activity, viewModule, changes>> BY <1>2 DEF vtVars
    <3>7. /\ lookup'.op = lookup.op /\ lookup'.loc = l /\ lookup'.step = "query"
          /\ lookup'.info = lookup.info /\ lookup'.value = lookup.value
      BY <1>4, <3>1 DEF Lookups
    <3>8. LoTyped'
      <4>1. lookup' \in Lookups BY <1>4, <3>1 DEF Lookups, LookupSteps
      <4>2. scope' \in Scopes BY <3>1, <3>3, <3>4 DEF Scopes
      <4>3. VtTyped' BY <1>4, <3>6 DEF VtTyped
      <4> QED BY <1>1, <1>2, <3>1, <4>1, <4>2, <4>3 DEF LoTyped
    <3>9. Facts(l)' = Facts(l) BY <1>2, <3>7, ScreenStays
    <3>10. ParentOf(l)' = ParentOf(l) BY <3>6, <3>7 DEF ParentOf, Traverse
    <3>11. Scoped(l)'
      <4>1. scope'.at = screen'[r.el].at /\ scope'.tall = Heights[r.el] BY <3>1, <3>3, <3>6
      <4> QED BY <3>5, <3>10, <4>1 DEF Scoped
    <3>12. ScopeIs' BY <3>1, <3>7, <3>11 DEF ScopeIs
    <3>13. StepIs' BY <1>1, <1>5, <3>1, <3>7 DEF StepIs
    <3>14. AnswerIs' BY <3>7 DEF AnswerIs, Answered
    <3>15. TouchIs' BY <1>1, <1>3, <3>1, <3>6, <3>7 DEF TouchIs, ActionLands
    <3>16. SeenIs' BY <1>2, <1>6, <3>7, <3>9 DEF SeenIs, LocatorTold
    <3> QED BY <3>8, <3>12, <3>13, <3>14, <3>15, <3>16 DEF LoInv
  <2> QED BY <2>3, <2>4
<1> QED BY <1>7, <1>8

(* A step that keeps the answer: to a poll, to another way to act, or to the *)
(* end of the call.                                                          *)
LEMMA MovesKeeps ==
  ASSUME LoInv, ~Settled,
         NEW s \in {"parent", "query", "pointing", "bounds", "resolved", "rejected"}, Moves(s),
         UNCHANGED <<lookups, scope, seen, vtVars>>,
         baseline' \in 0..(Len(Tags) + 1), touched' \in Touches, unheard' \in BOOLEAN,
         s = "parent" => lookup.loc.within # "",
         s = "query" /\ lookup.loc.within # "" => scope.known,
         s = "pointing" => lookup.step = "tap" /\ viewModule = "tapless",
         s = "bounds" => lookup.step = "capturing",
         s \notin {"resolved", "rejected"} => touched' = touched,
         touched'.by = "none" => touched'.hit,
         ~touched'.hit => touched'.disturbed \/ touched'.covered,
         touched'.by = "point" => viewModule = "tapless",
         s = "resolved" => /\ lookup.op \in Acts \union Shots /\ touched'.by # "none"
                           /\ lookup.op \in Acts /\ ~scope.drifted => "actionable" \in seen
  PROVE  LoInv'
<1>1. LoTyped /\ ScopeIs /\ StepIs /\ AnswerIs /\ TouchIs /\ SeenIs BY DEF LoInv
<1>2. lookup \in Lookups /\ VtTyped BY <1>1 DEF LoTyped
<1>3. lookup' = [lookup EXCEPT !.step = s] BY DEF Moves
<1>4. /\ lookup'.op = lookup.op /\ lookup'.loc = lookup.loc /\ lookup'.step = s
      /\ lookup'.info = lookup.info /\ lookup'.value = lookup.value
  BY <1>2, <1>3 DEF Lookups
<1>5. UNCHANGED <<screen, activity, viewModule, changes>> BY DEF vtVars
<1>6. LoTyped'
  <2>1. s \in LookupSteps BY DEF LookupSteps
  <2>2. lookup' \in Lookups BY <1>2, <1>3, <2>1 DEF Lookups
  <2>3. VtTyped' BY <1>2, <1>5 DEF VtTyped
  <2> QED BY <1>1, <2>2, <2>3 DEF LoTyped
<1>7. /\ Facts(lookup.loc)' = Facts(lookup.loc)
      /\ Traverse(lookup.loc.tag)' = Traverse(lookup.loc.tag)
      /\ Scoped(lookup.loc)' <=> Scoped(lookup.loc)
  BY <1>4, ScreenStays
<1>8. ScopeIs' BY <1>1, <1>7 DEF ScopeIs
<1>9. StepIs'
  <2>1. s = "pointing" => lookup.op = "tap" BY <1>1 DEF StepIs
  <2>2. s = "bounds" => lookup.op \in Shots BY <1>1 DEF StepIs
  <2> QED BY <1>1, <1>4, <2>1, <2>2 DEF StepIs, Settled
<1>10. AnswerIs'
  <2>1. s \in Answered => s \in {"pointing", "bounds"} BY DEF Answered
  <2>2. Agrees(lookup.info) => Agrees(lookup.info)'
    BY <1>4, <1>5 DEF Agrees, ElementInfo, HandleOf
  <2>3. s \in {"pointing", "bounds"} =>
          /\ lookup.info.code = "ok" /\ lookup.info.el \in Elements
          /\ lookup.info.handle[1] = lookup.info.el /\ viewModule # "absent"
    BY <1>1 DEF AnswerIs, Answered
  <2>4. s = "pointing" => /\ lookup.info.visible /\ lookup.info.enabled
                          /\ ~touched.disturbed => Agrees(lookup.info)
                          /\ ~touched.disturbed /\ Covered(lookup.info.el) => touched.covered
    BY <1>1 DEF AnswerIs, Answered
  <2>5. Covered(lookup.info.el)' = Covered(lookup.info.el)
    BY <1>4, <1>5 DEF Covered, Covers, Centre
  <2> QED BY <1>4, <1>5, <2>1, <2>2, <2>3, <2>4, <2>5 DEF AnswerIs
<1>11. TouchIs' BY <1>1, <1>4, <1>5 DEF TouchIs, ActionLands, Settled
<1>12. SeenIs'
  <2>1. Facts(lookup.loc)' \subseteq seen' BY <1>1, <1>7 DEF SeenIs
  <2>2. s = "pointing" /\ ~scope.drifted => "actionable" \in seen BY <1>1 DEF SeenIs
  <2>3. LocatorTold'
    <3> SUFFICES ASSUME s = "resolved", ~scope.drifted PROVE LocatorTold'
      BY <1>4 DEF LocatorTold
    <3>1. lookup.op \in {"tap", "fill", "screenshot", "toMatchSnapshot"} BY DEF Acts, Shots
    <3> QED BY <1>4, <3>1 DEF LocatorTold, Waits
  <2> QED BY <1>4, <2>1, <2>2, <2>3 DEF SeenIs
<1> QED BY <1>6, <1>8, <1>9, <1>10, <1>11, <1>12 DEF LoInv

(* What MovesKeeps asks of a step that leaves what was touched alone.        *)
LEMMA AloneKeeps ==
  ASSUME LoInv, ~Settled, UNCHANGED <<baseline, touched>>
  PROVE  /\ baseline' \in 0..(Len(Tags) + 1) /\ touched' \in Touches
         /\ touched'.by = "none" /\ touched'.hit
<1>1. LoTyped /\ TouchIs BY DEF LoInv
<1> QED BY <1>1 DEF LoTyped, TouchIs

LEMMA LoInvFails ==
  ASSUME LoInv, EvaluateFails, UNCHANGED lookups
  PROVE  LoInv'
<1>1. /\ lookup.step \in {"parent", "query", "tap", "fill", "capturing"}
      /\ unheard' = TRUE /\ UNCHANGED <<scope, baseline, seen, vtVars>>
  BY DEF EvaluateFails
<1>2. ~Settled BY <1>1 DEF Settled
<1>3. CASE lookup.op \in Asserts \ {"toBeAttached"}
  <2>1. Decides(Failed("NOT_FOUND")) BY <1>3 DEF EvaluateFails
  <2>2. Failed("NOT_FOUND") \in Infos /\ Failed("NOT_FOUND").code = "NOT_FOUND"
    BY FailureIs DEF Codes
  <2>3. unheard' \in BOOLEAN BY <1>1
  <2> QED BY <1>1, <1>2, <1>3, <2>1, <2>2, <2>3, DecidesKeeps
<1>4. CASE lookup.op \notin Asserts \ {"toBeAttached"}
  <2>1. Moves("rejected") /\ UNCHANGED touched BY <1>4 DEF EvaluateFails
  <2>2. unheard' \in BOOLEAN BY <1>1
  <2> QED BY <1>1, <1>2, <2>1, <2>2, AloneKeeps, MovesKeeps
<1> QED BY <1>3, <1>4

LEMMA LoInvPolls ==
  ASSUME LoInv, Polls \/ Expires, UNCHANGED lookups
  PROVE  LoInv'
<1>1. lookup.step = "asleep" /\ UNCHANGED <<scope, baseline, touched, seen, unheard, vtVars>>
  BY DEF Polls, Expires, histories
<1>2. ~Settled BY <1>1 DEF Settled
<1>3. unheard' \in BOOLEAN BY <1>1 DEF LoInv, LoTyped
<1>4. CASE Expires
  <2>1. Moves("rejected") BY <1>4 DEF Expires
  <2> QED BY <1>1, <1>2, <1>3, <2>1, AloneKeeps, MovesKeeps
<1>5. CASE Polls
  <2> DEFINE s == Asking(lookup.loc, scope)
  <2>1. Moves(s) BY <1>5 DEF Polls
  <2>2. /\ s \in {"parent", "query"}
        /\ s = "parent" => lookup.loc.within # ""
        /\ s = "query" /\ lookup.loc.within # "" => scope.known
    BY DEF Asking
  <2> HIDE DEF s
  <2> QED BY <1>1, <1>2, <1>3, <2>1, <2>2, AloneKeeps, MovesKeeps
<1> QED BY <1>4, <1>5

(* What a step that touches the element leaves.                              *)
LEMMA ReachesIs ==
  ASSUME LoInv, ~Settled, NEW by \in {"handle", "point", "fill", "region"}, NEW hit \in BOOLEAN,
         Reaches(by, hit), ~touched.disturbed /\ ~touched.covered => hit
  PROVE  /\ touched' \in Touches /\ touched'.by = by /\ touched'.hit = hit
         /\ ~touched'.hit => touched'.disturbed \/ touched'.covered
<1>1. touched \in Touches BY DEF LoInv, LoTyped
<1>2. touched' = [touched EXCEPT !.by = by, !.hit = hit] BY DEF Reaches
<1>3. by \in {"none", "handle", "point", "fill", "region"} OBVIOUS
<1>4. /\ touched'.by = by /\ touched'.hit = hit /\ touched'.disturbed = touched.disturbed
      /\ touched'.covered = touched.covered
  BY <1>1, <1>2 DEF Touches
<1>5. touched' \in Touches BY <1>1, <1>2, <1>3 DEF Touches
<1> QED BY <1>4, <1>5

LEMMA AgreesIs ==
  ASSUME VtTyped, NEW r, Agrees(r)
  PROVE  /\ OnScreen(r.handle) /\ r.handle[1] = r.el /\ r.at = screen[r.el].at
         /\ r.visible = screen[r.el].visible /\ r.enabled = screen[r.el].enabled
<1>1. r.el \in Elements /\ screen[r.el].there /\ r = ElementInfo(r.el) BY DEF Agrees
<1>2. r.handle = <<r.el, screen[r.el].mounts>> /\ r.at = screen[r.el].at
      /\ r.visible = screen[r.el].visible /\ r.enabled = screen[r.el].enabled
  BY <1>1, InfoIs
<1>3. r.handle[1] = r.el BY <1>2
<1> QED BY <1>1, <1>2, <1>3 DEF OnScreen, HandleOf

(* A touch at the centre of a view that can be tapped and lies in front goes *)
(* to that view.                                                             *)
LEMMA FrontTakes ==
  ASSUME VtTyped, NEW e \in Elements, screen[e].there, screen[e].visible, screen[e].enabled,
         ~Covered(e)
  PROVE  Takers(Centre(e)) = {e}
<1> DEFINE y == Centre(e)
<1>1. Heights[e] \in Nat \ {0} /\ screen[e].at \in Int BY ScreenBounds DEF VtTyped, Views
<1>2. screen[e].at <= y /\ y < screen[e].at + Heights[e] BY <1>1 DEF Centre
<1> HIDE DEF y
<1>3. Covers(e, y) BY <1>2 DEF Covers
<1>4. \A d \in Elements : d > e => ~Covers(d, y) BY DEF Covered, y
<1>5. \A d \in Elements : Covers(d, y) /\ d # e => e > d
  BY <1>4, ElementsAre
<1>6. Takers(y) = {e}
  <2> DEFINE takers == {d \in Elements : Covers(d, y) /\ \A f \in Elements : f > d /\ Covers(f, y)
                                                          => ~screen[f].enabled}
  <2>1. e \in takers BY <1>3, <1>4
  <2>2. \A d \in takers : d = e BY <1>3, <1>5
  <2>3. takers = {e} BY <2>1, <2>2
  <2>4. Takers(y) = IF takers = {} THEN {0} ELSE takers BY DEF Takers
  <2> QED BY <2>3, <2>4
<1> QED BY <1>6 DEF y

(* What a touch at the centre of an element comes to that is as it was found *)
(* and lies in front.                                                        *)
LEMMA TouchLands ==
  ASSUME VtTyped, NEW r, Agrees(r), r.visible, r.enabled, ~Covered(r.el)
  PROVE  /\ Takers(Centre(r.el)) = {r.el} /\ NativeLandings(r.handle) = {r.el}
         /\ Takers(r.at + Heights[r.el] \div 2) = {r.el}
<1>1. /\ OnScreen(r.handle) /\ r.handle[1] = r.el /\ r.at = screen[r.el].at
      /\ screen[r.el].visible /\ screen[r.el].enabled
  BY AgreesIs
<1>2. r.el \in Elements /\ screen[r.el].there BY DEF Agrees
<1>3. Takers(Centre(r.el)) = {r.el} BY <1>1, <1>2, FrontTakes
<1>4. NativeLandings(r.handle) = {r.el} BY <1>1, <1>3 DEF NativeLandings
<1>5. r.at + Heights[r.el] \div 2 = Centre(r.el) BY <1>1 DEF Centre
<1> QED BY <1>3, <1>4, <1>5

LEMMA LoInvTaps ==
  ASSUME LoInv, Taps, UNCHANGED lookups
  PROVE  LoInv'
<1>1. LoTyped /\ StepIs /\ AnswerIs /\ SeenIs BY DEF LoInv
<1>2. lookup.step = "tap" /\ UNCHANGED <<scope, baseline, seen, unheard, vtVars>> BY DEF Taps
<1>3. ~Settled /\ lookup.op = "tap" BY <1>1, <1>2 DEF Settled, StepIs
<1>4. VtTyped /\ unheard' \in BOOLEAN /\ baseline' \in 0..(Len(Tags) + 1)
  BY <1>1, <1>2 DEF LoTyped
<1>5. /\ viewModule # "absent" /\ (~touched.disturbed => Agrees(lookup.info))
      /\ lookup.info.visible /\ lookup.info.enabled
      /\ ~touched.disturbed /\ Covered(lookup.info.el) => touched.covered
      /\ ~scope.drifted => "actionable" \in seen
  BY <1>1, <1>2 DEF AnswerIs, Answered, SeenIs
<1>6. PICK code \in NativeTap(lookup.info.handle) :
        \/ /\ code = "ok" /\ Moves("resolved")
           /\ \E landed \in NativeLandings(lookup.info.handle) :
                Reaches("handle", landed = lookup.info.el)
        \/ code # "ok" /\ ~FallsBack(code) /\ Moves("rejected") /\ UNCHANGED touched
        \/ FallsBack(code) /\ Moves("pointing") /\ UNCHANGED touched
  BY DEF Taps
<1>7. ASSUME Moves("resolved"), NEW landed \in NativeLandings(lookup.info.handle),
             Reaches("handle", landed = lookup.info.el)
      PROVE  LoInv'
  <2> DEFINE hit == landed = lookup.info.el
  <2>1. hit \in BOOLEAN OBVIOUS
  <2>2. ~touched.disturbed /\ ~touched.covered => hit
    <3> SUFFICES ASSUME ~touched.disturbed, ~touched.covered PROVE landed = lookup.info.el
      OBVIOUS
    <3>1. NativeLandings(lookup.info.handle) = {lookup.info.el} BY <1>4, <1>5, TouchLands
    <3> QED BY <1>7, <3>1
  <2>5. Reaches("handle", hit) BY <1>7
  <2> HIDE DEF hit
  <2>3. /\ touched' \in Touches /\ touched'.by = "handle"
        /\ ~touched'.hit => touched'.disturbed \/ touched'.covered
    BY <1>3, <2>1, <2>2, <2>5, ReachesIs
  <2>4. lookup.op \in Acts \union Shots BY <1>3 DEF Acts
  <2> QED BY <1>2, <1>3, <1>4, <1>5, <1>7, <2>3, <2>4, MovesKeeps
<1>8. CASE code # "ok" /\ ~FallsBack(code) /\ Moves("rejected") /\ UNCHANGED touched
  BY <1>2, <1>3, <1>4, <1>8, AloneKeeps, MovesKeeps
<1>9. CASE FallsBack(code) /\ Moves("pointing") /\ UNCHANGED touched
  <2>1. viewModule # "whole" BY <1>6, <1>9 DEF NativeTap, FallsBack
  <2>2. viewModule = "tapless" BY <1>4, <1>5, <2>1 DEF VtTyped
  <2> QED BY <1>2, <1>3, <1>4, <1>9, <2>2, AloneKeeps, MovesKeeps
<1> QED BY <1>6, <1>7, <1>8, <1>9

LEMMA LoInvPoints ==
  ASSUME LoInv, PointsAt, UNCHANGED lookups
  PROVE  LoInv'
<1> DEFINE e == lookup.info.el
           y == lookup.info.at + Heights[e] \div 2
<1>1. LoTyped /\ StepIs /\ AnswerIs /\ SeenIs BY DEF LoInv
<1>2. /\ lookup.step = "pointing" /\ UNCHANGED <<scope, baseline, seen, unheard, vtVars>>
      /\ \/ Moves("rejected") /\ UNCHANGED touched
         \/ /\ Moves("resolved")
            /\ \E landed \in Takers(y) : Reaches("point", OnScreen(lookup.info.handle) /\ landed = e)
  BY DEF PointsAt
<1>3. ~Settled /\ lookup.op = "tap" BY <1>1, <1>2 DEF Settled, StepIs
<1>4. VtTyped /\ unheard' \in BOOLEAN /\ baseline' \in 0..(Len(Tags) + 1)
  BY <1>1, <1>2 DEF LoTyped
<1>5. /\ viewModule = "tapless" /\ (~touched.disturbed => Agrees(lookup.info))
      /\ lookup.info.visible /\ lookup.info.enabled
      /\ ~touched.disturbed /\ Covered(e) => touched.covered
      /\ ~scope.drifted => "actionable" \in seen
  BY <1>1, <1>2 DEF AnswerIs, Answered, SeenIs
<1>6. CASE Moves("rejected") /\ UNCHANGED touched
  BY <1>2, <1>3, <1>4, <1>6, AloneKeeps, MovesKeeps
<1>7. ASSUME Moves("resolved"), NEW landed \in Takers(y),
             Reaches("point", OnScreen(lookup.info.handle) /\ landed = e)
      PROVE  LoInv'
  <2> DEFINE hit == OnScreen(lookup.info.handle) /\ landed = e
  <2>1. hit \in BOOLEAN OBVIOUS
  <2>2. ~touched.disturbed /\ ~touched.covered => hit
    <3> SUFFICES ASSUME ~touched.disturbed, ~touched.covered PROVE hit OBVIOUS
    <3>1. Agrees(lookup.info) /\ ~Covered(e) BY <1>5
    <3>2. OnScreen(lookup.info.handle) BY <1>4, <3>1, AgreesIs
    <3>3. Takers(y) = {e} BY <1>4, <1>5, <3>1, TouchLands
    <3> QED BY <1>7, <3>2, <3>3
  <2>5. Reaches("point", hit) BY <1>7
  <2> HIDE DEF hit
  <2>3. /\ touched' \in Touches /\ touched'.by = "point"
        /\ ~touched'.hit => touched'.disturbed \/ touched'.covered
    BY <1>3, <2>1, <2>2, <2>5, ReachesIs
  <2>4. lookup.op \in Acts \union Shots BY <1>3 DEF Acts
  <2> QED BY <1>2, <1>3, <1>4, <1>5, <1>7, <2>3, <2>4, MovesKeeps
<1> QED BY <1>2, <1>6, <1>7

LEMMA LoInvFills ==
  ASSUME LoInv, FillsInput, UNCHANGED lookups
  PROVE  LoInv'
<1> DEFINE inputs == Traverse(lookup.loc.tag) \intersect Inputs
           hit == lookup.info.el \in Nth(inputs, 1)
<1>1. LoTyped /\ StepIs /\ AnswerIs /\ SeenIs BY DEF LoInv
<1>2. /\ lookup.step = "fill" /\ UNCHANGED <<scope, baseline, seen, unheard, vtVars>>
      /\ \/ Moves("rejected") /\ UNCHANGED touched
         \/ inputs # {} /\ Moves("resolved") /\ Reaches("fill", hit)
  BY DEF FillsInput
<1>3. ~Settled /\ lookup.op = "fill" BY <1>1, <1>2 DEF Settled, StepIs
<1>4. unheard' \in BOOLEAN /\ baseline' \in 0..(Len(Tags) + 1)
  BY <1>1, <1>2 DEF LoTyped
<1>5. /\ ~touched.disturbed => Traverse(lookup.loc.tag) = {lookup.info.el}
      /\ lookup.info.el \in Elements /\ (~scope.drifted => "actionable" \in seen)
  BY <1>1, <1>2 DEF AnswerIs, Answered, SeenIs
<1>6. CASE Moves("rejected") /\ UNCHANGED touched
  BY <1>2, <1>3, <1>4, <1>6, AloneKeeps, MovesKeeps
<1>7. CASE inputs # {} /\ Moves("resolved") /\ Reaches("fill", hit)
  <2>1. hit \in BOOLEAN OBVIOUS
  <2>2. ASSUME ~touched.disturbed PROVE hit
    <3>1. inputs = {lookup.info.el} BY <1>5, <1>7, <2>2
    <3> QED BY <1>5, <3>1, AtOnly
  <2> HIDE DEF hit, inputs
  <2>3. /\ touched' \in Touches /\ touched'.by = "fill"
        /\ ~touched'.hit => touched'.disturbed \/ touched'.covered
    BY <1>3, <1>7, <2>1, <2>2, ReachesIs
  <2>4. lookup.op \in Acts \union Shots BY <1>3 DEF Acts
  <2> QED BY <1>2, <1>3, <1>4, <1>5, <1>7, <2>3, <2>4, MovesKeeps
<1> QED BY <1>2, <1>6, <1>7

(* A picture of the element, or of whatever is there instead.                *)
LEMMA PicturedKeeps ==
  ASSUME LoInv, ~Settled, lookup.op \in Shots, lookup.info.el \in Elements,
         NEW by \in {"handle", "region"}, NEW hit \in BOOLEAN, NEW update \in BOOLEAN,
         Pictured(by, hit, update), ~touched.disturbed => hit,
         UNCHANGED <<lookups, scope, seen, unheard, vtVars>>
  PROVE  LoInv'
<1> DEFINE e == IF hit THEN lookup.info.el ELSE Len(Tags) + 1
<1>1. LoTyped BY DEF LoInv
<1>2. unheard' \in BOOLEAN /\ baseline \in 0..(Len(Tags) + 1) BY <1>1 DEF LoTyped
<1>3. e \in 0..(Len(Tags) + 1) BY ElementsAre DEF Elements
<1>4. /\ Reaches(by, hit)
      /\ \/ Moves("resolved") /\ UNCHANGED baseline
         \/ Moves("resolved") /\ baseline' = e
         \/ Moves("rejected") /\ UNCHANGED baseline
  BY DEF Pictured
<1>5. baseline' \in 0..(Len(Tags) + 1) BY <1>2, <1>3, <1>4
<1>6. /\ touched' \in Touches /\ touched'.by = by
      /\ ~touched'.hit => touched'.disturbed \/ touched'.covered
  BY <1>4, ReachesIs
<1>7. lookup.op \in Acts \union Shots /\ lookup.op \notin Acts BY DEF Acts, Shots
<1>8. PICK s \in {"resolved", "rejected"} : Moves(s) BY <1>4
<1> QED BY <1>2, <1>5, <1>6, <1>7, <1>8, MovesKeeps

LEMMA LoInvCaptures ==
  ASSUME LoInv, Captures \/ CapturesRegion, UNCHANGED lookups
  PROVE  LoInv'
<1>1. LoTyped /\ StepIs /\ AnswerIs BY DEF LoInv
<1>2. lookup.step \in {"capturing", "region"} /\ UNCHANGED <<scope, seen, unheard, vtVars>>
  BY DEF Captures, CapturesRegion
<1>3. ~Settled /\ lookup.op \in Shots BY <1>1, <1>2 DEF Settled, StepIs
<1>4. VtTyped /\ unheard' \in BOOLEAN BY <1>1, <1>2 DEF LoTyped
<1>5. lookup.info.el \in Elements /\ (~touched.disturbed => Agrees(lookup.info))
  BY <1>1, <1>2 DEF AnswerIs, Answered
<1>6. ~touched.disturbed => OnScreen(lookup.info.handle)
                            /\ lookup.info.at = screen[lookup.info.el].at
  BY <1>4, <1>5, AgreesIs
<1>7. OnScreen(lookup.info.handle) \in BOOLEAN BY DEF OnScreen
<1>8. CASE Moves("rejected") /\ UNCHANGED <<touched, baseline>>
  BY <1>2, <1>3, <1>4, <1>8, AloneKeeps, MovesKeeps
<1>9. CASE lookup.step = "capturing" /\ Moves("bounds") /\ UNCHANGED <<touched, baseline>>
  BY <1>2, <1>3, <1>4, <1>9, AloneKeeps, MovesKeeps
<1>10. ASSUME NEW update \in BOOLEAN, Pictured("handle", OnScreen(lookup.info.handle), update)
       PROVE  LoInv'
  BY <1>2, <1>3, <1>5, <1>6, <1>7, <1>10, PicturedKeeps
<1>11. ASSUME NEW update \in BOOLEAN,
              Pictured("region", OnScreen(lookup.info.handle)
                                 /\ screen[lookup.info.el].at = lookup.info.at, update)
       PROVE  LoInv'
  <2> DEFINE hit == OnScreen(lookup.info.handle) /\ screen[lookup.info.el].at = lookup.info.at
  <2>1. hit \in BOOLEAN /\ (~touched.disturbed => hit) BY <1>6
  <2>2. Pictured("region", hit, update) BY <1>11
  <2> HIDE DEF hit
  <2> QED BY <1>2, <1>3, <1>5, <2>1, <2>2, PicturedKeeps
<1> QED BY <1>8, <1>9, <1>10, <1>11 DEF Captures, CapturesRegion

LEMMA LoInvBounds ==
  ASSUME LoInv, GetsBounds, UNCHANGED lookups
  PROVE  LoInv'
<1> DEFINE e == lookup.info.el
<1>1. LoTyped /\ ScopeIs /\ StepIs /\ AnswerIs /\ TouchIs /\ SeenIs BY DEF LoInv
<1>2. lookup.step = "bounds" /\ UNCHANGED <<scope, baseline, seen, unheard, vtVars>>
  BY DEF GetsBounds
<1>3. ~Settled /\ lookup.op \in Shots BY <1>1, <1>2 DEF Settled, StepIs
<1>4. VtTyped /\ lookup \in Lookups /\ unheard' \in BOOLEAN BY <1>1, <1>2 DEF LoTyped
<1>5. e \in Elements /\ lookup.info.handle[1] = e /\ viewModule # "absent"
  BY <1>1, <1>2 DEF AnswerIs, Answered
<1>6. CASE Moves("rejected") /\ UNCHANGED touched
  BY <1>2, <1>3, <1>4, <1>6, AloneKeeps, MovesKeeps
<1>7. CASE /\ OnScreen(lookup.info.handle)
           /\ lookup' = [lookup EXCEPT !.step = "region", !.info = ElementInfo(e)]
           /\ touched' = Untouched
  <2>1. screen[e].there BY <1>5, <1>7 DEF OnScreen
  <2>2. PICK r : /\ r = ElementInfo(e) /\ r \in Infos /\ r.code = "ok"
                 /\ r.el = e /\ r.handle[1] = e
    BY <1>4, <1>5, InfoIs
  <2>3. Agrees(r) BY <1>5, <2>1, <2>2 DEF Agrees
  <2>4. lookup' = [lookup EXCEPT !.step = "region", !.info = r] BY <1>7, <2>2
  <2>5. UNCHANGED <<screen, activity, viewModule, changes>> BY <1>2 DEF vtVars
  <2>6. Agrees(r)' BY <2>3, <2>5 DEF Agrees, ElementInfo, HandleOf
  <2> HIDE DEF e
  <2>7. /\ lookup'.op = lookup.op /\ lookup'.loc = lookup.loc /\ lookup'.step = "region"
        /\ lookup'.info = r /\ lookup'.value = lookup.value
    BY <1>4, <2>4 DEF Lookups
  <2>8. LoTyped'
    <3>1. lookup' \in Lookups BY <1>4, <2>2, <2>4 DEF Lookups, LookupSteps
    <3>2. touched' \in Touches BY <1>7 DEF Untouched, Touches
    <3>3. VtTyped' BY <1>4, <2>5 DEF VtTyped
    <3> QED BY <1>1, <1>2, <3>1, <3>2, <3>3 DEF LoTyped
  <2>9. /\ Facts(lookup.loc)' = Facts(lookup.loc)
        /\ Scoped(lookup.loc)' <=> Scoped(lookup.loc)
    BY <1>2, <2>7, ScreenStays
  <2>10. ScopeIs' BY <1>1, <1>2, <2>9 DEF ScopeIs
  <2>11. StepIs' BY <1>1, <1>2, <1>3, <2>7 DEF StepIs, Settled
  <2>12. AnswerIs'
    <3>1. Agrees(lookup.info)'
      <4>1. Agrees(lookup.info)' <=> Agrees(r)' BY <2>7 DEF Agrees
      <4> QED BY <2>6, <4>1
    <3> QED BY <1>5, <2>2, <2>5, <2>7, <3>1 DEF AnswerIs
  <2>13. TouchIs' BY <1>7, <2>7 DEF TouchIs, ActionLands, Untouched
  <2>14. SeenIs' BY <1>1, <1>2, <1>3, <2>7, <2>9 DEF SeenIs, LocatorTold
  <2> QED BY <2>8, <2>10, <2>11, <2>12, <2>13, <2>14 DEF LoInv
<1> QED BY <1>6, <1>7 DEF GetsBounds

LEMMA LoInvStarts ==
  ASSUME LoInv, NEW op \in LocatorOps, NEW l \in Locs, StartsLookup(op, l)
  PROVE  LoInv'
<1> DEFINE sc == IF l = lookup.loc THEN scope ELSE NoScope
           s == IF op = "fill" /\ (l.index # {} \/ l.within # "") THEN "rejected" ELSE Asking(l, sc)
<1>1. LoTyped /\ ScopeIs BY DEF LoInv
<1>2. /\ Settled /\ lookups < MaxLookups /\ lookups' = lookups + 1
      /\ scope' = sc
      /\ lookup' = [lookup EXCEPT !.op = op, !.loc = l, !.info = Failed("NOT_FOUND"), !.step = s]
      /\ touched' = Untouched /\ seen' = Facts(l) /\ unheard' = FALSE
      /\ UNCHANGED <<baseline, vtVars>>
  BY DEF StartsLookup
<1>3. lookup \in Lookups /\ VtTyped BY <1>1 DEF LoTyped
<1>4. UNCHANGED <<screen, activity, viewModule, changes>> BY <1>2 DEF vtVars
<1>5. /\ s \in {"rejected", "parent", "query"}
      /\ s = "parent" => l.within # ""
      /\ s = "query" /\ l.within # "" => sc.known
      /\ op = "fill" /\ s # "rejected" => l.index = {} /\ l.within = ""
  BY DEF Asking
<1>6. sc \in Scopes
  <2>1. NoScope \in Scopes BY ScreenBounds DEF NoScope, Scopes
  <2> QED BY <1>1, <2>1 DEF LoTyped
<1>7. sc.known => l = lookup.loc /\ sc = scope BY DEF NoScope
<1>8. sc.drifted => sc.known BY <1>1 DEF NoScope, ScopeIs
<1> HIDE DEF s, sc
<1>9. Failed("NOT_FOUND") \in Infos BY FailureIs DEF Codes
<1>10. /\ lookup'.op = op /\ lookup'.loc = l /\ lookup'.step = s
       /\ lookup'.value = lookup.value
  BY <1>2, <1>3 DEF Lookups
<1>11. LoTyped'
  <2>1. s \in LookupSteps BY <1>5 DEF LookupSteps
  <2>2. lookup' \in Lookups BY <1>2, <1>3, <1>9, <2>1 DEF Lookups
  <2>3. VtTyped' BY <1>3, <1>4 DEF VtTyped
  <2>4. touched' \in Touches BY <1>2 DEF Untouched, Touches
  <2>5. lookups' \in 0..MaxLookups BY <1>1, <1>2, LocatorBounds DEF LoTyped
  <2>6. scope' \in Scopes /\ baseline' \in 0..(Len(Tags) + 1) /\ unheard' \in BOOLEAN
    BY <1>1, <1>2, <1>6 DEF LoTyped
  <2> QED BY <2>2, <2>3, <2>4, <2>5, <2>6 DEF LoTyped
<1>12. ScopeIs'
  <2>1. sc.known /\ ~sc.drifted => Scoped(lookup.loc)'
    <3> SUFFICES ASSUME sc.known, ~sc.drifted PROVE Scoped(lookup.loc)' OBVIOUS
    <3>1. lookup'.loc = lookup.loc /\ UNCHANGED scope BY <1>2, <1>7, <1>10
    <3>2. Scoped(lookup.loc) BY <1>1, <1>7 DEF ScopeIs
    <3> QED BY <1>2, <3>1, <3>2, ScreenStays
  <2> QED BY <1>2, <1>8, <2>1 DEF ScopeIs
<1>13. StepIs' BY <1>2, <1>5, <1>10 DEF StepIs, Settled
<1>14. AnswerIs' BY <1>5, <1>10 DEF AnswerIs, Answered
<1>15. TouchIs' BY <1>2, <1>5, <1>10 DEF TouchIs, ActionLands, Untouched
<1>16. SeenIs'
  <2>1. Facts(lookup.loc)' = Facts(l)
    BY <1>4, <1>10
       DEF Facts, Denoted, Traverse, ParentOf, Inside, At, Nth, Position, Ambiguous
  <2> QED BY <1>2, <1>5, <1>10, <2>1 DEF SeenIs, LocatorTold
<1> QED BY <1>11, <1>12, <1>13, <1>14, <1>15, <1>16 DEF LoInv

LEMMA VtTypedChanges ==
  ASSUME VtTyped, ScreenChanges
  PROVE  VtTyped' /\ UNCHANGED viewModule
<1>1. /\ changes' = changes + 1 /\ changes' \in 0..MaxChanges /\ UNCHANGED viewModule
      /\ changes \in Nat
  <2>1. changes < MaxChanges /\ changes' = changes + 1 /\ UNCHANGED viewModule BY DEF ScreenChanges
  <2>2. changes \in 0..MaxChanges BY DEF VtTyped
  <2> QED BY <2>1, <2>2, ScreenBounds
<1>2. CASE UNCHANGED screen
  <2>1. activity' \in BOOLEAN BY <1>2 DEF ScreenChanges, VtTyped
  <2>2. \A e \in Elements : screen'[e].mounts <= changes' + 1
    <3> SUFFICES ASSUME NEW e \in Elements PROVE screen'[e].mounts <= changes' + 1 OBVIOUS
    <3>1. screen[e].mounts \in Int /\ screen[e].mounts <= changes + 1
      BY ScreenBounds DEF VtTyped, Views
    <3> QED BY <1>1, <1>2, <3>1
  <2> QED BY <1>1, <1>2, <2>1, <2>2 DEF VtTyped
<1>3. ASSUME NEW e \in Elements, NEW view \in Views, view.mounts <= changes + 2,
             Alter(e, view), UNCHANGED activity
      PROVE  VtTyped'
  <2>1. screen' = [screen EXCEPT ![e] = view] BY <1>3 DEF Alter
  <2>2. screen' \in [Elements -> Views] BY <1>3, <2>1 DEF VtTyped
  <2>3. \A d \in Elements : screen'[d].mounts <= changes' + 1
    <3> SUFFICES ASSUME NEW d \in Elements PROVE screen'[d].mounts <= changes' + 1 OBVIOUS
    <3>1. screen[d].mounts \in Int /\ screen[d].mounts <= changes + 1 /\ view.mounts \in Int
      BY <1>3, ScreenBounds DEF VtTyped, Views
    <3>2. screen'[d] = IF d = e THEN view ELSE screen[d] BY <2>1 DEF VtTyped
    <3> QED BY <1>1, <1>3, <3>1, <3>2
  <2> QED BY <1>1, <1>3, <2>2, <2>3 DEF VtTyped
<1>4. ASSUME NEW e \in Elements, UNCHANGED activity,
             LET s == screen[e] IN
             \/ Alter(e, [s EXCEPT !.there = ~@, !.mounts = IF s.there THEN @ ELSE @ + 1])
             \/ s.there /\ \E y \in 0..Bottom \ {s.at} : Alter(e, [s EXCEPT !.at = y])
             \/ s.there /\ Alter(e, [s EXCEPT !.visible = ~@])
             \/ s.there /\ Alter(e, [s EXCEPT !.enabled = ~@])
      PROVE  VtTyped'
  <2> DEFINE s == screen[e]
  <2>1. /\ s \in Views /\ s.mounts \in 1..(MaxChanges + 1) /\ s.mounts <= changes + 1
        /\ s.there \in BOOLEAN /\ s.visible \in BOOLEAN /\ s.enabled \in BOOLEAN
    BY DEF VtTyped, Views
  <2> HIDE DEF s
  <2>2. CASE Alter(e, [s EXCEPT !.there = ~@, !.mounts = IF s.there THEN @ ELSE @ + 1])
    <3> DEFINE view == [s EXCEPT !.there = ~s.there,
                                 !.mounts = IF s.there THEN s.mounts ELSE s.mounts + 1]
    <3>1. (IF s.there THEN s.mounts ELSE s.mounts + 1) \in 1..(MaxChanges + 1)
      BY <1>1, <2>1, ScreenBounds
    <3>2. (~s.there) \in BOOLEAN OBVIOUS
    <3>3. view \in Views BY <2>1, <3>1, <3>2 DEF Views
    <3>4. view.mounts <= changes + 2 BY <1>1, <2>1 DEF Views
    <3> HIDE DEF view
    <3>5. Alter(e, view) BY <2>2 DEF view
    <3> QED BY <1>3, <1>4, <3>3, <3>4, <3>5
  <2>3. ASSUME NEW y \in 0..Bottom, Alter(e, [s EXCEPT !.at = y]) PROVE VtTyped'
    <3>1. [s EXCEPT !.at = y] \in Views BY <2>1 DEF Views
    <3>2. [s EXCEPT !.at = y].mounts <= changes + 2 BY <1>1, <2>1 DEF Views
    <3> QED BY <1>3, <1>4, <2>3, <3>1, <3>2
  <2>4. CASE Alter(e, [s EXCEPT !.visible = ~@])
    <3>1. (~s.visible) \in BOOLEAN OBVIOUS
    <3>2. [s EXCEPT !.visible = ~s.visible] \in Views BY <2>1, <3>1 DEF Views
    <3>3. [s EXCEPT !.visible = ~s.visible].mounts <= changes + 2 BY <1>1, <2>1 DEF Views
    <3> QED BY <1>3, <1>4, <2>4, <3>2, <3>3
  <2>5. CASE Alter(e, [s EXCEPT !.enabled = ~@])
    <3>1. (~s.enabled) \in BOOLEAN OBVIOUS
    <3>2. [s EXCEPT !.enabled = ~s.enabled] \in Views BY <2>1, <3>1 DEF Views
    <3>3. [s EXCEPT !.enabled = ~s.enabled].mounts <= changes + 2 BY <1>1, <2>1 DEF Views
    <3> QED BY <1>3, <1>4, <2>5, <3>2, <3>3
  <2> QED BY <1>4, <2>2, <2>3, <2>4, <2>5 DEF s
<1> QED BY <1>1, <1>2, <1>4 DEF ScreenChanges

LEMMA LoInvChanges ==
  ASSUME LoInv, ScreenChangesUnder
  PROVE  LoInv'
<1>1. LoTyped /\ ScopeIs /\ StepIs /\ AnswerIs /\ TouchIs /\ SeenIs BY DEF LoInv
<1>2. /\ ScreenChanges /\ UNCHANGED <<lookups, lookup, baseline, unheard>>
      /\ seen' = IF Settled THEN seen ELSE seen \union Facts(lookup.loc)'
      /\ touched' = IF touched.by = "none" THEN [touched EXCEPT !.disturbed = TRUE] ELSE touched
  BY DEF ScreenChangesUnder
<1>3. VtTyped' /\ UNCHANGED viewModule BY <1>1, <1>2, VtTypedChanges DEF LoTyped
<1> DEFINE gone == ~\E p \in ParentOf(lookup.loc)' : screen'[p].at = scope.at /\ Heights[p] = scope.tall
           drifted == scope.known /\ (scope.drifted \/ gone)
<1>4. scope' = [scope EXCEPT !.drifted = drifted] BY DEF ScreenChangesUnder
<1>5. /\ scope'.known = scope.known /\ scope'.at = scope.at /\ scope'.tall = scope.tall
      /\ scope'.drifted = drifted /\ scope' \in Scopes
  <2>1. drifted \in BOOLEAN OBVIOUS
  <2> HIDE DEF drifted
  <2> QED BY <1>1, <1>4, <2>1 DEF LoTyped, Scopes
<1>6. scope.drifted => drifted BY <1>1 DEF ScopeIs
<1>7. scope.known /\ ~drifted => Scoped(lookup.loc)' BY <1>2, <1>5 DEF Scoped
<1> HIDE DEF gone, drifted
<1>8. /\ touched' \in Touches /\ touched'.by = touched.by /\ touched'.hit = touched.hit
      /\ touched'.disturbed = (touched.disturbed \/ touched.by = "none")
      /\ touched'.covered = touched.covered
  BY <1>1, <1>2 DEF LoTyped, Touches
<1>9. LoTyped' BY <1>1, <1>2, <1>3, <1>5, <1>8 DEF LoTyped
<1>10. ScopeIs'
  <2>1. drifted => scope.known BY DEF drifted
  <2> QED BY <1>5, <1>7, <2>1 DEF ScopeIs
<1>11. StepIs' BY <1>1, <1>2, <1>5 DEF StepIs, Settled
<1>12. AnswerIs'
  <2>1. lookup.step \in Answered => touched'.disturbed
    BY <1>1, <1>8 DEF TouchIs, Settled, Answered
  <2> QED BY <1>1, <1>2, <1>3, <2>1 DEF AnswerIs, Answered
<1>13. TouchIs' BY <1>1, <1>2, <1>3, <1>8 DEF TouchIs, ActionLands, Settled
<1>14. SeenIs'
  <2>1. ~Settled => Facts(lookup.loc)' \subseteq seen' BY <1>2
  <2>2. lookup.step \in {"tap", "pointing", "fill"} /\ ~drifted => "actionable" \in seen'
    BY <1>1, <1>2, <1>6 DEF SeenIs
  <2>3. LocatorTold'
    <3> SUFFICES ASSUME lookup.step = "resolved", ~drifted PROVE LocatorTold'
      BY <1>2, <1>5 DEF LocatorTold
    <3>1. seen' = seen BY <1>2 DEF Settled
    <3>2. LocatorTold BY <1>1 DEF SeenIs
    <3> QED BY <1>2, <1>6, <3>1, <3>2 DEF LocatorTold
  <2> QED BY <1>2, <1>5, <2>1, <2>2, <2>3 DEF SeenIs, Settled
<1> QED BY <1>9, <1>10, <1>11, <1>12, <1>13, <1>14 DEF LoInv

LEMMA LoInvStays ==
  ASSUME LoInv, UNCHANGED locVars
  PROVE  LoInv'
<1>1. UNCHANGED <<lookups, lookup, scope, baseline, touched, seen, unheard, vtVars>> BY DEF locVars
<1>2. UNCHANGED <<screen, activity, viewModule, changes>> BY <1>1 DEF vtVars
<1>3. /\ Facts(lookup.loc)' = Facts(lookup.loc)
      /\ Traverse(lookup.loc.tag)' = Traverse(lookup.loc.tag)
      /\ Scoped(lookup.loc)' <=> Scoped(lookup.loc)
  BY <1>1, ScreenStays
<1>4. LoTyped' /\ ScopeIs' /\ StepIs'
  BY <1>1, <1>2, <1>3 DEF LoInv, LoTyped, VtTyped, ScopeIs, StepIs, Settled
<1>5. AnswerIs'
  BY <1>1, <1>2, <1>3 DEF LoInv, AnswerIs, Agrees, ElementInfo, HandleOf, Covered, Covers, Centre
<1>6. TouchIs' /\ SeenIs'
  BY <1>1, <1>2, <1>3 DEF LoInv, TouchIs, ActionLands, SeenIs, LocatorTold, Settled
<1> QED BY <1>4, <1>5, <1>6 DEF LoInv

LEMMA LoInvNext ==
  ASSUME LoInv, LoNext \/ UNCHANGED locVars
  PROVE  LoInv'
<1>1. CASE \E op \in LocatorOps, l \in Locs : StartsLookup(op, l) BY <1>1, LoInvStarts
<1>2. CASE LookupStep /\ UNCHANGED lookups
  BY <1>2, LoInvParent, LoInvQuery, LoInvFails, LoInvPolls, LoInvTaps, LoInvPoints, LoInvFills,
     LoInvCaptures, LoInvBounds DEF LookupStep
<1> QED BY <1>1, <1>2, LoInvChanges, LoInvStays DEF LoNext

LEMMA LoInvInit == LoInit => LoInv
<1> SUFFICES ASSUME LoInit PROVE LoInv OBVIOUS
<1>1. /\ screen = [e \in Elements |-> [mounts |-> 1, there |-> TRUE, at |-> Places[e],
                                       visible |-> TRUE, enabled |-> TRUE]]
      /\ activity = TRUE /\ viewModule \in {"absent", "tapless", "whole"} /\ changes = 0
  BY DEF LoInit, VtInit
<1>2. /\ lookups = 0 /\ scope = NoScope /\ baseline = 0
      /\ touched = Untouched /\ seen = {} /\ unheard = FALSE
  BY DEF LoInit
<1>3. PICK l \in Locs : lookup = [op |-> "isVisible", loc |-> l, step |-> "idle",
                                  info |-> Failed("NOT_FOUND"), value |-> TRUE]
  <2>1. (CHOOSE l \in Locs : TRUE) \in Locs BY LocatorBounds
  <2> QED BY <2>1 DEF LoInit
<1>4. VtTyped
  <2>1. \A e \in Elements : screen[e] \in Views /\ screen[e].mounts <= changes + 1
    BY <1>1, ScreenBounds DEF Views
  <2>2. screen \in [Elements -> Views] BY <1>1, <2>1
  <2>3. changes \in 0..MaxChanges /\ activity \in BOOLEAN BY <1>1, ScreenBounds
  <2> QED BY <1>1, <2>1, <2>2, <2>3 DEF VtTyped
<1>5. LoTyped
  <2>1. Failed("NOT_FOUND") \in Infos BY FailureIs DEF Codes
  <2>2. "isVisible" \in LocatorOps /\ "idle" \in LookupSteps
    BY DEF LocatorOps, Asks, LookupSteps
  <2>3. lookup \in Lookups BY <1>3, <2>1, <2>2 DEF Lookups
  <2>4. scope \in Scopes BY <1>2, ScreenBounds DEF NoScope, Scopes
  <2>5. touched \in Touches BY <1>2 DEF Untouched, Touches
  <2>6. lookups \in 0..MaxLookups /\ baseline \in 0..(Len(Tags) + 1) /\ unheard \in BOOLEAN
    <3>1. MaxLookups \in Nat /\ Len(Tags) \in Nat BY LocatorBounds, ElementsAre
    <3>2. unheard \in BOOLEAN BY <1>2, Zenon
    <3>3. lookups = 0 /\ baseline = 0 BY <1>2
    <3> QED BY <3>1, <3>2, <3>3
  <2> QED BY <1>4, <2>3, <2>4, <2>5, <2>6 DEF LoTyped
<1>6. ScopeIs BY <1>2 DEF ScopeIs, NoScope
<1>7. StepIs /\ AnswerIs BY <1>3 DEF StepIs, AnswerIs, Answered, Settled
<1>8. TouchIs BY <1>2, <1>3 DEF TouchIs, ActionLands, Untouched
<1>9. SeenIs BY <1>3 DEF SeenIs, LocatorTold, Settled
<1> QED BY <1>5, <1>6, <1>7, <1>8, <1>9 DEF LoInv

LEMMA LoInvGives == LoInv => LoTypeOK /\ LocatorTold /\ ActionLands
<1> SUFFICES ASSUME LoInv PROVE LoTypeOK /\ LocatorTold /\ ActionLands OBVIOUS
<1>1. LoTyped /\ TouchIs /\ SeenIs BY DEF LoInv
<1>2. VtTypeOK BY <1>1 DEF LoTyped, VtTyped, VtTypeOK, Views
<1>3. LoTypeOK
  BY <1>1, <1>2 DEF LoTyped, LoTypeOK, Lookups, LookupSteps, Scopes, Touches
<1> QED BY <1>1, <1>3 DEF TouchIs, SeenIs

(* Whatever the app does to the screen between two steps of a call: what a   *)
(* call of a locator or an assertion says was true of the element it is      *)
(* about at some moment of the call, and what is tapped, filled or captured  *)
(* is that element unless the screen changed after it was found, or another  *)
(* view lay in front of the centre of what is tapped.                        *)
THEOREM CallsAreRight == LoSpec => [](LoTypeOK /\ LocatorTold /\ ActionLands)
<1>1. LoInv /\ [LoNext]_locVars => LoInv' BY LoInvNext
<1> QED BY LoInvInit, LoInvGives, <1>1, PTL DEF LoSpec

-----------------------------------------------------------------------------
(* The screen: one of the three moves, the others stay as they are.          *)

ScreenInv == LoInv /\ ScInv /\ HaInv

LEMMA ScreenInvNext ==
  ASSUME ScreenInv, [ScreenNext]_<<part, locVars, scVars, haVars>>
  PROVE  ScreenInv'
<1>1. LoNext \/ UNCHANGED locVars BY DEF ScreenNext
<1>2. ScNext \/ UNCHANGED scVars BY DEF ScreenNext
<1>3. HaNext \/ UNCHANGED haVars BY DEF ScreenNext
<1> QED BY <1>1, <1>2, <1>3, LoInvNext, ScInvNext, HaInvNext DEF ScreenInv

LEMMA ScreenIsItsParts == ScreenSpec => []ScreenInv
<1>1. ScreenInit => ScreenInv
  BY LoInvInit, ScInvInit, HaInvInit DEF ScreenInit, ScreenInv
<1> QED BY <1>1, ScreenInvNext, PTL DEF ScreenSpec

(* A call of a locator or an assertion is right about the element.           *)
THEOREM LocatorsTellTheTruth == ScreenSpec => []LocatorTold
<1>1. ScreenInv => LocatorTold BY LoInvGives DEF ScreenInv
<1> QED BY <1>1, ScreenIsItsParts, PTL

(* What is tapped, filled or captured is the element that was found, unless  *)
(* the screen changed after it was found, or another view lay in front of    *)
(* the centre of what is tapped.                                             *)
THEOREM ActionsLand == ScreenSpec => []ActionLands
<1>1. ScreenInv => ActionLands BY LoInvGives DEF ScreenInv
<1> QED BY <1>1, ScreenIsItsParts, PTL

(* scrollIntoView ends as it says, and the three parts are typed.            *)
THEOREM ScrollingIsAsTold == ScreenSpec => []ScrollAsTold
<1>1. ScreenInv => ScrollAsTold
  <2>1. HaInv => HaTypeOK BY DEF HaInv
  <2> QED BY <2>1, LoInvGives, ScInvGives DEF ScreenInv, ScrollAsTold
<1> QED BY <1>1, ScreenIsItsParts, PTL

(* The harness gives back the newest events of a trace, in their order, and  *)
(* a fill that says it succeeded changed the field and told the app.         *)
THEOREM TracesAreKept == ScreenSpec => []HarnessKeepsFaith
<1>1. ScreenInv => HarnessKeepsFaith BY HaInvGives DEF ScreenInv
<1> QED BY <1>1, ScreenIsItsParts, PTL
=============================================================================
