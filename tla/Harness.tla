------------------------------- MODULE Harness -------------------------------
(* The in-app harness (packages/driver/harness): the ring buffer of trace    *)
(* events with the console it patches, the frame counter a test waits on,    *)
(* and fill, which has to reach both the native view and React's state.      *)
(* Everything here runs on the JavaScript thread, a call at a time; calls of *)
(* the driver, of the app and of the renderer come in any order. An event is *)
(* its number, counted over the life of the app; a text is a number, 0 the   *)
(* empty one.                                                                *)
EXTENDS Naturals, Sequences

CONSTANTS MaxTrace,     \* MAX_TRACE_EVENTS
          MaxHeard,     \* bound: events emitted
          MaxFrames,    \* bound: frames rendered
          MaxRestarts   \* bound: times the app's runtime is replaced

ASSUME HarnessBounds ==
  MaxTrace \in Nat \ {0} /\ MaxHeard \in Nat /\ MaxFrames \in Nat /\ MaxRestarts \in Nat

VARIABLES
  touchModule,   \* the app was built with the touch injector
  tracing,       \* tracingState: active, and the events
  console,       \* wrappers around the app's console methods
  original,      \* originalConsole: wrappers around what it holds, if anything
  field,         \* the text input a fill resolves to
  frameCount, ticking,
  rafWait,       \* a waitForRaf of the driver: its step, target and count
  restarts,
  emitted,       \* history: events so far
  heard,         \* history: events since startTracing
  filled,        \* history: the text of the last fill that succeeded
  rendered,      \* history: frames since the waitForRaf began
  printed        \* history: the app's last console call reached its console

traceVars == <<tracing, console, original, emitted, heard, printed>>
fieldVars == <<field, filled>>
frameVars == <<frameCount, ticking, rafWait, rendered>>
haVars == <<traceVars, fieldVars, frameVars, touchModule, restarts>>

NotTracing == [active |-> FALSE, events |-> <<>>]
Patched == original # {}

HaInit ==
  /\ touchModule \in BOOLEAN
  /\ tracing = NotTracing /\ console = 0 /\ original = {}
  /\ field \in [controlled : BOOLEAN, handler : BOOLEAN, mirror : BOOLEAN,
                state : {0}, native : {0}]
  /\ frameCount = 0 /\ ticking = FALSE
  /\ rafWait = [step |-> "idle", target |-> 0, count |-> 0]
  /\ restarts = 0
  /\ emitted = 0 /\ heard = <<>> /\ filled = 0 /\ rendered = 0 /\ printed = TRUE

-----------------------------------------------------------------------------
(* Tracing.                                                                  *)

Newest(s) == IF Len(s) > MaxTrace THEN SubSeq(s, Len(s) - MaxTrace + 1, Len(s)) ELSE s

(* Mutant of Kept: events over the limit are not recorded.                   *)
KeptOldest(events, event) == IF Len(events) = MaxTrace THEN events ELSE Append(events, event)

(* The buffer after another event: push, then shift while it is too long.    *)
Kept(events, event) ==
  LET more == Append(events, event) IN IF Len(more) > MaxTrace THEN Tail(more) ELSE more

(* n events, if a trace is being taken.                                      *)
TraceEvents(n) ==
  /\ emitted + n <= MaxHeard
  /\ emitted' = emitted + n
  /\ IF tracing.active
     THEN /\ tracing' = [tracing EXCEPT !.events =
               IF n = 1 THEN Kept(@, emitted + 1) ELSE Kept(Kept(@, emitted + 1), emitted + 2)]
          /\ heard' = heard \o [i \in 1..n |-> emitted + i]
     ELSE UNCHANGED <<tracing, heard>>

(* findBy..., findAllBy... and tap are traced whether the module is there or *)
(* not, the touch injector's tap, down, move and up only if it is; the       *)
(* driver adds an event after every evaluate.                                *)
BridgeCall ==
  /\ \/ TraceEvents(1)
     \/ ~touchModule /\ UNCHANGED <<tracing, emitted, heard>>
  /\ UNCHANGED <<console, original, printed, fieldVars, frameVars, touchModule, restarts>>

(* The app calls console.log, or console.error, which is an error event too. *)
(* A wrapper calls what originalConsole holds, if it holds anything.         *)
AppLogs(level) ==
  /\ IF console = 0 THEN UNCHANGED <<tracing, emitted, heard>>
     ELSE TraceEvents(IF level = "error" THEN 2 ELSE 1)
  /\ printed' = (console = 0 \/ original = {0})
  /\ UNCHANGED <<console, original, fieldVars, frameVars, touchModule, restarts>>

(* Mutant of PatchConsole: without a look at originalConsole.                *)
PatchConsoleAgain == original' = {console} /\ console' = console + 1

PatchConsole ==
  IF Patched THEN UNCHANGED <<original, console>>
  ELSE original' = {console} /\ console' = 1

RestoreConsole ==
  /\ original' = {}
  /\ IF Patched THEN console' \in original ELSE UNCHANGED console

StartTracing(includeConsole) ==
  /\ tracing' = [active |-> TRUE, events |-> <<>>]
  /\ heard' = <<>>
  /\ IF includeConsole THEN PatchConsole ELSE UNCHANGED <<original, console>>
  /\ UNCHANGED <<emitted, printed, fieldVars, frameVars, touchModule, restarts>>

StopTracing ==
  /\ tracing' = NotTracing
  /\ heard' = <<>>
  /\ RestoreConsole
  /\ UNCHANGED <<emitted, printed, fieldVars, frameVars, touchModule, restarts>>

-----------------------------------------------------------------------------
(* fill of the TextInput: its setNativeProps if the fiber has one, then its  *)
(* change handlers if it declares any. It succeeds whatever there was.       *)
ApplyFill(text) ==
  /\ field' = [field EXCEPT !.native = IF field.mirror THEN text ELSE @,
                            !.state  = IF field.handler THEN text ELSE @]
  /\ filled' = text
  /\ UNCHANGED <<traceVars, frameVars, touchModule, restarts>>

(* React renders: the value of a controlled input is its state.              *)
Renders ==
  /\ field.controlled
  /\ field' = [field EXCEPT !.native = field.state]
  /\ UNCHANGED <<filled, traceVars, frameVars, touchModule, restarts>>

-----------------------------------------------------------------------------
(* Frames.                                                                   *)

(* The tick of the counter runs once a frame, once it was started.           *)
FrameRendered ==
  /\ ticking /\ frameCount < MaxFrames
  /\ frameCount' = frameCount + 1
  /\ rendered' = rendered + 1
  /\ UNCHANGED <<ticking, rafWait, traceVars, fieldVars, touchModule, restarts>>

(* getFrameCount starts the counter, and waitForRaf reads its target off it. *)
WaitForRaf(count) ==
  /\ rafWait.step = "idle"
  /\ ticking' = TRUE
  /\ rafWait' = [step |-> "polling", target |-> frameCount + count, count |-> count]
  /\ rendered' = 0
  /\ UNCHANGED <<frameCount, traceVars, fieldVars, touchModule, restarts>>

(* waitForFrameCount: every few milliseconds, until the timeout.             *)
PollsFrames ==
  /\ rafWait.step = "polling" /\ frameCount >= rafWait.target
  /\ rafWait' = [rafWait EXCEPT !.step = "resolved"]
  /\ ticking' = TRUE
  /\ UNCHANGED <<frameCount, rendered, traceVars, fieldVars, touchModule, restarts>>

RafTimesOut ==
  /\ rafWait.step = "polling"
  /\ rafWait' = [rafWait EXCEPT !.step = "timedOut"]
  /\ UNCHANGED <<frameCount, ticking, rendered, traceVars, fieldVars, touchModule, restarts>>

(* A reload: the harness is installed anew, over an app that starts over.    *)
(* What polled getFrameCount before polls it now, and so starts it.          *)
Restarts ==
  /\ restarts < MaxRestarts
  /\ restarts' = restarts + 1
  /\ tracing' = NotTracing /\ console' = 0 /\ original' = {} /\ heard' = <<>>
  /\ frameCount' = 0 /\ ticking' = (rafWait.step = "polling")
  /\ field' = [field EXCEPT !.state = 0, !.native = 0] /\ filled' = 0
  /\ UNCHANGED <<touchModule, emitted, printed, rafWait, rendered>>

HaNext ==
  \/ BridgeCall
  \/ \E level \in {"log", "error"} : AppLogs(level)
  \/ \E includeConsole \in BOOLEAN : StartTracing(includeConsole)
  \/ StopTracing
  \/ \E text \in 1..2 : ApplyFill(text)
  \/ Renders
  \/ FrameRendered \/ PollsFrames \/ RafTimesOut
  \/ \E count \in 1..2 : WaitForRaf(count)
  \/ Restarts

HaSpec == HaInit /\ [][HaNext]_haVars

(* The timeout of the wait; no frame need ever be rendered.                  *)
HaFairness == WF_haVars(RafTimesOut)

-----------------------------------------------------------------------------
HaTypeOK ==
  /\ touchModule \in BOOLEAN
  /\ tracing.active \in BOOLEAN /\ tracing.events \in Seq(1..MaxHeard)
  /\ console \in Nat /\ original \in SUBSET Nat
  /\ field \in [controlled : BOOLEAN, handler : BOOLEAN, mirror : BOOLEAN,
                state : 0..2, native : 0..2]
  /\ frameCount \in 0..MaxFrames /\ ticking \in BOOLEAN
  /\ rafWait \in [step : {"idle", "polling", "resolved", "timedOut"},
                 target : 0..(MaxFrames + 2), count : 0..2]
  /\ restarts \in 0..MaxRestarts /\ emitted \in 0..MaxHeard /\ heard \in Seq(1..MaxHeard)
  /\ filled \in 0..2 /\ rendered \in Nat /\ printed \in BOOLEAN

(* A trace holds the newest events since it was started, in their order, of  *)
(* no earlier trace, and no more than MAX_TRACE_EVENTS of them.              *)
TraceIsNewest == tracing.events = IF tracing.active THEN Newest(heard) ELSE <<>>

(* However traces are started and stopped, with the console and without, the *)
(* app's console output goes on, once, and the console is the app's own      *)
(* again when no trace is taken.                                             *)
ConsoleKept == printed /\ (~tracing.active => console = 0)

(* After a fill that succeeded, and the renders that follow it, the input    *)
(* shows the text: a controlled one that has a change handler, and an        *)
(* uncontrolled one whose native view can be set.                            *)
FillLands ==
  filled # 0 =>
    /\ field.controlled /\ field.handler => field.state = filled
    /\ ~field.controlled /\ field.mirror => field.native = filled

(* waitForRaf(n) returns after n frames or more, over a reload as well.      *)
FramesWaited == rafWait.step = "resolved" => rendered >= rafWait.count

(* The harness keeps what it promises the driver and the app.                *)
HarnessKeepsFaith == TraceIsNewest /\ ConsoleKept /\ FillLands /\ FramesWaited

(* A waitForRaf ends, in an app that renders no frame too.                   *)
RafEnds == rafWait.step = "polling" ~> rafWait.step # "polling"
=============================================================================
