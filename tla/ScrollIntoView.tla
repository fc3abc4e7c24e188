--------------------------- MODULE ScrollIntoView ---------------------------
(* Locator.scrollIntoView (packages/driver/src/locator.ts) over the geometry *)
(* of scroll.ts: measure the element, swipe towards it, let the content      *)
(* settle, measure again. Lengths are in a unit of 16 points, so that        *)
(* FIT_EPSILON, half a point, tells lengths apart that are not equal. The    *)
(* content is virtualized: an element far from the window is not mounted.    *)
EXTENDS Integers

CONSTANTS Window,      \* extent of the window along each axis
          Inset,       \* safe-area inset at either end of the vertical axis
          Homes,       \* where in the content the element may be, along each axis
          Lengths,     \* extents it may have
          Reach,       \* how far the container scrolls along each axis
          Mounted,     \* content further than this from the window is not mounted
          MinStep,     \* MIN_SCROLL_STEP
          MaxScrolls,  \* options.maxScrolls
          MaxLost      \* bound: swipes that are swallowed

Axes == {"vertical", "horizontal"}

ASSUME ScrollBounds ==
  /\ Window \in Nat \ {0} /\ Inset \in Nat /\ 2 * Inset < Window
  /\ Homes \subseteq Int /\ Lengths \subseteq Nat \ {0}
  /\ Reach \in Nat /\ Mounted \in Nat /\ MinStep \in Nat \ {0}
  /\ MaxScrolls \in Nat /\ MaxLost \in Nat

NoProgressForBoundary == 2     \* NO_PROGRESS_SCROLLS_FOR_BOUNDARY

VARIABLES
  home, extent,  \* the element in the content, along each axis
  offset,        \* how far the content is scrolled
  coasting,      \* how far it will still move
  loop,          \* the call: step, attempt, last, noProgress
  lostSwipes,
  swipe,         \* history: the last swipe, from and to along each axis
  stuck,         \* history: swipes in a row that leave the content where it was measured
  near,          \* history: a shorter swipe than the shortest would have done
  blind          \* history: what a blind swipe moves had not come to rest

scVars == <<home, extent, offset, coasting, loop, lostSwipes, swipe, stuck, near, blind>>

NoLast == [axis |-> "none", position |-> 0]
InsetOf(axis) == IF axis = "vertical" THEN Inset ELSE 0
Usable(axis) == Window - 2 * InsetOf(axis)

AtRest == [a \in Axes |-> 0]
Looping == loop.step \in {"measure", "settle"}

ScInit ==
  /\ home \in [Axes -> Homes] /\ extent \in [Axes -> Lengths]
  /\ home["horizontal"] \in {0, Window} /\ extent["horizontal"] = extent["vertical"]
  /\ offset = [a \in Axes |-> 0] /\ coasting = AtRest
  /\ loop = [step |-> "measure", attempt |-> 0, last |-> NoLast, noProgress |-> 0]
  /\ lostSwipes = 0
  /\ swipe = [a \in Axes |-> [from |-> Window \div 2, to |-> Window \div 2]]
  /\ stuck = 0 /\ near = FALSE /\ blind = FALSE

-----------------------------------------------------------------------------
(* scroll.ts.                                                                *)

Abs(n) == IF n < 0 THEN -n ELSE n
Clamp(n, lo, hi) == IF n > hi THEN hi ELSE IF n < lo THEN lo ELSE n

(* A tenth of the usable span is left free at either end.                    *)
SafeBand(axis) ==
  LET gutter == Usable(axis) \div 10
  IN [lo |-> InsetOf(axis) + gutter, hi |-> Window - InsetOf(axis) - gutter]

(* The segment of the swipe along one axis, shifted into the band.           *)
SolveAxis(axis, delta) ==
  LET band == SafeBand(axis)
      span == band.hi - band.lo
      d    == Clamp(delta, -span, span)
      from == Clamp(Window \div 2, band.lo, band.hi)
      to   == from - d
      shift == IF to < band.lo THEN band.lo - to ELSE IF to > band.hi THEN band.hi - to ELSE 0
  IN [from |-> from + shift, to |-> to + shift]

(* What one axis of the element lacks to be inside the safe part of the      *)
(* window; the leading edge counts if it cannot fit.                         *)
FitAxis(axis, start) ==
  LET s == start - InsetOf(axis)
      size == extent[axis]
  IN IF size >= Usable(axis) \/ s < 0 THEN s
     ELSE IF s + size > Usable(axis) THEN s + size - Usable(axis) ELSE 0

Edge(axis) == home[axis] - offset[axis]
Lacks(axis) == FitAxis(axis, Edge(axis))
InView == \A axis \in Axes : Lacks(axis) = 0
StepAxis == IF Abs(Lacks("vertical")) >= Abs(Lacks("horizontal")) THEN "vertical" ELSE "horizontal"
Measurable == \A axis \in Axes : Edge(axis) + extent[axis] > -Mounted /\ Edge(axis) < Window + Mounted

-----------------------------------------------------------------------------
(* The loop.                                                                 *)

(* device.scroll: the swipe is over when it returns, the motion it caused is *)
(* not. One may be swallowed whole.                                          *)
Swipes(axis, delta) ==
  \E seg \in {SolveAxis(axis, delta)} :
  \E goal \in {Clamp(offset[axis] + coasting[axis] + seg.from - seg.to, 0, Reach)} :
  /\ swipe' = [a \in Axes |-> IF a = axis THEN seg ELSE SolveAxis(a, 0)]
  /\ \/ coasting' = [coasting EXCEPT ![axis] = goal - offset[axis]] /\ UNCHANGED lostSwipes
     \/ lostSwipes < MaxLost /\ lostSwipes' = lostSwipes + 1 /\ UNCHANGED coasting
  /\ stuck' = IF coasting'[axis] = 0 THEN stuck + 1 ELSE 0

EndsLoop(how) ==
  /\ loop' = [loop EXCEPT !.step = how]
  /\ UNCHANGED <<coasting, lostSwipes, swipe, stuck, blind>>

(* The element cannot be measured: one window further in the direction of    *)
(* the options, without waiting for the content to settle.                   *)
ScrollsBlind ==
  /\ loop.step = "measure" /\ ~Measurable
  /\ IF loop.attempt >= MaxScrolls THEN EndsLoop("NOT_FOUND")
     ELSE /\ Swipes("vertical", Window)
          /\ loop' = [loop EXCEPT !.attempt = @ + 1, !.last = NoLast]
          /\ blind' = (coasting' # AtRest)
  /\ UNCHANGED <<home, extent, offset, near>>

(* Consecutive measurements of the same position along the same axis.        *)
NoProgress(axis) ==
  IF loop.last = [axis |-> axis, position |-> Edge(axis)] THEN loop.noProgress + 1 ELSE 0

(* Mutant of SettlesAfter: measure again at once.                            *)
SettlesAfterNothing == "measure"

SettlesAfter == "settle"

ScrollsTowards ==
  \E axis \in {StepAxis} : \E lacks \in {Lacks(axis)} :
  LET step == IF Abs(lacks) < MinStep THEN (IF lacks < 0 THEN -MinStep ELSE MinStep) ELSE lacks
  IN
  /\ loop.step = "measure" /\ Measurable
  /\ CASE InView -> EndsLoop("resolved")
       [] ~InView /\ loop.attempt >= MaxScrolls -> EndsLoop("TIMEOUT")
       [] ~InView /\ loop.attempt < MaxScrolls /\ NoProgress(axis) >= NoProgressForBoundary
            -> EndsLoop("BOUNDARY")
       [] OTHER ->
            /\ Swipes(axis, step)
            /\ loop' = [step |-> SettlesAfter, attempt |-> loop.attempt + 1,
                        last |-> [axis |-> axis, position |-> Edge(axis)],
                        noProgress |-> NoProgress(axis)]
            /\ blind' = (blind /\ coasting' # AtRest)
  /\ near' = (near \/ (~InView /\ Abs(lacks) < MinStep /\ offset[axis] + lacks \in 0..Reach
                        /\ \A other \in Axes \ {axis} : Lacks(other) = 0))
  /\ UNCHANGED <<home, extent, offset>>

(* settleAfterScroll: samples of the position along the axis of the swipe,   *)
(* until two are equal or the element is gone.                               *)
Settles ==
  /\ loop.step = "settle"
  /\ coasting[loop.last.axis] = 0 \/ ~Measurable
  /\ loop' = [loop EXCEPT !.step = "measure"]
  /\ UNCHANGED <<home, extent, offset, coasting, lostSwipes, swipe, stuck, near, blind>>

(* A query or a swipe fails.                                                 *)
ScrollFails ==
  /\ Looping /\ EndsLoop("rejected")
  /\ UNCHANGED <<home, extent, offset, near>>

(* The content moves on: half of the way, or until it comes to rest.         *)
Coasts ==
  /\ coasting # AtRest
  /\ coasting' \in {AtRest, [axis \in Axes |-> coasting[axis] \div 2]}
  /\ offset' = [axis \in Axes |-> offset[axis] + coasting[axis] - coasting'[axis]]
  /\ blind' = (blind /\ (coasting' # AtRest \/ ~Looping))
  /\ UNCHANGED <<home, extent, loop, lostSwipes, swipe, stuck, near>>

ScLoop == ScrollsBlind \/ ScrollsTowards \/ Settles
ScNext == ScLoop \/ ScrollFails \/ Coasts

ScSpec == ScInit /\ [][ScNext]_scVars

(* Queries and swipes end, content comes to rest; the settling has a budget. *)
ScFairness == WF_scVars(ScLoop) /\ WF_scVars(Coasts)

-----------------------------------------------------------------------------
ScTypeOK ==
  /\ offset \in [Axes -> 0..Reach] /\ coasting \in [Axes -> -Reach..Reach]
  /\ loop.step \in {"measure", "settle", "resolved", "rejected", "NOT_FOUND", "TIMEOUT", "BOUNDARY"}
  /\ loop.attempt \in 0..MaxScrolls /\ loop.noProgress \in 0..NoProgressForBoundary
  /\ loop.last.axis \in Axes \union {"none"} /\ loop.last.position \in Int
  /\ lostSwipes \in 0..MaxLost /\ stuck \in 0..MaxScrolls
  /\ near \in BOOLEAN /\ blind \in BOOLEAN

(* Some place of the content has the element in view.                        *)
CanBeSeen ==
  \A axis \in Axes : \E o \in 0..Reach : FitAxis(axis, home[axis] - o) = 0

(* The element can be measured from where the call begins.                   *)
BeginsMeasurable ==
  \A axis \in Axes : home[axis] + extent[axis] > -Mounted /\ home[axis] < Window + Mounted

(* scrollIntoView that returns has the element in view, and keeps it there   *)
(* unless what a blind swipe moves, which nothing waits for, had not come to *)
(* rest. It reports a boundary only after two swipes in a row that left the  *)
(* content where it was, and then, unless swipes were swallowed, there is no *)
(* way to see the element. And no swipe starts or ends in the gutters of the *)
(* screen.                                                                   *)
ScrollTold ==
  /\ loop.step = "resolved" /\ ~blind => InView
  /\ loop.step = "BOUNDARY" => stuck >= NoProgressForBoundary /\ (CanBeSeen => lostSwipes > 0)
  /\ \A axis \in Axes : {swipe[axis].from, swipe[axis].to} \subseteq SafeBand(axis).lo..SafeBand(axis).hi

(* The loop gives up on an element that can be measured from the start only  *)
(* if a swipe was swallowed, or if less was lacking than the shortest swipe, *)
(* which takes an element as tall as the window past it, again and again.    *)
GivesUpLate == loop.step = "TIMEOUT" /\ BeginsMeasurable => near \/ lostSwipes > 0

(* The loop ends, and in view if it can.                                     *)
ScrollEnds == <>(~Looping) /\ []GivesUpLate
=============================================================================
