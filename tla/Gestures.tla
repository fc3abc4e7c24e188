------------------------------- MODULE Gestures -------------------------------
(* The pointer's gestures (packages/driver/src/pointer.ts), the builders of  *)
(* gestures for one pointer and for several, and what becomes of a gesture   *)
(* whose connection fails or is replaced on the way. A gesture is the        *)
(* sequence of events it dispatches, each with the time the waits before it  *)
(* add up to. Places are on a line; times are in milliseconds.               *)
EXTENDS Integers, Sequences, FiniteSets

CONSTANTS Spots,           \* where gestures begin and end
          Interpolations,  \* options.steps or options.duration, with the easing
          Holds,           \* options.holdStart and options.holdEnd
          MaxGestures,     \* bound: gestures
          MaxLinks         \* bound: connections

Ids == 0..1
Easings == {"linear", "ease-in", "ease-out", "ease-in-out"}
Nowhere == -1

(* Places are multiples of what every number of steps in use, squared,       *)
(* divides, so that the points in between are integers.                      *)
ASSUME GestureBounds ==
  /\ Spots \subseteq Nat /\ Holds \subseteq Nat
  /\ Interpolations \subseteq [by : {"steps", "duration"}, n : Nat, easing : Easings]
  /\ MaxGestures \in Nat /\ MaxLinks \in Nat

VARIABLES
  link,        \* pointer.backend: the connection it belongs to, 0 for null
  links,       \* connections so far
  positions,   \* pointer.positions
  plan,        \* what the gesture has yet to dispatch, each after a wait
  course,      \* the gesture: its kind, its step, the time that has passed, and the
               \*   connection its last event went over
  fingers,     \* on the device: the connection that put the finger down, 0 if it is up
  gestures,
  own,         \* history: the events of each pointer of the gesture, at their own times
  dispatched   \* history: what was dispatched, and when

geVars == <<link, links, positions, plan, course, fingers, gestures, own, dispatched>>

-----------------------------------------------------------------------------
(* Interpolation (gesture-utils.ts, easing.ts). Eased is in 1/n^2.           *)

Eased(easing, i, n) ==
  CASE easing = "linear"      -> i * n
    [] easing = "ease-in"     -> i * i
    [] easing = "ease-out"    -> n * n - (n - i) * (n - i)
    [] easing = "ease-in-out" -> IF 2 * i < n THEN 2 * i * i ELSE n * n - 2 * (n - i) * (n - i)

(* DEFAULT_FRAME_MS is 16; a duration is made of that many steps, rounded.   *)
AtLeastOne(n) == IF n < 1 THEN 1 ELSE n
Steps(interp) == AtLeastOne(IF interp.by = "steps" THEN interp.n ELSE (interp.n + 8) \div 16)
StepDelay(interp) == IF interp.by = "steps" THEN 0 ELSE interp.n \div Steps(interp)

Event(time, type, id, at) == [time |-> time, type |-> type, id |-> id, at |-> at]

(* Moves from a place to another, or the points of a stepped move: a wait    *)
(* and a move for every step.                                                *)
Between(from, to, eased, whole) == from + ((to - from) * eased) \div whole

Moves(id, from, to, interp, start) ==
  LET n == Steps(interp) IN
  [i \in 1..n |-> Event(start + i * StepDelay(interp), "move", id,
                        Between(from, to, Eased(interp.easing, i, n), n * n))]

Lasts(interp) == Steps(interp) * StepDelay(interp)

-----------------------------------------------------------------------------
(* GestureBuilderImpl: the events so far, the position, and what the waits   *)
(* so far add up to.                                                         *)

NewBuilder(id) == [id |-> id, events |-> <<>>, at |-> Nowhere, time |-> 0]

Adds(b, events, at) == [b EXCEPT !.events = @ \o events, !.at = at]

BuildDown(b, at) == Adds(b, <<Event(b.time, "down", b.id, at)>>, at)
BuildUp(b)       == Adds(b, <<Event(b.time, "up", b.id, Nowhere)>>, b.at)
BuildWait(b, ms) == [b EXCEPT !.time = @ + ms]
BuildMoveTo(b, to, interp) ==
  IF b.at = Nowhere THEN Adds(b, <<Event(b.time, "move", b.id, to)>>, to)
  ELSE BuildWait(Adds(b, Moves(b.id, b.at, to, interp, b.time), to), Lasts(interp))
BuildMoveBy(b, d, interp) == BuildMoveTo(b, b.at + d, interp)

(* MultiGestureBuilderImpl.execute: the events of all builders by time, then *)
(* by the order of the builders.                                             *)
Scheduled(builders) == UNION {{<<b, k>> : k \in 1..Len(builders[b].events)} : b \in 1..Len(builders)}

Due(builders, x) == builders[x[1]].events[x[2]]

Before(builders, x, y) ==
  \/ Due(builders, x).time < Due(builders, y).time
  \/ /\ Due(builders, x).time = Due(builders, y).time
     /\ x[1] < y[1] \/ (x[1] = y[1] /\ x[2] < y[2])

Earlier(builders, x) == {y \in Scheduled(builders) : Before(builders, y, x)}

Sorted(builders) ==
  [n \in 1..Cardinality(Scheduled(builders)) |->
     CHOOSE x \in Scheduled(builders) : Cardinality(Earlier(builders, x)) = n - 1]

Merged(builders) == [n \in DOMAIN Sorted(builders) |-> Due(builders, Sorted(builders)[n])]

(* Mutant of Gap: the time that has passed is not taken off.                 *)
GapFromStart(time, passed) == time

(* A wait takes the gesture from the time of an event to that of the next.   *)
Gap(time, passed) == time - passed

Paced(events) ==
  [k \in DOMAIN events |->
     [after |-> Gap(events[k].time, IF k = 1 THEN 0 ELSE events[k - 1].time),
      type |-> events[k].type, id |-> events[k].id, at |-> events[k].at]]

-----------------------------------------------------------------------------
(* The gestures: what they dispatch.                                         *)

Press(at)  == Event(0, "down", 0, at)
Lift(time) == Event(time, "up", 0, Nowhere)

(* drag and swipe without steps, easing and holds are one command.           *)
OneCommand(form, interp, hold) == form \in {"drag", "swipe"} /\ interp.by = "duration"
                                  /\ interp.easing = "linear" /\ hold = 0

(* pinch and rotate: two fingers with the same interpolation.                *)
Finger(id, from, to, interp, hold) ==
  BuildUp(BuildWait(BuildMoveTo(BuildWait(BuildDown(NewBuilder(id), from), hold), to, interp), hold))

(* Builders of a test: one moves on from where it is, two with interpolations*)
(* of their own, and with the second pointer first.                          *)
Builders(form, from, to, interp, other, hold) ==
  CASE form = "gesture" -> <<BuildUp(BuildMoveBy(BuildMoveTo(BuildDown(NewBuilder(0), from), to, interp),
                                                 from - to, interp))>>
    [] form = "pinch"   -> <<Finger(0, from, to, interp, hold), Finger(1, to, from, interp, hold)>>
    [] OTHER            -> <<Finger(1, from, to, interp, hold), Finger(0, to, from, other, 0)>>

Plain(form, from, to, interp, hold) ==
  CASE form = "tap"       -> IF hold = 0 THEN <<Event(0, "tap", 0, from)>>
                             ELSE <<Press(from), Lift(hold), Event(hold + 100, "down", 0, from), Lift(2 * hold + 100)>>
    [] form = "longPress" -> IF hold = 0 THEN <<Event(0, "longPress", 0, from)>>
                             ELSE <<Press(from), Lift(hold + 500 + hold)>>
    [] form = "dragPath"  -> <<Press(from), Event(hold, "move", 0, to), Event(hold, "move", 0, from), Lift(2 * hold)>>
    [] form = "movePath"  -> <<Event(0, "move", 0, from), Event(hold, "move", 0, to)>>
    [] form = "down"      -> <<Press(from)>>
    [] form = "up"        -> <<Lift(0)>>
    [] OTHER              -> IF OneCommand(form, interp, hold) THEN <<Event(0, "swipe", 0, to)>>
                             ELSE <<Press(from)>> \o Moves(0, from, to, interp, hold)
                                  \o <<Lift(hold + Lasts(interp) + hold)>>

Built == {"gesture", "pinch", "multiGesture"}
Kinds == {"tap", "longPress", "drag", "swipe", "dragPath", "movePath", "down", "up"} \union Built

(* A gesture: its events, and what each pointer is to do on its own.         *)
Alone(events) == [id \in Ids |-> IF id = 0 THEN events ELSE <<>>]

Gesture(form, from, to, interp, other, hold) ==
  LET b == Builders(form, from, to, interp, other, hold)
      mine(id) == {i \in 1..Len(b) : b[i].id = id}
      events == Plain(form, from, to, interp, hold)
  IN IF form \in Built
     THEN [kind |-> form, events |-> Merged(b),
           own |-> [id \in Ids |-> IF mine(id) = {} THEN <<>> ELSE b[CHOOSE i \in mine(id) : TRUE].events]]
     ELSE [kind |-> form, events |-> events, own |-> Alone(events)]

Ways == {way \in Spots \X Spots : way[1] # way[2]}

Programs ==
  {Gesture(form, way[1], way[2], interp, interp, hold) : form \in Kinds \ {"multiGesture"},
      way \in Ways, interp \in Interpolations, hold \in Holds}
  \union
  {Gesture("multiGesture", way[1], way[2], interp, other, hold) : way \in Ways,
      interp \in Interpolations, other \in Interpolations, hold \in Holds}

(* pointer.move: in steps from the position that is known, or at once.       *)
SteppedMove(to, interp) ==
  LET from   == positions[0]
      events == IF from = Nowhere THEN <<Event(0, "move", 0, to)>>
                ELSE Moves(0, from, to, [interp EXCEPT !.easing = "linear"], 0)
  IN [kind |-> "move", events |-> events, own |-> Alone(events)]

-----------------------------------------------------------------------------
GeInit ==
  /\ link = 0 /\ links = 0
  /\ positions = [id \in Ids |-> Nowhere]
  /\ plan = <<>>
  /\ course = [kind |-> "none", step |-> "idle", time |-> 0, over |-> 0]
  /\ fingers = [id \in Ids |-> 0]
  /\ gestures = 0
  /\ own = [id \in Ids |-> <<>>] /\ dispatched = <<>>

Idle == course.step \in {"idle", "resolved", "rejected"}

StartsGesture(g) ==
  /\ Idle /\ gestures < MaxGestures
  /\ gestures' = gestures + 1
  /\ plan' = Paced(g.events)
  /\ course' = [kind |-> g.kind, step |-> "next", time |-> 0, over |-> 0]
  /\ own' = g.own
  /\ dispatched' = <<>>
  /\ UNCHANGED <<link, links, positions, fingers>>

(* What an event does on the device. An up may or may not lift a finger that *)
(* an earlier connection put down.                                           *)
Touched(e) ==
  CASE e.type = "down" -> {link}
    [] e.type = "up"   -> IF fingers[e.id] \in {0, link} THEN {0} ELSE {0, fingers[e.id]}
    [] OTHER           -> {fingers[e.id]}

(* The wait is over, and the next event goes to the backend there is now; if *)
(* there is none the gesture ends, with whatever fingers are down.           *)
Dispatches ==
  /\ course.step = "next" /\ plan # <<>>
  /\ LET e == Head(plan)
         now == course.time + e.after
     IN IF link = 0
        THEN course' = [course EXCEPT !.step = "rejected"] /\ UNCHANGED <<dispatched, fingers>>
        ELSE /\ course' = [course EXCEPT !.step = "sent", !.time = now, !.over = link]
             /\ dispatched' = Append(dispatched, Event(now, e.type, e.id, e.at))
             /\ \/ \E finger \in Touched(e) : fingers' = [fingers EXCEPT ![e.id] = finger]
                \/ UNCHANGED fingers      \* it will not get there
  /\ UNCHANGED <<link, links, positions, plan, gestures, own>>

(* The device did it: only then is the position recorded.                    *)
Returns ==
  LET e == Head(plan) IN
  /\ course.step = "sent"
  /\ e.type = "down" => fingers[e.id] = course.over
  /\ e.type = "up" => fingers[e.id] # course.over
  /\ positions' = IF e.type \in {"down", "move"} THEN [positions EXCEPT ![e.id] = e.at] ELSE positions
  /\ plan' = Tail(plan)
  /\ course' = [course EXCEPT !.step = "next"]
  /\ UNCHANGED <<link, links, fingers, gestures, own, dispatched>>

(* It did not, or did and nobody heard of it: no up is sent for a down.      *)
DispatchFails ==
  /\ course.step = "sent"
  /\ course' = [course EXCEPT !.step = "rejected"]
  /\ UNCHANGED <<link, links, positions, plan, fingers, gestures, own, dispatched>>

GestureDone ==
  /\ course.step = "next" /\ plan = <<>>
  /\ course' = [course EXCEPT !.step = "resolved"]
  /\ UNCHANGED <<link, links, positions, plan, fingers, gestures, own, dispatched>>

(* connect and disconnect; the device lifts the fingers of a lost connection *)
(* or does not.                                                              *)
SetBackend(l) ==
  /\ link' = l
  /\ positions' = [id \in Ids |-> Nowhere]
  /\ fingers' \in {fingers, [id \in Ids |-> 0]}
  /\ UNCHANGED <<plan, course, gestures, own, dispatched>>

GeNext ==
  \/ \E g \in Programs : StartsGesture(g)
  \/ \E to \in Spots, interp \in {i \in Interpolations : i.by = "steps"} :
       StartsGesture(SteppedMove(to, interp))
  \/ Dispatches \/ Returns \/ DispatchFails \/ GestureDone
  \/ links < MaxLinks /\ links' = links + 1 /\ SetBackend(links + 1)
  \/ link # 0 /\ UNCHANGED links /\ SetBackend(0)

GeSpec == GeInit /\ [][GeNext]_geVars

-----------------------------------------------------------------------------
Waits == [after : Nat, type : {"tap", "longPress", "swipe", "down", "move", "up"}, id : Ids, at : Int]

GeTypeOK ==
  /\ links \in 0..MaxLinks /\ link \in 0..links /\ gestures \in 0..MaxGestures
  /\ positions \in [Ids -> Int] /\ plan \in Seq(Waits)
  /\ course \in [kind : Kinds \union {"move", "none"}, step : {"idle", "next", "sent", "resolved", "rejected"},
                  time : Nat, over : 0..links]
  /\ fingers \in [Ids -> 0..links]

(* The k-th event of a sequence is the n-th of its pointer.                  *)
Nth(events, k) == Cardinality({j \in 1..k : events[j].id = events[k].id})

(* However the pointers of a gesture are merged, each does its own events in *)
(* their own order, each at the time its own waits add up to, and all of     *)
(* them (multi-gesture-builder.ts:33-64).                                    *)
InOwnTime ==
  /\ \A k \in DOMAIN dispatched :
       LET e == dispatched[k]
           n == Nth(dispatched, k)
       IN n <= Len(own[e.id]) /\ e = own[e.id][n]
  /\ course.step = "resolved" =>
       \A id \in Ids : Cardinality({k \in DOMAIN dispatched : dispatched[k].id = id}) = Len(own[id])

(* Between where it goes down and where it is taken, a finger never leaves   *)
(* the way nor turns back, whatever the easing and the number of steps.      *)
Straight ==
  course.kind \in {"drag", "swipe", "move", "pinch", "multiGesture"} =>
    \A id \in Ids : \A i, j, k \in 1..Len(own[id]) :
      i < j /\ j < k /\ own[id][k].type = "move" =>
        \/ own[id][i].at <= own[id][j].at /\ own[id][j].at <= own[id][k].at
        \/ own[id][i].at >= own[id][j].at /\ own[id][j].at >= own[id][k].at

(* A gesture that returns leaves no finger down that it has to take up, but  *)
(* one that an earlier connection put down than that of its last event: on   *)
(* one connection none at all (pointer.ts:180-197).                          *)
FingersLifted ==
  course.step = "resolved" =>
    \A id \in Ids : (\E k \in 1..Len(own[id]) : own[id][k].type = "up") => fingers[id] < course.over

(* What a gesture does on the screen is what its caller asked for.           *)
GestureAsAsked == InOwnTime /\ Straight /\ FingersLifted
=============================================================================
