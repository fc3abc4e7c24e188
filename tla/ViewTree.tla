------------------------------ MODULE ViewTree ------------------------------
(* The screen of the app under test and the native module that reads it      *)
(* (packages/view-tree): queries over the views in the order of the          *)
(* document, handles that outlive the view they name, and the native tap.    *)
(* Queries run on the main thread, each on one state of the screen; between  *)
(* two of them the app does what it likes. The screen is reduced to one      *)
(* dimension, and a selector to a testID.                                    *)
EXTENDS Integers, Sequences, FiniteSets

CONSTANTS Tags,         \* testID of each element, in the order of the document
          Heights,      \* its height
          Places,       \* where it is at first
          Bottom,       \* bound: the last place an element can be at
          MaxChanges    \* bound: changes of the screen

Elements == 1..Len(Tags)

ASSUME ScreenBounds ==
  /\ Tags \in Seq(STRING) /\ Heights \in [Elements -> Nat \ {0}]
  /\ Bottom \in Nat /\ Places \in [Elements -> 0..Bottom]
  /\ MaxChanges \in Nat

VARIABLES
  screen,      \* each element: its mounts so far, whether it is mounted, its place and state
  activity,    \* the app has a window
  viewModule,  \* the module in the app: none, one without tap, or the current one
  changes

vtVars == <<screen, activity, viewModule, changes>>

VtInit ==
  /\ screen = [e \in Elements |-> [mounts |-> 1, there |-> TRUE, at |-> Places[e],
                                   visible |-> TRUE, enabled |-> TRUE]]
  /\ activity = TRUE
  /\ viewModule \in {"absent", "tapless", "whole"}
  /\ changes = 0

-----------------------------------------------------------------------------
(* A result is a code and, for "ok", the element with what was measured.     *)
Failed(code) ==
  [code |-> code, el |-> 0, handle |-> <<0, 0>>, at |-> 0, visible |-> FALSE, enabled |-> FALSE]

(* A handle names a native view, here a mount of an element: a view that is  *)
(* unmounted keeps its handle, and the next one gets another.                *)
HandleOf(e) == <<e, screen[e].mounts>>
OnScreen(handle) == screen[handle[1]].there /\ HandleOf(handle[1]) = handle

ElementInfo(e) ==
  [code |-> "ok", el |-> e, handle |-> HandleOf(e), at |-> screen[e].at,
   visible |-> screen[e].visible, enabled |-> screen[e].enabled]

(* The views with a testID; the order of the document is that of their       *)
(* numbers.                                                                  *)
Traverse(tag) == {e \in Elements : screen[e].there /\ Tags[e] = tag}

(* Why there are no views to query: no module, or no window.                 *)
NoViews ==
  CASE viewModule = "absent" -> "NOT_SUPPORTED" [] ~activity /\ viewModule # "absent" -> "INTERNAL"
    [] OTHER -> "none"

FindSingle(tag) ==
  LET matches == Traverse(tag) IN
  IF NoViews # "none" THEN Failed(NoViews)
  ELSE IF Cardinality(matches) = 1 THEN ElementInfo(CHOOSE e \in matches : TRUE)
  ELSE Failed(IF matches = {} THEN "NOT_FOUND" ELSE "MULTIPLE_FOUND")

(* What a tap of the handle may come to. The view of a handle that is not on *)
(* the screen was collected, or lives on and takes the tap nobody sees.      *)
NativeTap(handle) ==
  IF viewModule # "whole" THEN {"NOT_SUPPORTED"}
  ELSE {"ok", "TAP_FAILED"} \union (IF OnScreen(handle) THEN {} ELSE {"NOT_FOUND"})

(* Views overlap; a later one in the order of the document, such as a child, *)
(* lies in front.                                                            *)
Centre(e)    == screen[e].at + Heights[e] \div 2
Covers(e, y) ==
  screen[e].there /\ screen[e].visible /\ screen[e].at <= y /\ y < screen[e].at + Heights[e]
Covered(e)   == \E d \in Elements : d > e /\ Covers(d, Centre(e))

(* What may take a touch at a place: the front view, or one behind it if it  *)
(* is disabled and lets touches through; 0 if there is none.                 *)
Takers(y) ==
  LET takers == {e \in Elements :
                   Covers(e, y) /\ \A d \in Elements : d > e /\ Covers(d, y) => ~screen[d].enabled}
  IN IF takers = {} THEN {0} ELSE takers

(* Where a native tap that went well may have landed: on the view of the     *)
(* handle (an action of the control it is or is part of, performClick, the   *)
(* accessibility click), or where the window says that a touch at the centre *)
(* of that view goes.                                                        *)
NativeLandings(handle) ==
  IF OnScreen(handle) THEN {handle[1]} \union Takers(Centre(handle[1])) ELSE {0}

-----------------------------------------------------------------------------
(* The app.                                                                  *)

Alter(e, view) == screen' = [screen EXCEPT ![e] = view]

ScreenChanges ==
  /\ changes < MaxChanges /\ changes' = changes + 1
  /\ UNCHANGED viewModule
  /\ \/ \E e \in Elements :
          LET s == screen[e] IN
          /\ \/ Alter(e, [s EXCEPT !.there = ~@, !.mounts = IF s.there THEN @ ELSE @ + 1])
             \/ s.there /\ \E y \in 0..Bottom \ {s.at} : Alter(e, [s EXCEPT !.at = y])
             \/ s.there /\ Alter(e, [s EXCEPT !.visible = ~@])
             \/ s.there /\ Alter(e, [s EXCEPT !.enabled = ~@])
          /\ UNCHANGED activity
     \/ activity' = ~activity /\ UNCHANGED screen

VtTypeOK ==
  /\ screen \in [Elements -> [mounts : 1..(MaxChanges + 1), there : BOOLEAN, at : 0..Bottom,
                              visible : BOOLEAN, enabled : BOOLEAN]]
  /\ activity \in BOOLEAN /\ viewModule \in {"absent", "tapless", "whole"}
  /\ changes \in 0..MaxChanges
=============================================================================
