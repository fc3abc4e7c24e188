------------------------------ MODULE Locators ------------------------------
(* Locators and their assertions (packages/driver/src/locator.ts, expect.ts):*)
(* a call of a test polls the view tree through device.evaluate until the    *)
(* element is as wanted, and then taps, fills or captures it. One call runs  *)
(* at a time, as tests await each; the app changes the screen between any    *)
(* two of its steps. A query and the decision taken on its answer are one    *)
(* step, for nothing is read in between; what the answer says is old when    *)
(* the next step of the call uses it.                                        *)
EXTENDS ViewTree

CONSTANTS MaxLookups,   \* bound: calls of a test
          Inputs,       \* elements that are TextInputs for the harness
          Locs          \* locators tests use: testID, index if any, testID of the parent if any

ASSUME LocatorBounds ==
  /\ MaxLookups \in Nat /\ Inputs \subseteq Elements /\ Locs # {}
  /\ \A l \in Locs : l.index \subseteq Int /\ Cardinality(l.index) <= 1 /\ l.within \in STRING

Waits   == {"attached", "visible", "hidden", "detached"}              \* waitFor
Asserts == {"toBeVisible", "not.toBeVisible", "toBeEnabled", "toBeDisabled", "toBeAttached"}
Asks    == {"isVisible", "bounds"}
Acts    == {"tap", "fill"}
Shots   == {"screenshot", "toMatchSnapshot"}
LocatorOps == Waits \union Asserts \union Asks \union Acts \union Shots

VARIABLES
  lookups,     \* calls so far
  lookup,      \* the last one: operation, locator, step, last answer, what it returns
  scope,       \* the locator's cachedParentContext, and whether the parent has left it
  baseline,    \* the element on the saved snapshot, 0 if there is none
  touched,     \* history: what the call did to which element
  seen,        \* history: what was true of the denoted element during the call
  unheard      \* history: an evaluate of the call failed

locVars == <<lookups, lookup, scope, baseline, touched, seen, unheard, vtVars>>
histories == <<touched, seen, unheard>>

NoScope == [known |-> FALSE, at |-> 0, tall |-> 0, drifted |-> FALSE]
Untouched == [by |-> "none", hit |-> TRUE, disturbed |-> FALSE, covered |-> FALSE]
Settled == lookup.step \in {"idle", "resolved", "rejected"}

LoInit ==
  /\ VtInit
  /\ lookups = 0
  /\ lookup = [op |-> "isVisible", loc |-> CHOOSE l \in Locs : TRUE, step |-> "idle",
               info |-> Failed("NOT_FOUND"), value |-> TRUE]
  /\ scope = NoScope /\ baseline = 0
  /\ touched = Untouched /\ seen = {} /\ unheard = FALSE

-----------------------------------------------------------------------------
Ambiguous == 0

(* The index of a locator in a list: the first without one, and from the end *)
(* if it is negative.                                                        *)
Position(index, n) ==
  LET i == IF index = {} THEN 0 ELSE CHOOSE j \in index : TRUE IN IF i < 0 THEN n + i + 1 ELSE i + 1

(* The kth element of a list, none if there are not that many.               *)
Nth(list, k) == {e \in list : Cardinality({d \in list : d <= e}) = k}

At(list, index) == Nth(list, Position(index, Cardinality(list)))

(* The elements with their bounds inside those of a parent.                  *)
Inside(list, top, tall) ==
  {e \in list : top <= screen[e].at /\ screen[e].at + Heights[e] <= top + tall}

(* The parent of a scoped locator, unless there are several.                 *)
ParentOf(l) == {p \in Elements : Traverse(l.within) = {p}}

(* What a locator denotes, by the bounds its parent has now: the reference   *)
(* the calls are judged by.                                                  *)
Denoted(l) ==
  LET all == Traverse(l.tag) IN
  IF l.within # "" THEN UNION {At(Inside(all, screen[p].at, Heights[p]), l.index) : p \in ParentOf(l)}
  ELSE IF l.index = {} /\ Cardinality(all) > 1 THEN {Ambiguous} ELSE At(all, l.index)

(* What is true of it.                                                       *)
Facts(l) ==
  LET d == Denoted(l) IN
  IF ~activity THEN {"unreadable"}
  ELSE IF d = {Ambiguous} THEN {"ambiguous"}
  ELSE IF d = {} THEN {"detached"}
  ELSE UNION {{"attached"}
              \union {IF screen[e].visible THEN "visible" ELSE "hidden"}
              \union {IF screen[e].enabled THEN "enabled" ELSE "disabled"}
              \union {f \in {"actionable"} : screen[e].visible /\ screen[e].enabled} : e \in d}

-----------------------------------------------------------------------------
(* query.                                                                    *)

(* selectElementFromList.                                                    *)
Select(list, index) ==
  IF At(list, index) = {} THEN Failed("NOT_FOUND")
  ELSE ElementInfo(CHOOSE e \in At(list, index) : TRUE)

(* The answer to the query of a locator, with the parent's place as known.   *)
Query(l) ==
  LET all == Traverse(l.tag) IN
  IF NoViews # "none" THEN Failed(NoViews)
  ELSE IF l.within # "" THEN Select(Inside(all, scope.at, scope.tall), l.index)
  ELSE IF l.index = {} THEN FindSingle(l.tag) ELSE Select(all, l.index)

(* The errors no polling loop waits over.                                    *)
Fatal(r) == r.code \in {"NOT_SUPPORTED", "INTERNAL", "MULTIPLE_FOUND"}

(* Mutant of MatchesState: what is not there is hidden too.                  *)
MatchesStateLoosely(r, state) ==
  CASE state = "attached" -> r.code = "ok"
    [] state = "visible"  -> r.code = "ok" /\ r.visible
    [] state = "hidden"   -> ~(r.code = "ok" /\ r.visible)
    [] state = "detached" -> r.code = "NOT_FOUND"

MatchesState(r, state) ==
  CASE state = "attached" -> r.code = "ok"
    [] state = "visible"  -> r.code = "ok" /\ r.visible
    [] state = "hidden"   -> r.code = "ok" /\ ~r.visible
    [] state = "detached" -> r.code = "NOT_FOUND"

(* The predicates of the assertions; toHaveText is one like toBeEnabled.     *)
Passes(r, op) ==
  CASE op = "toBeVisible"     -> r.code = "ok" /\ r.visible
    [] op = "not.toBeVisible" -> IF r.code = "ok" THEN ~r.visible ELSE r.code = "NOT_FOUND"
    [] op = "toBeEnabled"     -> r.code = "ok" /\ r.enabled
    [] op = "toBeDisabled"    -> r.code = "ok" /\ ~r.enabled
    [] op = "toBeAttached"    -> r.code = "ok"

(* Where the call goes with the answer r.                                    *)
After(op, r) ==
  CASE op \in Waits   -> IF Fatal(r) THEN "rejected" ELSE IF MatchesState(r, op) THEN "resolved" ELSE "asleep"
    [] op \in Asserts -> IF op = "toBeAttached" /\ r.code = "NOT_SUPPORTED" THEN "rejected"
                         ELSE IF Passes(r, op) THEN "resolved" ELSE "asleep"
    [] op \in Asks    -> IF r.code = "NOT_SUPPORTED" THEN "rejected" ELSE "resolved"
    [] op \in Shots   -> IF r.code = "ok" THEN "capturing" ELSE "rejected"
    [] op \in Acts    -> IF Fatal(r) THEN "rejected"
                         ELSE IF r.code = "ok" /\ r.visible /\ r.enabled THEN op ELSE "asleep"

Decides(r) ==
  /\ lookup' = [lookup EXCEPT !.step = After(lookup.op, r), !.info = r,
                 !.value = IF lookup.op = "isVisible" THEN r.code = "ok" /\ r.visible ELSE r.code = "ok"]
  /\ touched' = [Untouched EXCEPT !.covered = lookup.op = "tap" /\ r.code = "ok" /\ Covered(r.el)]

Moves(step) == lookup' = [lookup EXCEPT !.step = step]

-----------------------------------------------------------------------------
(* The steps of a call.                                                      *)

(* A locator with a parent asks for the parent first, until it is known.     *)
Asking(l, sc) == IF l.within # "" /\ ~sc.known THEN "parent" ELSE "query"

(* A call, on the locator of the last one or on a new one; fill takes a      *)
(* plain testID only.                                                        *)
StartsLookup(op, l) ==
  LET sc == IF l = lookup.loc THEN scope ELSE NoScope IN
  /\ Settled /\ lookups < MaxLookups /\ lookups' = lookups + 1
  /\ scope' = sc
  /\ lookup' = [lookup EXCEPT !.op = op, !.loc = l, !.info = Failed("NOT_FOUND"),
                 !.step = IF op = "fill" /\ (l.index # {} \/ l.within # "") THEN "rejected"
                          ELSE Asking(l, sc)]
  /\ touched' = Untouched /\ seen' = Facts(l) /\ unheard' = FALSE
  /\ UNCHANGED <<baseline, vtVars>>

(* The parent's error is the answer of the query.                            *)
ParentAnswers ==
  LET r == FindSingle(lookup.loc.within) IN
  /\ lookup.step = "parent"
  /\ IF r.code = "ok"
     THEN scope' = [known |-> TRUE, at |-> r.at, tall |-> Heights[r.el], drifted |-> FALSE]
          /\ Moves("query") /\ UNCHANGED touched
     ELSE Decides(r) /\ UNCHANGED scope
  /\ UNCHANGED <<baseline, seen, unheard, vtVars>>

QueryAnswers ==
  /\ lookup.step = "query"
  /\ Decides(Query(lookup.loc))
  /\ UNCHANGED <<scope, baseline, seen, unheard, vtVars>>

(* An evaluate fails: a lost connection, a time-out. The assertions take it  *)
(* for an element that is not there, all but toBeAttached.                   *)
EvaluateFails ==
  /\ lookup.step \in {"parent", "query", "tap", "fill", "capturing"}
  /\ IF lookup.op \in Asserts \ {"toBeAttached"}
     THEN Decides(Failed("NOT_FOUND"))
     ELSE Moves("rejected") /\ UNCHANGED touched
  /\ unheard' = TRUE
  /\ UNCHANGED <<scope, baseline, seen, vtVars>>

(* The sleep between two polls ends before the deadline, or after it.        *)
Polls ==
  /\ lookup.step = "asleep"
  /\ Moves(Asking(lookup.loc, scope))
  /\ UNCHANGED <<scope, baseline, histories, vtVars>>

(* Mutant of Expires: an element that is not there is polled for ever.       *)
ExpiresIfThere ==
  /\ lookup.step = "asleep" /\ Denoted(lookup.loc) # {}
  /\ Moves("rejected")
  /\ UNCHANGED <<scope, baseline, histories, vtVars>>

Expires ==
  /\ lookup.step = "asleep"
  /\ Moves("rejected")
  /\ UNCHANGED <<scope, baseline, histories, vtVars>>

Reaches(by, hit) == touched' = [touched EXCEPT !.by = by, !.hit = hit]

(* Mutant of FallsBack: on whatever the native tap says.                     *)
FallsBackAlways(code) == code # "ok"

FallsBack(code) == code = "NOT_SUPPORTED"

(* The native tap, or else a touch at the centre of the bounds in the        *)
(* answer, if there is a touch backend. Neither looks what lies in front.    *)
Taps ==
  /\ lookup.step = "tap"
  /\ \E code \in NativeTap(lookup.info.handle) :
       \/ /\ code = "ok" /\ Moves("resolved")
          /\ \E landed \in NativeLandings(lookup.info.handle) : Reaches("handle", landed = lookup.info.el)
       \/ code # "ok" /\ ~FallsBack(code) /\ Moves("rejected") /\ UNCHANGED touched
       \/ FallsBack(code) /\ Moves("pointing") /\ UNCHANGED touched
  /\ UNCHANGED <<scope, baseline, seen, unheard, vtVars>>

PointsAt ==
  LET e == lookup.info.el
      y == lookup.info.at + Heights[e] \div 2
  IN
  /\ lookup.step = "pointing"
  /\ \/ Moves("rejected") /\ UNCHANGED touched
     \/ /\ Moves("resolved")
        /\ \E landed \in Takers(y) : Reaches("point", OnScreen(lookup.info.handle) /\ landed = e)
  /\ UNCHANGED <<scope, baseline, seen, unheard, vtVars>>

(* The harness fills the first TextInput with the testID.                    *)
FillsInput ==
  LET inputs == Traverse(lookup.loc.tag) \intersect Inputs IN
  /\ lookup.step = "fill"
  /\ \/ Moves("rejected") /\ UNCHANGED touched     \* no DevTools hook
     \/ IF inputs = {} THEN Moves("rejected") /\ UNCHANGED touched
        ELSE Moves("resolved") /\ Reaches("fill", lookup.info.el \in Nth(inputs, 1))
  /\ UNCHANGED <<scope, baseline, seen, unheard, vtVars>>

(* The element is on the picture: what screenshot returns, and what          *)
(* toMatchSnapshot saves, compares with the baseline, or updates it with.    *)
Pictured(by, hit, update) ==
  LET e == IF hit THEN lookup.info.el ELSE Len(Tags) + 1 IN
  /\ Reaches(by, hit)
  /\ IF lookup.op = "screenshot" \/ baseline = e THEN Moves("resolved") /\ UNCHANGED baseline
     ELSE IF baseline = 0 \/ update THEN Moves("resolved") /\ baseline' = e
     ELSE Moves("rejected") /\ UNCHANGED baseline

(* captureElement of the harness: natively by the handle, or the region      *)
(* where the element is when its bounds are asked for.                       *)
Captures ==
  /\ lookup.step = "capturing"
  /\ \/ viewModule # "whole" /\ Moves("bounds") /\ UNCHANGED <<touched, baseline>>
     \/ Moves("rejected") /\ UNCHANGED <<touched, baseline>>
     \/ \E update \in BOOLEAN :
          viewModule = "whole" /\ Pictured("handle", OnScreen(lookup.info.handle), update)
  /\ UNCHANGED <<scope, seen, unheard, vtVars>>

GetsBounds ==
  LET e == lookup.info.el IN
  /\ lookup.step = "bounds"
  /\ IF OnScreen(lookup.info.handle)
     THEN lookup' = [lookup EXCEPT !.step = "region", !.info = ElementInfo(e)]
          /\ touched' = Untouched
     ELSE Moves("rejected") /\ UNCHANGED touched
  /\ UNCHANGED <<scope, baseline, seen, unheard, vtVars>>

CapturesRegion ==
  /\ lookup.step = "region"
  /\ \/ Moves("rejected") /\ UNCHANGED <<touched, baseline>>
     \/ \E update \in BOOLEAN :
          Pictured("region", OnScreen(lookup.info.handle) /\ screen[lookup.info.el].at = lookup.info.at, update)
  /\ UNCHANGED <<scope, seen, unheard, vtVars>>

(* The app changes the screen, before and during a call; after the last one  *)
(* nobody looks.                                                             *)
ScreenChangesUnder ==
  /\ ~Settled \/ lookups < MaxLookups
  /\ ScreenChanges
  /\ UNCHANGED <<lookups, lookup, baseline, unheard>>
  /\ seen' = IF Settled THEN seen ELSE seen \union Facts(lookup.loc)'
  /\ touched' = IF touched.by = "none" THEN [touched EXCEPT !.disturbed = TRUE] ELSE touched
  /\ scope' = [scope EXCEPT !.drifted = scope.known /\ (@ \/
                 ~\E p \in ParentOf(lookup.loc)' : screen'[p].at = scope.at /\ Heights[p] = scope.tall)]

LookupStep ==
  \/ ParentAnswers \/ QueryAnswers \/ EvaluateFails \/ Polls \/ Expires
  \/ Taps \/ PointsAt \/ FillsInput \/ Captures \/ GetsBounds \/ CapturesRegion

LoNext ==
  \/ \E op \in LocatorOps, l \in Locs : StartsLookup(op, l)
  \/ LookupStep /\ UNCHANGED lookups
  \/ ScreenChangesUnder

LoSpec == LoInit /\ [][LoNext]_locVars

(* Every evaluate ends and every sleep ends, and a loop that goes on reaches *)
(* its deadline.                                                             *)
LoFairness == WF_locVars(LookupStep /\ UNCHANGED lookups)
              /\ SF_locVars(Expires /\ UNCHANGED lookups)

-----------------------------------------------------------------------------
LoTypeOK ==
  /\ VtTypeOK
  /\ lookups \in 0..MaxLookups
  /\ lookup.op \in LocatorOps /\ lookup.loc \in Locs /\ lookup.value \in BOOLEAN
  /\ lookup.step \in {"idle", "parent", "query", "asleep", "tap", "pointing", "fill", "capturing",
                      "bounds", "region", "resolved", "rejected"}
  /\ scope \in [known : BOOLEAN, at : 0..Bottom, tall : Nat, drifted : BOOLEAN]
  /\ baseline \in 0..(Len(Tags) + 1)
  /\ touched \in [by : {"none", "handle", "point", "fill", "region"}, hit : BOOLEAN, disturbed : BOOLEAN,
                 covered : BOOLEAN]
  /\ unheard \in BOOLEAN

(* A call is right about the element: a wait that returns, an assertion that *)
(* passes, a question that is answered, an action that is taken were right   *)
(* at some moment of the call, of the element the locator denotes. Two       *)
(* things spoil it: the parent of a scoped locator has moved away from the   *)
(* bounds the locator keeps, and an evaluate that failed passes for an       *)
(* element that is gone.                                                     *)
LocatorTold ==
  LET op == lookup.op IN
  lookup.step = "resolved" /\ ~scope.drifted =>
    /\ op \in Waits => op \in seen
    /\ op = "toBeVisible" => "visible" \in seen
    /\ op = "toBeEnabled" => "enabled" \in seen
    /\ op = "toBeDisabled" => "disabled" \in seen
    /\ op = "toBeAttached" => "attached" \in seen
    /\ op = "not.toBeVisible" => unheard \/ seen \intersect {"hidden", "detached"} # {}
    /\ op = "isVisible" => IF lookup.value THEN "visible" \in seen
                           ELSE seen \intersect {"hidden", "detached", "ambiguous", "unreadable"} # {}
    /\ op = "bounds" => IF lookup.value THEN "attached" \in seen
                        ELSE seen \intersect {"detached", "ambiguous", "unreadable"} # {}
    /\ op \in Acts => "actionable" \in seen

(* What is tapped, filled or captured is the element that was found, unless  *)
(* the screen changed after it was found, or another view lay in front of    *)
(* the centre of what a tap found, for which no query looks; and a touch is  *)
(* sent to a place only in an app that cannot tap an element. (A region that *)
(* is captured is that of the element, whatever is drawn over it.)           *)
ActionLands ==
  /\ ~touched.hit => touched.disturbed \/ touched.covered
  /\ touched.by = "point" => viewModule = "tapless"
  /\ lookup.step = "resolved" /\ lookup.op \in Acts \union Shots => touched.by # "none"

(* Every call ends, on a screen that never comes to rest too.                *)
LookupEnds == ~Settled ~> Settled
=============================================================================
