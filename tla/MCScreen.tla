------------------------------- MODULE MCScreen -------------------------------
(* For TLC: what a test does to the screen of the app: locators and          *)
(* assertions, scrollIntoView, and the harness in the app; one of them in a  *)
(* behaviour.                                                                *)
EXTENDS Locators, ScrollIntoView, Harness

(* A panel of height 2 with a row in it, and another row further down, which *)
(* is a text input.                                                          *)
PanelAndRows   == <<"panel", "row", "row">>
PanelHeights   == <<2, 1, 1>>
PanelPlaces    == <<0, 0, 1>>

AsLocator(tag, index, within) == [tag |-> tag, index |-> index, within |-> within]
SomeLocators ==
  {AsLocator("row", {}, ""), AsLocator("row", {-1}, ""), AsLocator("row", {}, "panel")}

VARIABLE part

ScreenInit ==
  /\ part \in {"locators", "scrolling", "harness"}
  /\ LoInit /\ ScInit /\ HaInit
  /\ part # "locators" => viewModule = "whole" /\ lookup.loc = AsLocator("row", {}, "")
  /\ part # "scrolling" => /\ \A axis \in Axes : home[axis] = 0
                           /\ extent["vertical"] = CHOOSE l \in Lengths : TRUE
  /\ part # "harness" => touchModule /\ field = [controlled |-> TRUE, handler |-> TRUE,
                                                 mirror |-> TRUE, state |-> 0, native |-> 0]

ScreenNext ==
  \/ part = "locators" /\ LoNext /\ UNCHANGED <<part, scVars, haVars>>
  \/ part = "scrolling" /\ ScNext /\ UNCHANGED <<part, locVars, haVars>>
  \/ part = "harness" /\ HaNext /\ UNCHANGED <<part, locVars, scVars>>

ScreenFairness ==
  /\ WF_locVars(part = "locators" /\ LookupStep /\ UNCHANGED lookups)
  /\ SF_locVars(part = "locators" /\ Expires /\ UNCHANGED lookups)
  /\ WF_scVars(part = "scrolling" /\ ScLoop) /\ WF_scVars(part = "scrolling" /\ Coasts)
  /\ WF_haVars(part = "harness" /\ RafTimesOut)

ScreenSpec == ScreenInit /\ [][ScreenNext]_<<part, locVars, scVars, haVars>> /\ ScreenFairness

(* scrollIntoView ends as it says, whatever the list does meanwhile; and the *)
(* types of the three parts.                                                 *)
ScrollAsTold == LoTypeOK /\ ScTypeOK /\ HaTypeOK /\ ScrollTold

(* Every call of a locator or an assertion, every scrollIntoView and every   *)
(* waitForRaf ends.                                                          *)
EveryCallEnds == LookupEnds /\ (part = "scrolling" => ScrollEnds) /\ RafEnds
=============================================================================
