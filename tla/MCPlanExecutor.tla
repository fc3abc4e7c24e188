--------------------------- MODULE MCPlanExecutor ---------------------------
(* Instances of PlanExecutor: one platform, or both in the order of "all". *)
EXTENDS PlanExecutor

OnePlatform == << "ios" >>
BothPlatforms == << "ios", "android" >>
=============================================================================
