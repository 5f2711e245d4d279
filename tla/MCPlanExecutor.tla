--------------------------- MODULE MCPlanExecutor ---------------------------
(***************************************************************************)
(* The three shapes of plan parseSql makes, and a second selection.        *)
(***************************************************************************)
EXTENDS PlanExecutor

CONSTANTS c1, c2, selMath, selBob, joinStudent, projName, sumAge

TheOps == {selMath, selBob, joinStudent, projName, sumAge}

ThePlans ==
  {<<selMath, joinStudent, projName>>, <<selBob, projName>>, <<selMath, projName>>, <<sumAge>>}
=============================================================================
