----------------------------- MODULE MCPipeline -----------------------------
(* One document is enough: documents share nothing but the tasks.  Two      *)
(* tasks per service, so that a redelivery can overlap the first attempt.   *)
EXTENDS Pipeline, TLC

CONSTANTS p1, p2, x1, x2

MCParseTasks == {p1, p2}
MCExtractTasks == {x1, x2}
MCSymmetry == Permutations(MCParseTasks) \cup Permutations(MCExtractTasks)
=============================================================================
