--------------------------- MODULE MCPlanArtifacts ---------------------------
(* Small instances of PlanArtifacts for TLC.                               *)
EXTENDS PlanArtifacts, TLC

\* The directories are interchangeable.
Symmetry == Permutations(Dirs)
=============================================================================
