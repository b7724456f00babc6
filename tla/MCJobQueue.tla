----------------------------- MODULE MCJobQueue -----------------------------
(* Small instances of JobQueue for TLC.                                    *)
EXTENDS JobQueue, TLC

\* Runs and repos are interchangeable; used by the safety run only.
Symmetry == Permutations(Runs) \cup Permutations(Repos)
=============================================================================
