------------------------------ MODULE MCBridge ------------------------------
(* Small instances of Bridge for TLC.                                      *)
EXTENDS Bridge, TLC

\* Requests and nonces are interchangeable; used by safety runs only.
Symmetry == Permutations(Requests) \cup Permutations(Nonces)
=============================================================================
