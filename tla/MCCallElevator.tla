--------------------------- MODULE MCCallElevator ---------------------------
(* Small instances of CallElevator for TLC.                                 *)
EXTENDS CallElevator, TLC

Symmetric == Permutations(Requests) \cup Permutations(Elevators)
=============================================================================
