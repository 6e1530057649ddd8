------------------------- MODULE MCMovementPipeline -------------------------
(* Small instances of MovementPipeline for TLC.                             *)
EXTENDS MovementPipeline

Symmetric == Permutations(Trips) \cup Permutations(Loops)
=============================================================================
