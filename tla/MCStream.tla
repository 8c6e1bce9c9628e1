------------------------------ MODULE MCStream ------------------------------
(* Stream for TLC. *)
EXTENDS Stream, TLC

\* Readings are only compared with each other.
Symmetry == Permutations(Readings)
=============================================================================
