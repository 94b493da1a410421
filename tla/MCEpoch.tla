------------------------------ MODULE MCEpoch -------------------------------
(* Small instances of Epoch for TLC. *)
EXTENDS Epoch, TLC

CONSTANTS n1, n2, n3

Symmetry == Permutations(Node)
=============================================================================
