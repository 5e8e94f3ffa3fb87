-------------------------- MODULE MCSyncWriteGate --------------------------
(* Instances of SyncWriteGate for TLC. *)
EXTENDS SyncWriteGate, TLC

Symmetry == Permutations(Writer)
=============================================================================
