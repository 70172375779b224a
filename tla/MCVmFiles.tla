----------------------------- MODULE MCVmFiles ------------------------------
(***************************************************************************)
(* Instances of VmFiles for TLC.                                           *)
(***************************************************************************)
EXTENDS VmFiles, TLC

Symmetry == Permutations(Calls) \cup Permutations(Macs) \cup Permutations(Writes)
=============================================================================
