--------------------------- MODULE MCVolumeStore ----------------------------
(***************************************************************************)
(* Instances of VolumeStore for TLC.                                       *)
(***************************************************************************)
EXTENDS VolumeStore, TLC

Symmetry == Permutations(Names) \cup Permutations(Targets)
=============================================================================
