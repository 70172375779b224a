--------------------------- MODULE MCOciVersions ----------------------------
(***************************************************************************)
(* Instances of OciVersions for TLC.                                       *)
(***************************************************************************)
EXTENDS OciVersions, TLC

Symmetry ==
  Permutations(Hosts) \cup Permutations(Calls) \cup Permutations(Tags)
    \cup Permutations(Writes) \cup Permutations(Overlays)
=============================================================================
