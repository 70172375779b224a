--------------------------- MODULE MCVmLifecycle ----------------------------
(***************************************************************************)
(* Instances of VmLifecycle for TLC.  Symmetry is used in the runs that    *)
(* check no liveness.                                                      *)
(***************************************************************************)
EXTENDS VmLifecycle, TLC

Symmetry == Permutations(Pids) \cup Permutations(Calls) \cup Permutations(VMs)
=============================================================================
