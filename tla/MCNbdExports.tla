---------------------------- MODULE MCNbdExports ----------------------------
(***************************************************************************)
(* Instances of NbdExports for TLC.  Symmetry is used in the runs that     *)
(* check no liveness.                                                      *)
(***************************************************************************)
EXTENDS NbdExports, TLC

Symmetry ==
  Permutations(Servers) \cup Permutations(Calls) \cup Permutations(Clients)
    \cup Permutations(Volumes) \cup Permutations(Hosts)
=============================================================================
