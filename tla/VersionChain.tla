---------------------------- MODULE VersionChain ----------------------------
(***************************************************************************)
(* What an OCI-overlay volume promises to those who use it: it stands on   *)
(* the base it was provisioned with and has one current version, which is  *)
(* what the next guest is shown and which only ever gains writes.          *)
(* OciVersions implements it, with its sidecar, its tags and its overlays, *)
(* as long as calls do not overlap.                                        *)
(***************************************************************************)
CONSTANTS Hosts, Writes,
          Bases, NoBase,      \* what a volume stands on; there is no volume
          NoView              \* the volume is not attached

VARIABLES
  base,       \* the base, or NoBase
  version,    \* the writes in the current version
  shown       \* shown[h]: the writes the guest on h sees, or NoView

vars == <<base, version, shown>>

Closed == [h \in Hosts |-> NoView]

Init ==
  /\ base \in Bases \cup {NoBase}
  /\ version = {}
  /\ shown = Closed

(* From a golden image, or from a version of another volume.               *)
Provision(b, v) ==
  /\ base = NoBase
  /\ base' = b
  /\ version' = v
  /\ UNCHANGED shown

(* A guest that gets the volume is shown its current version, whole.       *)
Open(h) ==
  /\ base # NoBase
  /\ shown[h] = NoView
  /\ shown' = [shown EXCEPT ![h] = version]
  /\ UNCHANGED <<base, version>>

Write(h, w) ==
  /\ shown[h] # NoView
  /\ shown' = [shown EXCEPT ![h] = @ \cup {w}]
  /\ UNCHANGED <<base, version>>

(* A snapshot or a backup makes a new version: nothing is taken away.      *)
Advance(v) ==
  /\ base # NoBase
  /\ version \subseteq v
  /\ version' = v
  /\ UNCHANGED <<base, shown>>

Close(h) ==
  /\ shown' = [shown EXCEPT ![h] = NoView]
  /\ UNCHANGED <<base, version>>

(* The plugin dies, or DestroyVolume stops the attachments.                *)
CloseAll ==
  /\ shown' = Closed
  /\ UNCHANGED <<base, version>>

Destroy ==
  /\ base' = NoBase
  /\ version' = {}
  /\ UNCHANGED shown

Next ==
  \/ \E b \in Bases, v \in SUBSET Writes : Provision(b, v)
  \/ \E h \in Hosts : Open(h) \/ Close(h) \/ \E w \in Writes : Write(h, w)
  \/ \E v \in SUBSET Writes : Advance(v)
  \/ CloseAll \/ Destroy

Spec == Init /\ [][Next]_vars
=============================================================================
