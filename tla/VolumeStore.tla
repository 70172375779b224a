---------------------------- MODULE VolumeStore -----------------------------
(***************************************************************************)
(* Provisioning of one volume of the "govolume" driver, its snapshots and  *)
(* its backups (src/builtin/govolume.go): EnsureVolume, RestoreBackup,     *)
(* CreateSnapshot, CreateBackup and DestroyVolume, for pool volumes, and   *)
(* how EnsureVolume in OCI mode meets them.  One call runs at a time; any  *)
(* step may fail, and the plugin may die between any two.                  *)
(*                                                                         *)
(* A device is a sequence of blocks, one per unit of size; 0 is a hole.    *)
(***************************************************************************)
EXTENDS Naturals, Sequences

CONSTANTS MaxSize,      \* bound: the largest size asked for
          Blocks,       \* contents of a block that is no hole
          Names,        \* snapshot names
          DiskName,     \* the name of the live disk, which is none of them
          Targets,      \* backup targets, oci://host/repo:tag
          Ops,          \* the RPCs the agent issues
          Faults,       \* TRUE: steps fail and the plugin dies
          None          \* no snapshot, no backup, no argument

ASSUME SizeAssumption == MaxSize \in Nat \ {0}
ASSUME BlocksAssumption == Blocks \subseteq Nat \ {0}
ASSUME OpsAssumption ==
  Ops \subseteq {"ensure", "restore", "ensureoci", "snapshot", "backup", "destroy"}
ASSUME NamesAssumption == DiskName \notin Names /\ None \notin Targets
ASSUME FaultsAssumption == Faults \in BOOLEAN

VARIABLES
  pool,     \* pool.bin: "none", "bare" (no volume in it) or "ready" (a disk)
  disk,     \* the blocks of the pool's volume "disk"
  snaps,    \* snaps[n]: the blocks of snapshot n, or None
  sidecar,  \* oci.json exists
  backup,   \* backup[t]: the blocks of the frozen image at t, or None
  origin,   \* the backup the disk should be a copy of, None for none
  finished, \* the call that made the pool has returned nil
  pc, op,   \* next step of the call that runs, and which call it is
  want,     \* SizeGiB
  src,      \* the frozen image a restore has open
  next      \* the next block a restore copies

call == <<op, want, src>>
files == <<pool, disk, snaps, sidecar>>
made == <<origin, finished>>
vars == <<pool, disk, snaps, sidecar, backup, origin, finished, pc, op, want, src, next>>

Sizes == 1..MaxSize
Devices == UNION {[1..n -> Blocks \cup {0}] : n \in 0..MaxSize}
Holes(n) == [i \in 1..n |-> 0]
(* Mutant of Larger: the sizes are added. *)
Sum2(a, b) == a + b

Larger(a, b) == IF a > b THEN a ELSE b

(* What fileExists may answer of a file: an error of os.Stat is a no.      *)
fileExists(there) == IF there /\ Faults THEN BOOLEAN ELSE {there}

TypeOK ==
  /\ pool \in {"none", "bare", "ready"}
  /\ disk \in Devices
  /\ snaps \in [Names -> Devices \cup {None}]
  /\ sidecar \in BOOLEAN
  /\ backup \in [Targets -> Devices \cup {None}]
  /\ origin \in Targets \cup {None} /\ finished \in BOOLEAN
  /\ pc \in {"idle", "create", "volume", "copy", "sync", "nil"}
  /\ op \in {"none", "ensure", "restore"}
  /\ want \in 0..MaxSize
  /\ src \in Targets \cup {None}
  /\ next \in 1..MaxSize + 1

Init ==
  /\ pool = "none" /\ disk = <<>> /\ sidecar = FALSE
  /\ snaps = [n \in Names |-> None]
  /\ backup = [t \in Targets |-> None]
  /\ origin = None /\ finished = FALSE
  /\ pc = "idle" /\ op = "none" /\ want = 0 /\ src = None /\ next = 1

Finish ==
  /\ pc' = "idle" /\ op' = "none" /\ want' = 0 /\ src' = None /\ next' = 1

(* A call that returns nil can be seen by the properties before it ends.   *)
Return ==
  /\ pc = "nil"
  /\ Finish
  /\ UNCHANGED <<files, backup, made>>

(* A step of the call fails, and the error is returned; or the plugin dies *)
(* there.  Nothing is undone: what the call has made so far stays.         *)
Fail ==
  /\ Faults
  /\ pc \notin {"idle", "nil"}
  /\ Finish
  /\ UNCHANGED <<files, backup, made>>

-----------------------------------------------------------------------------
(* EnsureVolume *)

(* Mutant of EnsureExisting: the file is enough. *)
EnsureExistingUnchecked(n) ==
  /\ "ensure" \in Ops /\ pc = "idle"
  /\ TRUE \in fileExists(pool # "none")
  /\ pc' = "nil" /\ op' = "ensure" /\ want' = n
  /\ UNCHANGED <<files, backup, made, src, next>>

(* An existing pool must have a disk that is large enough; every other     *)
(* case is an error that changes nothing.                                  *)
EnsureExisting(n) ==
  /\ "ensure" \in Ops /\ pc = "idle"
  /\ TRUE \in fileExists(pool # "none")
  /\ pool = "ready"
  /\ Len(disk) >= n
  /\ pc' = "nil" /\ op' = "ensure" /\ want' = n
  /\ UNCHANGED <<files, backup, made, src, next>>

EnsureNew(n) ==
  /\ "ensure" \in Ops /\ pc = "idle"
  /\ FALSE \in fileExists(pool # "none")
  /\ pc' = "create" /\ op' = "ensure" /\ want' = n
  /\ UNCHANGED <<files, backup, made, src, next>>

(* EnsureVolume and RestoreBackup of a spec with Format "oci" look for the  *)
(* sidecar only.                                                           *)
EnsureOCI ==
  /\ "ensureoci" \in Ops /\ pc = "idle"
  /\ FALSE \in fileExists(sidecar)
  /\ sidecar' = TRUE
  /\ UNCHANGED <<pool, disk, snaps, backup, made, pc, call, next>>

-----------------------------------------------------------------------------
(* RestoreBackup and restoreInto *)

(* "already restored": a pool.bin that exists, whatever is in it.          *)
RestoreExisting(t, n) ==
  /\ "restore" \in Ops /\ pc = "idle"
  /\ TRUE \in fileExists(pool # "none")
  /\ pc' = "nil" /\ op' = "restore" /\ want' = n /\ src' = t
  /\ UNCHANGED <<files, backup, made, next>>

(* The image is opened; the disk is never smaller than the image.          *)
RestoreNew(t, n) ==
  /\ "restore" \in Ops /\ pc = "idle"
  /\ FALSE \in fileExists(pool # "none")
  /\ backup[t] # None
  /\ pc' = "create" /\ op' = "restore" /\ src' = t
  /\ want' = Larger(Len(backup[t]), n)
  /\ UNCHANGED <<files, backup, made, next>>

-----------------------------------------------------------------------------
(* The steps the two have in common *)

(* createPool makes the pool afresh where one was taken for missing.       *)
CreatePool ==
  /\ pc = "create"
  /\ pool' = "bare" /\ disk' = <<>>
  /\ snaps' = [n \in Names |-> None]
  /\ origin' = src /\ finished' = FALSE
  /\ pc' = "volume"
  /\ UNCHANGED <<sidecar, backup, call, next>>

CreateDisk ==
  /\ pc = "volume"
  /\ pool' = "ready"
  /\ disk' = Holes(want)
  /\ pc' = IF op = "restore" THEN "copy" ELSE "sync"
  /\ UNCHANGED <<snaps, sidecar, backup, made, call, next>>

(* copyDevice, block by block: a hole is not written.                      *)
CopyBlock ==
  /\ pc = "copy"
  /\ next <= Len(backup[src])
  /\ disk' = IF backup[src][next] = 0 THEN disk
             ELSE [disk EXCEPT ![next] = backup[src][next]]
  /\ next' = next + 1
  /\ UNCHANGED <<pool, snaps, sidecar, backup, made, pc, call>>

(* Mutant of CopyEnd: the last block is left out. *)
CopyEndEarly ==
  /\ pc = "copy"
  /\ next >= Len(backup[src])
  /\ pc' = "sync"
  /\ UNCHANGED <<files, backup, made, call, next>>

CopyEnd ==
  /\ pc = "copy"
  /\ next > Len(backup[src])
  /\ pc' = "sync"
  /\ UNCHANGED <<files, backup, made, call, next>>

Sync ==
  /\ pc = "sync"
  /\ pc' = "nil"
  /\ finished' = TRUE
  /\ UNCHANGED <<files, backup, origin, call, next>>

-----------------------------------------------------------------------------
(* CreateSnapshot, CreateBackup, DestroyVolume, and a guest.  Each of the  *)
(* first two is one operation of a library.                                *)

CreateSnapshot(n) ==
  /\ "snapshot" \in Ops /\ pc = "idle"
  /\ pool = "ready" /\ FALSE \in fileExists(sidecar)
  /\ snaps[n] = None
  /\ snaps' = [snaps EXCEPT ![n] = disk]
  /\ UNCHANGED <<pool, disk, sidecar, backup, made, pc, call, next>>

(* The name is not checked: the live disk can be backed up, too.           *)
CreateBackup(n, t) ==
  LET image == IF n = DiskName THEN disk ELSE snaps[n]
  IN /\ "backup" \in Ops /\ pc = "idle"
     /\ pool = "ready" /\ FALSE \in fileExists(sidecar)
     /\ image # None
     /\ backup' = [backup EXCEPT ![t] = image]
     /\ origin' = IF origin = t THEN None ELSE origin
     /\ UNCHANGED <<files, finished, pc, call, next>>

(* os.RemoveAll, file by file: it may fail, or the plugin die, half way.   *)
Destroy ==
  /\ "destroy" \in Ops /\ pc = "idle"
  /\ \E gone \in SUBSET {"pool", "sidecar"} :
       /\ ~Faults => gone = {"pool", "sidecar"}
       /\ sidecar' = (sidecar /\ "sidecar" \notin gone)
       /\ IF "pool" \in gone
          THEN /\ pool' = "none" /\ disk' = <<>> /\ origin' = None
               /\ snaps' = [n \in Names |-> None]
          ELSE UNCHANGED <<pool, disk, origin, snaps>>
  /\ UNCHANGED <<backup, finished, pc, call, next>>

(* Through an export, which opens only a pool that has a disk.             *)
GuestWrite(i, b) ==
  /\ pc = "idle"
  /\ pool = "ready" /\ FALSE \in fileExists(sidecar)
  /\ i \in 1..Len(disk) /\ disk[i] # b
  /\ disk' = [disk EXCEPT ![i] = b]
  /\ origin' = None
  /\ UNCHANGED <<pool, snaps, sidecar, backup, finished, pc, call, next>>

Next ==
  \/ Return \/ Fail
  \/ \E n \in Sizes : EnsureExisting(n) \/ EnsureNew(n)
  \/ \E t \in Targets, n \in 0..MaxSize : RestoreExisting(t, n) \/ RestoreNew(t, n)
  \/ EnsureOCI
  \/ CreatePool \/ CreateDisk \/ CopyBlock \/ CopyEnd \/ Sync
  \/ \E n \in Names : CreateSnapshot(n)
  \/ \E n \in Names \cup {DiskName}, t \in Targets : CreateBackup(n, t)
  \/ Destroy
  \/ \E i \in Sizes, b \in Blocks : GuestWrite(i, b)

Spec == Init /\ [][Next]_vars
-----------------------------------------------------------------------------
(* d is the image, followed by holes up to its own size. *)
IsCopy(d, image) ==
  /\ Len(d) >= Len(image)
  /\ \A i \in 1..Len(d) : d[i] = IF i <= Len(image) THEN image[i] ELSE 0

(* EnsureVolume that returns nil leaves a disk at least as large as asked  *)
(* for, whatever failed before.                                            *)
EnsureDelivers == pc = "nil" /\ op = "ensure" => pool = "ready" /\ Len(disk) >= want

(* RestoreBackup that returns nil leaves a copy of the frozen image, when  *)
(* it has made the pool itself, and when an earlier restore of that image  *)
(* has, and returned, and no guest has written since.                      *)
RestoreDelivers ==
  pc = "nil" /\ op = "restore" /\ origin = src /\ finished =>
    pool = "ready" /\ IsCopy(disk, backup[src])

(* "RestoreBackup materialises backupURL" and is idempotent: the same,     *)
(* whatever became of the earlier restore.                                 *)
RetryDelivers ==
  pc = "nil" /\ op = "restore" /\ origin = src =>
    pool = "ready" /\ IsCopy(disk, backup[src])
=============================================================================
