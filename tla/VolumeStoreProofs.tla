-------------------------- MODULE VolumeStoreProofs --------------------------
(***************************************************************************)
(* What is proved of VolumeStore for every bound on sizes, every set of    *)
(* block contents, snapshot names and backup targets: EnsureVolume and     *)
(* RestoreBackup deliver what they return nil for, whatever failed before. *)
(***************************************************************************)
EXTENDS VolumeStore, SequenceTheorems, TLAPS

Contents == Blocks \cup {0}

(* The arguments of the call that runs.                                    *)
CallInv ==
  /\ pc = "idle" <=> op = "none"
  /\ pc = "idle" => next = 1 /\ want = 0
  /\ pc \in {"create", "volume"} => next = 1
  /\ pc = "copy" => op = "restore"
  /\ op \in {"none", "ensure"} => src = None
  /\ op = "restore" => src \in Targets
  /\ op = "restore" /\ pc # "nil" => backup[src] \in Devices /\ Len(backup[src]) <= want

(* How far the pool and its disk have come.  The disk holds the blocks     *)
(* copied so far and holes.                                                *)
ProgressInv ==
  /\ pc \in {"volume", "copy", "sync"} => origin = src /\ ~finished
  /\ pc \in {"copy", "sync"} => pool = "ready" /\ Len(disk) = want
  /\ pc = "copy" =>
       /\ next <= Len(backup[src]) + 1
       /\ \A i \in 1..Len(disk) : disk[i] = IF i < next THEN backup[src][i] ELSE 0
  /\ pc = "sync" /\ op = "restore" => IsCopy(disk, backup[src])

(* A restored volume that nobody has touched is still a copy.              *)
KeptInv == origin \in Targets /\ finished => pool = "ready" /\ IsCopy(disk, backup[origin])

IInv ==
  /\ TypeOK
  /\ CallInv
  /\ ProgressInv
  /\ KeptInv
  /\ EnsureDelivers
-----------------------------------------------------------------------------
(* What is known of a device.                                              *)
LEMMA DeviceBlocks ==
  ASSUME NEW d \in Devices
  PROVE  Len(d) \in 0..MaxSize /\ d \in [1..Len(d) -> Contents]
<1>1. PICK n \in 0..MaxSize : d \in [1..n -> Contents]
  BY DEF Devices, Contents
<1>2. n \in Nat
  BY <1>1, SizeAssumption
<1>3. d \in Seq(Contents)
  BY <1>1, <1>2, SeqDef
<1>4. Len(d) = n
  BY <1>1, <1>2, <1>3, LenProperties
<1> QED BY <1>1, <1>4

(* A function on 1..n is a device of n blocks.                             *)
LEMMA BlocksDevice ==
  ASSUME NEW n \in 0..MaxSize, NEW d \in [1..n -> Contents]
  PROVE  d \in Devices /\ Len(d) = n
<1>1. d \in Devices
  BY DEF Devices, Contents
<1>2. n \in Nat
  BY SizeAssumption
<1>3. d \in Seq(Contents)
  BY <1>2, SeqDef
<1> QED BY <1>1, <1>2, <1>3, LenProperties

(* Overwriting a block leaves a device of that length.                     *)
LEMMA Overwrite ==
  ASSUME NEW d \in Devices, NEW i, NEW b \in Contents
  PROVE  [d EXCEPT ![i] = b] \in Devices /\ Len([d EXCEPT ![i] = b]) = Len(d)
BY DeviceBlocks, BlocksDevice

(* A new disk is a device of holes.                                        *)
LEMMA HolesDevice ==
  ASSUME NEW n \in 0..MaxSize
  PROVE  Holes(n) \in Devices /\ Len(Holes(n)) = n
BY BlocksDevice DEF Holes, Contents

(* No disk at all counts as one without blocks.                            *)
LEMMA EmptyDevice == <<>> \in Devices
<1>1. 0 \in 0..MaxSize /\ <<>> \in [1..0 -> Contents]
  BY SizeAssumption
<1> QED BY <1>1, BlocksDevice
-----------------------------------------------------------------------------
(* The inductive invariant holds initially.                                *)
LEMMA InitIInv == Init => IInv
<1> SUFFICES ASSUME Init PROVE IInv
  OBVIOUS
<1>1. TypeOK
  <2>1. disk \in Devices
    BY EmptyDevice DEF Init
  <2>2. want \in 0..MaxSize /\ next \in 1..MaxSize + 1
    BY SizeAssumption DEF Init
  <2> QED BY <2>1, <2>2 DEF Init, TypeOK
<1>2. CallInv /\ ProgressInv /\ KeptInv /\ EnsureDelivers
  BY NamesAssumption DEF Init, CallInv, ProgressInv, KeptInv, EnsureDelivers
<1> QED BY <1>1, <1>2 DEF IInv

(* A call ends, with nil or with an error.                                 *)
LEMMA FinishStep ==
  ASSUME IInv, Return \/ Fail
  PROVE  IInv'
BY SizeAssumption DEF Return, Fail, Finish, files, made, IInv, TypeOK, CallInv, ProgressInv,
  KeptInv, EnsureDelivers

(* A call that finds its pool made: EnsureVolume has looked at the disk.   *)
LEMMA ExistingStep ==
  ASSUME IInv,
         \/ \E n \in Sizes : EnsureExisting(n)
         \/ \E t \in Targets, n \in 0..MaxSize : RestoreExisting(t, n)
  PROVE  IInv'
<1>1. CASE \E n \in Sizes : EnsureExisting(n)
  <2>1. PICK n \in Sizes : EnsureExisting(n)
    BY <1>1
  <2>2. /\ pc = "idle" /\ pool = "ready" /\ Len(disk) >= n
        /\ pc' = "nil" /\ op' = "ensure" /\ want' = n
        /\ UNCHANGED <<files, backup, made, src, next>>
    BY <2>1 DEF EnsureExisting
  <2> QED BY <2>2, SizeAssumption DEF Sizes, files, made, IInv, TypeOK, CallInv,
        ProgressInv, KeptInv, EnsureDelivers
<1>2. CASE \E t \in Targets, n \in 0..MaxSize : RestoreExisting(t, n)
  BY <1>2, SizeAssumption DEF RestoreExisting, files, made, IInv, TypeOK, CallInv,
    ProgressInv, KeptInv, EnsureDelivers
<1> QED BY <1>1, <1>2

(* EnsureVolume starts without an image to copy.                           *)
LEMMA EnsureNewStep ==
  ASSUME IInv, NEW n \in Sizes, EnsureNew(n)
  PROVE  IInv'
BY SizeAssumption DEF EnsureNew, Sizes, files, made, IInv, TypeOK, CallInv,
  ProgressInv, KeptInv, EnsureDelivers

(* The disk is made large enough for the image, and no larger than allowed. *)
LEMMA RestoreNewStep ==
  ASSUME IInv, NEW t \in Targets, NEW n \in 0..MaxSize, RestoreNew(t, n)
  PROVE  IInv'
<1>1. backup[t] \in Devices
  BY DEF RestoreNew, IInv, TypeOK
<1>2. Len(backup[t]) \in 0..MaxSize
  BY <1>1, DeviceBlocks
<1>3. want' \in 0..MaxSize /\ Len(backup[t]) <= want'
  BY <1>2, SizeAssumption DEF RestoreNew, Larger
<1>4. TypeOK'
  BY <1>3 DEF RestoreNew, files, made, IInv, TypeOK
<1>5. CallInv'
  BY <1>1, <1>3 DEF RestoreNew, files, made, IInv, CallInv
<1>6. ProgressInv' /\ KeptInv' /\ EnsureDelivers'
  BY DEF RestoreNew, files, made, IInv, ProgressInv, KeptInv, EnsureDelivers
<1> QED BY <1>4, <1>5, <1>6 DEF IInv

(* A new pool is a restored one only when its restore is over.             *)
LEMMA CreatePoolStep ==
  ASSUME IInv, CreatePool
  PROVE  IInv'
<1>1. TypeOK'
  BY EmptyDevice DEF CreatePool, call, IInv, TypeOK
<1> QED BY <1>1 DEF CreatePool, call, IInv, CallInv, ProgressInv, KeptInv, EnsureDelivers

(* A new disk is as large as wanted, and nothing is copied yet.            *)
LEMMA CreateDiskStep ==
  ASSUME IInv, CreateDisk
  PROVE  IInv'
<1>1. want \in 0..MaxSize
  BY DEF IInv, TypeOK
<1>2. Holes(want) \in Devices /\ Len(Holes(want)) = want
  BY <1>1, HolesDevice
<1>3. \A i \in 1..Len(disk') : disk'[i] = 0
  BY <1>2 DEF CreateDisk, Holes
<1>4. TypeOK'
  BY <1>2 DEF CreateDisk, call, made, IInv, TypeOK
<1>5. CallInv'
  BY DEF CreateDisk, call, made, IInv, TypeOK, CallInv
<1>6. ProgressInv'
  <2>1. op = "restore" => Len(backup[src]) \in Nat
    BY DeviceBlocks, SizeAssumption DEF CreateDisk, IInv, CallInv
  <2> QED BY <1>2, <1>3, <2>1, SizeAssumption
        DEF CreateDisk, call, made, IInv, TypeOK, CallInv, ProgressInv
<1>7. KeptInv' /\ EnsureDelivers'
  BY DEF CreateDisk, call, made, IInv, ProgressInv, KeptInv, EnsureDelivers
<1> QED BY <1>4, <1>5, <1>6, <1>7 DEF IInv

(* A hole is not written, and is one already.                              *)
LEMMA CopyBlockStep ==
  ASSUME IInv, CopyBlock
  PROVE  IInv'
<1>1. /\ pc = "copy" /\ next <= Len(backup[src])
      /\ disk' = IF backup[src][next] = 0 THEN disk ELSE [disk EXCEPT ![next] = backup[src][next]]
      /\ next' = next + 1
      /\ UNCHANGED <<pool, snaps, sidecar, backup, made, pc, call>>
  BY DEF CopyBlock
<1>2. backup[src] \in Devices /\ Len(backup[src]) <= want /\ Len(disk) = want
  BY <1>1 DEF IInv, CallInv, ProgressInv
<1>3. Len(backup[src]) \in 0..MaxSize /\ backup[src] \in [1..Len(backup[src]) -> Contents]
  BY <1>2, DeviceBlocks
<1>4. next \in 1..MaxSize + 1 /\ next \in 1..Len(backup[src])
  BY <1>1, <1>3, SizeAssumption DEF IInv, TypeOK
<1>5. backup[src][next] \in Contents
  BY <1>3, <1>4
<1>6. disk \in Devices
  BY DEF IInv, TypeOK
<1>7. disk' \in Devices /\ Len(disk') = Len(disk)
  BY <1>1, <1>5, <1>6, Overwrite
<1>8. disk \in [1..Len(disk) -> Contents] /\ Len(disk) \in 0..MaxSize
  BY <1>6, DeviceBlocks
<1>9. TypeOK'
  BY <1>1, <1>3, <1>4, <1>7, SizeAssumption DEF made, call, IInv, TypeOK
<1>10. CallInv'
  BY <1>1 DEF made, call, IInv, CallInv
<1>11. ASSUME NEW i \in 1..Len(disk')
       PROVE  disk'[i] = IF i < next' THEN backup[src][i] ELSE 0
  <2>1. disk[i] = IF i < next THEN backup[src][i] ELSE 0
    BY <1>1, <1>7 DEF IInv, ProgressInv
  <2>2. CASE i = next
    BY <1>1, <1>4, <1>7, <1>8, <2>1, <2>2
  <2>3. CASE i # next
    BY <1>1, <1>4, <1>7, <1>8, <2>1, <2>3
  <2> QED BY <2>2, <2>3
<1>12. ProgressInv'
  BY <1>1, <1>4, <1>7, <1>11 DEF made, call, IInv, CallInv, ProgressInv
<1>13. KeptInv' /\ EnsureDelivers'
  BY <1>1 DEF made, call, IInv, ProgressInv, KeptInv, EnsureDelivers
<1> QED BY <1>9, <1>10, <1>12, <1>13 DEF IInv

(* The loop ends when all of the image is copied.                          *)
LEMMA CopyEndStep ==
  ASSUME IInv, CopyEnd
  PROVE  IInv'
<1>1. pc = "copy" /\ next > Len(backup[src]) /\ pc' = "sync" /\ op = "restore"
  BY DEF CopyEnd, IInv, CallInv
<1>2. backup[src] \in Devices /\ disk \in Devices
  BY <1>1 DEF IInv, TypeOK, CallInv
<1>3. Len(backup[src]) \in Nat /\ Len(disk) \in Nat /\ next \in Nat
  BY <1>2, DeviceBlocks, SizeAssumption DEF IInv, TypeOK
<1>4. next = Len(backup[src]) + 1
  BY <1>1, <1>3 DEF IInv, ProgressInv
<1>5. IsCopy(disk, backup[src])
  <2>1. Len(disk) >= Len(backup[src])
    BY <1>1, <1>3 DEF IInv, TypeOK, CallInv, ProgressInv
  <2>2. ASSUME NEW i \in 1..Len(disk)
        PROVE  disk[i] = IF i <= Len(backup[src]) THEN backup[src][i] ELSE 0
    <3>1. disk[i] = IF i < next THEN backup[src][i] ELSE 0
      BY <1>1 DEF IInv, ProgressInv
    <3>2. i < next <=> i <= Len(backup[src])
      BY <1>3, <1>4
    <3> QED BY <3>1, <3>2
  <2> QED BY <2>1, <2>2 DEF IsCopy
<1> QED BY <1>1, <1>5 DEF CopyEnd, files, made, call, IInv, TypeOK, CallInv, ProgressInv,
  KeptInv, EnsureDelivers

(* From here on the restored disk is one to be kept.                       *)
LEMMA SyncStep ==
  ASSUME IInv, Sync
  PROVE  IInv'
<1>1. /\ pc = "sync" /\ pc' = "nil" /\ finished' = TRUE
      /\ UNCHANGED <<files, backup, origin, call, next>>
  BY DEF Sync
<1>2. origin = src /\ pool = "ready" /\ Len(disk) = want /\ op \in {"ensure", "restore"}
  BY <1>1 DEF IInv, TypeOK, CallInv, ProgressInv
<1>3. KeptInv'
  BY <1>1, <1>2, NamesAssumption DEF files, call, IInv, CallInv, ProgressInv, KeptInv, IsCopy
<1>4. EnsureDelivers'
  <2>1. want \in Nat
    BY SizeAssumption DEF IInv, TypeOK
  <2> QED BY <1>1, <1>2, <2>1 DEF files, call, EnsureDelivers
<1> QED BY <1>1, <1>3, <1>4 DEF files, call, IInv, TypeOK, CallInv, ProgressInv

(* A sidecar leaves the disk and the images alone.                         *)
LEMMA EnsureOCIStep == IInv /\ EnsureOCI => IInv'
BY DEF EnsureOCI, call, made, IInv, TypeOK, CallInv, ProgressInv, KeptInv, EnsureDelivers

(* A snapshot takes a copy of the disk.                                    *)
LEMMA SnapshotStep ==
  ASSUME IInv, NEW n \in Names, CreateSnapshot(n)
  PROVE  IInv'
BY DEF CreateSnapshot, call, made, IInv, TypeOK, CallInv, ProgressInv, KeptInv, EnsureDelivers

(* A backup replaces an image; a disk made from that image is then a copy  *)
(* of nothing.                                                             *)
LEMMA BackupStep ==
  ASSUME IInv, NEW n \in Names \cup {DiskName}, NEW t \in Targets, CreateBackup(n, t)
  PROVE  IInv'
<1>1. PICK image \in Devices : backup' = [backup EXCEPT ![t] = image]
  BY DEF CreateBackup, IInv, TypeOK
<1>2. /\ pc = "idle" /\ origin' = (IF origin = t THEN None ELSE origin)
      /\ UNCHANGED <<files, finished, pc, call, next>>
  BY DEF CreateBackup
<1>3. KeptInv'
  BY <1>1, <1>2, NamesAssumption DEF files, IInv, TypeOK, KeptInv
<1> QED BY <1>1, <1>2, <1>3 DEF files, call, IInv, TypeOK, CallInv, ProgressInv, EnsureDelivers

(* A removed pool is a copy of nothing; one that is left is what it was.   *)
LEMMA DestroyStep == IInv /\ Destroy => IInv'
<1> SUFFICES ASSUME IInv, Destroy PROVE IInv'
  OBVIOUS
<1>1. /\ pc = "idle" /\ UNCHANGED <<backup, finished, pc, call, next>>
      /\ sidecar' \in BOOLEAN
      /\ \/ /\ pool' = "none" /\ disk' = <<>> /\ origin' = None
            /\ snaps' = [n \in Names |-> None]
         \/ UNCHANGED <<pool, disk, origin, snaps>>
  BY DEF Destroy
<1>2. TypeOK'
  BY <1>1, EmptyDevice DEF call, IInv, TypeOK
<1>3. CallInv' /\ ProgressInv' /\ EnsureDelivers'
  BY <1>1 DEF call, IInv, CallInv, ProgressInv, EnsureDelivers
<1>4. KeptInv'
  BY <1>1, NamesAssumption DEF call, IInv, KeptInv, IsCopy
<1> QED BY <1>2, <1>3, <1>4 DEF IInv

(* Neither is one that a guest has written to.                             *)
LEMMA GuestStep ==
  ASSUME IInv, NEW i \in Sizes, NEW b \in Blocks, GuestWrite(i, b)
  PROVE  IInv'
<1>1. disk' \in Devices
  BY Overwrite DEF GuestWrite, Contents, IInv, TypeOK
<1> QED BY <1>1, NamesAssumption
  DEF GuestWrite, call, IInv, TypeOK, CallInv, ProgressInv, KeptInv, EnsureDelivers

(* Every step preserves the inductive invariant.                           *)
LEMMA NextIInv == IInv /\ [Next]_vars => IInv'
<1> SUFFICES ASSUME IInv, [Next]_vars PROVE IInv'
  OBVIOUS
<1>1. CASE UNCHANGED vars
  BY <1>1 DEF vars, IInv, TypeOK, CallInv, ProgressInv, KeptInv, EnsureDelivers, IsCopy
<1> QED BY <1>1, FinishStep, ExistingStep, EnsureNewStep, RestoreNewStep, CreatePoolStep,
  CreateDiskStep, CopyBlockStep, CopyEndStep, SyncStep, EnsureOCIStep, SnapshotStep,
  BackupStep, DestroyStep, GuestStep DEF Next

(* IInv is an invariant of the store.                                      *)
THEOREM Inductive == Spec => []IInv
BY InitIInv, NextIInv, PTL DEF Spec

(* Every variable keeps its type: no disk or backup outgrows MaxSize.      *)
THEOREM TypeCorrect == Spec => []TypeOK
<1>1. IInv => TypeOK
  BY DEF IInv
<1> QED BY <1>1, Inductive, PTL

(* An EnsureVolume that returns nil leaves a disk as large as asked for,   *)
(* whatever calls failed, or died with the plugin, before.                 *)
THEOREM EnsureAlwaysDelivers == Spec => []EnsureDelivers
<1>1. IInv => EnsureDelivers
  BY DEF IInv
<1> QED BY <1>1, Inductive, PTL

(* A RestoreBackup that returns nil has restored the frozen image, or the  *)
(* restore that made the pool has, and nobody has written since.           *)
THEOREM RestoreAlwaysDelivers == Spec => []RestoreDelivers
<1>1. IInv => RestoreDelivers
  BY DEF IInv, CallInv, KeptInv, RestoreDelivers
<1> QED BY <1>1, Inductive, PTL
=============================================================================
