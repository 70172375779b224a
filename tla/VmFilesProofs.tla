--------------------------- MODULE VmFilesProofs ----------------------------
(***************************************************************************)
(* What is proved of VmFiles for every set of calls and addresses, every   *)
(* bound on sizes and every set of writes, when calls of one RPC do not    *)
(* overlap (SameOp = FALSE).                                               *)
(***************************************************************************)
EXTENDS VmFiles, TLAPS

(* Where a call is tells its RPC and whether it has a file open; an open   *)
(* file that is linked is there, one that is not was taken by a DeleteVM.  *)
CallInv ==
  /\ qemu = "disk" => disk # NoFile
  /\ \A c \in Calls :
       /\ pc[c] \in {"mkdir", "open"} => op[c] \in {"create", "attach"}
       /\ fd[c] # "none" <=> pc[c] \in {"write", "size"}
       /\ pc[c] \in {"launch", "diskless"} => op[c] = "start"
       /\ pc[c] = "remove" => op[c] = "delete"
       /\ pc[c] = "write" => op[c] = "create"
       /\ pc[c] = "size" => op[c] = "attach"
       /\ op[c] = "attach" /\ pc[c] \in {"mkdir", "open", "size"} => size[c] > 0
       /\ fd[c] = "gone" => raced[c]
       /\ fd[c] = "linked" /\ op[c] = "create" => mac # NoFile
       /\ fd[c] = "linked" /\ op[c] = "attach" => disk # NoFile

(* Two calls that run are of different RPCs.                               *)
OneEach ==
  \A c, d \in Calls :
    c # d /\ pc[c] # "idle" /\ pc[d] # "idle" => op[c] # op[d]

(* A CreateVM that is about to make mac.txt has found none, and none has   *)
(* come since, or it knows no better (blind); a file without an address is *)
(* being written or torn.                                                  *)
MacInv ==
  /\ \A c \in Calls :
       /\ At(c, "create", "open") => mac = NoFile \/ blind[c]
       /\ fd[c] = "linked" /\ op[c] = "create" => mac = Empty
  /\ mac = Empty =>
       \/ "mac" \in torn
       \/ \E c \in Calls : fd[c] = "linked" /\ op[c] = "create"

(* The same for AttachDisk and a disk without a size.                      *)
DiskInv ==
  /\ \A c \in Calls :
       At(c, "attach", "mkdir") \/ At(c, "attach", "open") => disk = NoFile \/ blind[c]
  /\ disk # NoFile /\ disk.size = 0 =>
       \/ "disk" \in torn
       \/ \E c \in Calls : fd[c] = "linked" /\ op[c] = "attach"

Serial == OneEach /\ MacInv /\ MacDelivered /\ DiskInv /\ DiskDelivered

IInv == TypeOK /\ CallInv /\ (SameOp \/ Serial)
-----------------------------------------------------------------------------
(* The inductive invariant holds initially.                                *)
LEMMA InitIInv == Init => IInv
<1>1. Init => TypeOK
  <2> SUFFICES ASSUME Init PROVE TypeOK
    OBVIOUS
  <2>1. 0 \in 0..MaxSize
    BY SizeAssumption
  <2> QED BY <2>1 DEF Init, TypeOK, RPCs
<1>2. Init => CallInv
  BY DEF Init, CallInv
<1>3. Init => Serial
  BY FilesAssumption DEF Init, Serial, OneEach, MacInv, MacDelivered, DiskInv,
    DiskDelivered, At
<1> QED BY <1>1, <1>2, <1>3 DEF IInv

(* A call begins: of its RPC, no other is running.                         *)
LEMMA BeginStep ==
  ASSUME IInv, NEW c \in Calls, NEW o \in RPCs, NEW l \in {"mkdir", "stat", "remove"},
         NEW n \in 0..MaxSize, l = "mkdir" => o = "create",
         l = "remove" => o = "delete", Begin(c, o, l, n)
  PROVE  IInv'
<1>1. TypeOK'
  BY SizeAssumption, FilesAssumption DEF IInv, Begin, TypeOK, CallInv,
    files, Disks, RPCs, Goto
<1>2. CallInv'
  BY SizeAssumption, FilesAssumption DEF IInv, Begin, TypeOK, CallInv,
    files, Disks, RPCs, Goto
<1>3. ~SameOp => Serial'
  BY SizeAssumption, FilesAssumption DEF IInv, Begin, TypeOK, CallInv,
    Serial, OneEach, MacInv, MacDelivered, DiskInv, DiskDelivered, files,
    Disks, RPCs, Goto, At
<1> QED BY <1>1, <1>2, <1>3, SameOpAssumption DEF IInv

(* A call that has ended is no longer spoken of.                           *)
LEMMA ReturnStep ==
  ASSUME IInv, NEW c \in Calls, Return(c)
  PROVE  IInv'
<1>1. TypeOK'
  BY SizeAssumption, FilesAssumption DEF IInv, Return, Leave, TypeOK, CallInv,
    files, Disks, RPCs, Goto, Step
<1>2. CallInv'
  BY SizeAssumption, FilesAssumption DEF IInv, Return, Leave, TypeOK, CallInv,
    files, Disks, RPCs, Goto, Step
<1>3. ~SameOp => Serial'
  BY SizeAssumption, FilesAssumption DEF IInv, Return, Leave, TypeOK, CallInv,
    Serial, OneEach, MacInv, MacDelivered, DiskInv, DiskDelivered, files,
    Disks, RPCs, Goto, Step, At
<1> QED BY <1>1, <1>2, <1>3, SameOpAssumption DEF IInv

(* What is left half done is torn.                                         *)
LEMMA FailsStep ==
  ASSUME IInv, NEW c \in Calls, Fails(c)
  PROVE  IInv'
<1>1. TypeOK'
  BY SizeAssumption, FilesAssumption DEF IInv, Fails, Leave, TypeOK, CallInv,
    files, Disks, RPCs, Goto, Half
<1>2. CallInv'
  BY SizeAssumption, FilesAssumption DEF IInv, Fails, Leave, TypeOK, CallInv,
    files, Disks, RPCs, Goto, Half
<1>3. ~SameOp => Serial'
  BY SizeAssumption, FilesAssumption DEF IInv, Fails, Leave, TypeOK, CallInv,
    Serial, OneEach, MacInv, MacDelivered, DiskInv, DiskDelivered, files,
    Disks, RPCs, Goto, At, Half
<1> QED BY <1>1, <1>2, <1>3, SameOpAssumption DEF IInv

(* Only the directory comes into being.                                    *)
LEMMA MakeDirStep ==
  ASSUME IInv, NEW c \in Calls, MakeDir(c)
  PROVE  IInv'
<1>1. TypeOK'
  BY SizeAssumption, FilesAssumption DEF IInv, MakeDir, TypeOK, CallInv,
    Disks, RPCs, Goto, Step
<1>2. CallInv'
  BY SizeAssumption, FilesAssumption DEF IInv, MakeDir, TypeOK, CallInv,
    Disks, RPCs, Goto, Step
<1>3. ~SameOp => Serial'
  BY SizeAssumption, FilesAssumption DEF IInv, MakeDir, TypeOK, CallInv,
    Serial, OneEach, MacInv, MacDelivered, DiskInv, DiskDelivered, Disks,
    RPCs, Goto, Step, At
<1> QED BY <1>1, <1>2, <1>3, SameOpAssumption DEF IInv

(* A file that is found holds an address or is torn.                       *)
LEMMA MacStatStep ==
  ASSUME IInv, NEW c \in Calls, MacStat(c)
  PROVE  IInv'
<1>1. TypeOK'
  BY SizeAssumption, FilesAssumption
    DEF IInv, MacStat, Looked, fileExists, TypeOK, CallInv,
    files, Disks, RPCs, Goto, Step, At
<1>2. CallInv'
  BY SizeAssumption, FilesAssumption
    DEF IInv, MacStat, Looked, fileExists, TypeOK, CallInv,
    files, Disks, RPCs, Goto, Step, At
<1>3. ~SameOp => Serial'
  <2> SUFFICES ASSUME ~SameOp PROVE Serial'
    OBVIOUS
  <2>1. /\ UNCHANGED <<dir, mac, disk, qemu, torn, op, size, fd, raced>>
        /\ blind' \in [Calls -> BOOLEAN]
        /\ \A d \in Calls \ {c} : pc'[d] = pc[d] /\ blind'[d] = blind[d]
        /\ pc[c] = "stat" /\ op[c] = "create"
        /\ pc'[c] \in {"nil", "open"}
        /\ pc'[c] = "nil" => mac # NoFile
        /\ pc'[c] = "open" => mac = NoFile \/ blind'[c]
    <3>1. PICK found \in fileExists(mac) :
            Looked(c, mac, found, IF found THEN "nil" ELSE "open")
      BY DEF MacStat
    <3>2. pc' = [pc EXCEPT ![c] = IF found THEN "nil" ELSE "open"]
      BY <3>1 DEF Looked, Goto
    <3>3. blind' = [blind EXCEPT ![c] = ~found /\ mac # NoFile]
      BY <3>1 DEF Looked
    <3>4. found => mac # NoFile
      BY <3>1 DEF fileExists
    <3>5. pc'[c] = (IF found THEN "nil" ELSE "open") /\ blind'[c] = (~found /\ mac # NoFile)
      BY <3>2, <3>3 DEF IInv, TypeOK
    <3>6. \A d \in Calls \ {c} : pc'[d] = pc[d] /\ blind'[d] = blind[d]
      BY <3>2, <3>3 DEF IInv, TypeOK
    <3>7. blind' \in [Calls -> BOOLEAN]
      BY <3>3 DEF IInv, TypeOK
    <3> QED BY <3>1, <3>4, <3>5, <3>6, <3>7 DEF MacStat, Looked, At, files
  <2>2. OneEach'
    BY <2>1 DEF IInv, Serial, OneEach
  <2>3. MacInv' /\ MacDelivered'
    BY <2>1 DEF IInv, TypeOK, CallInv, Serial, OneEach, MacInv, MacDelivered, At
  <2>4. DiskInv' /\ DiskDelivered'
    BY <2>1, FilesAssumption DEF IInv, TypeOK, CallInv, Serial, OneEach, DiskInv,
      DiskDelivered, At, Disks
  <2> QED BY <2>2, <2>3, <2>4 DEF Serial
<1> QED BY <1>1, <1>2, <1>3, SameOpAssumption DEF IInv

(* The file is empty until the address is written.                         *)
LEMMA MacOpenStep ==
  ASSUME IInv, NEW c \in Calls, MacOpen(c)
  PROVE  IInv'
<1>1. TypeOK'
  BY SizeAssumption, FilesAssumption DEF IInv, MacOpen, TypeOK, CallInv,
    Disks, RPCs, Goto, At
<1>2. CallInv'
  BY SizeAssumption, FilesAssumption DEF IInv, MacOpen, TypeOK, CallInv,
    Disks, RPCs, Goto, At
<1>3. ~SameOp => Serial'
  BY SizeAssumption, FilesAssumption DEF IInv, MacOpen, TypeOK, CallInv,
    Serial, OneEach, MacInv, MacDelivered, DiskInv, DiskDelivered, Disks,
    RPCs, Goto, At
<1> QED BY <1>1, <1>2, <1>3, SameOpAssumption DEF IInv

(* The address goes into the file, or a DeleteVM has it.                   *)
LEMMA MacWriteStep ==
  ASSUME IInv, NEW c \in Calls, MacWrite(c)
  PROVE  IInv'
<1>1. TypeOK'
  BY SizeAssumption, FilesAssumption DEF IInv, MacWrite, TypeOK, CallInv,
    Disks, RPCs, Goto, At
<1>2. CallInv'
  BY SizeAssumption, FilesAssumption DEF IInv, MacWrite, TypeOK, CallInv,
    Disks, RPCs, Goto, At
<1>3. ~SameOp => Serial'
  BY SizeAssumption, FilesAssumption DEF IInv, MacWrite, TypeOK, CallInv,
    Serial, OneEach, MacInv, MacDelivered, DiskInv, DiskDelivered, Disks,
    RPCs, Goto, At
<1> QED BY <1>1, <1>2, <1>3, SameOpAssumption DEF IInv

(* A file that is found has a size or is torn.                             *)
LEMMA DiskStatStep ==
  ASSUME IInv, NEW c \in Calls, DiskStat(c)
  PROVE  IInv'
<1>1. TypeOK'
  BY SizeAssumption, FilesAssumption
    DEF IInv, DiskStat, Looked, fileExists, TypeOK, CallInv,
    files, Disks, RPCs, Goto, Step, At
<1>2. CallInv'
  BY SizeAssumption, FilesAssumption
    DEF IInv, DiskStat, Looked, fileExists, TypeOK, CallInv,
    files, Disks, RPCs, Goto, Step, At
<1>3. ~SameOp => Serial'
  <2> SUFFICES ASSUME ~SameOp PROVE Serial'
    OBVIOUS
  <2>1. /\ UNCHANGED <<dir, mac, disk, qemu, torn, op, size, fd, raced>>
        /\ blind' \in [Calls -> BOOLEAN]
        /\ \A d \in Calls \ {c} : pc'[d] = pc[d] /\ blind'[d] = blind[d]
        /\ pc[c] = "stat" /\ op[c] = "attach"
        /\ pc'[c] \in {"nil", "mkdir"}
        /\ pc'[c] = "nil" => disk # NoFile
        /\ pc'[c] = "mkdir" => disk = NoFile \/ blind'[c]
    <3>1. PICK found \in fileExists(disk) :
            Looked(c, disk, found, IF found THEN "nil" ELSE "mkdir")
      BY DEF DiskStat
    <3>2. pc' = [pc EXCEPT ![c] = IF found THEN "nil" ELSE "mkdir"]
      BY <3>1 DEF Looked, Goto
    <3>3. blind' = [blind EXCEPT ![c] = ~found /\ disk # NoFile]
      BY <3>1 DEF Looked
    <3>4. found => disk # NoFile
      BY <3>1 DEF fileExists
    <3>5. pc'[c] = (IF found THEN "nil" ELSE "mkdir") /\ blind'[c] = (~found /\ disk # NoFile)
      BY <3>2, <3>3 DEF IInv, TypeOK
    <3>6. \A d \in Calls \ {c} : pc'[d] = pc[d] /\ blind'[d] = blind[d]
      BY <3>2, <3>3 DEF IInv, TypeOK
    <3>7. blind' \in [Calls -> BOOLEAN]
      BY <3>3 DEF IInv, TypeOK
    <3> QED BY <3>1, <3>4, <3>5, <3>6, <3>7 DEF DiskStat, Looked, At, files
  <2>2. OneEach'
    BY <2>1 DEF IInv, Serial, OneEach
  <2>3. MacInv' /\ MacDelivered'
    BY <2>1 DEF IInv, TypeOK, CallInv, Serial, OneEach, MacInv, MacDelivered, At
  <2>4. DiskInv' /\ DiskDelivered'
    BY <2>1, FilesAssumption DEF IInv, TypeOK, CallInv, Serial, OneEach, DiskInv,
      DiskDelivered, At, Disks
  <2> QED BY <2>2, <2>3, <2>4 DEF Serial
<1> QED BY <1>1, <1>2, <1>3, SameOpAssumption DEF IInv

(* An error leaves everything as it was.                                   *)
LEMMA DiskRefusedStep ==
  ASSUME IInv, NEW c \in Calls, DiskRefused(c)
  PROVE  IInv'
<1>1. TypeOK'
  BY SizeAssumption, FilesAssumption DEF IInv, DiskRefused, Leave, TypeOK,
    CallInv, files, Disks, RPCs, Goto, At
<1>2. CallInv'
  BY SizeAssumption, FilesAssumption DEF IInv, DiskRefused, Leave, TypeOK,
    CallInv, files, Disks, RPCs, Goto, At
<1>3. ~SameOp => Serial'
  BY SizeAssumption, FilesAssumption DEF IInv, DiskRefused, Leave, TypeOK,
    CallInv, Serial, OneEach, MacInv, MacDelivered, DiskInv, DiskDelivered,
    files, Disks, RPCs, Goto, At
<1> QED BY <1>1, <1>2, <1>3, SameOpAssumption DEF IInv

(* The file is empty until it is sized.                                    *)
LEMMA DiskCreateStep ==
  ASSUME IInv, NEW c \in Calls, DiskCreate(c)
  PROVE  IInv'
<1>1. TypeOK'
  BY SizeAssumption, FilesAssumption DEF IInv, DiskCreate, TypeOK, CallInv,
    Disks, RPCs, Goto, At
<1>2. CallInv'
  BY SizeAssumption, FilesAssumption DEF IInv, DiskCreate, TypeOK, CallInv,
    Disks, RPCs, Goto, At
<1>3. ~SameOp => Serial'
  BY SizeAssumption, FilesAssumption DEF IInv, DiskCreate, TypeOK, CallInv,
    Serial, OneEach, MacInv, MacDelivered, DiskInv, DiskDelivered, Disks,
    RPCs, Goto, At
<1> QED BY <1>1, <1>2, <1>3, SameOpAssumption DEF IInv

(* The size is the one asked for, which is not 0.                          *)
LEMMA DiskSizeStep ==
  ASSUME IInv, NEW c \in Calls, DiskSize(c)
  PROVE  IInv'
<1>1. TypeOK'
  BY SizeAssumption, FilesAssumption DEF IInv, DiskSize, TypeOK, CallInv,
    Disks, RPCs, Goto, At
<1>2. CallInv'
  BY SizeAssumption, FilesAssumption DEF IInv, DiskSize, TypeOK, CallInv,
    Disks, RPCs, Goto, At
<1>3. ~SameOp => Serial'
  BY SizeAssumption, FilesAssumption DEF IInv, DiskSize, TypeOK, CallInv,
    Serial, OneEach, MacInv, MacDelivered, DiskInv, DiskDelivered, Disks,
    RPCs, Goto, At
<1> QED BY <1>1, <1>2, <1>3, SameOpAssumption DEF IInv

(* Nothing but the program counter moves.                                  *)
LEMMA DiskArgStep ==
  ASSUME IInv, NEW c \in Calls, DiskArg(c)
  PROVE  IInv'
<1>1. TypeOK'
  BY SizeAssumption, FilesAssumption
    DEF IInv, DiskArg, Looked, fileExists, TypeOK, CallInv,
    files, Disks, RPCs, Goto, Step, At
<1>2. CallInv'
  BY SizeAssumption, FilesAssumption
    DEF IInv, DiskArg, Looked, fileExists, TypeOK, CallInv,
    files, Disks, RPCs, Goto, Step, At
<1>3. ~SameOp => Serial'
  BY SizeAssumption, FilesAssumption
    DEF IInv, DiskArg, Looked, fileExists, TypeOK, CallInv,
    Serial, OneEach, MacInv, MacDelivered, DiskInv, DiskDelivered, files,
    Disks, RPCs, Goto, Step, At
<1> QED BY <1>1, <1>2, <1>3, SameOpAssumption DEF IInv

(* QEMU opens a disk only if it is there.                                  *)
LEMMA LaunchStep ==
  ASSUME IInv, NEW c \in Calls, Launch(c)
  PROVE  IInv'
<1>1. TypeOK'
  BY SizeAssumption, FilesAssumption DEF IInv, Launch, TypeOK, CallInv,
    files, Disks, RPCs, Goto, Step
<1>2. CallInv'
  BY SizeAssumption, FilesAssumption DEF IInv, Launch, TypeOK, CallInv,
    files, Disks, RPCs, Goto, Step
<1>3. ~SameOp => Serial'
  BY SizeAssumption, FilesAssumption DEF IInv, Launch, TypeOK, CallInv,
    Serial, OneEach, MacInv, MacDelivered, DiskInv, DiskDelivered, files,
    Disks, RPCs, Goto, Step, At
<1> QED BY <1>1, <1>2, <1>3, SameOpAssumption DEF IInv

(* QEMU lets go of the disk.                                               *)
LEMMA ExitStep ==
  ASSUME IInv, Exit
  PROVE  IInv'
<1>1. TypeOK'
  BY SizeAssumption, FilesAssumption DEF IInv, Exit, TypeOK, CallInv, files,
    calls, Disks, RPCs
<1>2. CallInv'
  BY SizeAssumption, FilesAssumption DEF IInv, Exit, TypeOK, CallInv, files,
    calls, Disks, RPCs
<1>3. ~SameOp => Serial'
  BY SizeAssumption, FilesAssumption DEF IInv, Exit, TypeOK, CallInv,
    Serial, OneEach, MacInv, MacDelivered, DiskInv, DiskDelivered, files,
    calls, Disks, RPCs, At
<1> QED BY <1>1, <1>2, <1>3, SameOpAssumption DEF IInv

(* The disk a guest writes to is there, and keeps its size.                *)
LEMMA GuestWriteStep ==
  ASSUME IInv, NEW w \in Writes, GuestWrite(w)
  PROVE  IInv'
<1>0. disk \in Disks /\ disk' = [disk EXCEPT !.data = @ \cup {w}]
  BY DEF IInv, TypeOK, CallInv, GuestWrite
<1>1. TypeOK'
  <2>1. disk' \in Disks
    BY <1>0 DEF Disks
  <2> QED BY <1>0, <2>1, FilesAssumption DEF IInv, TypeOK, GuestWrite, calls
<1>2. CallInv'
  BY <1>0, SizeAssumption, FilesAssumption DEF IInv, GuestWrite, TypeOK,
    CallInv, calls, Disks, RPCs
<1>3. ~SameOp => Serial'
  BY <1>0, SizeAssumption, FilesAssumption DEF IInv, GuestWrite, TypeOK,
    CallInv, Serial, OneEach, MacInv, MacDelivered, DiskInv, DiskDelivered,
    calls, Disks, RPCs, At
<1> QED BY <1>1, <1>2, <1>3, SameOpAssumption DEF IInv

(* Every call that runs has been raced from here on.                       *)
LEMMA UnlinkMacStep ==
  ASSUME IInv, NEW c \in Calls, UnlinkMac(c)
  PROVE  IInv'
<1>1. TypeOK'
  BY SizeAssumption, FilesAssumption DEF IInv, UnlinkMac, TypeOK, CallInv,
    Disks, RPCs, Unlinked
<1>2. CallInv'
  BY SizeAssumption, FilesAssumption DEF IInv, UnlinkMac, TypeOK, CallInv,
    Disks, RPCs, Unlinked
<1>3. ~SameOp => Serial'
  BY SizeAssumption, FilesAssumption DEF IInv, UnlinkMac, TypeOK, CallInv,
    Serial, OneEach, MacInv, MacDelivered, DiskInv, DiskDelivered, Disks,
    RPCs, At, Unlinked
<1> QED BY <1>1, <1>2, <1>3, SameOpAssumption DEF IInv

(* Likewise.                                                               *)
LEMMA UnlinkDiskStep ==
  ASSUME IInv, NEW c \in Calls, UnlinkDisk(c)
  PROVE  IInv'
<1>1. TypeOK'
  BY SizeAssumption, FilesAssumption DEF IInv, UnlinkDisk, TypeOK, CallInv,
    Disks, RPCs, Unlinked
<1>2. CallInv'
  BY SizeAssumption, FilesAssumption DEF IInv, UnlinkDisk, TypeOK, CallInv,
    Disks, RPCs, Unlinked
<1>3. ~SameOp => Serial'
  BY SizeAssumption, FilesAssumption DEF IInv, UnlinkDisk, TypeOK, CallInv,
    Serial, OneEach, MacInv, MacDelivered, DiskInv, DiskDelivered, Disks,
    RPCs, At, Unlinked
<1> QED BY <1>1, <1>2, <1>3, SameOpAssumption DEF IInv

(* The directory was empty.                                                *)
LEMMA RemoveDirStep ==
  ASSUME IInv, NEW c \in Calls, RemoveDir(c)
  PROVE  IInv'
<1>1. TypeOK'
  BY SizeAssumption, FilesAssumption DEF IInv, RemoveDir, TypeOK, CallInv,
    Disks, RPCs, Goto, Step
<1>2. CallInv'
  BY SizeAssumption, FilesAssumption DEF IInv, RemoveDir, TypeOK, CallInv,
    Disks, RPCs, Goto, Step
<1>3. ~SameOp => Serial'
  BY SizeAssumption, FilesAssumption DEF IInv, RemoveDir, TypeOK, CallInv,
    Serial, OneEach, MacInv, MacDelivered, DiskInv, DiskDelivered, Disks,
    RPCs, Goto, Step, At
<1> QED BY <1>1, <1>2, <1>3, SameOpAssumption DEF IInv

(* No call runs; what they left half done is torn.                         *)
LEMMA RestartStep ==
  ASSUME IInv, Restart
  PROVE  IInv'
<1>0. UNION {Half(c) : c \in Calls} \subseteq {"mac", "disk"}
  BY DEF Half
<1>1. TypeOK'
  <2>1. 0 \in 0..MaxSize
    BY SizeAssumption
  <2>2. op' \in [Calls -> RPCs]
    BY DEF Restart, RPCs
  <2> QED BY <1>0, <2>1, <2>2 DEF IInv, Restart, TypeOK, files
<1>2. CallInv'
  BY <1>0, SizeAssumption, FilesAssumption DEF IInv, Restart, TypeOK,
    CallInv, files, Disks, RPCs, Half
<1>3. ~SameOp => Serial'
  BY <1>0, SizeAssumption, FilesAssumption DEF IInv, Restart, TypeOK,
    CallInv, Serial, OneEach, MacInv, MacDelivered, DiskInv, DiskDelivered,
    files, Disks, RPCs, At, Half
<1> QED BY <1>1, <1>2, <1>3, SameOpAssumption DEF IInv

(* One step of any actor preserves the inductive invariant.                *)
LEMMA NextIInv == IInv /\ [Next]_vars => IInv'
<1> SUFFICES ASSUME IInv, [Next]_vars PROVE IInv'
  OBVIOUS
<1>1. CASE \E c \in Calls : CreateVM(c)
  <2>1. CASE \E c \in Calls : Begin(c, "create", "mkdir", 0)
    BY <2>1, BeginStep, SizeAssumption DEF RPCs
  <2> QED BY <1>1, <2>1, MacStatStep, MacOpenStep, MacWriteStep DEF CreateVM
<1>2. CASE \E c \in Calls : AttachDisk(c)
  <2>1. CASE \E c \in Calls, n \in 0..MaxSize : Begin(c, "attach", "stat", n)
    BY <2>1, BeginStep DEF RPCs
  <2> QED BY <1>2, <2>1, DiskStatStep, DiskRefusedStep, DiskCreateStep, DiskSizeStep
    DEF AttachDisk
<1>3. CASE \E c \in Calls : StartVM(c)
  <2>1. CASE \E c \in Calls : Begin(c, "start", "stat", 0)
    BY <2>1, BeginStep, SizeAssumption DEF RPCs
  <2> QED BY <1>3, <2>1, DiskArgStep, LaunchStep DEF StartVM
<1>4. CASE \E c \in Calls : DeleteVM(c)
  <2>1. CASE \E c \in Calls : Begin(c, "delete", "remove", 0)
    BY <2>1, BeginStep, SizeAssumption DEF RPCs
  <2> QED BY <1>4, <2>1, UnlinkMacStep, UnlinkDiskStep, RemoveDirStep DEF DeleteVM
<1>5. CASE \E c \in Calls : MakeDir(c) \/ Fails(c) \/ Return(c)
  BY <1>5, MakeDirStep, FailsStep, ReturnStep
<1>6. CASE Exit \/ Restart \/ \E w \in Writes : GuestWrite(w)
  BY <1>6, ExitStep, RestartStep, GuestWriteStep
<1>7. CASE UNCHANGED vars
  BY <1>7 DEF vars, files, calls, IInv, TypeOK, CallInv, Serial, OneEach, MacInv,
    MacDelivered, DiskInv, DiskDelivered, At
<1> QED BY <1>1, <1>2, <1>3, <1>4, <1>5, <1>6, <1>7 DEF Next

(* IInv is an invariant of the VM's files.                                 *)
THEOREM Inductive == Spec => []IInv
<1>1. Init => IInv
  BY InitIInv
<1>2. IInv /\ [Next]_vars => IInv'
  BY NextIInv
<1> QED BY <1>1, <1>2, PTL DEF Spec

(* Every variable keeps its type, and files are in a directory.            *)
THEOREM TypeCorrect == Spec => []TypeOK
<1>1. IInv => TypeOK
  BY DEF IInv
<1> QED BY <1>1, Inductive, PTL

(* When CreateVM calls on the VM do not overlap, one that returns nil has  *)
(* left a whole address.                                                   *)
THEOREM MacsDelivered == ~SameOp => (Spec => []MacDelivered)
<1> SUFFICES ASSUME ~SameOp PROVE Spec => []MacDelivered
  OBVIOUS
<1>1. IInv => MacDelivered
  BY DEF IInv, Serial
<1> QED BY <1>1, Inductive, PTL

(* When AttachDisk calls on the VM do not overlap, one that returns nil    *)
(* has left a disk that is not empty.                                      *)
THEOREM DisksDelivered == ~SameOp => (Spec => []DiskDelivered)
<1> SUFFICES ASSUME ~SameOp PROVE Spec => []DiskDelivered
  OBVIOUS
<1>1. IInv => DiskDelivered
  BY DEF IInv, Serial
<1> QED BY <1>1, Inductive, PTL

(* What one step may do to mac.txt.                                        *)
LEMMA MacStep ==
  ASSUME IInv, ~SameOp, [Next]_vars, mac \in Macs, mac' # mac
  PROVE  \/ Deleting /\ mac' = NoFile
         \/ CreatesBlind("create") /\ mac' = Empty
<1>1. PICK c \in Calls : MacOpen(c) \/ MacWrite(c) \/ UnlinkMac(c)
  BY DEF Next, vars, files, CreateVM, AttachDisk, StartVM, DeleteVM, Begin, MacStat,
    DiskStat, DiskRefused, DiskCreate, DiskSize, DiskArg, Launch, UnlinkDisk, RemoveDir, MakeDir,
    Fails, Return, Exit, Restart, GuestWrite
<1>2. MacOpen(c) => CreatesBlind("create") /\ mac' = Empty
  BY FilesAssumption DEF MacOpen, IInv, Serial, MacInv, CreatesBlind, At
<1>3. ~MacWrite(c)
  BY FilesAssumption DEF MacWrite, IInv, Serial, MacInv, At
<1> QED BY <1>1, <1>2, <1>3 DEF UnlinkMac, Deleting

(* What one step may do to a disk a guest has written to.                  *)
LEMMA DiskStep ==
  ASSUME IInv, ~SameOp, [Next]_vars, disk # NoFile, disk.data # {}
  PROVE  \/ disk' # NoFile /\ disk.data \subseteq disk'.data
         \/ disk' = NoFile /\ Deleting
         \/ CreatesBlind("attach") /\ disk' = [size |-> 0, data |-> {}]
<1>0. disk \in Disks
  BY DEF IInv, TypeOK
<1>1. CASE UNCHANGED disk
  BY <1>1
<1>2. CASE \E c \in Calls : DiskCreate(c)
  BY <1>2 DEF DiskCreate, IInv, Serial, DiskInv, CreatesBlind, At
<1>3. CASE \E c \in Calls : DiskSize(c)
  <2>1. PICK c \in Calls : DiskSize(c)
    BY <1>3
  <2>2. disk' = disk \/ disk' = [disk EXCEPT !.size = size[c]]
    BY <2>1 DEF DiskSize
  <2>3. [disk EXCEPT !.size = size[c]] \in Disks
    BY <1>0 DEF Disks, IInv, TypeOK
  <2> QED BY <1>0, <2>2, <2>3, FilesAssumption DEF Disks
<1>4. CASE \E c \in Calls : UnlinkDisk(c)
  BY <1>4 DEF UnlinkDisk, Deleting
<1>5. CASE \E w \in Writes : GuestWrite(w)
  <2>1. PICK w \in Writes : disk' = [disk EXCEPT !.data = @ \cup {w}]
    BY <1>5 DEF GuestWrite
  <2>2. disk' \in Disks
    BY <1>0, <2>1 DEF Disks
  <2> QED BY <1>0, <2>1, <2>2, FilesAssumption DEF Disks
<1>6. \/ UNCHANGED disk
      \/ \E c \in Calls : DiskCreate(c) \/ DiskSize(c) \/ UnlinkDisk(c)
      \/ \E w \in Writes : GuestWrite(w)
  BY DEF Next, vars, files, CreateVM, AttachDisk, StartVM, DeleteVM, Begin, MacStat,
    MacOpen, MacWrite, DiskStat, DiskRefused, DiskArg, Launch, UnlinkMac, RemoveDir, MakeDir,
    Fails, Return, Exit, Restart
<1> QED BY <1>1, <1>2, <1>3, <1>4, <1>5, <1>6

(* When CreateVM calls on the VM do not overlap, an address that mac.txt   *)
(* holds stays until DeleteVM removes the file, or a CreateVM whose stat   *)
(* of it has failed empties it.                                            *)
THEOREM AddressIsStable == ~SameOp => (Spec => StableMAC)
<1> SUFFICES ASSUME ~SameOp PROVE Spec => StableMAC
  OBVIOUS
<1>1. IInv /\ [Next]_vars =>
        [mac' # mac /\ mac \in Macs =>
           \/ Deleting /\ mac' = NoFile
           \/ CreatesBlind("create") /\ mac' = Empty]_vars
  BY MacStep
<1> QED BY <1>1, Inductive, PTL DEF Spec, StableMAC

(* When AttachDisk calls on the VM do not overlap, one only whose stat of  *)
(* the disk has failed takes away what a guest has written.                *)
THEOREM GuestDataIsKept == ~SameOp => (Spec => GuestDataKept)
<1> SUFFICES ASSUME ~SameOp PROVE Spec => GuestDataKept
  OBVIOUS
<1>1. IInv /\ [Next]_vars =>
        [disk # NoFile /\ disk.data # {} =>
           \/ disk' # NoFile /\ disk.data \subseteq disk'.data
           \/ disk' = NoFile /\ Deleting
           \/ CreatesBlind("attach") /\ disk' = [size |-> 0, data |-> {}]]_vars
  BY DiskStep
<1> QED BY <1>1, Inductive, PTL DEF Spec, GuestDataKept
=============================================================================
