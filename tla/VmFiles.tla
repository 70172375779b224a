------------------------------- MODULE VmFiles -------------------------------
(***************************************************************************)
(* The two files of a VM that are created if they are missing              *)
(* (src/builtin/qemu.go): mac.txt, by CreateVM, and the boot disk          *)
(* disk.img, by AttachDisk; DeleteVM, which removes them, and StartVM,     *)
(* which gives the disk to a QEMU whose guest writes to it.  Each call is  *)
(* the sequence of its file operations; any of them may fail, and the      *)
(* plugin may die between two.  vm.pid and exit.json are in VmLifecycle.   *)
(***************************************************************************)
EXTENDS Naturals

CONSTANTS Calls,
          Macs,         \* hardware addresses
          MaxSize,      \* bound: the largest SizeGiB
          Writes,       \* what guests write, a block or so each
          SameOp,       \* TRUE: calls of one RPC overlap, too
          NoFile, Empty \* a missing mac.txt; one without a whole address

ASSUME SizeAssumption == MaxSize \in Nat \ {0}
ASSUME SameOpAssumption == SameOp \in BOOLEAN

Disks == [size : 0..MaxSize, data : SUBSET Writes]

ASSUME FilesAssumption ==
  NoFile # Empty /\ Macs \cap {NoFile, Empty} = {} /\ NoFile \notin Disks

VARIABLES
  dir,      \* the VM's directory exists
  mac,      \* mac.txt: an address, Empty or NoFile
  disk,     \* disk.img: its size and the guest's writes, or NoFile
  qemu,     \* "off", or what QEMU has open: "none", "disk" or a "gone" file
  pc, op,   \* per call: next step, and which RPC it is
  size,     \* size[c]: SizeGiB
  fd,       \* fd[c]: where the file call c has open is linked
  raced,    \* raced[c]: a DeleteVM has removed a file since call c began
  blind,    \* blind[c]: call c was told that a file is missing, and it is not
  torn      \* the files whose creation was broken off half way

files == <<dir, mac, disk>>
calls == <<pc, op, size, fd, raced, blind>>
vars == <<files, qemu, calls, torn>>

RPCs == {"create", "attach", "start", "delete"}

(* A file is in a directory that exists. *)
TypeOK ==
  /\ dir \in BOOLEAN
  /\ mac \in Macs \cup {NoFile, Empty}
  /\ disk \in Disks \cup {NoFile}
  /\ ~dir => mac = NoFile /\ disk = NoFile
  /\ qemu \in {"off", "none", "disk", "gone"}
  /\ pc \in [Calls -> {"idle", "mkdir", "stat", "open", "write", "size",
                       "launch", "diskless", "remove", "nil"}]
  /\ op \in [Calls -> RPCs]
  /\ size \in [Calls -> 0..MaxSize]
  /\ fd \in [Calls -> {"none", "linked", "gone"}]
  /\ raced \in [Calls -> BOOLEAN]
  /\ blind \in [Calls -> BOOLEAN]
  /\ torn \subseteq {"mac", "disk"}

Init ==
  /\ dir = FALSE /\ mac = NoFile /\ disk = NoFile /\ qemu = "off"
  /\ pc = [c \in Calls |-> "idle"] /\ op = [c \in Calls |-> "create"]
  /\ size = [c \in Calls |-> 0] /\ fd = [c \in Calls |-> "none"]
  /\ raced = [c \in Calls |-> FALSE]
  /\ blind = [c \in Calls |-> FALSE]
  /\ torn = {}

Goto(c, l) == pc' = [pc EXCEPT ![c] = l]
Step(c, l) == Goto(c, l) /\ UNCHANGED <<op, size, fd, raced, blind>>
At(c, o, l) == op[c] = o /\ pc[c] = l

(* What is gone with a call. *)
Leave(c) ==
  /\ Goto(c, "idle")
  /\ op' = [op EXCEPT ![c] = "create"] /\ size' = [size EXCEPT ![c] = 0]
  /\ fd' = [fd EXCEPT ![c] = "none"]
  /\ raced' = [raced EXCEPT ![c] = FALSE] /\ blind' = [blind EXCEPT ![c] = FALSE]

(* A call begins; AttachDisk with the size of its disk. *)
Begin(c, o, l, n) ==
  /\ pc[c] = "idle"
  /\ SameOp \/ \A d \in Calls : pc[d] = "idle" \/ op[d] # o
  /\ Goto(c, l)
  /\ op' = [op EXCEPT ![c] = o]
  /\ size' = [size EXCEPT ![c] = n]
  /\ UNCHANGED <<files, qemu, fd, raced, blind, torn>>

(* A file that has been created and not finished is torn. *)
Half(c) == IF fd[c] # "linked" THEN {}
           ELSE IF op[c] = "create" THEN {"mac"} ELSE {"disk"}

(* A call that returns nil can be seen by the properties before it ends.   *)
Return(c) ==
  /\ pc[c] = "nil"
  /\ Leave(c)
  /\ UNCHANGED <<files, qemu, torn>>

(* A file operation fails and the error is returned; nothing is undone.    *)
(* The look for mac.txt and disk.img has no error to return (fileExists);  *)
(* StartVM returns that of its look for the kernel, which comes before.    *)
Fails(c) ==
  /\ pc[c] \notin {"idle", "nil"}
  /\ pc[c] = "stat" => op[c] = "start"
  /\ Leave(c)
  /\ torn' = torn \cup Half(c)
  /\ UNCHANGED <<files, qemu>>

(* Any error of os.Stat is an answer, too: that the file is missing.       *)
fileExists(f) == IF f = NoFile THEN {FALSE} ELSE BOOLEAN

(* The call goes on to l, knowing whether f was found.                     *)
Looked(c, f, found, l) ==
  /\ Goto(c, l)
  /\ blind' = [blind EXCEPT ![c] = ~found /\ f # NoFile]
  /\ UNCHANGED <<op, size, fd, raced>>

-----------------------------------------------------------------------------
(* MkdirAll: of the VM directory, by CreateVM, and of the disk's by        *)
(* AttachDisk, which is the same.                                          *)
MakeDir(c) ==
  /\ pc[c] = "mkdir"
  /\ dir' = TRUE
  /\ Step(c, IF op[c] = "create" THEN "stat" ELSE "open")
  /\ UNCHANGED <<mac, disk, qemu, torn>>

(* Mutant of MacStat: the file is not looked for. *)
MacStatSkipped(c) ==
  /\ At(c, "create", "stat")
  /\ Step(c, "open")
  /\ UNCHANGED <<files, qemu, torn>>

(* ensureMAC: a file that is found is kept, an empty one included.         *)
MacStat(c) ==
  /\ At(c, "create", "stat")
  /\ \E found \in fileExists(mac) : Looked(c, mac, found, IF found THEN "nil" ELSE "open")
  /\ UNCHANGED <<files, qemu, torn>>

(* os.WriteFile: the file is opened and truncated ...                      *)
MacOpen(c) ==
  /\ At(c, "create", "open")
  /\ dir
  /\ mac' = Empty
  /\ fd' = [fd EXCEPT ![c] = "linked"]
  /\ Goto(c, "write")
  /\ UNCHANGED <<dir, disk, qemu, op, size, raced, blind, torn>>

(* Mutant of MacWrite: the random bytes are left out. *)
MacWriteNothing(c) ==
  /\ At(c, "create", "write")
  /\ Goto(c, "nil")
  /\ fd' = [fd EXCEPT ![c] = "none"]
  /\ UNCHANGED <<files, qemu, op, size, raced, blind, torn>>

(* ... and the random address is written, wherever the file is by now.     *)
MacWrite(c) ==
  /\ At(c, "create", "write")
  /\ IF fd[c] = "linked" THEN mac' \in Macs ELSE UNCHANGED mac
  /\ Goto(c, "nil")
  /\ fd' = [fd EXCEPT ![c] = "none"]
  /\ UNCHANGED <<dir, disk, qemu, op, size, raced, blind, torn>>

-----------------------------------------------------------------------------
(* AttachDisk, without a BackingPath *)

(* Mutant of DiskStat: the file is not looked for. *)
DiskStatSkipped(c) ==
  /\ At(c, "attach", "stat")
  /\ size[c] > 0
  /\ Step(c, "mkdir")
  /\ UNCHANGED <<files, qemu, torn>>

(* Mutant of DiskStat: a disk of no size is created. *)
DiskStatAnySize(c) ==
  /\ At(c, "attach", "stat")
  /\ \E found \in fileExists(disk) : Looked(c, disk, found, IF found THEN "nil" ELSE "mkdir")
  /\ UNCHANGED <<files, qemu, torn>>

(* A file that is found is enough, whatever its size.                      *)
DiskStat(c) ==
  /\ At(c, "attach", "stat")
  /\ \E found \in fileExists(disk) :
       /\ found \/ size[c] > 0
       /\ Looked(c, disk, found, IF found THEN "nil" ELSE "mkdir")
  /\ UNCHANGED <<files, qemu, torn>>

(* "missing and SizeGiB==0" *)
DiskRefused(c) ==
  /\ At(c, "attach", "stat")
  /\ FALSE \in fileExists(disk) /\ size[c] = 0
  /\ Leave(c)
  /\ UNCHANGED <<files, qemu, torn>>

(* os.Create truncates a file that is there.                               *)
DiskCreate(c) ==
  /\ At(c, "attach", "open")
  /\ dir
  /\ disk' = [size |-> 0, data |-> {}]
  /\ fd' = [fd EXCEPT ![c] = "linked"]
  /\ Goto(c, "size")
  /\ UNCHANGED <<dir, mac, qemu, op, size, raced, blind, torn>>

(* Mutant of DiskSize: the size is rounded up. *)
DiskSizeRoundedUp(c) ==
  /\ At(c, "attach", "size")
  /\ disk' = IF fd[c] = "linked" THEN [disk EXCEPT !.size = size[c] + 1] ELSE disk
  /\ Goto(c, "nil")
  /\ fd' = [fd EXCEPT ![c] = "none"]
  /\ UNCHANGED <<dir, mac, qemu, op, size, raced, blind, torn>>

(* f.Truncate makes it as large as it should be, with holes.               *)
DiskSize(c) ==
  /\ At(c, "attach", "size")
  /\ disk' = IF fd[c] = "linked" THEN [disk EXCEPT !.size = size[c]] ELSE disk
  /\ Goto(c, "nil")
  /\ fd' = [fd EXCEPT ![c] = "none"]
  /\ UNCHANGED <<dir, mac, qemu, op, size, raced, blind, torn>>

-----------------------------------------------------------------------------
(* StartVM: the disk is looked for, and named to QEMU if it is found; QEMU *)
(* exits at once if it is not there any more, and has nothing to write to  *)
(* if it is empty.  A QEMU that runs is left.                              *)
DiskArg(c) ==
  /\ At(c, "start", "stat")
  /\ \E found \in fileExists(disk) :
       Looked(c, disk, found, IF qemu # "off" THEN "nil"
                              ELSE IF found THEN "launch" ELSE "diskless")
  /\ UNCHANGED <<files, qemu, torn>>

Launch(c) ==
  /\ pc[c] \in {"launch", "diskless"}
  /\ qemu = "off"
  /\ qemu' = CASE pc[c] = "diskless" -> "none"
               [] pc[c] = "launch" /\ disk = NoFile -> "off"
               [] OTHER -> IF disk.size > 0 THEN "disk" ELSE "none"
  /\ Step(c, "nil")
  /\ UNCHANGED <<files, torn>>

Exit ==
  /\ qemu # "off"
  /\ qemu' = "off"
  /\ UNCHANGED <<files, calls, torn>>

(* The guest goes by the size QEMU found, whatever has become of the file. *)
GuestWrite(w) ==
  /\ qemu = "disk"
  /\ w \notin disk.data
  /\ disk' = [disk EXCEPT !.data = @ \cup {w}]
  /\ UNCHANGED <<dir, mac, qemu, calls, torn>>

-----------------------------------------------------------------------------
(* DeleteVM: os.RemoveAll takes the files away one by one, then the        *)
(* directory, which must be empty by then.                                 *)

(* What open files are linked to, and which calls have been raced.         *)
Unlinked(o) ==
  /\ fd' = [d \in Calls |-> IF op[d] = o /\ fd[d] = "linked" THEN "gone" ELSE fd[d]]
  /\ raced' = [d \in Calls |-> pc[d] # "idle"]
  /\ UNCHANGED blind

UnlinkMac(c) ==
  /\ pc[c] = "remove"
  /\ mac # NoFile
  /\ mac' = NoFile
  /\ torn' = torn \ {"mac"}
  /\ Unlinked("create")
  /\ UNCHANGED <<dir, disk, qemu, pc, op, size>>

UnlinkDisk(c) ==
  /\ pc[c] = "remove"
  /\ disk # NoFile
  /\ disk' = NoFile
  /\ qemu' = IF qemu = "disk" THEN "gone" ELSE qemu
  /\ torn' = torn \ {"disk"}
  /\ Unlinked("attach")
  /\ UNCHANGED <<dir, mac, pc, op, size>>

RemoveDir(c) ==
  /\ pc[c] = "remove"
  /\ mac = NoFile /\ disk = NoFile
  /\ dir' = FALSE
  /\ Step(c, "nil")
  /\ UNCHANGED <<mac, disk, qemu, torn>>

(* The plugin dies, and its calls with it; QEMU has a session of its own.  *)
Restart ==
  /\ torn' = torn \cup UNION {Half(c) : c \in Calls}
  /\ pc' = [c \in Calls |-> "idle"] /\ op' = [c \in Calls |-> "create"]
  /\ size' = [c \in Calls |-> 0] /\ fd' = [c \in Calls |-> "none"]
  /\ raced' = [c \in Calls |-> FALSE] /\ blind' = [c \in Calls |-> FALSE]
  /\ UNCHANGED <<files, qemu>>

CreateVM(c) ==
  Begin(c, "create", "mkdir", 0) \/ MacStat(c) \/ MacOpen(c) \/ MacWrite(c)
AttachDisk(c) ==
  \/ \E n \in 0..MaxSize : Begin(c, "attach", "stat", n)
  \/ DiskStat(c) \/ DiskRefused(c) \/ DiskCreate(c) \/ DiskSize(c)
StartVM(c) == Begin(c, "start", "stat", 0) \/ DiskArg(c) \/ Launch(c)
DeleteVM(c) ==
  Begin(c, "delete", "remove", 0) \/ UnlinkMac(c) \/ UnlinkDisk(c) \/ RemoveDir(c)

Next ==
  \/ \E c \in Calls :
       CreateVM(c) \/ AttachDisk(c) \/ MakeDir(c) \/ StartVM(c) \/ DeleteVM(c)
         \/ Fails(c) \/ Return(c)
  \/ Exit \/ Restart
  \/ \E w \in Writes : GuestWrite(w)

Spec == Init /\ [][Next]_vars
-----------------------------------------------------------------------------
Deleting == \E c \in Calls : pc[c] = "remove"

(* A call of RPC o is about to create a file that it could not look at.    *)
CreatesBlind(o) == \E c \in Calls : At(c, o, "open") /\ blind[c]

(* "a stable MAC": once mac.txt holds an address, DeleteVM may take it     *)
(* away, and a CreateVM whose stat of the file has failed may empty it to  *)
(* write another; no other step of any call changes it.                    *)
StableMAC ==
  [][mac' # mac /\ mac \in Macs =>
       \/ Deleting /\ mac' = NoFile
       \/ CreatesBlind("create") /\ mac' = Empty]_vars

(* CreateVM that returns nil leaves a whole address, unless an earlier one *)
(* was broken off while it wrote the file, or a DeleteVM came between.     *)
MacDelivered ==
  \A c \in Calls : At(c, "create", "nil") /\ ~raced[c] /\ "mac" \notin torn => mac \in Macs

(* What a guest has written stays until DeleteVM removes the disk, or an   *)
(* AttachDisk whose stat of the file has failed truncates it; an           *)
(* AttachDisk that finds the disk, however often, does not.                *)
GuestDataKept ==
  [][disk # NoFile /\ disk.data # {} =>
       \/ disk' # NoFile /\ disk.data \subseteq disk'.data
       \/ disk' = NoFile /\ Deleting
       \/ CreatesBlind("attach") /\ disk' = [size |-> 0, data |-> {}]]_vars

(* AttachDisk that returns nil leaves a disk a guest can write to, unless  *)
(* an earlier one was broken off before it had sized the file, or a        *)
(* DeleteVM came between.                                                  *)
DiskDelivered ==
  \A c \in Calls :
    At(c, "attach", "nil") /\ ~raced[c] /\ "disk" \notin torn =>
      disk # NoFile /\ disk.size > 0
=============================================================================
