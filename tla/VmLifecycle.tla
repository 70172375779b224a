---------------------------- MODULE VmLifecycle -----------------------------
(***************************************************************************)
(* CreateVM, StartVM, StopVM and DeleteVM of the QEMU hypervisor driver    *)
(* (src/builtin/qemu.go).  The driver keeps no state of its own: it works  *)
(* on the files of a VM's directory, the host's process table and one      *)
(* reaper goroutine per QEMU it launched, and it takes no lock.            *)
(*                                                                         *)
(* A process is named by its pid.  The kernel gives a pid out again only   *)
(* when its process is gone and, an assumption, its reaper has finished.   *)
(* The few digits of vm.pid are written whole or not at all, an assumption *)
(* too; the document in exit.json may be cut short.                        *)
(***************************************************************************)
EXTENDS Naturals, FiniteSets

CONSTANTS VMs,       \* VM UUIDs, which are the state directories
          Calls,     \* RPC goroutines
          Pids,
          Overlap,   \* TRUE: calls on one VM may overlap
          Ops,       \* the RPCs the agent issues
          Events,    \* what the environment does
          NoVM,      \* owner of a process that is not a QEMU of ours
          NoPid,
          NoFile,    \* the file does not exist
          Empty,     \* the file is there and holds nothing
          Torn       \* the file holds bytes that are no document

ASSUME OverlapAssumption == Overlap \in BOOLEAN
ASSUME OpsAssumption == Ops \subseteq {"create", "start", "stop", "delete"}
ASSUME EventsAssumption ==
  Events \subseteq {"reuse", "foreign", "restart", "readfail", "writefail"}
ASSUME NamesAssumption ==
  /\ NoVM \notin VMs
  /\ NoPid \notin Pids \cup {Empty}
  /\ {NoFile, Empty, Torn} \cap Pids = {}
  /\ NoFile \notin {Empty, Torn} /\ Empty # Torn

VARIABLES
  dir,     \* dir[v]: the VM directory exists and holds a kernel
  vmpid,   \* vmpid[v]: the pid in vm.pid, Empty, NoPid if there is no file
  tmp,     \* tmp[v]: exit.json.tmp: the pid it reports, Empty, Torn or NoFile
  exit,    \* exit[v]: exit.json, likewise
  proc,    \* proc[p]: "none", "running" or "zombie"
  who,     \* who[p]: the VM whose QEMU p is or was
  reaper,  \* reaper[p]: who will reap p
  fd,      \* fd[p]: where the open file of p's reaper is now linked
  shared,  \* history: the VMs of which two reapers had the temporary file
  term,    \* QEMUs that got SIGTERM
  spent,   \* pids that are not given out again
  pc, vm, pid   \* per call: next step, its VM, the pid it read or launched

files == <<dir, vmpid, tmp, exit>>
procs == <<proc, who, reaper, term, spent>>
calls == <<pc, vm, pid>>
vars == <<dir, vmpid, tmp, exit, proc, who, reaper, fd, shared, term, spent, pc, vm, pid>>

(* starting: launched, its StartVM has not come to vm.pid yet.  unwaited:  *)
(* its StartVM failed on vm.pid and nobody calls Wait.  lost: the same,    *)
(* but the plugin died, so init reaps it.  none: init reaps it too, or     *)
(* there is no process.  waiting: in cmd.Wait.  create, write, rename: the *)
(* steps of writing exit.json that follow.                                 *)
Contents == Pids \cup {NoFile, Empty, Torn}
Reapers == {"none", "starting", "unwaited", "lost", "waiting", "create", "write", "rename"}
Pcs == {"idle", "clean", "kernel", "launch", "record", "write", "writegone",
        "signal", "remove"}

TypeOK ==
  /\ dir \in [VMs -> BOOLEAN]
  /\ vmpid \in [VMs -> Pids \cup {NoPid, Empty}]
  /\ tmp \in [VMs -> Contents]
  /\ exit \in [VMs -> Contents]
  /\ proc \in [Pids -> {"none", "running", "zombie"}]
  /\ who \in [Pids -> VMs \cup {NoVM}]
  /\ reaper \in [Pids -> Reapers]
  /\ fd \in [Pids -> {"none", "tmp", "exit", "gone"}]
  /\ shared \subseteq VMs
  /\ term \subseteq Pids
  /\ spent \subseteq Pids
  /\ pc \in [Calls -> Pcs]
  /\ vm \in [Calls -> VMs \cup {NoVM}]
  /\ pid \in [Calls -> Pids \cup {NoPid}]

Init ==
  /\ dir = [v \in VMs |-> FALSE]
  /\ vmpid = [v \in VMs |-> NoPid]
  /\ tmp = [v \in VMs |-> NoFile]
  /\ exit = [v \in VMs |-> NoFile]
  /\ proc = [p \in Pids |-> "none"]
  /\ who = [p \in Pids |-> NoVM]
  /\ reaper = [p \in Pids |-> "none"]
  /\ fd = [p \in Pids |-> "none"]
  /\ shared = {}
  /\ term = {}
  /\ spent = {}
  /\ pc = [c \in Calls |-> "idle"]
  /\ vm = [c \in Calls |-> NoVM]
  /\ pid = [c \in Calls |-> NoPid]

(* A pid the kernel may give to a new process.                             *)
Available(p) ==
  /\ proc[p] = "none"
  /\ reaper[p] = "none"
  /\ p \notin spent

Spawn(p, v) ==
  /\ proc' = [proc EXCEPT ![p] = "running"]
  /\ who' = [who EXCEPT ![p] = v]
  /\ spent' = IF "reuse" \in Events THEN spent ELSE spent \cup {p}

(* Call c enters its handler on v, or one that does all its work at once.  *)
Enter(c, o, v, l, p) ==
  /\ o \in Ops
  /\ pc[c] = "idle"
  /\ Overlap \/ \A d \in Calls : vm[d] # v
  /\ pc' = [pc EXCEPT ![c] = l]
  /\ vm' = [vm EXCEPT ![c] = IF l = "idle" THEN NoVM ELSE v]
  /\ pid' = [pid EXCEPT ![c] = p]

Goto(c, l) == pc' = [pc EXCEPT ![c] = l] /\ UNCHANGED <<vm, pid>>

Leave(c) ==
  /\ pc' = [pc EXCEPT ![c] = "idle"]
  /\ vm' = [vm EXCEPT ![c] = NoVM]
  /\ pid' = [pid EXCEPT ![c] = NoPid]

-----------------------------------------------------------------------------
(* StartVM *)

(* Mutant of pidAlive: the answer to signal 0 is inverted. *)
pidAliveInverted(v) == {vmpid[v] \in Pids /\ proc[vmpid[v]] = "none"}

(* The answers it may give.  Signal 0 reaches whatever process has the     *)
(* pid, a zombie included; one of another user refuses it.  A vm.pid that  *)
(* cannot be read, or parsed, names no process.                            *)
pidAlive(v) ==
  LET found == vmpid[v] \in Pids /\ proc[vmpid[v]] # "none"
  IN IF found /\ (who[vmpid[v]] = NoVM \/ "readfail" \in Events) THEN BOOLEAN ELSE {found}

StartVM(c, v) ==
  /\ \E alive \in pidAlive(v) :
       Enter(c, "start", v, IF alive THEN "idle" ELSE "clean", NoPid)
  /\ UNCHANGED <<files, procs, fd, shared>>

(* What becomes of the open files linked at the names of v in `from`.      *)
Unlinked(v, from) ==
  fd' = [p \in Pids |-> IF who[p] = v /\ fd[p] \in from THEN "gone" ELSE fd[p]]

(* os.Remove of exit.json *)
StartClean(c) ==
  /\ pc[c] = "clean"
  /\ exit' = [exit EXCEPT ![vm[c]] = NoFile]
  /\ Unlinked(vm[c], {"exit"})
  /\ Goto(c, "kernel")
  /\ UNCHANGED <<dir, vmpid, tmp, procs, shared>>

(* os.Stat of the kernel *)
StartKernel(c) ==
  /\ pc[c] = "kernel"
  /\ dir[vm[c]]
  /\ Goto(c, "launch")
  /\ UNCHANGED <<files, procs, fd, shared>>

(* No kernel, arguments that do not build, or a QEMU that does not start.  *)
StartFails(c) ==
  /\ pc[c] \in {"kernel", "launch"}
  /\ Leave(c)
  /\ UNCHANGED <<files, procs, fd, shared>>

(* cmd.Start *)
StartLaunch(c) ==
  /\ pc[c] = "launch"
  /\ \E p \in Pids :
       /\ Available(p)
       /\ Spawn(p, vm[c])
       /\ reaper' = [reaper EXCEPT ![p] = "starting"]
       /\ pid' = [pid EXCEPT ![c] = p]
  /\ pc' = [pc EXCEPT ![c] = "record"]
  /\ UNCHANGED <<files, fd, shared, term, vm>>

(* os.WriteFile(vm.pid): open, which truncates a file that is there.       *)
StartOpenPid(c) ==
  /\ pc[c] = "record"
  /\ dir[vm[c]]
  /\ vmpid' = [vmpid EXCEPT ![vm[c]] = Empty]
  /\ Goto(c, "write")
  /\ UNCHANGED <<dir, tmp, exit, procs, fd, shared>>

(* What vm.pid may read when p is written over what it holds: over another *)
(* number, which may have more digits, any pid.                            *)
PidOver(old, p) == IF old \in {Empty, p} THEN {p} ELSE Pids

(* Mutant of StartRecord: the VM's UUID is written in the place of the pid. *)
StartRecordUUID(c) ==
  /\ pc[c] \in {"write", "writegone"}
  /\ vmpid' = [vmpid EXCEPT ![vm[c]] = vm[c]]
  /\ reaper' = [reaper EXCEPT ![pid[c]] = "waiting"]
  /\ Leave(c)
  /\ UNCHANGED <<dir, tmp, exit, proc, who, fd, shared, term, spent>>

(* os.WriteFile(vm.pid): write, into the file that was opened, DeleteVM    *)
(* may have unlinked it; then the reaper goroutine is started.             *)
StartRecord(c) ==
  /\ \/ /\ pc[c] = "write"
        /\ \E p \in PidOver(vmpid[vm[c]], pid[c]) : vmpid' = [vmpid EXCEPT ![vm[c]] = p]
     \/ /\ pc[c] = "writegone"
        /\ UNCHANGED vmpid
  /\ reaper' = [reaper EXCEPT ![pid[c]] = "waiting"]
  /\ Leave(c)
  /\ UNCHANGED <<dir, tmp, exit, proc, who, fd, shared, term, spent>>

(* Opening or writing vm.pid fails: StartVM returns the error, QEMU runs   *)
(* on; a file that was opened is left as it is, empty as a rule.           *)
StartRecordFails(c) ==
  /\ \/ pc[c] \in {"record", "write", "writegone"} /\ "writefail" \in Events
     \/ pc[c] = "record" /\ ~dir[vm[c]]
  /\ reaper' = [reaper EXCEPT ![pid[c]] = "unwaited"]
  /\ Leave(c)
  /\ UNCHANGED <<files, proc, who, fd, shared, term, spent>>

-----------------------------------------------------------------------------
(* StopVM: readPID, then FindProcess and Signal *)

(* Without a vm.pid StopVM returns nil; one that does not parse, or cannot *)
(* be read, is an error.                                                   *)
StopVM(c, v) ==
  /\ \/ vmpid[v] \in Pids /\ Enter(c, "stop", v, "signal", vmpid[v])
     \/ /\ vmpid[v] \notin Pids \/ "readfail" \in Events
        /\ Enter(c, "stop", v, "idle", NoPid)
  /\ UNCHANGED <<files, procs, fd, shared>>

(* The signal goes to whatever process has the pid by now: another VM's    *)
(* QEMU, or one that is none of ours and may exit whether it got it or not. *)
StopSignal(c) ==
  /\ pc[c] = "signal"
  /\ term' = IF proc[pid[c]] = "running" /\ who[pid[c]] \in VMs
             THEN term \cup {pid[c]} ELSE term
  /\ Leave(c)
  /\ UNCHANGED <<files, proc, who, reaper, spent, fd, shared>>

-----------------------------------------------------------------------------
(* CreateVM, which makes the directory with its kernel; DeleteVM           *)

CreateVM(c, v) ==
  /\ Enter(c, "create", v, "idle", NoPid)
  /\ dir' = [dir EXCEPT ![v] = TRUE]
  /\ UNCHANGED <<vmpid, tmp, exit, procs, fd, shared>>

DeleteVM(c, v) ==
  /\ Enter(c, "delete", v, "remove", NoPid)
  /\ UNCHANGED <<files, procs, fd, shared>>

(* os.RemoveAll unlinks the files in any order.                            *)
RemovePid(c) ==
  /\ pc[c] = "remove"
  /\ vmpid[vm[c]] # NoPid
  /\ vmpid' = [vmpid EXCEPT ![vm[c]] = NoPid]
  /\ pc' = [d \in Calls |-> IF vm[d] = vm[c] /\ pc[d] = "write" THEN "writegone" ELSE pc[d]]
  /\ UNCHANGED <<dir, tmp, exit, procs, fd, shared, vm, pid>>

RemoveTmp(c) ==
  /\ pc[c] = "remove"
  /\ tmp[vm[c]] # NoFile
  /\ tmp' = [tmp EXCEPT ![vm[c]] = NoFile]
  /\ Unlinked(vm[c], {"tmp"})
  /\ UNCHANGED <<dir, vmpid, exit, procs, shared, calls>>

RemoveExit(c) ==
  /\ pc[c] = "remove"
  /\ exit[vm[c]] # NoFile
  /\ exit' = [exit EXCEPT ![vm[c]] = NoFile]
  /\ Unlinked(vm[c], {"exit"})
  /\ UNCHANGED <<dir, vmpid, tmp, procs, shared, calls>>

(* The directory goes when it is empty.                                    *)
RemoveDir(c) ==
  /\ pc[c] = "remove"
  /\ vmpid[vm[c]] = NoPid /\ tmp[vm[c]] = NoFile /\ exit[vm[c]] = NoFile
  /\ dir' = [dir EXCEPT ![vm[c]] = FALSE]
  /\ Leave(c)
  /\ UNCHANGED <<vmpid, tmp, exit, procs, fd, shared>>

(* A file does not go, or another was made meanwhile.                      *)
RemoveFails(c) ==
  /\ pc[c] = "remove"
  /\ Leave(c)
  /\ UNCHANGED <<files, procs, fd, shared>>

-----------------------------------------------------------------------------
(* The reaper goroutine of pid p *)

(* Mutant of ReaperWait: exit.json is written at once. *)
ReaperDoesNotWait(p) ==
  /\ reaper[p] = "waiting"
  /\ reaper' = [reaper EXCEPT ![p] = "create"]
  /\ UNCHANGED <<files, proc, who, fd, shared, term, spent, calls>>

(* cmd.Wait returns. *)
ReaperWait(p) ==
  /\ reaper[p] = "waiting"
  /\ proc[p] = "zombie"
  /\ proc' = [proc EXCEPT ![p] = "none"]
  /\ reaper' = [reaper EXCEPT ![p] = "create"]
  /\ UNCHANGED <<files, who, fd, shared, term, spent, calls>>

(* p's reaper may be between opening the temporary file of v and renaming. *)
HasTmp(p, v) == reaper[p] \in {"write", "rename"} /\ who[p] = v

(* os.WriteFile(tmp): open, which truncates a file that is there already.  *)
ReaperCreate(p) ==
  /\ reaper[p] = "create"
  /\ dir[who[p]]
  /\ tmp' = [tmp EXCEPT ![who[p]] = Empty]
  /\ fd' = [fd EXCEPT ![p] = "tmp"]
  /\ reaper' = [reaper EXCEPT ![p] = "write"]
  /\ shared' = IF \E q \in Pids : HasTmp(q, who[p]) THEN shared \cup {who[p]} ELSE shared
  /\ UNCHANGED <<dir, vmpid, exit, proc, who, term, spent, calls>>

(* The directory is gone, or the file cannot be opened: the goroutine ends. *)
ReaperGivesUp(p) ==
  /\ reaper[p] = "create"
  /\ ~dir[who[p]] \/ "writefail" \in Events
  /\ reaper' = [reaper EXCEPT ![p] = "none"]
  /\ UNCHANGED <<files, proc, who, fd, shared, term, spent, calls>>

(* The file that p's reaper has open comes to hold d, whatever it is       *)
(* called by now.                                                          *)
Put(p, d) ==
  /\ tmp' = IF fd[p] = "tmp" THEN [tmp EXCEPT ![who[p]] = d] ELSE tmp
  /\ exit' = IF fd[p] = "exit" THEN [exit EXCEPT ![who[p]] = d] ELSE exit
  /\ fd' = [fd EXCEPT ![p] = "none"]

Held(p) == IF fd[p] = "exit" THEN exit[who[p]] ELSE tmp[who[p]]

(* A document over an empty file is whole; over a longer one it is not.    *)
DocOver(old, p) == IF old = Empty THEN {p} ELSE {p, Torn}

(* Mutant of ReaperWrite: the file is never renamed. *)
ReaperWriteOnly(p) ==
  /\ reaper[p] = "write"
  /\ \E d \in DocOver(Held(p), p) : Put(p, d)
  /\ reaper' = [reaper EXCEPT ![p] = "none"]
  /\ UNCHANGED <<dir, vmpid, proc, who, shared, term, spent, calls>>

(* os.WriteFile(tmp): write and close.                                     *)
ReaperWrite(p) ==
  /\ reaper[p] = "write"
  /\ \E d \in DocOver(Held(p), p) : Put(p, d)
  /\ reaper' = [reaper EXCEPT ![p] = "rename"]
  /\ UNCHANGED <<dir, vmpid, proc, who, shared, term, spent, calls>>

(* Mutant of ReaperWriteFails: the file is renamed all the same. *)
ReaperRenamesAnyway(p) ==
  /\ "writefail" \in Events
  /\ reaper[p] = "write"
  /\ \E d \in {Held(p), Torn} : Put(p, d)
  /\ reaper' = [reaper EXCEPT ![p] = "rename"]
  /\ UNCHANGED <<dir, vmpid, proc, who, shared, term, spent, calls>>

(* The write fails, half way perhaps: the goroutine ends, the file stays.  *)
ReaperWriteFails(p) ==
  /\ "writefail" \in Events
  /\ reaper[p] = "write"
  /\ \E d \in {Held(p), Torn} : Put(p, d)
  /\ reaper' = [reaper EXCEPT ![p] = "none"]
  /\ UNCHANGED <<dir, vmpid, proc, who, shared, term, spent, calls>>

(* os.Rename(tmp, final), whose error is ignored.                          *)
ReaperRename(p) ==
  /\ reaper[p] = "rename"
  /\ \/ tmp[who[p]] = NoFile /\ UNCHANGED <<tmp, exit, fd>>
     \/ /\ tmp[who[p]] # NoFile
        /\ exit' = [exit EXCEPT ![who[p]] = tmp[who[p]]]
        /\ tmp' = [tmp EXCEPT ![who[p]] = NoFile]
        /\ fd' = [q \in Pids |->
                    IF who[q] # who[p] THEN fd[q]
                    ELSE CASE fd[q] = "tmp" -> "exit"
                           [] fd[q] = "exit" -> "gone"
                           [] OTHER -> fd[q]]
  /\ reaper' = [reaper EXCEPT ![p] = "none"]
  /\ UNCHANGED <<dir, vmpid, proc, who, shared, term, spent, calls>>

-----------------------------------------------------------------------------
(* The environment *)

(* The guest powers off, QEMU crashes, or it obeys a SIGTERM.              *)
Exit(p) ==
  /\ proc[p] = "running"
  /\ term' = term \ {p}
  /\ IF reaper[p] \in {"none", "lost"}
     THEN /\ proc' = [proc EXCEPT ![p] = "none"]
          /\ reaper' = [reaper EXCEPT ![p] = "none"]
     ELSE /\ proc' = [proc EXCEPT ![p] = "zombie"]
          /\ UNCHANGED reaper
  /\ UNCHANGED <<files, who, fd, shared, spent, calls>>

(* Some other process of the host gets the pid.                            *)
ForeignStart(p) ==
  /\ "foreign" \in Events
  /\ Available(p)
  /\ Spawn(p, NoVM)
  /\ UNCHANGED <<files, reaper, fd, shared, term, calls>>

(* The plugin dies and is started again.  QEMU runs in a session of its    *)
(* own and survives; calls and reapers do not.                             *)
Restart ==
  /\ "restart" \in Events
  /\ proc' = [p \in Pids |-> IF proc[p] = "zombie" THEN "none" ELSE proc[p]]
  /\ reaper' = [p \in Pids |->
                  IF reaper[p] \in {"starting", "unwaited", "lost"} /\ proc[p] = "running"
                  THEN "lost" ELSE "none"]
  /\ fd' = [p \in Pids |-> "none"]
  /\ pc' = [c \in Calls |-> "idle"]
  /\ vm' = [c \in Calls |-> NoVM]
  /\ pid' = [c \in Calls |-> NoPid]
  /\ UNCHANGED <<files, who, shared, term, spent>>

Reaper(p) ==
  \/ ReaperWait(p) \/ ReaperCreate(p) \/ ReaperGivesUp(p)
  \/ ReaperWrite(p) \/ ReaperWriteFails(p) \/ ReaperRename(p)

Step(c) ==
  \/ StartClean(c) \/ StartKernel(c) \/ StartFails(c) \/ StartLaunch(c)
  \/ StartOpenPid(c) \/ StartRecord(c) \/ StartRecordFails(c)
  \/ StopSignal(c)
  \/ RemovePid(c) \/ RemoveTmp(c) \/ RemoveExit(c) \/ RemoveDir(c) \/ RemoveFails(c)

Next ==
  \/ \E c \in Calls, v \in VMs :
       StartVM(c, v) \/ StopVM(c, v) \/ CreateVM(c, v) \/ DeleteVM(c, v)
  \/ \E c \in Calls : Step(c)
  \/ \E p \in Pids : Reaper(p) \/ Exit(p) \/ ForeignStart(p)
  \/ Restart

Spec == Init /\ [][Next]_vars

(* Goroutines run on, and a QEMU that got SIGTERM shuts down in the end.   *)
Fairness ==
  /\ \A c \in Calls : WF_vars(Step(c))
  /\ \A p \in Pids : WF_vars(Reaper(p)) /\ WF_vars(p \in term /\ Exit(p))

FairSpec == Spec /\ Fairness
-----------------------------------------------------------------------------
(* Safety *)

RunsFor(p, v) == proc[p] = "running" /\ who[p] = v
Busy(v) == \E c \in Calls : vm[c] = v

(* When calls on a VM do not overlap and it is not deleted, StopVM can     *)
(* reach every QEMU that was recorded in vm.pid and still runs: no other   *)
(* is recorded over it.  A QEMU whose StartVM has not come to write vm.pid *)
(* yet, failed to, or died on the way is not recorded; StopVM cannot reach *)
(* it, and StartVM will launch another beside it.                          *)
EveryQemuStoppable ==
  \A p \in Pids, v \in VMs :
    RunsFor(p, v) => vmpid[v] = p \/ reaper[p] \in {"starting", "unwaited", "lost"}

(* exit.json never names a QEMU that runs: a reader who compares its pid   *)
(* with the one in vm.pid is not misled, however calls, reapers and        *)
(* restarts interleave, while pids are not reused.                         *)
ExitNamesTheDead == \A v \in VMs : exit[v] \in Pids => ~RunsFor(exit[v], v)

(* "so a concurrent status reader can never observe a half-written JSON    *)
(* document": whatever writes fail, and wherever the plugin dies, what     *)
(* stands in exit.json is whole, as long as no two reapers of one VM have  *)
(* had the temporary file at once, which all of them share.                *)
ExitWholeUnlessShared ==
  \A v \in VMs : exit[v] \in {Empty, Torn} => v \in shared

(* "Clear any stale exit.json from a previous run before we relaunch":     *)
(* once StartVM has returned, no exit.json stands beside a running QEMU.   *)
NoExitFileWhileRunning ==
  \A v \in VMs :
    vmpid[v] \in Pids /\ RunsFor(vmpid[v], v) /\ ~Busy(v) => exit[v] = NoFile

-----------------------------------------------------------------------------
(* Liveness *)

(* The QEMU that vm.pid names, once it was stopped or has exited, is       *)
(* reported: exit.json names it in the end, unless vm.pid changes, the VM  *)
(* is being deleted, or the reaper of another QEMU of the VM is at work on *)
(* the files they share.  Writes do not fail and the plugin does not die.  *)
ExitIsReported ==
  \A v \in VMs, p \in Pids :
    (vmpid[v] = p /\ who[p] = v /\ reaper[p] = "waiting" /\ (p \in term \/ proc[p] = "zombie"))
      ~> \/ exit[v] = p
         \/ vmpid[v] # p
         \/ \E c \in Calls : vm[c] = v /\ pc[c] = "remove"
         \/ \E q \in Pids \ {p} : who[q] = v /\ reaper[q] \in {"create", "write", "rename"}
=============================================================================
