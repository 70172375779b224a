-------------------------- MODULE VmLifecycleProofs --------------------------
(***************************************************************************)
(* What is proved of VmLifecycle for every set of VMs, calls and pids:     *)
(* typing; whole documents in exit.json, as long as no two reapers share   *)
(* the temporary file; that it names no QEMU that runs, as long as pids    *)
(* are not given out again; that recorded QEMUs can be stopped, when calls *)
(* on a VM do not overlap.                                                 *)
(***************************************************************************)
EXTENDS VmLifecycle, TLAPS

(* A StartVM that has launched a QEMU and not done with vm.pid.            *)
Recording == {"record", "write", "writegone"}

(* A call in its handler knows its VM, and a StopVM the pid it read.       *)
CallInv ==
  \A c \in Calls :
    /\ pc[c] # "idle" => vm[c] \in VMs
    /\ pc[c] = "signal" => pid[c] \in Pids

(* The QEMU that a StartVM has launched is its own until it has recorded   *)
(* it: nobody else waits for it, and its pid is not given out again.       *)
LaunchInv ==
  /\ \A c \in Calls :
       pc[c] \in Recording =>
         /\ pid[c] \in Pids
         /\ reaper[pid[c]] = "starting"
         /\ who[pid[c]] = vm[c]
  /\ \A c, d \in Calls :
       pc[c] \in Recording /\ pc[d] \in Recording /\ pid[c] = pid[d] => c = d

(* A reaper works for a VM, and has a file open between creating and       *)
(* writing it.                                                             *)
ReaperInv ==
  \A p \in Pids :
    /\ reaper[p] # "none" => who[p] \in VMs
    /\ fd[p] = "none" <=> reaper[p] # "write"

IInv ==
  /\ TypeOK
  /\ CallInv
  /\ LaunchInv
  /\ ReaperInv

(* The temporary file of a VM that was never shared is the one reaper's:   *)
(* empty from opening to writing, whole until it is renamed, gone when     *)
(* DeleteVM has unlinked it.                                               *)
OwnInv ==
  \A v \in VMs :
    v \notin shared =>
      /\ exit[v] \in Pids \cup {NoFile}
      /\ \A p, q \in Pids : HasTmp(p, v) /\ HasTmp(q, v) => p = q
      /\ \A p \in Pids :
           /\ reaper[p] = "write" /\ who[p] = v =>
                \/ fd[p] = "tmp" /\ tmp[v] = Empty
                \/ fd[p] = "gone" /\ tmp[v] = NoFile
           /\ reaper[p] = "rename" /\ who[p] = v => tmp[v] \in {p, NoFile}

(* While pids are not given out again, a process that is dead stays dead.  *)
Gone(p) == p \in spent /\ proc[p] = "none"

(* A pid is spent when its process starts; a reaper that has come past     *)
(* Wait, and the files it has written, name a process that is gone.        *)
FreshInv ==
  /\ \A p \in Pids :
       /\ proc[p] # "none" => p \in spent
       /\ reaper[p] \in {"create", "write", "rename"} => Gone(p)
  /\ \A v \in VMs :
       /\ tmp[v] \in Pids => Gone(tmp[v])
       /\ exit[v] \in Pids => Gone(exit[v])

(* Its StartVM has not written vm.pid, or never will.                      *)
Unrecorded == {"starting", "unwaited", "lost"}

(* Calls on a VM exclude each other; a StartVM that found no process under *)
(* vm.pid knows that none runs but those no vm.pid was written for, and    *)
(* nobody writes vm.pid beside it.                                         *)
SerialInv ==
  /\ \A c, d \in Calls : vm[c] \in VMs /\ vm[c] = vm[d] => c = d
  /\ \A c \in Calls :
       pc[c] \in {"clean", "kernel", "launch"} \cup Recording =>
         \A p \in Pids : RunsFor(p, vm[c]) => reaper[p] \in Unrecorded
  /\ \A c \in Calls :
       /\ pc[c] = "write" => vmpid[vm[c]] = Empty
       /\ pc[c] \notin {"writegone", "remove"}
  /\ EveryQemuStoppable
-----------------------------------------------------------------------------
(* The inductive invariant holds initially, and every step keeps each of  *)
(* its parts.                                                              *)
LEMMA InitIInv == Init => IInv
BY NamesAssumption DEF Init, IInv, TypeOK, CallInv, LaunchInv, ReaperInv,
      Recording, Reapers, Pcs, Contents

(* Every step keeps the types; StopSignal needs the pid to be one.         *)
LEMMA TypeStep ==
  ASSUME IInv, [Next]_vars
  PROVE  TypeOK'
<1> USE NamesAssumption DEF IInv, TypeOK, Reapers, Pcs, Contents, CallInv, LaunchInv,
      Recording, files, procs, calls
<1>1. CASE \E c \in Calls, v \in VMs : StartVM(c, v)
  BY <1>1 DEF StartVM, Enter
<1>2. CASE \E c \in Calls, v \in VMs : StopVM(c, v)
  BY <1>2 DEF StopVM, Enter
<1>3. CASE \E c \in Calls, v \in VMs : CreateVM(c, v)
  BY <1>3 DEF CreateVM, Enter
<1>4. CASE \E c \in Calls, v \in VMs : DeleteVM(c, v)
  BY <1>4 DEF DeleteVM, Enter
<1>5. CASE \E c \in Calls : StartClean(c)
  BY <1>5 DEF StartClean, Goto, Unlinked
<1>6. CASE \E c \in Calls : StartKernel(c)
  BY <1>6 DEF StartKernel, Goto
<1>7. CASE \E c \in Calls : StartFails(c)
  BY <1>7 DEF StartFails, Leave
<1>8. CASE \E c \in Calls : StartLaunch(c)
  BY <1>8 DEF StartLaunch, Available, Spawn
<1>9. CASE \E c \in Calls : StartOpenPid(c)
  BY <1>9 DEF StartOpenPid, Goto
<1>10. CASE \E c \in Calls : StartRecord(c)
  BY <1>10 DEF StartRecord, Leave, PidOver
<1>11. CASE \E c \in Calls : StartRecordFails(c)
  BY <1>11 DEF StartRecordFails, Leave
<1>12. CASE \E c \in Calls : StopSignal(c)
  BY <1>12 DEF StopSignal, Leave
<1>13. CASE \E c \in Calls : RemovePid(c)
  BY <1>13 DEF RemovePid
<1>14. CASE \E c \in Calls : RemoveTmp(c)
  BY <1>14 DEF RemoveTmp, Unlinked
<1>15. CASE \E c \in Calls : RemoveExit(c)
  BY <1>15 DEF RemoveExit, Unlinked
<1>16. CASE \E c \in Calls : RemoveDir(c)
  BY <1>16 DEF RemoveDir, Leave
<1>17. CASE \E c \in Calls : RemoveFails(c)
  BY <1>17 DEF RemoveFails, Leave
<1>18. CASE \E p \in Pids : ReaperWait(p)
  BY <1>18 DEF ReaperWait
<1>19. CASE \E p \in Pids : ReaperCreate(p)
  <2>1. PICK p \in Pids : ReaperCreate(p)
    BY <1>19
  <2>2. tmp' \in [VMs -> Contents]
    BY <2>1 DEF ReaperCreate
  <2>3. fd' \in [Pids -> {"none", "tmp", "exit", "gone"}] /\ reaper' \in [Pids -> Reapers]
    BY <2>1 DEF ReaperCreate
  <2>4. shared' \subseteq VMs
    BY <2>1 DEF ReaperCreate, ReaperInv
  <2> QED BY <2>1, <2>2, <2>3, <2>4 DEF ReaperCreate
<1>20. CASE \E p \in Pids : ReaperGivesUp(p)
  BY <1>20 DEF ReaperGivesUp
<1>21. CASE \E p \in Pids : ReaperWrite(p)
  <2>1. PICK p \in Pids : ReaperWrite(p)
    BY <1>21
  <2>2. PICK d \in DocOver(Held(p), p) : Put(p, d)
    BY <2>1 DEF ReaperWrite
  <2>3. who[p] \in VMs /\ Held(p) \in Contents
    BY <2>1 DEF ReaperWrite, ReaperInv, Held
  <2>4. d \in Contents
    BY <2>2, <2>3 DEF DocOver
  <2>5. tmp' \in [VMs -> Contents]
    BY <2>2, <2>3, <2>4 DEF Put
  <2>6. exit' \in [VMs -> Contents]
    BY <2>2, <2>3, <2>4 DEF Put
  <2>7. fd' \in [Pids -> {"none", "tmp", "exit", "gone"}] /\ reaper' \in [Pids -> Reapers]
    BY <2>1, <2>2 DEF ReaperWrite, Put
  <2> QED BY <2>1, <2>5, <2>6, <2>7 DEF ReaperWrite
<1>22. CASE \E p \in Pids : ReaperWriteFails(p)
  <2>1. PICK p \in Pids : ReaperWriteFails(p)
    BY <1>22
  <2>2. PICK d \in {Held(p), Torn} : Put(p, d)
    BY <2>1 DEF ReaperWriteFails
  <2>3. who[p] \in VMs /\ Held(p) \in Contents
    BY <2>1 DEF ReaperWriteFails, ReaperInv, Held
  <2>4. d \in Contents
    BY <2>2, <2>3
  <2>5. tmp' \in [VMs -> Contents]
    BY <2>2, <2>3, <2>4 DEF Put
  <2>6. exit' \in [VMs -> Contents]
    BY <2>2, <2>3, <2>4 DEF Put
  <2>7. fd' \in [Pids -> {"none", "tmp", "exit", "gone"}] /\ reaper' \in [Pids -> Reapers]
    BY <2>1, <2>2 DEF ReaperWriteFails, Put
  <2> QED BY <2>1, <2>5, <2>6, <2>7 DEF ReaperWriteFails
<1>23. CASE \E p \in Pids : ReaperRename(p)
  BY <1>23 DEF ReaperRename
<1>24. CASE \E p \in Pids : Exit(p)
  BY <1>24 DEF Exit
<1>25. CASE \E p \in Pids : ForeignStart(p)
  BY <1>25 DEF ForeignStart, Available, Spawn
<1>26. CASE Restart
  BY <1>26 DEF Restart
<1>27. CASE UNCHANGED vars
  BY <1>27 DEF vars
<1> QED BY <1>1, <1>2, <1>3, <1>4, <1>5, <1>6, <1>7, <1>8, <1>9, <1>10,
      <1>11, <1>12, <1>13, <1>14, <1>15, <1>16, <1>17, <1>18, <1>19, <1>20,
      <1>21, <1>22, <1>23, <1>24, <1>25, <1>26, <1>27
  DEF Next, Step, Reaper

(* A call keeps its VM until it returns.                                   *)
LEMMA CallStep ==
  ASSUME IInv, [Next]_vars
  PROVE  CallInv'
<1> USE NamesAssumption DEF IInv, TypeOK, CallInv, Pcs, files, procs, calls
<1>1. CASE \E c \in Calls, v \in VMs : StartVM(c, v)
  BY <1>1 DEF StartVM, Enter
<1>2. CASE \E c \in Calls, v \in VMs : StopVM(c, v)
  BY <1>2 DEF StopVM, Enter
<1>3. CASE \E c \in Calls, v \in VMs : CreateVM(c, v)
  BY <1>3 DEF CreateVM, Enter
<1>4. CASE \E c \in Calls, v \in VMs : DeleteVM(c, v)
  BY <1>4 DEF DeleteVM, Enter
<1>5. CASE \E c \in Calls : StartClean(c)
  BY <1>5 DEF StartClean, Goto, Unlinked
<1>6. CASE \E c \in Calls : StartKernel(c)
  BY <1>6 DEF StartKernel, Goto
<1>7. CASE \E c \in Calls : StartFails(c)
  BY <1>7 DEF StartFails, Leave
<1>8. CASE \E c \in Calls : StartLaunch(c)
  BY <1>8 DEF StartLaunch, Available, Spawn
<1>9. CASE \E c \in Calls : StartOpenPid(c)
  BY <1>9 DEF StartOpenPid, Goto
<1>10. CASE \E c \in Calls : StartRecord(c)
  BY <1>10 DEF StartRecord, Leave, PidOver
<1>11. CASE \E c \in Calls : StartRecordFails(c)
  BY <1>11 DEF StartRecordFails, Leave
<1>12. CASE \E c \in Calls : StopSignal(c)
  BY <1>12 DEF StopSignal, Leave
<1>13. CASE \E c \in Calls : RemovePid(c)
  BY <1>13 DEF RemovePid
<1>14. CASE \E c \in Calls : RemoveTmp(c)
  BY <1>14 DEF RemoveTmp, Unlinked
<1>15. CASE \E c \in Calls : RemoveExit(c)
  BY <1>15 DEF RemoveExit, Unlinked
<1>16. CASE \E c \in Calls : RemoveDir(c)
  BY <1>16 DEF RemoveDir, Leave
<1>17. CASE \E c \in Calls : RemoveFails(c)
  BY <1>17 DEF RemoveFails, Leave
<1>18. CASE \E p \in Pids : ReaperWait(p)
  BY <1>18 DEF ReaperWait
<1>19. CASE \E p \in Pids : ReaperCreate(p)
  BY <1>19 DEF ReaperCreate
<1>20. CASE \E p \in Pids : ReaperGivesUp(p)
  BY <1>20 DEF ReaperGivesUp
<1>21. CASE \E p \in Pids : ReaperWrite(p)
  BY <1>21 DEF ReaperWrite, Put, Held, DocOver
<1>22. CASE \E p \in Pids : ReaperWriteFails(p)
  BY <1>22 DEF ReaperWriteFails, Put, Held
<1>23. CASE \E p \in Pids : ReaperRename(p)
  BY <1>23 DEF ReaperRename
<1>24. CASE \E p \in Pids : Exit(p)
  BY <1>24 DEF Exit
<1>25. CASE \E p \in Pids : ForeignStart(p)
  BY <1>25 DEF ForeignStart, Available, Spawn
<1>26. CASE Restart
  BY <1>26 DEF Restart
<1>27. CASE UNCHANGED vars
  BY <1>27 DEF vars
<1> QED BY <1>1, <1>2, <1>3, <1>4, <1>5, <1>6, <1>7, <1>8, <1>9, <1>10,
      <1>11, <1>12, <1>13, <1>14, <1>15, <1>16, <1>17, <1>18, <1>19, <1>20,
      <1>21, <1>22, <1>23, <1>24, <1>25, <1>26, <1>27
  DEF Next, Step, Reaper

(* A launched QEMU has a reaper, so no process gets its pid.               *)
LEMMA LaunchStep ==
  ASSUME IInv, [Next]_vars
  PROVE  LaunchInv'
<1> USE NamesAssumption DEF IInv, TypeOK, CallInv, LaunchInv, ReaperInv, Recording,
      Reapers, Pcs, files, procs, calls
<1>1. CASE \E c \in Calls, v \in VMs : StartVM(c, v)
  BY <1>1 DEF StartVM, Enter
<1>2. CASE \E c \in Calls, v \in VMs : StopVM(c, v)
  BY <1>2 DEF StopVM, Enter
<1>3. CASE \E c \in Calls, v \in VMs : CreateVM(c, v)
  BY <1>3 DEF CreateVM, Enter
<1>4. CASE \E c \in Calls, v \in VMs : DeleteVM(c, v)
  BY <1>4 DEF DeleteVM, Enter
<1>5. CASE \E c \in Calls : StartClean(c)
  BY <1>5 DEF StartClean, Goto, Unlinked
<1>6. CASE \E c \in Calls : StartKernel(c)
  BY <1>6 DEF StartKernel, Goto
<1>7. CASE \E c \in Calls : StartFails(c)
  BY <1>7 DEF StartFails, Leave
<1>8. CASE \E c \in Calls : StartLaunch(c)
  BY <1>8 DEF StartLaunch, Available, Spawn
<1>9. CASE \E c \in Calls : StartOpenPid(c)
  BY <1>9 DEF StartOpenPid, Goto
<1>10. CASE \E c \in Calls : StartRecord(c)
  BY <1>10 DEF StartRecord, Leave, PidOver
<1>11. CASE \E c \in Calls : StartRecordFails(c)
  BY <1>11 DEF StartRecordFails, Leave
<1>12. CASE \E c \in Calls : StopSignal(c)
  BY <1>12 DEF StopSignal, Leave
<1>13. CASE \E c \in Calls : RemovePid(c)
  BY <1>13 DEF RemovePid
<1>14. CASE \E c \in Calls : RemoveTmp(c)
  BY <1>14 DEF RemoveTmp, Unlinked
<1>15. CASE \E c \in Calls : RemoveExit(c)
  BY <1>15 DEF RemoveExit, Unlinked
<1>16. CASE \E c \in Calls : RemoveDir(c)
  BY <1>16 DEF RemoveDir, Leave
<1>17. CASE \E c \in Calls : RemoveFails(c)
  BY <1>17 DEF RemoveFails, Leave
<1>18. CASE \E p \in Pids : ReaperWait(p)
  BY <1>18 DEF ReaperWait
<1>19. CASE \E p \in Pids : ReaperCreate(p)
  BY <1>19 DEF ReaperCreate
<1>20. CASE \E p \in Pids : ReaperGivesUp(p)
  BY <1>20 DEF ReaperGivesUp
<1>21. CASE \E p \in Pids : ReaperWrite(p)
  BY <1>21 DEF ReaperWrite, Put, Held, DocOver
<1>22. CASE \E p \in Pids : ReaperWriteFails(p)
  BY <1>22 DEF ReaperWriteFails, Put, Held
<1>23. CASE \E p \in Pids : ReaperRename(p)
  BY <1>23 DEF ReaperRename
<1>24. CASE \E p \in Pids : Exit(p)
  BY <1>24 DEF Exit
<1>25. CASE \E p \in Pids : ForeignStart(p)
  BY <1>25 DEF ForeignStart, Available, Spawn
<1>26. CASE Restart
  BY <1>26 DEF Restart
<1>27. CASE UNCHANGED vars
  BY <1>27 DEF vars
<1> QED BY <1>1, <1>2, <1>3, <1>4, <1>5, <1>6, <1>7, <1>8, <1>9, <1>10,
      <1>11, <1>12, <1>13, <1>14, <1>15, <1>16, <1>17, <1>18, <1>19, <1>20,
      <1>21, <1>22, <1>23, <1>24, <1>25, <1>26, <1>27
  DEF Next, Step, Reaper

(* A reaper closes its file when it has written, or failed to.             *)
LEMMA ReaperStep ==
  ASSUME IInv, [Next]_vars
  PROVE  ReaperInv'
<1> USE NamesAssumption DEF IInv, TypeOK, CallInv, LaunchInv, ReaperInv, Recording,
      Reapers, Pcs, files, procs, calls
<1>1. CASE \E c \in Calls, v \in VMs : StartVM(c, v)
  BY <1>1 DEF StartVM, Enter
<1>2. CASE \E c \in Calls, v \in VMs : StopVM(c, v)
  BY <1>2 DEF StopVM, Enter
<1>3. CASE \E c \in Calls, v \in VMs : CreateVM(c, v)
  BY <1>3 DEF CreateVM, Enter
<1>4. CASE \E c \in Calls, v \in VMs : DeleteVM(c, v)
  BY <1>4 DEF DeleteVM, Enter
<1>5. CASE \E c \in Calls : StartClean(c)
  BY <1>5 DEF StartClean, Goto, Unlinked
<1>6. CASE \E c \in Calls : StartKernel(c)
  BY <1>6 DEF StartKernel, Goto
<1>7. CASE \E c \in Calls : StartFails(c)
  BY <1>7 DEF StartFails, Leave
<1>8. CASE \E c \in Calls : StartLaunch(c)
  BY <1>8 DEF StartLaunch, Available, Spawn
<1>9. CASE \E c \in Calls : StartOpenPid(c)
  BY <1>9 DEF StartOpenPid, Goto
<1>10. CASE \E c \in Calls : StartRecord(c)
  BY <1>10 DEF StartRecord, Leave, PidOver
<1>11. CASE \E c \in Calls : StartRecordFails(c)
  BY <1>11 DEF StartRecordFails, Leave
<1>12. CASE \E c \in Calls : StopSignal(c)
  BY <1>12 DEF StopSignal, Leave
<1>13. CASE \E c \in Calls : RemovePid(c)
  BY <1>13 DEF RemovePid
<1>14. CASE \E c \in Calls : RemoveTmp(c)
  BY <1>14 DEF RemoveTmp, Unlinked
<1>15. CASE \E c \in Calls : RemoveExit(c)
  BY <1>15 DEF RemoveExit, Unlinked
<1>16. CASE \E c \in Calls : RemoveDir(c)
  BY <1>16 DEF RemoveDir, Leave
<1>17. CASE \E c \in Calls : RemoveFails(c)
  BY <1>17 DEF RemoveFails, Leave
<1>18. CASE \E p \in Pids : ReaperWait(p)
  BY <1>18 DEF ReaperWait
<1>19. CASE \E p \in Pids : ReaperCreate(p)
  BY <1>19 DEF ReaperCreate
<1>20. CASE \E p \in Pids : ReaperGivesUp(p)
  BY <1>20 DEF ReaperGivesUp
<1>21. CASE \E p \in Pids : ReaperWrite(p)
  BY <1>21 DEF ReaperWrite, Put, Held, DocOver
<1>22. CASE \E p \in Pids : ReaperWriteFails(p)
  BY <1>22 DEF ReaperWriteFails, Put, Held
<1>23. CASE \E p \in Pids : ReaperRename(p)
  BY <1>23 DEF ReaperRename
<1>24. CASE \E p \in Pids : Exit(p)
  BY <1>24 DEF Exit
<1>25. CASE \E p \in Pids : ForeignStart(p)
  BY <1>25 DEF ForeignStart, Available, Spawn
<1>26. CASE Restart
  BY <1>26 DEF Restart
<1>27. CASE UNCHANGED vars
  BY <1>27 DEF vars
<1> QED BY <1>1, <1>2, <1>3, <1>4, <1>5, <1>6, <1>7, <1>8, <1>9, <1>10,
      <1>11, <1>12, <1>13, <1>14, <1>15, <1>16, <1>17, <1>18, <1>19, <1>20,
      <1>21, <1>22, <1>23, <1>24, <1>25, <1>26, <1>27
  DEF Next, Step, Reaper

(* Only a reaper that opens the temporary file beside another can disturb  *)
(* it; a reaper alone truncates before it writes and renames what is whole. *)
LEMMA OwnStep ==
  ASSUME IInv, OwnInv, [Next]_vars
  PROVE  OwnInv'
<1> USE NamesAssumption DEF IInv, TypeOK, CallInv, ReaperInv, OwnInv, HasTmp, Reapers,
      Contents, files, procs, calls
<1>1. CASE \E c \in Calls, v \in VMs : StartVM(c, v)
  BY <1>1 DEF StartVM, Enter
<1>2. CASE \E c \in Calls, v \in VMs : StopVM(c, v)
  BY <1>2 DEF StopVM, Enter
<1>3. CASE \E c \in Calls, v \in VMs : CreateVM(c, v)
  BY <1>3 DEF CreateVM, Enter
<1>4. CASE \E c \in Calls, v \in VMs : DeleteVM(c, v)
  BY <1>4 DEF DeleteVM, Enter
<1>5. CASE \E c \in Calls : StartClean(c)
  BY <1>5 DEF StartClean, Goto, Unlinked
<1>6. CASE \E c \in Calls : StartKernel(c)
  BY <1>6 DEF StartKernel, Goto
<1>7. CASE \E c \in Calls : StartFails(c)
  BY <1>7 DEF StartFails, Leave
<1>8. CASE \E c \in Calls : StartLaunch(c)
  BY <1>8 DEF StartLaunch, Available, Spawn
<1>9. CASE \E c \in Calls : StartOpenPid(c)
  BY <1>9 DEF StartOpenPid, Goto
<1>10. CASE \E c \in Calls : StartRecord(c)
  BY <1>10 DEF StartRecord, Leave, PidOver
<1>11. CASE \E c \in Calls : StartRecordFails(c)
  BY <1>11 DEF StartRecordFails, Leave
<1>12. CASE \E c \in Calls : StopSignal(c)
  BY <1>12 DEF StopSignal, Leave
<1>13. CASE \E c \in Calls : RemovePid(c)
  BY <1>13 DEF RemovePid
<1>14. CASE \E c \in Calls : RemoveTmp(c)
  BY <1>14 DEF RemoveTmp, Unlinked
<1>15. CASE \E c \in Calls : RemoveExit(c)
  BY <1>15 DEF RemoveExit, Unlinked
<1>16. CASE \E c \in Calls : RemoveDir(c)
  BY <1>16 DEF RemoveDir, Leave
<1>17. CASE \E c \in Calls : RemoveFails(c)
  BY <1>17 DEF RemoveFails, Leave
<1>18. CASE \E p \in Pids : ReaperWait(p)
  BY <1>18 DEF ReaperWait
<1>19. CASE \E p \in Pids : ReaperCreate(p)
  BY <1>19 DEF ReaperCreate
<1>20. CASE \E p \in Pids : ReaperGivesUp(p)
  BY <1>20 DEF ReaperGivesUp
<1>21. CASE \E p \in Pids : ReaperWrite(p)
  BY <1>21 DEF ReaperWrite, Put, Held, DocOver
<1>22. CASE \E p \in Pids : ReaperWriteFails(p)
  BY <1>22 DEF ReaperWriteFails, Put, Held
<1>23. CASE \E p \in Pids : ReaperRename(p)
  BY <1>23 DEF ReaperRename
<1>24. CASE \E p \in Pids : Exit(p)
  BY <1>24 DEF Exit
<1>25. CASE \E p \in Pids : ForeignStart(p)
  BY <1>25 DEF ForeignStart, Available, Spawn
<1>26. CASE Restart
  BY <1>26 DEF Restart
<1>27. CASE UNCHANGED vars
  BY <1>27 DEF vars
<1> QED BY <1>1, <1>2, <1>3, <1>4, <1>5, <1>6, <1>7, <1>8, <1>9, <1>10,
      <1>11, <1>12, <1>13, <1>14, <1>15, <1>16, <1>17, <1>18, <1>19, <1>20,
      <1>21, <1>22, <1>23, <1>24, <1>25, <1>26, <1>27
  DEF Next, Step, Reaper

(* Without reuse a pid is spent for good.                                  *)
LEMMA FreshStep ==
  ASSUME "reuse" \notin Events, IInv, FreshInv, [Next]_vars
  PROVE  FreshInv'
<1> USE NamesAssumption DEF IInv, TypeOK, CallInv, ReaperInv, FreshInv, Gone, Reapers,
      Contents, Pcs, files, procs, calls
<1>1. CASE \E c \in Calls, v \in VMs : StartVM(c, v)
  BY <1>1 DEF StartVM, Enter
<1>2. CASE \E c \in Calls, v \in VMs : StopVM(c, v)
  BY <1>2 DEF StopVM, Enter
<1>3. CASE \E c \in Calls, v \in VMs : CreateVM(c, v)
  BY <1>3 DEF CreateVM, Enter
<1>4. CASE \E c \in Calls, v \in VMs : DeleteVM(c, v)
  BY <1>4 DEF DeleteVM, Enter
<1>5. CASE \E c \in Calls : StartClean(c)
  BY <1>5 DEF StartClean, Goto, Unlinked
<1>6. CASE \E c \in Calls : StartKernel(c)
  BY <1>6 DEF StartKernel, Goto
<1>7. CASE \E c \in Calls : StartFails(c)
  BY <1>7 DEF StartFails, Leave
<1>8. CASE \E c \in Calls : StartLaunch(c)
  BY <1>8 DEF StartLaunch, Available, Spawn
<1>9. CASE \E c \in Calls : StartOpenPid(c)
  BY <1>9 DEF StartOpenPid, Goto
<1>10. CASE \E c \in Calls : StartRecord(c)
  BY <1>10 DEF StartRecord, Leave, PidOver
<1>11. CASE \E c \in Calls : StartRecordFails(c)
  BY <1>11 DEF StartRecordFails, Leave
<1>12. CASE \E c \in Calls : StopSignal(c)
  BY <1>12 DEF StopSignal, Leave
<1>13. CASE \E c \in Calls : RemovePid(c)
  BY <1>13 DEF RemovePid
<1>14. CASE \E c \in Calls : RemoveTmp(c)
  BY <1>14 DEF RemoveTmp, Unlinked
<1>15. CASE \E c \in Calls : RemoveExit(c)
  BY <1>15 DEF RemoveExit, Unlinked
<1>16. CASE \E c \in Calls : RemoveDir(c)
  BY <1>16 DEF RemoveDir, Leave
<1>17. CASE \E c \in Calls : RemoveFails(c)
  BY <1>17 DEF RemoveFails, Leave
<1>18. CASE \E p \in Pids : ReaperWait(p)
  BY <1>18 DEF ReaperWait
<1>19. CASE \E p \in Pids : ReaperCreate(p)
  BY <1>19 DEF ReaperCreate
<1>20. CASE \E p \in Pids : ReaperGivesUp(p)
  BY <1>20 DEF ReaperGivesUp
<1>21. CASE \E p \in Pids : ReaperWrite(p)
  BY <1>21 DEF ReaperWrite, Put, Held, DocOver
<1>22. CASE \E p \in Pids : ReaperWriteFails(p)
  BY <1>22 DEF ReaperWriteFails, Put, Held
<1>23. CASE \E p \in Pids : ReaperRename(p)
  BY <1>23 DEF ReaperRename
<1>24. CASE \E p \in Pids : Exit(p)
  BY <1>24 DEF Exit
<1>25. CASE \E p \in Pids : ForeignStart(p)
  BY <1>25 DEF ForeignStart, Available, Spawn
<1>26. CASE Restart
  BY <1>26 DEF Restart
<1>27. CASE UNCHANGED vars
  BY <1>27 DEF vars
<1> QED BY <1>1, <1>2, <1>3, <1>4, <1>5, <1>6, <1>7, <1>8, <1>9, <1>10,
      <1>11, <1>12, <1>13, <1>14, <1>15, <1>16, <1>17, <1>18, <1>19, <1>20,
      <1>21, <1>22, <1>23, <1>24, <1>25, <1>26, <1>27
  DEF Next, Step, Reaper

(* Only StartVM writes vm.pid, and only after pidAlive found no process.   *)
LEMMA SerialStep ==
  ASSUME ~Overlap, "delete" \notin Ops, "readfail" \notin Events,
         IInv, SerialInv, [Next]_vars
  PROVE  SerialInv'
<1> USE NamesAssumption DEF IInv, TypeOK, CallInv, LaunchInv, ReaperInv, SerialInv,
      EveryQemuStoppable, RunsFor, Unrecorded, Recording, Reapers, Pcs, files, procs, calls
<1>1. CASE \E c \in Calls, v \in VMs : StartVM(c, v)
  <2>1. PICK c \in Calls, v \in VMs : StartVM(c, v)
    BY <1>1
  <2>2. PICK alive \in pidAlive(v) :
          Enter(c, "start", v, IF alive THEN "idle" ELSE "clean", NoPid)
    BY <2>1 DEF StartVM
  <2>3. alive \in BOOLEAN
    BY DEF pidAlive
  <2>4. /\ pc[c] = "idle" /\ \A d \in Calls : vm[d] # v
        /\ UNCHANGED <<files, procs>>
        /\ pc' = [pc EXCEPT ![c] = IF alive THEN "idle" ELSE "clean"]
        /\ vm' = [vm EXCEPT ![c] = IF alive THEN NoVM ELSE v]
    BY <2>1, <2>2, <2>3 DEF StartVM, Enter
  <2>5. \A d, e \in Calls : vm'[d] \in VMs /\ vm'[d] = vm'[e] => d = e
    BY <2>4
  <2>6. ~alive => \A p \in Pids : RunsFor(p, v) => reaper[p] \in Unrecorded
    <3>1. ~alive /\ vmpid[v] \in Pids => proc[vmpid[v]] = "none" \/ who[vmpid[v]] = NoVM
      BY <2>2, <2>3 DEF pidAlive
    <3> QED BY <3>1
  <2>7. ASSUME NEW d \in Calls, pc'[d] \in {"clean", "kernel", "launch"} \cup Recording,
               NEW p \in Pids, RunsFor(p, vm[d])'
        PROVE  reaper'[p] \in Unrecorded
    BY <2>4, <2>6, <2>7
  <2>8. EveryQemuStoppable'
    BY <2>4
  <2>9. \A d \in Calls : /\ pc'[d] = "write" => vmpid'[vm'[d]] = Empty
                         /\ pc'[d] \notin {"writegone", "remove"}
    BY <2>4
  <2> QED BY <2>5, <2>7, <2>8, <2>9
<1>2. CASE \E c \in Calls, v \in VMs : StopVM(c, v)
  BY <1>2 DEF StopVM, Enter
<1>3. CASE \E c \in Calls, v \in VMs : CreateVM(c, v)
  BY <1>3 DEF CreateVM, Enter
<1>4. CASE \E c \in Calls, v \in VMs : DeleteVM(c, v)
  BY <1>4 DEF DeleteVM, Enter
<1>5. CASE \E c \in Calls : StartClean(c)
  BY <1>5 DEF StartClean, Goto, Unlinked
<1>6. CASE \E c \in Calls : StartKernel(c)
  BY <1>6 DEF StartKernel, Goto
<1>7. CASE \E c \in Calls : StartFails(c)
  BY <1>7 DEF StartFails, Leave
<1>8. CASE \E c \in Calls : StartLaunch(c)
  BY <1>8 DEF StartLaunch, Available, Spawn
<1>9. CASE \E c \in Calls : StartOpenPid(c)
  BY <1>9 DEF StartOpenPid, Goto
<1>10. CASE \E c \in Calls : StartRecord(c)
  BY <1>10 DEF StartRecord, Leave, PidOver
<1>11. CASE \E c \in Calls : StartRecordFails(c)
  BY <1>11 DEF StartRecordFails, Leave
<1>12. CASE \E c \in Calls : StopSignal(c)
  BY <1>12 DEF StopSignal, Leave
<1>13. CASE \E c \in Calls : RemovePid(c)
  BY <1>13 DEF RemovePid
<1>14. CASE \E c \in Calls : RemoveTmp(c)
  BY <1>14 DEF RemoveTmp, Unlinked
<1>15. CASE \E c \in Calls : RemoveExit(c)
  BY <1>15 DEF RemoveExit, Unlinked
<1>16. CASE \E c \in Calls : RemoveDir(c)
  BY <1>16 DEF RemoveDir, Leave
<1>17. CASE \E c \in Calls : RemoveFails(c)
  BY <1>17 DEF RemoveFails, Leave
<1>18. CASE \E p \in Pids : ReaperWait(p)
  BY <1>18 DEF ReaperWait
<1>19. CASE \E p \in Pids : ReaperCreate(p)
  BY <1>19 DEF ReaperCreate
<1>20. CASE \E p \in Pids : ReaperGivesUp(p)
  BY <1>20 DEF ReaperGivesUp
<1>21. CASE \E p \in Pids : ReaperWrite(p)
  BY <1>21 DEF ReaperWrite, Put, Held, DocOver
<1>22. CASE \E p \in Pids : ReaperWriteFails(p)
  BY <1>22 DEF ReaperWriteFails, Put, Held
<1>23. CASE \E p \in Pids : ReaperRename(p)
  BY <1>23 DEF ReaperRename
<1>24. CASE \E p \in Pids : Exit(p)
  BY <1>24 DEF Exit
<1>25. CASE \E p \in Pids : ForeignStart(p)
  BY <1>25 DEF ForeignStart, Available, Spawn
<1>26. CASE Restart
  BY <1>26 DEF Restart
<1>27. CASE UNCHANGED vars
  BY <1>27 DEF vars
<1> QED BY <1>1, <1>2, <1>3, <1>4, <1>5, <1>6, <1>7, <1>8, <1>9, <1>10,
      <1>11, <1>12, <1>13, <1>14, <1>15, <1>16, <1>17, <1>18, <1>19, <1>20,
      <1>21, <1>22, <1>23, <1>24, <1>25, <1>26, <1>27
  DEF Next, Step, Reaper

-----------------------------------------------------------------------------
(* The invariant of every instance.                                        *)
THEOREM Inductive == Spec => []IInv
<1>1. IInv /\ [Next]_vars => IInv'
  BY TypeStep, CallStep, LaunchStep, ReaperStep DEF IInv
<1> QED BY <1>1, InitIInv, PTL DEF Spec

(* Every variable keeps its type.                                          *)
THEOREM TypeCorrect == Spec => []TypeOK
<1>1. IInv => TypeOK
  BY DEF IInv
<1> QED BY <1>1, Inductive, PTL

(* A reader of exit.json finds a whole document, whatever writes of the    *)
(* driver fail and wherever the plugin dies, unless two reapers of the VM  *)
(* have shared the temporary file.                                         *)
THEOREM ExitFilesWhole == Spec => []ExitWholeUnlessShared
<1>1. Init => OwnInv
  BY NamesAssumption DEF Init, OwnInv, HasTmp
<1>2. IInv /\ OwnInv /\ [Next]_vars => OwnInv'
  BY OwnStep
<1>3. OwnInv => ExitWholeUnlessShared
  BY NamesAssumption DEF OwnInv, ExitWholeUnlessShared
<1> QED BY <1>1, <1>2, <1>3, Inductive, PTL DEF Spec

(* As long as pids are not given out again, exit.json never names a QEMU   *)
(* of the VM that runs, whichever calls overlap.                           *)
THEOREM ExitFilesNameTheDead ==
  ASSUME "reuse" \notin Events
  PROVE  Spec => []ExitNamesTheDead
<1>1. Init => FreshInv
  BY NamesAssumption DEF Init, FreshInv
<1>2. IInv /\ FreshInv /\ [Next]_vars => FreshInv'
  BY FreshStep
<1>3. FreshInv => ExitNamesTheDead
  BY DEF FreshInv, Gone, ExitNamesTheDead, RunsFor
<1> QED BY <1>1, <1>2, <1>3, Inductive, PTL DEF Spec

(* When calls on a VM do not overlap, no VM is deleted and vm.pid can be   *)
(* read, StopVM reaches every QEMU that a StartVM has recorded and that    *)
(* runs, whatever exits, fails, is restarted or gets a pid that was used   *)
(* before.  QEMUs whose vm.pid was not written are not spoken of.          *)
THEOREM RecordedQemusStoppable ==
  ASSUME ~Overlap, "delete" \notin Ops, "readfail" \notin Events
  PROVE  Spec => []EveryQemuStoppable
<1>1. Init => SerialInv
  BY NamesAssumption DEF Init, SerialInv, Recording, EveryQemuStoppable, RunsFor
<1>2. IInv /\ SerialInv /\ [Next]_vars => SerialInv'
  BY SerialStep
<1>3. SerialInv => EveryQemuStoppable
  BY DEF SerialInv
<1> QED BY <1>1, <1>2, <1>3, Inductive, PTL DEF Spec
=============================================================================
