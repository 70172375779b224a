-------------------------- MODULE NbdExportsProofs --------------------------
(***************************************************************************)
(* What is proved of NbdExports for every set of volumes, hosts, calls,    *)
(* servers and clients: its invariants and action properties, and, at the  *)
(* end, that it implements ExportRegistry: every step of the driver is a   *)
(* step of the atomic registry under the mapping of NbdExports, or leaves  *)
(* the registry as it is.                                                  *)
(***************************************************************************)
EXTENDS NbdExports, TLAPS

(* A call that has passed its entry checks knows its volume and host.      *)
ArgsInv ==
  \A c \in Calls :
    /\ pc[c] \in AttachPcs \cup {"take"} => vol[c] \in Volumes /\ host[c] \in Hosts
    /\ pc[c] \in {"lock", "scan", "remove"} \/ mu = c => vol[c] \in Volumes

(* v.mu is held across steps exactly by a DestroyVolume in its loop.       *)
LockInv ==
  \A c \in Calls :
    /\ mu = c => pc[c] \in {"scan", "closeln", "drain"}
    /\ pc[c] = "scan" => mu = c

(* A call has a server of its own from opening it, taking it out of the    *)
(* map or reaching it in the scan until it has closed or published it; how *)
(* far the server has come follows from where the call is.                 *)
MineInv ==
  \A c \in Calls :
    /\ mine[c] # NoServer <=> pc[c] \in {"listen", "publish", "closeln", "drain"}
    /\ pc[c] = "listen" => state[mine[c]] = "opened"
    /\ pc[c] = "publish" => state[mine[c]] = "private"
    /\ pc[c] = "closeln" => state[mine[c]] \in {"private", "announced"}
    /\ pc[c] = "drain" => state[mine[c]] \in {"closing", "drained"}
    /\ pc[c] \in {"listen", "publish"} => skey[mine[c]] = Key(c)
    /\ mu = c /\ mine[c] # NoServer => \E k \in Keys : servers[k] = mine[c]

(* An entry of the map is a server of that key, which listens unless the   *)
(* holder of v.mu is closing it.                                           *)
MapInv ==
  \A k \in Keys :
    servers[k] # NoServer =>
      /\ skey[servers[k]] = k
      /\ \/ state[servers[k]] = "announced"
         \/ /\ state[servers[k]] \in {"closing", "drained"}
            /\ mu # NoCall
            /\ mine[mu] = servers[k]

IInv ==
  /\ TypeOK
  /\ ArgsInv
  /\ LockInv
  /\ MineInv
  /\ MapInv
  /\ OwnedOnce
  /\ NoUseAfterClose

-----------------------------------------------------------------------------
(* The inductive invariant holds initially.                                *)
LEMMA InitIInv == Init => IInv
  BY CallsAssumption DEF Init, InitVolatile, IInv, TypeOK, ArgsInv, LockInv, MineInv, MapInv,
    OwnedOnce, NoUseAfterClose, Keys, Pcs, AttachPcs, ClosePcs, SlotStates,
    BackingOpen

(* Doing nothing preserves it.                                             *)
LEMMA StutterStep == IInv /\ UNCHANGED vars => IInv'
  BY DEF vars, IInv, TypeOK, ArgsInv, LockInv, MineInv, MapInv, OwnedOnce,
    NoUseAfterClose, Keys, Key, BackingOpen

(* A call enters its handler: only the program counter and arguments move. *)
LEMMA AttachVolumeStep ==
  ASSUME IInv, NEW c \in Calls, AttachVolume(c)
  PROVE  IInv'
  BY ServersAssumption, CallsAssumption
  DEF IInv, TypeOK, ArgsInv, LockInv, MineInv, MapInv, OwnedOnce,
    NoUseAfterClose, AttachVolume, Invoke, Goto, Keys, Key, Pcs, AttachPcs,
    ClosePcs, SlotStates, slots, calls, BackingOpen

(* Likewise. *)
LEMMA DetachVolumeStep ==
  ASSUME IInv, NEW c \in Calls, DetachVolume(c)
  PROVE  IInv'
  BY ServersAssumption, CallsAssumption
  DEF IInv, TypeOK, ArgsInv, LockInv, MineInv, MapInv, OwnedOnce,
    NoUseAfterClose, DetachVolume, Invoke, Goto, Keys, Key, Pcs, AttachPcs,
    ClosePcs, SlotStates, slots, calls, BackingOpen

(* Likewise. *)
LEMMA DestroyVolumeStep ==
  ASSUME IInv, NEW c \in Calls, DestroyVolume(c)
  PROVE  IInv'
  BY ServersAssumption, CallsAssumption
  DEF IInv, TypeOK, ArgsInv, LockInv, MineInv, MapInv, OwnedOnce,
    NoUseAfterClose, DestroyVolume, Invoke, Goto, Keys, Key, Pcs, AttachPcs,
    ClosePcs, SlotStates, slots, calls, BackingOpen

(* The first look at the map; a hit is a server, so the answer has its type. *)
LEMMA AttachCheckStep ==
  ASSUME IInv, NEW c \in Calls, AttachCheck(c)
  PROVE  IInv'
<1>0. Key(c) \in Keys
  BY DEF AttachCheck, IInv, ArgsInv, Keys, Key, AttachPcs
<1>1. TypeOK'
  BY <1>0, ServersAssumption DEF IInv, TypeOK, AttachCheck, Goto, Pcs,
    AttachPcs, ClosePcs, SlotStates, slots
<1>2. ArgsInv' /\ LockInv' /\ MineInv' /\ MapInv' /\ OwnedOnce' /\ NoUseAfterClose'
  BY ServersAssumption, CallsAssumption
  DEF IInv, TypeOK, ArgsInv, LockInv, MineInv, MapInv, OwnedOnce,
      NoUseAfterClose, AttachCheck, Goto, Keys, Key, Pcs, AttachPcs,
      ClosePcs, SlotStates, slots, calls, BackingOpen
<1> QED BY <1>1, <1>2 DEF IInv

(* The slot just opened was owned by nobody, since it was free. *)
LEMMA AttachOpenOwned ==
  ASSUME IInv, NEW c \in Calls, AttachOpen(c)
  PROVE  OwnedOnce'
<1>1. PICK s \in Servers :
        /\ state[s] = "free"
        /\ state' = [state EXCEPT ![s] = "opened"]
        /\ mine' = [mine EXCEPT ![c] = s]
  BY DEF AttachOpen
<1>2. UNCHANGED <<servers, mu>> /\ mu # c
  BY DEF AttachOpen, IInv, LockInv
<1>3. \A k \in Keys : servers[k] # s
  BY <1>1, ServersAssumption DEF IInv, MapInv
<1>4. \A d \in Calls : mine[d] # s
  BY <1>1, ServersAssumption DEF IInv, TypeOK, MineInv, Pcs
<1>5. mine[c] = NoServer
  BY DEF AttachOpen, IInv, MineInv
<1>6. \A t \in Servers : BackingOpen(t)' =>
         \/ \E k \in Keys : servers'[k] = t
         \/ \E d \in Calls : mine'[d] = t
  <2> SUFFICES ASSUME NEW t \in Servers, BackingOpen(t)', t # s
      PROVE  (\E k \in Keys : servers[k] = t) \/ (\E d \in Calls : mine'[d] = t)
    BY <1>1, <1>2 DEF IInv, TypeOK
  <2>1. BackingOpen(t)
    BY <1>1 DEF IInv, TypeOK, BackingOpen
  <2>2. CASE \E k \in Keys : servers[k] = t
    BY <2>2
  <2>3. CASE \E d \in Calls : mine[d] = t
    BY <2>3, <1>1, <1>5, ServersAssumption DEF IInv, TypeOK
  <2> QED BY <2>1, <2>2, <2>3 DEF IInv, OwnedOnce
<1>7. \A d, e \in Calls : mine'[d] # NoServer /\ mine'[d] = mine'[e] => d = e
  BY <1>1, <1>4 DEF IInv, TypeOK, OwnedOnce
<1>8. \A d \in Calls, k \in Keys : mine'[d] # NoServer /\ mine'[d] = servers'[k] => mu' = d
  BY <1>1, <1>2, <1>3 DEF IInv, TypeOK, OwnedOnce
<1> QED BY <1>6, <1>7, <1>8 DEF OwnedOnce

(* A slot is opened and owned by its call. *)
LEMMA AttachOpenStep ==
  ASSUME IInv, NEW c \in Calls, AttachOpen(c)
  PROVE  IInv'
<1>0. Key(c) \in Keys
  BY DEF AttachOpen, IInv, ArgsInv, Keys, Key, AttachPcs
<1>1. TypeOK'
  BY <1>0, ServersAssumption DEF IInv, TypeOK, AttachOpen, Goto, Pcs,
    AttachPcs, ClosePcs, SlotStates, slots
<1>2. ArgsInv' /\ LockInv' /\ NoUseAfterClose'
  BY ServersAssumption, CallsAssumption
  DEF IInv, TypeOK, ArgsInv, LockInv, NoUseAfterClose, AttachOpen, Goto,
      Keys, Key, Pcs, AttachPcs, ClosePcs, SlotStates, slots, calls
<1>3. MineInv'
  BY ServersAssumption, CallsAssumption
  DEF IInv, TypeOK, LockInv, MineInv, AttachOpen, Goto, Keys, Key, Pcs,
      AttachPcs, ClosePcs, SlotStates, slots, calls
<1>4. MapInv'
  BY ServersAssumption, CallsAssumption
  DEF IInv, TypeOK, MineInv, MapInv, AttachOpen, Goto, Keys, Key, Pcs,
      AttachPcs, ClosePcs, SlotStates, slots, calls
<1>5. OwnedOnce'
  BY AttachOpenOwned
<1> QED BY <1>1, <1>2, <1>3, <1>4, <1>5 DEF IInv

(* Nothing was opened. *)
LEMMA AttachOpenFailsStep ==
  ASSUME IInv, NEW c \in Calls, AttachOpenFails(c)
  PROVE  IInv'
  BY ServersAssumption, CallsAssumption
  DEF IInv, TypeOK, ArgsInv, LockInv, MineInv, MapInv, OwnedOnce,
    NoUseAfterClose, AttachOpenFails, Goto, Keys, Key, Pcs, AttachPcs,
    ClosePcs, SlotStates, slots, calls, BackingOpen

(* The call's own server starts to serve. *)
LEMMA AttachListenStep ==
  ASSUME IInv, NEW c \in Calls, AttachListen(c)
  PROVE  IInv'
<1>1. TypeOK'
  BY ServersAssumption, CallsAssumption
  DEF IInv, TypeOK, MineInv, AttachListen, Goto, Keys, Key, Pcs, AttachPcs,
      ClosePcs, SlotStates, slots, calls
<1>2. MapInv'
  BY ServersAssumption, CallsAssumption
  DEF IInv, TypeOK, MineInv, MapInv, AttachListen, Goto, Keys, Key, Pcs,
      AttachPcs, ClosePcs, SlotStates, slots, calls
<1>3. NoUseAfterClose'
  BY ServersAssumption, CallsAssumption
  DEF IInv, TypeOK, MineInv, NoUseAfterClose, AttachListen, Goto, Keys, Key,
      Pcs, AttachPcs, ClosePcs, SlotStates, slots, calls
<1>4. ArgsInv' /\ LockInv' /\ OwnedOnce'
  BY ServersAssumption, CallsAssumption
  DEF IInv, TypeOK, ArgsInv, LockInv, OwnedOnce, AttachListen, Goto, Keys,
      Key, Pcs, AttachPcs, ClosePcs, SlotStates, slots, calls, BackingOpen
<1>5. MineInv'
  BY ServersAssumption, CallsAssumption
  DEF IInv, TypeOK, MineInv, OwnedOnce, AttachListen, Goto, Keys, Key, Pcs,
      AttachPcs, ClosePcs, SlotStates, slots, calls, BackingOpen
<1> QED BY <1>1, <1>2, <1>3, <1>4, <1>5 DEF IInv

(* The call's own server, which nobody else has, is closed. *)
LEMMA AttachListenFailsStep ==
  ASSUME IInv, NEW c \in Calls, AttachListenFails(c)
  PROVE  IInv'
<1>1. TypeOK'
  BY ServersAssumption, CallsAssumption
  DEF IInv, TypeOK, MineInv, AttachListenFails, Free, Goto, Keys, Key, Pcs,
      AttachPcs, ClosePcs, SlotStates, slots, calls
<1>2. MapInv'
  BY ServersAssumption, CallsAssumption
  DEF IInv, TypeOK, MineInv, MapInv, AttachListenFails, Free, Goto, Keys,
      Key, Pcs, AttachPcs, ClosePcs, SlotStates, slots, calls
<1>3. NoUseAfterClose'
  BY ServersAssumption, CallsAssumption
  DEF IInv, TypeOK, MineInv, NoUseAfterClose, AttachListenFails, Free, Goto,
      Keys, Key, Pcs, AttachPcs, ClosePcs, SlotStates, slots, calls
<1>4. ArgsInv' /\ LockInv' /\ OwnedOnce'
  BY ServersAssumption, CallsAssumption
  DEF IInv, TypeOK, ArgsInv, LockInv, OwnedOnce, AttachListenFails, Free,
      Goto, Keys, Key, Pcs, AttachPcs, ClosePcs, SlotStates, slots, calls,
      BackingOpen
<1>5. MineInv'
  BY ServersAssumption, CallsAssumption
  DEF IInv, TypeOK, MineInv, OwnedOnce, AttachListenFails, Free, Goto, Keys,
      Key, Pcs, AttachPcs, ClosePcs, SlotStates, slots, calls, BackingOpen
<1> QED BY <1>1, <1>2, <1>3, <1>4, <1>5 DEF IInv

(* A winner passes its server to the map; a loser keeps it and closes it. *)
LEMMA AttachPublishMap ==
  ASSUME IInv, NEW c \in Calls, AttachPublish(c)
  PROVE  TypeOK' /\ MapInv' /\ OwnedOnce'
<1>0. /\ mu = NoCall /\ pc[c] = "publish"
      /\ Key(c) \in Keys /\ skey[mine[c]] = Key(c)
      /\ mine[c] \in Servers /\ state[mine[c]] = "private"
  BY DEF AttachPublish, IInv, TypeOK, ArgsInv, MineInv, Keys, Key, AttachPcs
<1>1. CASE servers[Key(c)] = NoServer
  <2>0. /\ servers' = [servers EXCEPT ![Key(c)] = mine[c]]
        /\ state' = [state EXCEPT ![mine[c]] = "announced"]
        /\ mine' = [mine EXCEPT ![c] = NoServer]
        /\ UNCHANGED <<mu, skey>>
    BY <1>1 DEF AttachPublish
  <2>1. TypeOK'
    BY <1>0, <1>1, ServersAssumption DEF IInv, TypeOK, AttachPublish, Goto, Pcs, SlotStates
  <2>2. \A k \in Keys : servers[k] # mine[c]
    BY <1>0, ServersAssumption DEF IInv, MapInv
  <2>3. MapInv'
    BY <1>0, <2>0, <2>2, ServersAssumption DEF IInv, TypeOK, MapInv
  <2>4. OwnedOnce'
    <3>1. \A t \in Servers : BackingOpen(t)' =>
            \/ \E k \in Keys : servers'[k] = t
            \/ \E d \in Calls : mine'[d] = t
      <4> SUFFICES ASSUME NEW t \in Servers, BackingOpen(t)', t # mine[c]
          PROVE  (\E k \in Keys : servers'[k] = t) \/ (\E d \in Calls : mine'[d] = t)
        BY <1>0, <2>0 DEF IInv, TypeOK
      <4>1. BackingOpen(t)
        BY <1>0, <2>0 DEF IInv, TypeOK, BackingOpen
      <4>2. CASE \E k \in Keys : servers[k] = t
        BY <4>2, <1>0, <1>1, <2>0, ServersAssumption DEF IInv, TypeOK
      <4>3. CASE \E d \in Calls : mine[d] = t
        BY <4>3, <2>0 DEF IInv, TypeOK
      <4> QED BY <4>1, <4>2, <4>3 DEF IInv, OwnedOnce
    <3>2. \A d, e \in Calls : mine'[d] # NoServer /\ mine'[d] = mine'[e] => d = e
      BY <2>0 DEF IInv, TypeOK, OwnedOnce
    <3>3. \A d \in Calls, k \in Keys : mine'[d] # NoServer /\ mine'[d] = servers'[k] => mu' = d
      BY <1>0, <2>0 DEF IInv, TypeOK, OwnedOnce
    <3> QED BY <3>1, <3>2, <3>3 DEF OwnedOnce
  <2> QED BY <2>1, <2>3, <2>4
<1>2. CASE servers[Key(c)] # NoServer
  <2>0. /\ ret' = [ret EXCEPT ![c] = servers[Key(c)]]
        /\ UNCHANGED <<disk, servers, mu, vol, host, mine, state, skey, orphan, conn>>
        /\ Goto(c, "closeln")
    BY <1>2 DEF AttachPublish
  <2>1. TypeOK'
    BY <1>0, <2>0 DEF IInv, TypeOK, Goto, Pcs, ClosePcs
  <2>2. MapInv' /\ OwnedOnce'
    BY <2>0 DEF IInv, MapInv, OwnedOnce, BackingOpen
  <2> QED BY <2>1, <2>2
<1> QED BY <1>1, <1>2

(* The second critical section. *)
LEMMA AttachPublishStep ==
  ASSUME IInv, NEW c \in Calls, AttachPublish(c)
  PROVE  IInv'
<1>1. TypeOK' /\ MapInv' /\ OwnedOnce'
  BY AttachPublishMap
<1>2. ArgsInv' /\ LockInv' /\ NoUseAfterClose'
  <2>1. ArgsInv'
    BY CallsAssumption
    DEF IInv, TypeOK, ArgsInv, AttachPublish, Goto, Keys, Key, Pcs, AttachPcs, ClosePcs
  <2>2. LockInv'
    BY CallsAssumption
    DEF IInv, TypeOK, LockInv, AttachPublish, Goto, Pcs, AttachPcs, ClosePcs
  <2>3. NoUseAfterClose'
    BY ServersAssumption
    DEF IInv, TypeOK, NoUseAfterClose, AttachPublish, Keys, Key, SlotStates, slots
  <2> QED BY <2>1, <2>2, <2>3
<1>3. MineInv'
  BY ServersAssumption, CallsAssumption
  DEF IInv, TypeOK, MineInv, OwnedOnce, AttachPublish, Goto, Keys, Key, Pcs,
      AttachPcs, ClosePcs, SlotStates, slots, calls, BackingOpen
<1> QED BY <1>1, <1>2, <1>3 DEF IInv

(* A server in the map is closed only by the holder of the lock. *)
LEMMA CloseListenerStep ==
  ASSUME IInv, NEW c \in Calls, CloseListener(c)
  PROVE  IInv'
<1>1. TypeOK'
  BY ServersAssumption, CallsAssumption
  DEF IInv, TypeOK, MineInv, CloseListener, Goto, Keys, Key, Pcs, AttachPcs,
      ClosePcs, SlotStates, slots, calls
<1>2. ArgsInv' /\ LockInv' /\ OwnedOnce' /\ NoUseAfterClose'
  BY ServersAssumption, CallsAssumption
  DEF IInv, TypeOK, ArgsInv, LockInv, OwnedOnce, NoUseAfterClose,
      CloseListener, Goto, Keys, Key, Pcs, AttachPcs, ClosePcs, SlotStates,
      slots, calls, BackingOpen
<1>3. MineInv'
  BY ServersAssumption, CallsAssumption
  DEF IInv, TypeOK, MineInv, OwnedOnce, CloseListener, Goto, Keys, Key, Pcs,
      AttachPcs, ClosePcs, SlotStates, slots, calls, BackingOpen
<1>4. MapInv'
  BY ServersAssumption, CallsAssumption
  DEF IInv, TypeOK, MapInv, OwnedOnce, CloseListener, Goto, Keys, Key, Pcs,
      AttachPcs, ClosePcs, SlotStates, slots, calls, BackingOpen
<1> QED BY <1>1, <1>2, <1>3, <1>4 DEF IInv

(* A drained server, which has no client, is closed and leaves the map. *)
LEMMA CloseBackingStep ==
  ASSUME IInv, NEW c \in Calls, CloseBacking(c)
  PROVE  IInv'
<1>1. TypeOK'
  BY ServersAssumption, CallsAssumption
  DEF IInv, TypeOK, MineInv, CloseBacking, Free, Goto, Keys, Key, Pcs,
      AttachPcs, ClosePcs, SlotStates, slots, calls
<1>2. ArgsInv'
  BY ServersAssumption, CallsAssumption
  DEF IInv, TypeOK, ArgsInv, LockInv, CloseBacking, Free, Goto, Keys, Key,
      Pcs, AttachPcs, ClosePcs, SlotStates, slots, calls
<1>3. LockInv' /\ NoUseAfterClose'
  BY ServersAssumption, CallsAssumption
  DEF IInv, TypeOK, LockInv, NoUseAfterClose, CloseBacking, Free, Goto, Keys,
      Key, Pcs, AttachPcs, ClosePcs, SlotStates, slots, calls
<1>4. MineInv'
  BY ServersAssumption, CallsAssumption
  DEF IInv, TypeOK, MineInv, OwnedOnce, CloseBacking, Free, Goto, Keys, Key,
      Pcs, AttachPcs, ClosePcs, SlotStates, slots, calls, BackingOpen
<1>5. MapInv'
  BY ServersAssumption, CallsAssumption
  DEF IInv, TypeOK, MapInv, OwnedOnce, CloseBacking, Free, Goto, Keys, Key,
      Pcs, AttachPcs, ClosePcs, SlotStates, slots, calls, BackingOpen
<1>6. OwnedOnce'
  BY ServersAssumption, CallsAssumption
  DEF IInv, TypeOK, MineInv, MapInv, OwnedOnce, CloseBacking, Free, Goto,
      Keys, Key, Pcs, AttachPcs, ClosePcs, SlotStates, slots, calls,
      BackingOpen
<1> QED BY <1>1, <1>2, <1>3, <1>4, <1>5, <1>6 DEF IInv

(* The entry had no owner but the map, since the lock was free. *)
LEMMA DetachTakeOwned ==
  ASSUME IInv, NEW c \in Calls, DetachTake(c)
  PROVE  OwnedOnce'
<1>0. /\ Key(c) \in Keys
      /\ mine[c] = NoServer /\ mu # c
      /\ servers' = [servers EXCEPT ![Key(c)] = NoServer]
      /\ mine' = [mine EXCEPT ![c] = servers[Key(c)]]
      /\ UNCHANGED <<mu, state>>
  BY DEF DetachTake, IInv, ArgsInv, MineInv, LockInv, Keys, Key, slots
<1>1. \A t \in Servers : BackingOpen(t)' =>
        \/ \E k \in Keys : servers'[k] = t
        \/ \E d \in Calls : mine'[d] = t
  <2> SUFFICES ASSUME NEW t \in Servers, BackingOpen(t)
      PROVE  (\E k \in Keys : servers'[k] = t) \/ (\E d \in Calls : mine'[d] = t)
    BY <1>0 DEF BackingOpen
  <2>2. CASE \E k \in Keys : servers[k] = t
    BY <2>2, <1>0 DEF IInv, TypeOK
  <2>3. CASE \E d \in Calls : mine[d] = t
    BY <2>3, <1>0, ServersAssumption DEF IInv, TypeOK
  <2> QED BY <2>2, <2>3 DEF IInv, OwnedOnce
<1>2. \A d \in Calls, k \in Keys : mine[d] # NoServer => mine[d] # servers[k]
  BY CallsAssumption DEF DetachTake, IInv, OwnedOnce
<1>3. \A d, e \in Calls : mine'[d] # NoServer /\ mine'[d] = mine'[e] => d = e
  BY <1>0, <1>2 DEF IInv, TypeOK, OwnedOnce
<1>4. \A j, k \in Keys : servers[j] # NoServer /\ servers[j] = servers[k] => j = k
  BY DEF IInv, MapInv
<1>5. \A d \in Calls, k \in Keys : mine'[d] # NoServer /\ mine'[d] = servers'[k] => mu' = d
  BY <1>0, <1>2, <1>4 DEF IInv, TypeOK
<1> QED BY <1>1, <1>3, <1>5 DEF OwnedOnce

(* The server moves from the map to the call. *)
LEMMA DetachTakeStep ==
  ASSUME IInv, NEW c \in Calls, DetachTake(c)
  PROVE  IInv'
<1>0. Key(c) \in Keys
  BY DEF DetachTake, IInv, ArgsInv, Keys, Key, AttachPcs
<1>1. TypeOK'
  BY <1>0, ServersAssumption DEF IInv, TypeOK, DetachTake, Goto, Pcs,
    AttachPcs, ClosePcs, SlotStates, slots
<1>2. ArgsInv' /\ LockInv' /\ MapInv' /\ NoUseAfterClose'
  BY ServersAssumption, CallsAssumption
  DEF IInv, TypeOK, ArgsInv, LockInv, MapInv, NoUseAfterClose, DetachTake,
      Goto, Keys, Key, Pcs, AttachPcs, ClosePcs, SlotStates, slots, calls
<1>3. MineInv'
  BY ServersAssumption, CallsAssumption
  DEF IInv, TypeOK, ArgsInv, LockInv, MineInv, MapInv, OwnedOnce,
      NoUseAfterClose, DetachTake, Goto, Keys, Key, Pcs, AttachPcs, ClosePcs,
      SlotStates, slots, calls, BackingOpen
<1>4. OwnedOnce'
  BY DetachTakeOwned
<1> QED BY <1>1, <1>2, <1>3, <1>4 DEF IInv

(* The lock is taken. *)
LEMMA DestroyLockStep ==
  ASSUME IInv, NEW c \in Calls, DestroyLock(c)
  PROVE  IInv'
  BY ServersAssumption, CallsAssumption
  DEF IInv, TypeOK, ArgsInv, LockInv, MineInv, MapInv, OwnedOnce,
    NoUseAfterClose, DestroyLock, Goto, Keys, Key, Pcs, AttachPcs, ClosePcs,
    SlotStates, slots, calls, BackingOpen

(* The holder of the lock reaches an entry of the map. *)
LEMMA DestroyScanStep ==
  ASSUME IInv, NEW c \in Calls, DestroyScan(c)
  PROVE  IInv'
<1>1. TypeOK' /\ ArgsInv' /\ LockInv' /\ NoUseAfterClose'
  BY ServersAssumption, CallsAssumption
  DEF IInv, TypeOK, ArgsInv, LockInv, NoUseAfterClose, DestroyScan, Goto,
      Keys, Key, Pcs, AttachPcs, ClosePcs, SlotStates, slots, calls
<1>2. MineInv'
  BY ServersAssumption, CallsAssumption
  DEF IInv, TypeOK, ArgsInv, LockInv, MineInv, MapInv, OwnedOnce,
      NoUseAfterClose, DestroyScan, Goto, Keys, Key, Pcs, AttachPcs,
      ClosePcs, SlotStates, slots, calls, BackingOpen
<1>3. MapInv'
  BY ServersAssumption, CallsAssumption
  DEF IInv, TypeOK, MineInv, MapInv, DestroyScan, Goto, Keys, Key, Pcs,
      AttachPcs, ClosePcs, SlotStates, slots, calls
<1>4. OwnedOnce'
  BY ServersAssumption, CallsAssumption
  DEF IInv, TypeOK, LockInv, MineInv, OwnedOnce, DestroyScan, Goto, Keys,
      Key, Pcs, AttachPcs, ClosePcs, SlotStates, slots, calls, BackingOpen
<1> QED BY <1>1, <1>2, <1>3, <1>4 DEF IInv

(* Between entries the holder owns no server: every entry listens. *)
LEMMA DestroyUnlockStep ==
  ASSUME IInv, NEW c \in Calls, DestroyUnlock(c)
  PROVE  IInv'
<1>1. TypeOK' /\ ArgsInv' /\ LockInv' /\ MineInv' /\ NoUseAfterClose'
  BY ServersAssumption, CallsAssumption
  DEF IInv, TypeOK, ArgsInv, LockInv, MineInv, NoUseAfterClose,
      DestroyUnlock, Goto, Keys, Key, Pcs, AttachPcs, ClosePcs, SlotStates,
      slots, calls
<1>2. MapInv'
  BY ServersAssumption, CallsAssumption
  DEF IInv, TypeOK, LockInv, MineInv, MapInv, DestroyUnlock, Goto, Keys, Key,
      Pcs, AttachPcs, ClosePcs, SlotStates, slots, calls
<1>3. OwnedOnce'
  BY ServersAssumption, CallsAssumption
  DEF IInv, TypeOK, LockInv, MineInv, OwnedOnce, DestroyUnlock, Goto, Keys,
      Key, Pcs, AttachPcs, ClosePcs, SlotStates, slots, calls, BackingOpen
<1> QED BY <1>1, <1>2, <1>3 DEF IInv

(* Only the disk and the orphans change. *)
LEMMA DestroyRemoveStep ==
  ASSUME IInv, NEW c \in Calls, DestroyRemove(c)
  PROVE  IInv'
<1>1. TypeOK'
  <2>1. disk' \in [Volumes -> BOOLEAN] /\ orphan' \in [Servers -> BOOLEAN]
    BY DEF IInv, TypeOK, DestroyRemove
  <2>2. pc' \in [Calls -> Pcs]
    BY DEF IInv, TypeOK, DestroyRemove, Goto, Pcs
  <2> QED BY <2>1, <2>2 DEF IInv, TypeOK, DestroyRemove
<1>2. ArgsInv' /\ LockInv' /\ MineInv' /\ MapInv' /\ OwnedOnce' /\ NoUseAfterClose'
  BY ServersAssumption, CallsAssumption
  DEF IInv, TypeOK, ArgsInv, LockInv, MineInv, MapInv, OwnedOnce,
      NoUseAfterClose, DestroyRemove, Goto, Keys, Key, Pcs, AttachPcs,
      ClosePcs, SlotStates, slots, calls, BackingOpen
<1> QED BY <1>1, <1>2 DEF IInv

(* A call forgets its arguments. *)
LEMMA ReturnStep ==
  ASSUME IInv, NEW c \in Calls, Return(c)
  PROVE  IInv'
  BY ServersAssumption, CallsAssumption
  DEF IInv, TypeOK, ArgsInv, LockInv, MineInv, MapInv, OwnedOnce,
    NoUseAfterClose, Return, Goto, Keys, Key, Pcs, AttachPcs, ClosePcs,
    SlotStates, slots, calls, BackingOpen

(* A server without clients is drained. *)
LEMMA ServeReturnsStep ==
  ASSUME IInv, NEW s \in Servers, ServeReturns(s)
  PROVE  IInv'
  BY ServersAssumption, CallsAssumption
  DEF IInv, TypeOK, ArgsInv, LockInv, MineInv, MapInv, OwnedOnce,
    NoUseAfterClose, ServeReturns, Goto, Keys, Key, Pcs, AttachPcs, ClosePcs,
    SlotStates, slots, calls, BackingOpen

(* Everything volatile is as it was initially. *)
LEMMA RestartStep ==
  ASSUME IInv, Restart
  PROVE  IInv'
  BY ServersAssumption, CallsAssumption
  DEF IInv, TypeOK, ArgsInv, LockInv, MineInv, MapInv, OwnedOnce,
    NoUseAfterClose, Restart, Goto, Keys, Key, Pcs, AttachPcs, ClosePcs,
    SlotStates, slots, calls, BackingOpen

(* Only the disk changes. *)
LEMMA ProvisionStep ==
  ASSUME IInv, NEW v \in Volumes, Provision(v)
  PROVE  IInv'
  BY ServersAssumption, CallsAssumption
  DEF IInv, TypeOK, ArgsInv, LockInv, MineInv, MapInv, OwnedOnce,
    NoUseAfterClose, Provision, Goto, Keys, Key, Pcs, AttachPcs, ClosePcs,
    SlotStates, slots, calls, BackingOpen

(* A client connects to an announced server. *)
LEMMA ClientConnectStep ==
  ASSUME IInv, NEW cl \in Clients, NEW s \in Servers, ClientConnect(cl, s)
  PROVE  IInv'
  BY ServersAssumption, CallsAssumption
  DEF IInv, TypeOK, ArgsInv, LockInv, MineInv, MapInv, OwnedOnce,
    NoUseAfterClose, ClientConnect, Goto, Keys, Key, Pcs, AttachPcs,
    ClosePcs, SlotStates, slots, calls, BackingOpen

(* A connection ends. *)
LEMMA ClientDisconnectStep ==
  ASSUME IInv, NEW cl \in Clients, ClientDisconnect(cl)
  PROVE  IInv'
  BY ServersAssumption, CallsAssumption
  DEF IInv, TypeOK, ArgsInv, LockInv, MineInv, MapInv, OwnedOnce,
    NoUseAfterClose, ClientDisconnect, Goto, Keys, Key, Pcs, AttachPcs,
    ClosePcs, SlotStates, slots, calls, BackingOpen
-----------------------------------------------------------------------------
(* Every step preserves the inductive invariant.                           *)
LEMMA NextIInv == IInv /\ [Next]_vars => IInv'
<1> SUFFICES ASSUME IInv, [Next]_vars PROVE IInv'
  OBVIOUS
<1>1. CASE \E c \in Calls : AttachVolume(c)
  BY <1>1, AttachVolumeStep
<1>2. CASE \E c \in Calls : DetachVolume(c)
  BY <1>2, DetachVolumeStep
<1>3. CASE \E c \in Calls : DestroyVolume(c)
  BY <1>3, DestroyVolumeStep
<1>4. CASE \E c \in Calls : AttachCheck(c)
  BY <1>4, AttachCheckStep
<1>5. CASE \E c \in Calls : AttachOpen(c)
  BY <1>5, AttachOpenStep
<1>6. CASE \E c \in Calls : AttachOpenFails(c)
  BY <1>6, AttachOpenFailsStep
<1>7. CASE \E c \in Calls : AttachListen(c)
  BY <1>7, AttachListenStep
<1>8. CASE \E c \in Calls : AttachListenFails(c)
  BY <1>8, AttachListenFailsStep
<1>9. CASE \E c \in Calls : AttachPublish(c)
  BY <1>9, AttachPublishStep
<1>10. CASE \E c \in Calls : CloseListener(c)
  BY <1>10, CloseListenerStep
<1>11. CASE \E c \in Calls : CloseBacking(c)
  BY <1>11, CloseBackingStep
<1>12. CASE \E c \in Calls : DetachTake(c)
  BY <1>12, DetachTakeStep
<1>13. CASE \E c \in Calls : DestroyLock(c)
  BY <1>13, DestroyLockStep
<1>14. CASE \E c \in Calls : DestroyScan(c)
  BY <1>14, DestroyScanStep
<1>15. CASE \E c \in Calls : DestroyUnlock(c)
  BY <1>15, DestroyUnlockStep
<1>16. CASE \E c \in Calls : DestroyRemove(c)
  BY <1>16, DestroyRemoveStep
<1>17. CASE \E c \in Calls : Return(c)
  BY <1>17, ReturnStep
<1>18. CASE \E s \in Servers : ServeReturns(s)
  BY <1>18, ServeReturnsStep
<1>19. CASE Restart
  BY <1>19, RestartStep
<1>20. CASE \E v \in Volumes : Provision(v)
  BY <1>20, ProvisionStep
<1>21. CASE \E cl \in Clients, s \in Servers : ClientConnect(cl, s)
  BY <1>21, ClientConnectStep
<1>22. CASE \E cl \in Clients : ClientDisconnect(cl)
  BY <1>22, ClientDisconnectStep
<1>23. CASE UNCHANGED vars
  BY <1>23, StutterStep
<1> QED BY <1>1, <1>2, <1>3, <1>4, <1>5, <1>6, <1>7, <1>8, <1>9, <1>10,
    <1>11, <1>12, <1>13, <1>14, <1>15, <1>16, <1>17, <1>18, <1>19, <1>20,
    <1>21, <1>22, <1>23
  DEF Next, Call, Step, Attaching, Destroying, Closing

(* IInv is an invariant of the driver.                                     *)
THEOREM Inductive == Spec => []IInv
<1>1. Init => IInv
  BY InitIInv
<1>2. IInv /\ [Next]_vars => IInv'
  BY NextIInv
<1> QED BY <1>1, <1>2, PTL DEF Spec

(* Every variable keeps its type.                                          *)
THEOREM TypeCorrect == Spec => []TypeOK
<1>1. IInv => TypeOK
  BY DEF IInv
<1> QED BY <1>1, Inductive, PTL

(* No connection handler ever works on a backing that has been closed,     *)
(* however calls, clients and restarts interleave.                         *)
THEOREM NeverUsedAfterClose == Spec => []NoUseAfterClose
<1>1. IInv => NoUseAfterClose
  BY DEF IInv
<1> QED BY <1>1, Inductive, PTL

(* Every open backing has one owner that will close it: nothing leaks and  *)
(* nothing is closed twice.                                                *)
THEOREM AlwaysOwnedOnce == Spec => []OwnedOnce
<1>1. IInv => OwnedOnce
  BY DEF IInv
<1> QED BY <1>1, Inductive, PTL

(* Under a free lock the map names listening exports of its keys only.     *)
THEOREM AlwaysPublishedServes == Spec => []PublishedServes
<1>1. IInv => PublishedServes
  BY DEF IInv, MapInv, PublishedServes
<1> QED BY <1>1, Inductive, PTL

-----------------------------------------------------------------------------
(* The refinement *)

(* A call that has not taken effect has no address to return; DestroyVolume *)
(* closes exports of its own volume only.                                  *)
AnswerInv ==
  \A c \in Calls :
    /\ pc[c] \in {"idle", "take", "lock"} \cup AttachPcs => ret[c] = NoServer
    /\ mu = c /\ mine[c] # NoServer => skey[mine[c]][1] = vol[c]

RInv == IInv /\ AnswerInv

-----------------------------------------------------------------------------
(* No call runs in the beginning.                                          *)
LEMMA InitRInv == Init => RInv
BY InitIInv, CallsAssumption DEF RInv, AnswerInv, Init, InitVolatile

(* A step that leaves the answers alone, and servers their keys.           *)
LEMMA AnswerStep ==
  ASSUME RInv, [Next]_vars
  PROVE  AnswerInv'
<1> USE ServersAssumption, CallsAssumption
    DEF RInv, IInv, TypeOK, AnswerInv, Goto, Pcs, AttachPcs, ClosePcs, slots, calls
<1>1. CASE \E c \in Calls : Call(c)
  BY <1>1 DEF Call, AttachVolume, DetachVolume, DestroyVolume, Invoke, LockInv
<1>2. CASE \E c \in Calls : AttachCheck(c) \/ AttachOpenFails(c) \/ AttachPublish(c)
  BY <1>2 DEF AttachCheck, AttachOpenFails, AttachPublish, LockInv
<1>3. CASE \E c \in Calls : AttachOpen(c)
  BY <1>3 DEF AttachOpen, LockInv, MineInv
<1>4. CASE \E c \in Calls : AttachListen(c)
  BY <1>4 DEF AttachListen, LockInv
<1>5. CASE \E c \in Calls : AttachListenFails(c)
  BY <1>5 DEF AttachListenFails, Free, LockInv, OwnedOnce
<1>6. CASE \E c \in Calls : CloseListener(c)
  BY <1>6 DEF CloseListener
<1>7. CASE \E c \in Calls : CloseBacking(c)
  BY <1>7 DEF CloseBacking, Free, OwnedOnce
<1>8. CASE \E c \in Calls : DetachTake(c)
  BY <1>8 DEF DetachTake
<1>9. CASE \E c \in Calls : DestroyLock(c) \/ DestroyUnlock(c) \/ DestroyRemove(c)
  BY <1>9 DEF DestroyLock, DestroyUnlock, DestroyRemove, MineInv
<1>10. CASE \E c \in Calls : DestroyScan(c)
  BY <1>10 DEF DestroyScan, MapInv, LockInv
<1>11. CASE \E c \in Calls : Return(c)
  BY <1>11 DEF Return, LockInv
<1>12. CASE Restart
  BY <1>12 DEF Restart
<1>13. CASE \/ \E s \in Servers : ServeReturns(s)
            \/ \E v \in Volumes : Provision(v)
            \/ \E cl \in Clients : ClientDisconnect(cl) \/ \E s \in Servers : ClientConnect(cl, s)
            \/ UNCHANGED vars
  BY <1>13 DEF ServeReturns, Provision, ClientDisconnect, ClientConnect, vars
<1> QED BY <1>1, <1>2, <1>3, <1>4, <1>5, <1>6, <1>7, <1>8, <1>9, <1>10, <1>11, <1>12,
      <1>13
    DEF Next, Step, Attaching, Destroying, Closing

(* RInv is an invariant of the driver.                                     *)
THEOREM RefinementInvariant == Spec => []RInv
<1>1. Init => RInv
  BY InitRInv
<1>2. RInv /\ [Next]_vars => RInv'
  BY AnswerStep, NextIInv DEF RInv
<1> QED BY <1>1, <1>2, PTL DEF Spec

-----------------------------------------------------------------------------
(* What the mapping makes of a state.                                      *)
LEMMA RegistryKeys == Registry!Keys = Keys
BY DEF Registry!Keys, Keys

(* Under a free lock the registry is the map, and nobody's entry is hidden. *)
LEMMA FreeLock == mu = NoCall => regBar = [k \in Keys |-> servers[k]]
BY DEF regBar

(* A step that leaves the map, the lock, its holder's volume, every phase, *)
(* the arguments and the answers as they are leaves the registry alone.    *)
LEMMA Hidden ==
  ASSUME UNCHANGED <<servers, mu, vol, host, ret>>, phaseBar' = phaseBar
  PROVE  UNCHANGED Registry!vars
BY DEF Registry!vars, regBar, Keys

(* The phase of a call at step l.                                          *)
PhaseOf(l) ==
  CASE l = "idle" -> "idle"
    [] l \in AttachPcs -> "attach"
    [] l = "take" -> "detach"
    [] l = "lock" -> "destroy"
    [] OTHER -> "answered"

(* If every call is idle, so is every phase.                               *)
LEMMA IdlePhases ==
  /\ pc = [c \in Calls |-> "idle"] => phaseBar = [c \in Calls |-> "idle"]
  /\ pc' = [c \in Calls |-> "idle"] => phaseBar' = [c \in Calls |-> "idle"]
<1>1. phaseBar = [d \in Calls |-> PhaseOf(pc[d])] /\ phaseBar' = [d \in Calls |-> PhaseOf(pc'[d])]
  BY DEF phaseBar, PhaseOf
<1>2. PhaseOf("idle") = "idle"
  BY DEF PhaseOf, AttachPcs
<1>3. ASSUME pc = [c \in Calls |-> "idle"] PROVE phaseBar = [c \in Calls |-> "idle"]
  BY <1>1, <1>2, <1>3
<1>4. ASSUME pc' = [c \in Calls |-> "idle"] PROVE phaseBar' = [c \in Calls |-> "idle"]
  BY <1>1, <1>2, <1>4
<1> QED BY <1>3, <1>4

(* A call that goes from one step to another moves no other call's phase.  *)
LEMMA PhaseMoves ==
  ASSUME TypeOK, NEW c \in Calls, NEW l, Goto(c, l)
  PROVE  /\ phaseBar = [d \in Calls |-> PhaseOf(pc[d])]
         /\ phaseBar' = [phaseBar EXCEPT ![c] = PhaseOf(l)]
<1>1. phaseBar = [d \in Calls |-> PhaseOf(pc[d])] /\ phaseBar' = [d \in Calls |-> PhaseOf(pc'[d])]
  BY DEF phaseBar, PhaseOf
<1>3. pc' = [pc EXCEPT ![c] = l] /\ pc \in [Calls -> Pcs]
  BY DEF Goto, TypeOK
<1> QED BY <1>1, <1>3

(* Steps that do not take effect.                                          *)
LEMMA PhaseValues ==
  /\ PhaseOf("idle") = "idle" /\ PhaseOf("take") = "detach" /\ PhaseOf("lock") = "destroy"
  /\ \A l \in AttachPcs : PhaseOf(l) = "attach"
  /\ \A l \in {"scan", "remove", "return"} \cup ClosePcs : PhaseOf(l) = "answered"
BY DEF PhaseOf, AttachPcs, ClosePcs

-----------------------------------------------------------------------------
(* A call by one who does not hold the lock hides nothing new.             *)
LEMMA CallStep ==
  ASSUME RInv, NEW c \in Calls, Call(c)
  PROVE  Registry!Call(c)
<1> USE CallsAssumption DEF RInv, IInv
<1>1. PICK l \in {"check", "take", "lock"}, v \in Volumes, h \in Hosts \cup {NoHost} :
        /\ (h = NoHost) <=> (l = "lock")
        /\ Goto(c, l)
        /\ vol' = [vol EXCEPT ![c] = v]
        /\ host' = [host EXCEPT ![c] = h]
  BY HostsAssumption DEF Call, AttachVolume, DetachVolume, DestroyVolume, Invoke
<1>2. pc[c] = "idle" /\ UNCHANGED <<servers, mu, ret>>
  BY DEF Call, AttachVolume, DetachVolume, DestroyVolume, Invoke
<1>3. mu # c
  BY <1>2 DEF LockInv
<1>4. UNCHANGED regBar
  BY <1>1, <1>2, <1>3 DEF regBar, TypeOK, Keys
<1>5. phaseBar[c] = "idle" /\ phaseBar' = [phaseBar EXCEPT ![c] = PhaseOf(l)]
  BY <1>1, <1>2, PhaseMoves, PhaseValues
<1>6. PhaseOf(l) \in {"attach", "detach", "destroy"} /\ (PhaseOf(l) = "destroy" <=> l = "lock")
  BY <1>1, PhaseValues DEF AttachPcs
<1> QED BY <1>1, <1>2, <1>4, <1>5, <1>6 DEF Registry!Call, Registry!Pending

(* A call that takes effect under a free lock sees the whole map.          *)
LEMMA AttachCheckRefines ==
  ASSUME RInv, NEW c \in Calls, AttachCheck(c)
  PROVE  Registry!AttachHit(c) \/ UNCHANGED Registry!vars
<1> USE DEF RInv, IInv
<1>0. pc[c] = "check" /\ mu = NoCall /\ UNCHANGED <<servers, mu, vol, host>>
  BY DEF AttachCheck
<1>1. Key(c) \in Keys /\ Key(c) = <<vol[c], host[c]>>
  BY <1>0 DEF ArgsInv, Keys, Key, AttachPcs
<1>2. regBar = servers /\ UNCHANGED regBar
  BY <1>0 DEF regBar, TypeOK
<1>3. phaseBar[c] = "attach"
  BY <1>0 DEF phaseBar, AttachPcs
<1>4. CASE servers[Key(c)] # NoServer
  <2>1. ret' = [ret EXCEPT ![c] = servers[Key(c)]] /\ Goto(c, "return")
    BY <1>4 DEF AttachCheck
  <2>2. phaseBar' = [phaseBar EXCEPT ![c] = "answered"]
    BY <2>1, PhaseMoves, PhaseValues
  <2>3. regBar[<<vol[c], host[c]>>] # NoServer
    BY <1>1, <1>2, <1>4
  <2>4. ret' = [ret EXCEPT ![c] = regBar[<<vol[c], host[c]>>]]
    BY <1>1, <1>2, <2>1
  <2>5. Registry!Answer(c, regBar[<<vol[c], host[c]>>])
    BY <1>0, <2>2, <2>4 DEF Registry!Answer
  <2> QED BY <1>2, <1>3, <2>3, <2>5 DEF Registry!AttachHit
<1>5. CASE servers[Key(c)] = NoServer
  <2>1. Goto(c, "open") /\ UNCHANGED ret
    BY <1>5 DEF AttachCheck
  <2>2. phaseBar' = [phaseBar EXCEPT ![c] = "attach"]
    BY <2>1, PhaseMoves, PhaseValues DEF AttachPcs
  <2>3. phaseBar' = phaseBar
    BY <1>3, <2>2 DEF phaseBar
  <2> QED BY <1>0, <2>1, <2>3, Hidden
<1> QED BY <1>4, <1>5

(* A failed open or listen answers with no address.                        *)
LEMMA AttachFails ==
  ASSUME RInv, NEW c \in Calls, AttachOpenFails(c) \/ AttachListenFails(c)
  PROVE  Registry!AttachFail(c)
<1> USE DEF RInv, IInv
<1>1. /\ pc[c] \in {"open", "listen"} /\ Goto(c, "return")
      /\ UNCHANGED <<servers, mu, vol, host, ret>>
  BY DEF AttachOpenFails, AttachListenFails
<1>2. phaseBar[c] = "attach"
  BY <1>1 DEF phaseBar, AttachPcs
<1>5. phaseBar' = [phaseBar EXCEPT ![c] = "answered"]
  BY <1>1, PhaseMoves, PhaseValues
<1>3. ret[c] = NoServer /\ ret' = [ret EXCEPT ![c] = NoServer]
  BY <1>1 DEF AnswerInv, AttachPcs, TypeOK
<1>4. UNCHANGED regBar
  BY <1>1 DEF regBar, Keys
<1> QED BY <1>1, <1>2, <1>3, <1>4, <1>5 DEF Registry!AttachFail, Registry!Answer

(* The second critical section registers the server it opened, which no    *)
(* key has, or answers with the winner's.                                  *)
LEMMA AttachPublishRefines ==
  ASSUME RInv, NEW c \in Calls, AttachPublish(c)
  PROVE  Registry!AttachHit(c) \/ Registry!AttachNew(c)
<1> USE DEF RInv, IInv
<1>0. pc[c] = "publish" /\ mu = NoCall /\ UNCHANGED <<mu, vol, host>>
  BY DEF AttachPublish
<1>1. Key(c) \in Keys /\ Key(c) = <<vol[c], host[c]>>
  BY <1>0 DEF ArgsInv, Keys, Key, AttachPcs
<1>2. regBar = servers /\ regBar' = [k \in Keys |-> servers'[k]]
  BY <1>0 DEF regBar, TypeOK, Keys
<1>3. phaseBar[c] = "attach"
  BY <1>0 DEF phaseBar, AttachPcs
<1>4. CASE servers[Key(c)] # NoServer
  <2>1. ret' = [ret EXCEPT ![c] = servers[Key(c)]] /\ Goto(c, "closeln") /\ UNCHANGED servers
    BY <1>4 DEF AttachPublish
  <2>2. phaseBar' = [phaseBar EXCEPT ![c] = "answered"]
    BY <2>1, PhaseMoves, PhaseValues DEF ClosePcs
  <2>3. UNCHANGED regBar
    BY <1>2, <2>1 DEF TypeOK
  <2> QED BY <1>0, <1>1, <1>2, <1>3, <1>4, <2>1, <2>2, <2>3 DEF Registry!AttachHit,
      Registry!Answer
<1>5. CASE servers[Key(c)] = NoServer
  <2>1. /\ servers' = [servers EXCEPT ![Key(c)] = mine[c]]
        /\ ret' = [ret EXCEPT ![c] = mine[c]] /\ Goto(c, "return")
    BY <1>5 DEF AttachPublish
  <2>2. phaseBar' = [phaseBar EXCEPT ![c] = "answered"]
    BY <2>1, PhaseMoves, PhaseValues
  <2>3. mine[c] \in Servers /\ state[mine[c]] = "private"
    BY <1>0 DEF MineInv, TypeOK
  <2>4. \A k \in Keys : servers[k] # mine[c]
    BY <2>3, ServersAssumption DEF MapInv
  <2>5. regBar' = [regBar EXCEPT ![<<vol[c], host[c]>>] = mine[c]]
    BY <1>1, <1>2, <2>1 DEF TypeOK
  <2> QED BY <1>0, <1>1, <1>2, <1>3, <1>5, <2>1, <2>2, <2>3, <2>4, <2>5, RegistryKeys
        DEF Registry!AttachNew, Registry!Answer
<1> QED BY <1>4, <1>5

(* DetachVolume takes effect when the entry goes.                          *)
LEMMA DetachTakeRefines ==
  ASSUME RInv, NEW c \in Calls, DetachTake(c)
  PROVE  Registry!Detach(c)
<1> USE DEF RInv, IInv
<1>0. /\ pc[c] = "take" /\ mu = NoCall /\ UNCHANGED <<mu, vol, host, ret>>
      /\ servers' = [servers EXCEPT ![Key(c)] = NoServer]
      /\ Goto(c, IF servers[Key(c)] = NoServer THEN "return" ELSE "closeln")
  BY DEF DetachTake
<1>1. Key(c) \in Keys /\ Key(c) = <<vol[c], host[c]>>
  BY <1>0 DEF ArgsInv, Keys, Key
<1>2. regBar = servers /\ regBar' = servers'
  BY <1>0 DEF regBar, TypeOK, Keys
<1>3. phaseBar[c] = "detach" /\ phaseBar' = [phaseBar EXCEPT ![c] = "answered"]
  BY <1>0, PhaseMoves, PhaseValues DEF ClosePcs
<1>4. ret' = [ret EXCEPT ![c] = NoServer]
  BY <1>0 DEF AnswerInv, TypeOK
<1> QED BY <1>0, <1>1, <1>2, <1>3, <1>4 DEF Registry!Detach, Registry!Answer

(* DestroyVolume takes effect when it gets the lock: from then on until it *)
(* unlocks, nobody else sees the map.                                      *)
LEMMA DestroyLockRefines ==
  ASSUME RInv, NEW c \in Calls, DestroyLock(c)
  PROVE  Registry!Destroy(c)
<1> USE DEF RInv, IInv
<1>0. /\ pc[c] = "lock" /\ mu = NoCall /\ mu' = c /\ UNCHANGED <<servers, vol, host, ret>>
      /\ Goto(c, "scan")
  BY DEF DestroyLock
<1>1. regBar = servers
  BY <1>0 DEF regBar, TypeOK
<1>2. regBar' = [k \in Keys |-> IF k[1] = vol[c] THEN NoServer ELSE servers[k]]
  BY <1>0, CallsAssumption DEF regBar, Keys
<1>3. phaseBar[c] = "destroy" /\ phaseBar' = [phaseBar EXCEPT ![c] = "answered"]
  BY <1>0, PhaseMoves, PhaseValues
<1>4. ret' = [ret EXCEPT ![c] = NoServer]
  BY <1>0 DEF AnswerInv, TypeOK
<1> QED BY <1>0, <1>1, <1>2, <1>3, <1>4, RegistryKeys DEF Registry!Destroy,
      Registry!Answer

(* Letting the lock go shows nothing: what it hid is gone from the map.    *)
LEMMA DestroyUnlockRefines ==
  ASSUME RInv, NEW c \in Calls, DestroyUnlock(c)
  PROVE  UNCHANGED Registry!vars
<1> USE DEF RInv, IInv
<1>0. /\ pc[c] = "scan" /\ \A k \in Keys : k[1] = vol[c] => servers[k] = NoServer
      /\ mu' = NoCall /\ Goto(c, "remove") /\ UNCHANGED <<servers, vol, host, ret>>
  BY DEF DestroyUnlock
<1>1. mu = c
  BY <1>0 DEF LockInv
<1>2. regBar = servers /\ regBar' = servers
  BY <1>0, <1>1 DEF regBar, TypeOK, Keys
<1>3. phaseBar[c] = "answered" /\ phaseBar' = [phaseBar EXCEPT ![c] = "answered"]
  BY <1>0, PhaseMoves, PhaseValues
<1>4. phaseBar' = phaseBar
  BY <1>3 DEF phaseBar
<1> QED BY <1>0, <1>2, <1>4 DEF Registry!vars

(* The entry that DestroyVolume deletes after a drain is one it hides.     *)
LEMMA CloseBackingRefines ==
  ASSUME RInv, NEW c \in Calls, CloseBacking(c)
  PROVE  UNCHANGED Registry!vars
<1> USE DEF RInv, IInv
<1>0. /\ pc[c] = "drain" /\ UNCHANGED <<mu, vol, host, ret>>
      /\ Goto(c, "scan") \/ Goto(c, "return")
  BY DEF CloseBacking
<1>1. phaseBar[c] = "answered" /\ phaseBar' = [phaseBar EXCEPT ![c] = "answered"]
  BY <1>0, PhaseMoves, PhaseValues DEF ClosePcs
<1>2. phaseBar' = phaseBar
  BY <1>1 DEF phaseBar
<1>3. CASE mu # c
  BY <1>0, <1>2, <1>3, Hidden DEF CloseBacking
<1>4. CASE mu = c
  <2>1. servers' = [servers EXCEPT ![skey[mine[c]]] = NoServer]
    BY <1>4 DEF CloseBacking
  <2>2. skey[mine[c]][1] = vol[c]
    BY <1>0, <1>4 DEF AnswerInv, MineInv
  <2>3. UNCHANGED regBar
    BY <1>0, <1>4, <2>1, <2>2, CallsAssumption DEF regBar, TypeOK, Keys
  <2> QED BY <1>0, <1>2, <2>3 DEF Registry!vars
<1> QED BY <1>3, <1>4

(* Steps inside an attach or a close that change neither map nor answer.   *)
LEMMA SilentStep ==
  ASSUME RInv, NEW c \in Calls,
         AttachOpen(c) \/ AttachListen(c) \/ CloseListener(c) \/ DestroyScan(c) \/ DestroyRemove(c)
  PROVE  UNCHANGED Registry!vars
<1> USE DEF RInv, IInv
<1>1. UNCHANGED <<servers, mu, vol, host, ret>>
  BY DEF AttachOpen, AttachListen, CloseListener, DestroyScan, DestroyRemove
<1>2. PICK l \in Pcs : Goto(c, l) /\ PhaseOf(l) = PhaseOf(pc[c])
  BY PhaseValues DEF AttachOpen, AttachListen, CloseListener, DestroyScan,
      DestroyRemove,
    Pcs, AttachPcs, ClosePcs
<1>3. phaseBar[c] = PhaseOf(pc[c]) /\ phaseBar' = [phaseBar EXCEPT ![c] = PhaseOf(l)]
  BY <1>2, PhaseMoves
<1>4. phaseBar' = phaseBar
  BY <1>2, <1>3 DEF phaseBar
<1> QED BY <1>1, <1>4, Hidden

(* A call returns what it answered.                                        *)
LEMMA ReturnRefines ==
  ASSUME RInv, NEW c \in Calls, Return(c)
  PROVE  Registry!Return(c)
<1> USE DEF RInv, IInv
<1>0. /\ pc[c] = "return" /\ Goto(c, "idle") /\ UNCHANGED <<servers, mu>>
      /\ vol' = [vol EXCEPT ![c] = NoVolume]
      /\ host' = [host EXCEPT ![c] = NoHost]
      /\ ret' = [ret EXCEPT ![c] = NoServer]
  BY DEF Return
<1>1. mu # c
  BY <1>0 DEF LockInv
<1>2. UNCHANGED regBar
  BY <1>0, <1>1 DEF regBar, TypeOK, Keys
<1>3. phaseBar[c] = "answered" /\ phaseBar' = [phaseBar EXCEPT ![c] = "idle"]
  BY <1>0, PhaseMoves, PhaseValues
<1> QED BY <1>0, <1>2, <1>3 DEF Registry!Return

(* A restart of the process is a restart of the registry.                  *)
LEMMA RestartRefines ==
  ASSUME Restart
  PROVE  Registry!Restart
<1>1. regBar' = [k \in Keys |-> NoServer]
  BY CallsAssumption DEF Restart, regBar, Keys
<1>2. phaseBar' = [c \in Calls |-> "idle"]
  BY IdlePhases DEF Restart
<1> QED BY <1>1, <1>2, RegistryKeys DEF Restart, Registry!Restart

(* The drain, new volumes and clients are invisible to the agent.          *)
LEMMA EnvironmentRefines ==
  ASSUME \/ \E s \in Servers : ServeReturns(s)
         \/ \E v \in Volumes : Provision(v)
         \/ \E cl \in Clients : ClientDisconnect(cl) \/ \E s \in Servers : ClientConnect(cl, s)
         \/ UNCHANGED vars
  PROVE  UNCHANGED Registry!vars
<1>1. UNCHANGED <<servers, mu, vol, host, ret, pc>>
  BY DEF ServeReturns, Provision, ClientDisconnect, ClientConnect, vars, calls
<1>2. phaseBar' = phaseBar
  BY <1>1 DEF phaseBar
<1> QED BY <1>1, <1>2, Hidden

-----------------------------------------------------------------------------
(* The registry starts empty.                                              *)
LEMMA InitRefines == Init => Registry!Init
<1> SUFFICES ASSUME Init PROVE Registry!Init
  OBVIOUS
<1>1. regBar = [k \in Keys |-> NoServer]
  BY CallsAssumption DEF Init, InitVolatile, regBar, Keys
<1>2. phaseBar = [c \in Calls |-> "idle"]
  BY IdlePhases DEF Init, InitVolatile
<1> QED BY <1>1, <1>2, RegistryKeys DEF Init, InitVolatile, Registry!Init

(* Every step of the driver is a step of the registry, or changes nothing. *)
LEMMA StepRefines == RInv /\ [Next]_vars => [Registry!Next]_(Registry!vars)
<1> SUFFICES ASSUME RInv, [Next]_vars PROVE [Registry!Next]_(Registry!vars)
  OBVIOUS
<1>1. ASSUME NEW c \in Calls, Call(c) \/ Step(c) PROVE [Registry!Next]_(Registry!vars)
  <2>1. CASE Call(c)
    BY <2>1, CallStep DEF Registry!Next
  <2>2. CASE Attaching(c)
    BY <2>2, AttachCheckRefines, AttachFails, AttachPublishRefines, SilentStep
    DEF Attaching, Registry!Next
  <2>3. CASE DetachTake(c)
    BY <2>3, DetachTakeRefines DEF Registry!Next
  <2>4. CASE Destroying(c)
    BY <2>4, DestroyLockRefines, DestroyUnlockRefines, SilentStep DEF Destroying,
      Registry!Next
  <2>5. CASE Closing(c)
    BY <2>5, CloseBackingRefines, SilentStep DEF Closing
  <2>6. CASE Return(c)
    BY <2>6, ReturnRefines DEF Registry!Next
  <2> QED BY <1>1, <2>1, <2>2, <2>3, <2>4, <2>5, <2>6 DEF Step
<1>2. CASE Restart
  BY <1>2, RestartRefines DEF Registry!Next
<1> QED BY <1>1, <1>2, EnvironmentRefines DEF Next

(* The driver implements the atomic registry: every AttachVolume,          *)
(* DetachVolume and DestroyVolume takes effect once, at one instant, and   *)
(* on its own key or volume only, whatever runs beside it.                 *)
THEOREM ImplementsExportRegistry == Spec => ImplementsRegistry
<1>1. Init => Registry!Init
  BY InitRefines
<1>2. RInv /\ [Next]_vars => [Registry!Next]_(Registry!vars)
  BY StepRefines
<1> QED BY <1>1, <1>2, RefinementInvariant, PTL DEF Spec, ImplementsRegistry,
      Registry!Spec
=============================================================================
