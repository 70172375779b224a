----------------------------- MODULE NbdExports -----------------------------
(***************************************************************************)
(* The in-process NBD exports of the "govolume" driver                     *)
(* (src/builtin/govolume.go and, for OCI volumes, govolume_oci.go).        *)
(*                                                                         *)
(* AttachVolume, DetachVolume and DestroyVolume run on concurrent RPC      *)
(* goroutines.  They share the map v.servers under v.mu; the backing of an *)
(* export (a pool file handle, or an overlay over a frozen image) and its  *)
(* listener are opened and closed outside the lock, except that            *)
(* DestroyVolume closes exports while it holds the lock.  close() stops    *)
(* the listener, waits until Serve has returned, which it does once every  *)
(* client connection is gone, and only then closes the backing.            *)
(*                                                                         *)
(* A member of Servers is a slot for one nbdServer and stands for its      *)
(* address too; it is reused once the server is closed, as a port is.      *)
(***************************************************************************)
EXTENDS FiniteSets, Integers

CONSTANTS Volumes,    \* volume UUIDs; none holds the separator of attachKey
          Hosts,      \* host UUIDs
          Calls,      \* RPC goroutines that may be in the driver at once
          Servers,    \* nbdServer slots
          Clients,    \* NBD client connections (QEMU processes)
          Ops,        \* the RPCs the agent issues
          NoServer, NoCall, NoVolume, NoHost

ASSUME ServersAssumption == NoServer \notin Servers
ASSUME CallsAssumption == NoCall \notin Calls
ASSUME VolumesAssumption == NoVolume \notin Volumes
ASSUME HostsAssumption == NoHost \notin Hosts
ASSUME OpsAssumption == Ops \subseteq {"attach", "detach", "destroy"}

VARIABLES
  disk,      \* disk[v]: the volume's directory holds a pool.bin or an oci.json
  servers,   \* v.servers: the nbdServer of a key, NoServer when absent
  mu,        \* who holds v.mu across steps; NoCall when it is free
  pc,        \* pc[c]: the next step of call c
  vol, host, \* the arguments of call c
  mine,      \* mine[c]: the nbdServer the local variable srv of call c names
  ret,       \* ret[c]: the address call c will return, NoServer for none
  state,     \* state[s]: how far nbdServer s has come
  skey,      \* skey[s]: the key s was opened for
  orphan,    \* orphan[s]: the directory behind the open s has been removed
  conn       \* conn[cl]: the nbdServer a client is connected to

calls == <<pc, vol, host, mine, ret>>
slots == <<state, skey, orphan>>
vars == <<disk, servers, mu, pc, vol, host, mine, ret, state, skey, orphan, conn>>

Keys == Volumes \X Hosts
Key(c) == <<vol[c], host[c]>>

(* free: no such server.  opened: the backing is open, nothing listens.    *)
(* private: Serve runs, nobody has been given the address.  announced: the *)
(* server has been in v.servers, so its address may have been handed out.  *)
(* closing: the listener is closed, connections remain.  drained: Serve    *)
(* has returned and closed srv.done; the backing is still open.            *)
SlotStates == {"free", "opened", "private", "announced", "closing", "drained"}

AttachPcs == {"check", "open", "listen", "publish"}
ClosePcs == {"closeln", "drain"}
Pcs == {"idle", "take", "lock", "scan", "remove", "return"} \cup AttachPcs \cup ClosePcs

TypeOK ==
  /\ disk \in [Volumes -> BOOLEAN]
  /\ servers \in [Keys -> Servers \cup {NoServer}]
  /\ mu \in Calls \cup {NoCall}
  /\ pc \in [Calls -> Pcs]
  /\ vol \in [Calls -> Volumes \cup {NoVolume}]
  /\ host \in [Calls -> Hosts \cup {NoHost}]
  /\ mine \in [Calls -> Servers \cup {NoServer}]
  /\ ret \in [Calls -> Servers \cup {NoServer}]
  /\ state \in [Servers -> SlotStates]
  /\ skey \in [Servers -> Keys \cup {<<NoVolume, NoHost>>}]
  /\ orphan \in [Servers -> BOOLEAN]
  /\ conn \in [Clients -> Servers \cup {NoServer}]

(* NewGoVolume and an idle process; volumes may exist from an earlier one. *)
InitVolatile ==
  /\ servers = [k \in Keys |-> NoServer]
  /\ mu = NoCall
  /\ pc = [c \in Calls |-> "idle"]
  /\ vol = [c \in Calls |-> NoVolume]
  /\ host = [c \in Calls |-> NoHost]
  /\ mine = [c \in Calls |-> NoServer]
  /\ ret = [c \in Calls |-> NoServer]
  /\ state = [s \in Servers |-> "free"]
  /\ skey = [s \in Servers |-> <<NoVolume, NoHost>>]
  /\ orphan = [s \in Servers |-> FALSE]
  /\ conn = [cl \in Clients |-> NoServer]

Init == disk \in [Volumes -> BOOLEAN] /\ InitVolatile

Goto(c, l) == pc' = [pc EXCEPT ![c] = l]

Invoke(c, o, l, v, h) ==
  /\ o \in Ops
  /\ pc[c] = "idle"
  /\ Goto(c, l)
  /\ vol' = [vol EXCEPT ![c] = v]
  /\ host' = [host EXCEPT ![c] = h]
  /\ UNCHANGED <<disk, servers, mu, mine, ret, slots, conn>>

AttachVolume(c) == \E v \in Volumes, h \in Hosts : Invoke(c, "attach", "check", v, h)
DetachVolume(c) == \E v \in Volumes, h \in Hosts : Invoke(c, "detach", "take", v, h)
DestroyVolume(c) == \E v \in Volumes : Invoke(c, "destroy", "lock", v, NoHost)

-----------------------------------------------------------------------------
(* AttachVolume *)

(* First critical section: an attached key returns its address. *)
AttachCheck(c) ==
  /\ pc[c] = "check"
  /\ mu = NoCall
  /\ \/ /\ servers[Key(c)] # NoServer
        /\ ret' = [ret EXCEPT ![c] = servers[Key(c)]]
        /\ Goto(c, "return")
     \/ /\ servers[Key(c)] = NoServer
        /\ Goto(c, "open")
        /\ UNCHANGED ret
  /\ UNCHANGED <<disk, servers, mu, vol, host, mine, slots, conn>>

(* Mutant of AttachOpen: host and volume are swapped. *)
AttachOpenSwapped(c) ==
  /\ pc[c] = "open"
  /\ disk[vol[c]]
  /\ \E s \in Servers :
       /\ state[s] = "free"
       /\ state' = [state EXCEPT ![s] = "opened"]
       /\ skey' = [skey EXCEPT ![s] = <<host[c], vol[c]>>]
       /\ mine' = [mine EXCEPT ![c] = s]
  /\ Goto(c, "listen")
  /\ UNCHANGED <<disk, servers, mu, vol, host, ret, orphan, conn>>

(* pool.Open and OpenVolume, or openOverlay: no lock is held. *)
AttachOpen(c) ==
  /\ pc[c] = "open"
  /\ disk[vol[c]]
  /\ \E s \in Servers :
       /\ state[s] = "free"
       /\ state' = [state EXCEPT ![s] = "opened"]
       /\ skey' = [skey EXCEPT ![s] = Key(c)]
       /\ mine' = [mine EXCEPT ![c] = s]
  /\ Goto(c, "listen")
  /\ UNCHANGED <<disk, servers, mu, vol, host, ret, orphan, conn>>

(* The volume is gone, or an I/O or registry error: nothing stays open. *)
AttachOpenFails(c) ==
  /\ pc[c] = "open"
  /\ Goto(c, "return")
  /\ UNCHANGED <<disk, servers, mu, vol, host, mine, ret, slots, conn>>

(* listenTCP, and the goroutine that runs Serve. *)
AttachListen(c) ==
  /\ pc[c] = "listen"
  /\ state' = [state EXCEPT ![mine[c]] = "private"]
  /\ Goto(c, "publish")
  /\ UNCHANGED <<disk, servers, mu, vol, host, mine, ret, skey, orphan, conn>>

(* The slot of a closed server; nothing refers to it any more. *)
Free(s) ==
  /\ state' = [state EXCEPT ![s] = "free"]
  /\ skey' = [skey EXCEPT ![s] = <<NoVolume, NoHost>>]
  /\ orphan' = [orphan EXCEPT ![s] = FALSE]

(* listenTCP fails: the backing just opened is closed, the call errors. *)
AttachListenFails(c) ==
  /\ pc[c] = "listen"
  /\ Free(mine[c])
  /\ mine' = [mine EXCEPT ![c] = NoServer]
  /\ Goto(c, "return")
  /\ UNCHANGED <<disk, servers, mu, vol, host, ret, conn>>

(* Mutant of AttachPublish: the map is not looked at again. *)
AttachPublishBlind(c) ==
  /\ pc[c] = "publish"
  /\ mu = NoCall
  /\ servers' = [servers EXCEPT ![Key(c)] = mine[c]]
  /\ state' = [state EXCEPT ![mine[c]] = "announced"]
  /\ ret' = [ret EXCEPT ![c] = mine[c]]
  /\ mine' = [mine EXCEPT ![c] = NoServer]
  /\ Goto(c, "return")
  /\ UNCHANGED <<disk, mu, vol, host, skey, orphan, conn>>

(* Second critical section.  The key may have been attached meanwhile:     *)
(* then the winner's address is returned, after our own server is closed.  *)
AttachPublish(c) ==
  /\ pc[c] = "publish"
  /\ mu = NoCall
  /\ \/ /\ servers[Key(c)] = NoServer
        /\ servers' = [servers EXCEPT ![Key(c)] = mine[c]]
        /\ state' = [state EXCEPT ![mine[c]] = "announced"]
        /\ ret' = [ret EXCEPT ![c] = mine[c]]
        /\ mine' = [mine EXCEPT ![c] = NoServer]
        /\ Goto(c, "return")
     \/ /\ servers[Key(c)] # NoServer
        /\ ret' = [ret EXCEPT ![c] = servers[Key(c)]]
        /\ Goto(c, "closeln")
        /\ UNCHANGED <<servers, state, mine>>
  /\ UNCHANGED <<disk, mu, vol, host, skey, orphan, conn>>

-----------------------------------------------------------------------------
(* nbdServer.close(), called by all three operations *)

CloseListener(c) ==
  /\ pc[c] = "closeln"
  /\ state' = [state EXCEPT ![mine[c]] = "closing"]
  /\ Goto(c, "drain")
  /\ UNCHANGED <<disk, servers, mu, vol, host, mine, ret, skey, orphan, conn>>

(* The Serve goroutine: the listener is closed and every connection        *)
(* handler has returned, so Serve returns and srv.done is closed.          *)
ServeReturns(s) ==
  /\ state[s] = "closing"
  /\ \A cl \in Clients : conn[cl] # s
  /\ state' = [state EXCEPT ![s] = "drained"]
  /\ UNCHANGED <<disk, servers, mu, calls, skey, orphan, conn>>

(* Mutant of CloseBacking: the drain is not waited for. *)
CloseBackingEarly(c) ==
  /\ pc[c] = "drain"
  /\ state[mine[c]] \in {"closing", "drained"}
  /\ Free(mine[c])
  /\ mine' = [mine EXCEPT ![c] = NoServer]
  /\ \/ /\ mu = c
        /\ servers' = [servers EXCEPT ![skey[mine[c]]] = NoServer]
        /\ Goto(c, "scan")
     \/ /\ mu # c
        /\ Goto(c, "return")
        /\ UNCHANGED servers
  /\ UNCHANGED <<disk, mu, vol, host, ret, conn>>

(* <-s.done, then the backing is closed.  DestroyVolume, which holds mu,   *)
(* also deletes the map entry and goes on with its scan.                   *)
CloseBacking(c) ==
  /\ pc[c] = "drain"
  /\ state[mine[c]] = "drained"
  /\ Free(mine[c])
  /\ mine' = [mine EXCEPT ![c] = NoServer]
  /\ \/ /\ mu = c
        /\ servers' = [servers EXCEPT ![skey[mine[c]]] = NoServer]
        /\ Goto(c, "scan")
     \/ /\ mu # c
        /\ Goto(c, "return")
        /\ UNCHANGED servers
  /\ UNCHANGED <<disk, mu, vol, host, ret, conn>>

-----------------------------------------------------------------------------
(* DetachVolume: the entry goes under the lock, close() runs outside it *)

(* Mutant of DetachTake: the entry stays in the map. *)
DetachTakeKeeps(c) ==
  /\ pc[c] = "take"
  /\ mu = NoCall
  /\ mine' = [mine EXCEPT ![c] = servers[Key(c)]]
  /\ Goto(c, IF servers[Key(c)] = NoServer THEN "return" ELSE "closeln")
  /\ UNCHANGED <<disk, servers, mu, vol, host, ret, slots, conn>>

(* Mutant of DetachTake: close() runs under the lock. *)
DetachTakeLocked(c) ==
  /\ pc[c] = "take"
  /\ mu = NoCall
  /\ servers' = [servers EXCEPT ![Key(c)] = NoServer]
  /\ mu' = IF servers[Key(c)] = NoServer THEN NoCall ELSE c
  /\ mine' = [mine EXCEPT ![c] = servers[Key(c)]]
  /\ Goto(c, IF servers[Key(c)] = NoServer THEN "return" ELSE "closeln")
  /\ UNCHANGED <<disk, vol, host, ret, slots, conn>>

DetachTake(c) ==
  /\ pc[c] = "take"
  /\ mu = NoCall
  /\ servers' = [servers EXCEPT ![Key(c)] = NoServer]
  /\ mine' = [mine EXCEPT ![c] = servers[Key(c)]]
  /\ Goto(c, IF servers[Key(c)] = NoServer THEN "return" ELSE "closeln")
  /\ UNCHANGED <<disk, mu, vol, host, ret, slots, conn>>

-----------------------------------------------------------------------------
(* DestroyVolume *)

DestroyLock(c) ==
  /\ pc[c] = "lock"
  /\ mu = NoCall
  /\ mu' = c
  /\ Goto(c, "scan")
  /\ UNCHANGED <<disk, servers, vol, host, mine, ret, slots, conn>>

(* Mutant of DestroyScan: the prefix is not tested. *)
DestroyScanAll(c) ==
  /\ pc[c] = "scan"
  /\ \E k \in Keys :
       /\ servers[k] # NoServer
       /\ mine' = [mine EXCEPT ![c] = servers[k]]
  /\ Goto(c, "closeln")
  /\ UNCHANGED <<disk, servers, mu, vol, host, ret, slots, conn>>

(* The range over v.servers reaches an export of the volume, in any order. *)
DestroyScan(c) ==
  /\ pc[c] = "scan"
  /\ \E k \in Keys :
       /\ k[1] = vol[c]
       /\ servers[k] # NoServer
       /\ mine' = [mine EXCEPT ![c] = servers[k]]
  /\ Goto(c, "closeln")
  /\ UNCHANGED <<disk, servers, mu, vol, host, ret, slots, conn>>

(* Mutant of DestroyUnlock: the lock is kept. *)
DestroyUnlockForgotten(c) ==
  /\ pc[c] = "scan"
  /\ \A k \in Keys : k[1] = vol[c] => servers[k] = NoServer
  /\ Goto(c, "remove")
  /\ UNCHANGED <<disk, servers, mu, vol, host, mine, ret, slots, conn>>

(* The range is over: unlock. *)
DestroyUnlock(c) ==
  /\ pc[c] = "scan"
  /\ \A k \in Keys : k[1] = vol[c] => servers[k] = NoServer
  /\ mu' = NoCall
  /\ Goto(c, "remove")
  /\ UNCHANGED <<disk, servers, vol, host, mine, ret, slots, conn>>

(* os.RemoveAll, outside the lock.  A backing that is open keeps working   *)
(* on a file that no directory names.  It may fail, with or without the    *)
(* file that makes the directory a volume being gone.                      *)
DestroyRemove(c) ==
  /\ pc[c] = "remove"
  /\ \/ /\ disk' = [disk EXCEPT ![vol[c]] = FALSE]
        /\ orphan' = [s \in Servers |->
                        orphan[s] \/ (state[s] # "free" /\ skey[s][1] = vol[c])]
     \/ UNCHANGED <<disk, orphan>>
  /\ Goto(c, "return")
  /\ UNCHANGED <<servers, mu, vol, host, mine, ret, state, skey, conn>>

-----------------------------------------------------------------------------
Return(c) ==
  /\ pc[c] = "return"
  /\ Goto(c, "idle")
  /\ vol' = [vol EXCEPT ![c] = NoVolume]
  /\ host' = [host EXCEPT ![c] = NoHost]
  /\ ret' = [ret EXCEPT ![c] = NoServer]
  /\ UNCHANGED <<disk, servers, mu, mine, slots, conn>>

(* A completed EnsureVolume or RestoreBackup; neither takes v.mu.          *)
Provision(v) ==
  /\ ~disk[v]
  /\ disk' = [disk EXCEPT ![v] = TRUE]
  /\ UNCHANGED <<servers, mu, calls, slots, conn>>

(* A QEMU dials an address it was given.                                   *)
ClientConnect(cl, s) ==
  /\ conn[cl] = NoServer
  /\ state[s] = "announced"
  /\ conn' = [conn EXCEPT ![cl] = s]
  /\ UNCHANGED <<disk, servers, mu, calls, slots>>

(* NBD_CMD_DISC, whose handler syncs the backing, or a broken connection.  *)
ClientDisconnect(cl) ==
  /\ conn[cl] # NoServer
  /\ conn' = [conn EXCEPT ![cl] = NoServer]
  /\ UNCHANGED <<disk, servers, mu, calls, slots>>

(* The plugin process dies and is started again: only the disk survives.   *)
Restart ==
  /\ servers' = [k \in Keys |-> NoServer]
  /\ mu' = NoCall
  /\ pc' = [c \in Calls |-> "idle"]
  /\ vol' = [c \in Calls |-> NoVolume]
  /\ host' = [c \in Calls |-> NoHost]
  /\ mine' = [c \in Calls |-> NoServer]
  /\ ret' = [c \in Calls |-> NoServer]
  /\ state' = [s \in Servers |-> "free"]
  /\ skey' = [s \in Servers |-> <<NoVolume, NoHost>>]
  /\ orphan' = [s \in Servers |-> FALSE]
  /\ conn' = [cl \in Clients |-> NoServer]
  /\ UNCHANGED disk

Closing(c) == CloseListener(c) \/ CloseBacking(c)
Attaching(c) ==
  \/ AttachCheck(c) \/ AttachOpen(c) \/ AttachOpenFails(c)
  \/ AttachListen(c) \/ AttachListenFails(c) \/ AttachPublish(c)
Destroying(c) ==
  DestroyLock(c) \/ DestroyScan(c) \/ DestroyUnlock(c) \/ DestroyRemove(c)
Call(c) == AttachVolume(c) \/ DetachVolume(c) \/ DestroyVolume(c)
Step(c) == Attaching(c) \/ DetachTake(c) \/ Destroying(c) \/ Closing(c) \/ Return(c)

Next ==
  \/ Restart
  \/ \E c \in Calls : Call(c) \/ Step(c)
  \/ \E s \in Servers : ServeReturns(s)
  \/ \E v \in Volumes : Provision(v)
  \/ \E cl \in Clients : ClientDisconnect(cl) \/ \E s \in Servers : ClientConnect(cl, s)

Spec == Init /\ [][Next]_vars

(* A goroutine runs until it blocks, and sync.Mutex hands the lock to a    *)
(* waiter that starves, so a call that can step again and again does step. *)
(* Serve returns once it has nothing left to wait for.  Calls, restarts,   *)
(* provisioning and client connections need never happen.                  *)
Fairness ==
  /\ \A c \in Calls : SF_vars(Step(c))
  /\ \A s \in Servers : WF_vars(ServeReturns(s))

FairSpec == Spec /\ Fairness
-----------------------------------------------------------------------------
(* Safety *)

BackingOpen(s) == state[s] # "free"

(* close() waits for the drain: while a client is connected, the backing   *)
(* its handler reads, writes and syncs is still open and Serve still runs. *)
NoUseAfterClose ==
  \A cl \in Clients :
    conn[cl] # NoServer => state[conn[cl]] \in {"announced", "closing"}

(* Whenever v.mu is free, each entry of v.servers is an export of that key *)
(* that listens: AttachVolume never answers from a map that names a closed *)
(* server or another volume's.                                             *)
PublishedServes ==
  mu = NoCall =>
    \A k \in Keys :
      servers[k] # NoServer =>
        /\ state[servers[k]] = "announced"
        /\ skey[servers[k]] = k

(* Every open backing can still be reached by something that will close    *)
(* it: the map, or exactly one call, and never both, unless the call is    *)
(* the DestroyVolume that holds v.mu.  So no pool handle is leaked by a    *)
(* lost race or an error path, and none is closed twice.                   *)
OwnedOnce ==
  /\ \A s \in Servers :
       BackingOpen(s) =>
         \/ \E k \in Keys : servers[k] = s
         \/ \E c \in Calls : mine[c] = s
  /\ \A c, d \in Calls : mine[c] # NoServer /\ mine[c] = mine[d] => c = d
  /\ \A c \in Calls, k \in Keys :
       mine[c] # NoServer /\ mine[c] = servers[k] => mu = c

(* "Any running attachment for the volume is stopped first": DestroyVolume *)
(* leaves no export of the removed directory in v.servers, from where a    *)
(* later AttachVolume of a new volume would be answered.                   *)
DestroyStopsAttachments ==
  \A k \in Keys : servers[k] # NoServer => ~orphan[servers[k]]

-----------------------------------------------------------------------------
(* Liveness *)

(* The agent stops a VM before it detaches its volumes, and a dead QEMU    *)
(* holds no connection: every connection ends.                             *)
ClientFairness == \A cl \in Clients : WF_vars(ClientDisconnect(cl))

(* Every RPC returns, DestroyVolume's drain under the lock included, when  *)
(* every client eventually lets go.                                        *)
CallsReturn ==
  ClientFairness => \A c \in Calls : pc[c] # "idle" ~> pc[c] = "idle"

(* As long as no volume is destroyed, AttachVolume returns even if no      *)
(* client ever disconnects: DetachVolume drains outside v.mu, and a lost   *)
(* race closes a server that nobody was told of.                           *)
AttachReturns ==
  [](\A c \in Calls : pc[c] # "lock") =>
    \A c \in Calls : pc[c] = "check" ~> pc[c] = "idle"

-----------------------------------------------------------------------------
(* Refinement.  A call takes effect in its deciding critical section; for  *)
(* DestroyVolume that is Lock, since nobody sees the map until Unlock.     *)

phaseBar ==
  [c \in Calls |->
     CASE pc[c] = "idle" -> "idle"
       [] pc[c] \in AttachPcs -> "attach"
       [] pc[c] = "take" -> "detach"
       [] pc[c] = "lock" -> "destroy"
       [] OTHER -> "answered"]

regBar ==
  [k \in Keys |->
     IF mu # NoCall /\ k[1] = vol[mu] THEN NoServer ELSE servers[k]]

Registry == INSTANCE ExportRegistry
              WITH reg <- regBar, phase <- phaseBar, answer <- ret

(* The driver implements the atomic registry: concurrent calls take effect *)
(* one at a time, idempotently, and only on their own key or volume.       *)
ImplementsRegistry == Registry!Spec
=============================================================================
