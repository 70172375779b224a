--------------------------- MODULE ExportRegistry ---------------------------
(***************************************************************************)
(* What GoVolume promises the agent about NBD exports, without a mutex, a  *)
(* listener or a drain: a map from (volume, host) to the export serving    *)
(* it, on which every AttachVolume, DetachVolume and DestroyVolume takes   *)
(* effect once, at one instant between its call and its return.            *)
(***************************************************************************)
CONSTANTS Volumes,   \* volume UUIDs
          Hosts,     \* host UUIDs
          Calls,     \* the RPC goroutines that may be in the driver at once
          Servers,   \* export addresses, nbd://127.0.0.1:PORT
          NoServer, NoVolume, NoHost

VARIABLES reg,       \* reg[k]: the export that serves key k
          phase,     \* phase[c]: where call c is
          vol, host, \* the arguments of call c
          answer     \* the address call c will return, NoServer for none

vars == <<reg, phase, vol, host, answer>>

Keys == Volumes \X Hosts
Pending == {"attach", "detach", "destroy"}

Init ==
  /\ reg = [k \in Keys |-> NoServer]
  /\ phase = [c \in Calls |-> "idle"]
  /\ vol = [c \in Calls |-> NoVolume]
  /\ host = [c \in Calls |-> NoHost]
  /\ answer = [c \in Calls |-> NoServer]

Call(c) ==
  /\ phase[c] = "idle"
  /\ \E o \in Pending, v \in Volumes, h \in Hosts \cup {NoHost} :
       /\ (h = NoHost) <=> (o = "destroy")
       /\ phase' = [phase EXCEPT ![c] = o]
       /\ vol' = [vol EXCEPT ![c] = v]
       /\ host' = [host EXCEPT ![c] = h]
  /\ UNCHANGED <<reg, answer>>

Answer(c, s) ==
  /\ phase' = [phase EXCEPT ![c] = "answered"]
  /\ answer' = [answer EXCEPT ![c] = s]
  /\ UNCHANGED <<vol, host>>

(* A key that is already served is answered with its export. *)
AttachHit(c) ==
  /\ phase[c] = "attach"
  /\ reg[<<vol[c], host[c]>>] # NoServer
  /\ Answer(c, reg[<<vol[c], host[c]>>])
  /\ UNCHANGED reg

(* Otherwise an export that serves no other key is registered for it. *)
AttachNew(c) ==
  /\ phase[c] = "attach"
  /\ reg[<<vol[c], host[c]>>] = NoServer
  /\ \E s \in Servers :
       /\ \A k \in Keys : reg[k] # s
       /\ reg' = [reg EXCEPT ![<<vol[c], host[c]>>] = s]
       /\ Answer(c, s)

(* An attach that fails leaves the registry as it was. *)
AttachFail(c) ==
  /\ phase[c] = "attach"
  /\ Answer(c, NoServer)
  /\ UNCHANGED reg

Detach(c) ==
  /\ phase[c] = "detach"
  /\ reg' = [reg EXCEPT ![<<vol[c], host[c]>>] = NoServer]
  /\ Answer(c, NoServer)

(* Every key of the volume goes at once, and no key of another volume. *)
Destroy(c) ==
  /\ phase[c] = "destroy"
  /\ reg' = [k \in Keys |-> IF k[1] = vol[c] THEN NoServer ELSE reg[k]]
  /\ Answer(c, NoServer)

Return(c) ==
  /\ phase[c] = "answered"
  /\ phase' = [phase EXCEPT ![c] = "idle"]
  /\ vol' = [vol EXCEPT ![c] = NoVolume]
  /\ host' = [host EXCEPT ![c] = NoHost]
  /\ answer' = [answer EXCEPT ![c] = NoServer]
  /\ UNCHANGED reg

(* The plugin process is restarted: exports and calls die with it. *)
Restart ==
  /\ reg' = [k \in Keys |-> NoServer]
  /\ phase' = [c \in Calls |-> "idle"]
  /\ vol' = [c \in Calls |-> NoVolume]
  /\ host' = [c \in Calls |-> NoHost]
  /\ answer' = [c \in Calls |-> NoServer]

Next ==
  \/ Restart
  \/ \E c \in Calls :
       \/ Call(c) \/ AttachHit(c) \/ AttachNew(c) \/ AttachFail(c)
       \/ Detach(c) \/ Destroy(c) \/ Return(c)

Spec == Init /\ [][Next]_vars
=============================================================================
