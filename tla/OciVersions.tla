---------------------------- MODULE OciVersions -----------------------------
(***************************************************************************)
(* The versions of one OCI-overlay volume (src/builtin/govolume_oci.go):   *)
(* its sidecar oci.json, which names the base and the current version, the *)
(* tags in the registry, and the in-memory overlays its exports serve.     *)
(*                                                                         *)
(* CreateSnapshot and CreateBackup commit a live overlay to a new tag and  *)
(* rewrite the sidecar; they hold no lock meanwhile, and every writer of   *)
(* the sidecar uses the same oci.json.tmp.  Listeners and drains are in    *)
(* NbdExports; here an attach publishes its overlay and a detach drops it. *)
(***************************************************************************)
EXTENDS Naturals, FiniteSets

CONSTANTS Hosts, Calls,
          Tags,       \* versions that can be committed; a tag may be used again
          Writes,     \* what guests write, a block or so each
          Overlays,   \* slots for in-memory overlays
          Ops,        \* of "provision", "commit", "destroy": what the agent issues
          Restarts,   \* TRUE: the plugin may die and be started again
          LooksFail,  \* TRUE: os.Stat and os.ReadFile of oci.json may fail
          BaseRef,    \* the golden image
          NoRef, NoHost, NoOverlay,
          NoFile, Empty   \* a missing file; one without a whole document

ASSUME OpsAssumption == Ops \subseteq {"provision", "commit", "destroy"}
ASSUME RestartsAssumption == Restarts \in BOOLEAN
ASSUME LooksFailAssumption == LooksFail \in BOOLEAN
ASSUME NamesAssumption ==
  /\ BaseRef \notin Tags /\ NoRef \notin Tags /\ NoRef # BaseRef
  /\ NoOverlay \notin Overlays /\ NoHost \notin Hosts
  /\ NoFile # Empty

VARIABLES
  dir,      \* the volume's directory exists
  side,     \* oci.json: a sidecar, Empty or NoFile
  tmp,      \* oci.json.tmp, likewise
  tag,      \* tag[r]: the writes version r holds on top of the golden image
  pushed,   \* the tags that exist
  live,     \* live[h]: the overlay the export of host h serves
  content,  \* content[o]: the writes overlay o shows, those of its version too
  acked,    \* the writes in versions that CreateSnapshot or CreateBackup
            \* has returned since the volume was provisioned
  home,     \* the base the volume was provisioned with
  pc, host, \* per call: next step, host of an attach
  ref,      \* ref[c]: the version call c provisions, opens or commits
  base,     \* base[c]: the base call c will write to the sidecar
  ov,       \* ov[c]: the overlay call c has opened or is committing
  fd        \* fd[c]: where the sidecar file call c has open is linked

store == <<dir, side, tmp>>
memory == <<live, content>>
registry == <<tag, pushed>>
vars == <<dir, side, tmp, tag, pushed, live, content, acked, home,
          pc, host, ref, base, ov, fd>>
promised == <<acked, home>>

Refs == Tags \cup {BaseRef}
Sidecars == [base : Refs \cup {NoRef}, current : Refs]
(* What stands for a missing file or overlay is told from a real one.      *)
ASSUME ValuesAssumption ==
  /\ {NoFile, Empty} \cap Sidecars = {}
  /\ \A W \in SUBSET Writes : NoOverlay # W

Pcs == {"idle", "open", "publish", "mkdir", "commit", "base", "create", "write",
        "rename", "remove"}

TypeOK ==
  /\ dir \in BOOLEAN
  /\ side \in Sidecars \cup {NoFile, Empty}
  /\ tmp \in Sidecars \cup {NoFile, Empty}
  /\ tag \in [Refs -> SUBSET Writes]
  /\ pushed \subseteq Refs
  /\ live \in [Hosts -> Overlays \cup {NoOverlay}]
  /\ content \in [Overlays -> SUBSET Writes]
  /\ acked \subseteq Writes
  /\ home \in Refs \cup {NoRef}
  /\ pc \in [Calls -> Pcs]
  /\ host \in [Calls -> Hosts \cup {NoHost}]
  /\ ref \in [Calls -> Refs \cup {NoRef}]
  /\ base \in [Calls -> Refs \cup {NoRef}]
  /\ ov \in [Calls -> Overlays \cup {NoOverlay}]
  /\ fd \in [Calls -> {"none", "tmp", "side", "gone"}]

InitCalls ==
  /\ pc = [c \in Calls |-> "idle"]
  /\ host = [c \in Calls |-> NoHost]
  /\ ref = [c \in Calls |-> NoRef]
  /\ base = [c \in Calls |-> NoRef]
  /\ ov = [c \in Calls |-> NoOverlay]
  /\ fd = [c \in Calls |-> "none"]

(* The volume is there from an earlier life of the plugin, or it is not.   *)
Init ==
  /\ dir \in BOOLEAN
  /\ side = IF dir THEN [base |-> BaseRef, current |-> BaseRef] ELSE NoFile
  /\ tmp = NoFile
  /\ home = IF dir THEN BaseRef ELSE NoRef
  /\ tag = [r \in Refs |-> {}] /\ pushed = {BaseRef}
  /\ live = [h \in Hosts |-> NoOverlay]
  /\ content = [o \in Overlays |-> {}]
  /\ acked = {}
  /\ InitCalls

(* What isOCIVolume may answer: fileExists takes an error of os.Stat for a *)
(* file that is not there.                                                 *)
isOCIVolume == IF side # NoFile /\ LooksFail THEN BOOLEAN ELSE {side # NoFile}

Readable(f) == f \notin {NoFile, Empty}
Unread == IF LooksFail \/ ~Readable(side) THEN {NoRef} ELSE {}

(* Mutant of baseRef: all of the sidecar is returned. *)
wholeSidecar == (IF Readable(side) THEN {side} ELSE {}) \cup Unread

(* What baseRef may return: "" when the sidecar cannot be read.            *)
baseRef == (IF Readable(side) THEN {side.base} ELSE {}) \cup Unread

Goto(c, l) == pc' = [pc EXCEPT ![c] = l]

Leave(c) ==
  /\ Goto(c, "idle")
  /\ host' = [host EXCEPT ![c] = NoHost]
  /\ ref' = [ref EXCEPT ![c] = NoRef]
  /\ base' = [base EXCEPT ![c] = NoRef]
  /\ ov' = [ov EXCEPT ![c] = NoOverlay]

-----------------------------------------------------------------------------
(* EnsureVolume and RestoreBackup in OCI mode.  A sidecar that exists is a *)
(* no-op, one that cannot be parsed included; the image was opened and     *)
(* closed again before the directory is made.                              *)
Provision(c, r) ==
  /\ pc[c] = "idle"
  /\ "provision" \in Ops
  /\ r \in pushed
  /\ FALSE \in isOCIVolume
  /\ Goto(c, "mkdir")
  /\ ref' = [ref EXCEPT ![c] = r]
  /\ base' = [base EXCEPT ![c] = r]
  /\ UNCHANGED <<store, registry, memory, promised, host, ov, fd>>

MakeDir(c) ==
  /\ pc[c] = "mkdir"
  /\ dir' = TRUE
  /\ Goto(c, "create")
  /\ UNCHANGED <<side, tmp, registry, memory, promised, host, ref, base, ov, fd>>

-----------------------------------------------------------------------------
(* writeOCISidecar, with a temporary file that all calls share             *)

(* Mutant of SidecarCreate: oci.json itself is truncated. *)
SidecarCreateInPlace(c) ==
  /\ pc[c] = "create"
  /\ dir
  /\ side' = Empty
  /\ fd' = [fd EXCEPT ![c] = "side"]
  /\ Goto(c, "write")
  /\ UNCHANGED <<dir, tmp, registry, memory, promised, host, ref, base, ov>>

SidecarCreate(c) ==
  /\ pc[c] = "create"
  /\ dir
  /\ tmp' = Empty
  /\ fd' = [fd EXCEPT ![c] = "tmp"]
  /\ Goto(c, "write")
  /\ UNCHANGED <<dir, side, registry, memory, promised, host, ref, base, ov>>

(* Mutant of SidecarWrite: Current is not advanced. *)
SidecarWriteBase(c) ==
  /\ pc[c] = "write"
  /\ LET sc == [base |-> base[c], current |-> base[c]]
     IN /\ tmp' = IF fd[c] = "tmp" THEN sc ELSE tmp
        /\ side' = IF fd[c] = "side" THEN sc ELSE side
  /\ fd' = [fd EXCEPT ![c] = "none"]
  /\ Goto(c, "rename")
  /\ UNCHANGED <<dir, registry, memory, promised, host, ref, base, ov>>

SidecarWrite(c) ==
  /\ pc[c] = "write"
  /\ LET sc == [base |-> base[c], current |-> ref[c]]
     IN /\ tmp' = IF fd[c] = "tmp" THEN sc ELSE tmp
        /\ side' = IF fd[c] = "side" THEN sc ELSE side
  /\ fd' = [fd EXCEPT ![c] = "none"]
  /\ Goto(c, "rename")
  /\ UNCHANGED <<dir, registry, memory, promised, host, ref, base, ov>>

(* The rename, after which the call returns without an error; a commit is  *)
(* acknowledged with it.  Other calls' open files follow the names.        *)
SidecarRename(c) ==
  /\ pc[c] = "rename"
  /\ tmp # NoFile
  /\ side' = tmp
  /\ tmp' = NoFile
  /\ fd' = [d \in Calls |-> CASE fd[d] = "tmp" -> "side"
                              [] fd[d] = "side" -> "gone"
                              [] OTHER -> fd[d]]
  /\ IF ov[c] = NoOverlay
     THEN home' = (IF home = NoRef THEN ref[c] ELSE home) /\ UNCHANGED acked
     ELSE acked' = acked \cup tag[ref[c]] /\ UNCHANGED home
  /\ Leave(c)
  /\ UNCHANGED <<dir, registry, memory>>

-----------------------------------------------------------------------------
(* attachOCIVolume *)

(* Mutant of Attach: the base is attached again. *)
AttachBase(c, h) ==
  /\ pc[c] = "idle"
  /\ live[h] = NoOverlay
  /\ Readable(side)
  /\ Goto(c, "open")
  /\ host' = [host EXCEPT ![c] = h]
  /\ ref' = [ref EXCEPT ![c] = side.base]
  /\ UNCHANGED <<store, registry, memory, promised, base, ov, fd>>

(* The sidecar is read.  A key that is attached is answered by             *)
(* AttachVolume itself, which changes nothing.                             *)
Attach(c, h) ==
  /\ pc[c] = "idle"
  /\ live[h] = NoOverlay
  /\ Readable(side)
  /\ Goto(c, "open")
  /\ host' = [host EXCEPT ![c] = h]
  /\ ref' = [ref EXCEPT ![c] = side.current]
  /\ UNCHANGED <<store, registry, memory, promised, base, ov, fd>>

(* The current version is opened and a fresh overlay laid over it.         *)
AttachOpen(c) ==
  /\ pc[c] = "open"
  /\ \E o \in Overlays :
       /\ \A h \in Hosts : live[h] # o
       /\ \A d \in Calls : ov[d] # o
       /\ content' = [content EXCEPT ![o] = tag[ref[c]]]
       /\ ov' = [ov EXCEPT ![c] = o]
  /\ Goto(c, "publish")
  /\ UNCHANGED <<store, registry, live, promised, host, ref, base, fd>>

(* Published, unless the key has been attached meanwhile.                  *)
AttachPublish(c) ==
  /\ pc[c] = "publish"
  /\ live' = [live EXCEPT ![host[c]] = IF @ = NoOverlay THEN ov[c] ELSE @]
  /\ Leave(c)
  /\ UNCHANGED <<store, registry, content, promised, fd>>

(* DetachVolume: the overlay is dropped; a commit that has it goes on.     *)
Detach(h) ==
  /\ live[h] # NoOverlay
  /\ live' = [live EXCEPT ![h] = NoOverlay]
  /\ UNCHANGED <<store, registry, content, promised, pc, host, ref, base, ov, fd>>

(* A guest writes to its disk. *)
GuestWrite(h, w) ==
  /\ live[h] # NoOverlay
  /\ w \notin content[live[h]]
  /\ content' = [content EXCEPT ![live[h]] = @ \cup {w}]
  /\ UNCHANGED <<store, registry, live, promised, pc, host, ref, base, ov, fd>>

-----------------------------------------------------------------------------
(* CreateSnapshot and CreateBackup: commitOverlay *)

(* liveOverlay finds some export of the volume, of any host.  A snapshot   *)
(* has read the base before, to name its tag, and fails without one.       *)
Commit(c, t) ==
  /\ pc[c] = "idle"
  /\ "commit" \in Ops
  /\ TRUE \in isOCIVolume
  /\ \E h \in Hosts :
       /\ live[h] # NoOverlay
       /\ ov' = [ov EXCEPT ![c] = live[h]]
  /\ ref' = [ref EXCEPT ![c] = t]
  /\ Goto(c, "commit")
  /\ UNCHANGED <<store, registry, memory, promised, host, base, fd>>

(* ociCommit pushes the overlay as it is at this moment, over what the tag *)
(* may have held: nothing keeps a snapshot from having the name of an      *)
(* earlier one or of the base.                                             *)
CommitPush(c) ==
  /\ pc[c] = "commit"
  /\ tag' = [tag EXCEPT ![ref[c]] = content[ov[c]]]
  /\ pushed' = pushed \cup {ref[c]}
  /\ Goto(c, "base")
  /\ UNCHANGED <<store, memory, promised, host, ref, base, ov, fd>>

(* Mutant of CommitReadBase: the new version becomes the base. *)
CommitAsBase(c) ==
  /\ pc[c] = "base"
  /\ base' = [base EXCEPT ![c] = ref[c]]
  /\ Goto(c, "create")
  /\ UNCHANGED <<store, registry, memory, promised, host, ref, ov, fd>>

(* The base is read again, from the sidecar as it is now. *)
CommitReadBase(c) ==
  /\ pc[c] = "base"
  /\ \E b \in baseRef : base' = [base EXCEPT ![c] = b]
  /\ Goto(c, "create")
  /\ UNCHANGED <<store, registry, memory, promised, host, ref, ov, fd>>

-----------------------------------------------------------------------------
(* A registry, a listener or the disk fails, the directory is gone or      *)
(* another call has renamed the temporary file away: the call returns an   *)
(* error and undoes nothing.  A commit may fail with its tag pushed.       *)
Fails(c) ==
  /\ pc[c] \in {"open", "publish", "commit", "base", "mkdir", "create", "write", "rename"}
  /\ fd' = [fd EXCEPT ![c] = "none"]
  /\ Leave(c)
  /\ UNCHANGED <<store, registry, memory, promised>>

-----------------------------------------------------------------------------
(* DestroyVolume: the exports go under the lock, the directory outside it  *)

Destroy(c) ==
  /\ pc[c] = "idle"
  /\ "destroy" \in Ops
  /\ dir
  /\ live' = [h \in Hosts |-> NoOverlay]
  /\ Goto(c, "remove")
  /\ UNCHANGED <<store, registry, content, promised, host, ref, base, ov, fd>>

(* os.RemoveAll unlinks file by file and the directory last; it may fail,  *)
(* or the plugin die, half way.  Without its sidecar the volume is gone.   *)
DestroyRemove(c) ==
  /\ pc[c] = "remove"
  /\ \E gone \in SUBSET {"side", "tmp", "dir"} :
       /\ "dir" \in gone => {"side", "tmp"} \subseteq gone
       /\ dir' = (dir /\ "dir" \notin gone)
       /\ tmp' = IF "tmp" \in gone THEN NoFile ELSE tmp
       /\ fd' = [d \in Calls |-> IF fd[d] \in gone THEN "gone" ELSE fd[d]]
       /\ IF "side" \in gone
          THEN side' = NoFile /\ acked' = {} /\ home' = NoRef
          ELSE UNCHANGED <<side, acked, home>>
  /\ Leave(c)
  /\ UNCHANGED <<registry, memory>>

(* The plugin dies: overlays and calls are gone, files stay as they are.   *)
Restart ==
  /\ Restarts
  /\ live' = [h \in Hosts |-> NoOverlay]
  /\ pc' = [c \in Calls |-> "idle"]
  /\ host' = [c \in Calls |-> NoHost]
  /\ ref' = [c \in Calls |-> NoRef]
  /\ base' = [c \in Calls |-> NoRef]
  /\ ov' = [c \in Calls |-> NoOverlay]
  /\ fd' = [c \in Calls |-> "none"]
  /\ UNCHANGED <<store, registry, content, promised>>

Next ==
  \/ Restart
  \/ \E h \in Hosts : Detach(h) \/ \E w \in Writes : GuestWrite(h, w)
  \/ \E c \in Calls :
       \/ \E r \in Refs : Provision(c, r)
       \/ \E h \in Hosts : Attach(c, h)
       \/ \E t \in Refs : Commit(c, t)
       \/ MakeDir(c) \/ SidecarCreate(c) \/ SidecarWrite(c) \/ SidecarRename(c)
       \/ AttachOpen(c) \/ AttachPublish(c) \/ CommitPush(c) \/ CommitReadBase(c)
       \/ Fails(c) \/ Destroy(c) \/ DestroyRemove(c)

Spec == Init /\ [][Next]_vars
-----------------------------------------------------------------------------
(* "writeOCISidecar atomically persists a volume's OCI sidecar": no reader *)
(* ever finds half of one.                                                 *)
SidecarWhole == side # Empty

(* "Base never changes": the sidecar names the image the volume was        *)
(* provisioned with, whatever is committed.                                *)
BaseNeverChanges == Readable(side) => side.base = home

(* "Current advances to the newest committed tag on each snapshot/backup   *)
(* so a reopen attaches the latest version": the version a reopen would    *)
(* attach holds every write that a returned snapshot or backup made        *)
(* durable.                                                                *)
AckedKept == Readable(side) => acked \subseteq tag[side.current]

-----------------------------------------------------------------------------
(* The volume as its users see it: the base the sidecar names, the writes  *)
(* in the tag it calls current, and those each overlay shows.              *)
baseBar == IF Readable(side) THEN side.base ELSE NoRef
versionBar == IF Readable(side) THEN tag[side.current] ELSE {}
shownBar == [h \in Hosts |-> IF live[h] = NoOverlay THEN NoOverlay ELSE content[live[h]]]

Chain == INSTANCE VersionChain WITH
  Bases <- Refs, NoBase <- NoRef, NoView <- NoOverlay,
  base <- baseBar, version <- versionBar, shown <- shownBar

(* Sidecar, tags and overlays implement a chain of versions: a guest is    *)
(* shown the newest one, no crash or failure takes a write out of it, and  *)
(* it can only be left by destroying the volume.                           *)
ImplementsChain == Chain!Spec
=============================================================================
