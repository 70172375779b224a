-------------------------- MODULE OciVersionsProofs --------------------------
(***************************************************************************)
(* What is proved of OciVersions for every set of tags, writes, overlays   *)
(* and golden images: typing always; that the sidecar is whole when one    *)
(* call runs at a time; the base it names when looking at it never fails   *)
(* as well; the promises of the version chain, and that it is one, when    *)
(* the volume is attached under one host, too.  Guests, crashes and        *)
(* failures of every other kind come in wherever they like.                *)
(***************************************************************************)
EXTENDS OciVersions, TLAPS

OneCall == \A c, d \in Calls : c = d
OneHost == \A g, h \in Hosts : g = h
LooksSucceed == ~LooksFail

(* What a call has at hand from step to step.                              *)
CallInv ==
  \A c \in Calls :
    /\ pc[c] \in {"open", "publish"} => host[c] \in Hosts
    /\ pc[c] \in {"open", "mkdir", "commit", "base", "create", "write", "rename"} =>
         ref[c] \in Refs
    /\ pc[c] \in {"publish", "commit", "base"} => ov[c] \in Overlays

SidecarPcs == {"create", "write", "rename"}
Provisions(c) == pc[c] \in {"mkdir"} \cup SidecarPcs /\ ov[c] = NoOverlay
Commits(c) == pc[c] \in {"commit", "base"} \/ (pc[c] \in SidecarPcs /\ ov[c] # NoOverlay)

(* The temporary file is the call's own until it is renamed.               *)
FileInv ==
  /\ \A c \in Calls :
       /\ IF pc[c] = "write" THEN fd[c] = "tmp" ELSE fd[c] = "none"
       /\ pc[c] = "rename" => tmp = [base |-> base[c], current |-> ref[c]]
  /\ SidecarWhole

(* A volume without a sidecar is not attached, and one with a sidecar      *)
(* stands on the base it was provisioned with.                             *)
SerialInv ==
  /\ \A c \in Calls :
       /\ pc[c] \in {"idle", "open", "mkdir", "remove"} => ov[c] = NoOverlay
       /\ Provisions(c) => side = NoFile /\ base[c] = ref[c]
       /\ pc[c] \in {"open", "publish"} \/ Commits(c) => Readable(side)
       /\ Commits(c) /\ pc[c] \in SidecarPcs => base[c] = side.base
       /\ pc[c] = "remove" => \A h \in Hosts : live[h] = NoOverlay
  /\ side = NoFile => \A h \in Hosts : live[h] = NoOverlay
  /\ Readable(side) => home \in Refs
  /\ side = NoFile => home = NoRef
  /\ BaseNeverChanges

(* With one host there is one line of versions: each holds what the one    *)
(* before it held, and the overlay holds the newest.                       *)
ChainInv ==
  /\ \A c \in Calls :
       /\ pc[c] \in {"open", "publish"} => live[host[c]] = NoOverlay
       /\ pc[c] = "open" => ref[c] = side.current
       /\ pc[c] = "publish" => content[ov[c]] = tag[side.current]
       /\ Commits(c) => \A h \in Hosts : live[h] \in {ov[c], NoOverlay}
       /\ pc[c] = "commit" => tag[side.current] \subseteq content[ov[c]]
       /\ Commits(c) /\ pc[c] # "commit" =>
            /\ tag[side.current] \subseteq tag[ref[c]]
            /\ tag[ref[c]] \subseteq content[ov[c]]
  /\ \A h \in Hosts : live[h] # NoOverlay => tag[side.current] \subseteq content[live[h]]
  /\ side = NoFile => acked = {}
  /\ AckedKept
-----------------------------------------------------------------------------
(* Types hold initially, and a step keeps them, whatever overlaps.         *)
LEMMA InitTyped == Init => TypeOK /\ CallInv
BY NamesAssumption DEF Init, InitCalls, TypeOK, CallInv, Refs, Sidecars, Pcs

(* A sidecar that is written names a version.                              *)
LEMMA TypeStep ==
  ASSUME TypeOK, CallInv, [Next]_vars
  PROVE  TypeOK'
<1> USE NamesAssumption, ValuesAssumption DEF TypeOK, CallInv, Pcs, Sidecars,
      Readable, store, memory, registry, promised
<1>1. CASE \E c \in Calls, r \in Refs : Provision(c, r)
  BY <1>1 DEF Provision, Goto
<1>2. CASE \E c \in Calls : MakeDir(c)
  BY <1>2 DEF MakeDir, Goto
<1>3. CASE \E c \in Calls : SidecarCreate(c)
  BY <1>3 DEF SidecarCreate, Goto
<1>4. CASE \E c \in Calls : SidecarWrite(c)
  BY <1>4 DEF SidecarWrite, Goto
<1>5. CASE \E c \in Calls : SidecarRename(c)
  BY <1>5 DEF SidecarRename, Leave, Goto
<1>6. CASE \E c \in Calls, h \in Hosts : Attach(c, h)
  BY <1>6 DEF Attach, Goto
<1>7. CASE \E c \in Calls : AttachOpen(c)
  BY <1>7 DEF AttachOpen, Goto
<1>8. CASE \E c \in Calls : AttachPublish(c)
  BY <1>8 DEF AttachPublish, Leave, Goto
<1>9. CASE \E h \in Hosts : Detach(h)
  BY <1>9 DEF Detach
<1>10. CASE \E h \in Hosts, w \in Writes : GuestWrite(h, w)
  BY <1>10 DEF GuestWrite
<1>11. CASE \E c \in Calls, t \in Refs : Commit(c, t)
  BY <1>11 DEF Commit, Goto
<1>12. CASE \E c \in Calls : CommitPush(c)
  BY <1>12 DEF CommitPush, Goto
<1>13. CASE \E c \in Calls : CommitReadBase(c)
  BY <1>13 DEF CommitReadBase, baseRef, Unread, Goto
<1>14. CASE \E c \in Calls : Fails(c)
  BY <1>14 DEF Fails, Leave, Goto
<1>15. CASE \E c \in Calls : Destroy(c)
  BY <1>15 DEF Destroy, Goto
<1>16. CASE \E c \in Calls : DestroyRemove(c)
  <2>1. PICK c \in Calls : DestroyRemove(c)
    BY <1>16
  <2>2. fd' \in [Calls -> {"none", "tmp", "side", "gone"}]
    BY <2>1 DEF DestroyRemove
  <2>3. pc' \in [Calls -> Pcs]
    BY <2>1 DEF DestroyRemove, Leave, Goto
  <2> QED BY <2>1, <2>2, <2>3 DEF DestroyRemove, Leave
<1>17. CASE Restart
  BY <1>17 DEF Restart
<1>18. CASE UNCHANGED vars
  BY <1>18 DEF vars
<1> QED BY <1>1, <1>2, <1>3, <1>4, <1>5, <1>6, <1>7, <1>8, <1>9, <1>10, <1>11, <1>12,
      <1>13, <1>14, <1>15, <1>16, <1>17, <1>18
  DEF Next

(* A call carries its host, version and overlay with it.                   *)
LEMMA CallStep ==
  ASSUME TypeOK, CallInv, [Next]_vars
  PROVE  CallInv'
<1> USE NamesAssumption, ValuesAssumption DEF TypeOK, CallInv, Sidecars, Readable,
      Pcs, store, memory, registry, promised
<1>1. CASE \E c \in Calls, r \in Refs : Provision(c, r)
  BY <1>1 DEF Provision, Goto
<1>2. CASE \E c \in Calls : MakeDir(c)
  BY <1>2 DEF MakeDir, Goto
<1>3. CASE \E c \in Calls : SidecarCreate(c)
  BY <1>3 DEF SidecarCreate, Goto
<1>4. CASE \E c \in Calls : SidecarWrite(c)
  BY <1>4 DEF SidecarWrite, Goto
<1>5. CASE \E c \in Calls : SidecarRename(c)
  BY <1>5 DEF SidecarRename, Leave, Goto
<1>6. CASE \E c \in Calls, h \in Hosts : Attach(c, h)
  BY <1>6 DEF Attach, Goto
<1>7. CASE \E c \in Calls : AttachOpen(c)
  BY <1>7 DEF AttachOpen, Goto
<1>8. CASE \E c \in Calls : AttachPublish(c)
  BY <1>8 DEF AttachPublish, Leave, Goto
<1>9. CASE \E h \in Hosts : Detach(h)
  BY <1>9 DEF Detach
<1>10. CASE \E h \in Hosts, w \in Writes : GuestWrite(h, w)
  BY <1>10 DEF GuestWrite
<1>11. CASE \E c \in Calls, t \in Refs : Commit(c, t)
  BY <1>11 DEF Commit, Goto
<1>12. CASE \E c \in Calls : CommitPush(c)
  BY <1>12 DEF CommitPush, Goto
<1>13. CASE \E c \in Calls : CommitReadBase(c)
  BY <1>13 DEF CommitReadBase, baseRef, Unread, Goto
<1>14. CASE \E c \in Calls : Fails(c)
  BY <1>14 DEF Fails, Leave, Goto
<1>15. CASE \E c \in Calls : Destroy(c)
  BY <1>15 DEF Destroy, Goto
<1>16. CASE \E c \in Calls : DestroyRemove(c)
  BY <1>16 DEF DestroyRemove, Leave, Goto
<1>17. CASE Restart
  BY <1>17 DEF Restart
<1>18. CASE UNCHANGED vars
  BY <1>18 DEF vars
<1> QED BY <1>1, <1>2, <1>3, <1>4, <1>5, <1>6, <1>7, <1>8, <1>9, <1>10, <1>11, <1>12,
      <1>13, <1>14, <1>15, <1>16, <1>17, <1>18
  DEF Next

(* Nobody else renames or truncates the call's temporary file.             *)
LEMMA FileStep ==
  ASSUME OneCall, TypeOK, CallInv, FileInv, [Next]_vars
  PROVE  FileInv'
<1> USE NamesAssumption, ValuesAssumption DEF OneCall, TypeOK, CallInv, FileInv,
      SidecarWhole, Sidecars, Readable, Pcs, store, memory, registry, promised
<1>1. CASE \E c \in Calls, r \in Refs : Provision(c, r)
  BY <1>1 DEF Provision, Goto
<1>2. CASE \E c \in Calls : MakeDir(c)
  BY <1>2 DEF MakeDir, Goto
<1>3. CASE \E c \in Calls : SidecarCreate(c)
  BY <1>3 DEF SidecarCreate, Goto
<1>4. CASE \E c \in Calls : SidecarWrite(c)
  BY <1>4 DEF SidecarWrite, Goto
<1>5. CASE \E c \in Calls : SidecarRename(c)
  BY <1>5 DEF SidecarRename, Leave, Goto
<1>6. CASE \E c \in Calls, h \in Hosts : Attach(c, h)
  BY <1>6 DEF Attach, Goto
<1>7. CASE \E c \in Calls : AttachOpen(c)
  BY <1>7 DEF AttachOpen, Goto
<1>8. CASE \E c \in Calls : AttachPublish(c)
  BY <1>8 DEF AttachPublish, Leave, Goto
<1>9. CASE \E h \in Hosts : Detach(h)
  BY <1>9 DEF Detach
<1>10. CASE \E h \in Hosts, w \in Writes : GuestWrite(h, w)
  BY <1>10 DEF GuestWrite
<1>11. CASE \E c \in Calls, t \in Refs : Commit(c, t)
  BY <1>11 DEF Commit, Goto
<1>12. CASE \E c \in Calls : CommitPush(c)
  BY <1>12 DEF CommitPush, Goto
<1>13. CASE \E c \in Calls : CommitReadBase(c)
  BY <1>13 DEF CommitReadBase, baseRef, Unread, Goto
<1>14. CASE \E c \in Calls : Fails(c)
  BY <1>14 DEF Fails, Leave, Goto
<1>15. CASE \E c \in Calls : Destroy(c)
  BY <1>15 DEF Destroy, Goto
<1>16. CASE \E c \in Calls : DestroyRemove(c)
  BY <1>16 DEF DestroyRemove, Leave, Goto
<1>17. CASE Restart
  BY <1>17 DEF Restart
<1>18. CASE UNCHANGED vars
  BY <1>18 DEF vars
<1> QED BY <1>1, <1>2, <1>3, <1>4, <1>5, <1>6, <1>7, <1>8, <1>9, <1>10, <1>11, <1>12,
      <1>13, <1>14, <1>15, <1>16, <1>17, <1>18
  DEF Next

(* Only a rename or a removal changes the sidecar.                         *)
LEMMA SerialStep ==
  ASSUME OneCall, LooksSucceed, TypeOK, CallInv, FileInv, SerialInv, [Next]_vars
  PROVE  SerialInv'
<1> USE NamesAssumption, ValuesAssumption DEF OneCall, LooksSucceed, TypeOK, CallInv,
      FileInv, SerialInv, SidecarWhole, BaseNeverChanges,
      Provisions, Commits, SidecarPcs, Sidecars, Readable, Pcs, store, memory, registry, promised
<1>1. CASE \E c \in Calls, r \in Refs : Provision(c, r)
  <2>1. PICK c \in Calls, r \in Refs : Provision(c, r)
    BY <1>1
  <2>2. side = NoFile
    BY <2>1 DEF Provision, isOCIVolume
  <2> QED BY <2>1, <2>2 DEF Provision, Goto
<1>2. CASE \E c \in Calls : MakeDir(c)
  BY <1>2 DEF MakeDir, Goto
<1>3. CASE \E c \in Calls : SidecarCreate(c)
  BY <1>3 DEF SidecarCreate, Goto
<1>4. CASE \E c \in Calls : SidecarWrite(c)
  BY <1>4 DEF SidecarWrite, Goto
<1>5. CASE \E c \in Calls : SidecarRename(c)
  BY <1>5 DEF SidecarRename, Leave, Goto
<1>6. CASE \E c \in Calls, h \in Hosts : Attach(c, h)
  BY <1>6 DEF Attach, Goto
<1>7. CASE \E c \in Calls : AttachOpen(c)
  BY <1>7 DEF AttachOpen, Goto
<1>8. CASE \E c \in Calls : AttachPublish(c)
  BY <1>8 DEF AttachPublish, Leave, Goto
<1>9. CASE \E h \in Hosts : Detach(h)
  BY <1>9 DEF Detach
<1>10. CASE \E h \in Hosts, w \in Writes : GuestWrite(h, w)
  BY <1>10 DEF GuestWrite
<1>11. CASE \E c \in Calls, t \in Refs : Commit(c, t)
  BY <1>11 DEF Commit, isOCIVolume, Goto
<1>12. CASE \E c \in Calls : CommitPush(c)
  BY <1>12 DEF CommitPush, Goto
<1>13. CASE \E c \in Calls : CommitReadBase(c)
  BY <1>13 DEF CommitReadBase, baseRef, Unread, Goto
<1>14. CASE \E c \in Calls : Fails(c)
  BY <1>14 DEF Fails, Leave, Goto
<1>15. CASE \E c \in Calls : Destroy(c)
  BY <1>15 DEF Destroy, Goto
<1>16. CASE \E c \in Calls : DestroyRemove(c)
  BY <1>16 DEF DestroyRemove, Leave, Goto
<1>17. CASE Restart
  BY <1>17 DEF Restart
<1>18. CASE UNCHANGED vars
  BY <1>18 DEF vars
<1> QED BY <1>1, <1>2, <1>3, <1>4, <1>5, <1>6, <1>7, <1>8, <1>9, <1>10, <1>11, <1>12,
      <1>13, <1>14, <1>15, <1>16, <1>17, <1>18
  DEF Next

(* A commit holds the current version when it becomes that.                *)
LEMMA ChainStep ==
  ASSUME OneCall, OneHost, LooksSucceed, TypeOK, CallInv, FileInv, SerialInv, ChainInv,
         [Next]_vars
  PROVE  ChainInv'
<1> USE NamesAssumption, ValuesAssumption DEF OneCall, OneHost, LooksSucceed, TypeOK,
      CallInv, FileInv, SerialInv, ChainInv, SidecarWhole, AckedKept,
      Provisions, Commits, SidecarPcs, Sidecars, Readable, Pcs, store, memory, registry, promised
<1>1. CASE \E c \in Calls, r \in Refs : Provision(c, r)
  BY <1>1 DEF Provision, Goto
<1>2. CASE \E c \in Calls : MakeDir(c)
  BY <1>2 DEF MakeDir, Goto
<1>3. CASE \E c \in Calls : SidecarCreate(c)
  BY <1>3 DEF SidecarCreate, Goto
<1>4. CASE \E c \in Calls : SidecarWrite(c)
  BY <1>4 DEF SidecarWrite, Goto
<1>5. CASE \E c \in Calls : SidecarRename(c)
  BY <1>5 DEF SidecarRename, Leave, Goto
<1>6. CASE \E c \in Calls, h \in Hosts : Attach(c, h)
  BY <1>6 DEF Attach, Goto
<1>7. CASE \E c \in Calls : AttachOpen(c)
  BY <1>7 DEF AttachOpen, Goto
<1>8. CASE \E c \in Calls : AttachPublish(c)
  BY <1>8 DEF AttachPublish, Leave, Goto
<1>9. CASE \E h \in Hosts : Detach(h)
  BY <1>9 DEF Detach
<1>10. CASE \E h \in Hosts, w \in Writes : GuestWrite(h, w)
  BY <1>10 DEF GuestWrite
<1>11. CASE \E c \in Calls, t \in Refs : Commit(c, t)
  BY <1>11 DEF Commit, Goto
<1>12. CASE \E c \in Calls : CommitPush(c)
  BY <1>12 DEF CommitPush, Goto
<1>13. CASE \E c \in Calls : CommitReadBase(c)
  BY <1>13 DEF CommitReadBase, baseRef, Unread, Goto
<1>14. CASE \E c \in Calls : Fails(c)
  BY <1>14 DEF Fails, Leave, Goto
<1>15. CASE \E c \in Calls : Destroy(c)
  BY <1>15 DEF Destroy, Goto
<1>16. CASE \E c \in Calls : DestroyRemove(c)
  BY <1>16 DEF DestroyRemove, Leave, Goto
<1>17. CASE Restart
  BY <1>17 DEF Restart
<1>18. CASE UNCHANGED vars
  BY <1>18 DEF vars
<1> QED BY <1>1, <1>2, <1>3, <1>4, <1>5, <1>6, <1>7, <1>8, <1>9, <1>10, <1>11, <1>12,
      <1>13, <1>14, <1>15, <1>16, <1>17, <1>18
  DEF Next

-----------------------------------------------------------------------------
(* Every variable keeps its type, whatever overlaps.                       *)
THEOREM Typed == Spec => [](TypeOK /\ CallInv)
<1>1. TypeOK /\ CallInv /\ [Next]_vars => (TypeOK /\ CallInv)'
  BY TypeStep, CallStep
<1> QED BY <1>1, InitTyped, PTL DEF Spec

(* In particular: no sidecar and no tag is malformed.                       *)
THEOREM TypeCorrect == Spec => []TypeOK
BY Typed, PTL

(* A volume from an earlier life has a whole sidecar.                      *)
LEMMA InitSerial == Init => FileInv /\ SerialInv
BY NamesAssumption, ValuesAssumption
  DEF Init, InitCalls, FileInv, SerialInv, SidecarWhole, BaseNeverChanges, Provisions,
      Commits, SidecarPcs, Sidecars, Readable, Refs

(* The invariant of the files when calls do not overlap.                   *)
THEOREM Files == ASSUME OneCall PROVE Spec => []FileInv
<1>1. TypeOK /\ CallInv /\ FileInv /\ [Next]_vars => FileInv'
  BY FileStep
<1> QED BY <1>1, InitSerial, Typed, PTL DEF Spec

(* That of the sidecar's content, when it can always be looked at.         *)
THEOREM Serial == ASSUME OneCall, LooksSucceed PROVE Spec => []SerialInv
<1>1. TypeOK /\ CallInv /\ FileInv /\ SerialInv /\ [Next]_vars => SerialInv'
  BY SerialStep
<1> QED BY <1>1, InitSerial, Typed, Files, PTL DEF Spec

(* When calls do not overlap, no reader of oci.json ever finds half a      *)
(* document, whichever step fails or is the last before a crash, and under *)
(* however many hosts the volume is attached.                              *)
THEOREM SidecarAlwaysWhole == ASSUME OneCall PROVE Spec => []SidecarWhole
<1>1. FileInv => SidecarWhole
  BY DEF FileInv
<1> QED BY <1>1, Files, PTL

(* Likewise, the sidecar names the image the volume was provisioned with,  *)
(* as long as no os.Stat or os.ReadFile of it fails: the code would take   *)
(* the sidecar for missing, or its base for "".                            *)
THEOREM BaseAlwaysKept == ASSUME OneCall, LooksSucceed PROVE Spec => []BaseNeverChanges
<1>1. SerialInv => BaseNeverChanges
  BY DEF SerialInv
<1> QED BY <1>1, Serial, PTL

(* Nothing has been acknowledged or attached yet.                          *)
LEMMA InitChain == Init => ChainInv
BY NamesAssumption, ValuesAssumption
  DEF Init, InitCalls, ChainInv, AckedKept, Provisions, Commits, SidecarPcs, Readable

(* The invariant of a volume with one host.                                *)
THEOREM OneLine == ASSUME OneCall, OneHost, LooksSucceed PROVE Spec => []ChainInv
<1>1. TypeOK /\ CallInv /\ FileInv /\ SerialInv /\ ChainInv /\ [Next]_vars => ChainInv'
  BY ChainStep
<1> QED BY <1>1, InitChain, Typed, Files, Serial, PTL DEF Spec

(* What a snapshot or backup made durable is in the version a reopen would *)
(* attach, when calls do not overlap, the volume has one host and the      *)
(* sidecar can always be looked at.                                        *)
THEOREM AckedAlwaysKept == ASSUME OneCall, OneHost, LooksSucceed PROVE Spec => []AckedKept
<1>1. ChainInv => AckedKept
  BY DEF ChainInv
<1> QED BY <1>1, OneLine, PTL

-----------------------------------------------------------------------------
(* The chain of versions: what each step of the driver is in VersionChain. *)
ChainStart ==
  OneCall /\ OneHost /\ TypeOK /\ CallInv /\ FileInv /\ SerialInv /\ ChainInv

(* The chain is unchanged by a step that moves neither sidecar nor tags,   *)
(* nor what live overlays show.                                            *)
LEMMA Unseen ==
  ASSUME UNCHANGED <<side, tag, live>>,
         \A h \in Hosts : live[h] # NoOverlay => content'[live[h]] = content[live[h]]
  PROVE  UNCHANGED Chain!vars
BY DEF Chain!vars, baseBar, versionBar, shownBar, Readable

(* A call that prepares: what it has so far is not the volume yet.         *)
LEMMA QuietSteps ==
  ASSUME ChainStart, NEW c \in Calls,
         \/ \E r \in Refs : Provision(c, r) \/ Commit(c, r)
         \/ \E h \in Hosts : Attach(c, h)
         \/ MakeDir(c) \/ SidecarCreate(c) \/ SidecarWrite(c)
         \/ CommitReadBase(c) \/ Fails(c)
  PROVE  UNCHANGED Chain!vars
<1>1. UNCHANGED <<side, tag, live, content>>
  BY DEF Provision, Commit, Attach, MakeDir, SidecarCreate, SidecarWrite,
      CommitReadBase,
      Fails, store, registry, memory, ChainStart, FileInv
<1> QED BY <1>1, Unseen

(* A new overlay takes a slot that no host is attached to.                 *)
LEMMA AttachOpenQuiet ==
  ASSUME ChainStart, NEW c \in Calls, AttachOpen(c)
  PROVE  UNCHANGED Chain!vars
<1>1. PICK o \in Overlays : /\ \A h \in Hosts : live[h] # o
                            /\ content' = [content EXCEPT ![o] = tag[ref[c]]]
  BY DEF AttachOpen
<1>2. UNCHANGED <<side, tag, live>>
  BY DEF AttachOpen, store, registry
<1>3. \A h \in Hosts : live[h] # NoOverlay => content'[live[h]] = content[live[h]]
  BY <1>1 DEF ChainStart, TypeOK
<1> QED BY <1>2, <1>3, Unseen

(* The guest is shown the current version.                                 *)
LEMMA AttachPublishOpens ==
  ASSUME ChainStart, NEW c \in Calls, AttachPublish(c)
  PROVE  \E h \in Hosts : Chain!Open(h)
<1> DEFINE h == host[c]
<1>1. /\ pc[c] = "publish"
      /\ live' = [live EXCEPT ![h] = IF @ = NoOverlay THEN ov[c] ELSE @]
      /\ UNCHANGED <<side, tag, content>>
  BY DEF AttachPublish, store, registry
<1>2. /\ h \in Hosts /\ ov[c] \in Overlays /\ live[h] = NoOverlay
      /\ Readable(side) /\ content[ov[c]] = tag[side.current]
  BY <1>1 DEF ChainStart, CallInv, SerialInv, ChainInv
<1>3. baseBar # NoRef /\ versionBar = content[ov[c]] /\ UNCHANGED <<baseBar, versionBar>>
  BY <1>1, <1>2, NamesAssumption
  DEF baseBar, versionBar, Readable, ChainStart, SerialInv, BaseNeverChanges, Refs
<1>4. shownBar[h] = NoOverlay
  BY <1>2 DEF shownBar
<1>5. shownBar' = [shownBar EXCEPT ![h] = versionBar]
  BY <1>1, <1>2, <1>3, NamesAssumption DEF shownBar, ChainStart, TypeOK
<1> QED BY <1>2, <1>3, <1>4, <1>5 DEF Chain!Open

(* A detached guest sees nothing any more.                                 *)
LEMMA DetachCloses ==
  ASSUME ChainStart, NEW h \in Hosts, Detach(h)
  PROVE  Chain!Close(h)
<1>1. live' = [live EXCEPT ![h] = NoOverlay] /\ UNCHANGED <<side, tag, content>>
  BY DEF Detach, store, registry
<1>2. UNCHANGED <<baseBar, versionBar>>
  BY <1>1 DEF baseBar, versionBar, Readable
<1>3. shownBar' = [shownBar EXCEPT ![h] = NoOverlay]
  BY <1>1 DEF shownBar, ChainStart, TypeOK
<1> QED BY <1>2, <1>3 DEF Chain!Close

(* A write shows in the overlay of its host, which no other host has.      *)
LEMMA GuestWrites ==
  ASSUME ChainStart, NEW h \in Hosts, NEW w \in Writes, GuestWrite(h, w)
  PROVE  Chain!Write(h, w)
<1>1. /\ live[h] # NoOverlay /\ UNCHANGED <<side, tag, live>>
      /\ content' = [content EXCEPT ![live[h]] = @ \cup {w}]
  BY DEF GuestWrite, store, registry
<1>2. UNCHANGED <<baseBar, versionBar>>
  BY <1>1 DEF baseBar, versionBar, Readable
<1>3. live[h] \in Overlays /\ content[live[h]] \in SUBSET Writes
  BY <1>1 DEF ChainStart, TypeOK
<1>4. shownBar[h] = content[live[h]] /\ shownBar[h] # NoOverlay
  BY <1>1, <1>3, ValuesAssumption DEF shownBar
<1>5. shownBar' = [shownBar EXCEPT ![h] = @ \cup {w}]
  BY <1>1, <1>3, <1>4 DEF shownBar, ChainStart, TypeOK, OneHost
<1> QED BY <1>2, <1>4, <1>5 DEF Chain!Write

(* A tag that is pushed again, and is the current one, only gains writes.  *)
LEMMA PushAdvances ==
  ASSUME ChainStart, NEW c \in Calls, CommitPush(c)
  PROVE  (\E v \in SUBSET Writes : Chain!Advance(v)) \/ UNCHANGED Chain!vars
<1>1. /\ pc[c] = "commit" /\ tag' = [tag EXCEPT ![ref[c]] = content[ov[c]]]
      /\ UNCHANGED <<side, live, content>>
  BY DEF CommitPush, store, memory
<1>2. /\ Readable(side) /\ ref[c] \in Refs /\ ov[c] \in Overlays
      /\ tag[side.current] \subseteq content[ov[c]]
  BY <1>1 DEF ChainStart, CallInv, SerialInv, ChainInv, Commits
<1>3. UNCHANGED <<baseBar, shownBar>> /\ baseBar # NoRef
  BY <1>1, <1>2, NamesAssumption
  DEF baseBar, shownBar, Readable, ChainStart, SerialInv, BaseNeverChanges, Refs
<1>4. content[ov[c]] \in SUBSET Writes /\ side.current \in Refs
  BY <1>2 DEF ChainStart, TypeOK, Readable, Sidecars
<1>5. versionBar = tag[side.current] /\ versionBar' = tag'[side.current]
  BY <1>1, <1>2 DEF versionBar, Readable
<1>6. CASE side.current = ref[c]
  <2>1. versionBar' = content[ov[c]]
    BY <1>1, <1>4, <1>5, <1>6 DEF ChainStart, TypeOK
  <2> QED BY <1>2, <1>3, <1>4, <1>5, <2>1 DEF Chain!Advance
<1>7. CASE side.current # ref[c]
  BY <1>1, <1>3, <1>4, <1>5, <1>7 DEF Chain!vars, ChainStart, TypeOK
<1> QED BY <1>6, <1>7

(* The rename makes the volume, or makes the committed version current.    *)
LEMMA RenameTakesEffect ==
  ASSUME ChainStart, NEW c \in Calls, SidecarRename(c)
  PROVE  \/ \E b \in Refs, v \in SUBSET Writes : Chain!Provision(b, v)
         \/ \E v \in SUBSET Writes : Chain!Advance(v)
<1>1. pc[c] = "rename" /\ side' = tmp /\ UNCHANGED <<tag, live, content>>
  BY DEF SidecarRename, registry, memory
<1>2. ref[c] \in Refs /\ base[c] \in Refs \cup {NoRef} /\ tag[ref[c]] \in SUBSET Writes
  BY <1>1 DEF ChainStart, CallInv, TypeOK
<1>3. side' = [base |-> base[c], current |-> ref[c]] /\ side' \in Sidecars
  BY <1>1, <1>2 DEF ChainStart, FileInv, Sidecars
<1>4. baseBar' = base[c] /\ versionBar' = tag[ref[c]] /\ UNCHANGED shownBar
  BY <1>1, <1>3, ValuesAssumption DEF baseBar, versionBar, shownBar, Readable
<1>5. CASE ov[c] = NoOverlay
  <2>1. side = NoFile /\ base[c] = ref[c]
    BY <1>1, <1>5 DEF ChainStart, SerialInv, Provisions, SidecarPcs
  <2>2. baseBar = NoRef
    BY <2>1 DEF baseBar, Readable
  <2> QED BY <1>2, <1>4, <2>1, <2>2 DEF Chain!Provision
<1>6. CASE ov[c] # NoOverlay
  <2>1. Commits(c)
    BY <1>1, <1>6 DEF Commits, SidecarPcs
  <2>2. Readable(side) /\ base[c] = side.base /\ tag[side.current] \subseteq tag[ref[c]]
    BY <1>1, <2>1 DEF ChainStart, SerialInv, ChainInv, SidecarPcs
  <2>3. baseBar = base[c] /\ baseBar # NoRef /\ versionBar = tag[side.current]
    BY <2>2, NamesAssumption
    DEF baseBar, versionBar, ChainStart, SerialInv, BaseNeverChanges, Refs
  <2> QED BY <1>2, <1>4, <2>2, <2>3 DEF Chain!Advance
<1> QED BY <1>5, <1>6

(* DestroyVolume closes the overlays, and so does a crash.                 *)
LEMMA AllClose ==
  ASSUME Restart \/ \E c \in Calls : Destroy(c)
  PROVE  Chain!CloseAll
<1>1. live' = [h \in Hosts |-> NoOverlay] /\ UNCHANGED <<side, tag>>
  BY DEF Restart, Destroy, store, registry
<1> QED BY <1>1 DEF Chain!CloseAll, Chain!Closed, baseBar, versionBar, shownBar,
      Readable

(* Then the files go, and the volume with its sidecar.                     *)
LEMMA RemoveDestroys ==
  ASSUME NEW c \in Calls, DestroyRemove(c)
  PROVE  Chain!Destroy \/ UNCHANGED Chain!vars
<1>1. side' \in {NoFile, side} /\ UNCHANGED <<tag, live, content>>
  BY DEF DestroyRemove, registry, memory
<1>2. CASE side' = NoFile
  BY <1>1, <1>2 DEF Chain!Destroy, baseBar, versionBar, shownBar, Readable
<1>3. CASE side' = side
  BY <1>1, <1>3, Unseen
<1> QED BY <1>1, <1>2, <1>3

(* A volume from an earlier life stands on the golden image, unchanged.    *)
LEMMA InitRefines == Init => Chain!Init
<1> SUFFICES ASSUME Init PROVE Chain!Init
  OBVIOUS
<1>1. shownBar = Chain!Closed
  BY DEF Init, shownBar, Chain!Closed
<1>2. versionBar = {} /\ baseBar \in Refs \cup {NoRef}
  BY DEF Init, versionBar, baseBar, Readable, Refs
<1> QED BY <1>1, <1>2 DEF Chain!Init

(* Every step of the driver is one of the chain, or cannot be seen.        *)
LEMMA StepRefines ==
  ASSUME ChainStart, [Next]_vars
  PROVE  [Chain!Next]_(Chain!vars)
<1>1. CASE UNCHANGED vars
  BY <1>1, Unseen DEF vars
<1>2. CASE Restart
  BY <1>2, AllClose DEF Chain!Next
<1>3. CASE \E h \in Hosts : Detach(h) \/ \E w \in Writes : GuestWrite(h, w)
  BY <1>3, DetachCloses, GuestWrites DEF Chain!Next
<1>4. ASSUME NEW c \in Calls,
             \/ \E r \in Refs : Provision(c, r)
             \/ \E h \in Hosts : Attach(c, h)
             \/ \E t \in Refs : Commit(c, t)
             \/ MakeDir(c) \/ SidecarCreate(c) \/ SidecarWrite(c) \/ SidecarRename(c)
             \/ AttachOpen(c) \/ AttachPublish(c) \/ CommitPush(c) \/ CommitReadBase(c)
             \/ Fails(c) \/ Destroy(c) \/ DestroyRemove(c)
      PROVE  [Chain!Next]_(Chain!vars)
  BY <1>4, QuietSteps, AttachOpenQuiet, AttachPublishOpens, PushAdvances,
      RenameTakesEffect,
     AllClose, RemoveDestroys DEF Chain!Next
<1> QED BY <1>1, <1>2, <1>3, <1>4 DEF Next

(* Sidecar, tags and overlays implement the chain of versions, when calls  *)
(* do not overlap, the volume has one host and the sidecar can always be   *)
(* looked at: no crash or failure of a commit takes a write out of the     *)
(* version the next guest is shown.                                        *)
THEOREM ImplementsVersionChain ==
  ASSUME OneCall, OneHost, LooksSucceed
  PROVE  Spec => ImplementsChain
<1>1. Init => Chain!Init
  BY InitRefines
<1>2. TypeOK /\ CallInv /\ FileInv /\ SerialInv /\ ChainInv /\ [Next]_vars =>
        [Chain!Next]_(Chain!vars)
  BY StepRefines DEF ChainStart
<1> QED BY <1>1, <1>2, Typed, Files, Serial, OneLine, PTL DEF Spec, ImplementsChain, Chain!Spec
=============================================================================
