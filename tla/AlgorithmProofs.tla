-------------------------- MODULE AlgorithmProofs ---------------------------
(***************************************************************************)
(* The algorithms of the driver.  The copy is exact, for images, disks and *)
(* windows of every size and for every way the reader cuts up what it      *)
(* delivers.  The pure functions, for inputs of any length: the prefix     *)
(* test finds the keys of its volume; a target is cut where the documented *)
(* form says, a snapshot stays in its repository and only local registries *)
(* are reached without TLS; a command line is rewritten in place.  The     *)
(* properties of MCAlgorithms follow for every bound on its inputs.        *)
(***************************************************************************)
EXTENDS MCAlgorithms, SequenceTheorems, FiniteSetTheorems, WellFoundedInduction, TLAPS

-----------------------------------------------------------------------------
(* The copy loop *)

(* A copy onto a disk of `size` bytes.                                     *)
CopySpec(size) == InitOf(size) /\ [][Next]_vars

(* Image and disk are functions on intervals; the disk has its size.       *)
Sized(size) ==
  /\ n \in 0..size
  /\ src \in [1..n -> Bytes]
  /\ dst \in [1..size -> Bytes]

(* What has been read of a window is in the buffer, and nothing else of it *)
(* is looked at: a window is written when all of it has been read.         *)
WindowInv ==
  /\ pc \in {"read", "write"} =>
       /\ off < n /\ got <= m
       /\ \A i \in 1..got : buf[i] = src[off + i]
  /\ pc = "write" => got = m

(* Byte i of the disk is the image's up to the window at hand, and a hole  *)
(* behind; a write that failed may have put the image's there already.     *)
Shown(i) == dst[i] = IF i <= Smaller(off, n) THEN src[i] ELSE 0
Partial(i) == pc = "failed" /\ i \in (off + 1)..(off + m) /\ dst[i] = src[i]
CopiedSoFar == \A i \in DOMAIN dst : Shown(i) \/ Partial(i)

CopyInv(size) ==
  /\ Sized(size) /\ TypeOK
  /\ WindowInv /\ CopiedSoFar
  /\ pc = "done" => off >= n
-----------------------------------------------------------------------------
(* A function on 1..k is a sequence of length k.                           *)
LEMMA IntervalSeq ==
  ASSUME NEW S, NEW k \in Nat, NEW s \in [1..k -> S]
  PROVE  s \in Seq(S) /\ Len(s) = k
OBVIOUS

(* The length of a window that begins inside the image.                    *)
LEMMA WindowLength ==
  ASSUME n \in Nat, off \in Nat, off < n
  PROVE  /\ m \in 1..Win /\ m <= n - off
         /\ Smaller(off, n) = off
         /\ Smaller(off + Win, n) = off + m
BY WinAssumption DEF m, Smaller

(* The invariant holds before the first window.                            *)
LEMMA InitCopyInv == ASSUME NEW size \in Nat, InitOf(size) PROVE CopyInv(size)
<1>1. PICK k \in 0..size : src \in [1..k -> Bytes]
  BY DEF InitOf
<1>2. src \in Seq(Bytes) /\ n = k
  BY <1>1, IntervalSeq DEF n
<1>3. dst \in [1..size -> Bytes] /\ \A i \in 1..size : dst[i] = 0
  BY BytesAssumption DEF InitOf
<1>4. dst \in Seq(Bytes) /\ Len(dst) = size
  BY <1>3, IntervalSeq
<1>5. buf \in [1..Win -> Bytes] /\ off = 0 /\ got = 0 /\ pc = "window"
  BY BytesAssumption DEF InitOf
<1>6. Sized(size) /\ TypeOK
  BY <1>1, <1>2, <1>3, <1>4, <1>5, WinAssumption DEF Sized, TypeOK
<1>7. CopiedSoFar
  BY <1>1, <1>2, <1>3, <1>5 DEF CopiedSoFar, Shown, Smaller
<1> QED BY <1>5, <1>6, <1>7 DEF CopyInv, WindowInv

(* The head of the loop: a window begins empty.                            *)
LEMMA WindowStep ==
  ASSUME NEW size \in Nat, CopyInv(size), Window PROVE CopyInv(size)'
<1>1. Sized(size)' /\ TypeOK'
  BY WinAssumption DEF CopyInv, Sized, TypeOK, Window, n
<1>2. WindowInv'
  BY WindowLength DEF CopyInv, Sized, TypeOK, WindowInv, Window, n, m
<1>3. CopiedSoFar' /\ (pc' = "done" => off' >= n')
  BY DEF CopyInv, Sized, TypeOK, CopiedSoFar, Shown, Partial, Window, n
<1> QED BY <1>1, <1>2, <1>3 DEF CopyInv

(* Bytes that arrive go behind those that are there; only a full window is *)
(* handed on to be written.                                                *)
LEMMA ReadBytesStep ==
  ASSUME NEW size \in Nat, CopyInv(size),
         NEW k \in 0..Win, NEW err \in {"nil", "EOF", "error"}, Read(k, err)
  PROVE  CopyInv(size)'
<1>1. /\ n \in Nat /\ off \in Nat /\ off < n /\ got \in Nat /\ got <= m
      /\ src \in [1..n -> Bytes] /\ buf \in [1..Win -> Bytes]
  BY DEF CopyInv, Sized, TypeOK, WindowInv, Read
<1>2. m \in 1..Win /\ m <= n - off
  BY <1>1, WindowLength
<1>3. k \in 0..(m - got) /\ got' = got + k /\ got' \in 0..Win /\ got' <= m
  <2>1. k \in 0..(m - got) /\ got' = got + k
    BY DEF Read
  <2> QED BY <1>1, <1>2, <2>1, WinAssumption
<1>4. UNCHANGED <<src, dst, off>> /\ n' = n /\ m' = m
  BY DEF Read, n, m
<1>5. buf' \in [1..Win -> Bytes]
  <2>1. \A i \in (got + 1)..(got + k) : src[off + i] \in Bytes
    BY <1>1, <1>2, <1>3
  <2>2. buf' = [i \in 1..Win |->
                 IF i \in (got + 1)..(got + k) THEN src[off + i] ELSE buf[i]]
    BY DEF Read
  <2> QED BY <1>1, <2>1, <2>2
<1>6. \A i \in 1..got' : buf'[i] = src[off + i]
  <2> SUFFICES ASSUME NEW i \in 1..got' PROVE buf'[i] = src[off + i]
    OBVIOUS
  <2>1. i \in 1..Win
    BY <1>3, WinAssumption
  <2>2. CASE i \in (got + 1)..(got + k)
    BY <2>1, <2>2 DEF Read
  <2>3. CASE i \in 1..got
    BY <1>1, <1>3, <2>1, <2>3 DEF Read, CopyInv, WindowInv
  <2> QED BY <1>1, <1>2, <1>3, <2>2, <2>3
<1>7. /\ pc = "read" /\ pc' \in {"read", "write", "failed"}
      /\ pc' = "write" => got' = m
  BY <1>1, <1>3, <1>4 DEF Read
<1>8. Sized(size)' /\ TypeOK'
  BY <1>3, <1>4, <1>5, <1>7 DEF CopyInv, Sized, TypeOK
<1>9. WindowInv'
  BY <1>1, <1>3, <1>4, <1>6, <1>7 DEF WindowInv
<1>10. CopiedSoFar' /\ pc' # "done"
  BY <1>4, <1>7 DEF CopyInv, CopiedSoFar, Shown, Partial
<1> QED BY <1>8, <1>9, <1>10 DEF CopyInv

(* When a window is handed on, the buffer holds that part of the image.    *)
LEMMA FullWindow ==
  ASSUME NEW size \in Nat, CopyInv(size), pc = "write"
  PROVE  /\ n \in 0..size /\ off \in Nat /\ off < n
         /\ m \in 1..Win /\ m <= n - off
         /\ \A i \in 1..m : buf[i] = src[off + i]
         /\ Smaller(off, n) = off /\ Smaller(off + Win, n) = off + m
         /\ \A i \in 1..size : dst[i] = IF i <= off THEN src[i] ELSE 0
         /\ dst \in [1..size -> Bytes] /\ buf \in [1..Win -> Bytes]
         /\ DOMAIN dst = 1..size
<1>1. /\ n \in 0..size /\ off \in Nat /\ off < n /\ got = m
      /\ dst \in [1..size -> Bytes] /\ buf \in [1..Win -> Bytes]
      /\ \A i \in 1..got : buf[i] = src[off + i]
  BY DEF CopyInv, Sized, TypeOK, WindowInv
<1>2. m \in 1..Win /\ m <= n - off /\ Smaller(off, n) = off
        /\ Smaller(off + Win, n) = off + m
  BY <1>1, WindowLength
<1>3. \A i \in DOMAIN dst : dst[i] = IF i <= off THEN src[i] ELSE 0
  BY <1>2 DEF CopyInv, CopiedSoFar, Shown, Partial
<1> QED BY <1>1, <1>2, <1>3

(* A hole is skipped: the disk has holes there already.                    *)
LEMMA SkipStep ==
  ASSUME NEW size \in Nat, CopyInv(size), Skip PROVE CopyInv(size)'
<1>1. pc = "write" /\ pc' = "window" /\ off' = off + Win
        /\ UNCHANGED <<src, dst, buf, got>> /\ n' = n
  BY DEF Skip, n
<1>2. \A i \in 1..m : buf[i] = 0
  BY DEF Skip
<1>3. \A i \in 1..size : dst[i] = IF i <= off + m THEN src[i] ELSE 0
  <2> SUFFICES ASSUME NEW i \in 1..size
               PROVE  dst[i] = IF i <= off + m THEN src[i] ELSE 0
    OBVIOUS
  <2>1. CASE i \in (off + 1)..(off + m)
    <3>1. i - off \in 1..m /\ i = off + (i - off)
      BY <1>1, <2>1, FullWindow
    <3>2. src[i] = 0
      BY <1>1, <1>2, <3>1, FullWindow
    <3> QED BY <1>1, <2>1, <3>2, FullWindow
  <2>2. CASE i \notin (off + 1)..(off + m)
    BY <1>1, <2>2, FullWindow
  <2> QED BY <2>1, <2>2
<1>4. CopiedSoFar'
  BY <1>1, <1>3, FullWindow DEF CopiedSoFar, Shown
<1>5. Sized(size)' /\ TypeOK'
  BY <1>1, WinAssumption DEF CopyInv, Sized, TypeOK
<1> QED BY <1>1, <1>4, <1>5 DEF CopyInv, WindowInv

(* A window is written where it was read.                                  *)
LEMMA WriteStep ==
  ASSUME NEW size \in Nat, CopyInv(size), Write PROVE CopyInv(size)'
<1>1. pc = "write" /\ pc' = "window" /\ off' = off + Win
        /\ UNCHANGED <<src, buf, got>> /\ n' = n
  BY DEF Write, n
<1>2. dst' = [i \in 1..size |->
                IF i \in (off + 1)..(off + m) THEN buf[i - off] ELSE dst[i]]
  BY <1>1, FullWindow DEF Write
<1>3. \A i \in (off + 1)..(off + m) : i - off \in 1..m /\ i = off + (i - off)
  BY <1>1, FullWindow
<1>4. dst' \in [1..size -> Bytes]
  <2>1. \A i \in (off + 1)..(off + m) : buf[i - off] \in Bytes
    <3>1. \A j \in 1..m : buf[j] \in Bytes
      BY <1>1, FullWindow, WinAssumption
    <3> QED BY <1>3, <3>1
  <2>2. \A i \in 1..size : dst[i] \in Bytes
    BY <1>1, FullWindow
  <2> QED BY <1>2, <2>1, <2>2
<1>5. dst' \in Seq(Bytes) /\ Len(dst') = size
  BY <1>4, IntervalSeq
<1>6. \A i \in 1..size : dst'[i] = IF i <= off + m THEN src[i] ELSE 0
  <2> SUFFICES ASSUME NEW i \in 1..size
               PROVE  dst'[i] = IF i <= off + m THEN src[i] ELSE 0
    OBVIOUS
  <2>1. CASE i \in (off + 1)..(off + m)
    <3>1. dst'[i] = buf[i - off]
      BY <1>2, <2>1
    <3>2. buf[i - off] = src[off + (i - off)]
      BY <1>1, <1>3, <2>1, FullWindow
    <3> QED BY <1>1, <1>3, <2>1, <3>1, <3>2, FullWindow
  <2>2. CASE i \notin (off + 1)..(off + m)
    <3>1. dst'[i] = dst[i]
      BY <1>2, <2>2
    <3> QED BY <1>1, <2>2, <3>1, FullWindow
  <2> QED BY <2>1, <2>2
<1>7. CopiedSoFar'
  BY <1>1, <1>4, <1>6, FullWindow DEF CopiedSoFar, Shown
<1>8. Sized(size)' /\ TypeOK'
  BY <1>1, <1>4, <1>5, FullWindow, WinAssumption DEF CopyInv, Sized, TypeOK
<1> QED BY <1>1, <1>7, <1>8 DEF CopyInv, WindowInv

(* A write that fails puts nothing but the image's bytes in the window.    *)
LEMMA WriteFailsStep ==
  ASSUME NEW size \in Nat, CopyInv(size), WriteFails PROVE CopyInv(size)'
<1>1. /\ pc = "write" /\ pc' = "failed"
      /\ UNCHANGED <<src, buf, off, got>> /\ n' = n /\ m' = m
  BY DEF WriteFails, n, m
<1>2. PICK W \in SUBSET (1..m) :
        dst' = [i \in 1..size |-> IF i - off \in W THEN buf[i - off] ELSE dst[i]]
  BY <1>1, FullWindow DEF WriteFails
<1>3. \A j \in 1..m : buf[j] = src[off + j] /\ src[off + j] \in Bytes
  <2>1. \A j \in 1..m : buf[j] \in Bytes
    BY <1>1, FullWindow, WinAssumption
  <2> QED BY <1>1, <2>1, FullWindow
<1>4. \A i \in 1..size :
        \/ dst'[i] = dst[i]
        \/ i \in (off + 1)..(off + m) /\ dst'[i] = src[i] /\ src[i] \in Bytes
  <2> SUFFICES ASSUME NEW i \in 1..size, i - off \in W
               PROVE  /\ i \in (off + 1)..(off + m)
                      /\ dst'[i] = src[i] /\ src[i] \in Bytes
    BY <1>2
  <2>1. i - off \in 1..m /\ i = off + (i - off)
    BY <1>1, FullWindow
  <2> QED BY <1>1, <1>2, <1>3, <2>1, FullWindow
<1>5. dst' \in [1..size -> Bytes]
  <2>1. \A i \in 1..size : dst'[i] \in Bytes
    BY <1>1, <1>4, FullWindow
  <2> QED BY <1>2, <2>1
<1>6. dst' \in Seq(Bytes) /\ Len(dst') = size /\ DOMAIN dst' = 1..size
  BY <1>5, IntervalSeq
<1>7. CopiedSoFar'
  <2>1. DOMAIN dst = 1..size /\ \A i \in 1..size : Shown(i)
    BY <1>1, FullWindow DEF Shown
  <2> QED BY <1>1, <1>4, <1>6, <2>1 DEF CopiedSoFar, Shown, Partial
<1>8. Sized(size)' /\ TypeOK'
  BY <1>1, <1>5, <1>6 DEF CopyInv, Sized, TypeOK
<1> QED BY <1>1, <1>7, <1>8 DEF CopyInv, WindowInv

(* Every step keeps the invariant.                                         *)
LEMMA NextCopyInv ==
  ASSUME NEW size \in Nat, CopyInv(size), [Next]_vars PROVE CopyInv(size)'
<1>1. CASE Window
  BY <1>1, WindowStep
<1>2. CASE Skip
  BY <1>2, SkipStep
<1>3. CASE Write
  BY <1>3, WriteStep
<1>4. CASE WriteFails
  BY <1>4, WriteFailsStep
<1>5. ASSUME NEW k \in 0..Win, NEW err \in {"nil", "EOF", "error"}, Read(k, err)
      PROVE  CopyInv(size)'
  BY <1>5, ReadBytesStep
<1>6. CASE UNCHANGED vars
  BY <1>6 DEF vars, CopyInv, Sized, TypeOK, WindowInv, CopiedSoFar, Shown, Partial, n, m
<1> QED BY <1>1, <1>2, <1>3, <1>4, <1>5, <1>6 DEF Next

(* The invariant gives the property: a copy that is done has passed the    *)
(* end of the image.                                                       *)
LEMMA CopyInvImplies ==
  ASSUME NEW size \in Nat, CopyInv(size) PROVE TypeOK /\ CopyExact
<1>1. pc = "done" => Smaller(off, n) = n
  BY DEF CopyInv, Sized, TypeOK, Smaller
<1> QED BY <1>1 DEF CopyInv, CopiedSoFar, Shown, Partial, CopyExact

(* The invariant holds in every state of a copy.                           *)
LEMMA CopyInductive == ASSUME NEW size \in Nat PROVE CopySpec(size) => []CopyInv(size)
<1>1. InitOf(size) => CopyInv(size)
  BY InitCopyInv
<1>2. CopyInv(size) /\ [Next]_vars => CopyInv(size)'
  BY NextCopyInv
<1> QED BY <1>1, <1>2, PTL DEF CopySpec

(* copyDevice keeps to image, disk and buffer: the disk keeps its size.    *)
THEOREM CopyTypeCorrect == ASSUME NEW size \in Nat PROVE CopySpec(size) => []TypeOK
<1>1. CopyInv(size) => TypeOK
  BY CopyInvImplies
<1> QED BY <1>1, CopyInductive, PTL

(* copyDevice copies the image byte by byte and leaves the rest of the     *)
(* disk blank, for images, disks and windows of any size; where it fails,  *)
(* the window at hand holds bytes of the image and holes, in place.        *)
THEOREM CopyIsExact == ASSUME NEW size \in Nat PROVE CopySpec(size) => []CopyExact
<1>1. CopyInv(size) => CopyExact
  BY CopyInvImplies
<1> QED BY <1>1, CopyInductive, PTL

-----------------------------------------------------------------------------
(* Attachment keys *)

(* Where the characters of a key come from. *)
LEMMA KeyShape ==
  ASSUME NEW u \in Seq(Chars), NEW h \in Seq(Chars)
  PROVE  /\ attachKey(u, h) \in Seq(Chars)
         /\ Len(attachKey(u, h)) = Len(u) + 1 + Len(h)
         /\ \A i \in 1..Len(u) : attachKey(u, h)[i] = u[i]
         /\ attachKey(u, h)[Len(u) + 1] = Bar
         /\ \A i \in 1..Len(h) : attachKey(u, h)[Len(u) + 1 + i] = h[i]
  BY BarAssumption DEF attachKey

(* The prefix test, character by character. *)
LEMMA PrefixShape ==
  ASSUME NEW u \in Seq(Chars), NEW key \in Seq(Chars)
  PROVE  hasVolumePrefix(key, u) <=>
           /\ Len(key) > Len(u)
           /\ \A i \in 1..Len(u) : key[i] = u[i]
           /\ key[Len(u) + 1] = Bar
  BY DEF hasVolumePrefix

(* DestroyVolume and liveOverlay find exactly the volume's exports.        *)
THEOREM PrefixFindsVolume ==
  \A u, w, h \in Seq(Chars) : PrefixMeansVolume(u, w, h)
<1> SUFFICES ASSUME NEW u \in Seq(Chars), NEW w \in Seq(Chars), NEW h \in Seq(Chars),
                    Plain(u), Plain(w)
             PROVE  hasVolumePrefix(attachKey(w, h), u) <=> u = w
  BY DEF PrefixMeansVolume
<1> DEFINE key == attachKey(w, h)
<1>1. /\ key \in Seq(Chars)
      /\ Len(key) = Len(w) + 1 + Len(h)
      /\ \A i \in 1..Len(w) : key[i] = w[i]
      /\ key[Len(w) + 1] = Bar
  BY KeyShape
<1>2. ASSUME u = w PROVE hasVolumePrefix(key, u)
  <2> HIDE DEF key
  <2>1. Len(u) \in Nat /\ Len(h) \in Nat
    OBVIOUS
  <2>2. Len(key) > Len(u)
    BY <1>1, <1>2, <2>1
  <2>3. key[Len(u) + 1] = Bar /\ \A i \in 1..Len(u) : key[i] = u[i]
    BY ONLY <1>1, <1>2
  <2> QED BY <1>1, <2>2, <2>3, PrefixShape
<1>3. ASSUME hasVolumePrefix(key, u) PROVE u = w
  <2>1. /\ Len(key) > Len(u)
        /\ \A i \in 1..Len(u) : key[i] = u[i]
        /\ key[Len(u) + 1] = Bar
    BY <1>1, <1>3, PrefixShape
  <2>2. Len(u) \in Nat /\ Len(w) \in Nat
    OBVIOUS
  <2>3. ~(Len(u) < Len(w))
    <3> SUFFICES ASSUME Len(u) < Len(w) PROVE FALSE
      OBVIOUS
    <3>1. Len(u) + 1 \in 1..Len(w)
      BY <2>2
    <3>2. w[Len(u) + 1] = Bar
      BY <3>1, <1>1, <2>1
    <3> QED BY <3>1, <3>2 DEF Plain
  <2>4. ~(Len(w) < Len(u))
    <3> SUFFICES ASSUME Len(w) < Len(u) PROVE FALSE
      OBVIOUS
    <3>1. Len(w) + 1 \in 1..Len(u)
      BY <2>2
    <3>2. u[Len(w) + 1] = Bar
      BY <3>1, <1>1, <2>1
    <3> QED BY <3>1, <3>2 DEF Plain
  <2>5. Len(u) = Len(w)
    BY <2>2, <2>3, <2>4
  <2> QED BY <1>1, <2>1, <2>5, SeqEqual
<1> QED BY <1>2, <1>3

(* No two attachments share an entry of v.servers.                         *)
THEOREM KeyIsInjective ==
  \A u, g, w, h \in Seq(Chars) : KeysDiffer(u, g, w, h)
<1> SUFFICES ASSUME NEW u \in Seq(Chars), NEW g \in Seq(Chars),
                    NEW w \in Seq(Chars), NEW h \in Seq(Chars),
                    Plain(u), Plain(w), attachKey(u, g) = attachKey(w, h)
             PROVE  u = w /\ g = h
  BY DEF KeysDiffer
<1>1. hasVolumePrefix(attachKey(u, g), u)
  BY PrefixFindsVolume DEF PrefixMeansVolume
<1>2. u = w
  BY <1>1, PrefixFindsVolume DEF PrefixMeansVolume
<1>3. attachKey(u, g) = attachKey(u, h)
  BY <1>2, Zenon
<1>4. /\ Len(attachKey(u, g)) = Len(u) + 1 + Len(g)
      /\ \A i \in 1..Len(g) : attachKey(u, g)[Len(u) + 1 + i] = g[i]
  BY KeyShape
<1>5. /\ Len(attachKey(u, g)) = Len(u) + 1 + Len(h)
      /\ \A i \in 1..Len(h) : attachKey(u, g)[Len(u) + 1 + i] = h[i]
  <2>1. /\ Len(attachKey(u, h)) = Len(u) + 1 + Len(h)
        /\ \A i \in 1..Len(h) : attachKey(u, h)[Len(u) + 1 + i] = h[i]
    BY KeyShape
  <2> QED BY <1>3, <2>1
<1>6. Len(g) = Len(h)
  <2>1. Len(u) \in Nat /\ Len(g) \in Nat /\ Len(h) \in Nat
    OBVIOUS
  <2> QED BY <1>4, <1>5, <2>1
<1>7. \A i \in 1..Len(g) : g[i] = h[i]
  BY <1>4, <1>5, <1>6
<1>8. g = h
  BY <1>6, <1>7, SeqEqual
<1> QED BY <1>2, <1>8

-----------------------------------------------------------------------------
(* The first and the last of a separator, and parts of sequences *)

(* A set of numbers that is not empty has a least one. *)
LEMMA Least ==
  ASSUME NEW I \in SUBSET Nat, I # {}
  PROVE  Min(I) \in I /\ \A k \in I : Min(I) <= k
<1> DEFINE R == {ss \in Nat \X Nat : ss[1] < ss[2]}
<1>1. IsWellFoundedOn(R, Nat)
  BY NatLessThanWellFounded, Zenon DEF OpToRel
<1>2. PICK x \in I : \A y \in I : <<y, x>> \notin R
  <2> HIDE DEF R
  <2> QED BY <1>1, WFMin, Zenon
<1>3. \A y \in I : x <= y
  <2> SUFFICES ASSUME NEW y \in I, y < x PROVE FALSE
    OBVIOUS
  <2>1. <<y, x>> \in R
    OBVIOUS
  <2> QED BY <2>1, <1>2
<1> QED BY <1>3, Zenon DEF Min

(* One that is bounded too has a greatest. *)
LEMMA Greatest ==
  ASSUME NEW b \in Nat, NEW I \in SUBSET (1..b), I # {}
  PROVE  Max(I) \in I /\ \A k \in I : k <= Max(I)
<1> DEFINE J == {b - k : k \in I}
<1>1. J \in SUBSET Nat /\ J # {}
  <2>1. \A k \in I : b - k \in Nat
    OBVIOUS
  <2> QED BY <2>1
<1>2. Min(J) \in J /\ \A k \in J : Min(J) <= k
  BY <1>1, Least
<1>3. PICK x \in I : Min(J) = b - x
  BY <1>2
<1>4. \A y \in I : x >= y
  BY <1>2, <1>3
<1>5. \A y \in I : Max(I) >= y /\ Max(I) \in I
  BY <1>4, Zenon DEF Max
<1> QED BY <1>4, <1>5

(* strings.IndexByte: the first c in s, or 0. *)
LEMMA IndexOfIsFirst ==
  ASSUME NEW S, NEW s \in Seq(S), NEW c
  PROVE  /\ ~Has(s, c) => IndexOf(s, c) = 0
         /\ Has(s, c) => /\ IndexOf(s, c) \in 1..Len(s) /\ s[IndexOf(s, c)] = c
                         /\ \A k \in 1..Len(s) : s[k] = c => IndexOf(s, c) <= k
<1> DEFINE I == {i \in 1..Len(s) : s[i] = c}
<1>1. IndexOf(s, c) = IF I # {} THEN Min(I) ELSE 0
  BY DEF IndexOf, SelectInSeq
<1>2. Has(s, c) <=> I # {}
  BY DEF Has
<1>3. Has(s, c) => Min(I) \in I /\ \A k \in I : Min(I) <= k
  <2>1. I \in SUBSET Nat
    OBVIOUS
  <2> QED BY <2>1, <1>2, Least
<1> QED BY <1>1, <1>2, <1>3

(* strings.LastIndexByte: the last c in s, or 0. *)
LEMMA LastIndexOfIsLast ==
  ASSUME NEW S, NEW s \in Seq(S), NEW c
  PROVE  /\ ~Has(s, c) => LastIndexOf(s, c) = 0
         /\ Has(s, c) => /\ LastIndexOf(s, c) \in 1..Len(s) /\ s[LastIndexOf(s, c)] = c
                         /\ \A k \in 1..Len(s) : s[k] = c => k <= LastIndexOf(s, c)
<1> DEFINE I == {i \in 1..Len(s) : s[i] = c}
<1>1. LastIndexOf(s, c) = IF I # {} THEN Max(I) ELSE 0
  BY DEF LastIndexOf, SelectLastInSeq
<1>2. Has(s, c) <=> I # {}
  BY DEF Has
<1>3. Has(s, c) => Max(I) \in I /\ \A k \in I : k <= Max(I)
  <2>1. Len(s) \in Nat /\ I \in SUBSET (1..Len(s))
    OBVIOUS
  <2> QED BY <2>1, <1>2, Greatest
<1> QED BY <1>1, <1>2, <1>3

(* A separator found in s where there is no earlier one is the first. *)
LEMMA IndexOfAt ==
  ASSUME NEW S, NEW s \in Seq(S), NEW c, NEW i \in 1..Len(s), s[i] = c,
         \A k \in 1..i-1 : s[k] # c
  PROVE  IndexOf(s, c) = i
<1>1. Has(s, c)
  BY DEF Has
<1> QED BY <1>1, IndexOfIsFirst

(* One that no other follows is the last. *)
LEMMA LastIndexOfAt ==
  ASSUME NEW S, NEW s \in Seq(S), NEW c, NEW i \in 1..Len(s), s[i] = c,
         \A k \in i+1..Len(s) : s[k] # c
  PROVE  LastIndexOf(s, c) = i
<1>1. Has(s, c)
  BY DEF Has
<1> QED BY <1>1, LastIndexOfIsLast

(* A part of a sequence, element by element. *)
LEMMA Part ==
  ASSUME NEW S, NEW s \in Seq(S), NEW i \in Nat, NEW j \in Nat,
         1 <= i, i <= j + 1, j <= Len(s)
  PROVE  /\ SubSeq(s, i, j) \in Seq(S)
         /\ Len(SubSeq(s, i, j)) = j + 1 - i
         /\ \A k \in 1..j + 1 - i : SubSeq(s, i, j)[k] = s[i - 1 + k]
  BY SubSeqProperties

(* What follows a place, element by element. *)
LEMMA Rest ==
  ASSUME NEW S, NEW s \in Seq(S), NEW i \in Nat, i <= Len(s)
  PROVE  /\ After(s, i) \in Seq(S)
         /\ Len(After(s, i)) = Len(s) - i
         /\ \A k \in 1..Len(s) - i : After(s, i)[k] = s[i + k]
<1>1. /\ i + 1 \in Nat /\ Len(s) \in Nat /\ 1 <= i + 1 /\ i + 1 <= Len(s) + 1
      /\ Len(s) + 1 - (i + 1) = Len(s) - i /\ i + 1 - 1 = i
  OBVIOUS
<1> QED BY <1>1, Part DEF After

(* A part of a part. *)
LEMMA PartOfPart ==
  ASSUME NEW S, NEW s \in Seq(S), NEW i \in Nat, NEW j \in Nat,
         1 <= i, i <= j + 1, j <= Len(s),
         NEW a \in Nat, NEW b \in Nat, 1 <= a, a <= b + 1, b <= j + 1 - i
  PROVE  SubSeq(SubSeq(s, i, j), a, b) = SubSeq(s, i - 1 + a, i - 1 + b)
<1> DEFINE p == SubSeq(s, i, j)
           l == SubSeq(p, a, b)
           r == SubSeq(s, i - 1 + a, i - 1 + b)
<1>1. p \in Seq(S) /\ Len(p) = j + 1 - i /\ \A k \in 1..j + 1 - i : p[k] = s[i - 1 + k]
  BY Part
<1>2. l \in Seq(S) /\ Len(l) = b + 1 - a /\ \A k \in 1..b + 1 - a : l[k] = p[a - 1 + k]
  BY <1>1, Part
<1>3. r \in Seq(S) /\ Len(r) = b + 1 - a /\ \A k \in 1..b + 1 - a : r[k] = s[i - 1 + a - 1 + k]
  <2>1. /\ i - 1 + a \in Nat /\ i - 1 + b \in Nat
        /\ i - 1 + b + 1 - (i - 1 + a) = b + 1 - a
        /\ \A k \in 1..b + 1 - a : (i - 1 + a) - 1 + k = i - 1 + a - 1 + k
    OBVIOUS
  <2> QED BY <2>1, Part
<1>4. \A k \in 1..b + 1 - a : l[k] = r[k]
  BY <1>1, <1>2, <1>3
<1> HIDE DEF l, r
<1> QED BY <1>2, <1>3, <1>4, SeqEqual


-----------------------------------------------------------------------------
(* References to images *)

(* oci:// is four elements here. *)
LEMMA SchemeLength == Len(Scheme) = 4
  BY DEF Scheme

(* The places that are a cut of t into host, repository and tag. *)
LEMMA CutAt ==
  ASSUME NEW t, NEW i \in 1..Len(t), NEW j \in 1..Len(t),
         IsPrefix(Scheme, t), 5 < i, i + 1 < j, j < Len(t), t[i] = Slash, t[j] = Colon,
         ~Has(SubSeq(t, 5, i - 1), Slash), ~Has(After(t, j), Colon)
  PROVE  <<i, j>> \in Cuts(t)
  BY SchemeLength DEF Cuts

(* parseOCITarget at a place where t can be cut. *)
LEMMA ParsedAtCut ==
  ASSUME NEW S, NEW t \in Seq(S), NEW cut \in Cuts(t)
  PROVE  /\ parseOCITarget(t) = [host |-> SubSeq(t, Len(Scheme) + 1, cut[1] - 1),
                                 http |-> hostIsLocal(SubSeq(t, Len(Scheme) + 1, cut[1] - 1)),
                                 repo |-> SubSeq(t, cut[1] + 1, cut[2] - 1),
                                 tag  |-> After(t, cut[2])]
         /\ SubSeq(t, Len(Scheme) + 1, cut[1] - 1) # <<>>
<1> DEFINE rest == After(t, Len(Scheme))
           slash == IndexOf(rest, Slash)
           path == After(rest, slash)
           colon == LastIndexOf(path, Colon)
           i == cut[1]
           j == cut[2]
<1>1. /\ i \in Nat /\ j \in Nat /\ Len(t) \in Nat
      /\ IsPrefix(Scheme, t)
      /\ 5 < i /\ i + 1 < j /\ j < Len(t)
      /\ t[i] = Slash /\ t[j] = Colon
      /\ ~Has(SubSeq(t, 5, i - 1), Slash)
      /\ ~Has(After(t, j), Colon)
  BY SchemeLength DEF Cuts
<1> HIDE DEF i, j
<1>2. /\ rest = SubSeq(t, 5, Len(t)) /\ rest \in Seq(S) /\ Len(rest) = Len(t) - 4
      /\ \A k \in 1..Len(t) - 4 : rest[k] = t[4 + k]
  BY <1>1, Part, SchemeLength DEF After
<1>3. slash = i - 4
  <2>1. /\ Len(SubSeq(t, 5, i - 1)) = i - 5
        /\ \A k \in 1..i - 5 : SubSeq(t, 5, i - 1)[k] = t[4 + k]
    <3>1. i - 1 \in Nat /\ 5 <= (i - 1) + 1 /\ i - 1 <= Len(t)
      BY <1>1
    <3> QED BY <1>1, <3>1, Part
  <2>2. \A k \in 1..i - 5 : t[4 + k] # Slash
    BY <1>1, <2>1 DEF Has
  <2>3. i - 4 \in 1..Len(rest) /\ rest[i - 4] = Slash
    BY <1>1, <1>2
  <2>4. \A k \in 1..(i - 4) - 1 : rest[k] # Slash
    BY <1>1, <1>2, <2>2
  <2> HIDE DEF rest
  <2> QED BY <1>2, <2>3, <2>4, IndexOfAt
<1> HIDE DEF rest, slash
<1>4. /\ path = SubSeq(t, i + 1, Len(t)) /\ path \in Seq(S) /\ Len(path) = Len(t) - i
      /\ \A k \in 1..Len(t) - i : path[k] = t[i + k]
  <2>1. path = SubSeq(rest, i - 3, Len(t) - 4)
    BY <1>1, <1>2, <1>3 DEF After
  <2>2. path = SubSeq(t, i + 1, Len(t))
    <3>1. /\ 5 \in Nat /\ i - 3 \in Nat /\ Len(t) - 4 \in Nat /\ 5 <= Len(t) + 1
          /\ 1 <= i - 3 /\ i - 3 <= (Len(t) - 4) + 1 /\ Len(t) - 4 <= Len(t) + 1 - 5
          /\ 5 - 1 + (i - 3) = i + 1 /\ 5 - 1 + (Len(t) - 4) = Len(t)
      BY <1>1
    <3>2. SubSeq(SubSeq(t, 5, Len(t)), i - 3, Len(t) - 4)
            = SubSeq(t, 5 - 1 + (i - 3), 5 - 1 + (Len(t) - 4))
      BY <1>1, <3>1, PartOfPart
    <3> QED BY <1>2, <2>1, <3>1, <3>2
  <2>3. i + 1 \in Nat /\ 1 <= i + 1 /\ i + 1 <= Len(t) + 1
    BY <1>1
  <2> QED BY <1>1, <2>2, <2>3, Part
<1>5. colon = j - i
  <2>1. /\ Len(After(t, j)) = Len(t) - j
        /\ \A k \in 1..Len(t) - j : After(t, j)[k] = t[j + k]
    <3>1. j \in Nat /\ j <= Len(t)
      BY <1>1
    <3> QED BY <3>1, Rest
  <2>2. \A k \in 1..Len(t) - j : t[j + k] # Colon
    BY <1>1, <2>1 DEF Has
  <2>3. j - i \in 1..Len(path) /\ path[j - i] = Colon
    BY <1>1, <1>4
  <2>4. \A k \in (j - i) + 1..Len(path) : path[k] # Colon
    <3> SUFFICES ASSUME NEW k \in (j - i) + 1..Len(path) PROVE path[k] # Colon
      OBVIOUS
    <3>1. k - (j - i) \in 1..Len(t) - j /\ j + (k - (j - i)) = i + k
      BY <1>1, <1>4
    <3>2. t[j + (k - (j - i))] # Colon
      BY <2>2, <3>1
    <3>3. k \in 1..Len(t) - i
      BY <1>1, <1>4
    <3> QED BY <1>4, <3>1, <3>2, <3>3
  <2> HIDE DEF path
  <2> QED BY <1>4, <2>3, <2>4, LastIndexOfAt
<1> HIDE DEF path, colon
<1>6. Before(rest, slash) = SubSeq(t, 5, i - 1) /\ SubSeq(t, 5, i - 1) # <<>>
  <2>1. /\ 5 \in Nat /\ 1 \in Nat /\ i - 5 \in Nat /\ 5 <= Len(t) + 1
        /\ 1 <= (i - 5) + 1 /\ i - 5 <= Len(t) + 1 - 5
        /\ 5 - 1 + 1 = 5 /\ 5 - 1 + (i - 5) = i - 1 /\ slash - 1 = i - 5
    BY <1>1, <1>3
  <2>2. SubSeq(SubSeq(t, 5, Len(t)), 1, i - 5) = SubSeq(t, 5 - 1 + 1, 5 - 1 + (i - 5))
    BY <1>1, <2>1, PartOfPart
  <2>3. Len(SubSeq(t, 5, i - 1)) = i - 5
    <3>1. i - 1 \in Nat /\ 5 <= (i - 1) + 1 /\ i - 1 <= Len(t)
      BY <1>1
    <3> QED BY <1>1, <3>1, Part
  <2>4. Before(rest, slash) = SubSeq(t, 5, i - 1)
    BY <1>2, <2>1, <2>2 DEF Before
  <2> QED BY <1>1, <2>3, <2>4
<1>7. Before(path, colon) = SubSeq(t, i + 1, j - 1) /\ SubSeq(t, i + 1, j - 1) # <<>>
  <2>1. /\ i + 1 \in Nat /\ 1 \in Nat /\ j - i - 1 \in Nat /\ i + 1 <= Len(t) + 1
        /\ 1 <= (j - i - 1) + 1 /\ j - i - 1 <= Len(t) + 1 - (i + 1) /\ 1 <= i + 1
        /\ i + 1 - 1 + 1 = i + 1 /\ i + 1 - 1 + (j - i - 1) = j - 1 /\ colon - 1 = j - i - 1
    BY <1>1, <1>5
  <2>2. SubSeq(SubSeq(t, i + 1, Len(t)), 1, j - i - 1)
          = SubSeq(t, i + 1 - 1 + 1, i + 1 - 1 + (j - i - 1))
    BY <1>1, <2>1, PartOfPart
  <2>3. Len(SubSeq(t, i + 1, j - 1)) = j - i - 1
    <3>1. j - 1 \in Nat /\ i + 1 <= (j - 1) + 1 /\ j - 1 <= Len(t) /\ (j - 1) + 1 - (i + 1) = j - i - 1
      BY <1>1
    <3> QED BY <1>1, <2>1, <3>1, Part
  <2>4. Before(path, colon) = SubSeq(t, i + 1, j - 1)
    BY <1>4, <2>1, <2>2 DEF Before
  <2> QED BY <1>1, <2>3, <2>4
<1>8. After(path, colon) = After(t, j) /\ After(t, j) # <<>>
  <2>1. /\ i + 1 \in Nat /\ j - i + 1 \in Nat /\ Len(t) - i \in Nat /\ i + 1 <= Len(t) + 1
        /\ 1 <= j - i + 1 /\ j - i + 1 <= Len(t) - i + 1 /\ 1 <= i + 1
        /\ Len(t) - i <= Len(t) + 1 - (i + 1)
        /\ i + 1 - 1 + (j - i + 1) = j + 1 /\ i + 1 - 1 + (Len(t) - i) = Len(t)
        /\ colon + 1 = j - i + 1
    BY <1>1, <1>5
  <2>2. SubSeq(SubSeq(t, i + 1, Len(t)), j - i + 1, Len(t) - i)
          = SubSeq(t, i + 1 - 1 + (j - i + 1), i + 1 - 1 + (Len(t) - i))
    BY <1>1, <2>1, PartOfPart
  <2>3. Len(After(t, j)) = Len(t) - j
    BY <1>1, Rest
  <2>4. After(path, colon) = After(t, j)
    BY <1>4, <2>1, <2>2 DEF After
  <2> QED BY <1>1, <2>3, <2>4
<1>9. slash # 0 /\ colon # 0
  BY <1>1, <1>3, <1>5
<1>10. parseOCITarget(t) =
         IF /\ IsPrefix(Scheme, t)
            /\ slash # 0 /\ colon # 0
            /\ <<>> \notin {Before(rest, slash), Before(path, colon), After(path, colon)}
         THEN [host |-> Before(rest, slash), http |-> hostIsLocal(Before(rest, slash)),
               repo |-> Before(path, colon), tag |-> After(path, colon)]
         ELSE Refused
  BY DEF parseOCITarget, rest, slash, path, colon
<1>11. parseOCITarget(t) =
         [host |-> Before(rest, slash), http |-> hostIsLocal(Before(rest, slash)),
          repo |-> Before(path, colon), tag |-> After(path, colon)]
  BY ONLY <1>1, <1>6, <1>7, <1>8, <1>9, <1>10
<1> QED BY <1>1, <1>6, <1>7, <1>8, <1>9, <1>11, SchemeLength DEF i, j

(* What parseOCITarget accepts can be cut. *)
LEMMA AcceptedHasCut ==
  ASSUME NEW S, NEW t \in Seq(S), parseOCITarget(t) # Refused
  PROVE  Cuts(t) # {}
<1> DEFINE rest == After(t, Len(Scheme))
           slash == IndexOf(rest, Slash)
           path == After(rest, slash)
           colon == LastIndexOf(path, Colon)
           i == 4 + slash
           j == 4 + slash + colon
<1>1. /\ IsPrefix(Scheme, t)
      /\ slash # 0 /\ colon # 0
      /\ Before(rest, slash) # <<>> /\ Before(path, colon) # <<>> /\ After(path, colon) # <<>>
  BY DEF parseOCITarget
<1>2. Len(t) \in Nat /\ 4 <= Len(t)
  BY <1>1, SchemeLength DEF IsPrefix
<1>3. /\ rest \in Seq(S) /\ Len(rest) = Len(t) - 4
      /\ \A k \in 1..Len(t) - 4 : rest[k] = t[4 + k]
  BY <1>2, Rest, SchemeLength
<1> HIDE DEF rest
<1>4. /\ slash \in 1..Len(t) - 4 /\ rest[slash] = Slash
      /\ \A k \in 1..Len(t) - 4 : rest[k] = Slash => slash <= k
  BY <1>1, <1>3, IndexOfIsFirst
<1> HIDE DEF slash
<1>5. /\ path \in Seq(S) /\ Len(path) = Len(t) - 4 - slash
      /\ \A k \in 1..Len(t) - 4 - slash : path[k] = rest[slash + k]
  <2>1. rest \in Seq(S) /\ slash \in Nat /\ slash <= Len(rest)
    BY <1>2, <1>3, <1>4
  <2>2. /\ path \in Seq(S) /\ Len(path) = Len(rest) - slash
        /\ \A k \in 1..Len(rest) - slash : path[k] = rest[slash + k]
    BY <2>1, Rest
  <2> HIDE DEF path
  <2> QED BY <1>3, <2>2
<1> HIDE DEF path
<1>6. /\ colon \in 1..Len(t) - 4 - slash /\ path[colon] = Colon
      /\ \A k \in 1..Len(t) - 4 - slash : path[k] = Colon => k <= colon
  BY <1>1, <1>5, LastIndexOfIsLast
<1> HIDE DEF colon
<1>7. slash > 1 /\ colon > 1 /\ colon < Len(t) - 4 - slash
  <2>1. slash # 1
    BY <1>1, SubSeqEmpty DEF Before
  <2>2. colon # 1
    BY <1>1, SubSeqEmpty DEF Before
  <2>3. colon # Len(path)
    <3>1. Len(path) \in Nat
      BY <1>5
    <3> QED BY <1>1, <3>1, SubSeqEmpty DEF After
  <2>4. /\ slash \in 1..Len(t) - 4 /\ colon \in 1..Len(t) - 4 - slash
        /\ Len(path) = Len(t) - 4 - slash
    BY <1>4, <1>5, <1>6
  <2> QED BY <1>2, <2>1, <2>2, <2>3, <2>4
<1>8. /\ i \in 1..Len(t) /\ j \in 1..Len(t)
      /\ 5 < i /\ i + 1 < j /\ j < Len(t)
  BY <1>2, <1>4, <1>6, <1>7
<1>9. t[i] = Slash /\ t[j] = Colon
  <2>1. slash + colon \in 1..Len(t) - 4 /\ 4 + (slash + colon) = j
    BY <1>2, <1>4, <1>6
  <2> QED BY <1>3, <1>4, <1>5, <1>6, <2>1
<1> HIDE DEF i, j
<1>10. ~Has(SubSeq(t, 5, i - 1), Slash)
  <2> SUFFICES ASSUME NEW k \in 1..Len(SubSeq(t, 5, i - 1)), SubSeq(t, 5, i - 1)[k] = Slash
               PROVE  FALSE
    BY DEF Has
  <2>1. /\ Len(SubSeq(t, 5, i - 1)) = i - 5
        /\ \A q \in 1..i - 5 : SubSeq(t, 5, i - 1)[q] = t[4 + q]
    <3>1. i - 1 \in Nat /\ 5 <= (i - 1) + 1 /\ i - 1 <= Len(t)
      BY <1>2, <1>8
    <3> QED BY <1>2, <1>8, <3>1, Part
  <2>2. k \in 1..slash - 1 /\ k \in 1..Len(t) - 4
    BY <1>2, <1>4, <2>1 DEF i
  <2>3. rest[k] = Slash
    BY <1>3, <2>1, <2>2 DEF i
  <2> QED BY <1>4, <2>2, <2>3
<1>11. ~Has(After(t, j), Colon)
  <2> SUFFICES ASSUME NEW k \in 1..Len(After(t, j)), After(t, j)[k] = Colon
               PROVE  FALSE
    BY DEF Has
  <2>1. /\ Len(After(t, j)) = Len(t) - j
        /\ \A q \in 1..Len(t) - j : After(t, j)[q] = t[j + q]
    <3>1. j \in Nat /\ j <= Len(t)
      BY <1>2, <1>8
    <3> QED BY <3>1, Rest
  <2>2. /\ colon + k \in 1..Len(t) - 4 - slash /\ slash + (colon + k) \in 1..Len(t) - 4
        /\ 4 + (slash + (colon + k)) = j + k /\ k \in 1..Len(t) - j
    BY <1>2, <1>4, <1>6, <2>1 DEF j
  <2>3. path[colon + k] = Colon
    <3>1. path[colon + k] = rest[slash + (colon + k)]
      BY <1>5, <2>2
    <3>2. rest[slash + (colon + k)] = t[j + k]
      BY <1>3, <2>2
    <3> QED BY <2>1, <2>2, <3>1, <3>2
  <2> QED BY <1>6, <2>2, <2>3
<1>12. <<i, j>> \in Cuts(t)
  BY <1>1, <1>8, <1>9, <1>10, <1>11, CutAt
<1> QED BY <1>12

(* parseOCITarget accepts exactly oci://host/repo:tag, and cuts it there.  *)
THEOREM TargetsAreParsed ==
  \A S : \A t \in Seq(S) : ParsesAsDocumented(t)
<1> SUFFICES ASSUME NEW S, NEW t \in Seq(S) PROVE ParsesAsDocumented(t)
  OBVIOUS
<1> DEFINE p == parseOCITarget(t)
<1>1. ASSUME NEW cut \in Cuts(t)
      PROVE  /\ p.host = SubSeq(t, Len(Scheme) + 1, cut[1] - 1)
             /\ p.repo = SubSeq(t, cut[1] + 1, cut[2] - 1)
             /\ p.tag = After(t, cut[2])
             /\ p.host # <<>>
  <2>1. cut \in Cuts(t)
    BY <1>1
  <2> HIDE DEF p
  <2>2. /\ p = [host |-> SubSeq(t, Len(Scheme) + 1, cut[1] - 1),
                http |-> hostIsLocal(SubSeq(t, Len(Scheme) + 1, cut[1] - 1)),
                repo |-> SubSeq(t, cut[1] + 1, cut[2] - 1),
                tag  |-> After(t, cut[2])]
        /\ SubSeq(t, Len(Scheme) + 1, cut[1] - 1) # <<>>
    BY <2>1, ParsedAtCut, Zenon DEF p
  <2> QED BY <2>2
<1>2. p = Refused => Cuts(t) = {}
  BY <1>1 DEF Refused
<1>3. Cuts(t) = {} => p = Refused
  BY AcceptedHasCut
<1> QED BY <1>1, <1>2, <1>3 DEF ParsesAsDocumented

(* A new end leaves what is before it as it was. *)
LEMMA NewEnd ==
  ASSUME NEW S, NEW t \in Seq(S), NEW newTag \in Seq(S), NEW j \in Nat, j <= Len(t)
  PROVE  LET r == SubSeq(t, 1, j) \o newTag
         IN /\ r \in Seq(S) /\ Len(r) = j + Len(newTag)
            /\ \A k \in 1..j : r[k] = t[k]
            /\ After(r, j) = newTag
            /\ \A a, b \in Nat :
                 1 <= a /\ a <= b + 1 /\ b <= j => SubSeq(r, a, b) = SubSeq(t, a, b)
<1> DEFINE r == SubSeq(t, 1, j) \o newTag
<1>1. /\ SubSeq(t, 1, j) \in Seq(S) /\ Len(SubSeq(t, 1, j)) = j
      /\ \A k \in 1..j : SubSeq(t, 1, j)[k] = t[k]
  <2>1. 1 \in Nat /\ 1 <= j + 1 /\ j + 1 - 1 = j
    OBVIOUS
  <2> QED BY <2>1, Part
<1>2. /\ r \in Seq(S) /\ Len(r) = j + Len(newTag)
      /\ \A k \in 1..j + Len(newTag) : r[k] = IF k <= j THEN t[k] ELSE newTag[k - j]
  <2>1. Len(newTag) \in Nat
    OBVIOUS
  <2> QED BY <1>1, <2>1, ConcatProperties
<1> HIDE DEF r
<1>3. \A k \in 1..j : r[k] = t[k]
  <2>1. Len(newTag) \in Nat
    OBVIOUS
  <2> QED BY <1>2, <2>1
<1>4. After(r, j) = newTag
  <2>1. /\ Len(newTag) \in Nat /\ r \in Seq(S) /\ j <= Len(r)
        /\ Len(r) - j = Len(newTag)
    BY <1>2
  <2>2. /\ After(r, j) \in Seq(S) /\ Len(After(r, j)) = Len(newTag)
        /\ \A k \in 1..Len(newTag) : After(r, j)[k] = r[j + k]
    <3>1. /\ After(r, j) \in Seq(S) /\ Len(After(r, j)) = Len(r) - j
          /\ \A k \in 1..Len(r) - j : After(r, j)[k] = r[j + k]
      BY <2>1, Rest
    <3> QED BY <2>1, <3>1
  <2>3. \A k \in 1..Len(newTag) : r[j + k] = newTag[k]
    <3> TAKE k \in 1..Len(newTag)
    <3>1. j + k \in 1..j + Len(newTag) /\ ~(j + k <= j) /\ j + k - j = k
      BY <2>1
    <3> QED BY <1>2, <3>1
  <2> QED BY <2>2, <2>3, SeqEqual
<1>5. ASSUME NEW a \in Nat, NEW b \in Nat, 1 <= a, a <= b + 1, b <= j
      PROVE  SubSeq(r, a, b) = SubSeq(t, a, b)
  <2>1. Len(t) \in Nat /\ Len(newTag) \in Nat /\ b <= Len(t) /\ b <= Len(r)
    BY <1>2, <1>5
  <2>2. /\ SubSeq(r, a, b) \in Seq(S) /\ Len(SubSeq(r, a, b)) = b + 1 - a
        /\ \A k \in 1..b + 1 - a : SubSeq(r, a, b)[k] = r[a - 1 + k]
    <3>1. /\ r \in Seq(S) /\ a \in Nat /\ b \in Nat
          /\ 1 <= a /\ a <= b + 1 /\ b <= Len(r)
      BY <1>2, <1>5, <2>1
    <3> QED BY ONLY <3>1, Part
  <2>3. /\ SubSeq(t, a, b) \in Seq(S) /\ Len(SubSeq(t, a, b)) = b + 1 - a
        /\ \A k \in 1..b + 1 - a : SubSeq(t, a, b)[k] = t[a - 1 + k]
    BY <1>5, <2>1, Part
  <2>4. \A k \in 1..b + 1 - a : a - 1 + k \in 1..j
    BY <1>5
  <2>5. \A k \in 1..b + 1 - a : SubSeq(r, a, b)[k] = SubSeq(t, a, b)[k]
    BY <1>3, <2>2, <2>3, <2>4
  <2> QED BY <2>2, <2>3, <2>5, SeqEqual
<1> QED BY <1>2, <1>3, <1>4, <1>5 DEF r

(* A snapshot's reference is that of its base with another tag.            *)
THEOREM RetaggedInRepository ==
  \A S : \A t, newTag \in Seq(S) : RetagKeepsRepository(t, newTag)
<1> SUFFICES ASSUME NEW S, NEW t \in Seq(S), NEW newTag \in Seq(S),
                    parseOCITarget(t) # Refused, newTag # <<>>,
                    ~Has(parseOCITarget(t).tag, Slash),
                    ~Has(newTag, Slash), ~Has(newTag, Colon)
             PROVE  parseOCITarget(retagOCIRef(t, newTag))
                      = [parseOCITarget(t) EXCEPT !.tag = newTag]
  BY DEF RetagKeepsRepository
<1>1. PICK cut \in Cuts(t) : TRUE
  BY AcceptedHasCut
<1> DEFINE i == cut[1]
           j == cut[2]
           r == SubSeq(t, 1, j) \o newTag
<1>2. /\ i \in Nat /\ j \in Nat /\ Len(t) \in Nat
      /\ cut = <<i, j>>
      /\ IsPrefix(Scheme, t)
      /\ 5 < i /\ i + 1 < j /\ j < Len(t)
      /\ t[i] = Slash /\ t[j] = Colon
      /\ ~Has(SubSeq(t, 5, i - 1), Slash)
      /\ ~Has(After(t, j), Colon)
  BY SchemeLength DEF Cuts
<1>3. /\ parseOCITarget(t) = [host |-> SubSeq(t, 5, i - 1),
                              http |-> hostIsLocal(SubSeq(t, 5, i - 1)),
                              repo |-> SubSeq(t, i + 1, j - 1),
                              tag  |-> After(t, j)]
  BY ParsedAtCut, SchemeLength
<1> HIDE DEF i, j
<1>4. /\ Len(After(t, j)) = Len(t) - j
      /\ \A k \in 1..Len(t) - j : After(t, j)[k] = t[j + k]
  <2>1. j \in Nat /\ j <= Len(t)
    BY <1>2
  <2> QED BY <2>1, Rest
<1>5. \A k \in j + 1..Len(t) : t[k] \notin {Slash, Colon}
  <2> TAKE k \in j + 1..Len(t)
  <2>1. k - j \in 1..Len(t) - j /\ j + (k - j) = k
    BY <1>2
  <2>2. After(t, j)[k - j] = t[k]
    BY <1>4, <2>1
  <2>3. ~Has(After(t, j), Slash)
    BY <1>3
  <2> QED BY <1>2, <1>4, <2>1, <2>2, <2>3 DEF Has
<1>6. LastIndexOf(t, Colon) = j
  <2>1. j \in 1..Len(t)
    BY <1>2
  <2> QED BY <1>2, <1>5, <2>1, LastIndexOfAt
<1>7. j > LastIndexOf(t, Slash)
  <2>1. Has(t, Slash)
    BY <1>2 DEF Has
  <2>2. LastIndexOf(t, Slash) \in 1..Len(t) /\ t[LastIndexOf(t, Slash)] = Slash
    BY <2>1, LastIndexOfIsLast
  <2>3. LastIndexOf(t, Slash) \notin j + 1..Len(t)
    BY <1>5, <2>2
  <2>4. LastIndexOf(t, Slash) # j
    BY <1>2, <2>2, SeparatorsAssumption
  <2> QED BY <1>2, <2>2, <2>3, <2>4
<1>8. retagOCIRef(t, newTag) = r
  BY <1>2, <1>6, <1>7 DEF retagOCIRef
<1>9. /\ r \in Seq(S) /\ Len(r) = j + Len(newTag)
      /\ \A k \in 1..j : r[k] = t[k]
      /\ After(r, j) = newTag
      /\ \A a, b \in Nat :
           1 <= a /\ a <= b + 1 /\ b <= j => SubSeq(r, a, b) = SubSeq(t, a, b)
  <2>1. j \in Nat /\ j <= Len(t)
    BY <1>2
  <2> QED BY <2>1, NewEnd
<1> HIDE DEF r
<1>10. SubSeq(r, 5, i - 1) = SubSeq(t, 5, i - 1) /\ SubSeq(r, i + 1, j - 1) = SubSeq(t, i + 1, j - 1)
  <2>1. /\ 5 \in Nat /\ i - 1 \in Nat /\ 1 <= 5 /\ 5 <= (i - 1) + 1 /\ i - 1 <= j
        /\ i + 1 \in Nat /\ j - 1 \in Nat /\ 1 <= i + 1 /\ i + 1 <= (j - 1) + 1 /\ j - 1 <= j
    BY <1>2
  <2> QED BY <1>9, <2>1
<1>11. IsPrefix(Scheme, r)
  <2>1. 1 \in Nat /\ 4 \in Nat /\ 1 <= 1 /\ 1 <= 4 + 1 /\ 4 <= j
    BY <1>2
  <2>2. SubSeq(r, 1, 4) = SubSeq(t, 1, 4)
    BY <1>9, <2>1
  <2>3. 4 <= Len(r)
    <3>1. Len(newTag) \in Nat
      OBVIOUS
    <3> QED BY <1>2, <1>9, <3>1
  <2> QED BY <1>2, <2>2, <2>3, SchemeLength DEF IsPrefix
<1>12. <<i, j>> \in Cuts(r)
  <2>1. Len(newTag) \in Nat /\ Len(newTag) # 0
    OBVIOUS
  <2>2. i \in 1..Len(r) /\ j \in 1..Len(r) /\ j < Len(r) /\ i \in 1..j /\ j \in 1..j
    BY <1>2, <1>9, <2>1
  <2>3. r[i] = Slash /\ r[j] = Colon
    BY <1>2, <1>9, <2>2
  <2>4. ~Has(SubSeq(r, 5, i - 1), Slash) /\ ~Has(After(r, j), Colon)
    BY <1>2, <1>9, <1>10, Zenon
  <2>5. 5 < i /\ i + 1 < j
    BY <1>2
  <2> QED BY <1>11, <2>2, <2>3, <2>4, <2>5, CutAt
<1>13. parseOCITarget(r) = [host |-> SubSeq(r, 5, i - 1),
                            http |-> hostIsLocal(SubSeq(r, 5, i - 1)),
                            repo |-> SubSeq(r, i + 1, j - 1),
                            tag  |-> After(r, j)]
  <2>1. <<i, j>>[1] = i /\ <<i, j>>[2] = j /\ Len(Scheme) + 1 = 5
    BY SchemeLength
  <2>2. r \in Seq(S)
    BY <1>9
  <2>3. parseOCITarget(r) = [host |-> SubSeq(r, Len(Scheme) + 1, <<i, j>>[1] - 1),
                            http |-> hostIsLocal(SubSeq(r, Len(Scheme) + 1, <<i, j>>[1] - 1)),
                            repo |-> SubSeq(r, <<i, j>>[1] + 1, <<i, j>>[2] - 1),
                            tag  |-> After(r, <<i, j>>[2])]
    BY <1>12, <2>2, ParsedAtCut, Zenon
  <2> QED BY <2>1, <2>3
<1>14. parseOCITarget(r) = [host |-> SubSeq(t, 5, i - 1),
                            http |-> hostIsLocal(SubSeq(t, 5, i - 1)),
                            repo |-> SubSeq(t, i + 1, j - 1),
                            tag  |-> newTag]
  BY <1>9, <1>10, <1>13, Zenon
<1>15. [parseOCITarget(t) EXCEPT !.tag = newTag] = parseOCITarget(r)
  <2>1. ASSUME NEW q, q = parseOCITarget(t)
        PROVE  [q EXCEPT !.tag = newTag] = parseOCITarget(r)
    <3>1. PICK h, b, p, g : /\ h = SubSeq(t, 5, i - 1)
                            /\ b = hostIsLocal(SubSeq(t, 5, i - 1))
                            /\ p = SubSeq(t, i + 1, j - 1)
                            /\ g = After(t, j)
      BY Zenon
    <3>2. q = [host |-> h, http |-> b, repo |-> p, tag |-> g]
      BY <1>3, <2>1, <3>1, Zenon
    <3>3. [q EXCEPT !.tag = newTag] = [host |-> h, http |-> b, repo |-> p, tag |-> newTag]
      BY <3>2
    <3> QED BY <1>14, <3>1, <3>3, Zenon
  <2> QED BY <2>1, Zenon
<1>16. parseOCITarget(retagOCIRef(t, newTag)) = parseOCITarget(r)
  BY <1>8, Zenon
<1> QED BY <1>15, <1>16, Zenon

(* hostIsLocal takes one colon for that of a port. *)
LEMMA PortIsCutOff ==
  ASSUME NEW S, NEW host \in Seq(S), NEW name,
         name = Before(host, IndexOf(host \o <<Colon>>, Colon)),
         ~Has(After(host, Len(name) + 1), Colon)
  PROVE  hostIsLocal(host) <=> LocalName(name)
<1> DEFINE C == S \cup {Colon}
           ended == host \o <<Colon>>
           last == LastIndexOf(host, Colon)
<1>1. Len(host) \in Nat /\ host \in Seq(C) /\ <<Colon>> \in Seq(C) /\ Len(<<Colon>>) = 1
  OBVIOUS
<1>2. /\ ended \in Seq(C) /\ Len(ended) = Len(host) + 1 /\ ended[Len(host) + 1] = Colon
      /\ \A k \in 1..Len(host) : ended[k] = host[k]
  <2>1. Colon \in C /\ ended = Append(host, Colon)
    BY <1>1, AppendIsConcat
  <2> HIDE DEF C, ended
  <2> QED BY <1>1, <2>1, AppendProperties
<1>3. hostIsLocal(host) <=> LocalName(IF last = 0 THEN host ELSE Before(host, last))
  BY Zenon DEF hostIsLocal
<1> HIDE DEF C, ended
<1>4. CASE ~Has(host, Colon)
  <2>1. last = 0
    BY <1>4, LastIndexOfIsLast
  <2>2. IndexOf(ended, Colon) = Len(host) + 1
    <3>1. \A k \in 1..Len(host) : ended[k] # Colon
      BY <1>2, <1>4 DEF Has
    <3>2. Len(host) + 1 \in 1..Len(ended)
      BY <1>1, <1>2
    <3>3. \A k \in 1..(Len(host) + 1) - 1 : ended[k] # Colon
      BY <1>1, <3>1
    <3> QED BY <1>2, <3>2, <3>3, IndexOfAt
  <2>3. name = SubSeq(host, 1, Len(host))
    <3>1. Len(host) + 1 - 1 = Len(host)
      BY <1>1
    <3> QED BY <2>2, <3>1 DEF Before, ended
  <2>4. name = host
    BY <2>3, SubSeqFull
  <2> QED BY <1>3, <2>1, <2>4, Zenon
<1>5. CASE Has(host, Colon)
  <2> DEFINE at == IndexOf(host, Colon)
  <2>1. /\ at \in 1..Len(host) /\ host[at] = Colon
        /\ \A k \in 1..Len(host) : host[k] = Colon => at <= k
    BY <1>5, IndexOfIsFirst
  <2> HIDE DEF at
  <2>2. IndexOf(ended, Colon) = at
    <3>1. at \in 1..Len(ended) /\ ended[at] = Colon
      BY <1>1, <1>2, <2>1
    <3>2. \A k \in 1..at - 1 : ended[k] # Colon
      BY <1>1, <1>2, <2>1
    <3> QED BY <1>2, <3>1, <3>2, IndexOfAt
  <2>3. name = Before(host, at)
    BY <2>2 DEF ended
  <2>4. Len(name) + 1 = at
    <3>1. /\ 1 \in Nat /\ at - 1 \in Nat /\ 1 <= 1 /\ 1 <= at - 1 + 1 /\ at - 1 <= Len(host)
          /\ at - 1 + 1 - 1 = at - 1 /\ at - 1 + 1 = at
      BY <1>1, <2>1
    <3>2. Len(SubSeq(host, 1, at - 1)) = at - 1 + 1 - 1
      BY <3>1, Part
    <3> QED BY <2>3, <3>1, <3>2 DEF Before
  <2>5. \A k \in at + 1..Len(host) : host[k] # Colon
    <3>1. at \in Nat /\ at <= Len(host)
      BY <1>1, <2>1
    <3>2. /\ Len(After(host, at)) = Len(host) - at
          /\ \A k \in 1..Len(host) - at : After(host, at)[k] = host[at + k]
      BY <3>1, Rest
    <3>3. \A k \in 1..Len(host) - at : host[at + k] # Colon
      <4>1. ~Has(After(host, at), Colon)
        BY <2>4
      <4> QED BY <3>2, <4>1 DEF Has
    <3> TAKE k \in at + 1..Len(host)
    <3>4. k - at \in 1..Len(host) - at /\ at + (k - at) = k
      BY <1>1, <2>1
    <3> QED BY <3>3, <3>4
  <2>6. last = at
    <3>1. at \in 1..Len(host) /\ \A k \in at + 1..Len(host) : host[k] # Colon
      BY <2>1, <2>5
    <3> QED BY <2>1, <3>1, LastIndexOfAt
  <2>7. last # 0
    BY <1>1, <2>1, <2>6
  <2> QED BY <1>3, <2>3, <2>6, <2>7, Zenon
<1> QED BY <1>4, <1>5

(* A registry on the loopback or under .local is reached without TLS.      *)
THEOREM LocalWithoutTLS ==
  \A S : \A t \in Seq(S) : PlainHttpIfLocal(t)
<1> SUFFICES ASSUME NEW S, NEW t \in Seq(S) PROVE PlainHttpIfLocal(t)
  OBVIOUS
<1> DEFINE p == parseOCITarget(t)
           name == Before(p.host, IndexOf(p.host \o <<Colon>>, Colon))
<1> SUFFICES ASSUME p # Refused, ~Has(After(p.host, Len(name) + 1), Colon)
             PROVE  p.http <=> LocalName(name)
  BY Zenon DEF PlainHttpIfLocal
<1>1. PICK cut \in Cuts(t) : TRUE
  BY AcceptedHasCut
<1> DEFINE host == SubSeq(t, Len(Scheme) + 1, cut[1] - 1)
<1>2. p.host = host /\ p.http = hostIsLocal(host)
  BY ParsedAtCut
<1>3. host \in Seq(S)
  <2>1. /\ 5 \in Nat /\ cut[1] - 1 \in Nat /\ 1 <= 5 /\ 5 <= cut[1] - 1 + 1
        /\ cut[1] - 1 <= Len(t) /\ Len(Scheme) + 1 = 5
    BY SchemeLength DEF Cuts
  <2> QED BY <2>1, Part
<1> HIDE DEF host, p
<1> QED BY <1>2, <1>3, PortIsCutOff, Zenon

-----------------------------------------------------------------------------
(* The rewriting of a kernel command line *)

(* How a guest is told the transport of its shares. *)
Hint == "weft.transport=9p"

(* The words kept of the first i. *)
Kept(tokens, i) == {j \in 1..i : tokens[j] # Hint}

(* readWords is the function its recursion describes. *)
LEMMA ReadWordsRecursion ==
  ASSUME NEW S, NEW tokens \in Seq(S)
  PROVE  readWords(tokens) =
           [i \in 0..Len(tokens) |->
              IF i = 0 THEN [array |-> tokens, len |-> 0]
              ELSE keepWord(readWords(tokens)[i - 1], i)]
<1> DEFINE start == [array |-> tokens, len |-> 0]
           Reads(g, b) == g = [i \in 0..b |-> IF i = 0 THEN start ELSE keepWord(g[i - 1], i)]
           T == {b \in 0..Len(tokens) : ~\E g : Reads(g, b)}
<1>1. Len(tokens) \in Nat
  OBVIOUS
<1> HIDE DEF start
<1>2. T = {}
  <2> SUFFICES ASSUME T # {} PROVE FALSE
    OBVIOUS
  <2>1. T \in SUBSET Nat
    BY <1>1
  <2>2. Min(T) \in T /\ \A k \in T : Min(T) <= k
    <3> HIDE DEF T
    <3> QED BY <2>1, Least
  <2>3. PICK b \in 0..Len(tokens) : (~\E g : Reads(g, b)) /\ \A k \in T : b <= k
    BY <2>2
  <2>4. b # 0
    <3> SUFFICES ASSUME b = 0 PROVE FALSE
      OBVIOUS
    <3>1. Reads([i \in 0..0 |-> start], 0)
      OBVIOUS
    <3> QED BY <2>3, <3>1
  <2>5. b - 1 \in 0..Len(tokens) /\ b - 1 \notin T
    <3>1. b \in Nat /\ b - 1 \in Nat /\ b <= Len(tokens) /\ ~(b <= b - 1)
      BY <1>1, <2>3, <2>4
    <3>2. b - 1 \in 0..Len(tokens)
      BY <1>1, <3>1
    <3> HIDE DEF T
    <3> QED BY <2>3, <3>1, <3>2
  <2>6. PICK g : Reads(g, b - 1)
    BY <2>5
  <2> DEFINE h == [i \in 0..b |-> IF i = b THEN keepWord(g[b - 1], b) ELSE g[i]]
  <2>7. \A i \in 0..b : h[i] = IF i = 0 THEN start ELSE keepWord(h[i - 1], i)
    <3> TAKE i \in 0..b
    <3>1. CASE i = b
      <4>1. b - 1 \in 0..b /\ b - 1 # b
        BY <2>4
      <4>2. h[b - 1] = g[b - 1]
        BY <4>1
      <4> QED BY <2>4, <3>1, <4>2
    <3>2. CASE i # b
      <4>1. i \in 0..b - 1
        BY <3>2
      <4>2. g[i] = IF i = 0 THEN start ELSE keepWord(g[i - 1], i)
        BY <2>6, <4>1
      <4>3. i # 0 => h[i - 1] = g[i - 1]
        BY <3>2
      <4> QED BY <3>2, <4>2, <4>3
    <3> QED BY <3>1, <3>2
  <2>8. Reads(h, b)
    BY <2>7
  <2> QED BY <2>3, <2>8
<1>3. \E g : Reads(g, Len(tokens))
  <2>1. Len(tokens) \in 0..Len(tokens)
    BY <1>1
  <2> QED BY <1>2, <2>1
<1>4. readWords(tokens) = CHOOSE g : Reads(g, Len(tokens))
  BY DEF readWords, start
<1> QED BY <1>3, <1>4 DEF start

(* How many words are kept of the first i, and of the first i - 1. *)
LEMMA KeptCount ==
  ASSUME NEW tokens, NEW i \in Nat
  PROVE  /\ IsFiniteSet(Kept(tokens, i)) /\ Cardinality(Kept(tokens, i)) \in 0..i
         /\ \A j \in 0..i : Cardinality(Kept(tokens, j)) <= Cardinality(Kept(tokens, i))
<1>1. ASSUME NEW j \in Nat
      PROVE  IsFiniteSet(Kept(tokens, j)) /\ Cardinality(Kept(tokens, j)) \in 0..j
  <2>1. IsFiniteSet(1..j) /\ Cardinality(1..j) = j
    BY FS_Interval
  <2>2. Kept(tokens, j) \in SUBSET (1..j)
    BY DEF Kept
  <2>3. IsFiniteSet(Kept(tokens, j)) /\ Cardinality(Kept(tokens, j)) <= j
    BY <2>1, <2>2, FS_Subset
  <2> QED BY <2>3, FS_CardinalityType
<1>2. ASSUME NEW j \in 0..i
      PROVE  Cardinality(Kept(tokens, j)) <= Cardinality(Kept(tokens, i))
  <2>1. Kept(tokens, j) \in SUBSET Kept(tokens, i)
    BY DEF Kept
  <2> QED BY <1>1, <2>1, FS_Subset
<1> QED BY <1>1, <1>2

(* A word more: it is kept, or it is the hint. *)
LEMMA KeptStep ==
  ASSUME NEW tokens, NEW i \in Nat, i # 0
  PROVE  /\ tokens[i] = Hint => Kept(tokens, i) = Kept(tokens, i - 1)
         /\ tokens[i] # Hint =>
              /\ Kept(tokens, i) = Kept(tokens, i - 1) \cup {i}
              /\ Cardinality(Kept(tokens, i)) = Cardinality(Kept(tokens, i - 1)) + 1
<1>1. i - 1 \in Nat /\ i \notin 1..i - 1 /\ 1..i = (1..i - 1) \cup {i}
  OBVIOUS
<1>2. tokens[i] = Hint => Kept(tokens, i) = Kept(tokens, i - 1)
  BY <1>1 DEF Kept
<1>3. tokens[i] # Hint => Kept(tokens, i) = Kept(tokens, i - 1) \cup {i}
  BY <1>1 DEF Kept
<1>4. i \notin Kept(tokens, i - 1) /\ IsFiniteSet(Kept(tokens, i - 1))
  BY <1>1, KeptCount DEF Kept
<1> QED BY <1>2, <1>3, <1>4, FS_AddElement

(* The word QEMU gets for a word of the VM that is kept. *)
ForQEMU(t) == IF t = "console=hvc0" THEN "console=ttyAMA0" ELSE t

(* What the array holds when i words have been read: the kept ones in      *)
(* their places, and behind the i-th what it held before.                  *)
Holds(tokens, i, a) ==
  /\ Len(a) = Len(tokens)
  /\ \A j \in Kept(tokens, i) : a[Cardinality(Kept(tokens, j))] = ForQEMU(tokens[j])
  /\ \A k \in 1..Cardinality(Kept(tokens, i)) : a[k] \notin {Hint, "console=hvc0"}
  /\ \A k \in i + 1..Len(tokens) : a[k] = tokens[k]

(* The loop invariant: the array holds that, and len counts the kept ones. *)
ReadInv(S, tokens, i) ==
  \E a \in Seq(S) :
    /\ readWords(tokens)[i] = [array |-> a, len |-> Cardinality(Kept(tokens, i))]
    /\ Holds(tokens, i, a)

(* Reading a word keeps the loop invariant. *)
LEMMA ReadStep ==
  ASSUME NEW S, "console=ttyAMA0" \in S, NEW tokens \in Seq(S),
         NEW i \in 1..Len(tokens), ReadInv(S, tokens, i - 1)
  PROVE  ReadInv(S, tokens, i)
<1> DEFINE at(j) == Cardinality(Kept(tokens, j))
<1>1. /\ i \in Nat /\ i - 1 \in Nat /\ i # 0 /\ Len(tokens) \in Nat
      /\ i \in 0..Len(tokens) /\ i - 1 \in 0..i
  OBVIOUS
<1>2. PICK a \in Seq(S) : /\ readWords(tokens)[i - 1] = [array |-> a, len |-> at(i - 1)]
                          /\ Holds(tokens, i - 1, a)
  BY DEF ReadInv
<1>3. readWords(tokens)[i] = keepWord(readWords(tokens)[i - 1], i)
  BY <1>1, ReadWordsRecursion
<1>4. a[i] = tokens[i]
  <2>1. i \in (i - 1) + 1..Len(tokens)
    BY <1>1
  <2> QED BY <1>2, <2>1 DEF Holds
<1>5. CASE tokens[i] = Hint
  <2>1. Kept(tokens, i) = Kept(tokens, i - 1)
    BY <1>1, <1>5, KeptStep
  <2>2. readWords(tokens)[i] = [array |-> a, len |-> at(i)]
    BY <1>2, <1>3, <1>4, <1>5, <2>1 DEF keepWord, Hint
  <2>3. \A k \in i + 1..Len(tokens) : k \in (i - 1) + 1..Len(tokens)
    BY <1>1
  <2>4. Holds(tokens, i, a)
    BY <1>2, <2>1, <2>3 DEF Holds
  <2> QED BY <2>2, <2>4 DEF ReadInv
<1>6. CASE tokens[i] # Hint
  <2> DEFINE w == ForQEMU(tokens[i])
             e == [a EXCEPT ![at(i)] = w]
  <2>1. /\ Kept(tokens, i) = Kept(tokens, i - 1) \cup {i} /\ at(i) = at(i - 1) + 1
        /\ at(i) \in 1..i /\ at(i - 1) \in Nat /\ at(i) \in 1..Len(tokens)
    <3>1. at(i - 1) \in Nat /\ at(i) \in 0..i
      BY <1>1, KeptCount
    <3>2. Kept(tokens, i) = Kept(tokens, i - 1) \cup {i} /\ at(i) = at(i - 1) + 1
      BY <1>1, <1>6, KeptStep
    <3> HIDE DEF at
    <3> QED BY <1>1, <3>1, <3>2
  <2>2. w \in S /\ w \notin {Hint, "console=hvc0"}
    BY <1>6 DEF ForQEMU, Hint
  <2>3. readWords(tokens)[i] = [array |-> e, len |-> at(i)]
    <3> HIDE DEF at
    <3> QED BY <1>2, <1>3, <1>4, <1>6, <2>1 DEF keepWord, Hint, ForQEMU
  <2>4. /\ e \in Seq(S) /\ Len(e) = Len(tokens)
        /\ \A k \in 1..Len(tokens) : e[k] = IF k = at(i) THEN w ELSE a[k]
    <3>1. Len(a) = Len(tokens)
      BY <1>2 DEF Holds
    <3> HIDE DEF w, at
    <3> QED BY <2>1, <2>2, <3>1, ExceptSeq
  <2> HIDE DEF w, e
  <2>5. ASSUME NEW j \in Kept(tokens, i) PROVE e[at(j)] = ForQEMU(tokens[j])
    <3>1. CASE j = i
      BY <2>1, <2>4, <3>1 DEF w
    <3>2. CASE j # i
      <4>1. j \in Kept(tokens, i - 1) /\ j \in 1..i - 1
        BY <2>1, <3>2 DEF Kept
      <4>2. a[at(j)] = ForQEMU(tokens[j])
        BY <1>2, <4>1 DEF Holds
      <4>3. at(j) <= at(i - 1)
        <5>1. j \in 0..i - 1
          BY <1>1, <4>1
        <5> QED BY <1>1, <5>1, KeptCount
      <4>4. at(j) \in 0..j /\ at(j) = at(j - 1) + 1 /\ at(j - 1) \in 0..j - 1
        <5>1. j \in Nat /\ j # 0 /\ j - 1 \in Nat /\ tokens[j] # Hint
          BY <1>1, <4>1 DEF Kept
        <5> QED BY <5>1, KeptStep, KeptCount
      <4> HIDE DEF at
      <4>5. at(j) \in 1..Len(tokens) /\ at(j) # at(i)
        BY <1>1, <2>1, <4>1, <4>3, <4>4
      <4> QED BY <2>4, <4>2, <4>5
    <3> QED BY <3>1, <3>2
  <2>6. ASSUME NEW k \in 1..at(i) PROVE e[k] \notin {Hint, "console=hvc0"}
    <3>1. k \in 1..at(i - 1) => a[k] \notin {Hint, "console=hvc0"}
      BY <1>2 DEF Holds
    <3> HIDE DEF at
    <3>2. k \in 1..Len(tokens) /\ (k = at(i) \/ k \in 1..at(i - 1))
      BY <1>1, <2>1
    <3> QED BY <2>2, <2>4, <3>1, <3>2
  <2>7. ASSUME NEW k \in i + 1..Len(tokens) PROVE e[k] = tokens[k]
    <3>1. a[k] = tokens[k]
      <4>1. k \in (i - 1) + 1..Len(tokens)
        BY <1>1
      <4> QED BY <1>2, <4>1 DEF Holds
    <3> HIDE DEF at
    <3>2. k \in 1..Len(tokens) /\ k # at(i)
      BY <1>1, <2>1
    <3> QED BY <2>4, <3>1, <3>2
  <2>8. Holds(tokens, i, e)
    BY <2>4, <2>5, <2>6, <2>7 DEF Holds
  <2> QED BY <2>3, <2>4, <2>8 DEF ReadInv
<1> QED BY <1>5, <1>6

(* So it holds when all words are read. *)
LEMMA AllWordsRead ==
  ASSUME NEW S, "console=ttyAMA0" \in S, NEW tokens \in Seq(S)
  PROVE  ReadInv(S, tokens, Len(tokens))
<1> DEFINE T == {i \in 0..Len(tokens) : ~ReadInv(S, tokens, i)}
<1>1. Len(tokens) \in Nat /\ T \in SUBSET Nat
  OBVIOUS
<1>2. T = {}
  <2> SUFFICES ASSUME T # {} PROVE FALSE
    OBVIOUS
  <2>1. Min(T) \in T /\ \A k \in T : Min(T) <= k
    <3> HIDE DEF T
    <3> QED BY <1>1, Least
  <2>2. PICK i \in 0..Len(tokens) : ~ReadInv(S, tokens, i) /\ \A k \in T : i <= k
    BY <2>1
  <2>3. ReadInv(S, tokens, 0)
    <3>1. readWords(tokens)[0] = [array |-> tokens, len |-> 0]
      <4>1. 0 \in 0..Len(tokens)
        BY <1>1
      <4> QED BY <4>1, ReadWordsRecursion
    <3>2. Kept(tokens, 0) = {} /\ Cardinality(Kept(tokens, 0)) = 0
      <4>1. Kept(tokens, 0) = {}
        BY DEF Kept
      <4> QED BY <4>1, FS_EmptySet
    <3>3. Holds(tokens, 0, tokens)
      BY <3>2 DEF Holds
    <3> QED BY <3>1, <3>2, <3>3 DEF ReadInv
  <2>4. i \in 1..Len(tokens) /\ i - 1 \in 0..Len(tokens) /\ ~(i <= i - 1)
    BY <1>1, <2>2, <2>3
  <2>5. ReadInv(S, tokens, i - 1)
    BY <2>2, <2>4
  <2> QED BY <2>2, <2>4, <2>5, ReadStep
<1>3. Len(tokens) \in 0..Len(tokens)
  BY <1>1
<1> QED BY <1>2, <1>3

(* What the loop leaves: the kept words in their order, and the hint.      *)
LEMMA RewrittenWords ==
  ASSUME NEW S, "console=ttyAMA0" \in S, Hint \in S, NEW tokens \in Seq(S)
  PROVE  LET out == rewriteCmdlineForQEMU(tokens)
             at(j) == Cardinality(Kept(tokens, j))
             len == at(Len(tokens))
         IN /\ out \in Seq(S) /\ Len(out) = len + 1 /\ out[len + 1] = Hint
            /\ \A j \in Kept(tokens, Len(tokens)) : out[at(j)] = ForQEMU(tokens[j])
            /\ \A k \in 1..len : out[k] \notin {Hint, "console=hvc0"}
<1> DEFINE out == rewriteCmdlineForQEMU(tokens)
           at(j) == Cardinality(Kept(tokens, j))
           len == at(Len(tokens))
<1>1. PICK a \in Seq(S) : /\ readWords(tokens)[Len(tokens)] = [array |-> a, len |-> len]
                          /\ Holds(tokens, Len(tokens), a)
  BY AllWordsRead DEF ReadInv
<1>2. Len(tokens) \in Nat /\ len \in 0..Len(tokens) /\ Len(a) = Len(tokens)
  <2>1. Len(tokens) \in Nat
    OBVIOUS
  <2> QED BY <1>1, <2>1, KeptCount DEF Holds
<1>3. out = Append(SubSeq(a, 1, len), Hint)
  <2> DEFINE r == readWords(tokens)[Len(tokens)]
  <2>1. out = Append(SubSeq(r.array, 1, r.len), Hint)
    BY DEF rewriteCmdlineForQEMU, Hint
  <2>2. r.array = a /\ r.len = len
    <3> HIDE DEF len, r
    <3>1. r = [array |-> a, len |-> len]
      BY <1>1 DEF r
    <3> QED BY <3>1
  <2> QED BY <2>1, <2>2, Zenon
<1> DEFINE p == SubSeq(a, 1, len)
<1>4. p \in Seq(S) /\ Len(p) = len /\ \A k \in 1..len : p[k] = a[k]
  <2> HIDE DEF at
  <2>1. 1 \in Nat /\ len \in Nat /\ 1 <= 1 /\ 1 <= len + 1 /\ len <= Len(a) /\ len + 1 - 1 = len
    BY <1>2
  <2>2. \A k \in 1..len : 1 - 1 + k = k
    BY <2>1
  <2>3. /\ p \in Seq(S) /\ Len(p) = len + 1 - 1
        /\ \A k \in 1..len + 1 - 1 : p[k] = a[1 - 1 + k]
    BY <2>1, Part
  <2> QED BY <2>1, <2>2, <2>3
<1> HIDE DEF p, out
<1>5. /\ out \in Seq(S) /\ Len(out) = len + 1 /\ out[len + 1] = Hint
      /\ \A k \in 1..len : out[k] = a[k]
  <2>1. /\ out \in Seq(S) /\ Len(out) = Len(p) + 1 /\ out[Len(p) + 1] = Hint
        /\ \A k \in 1..Len(p) : out[k] = p[k]
    BY <1>3, <1>4, AppendProperties DEF p
  <2> QED BY <1>4, <2>1
<1>6. \A j \in Kept(tokens, Len(tokens)) : out[at(j)] = ForQEMU(tokens[j])
  <2> TAKE j \in Kept(tokens, Len(tokens))
  <2>1. j \in 1..Len(tokens) /\ j \in Nat /\ j # 0 /\ tokens[j] # Hint /\ j - 1 \in Nat
        /\ j \in 0..Len(tokens)
    BY <1>2 DEF Kept
  <2>2. at(j) = at(j - 1) + 1 /\ at(j - 1) \in 0..j - 1 /\ at(j) <= len
    BY <1>2, <2>1, KeptStep, KeptCount
  <2>3. at(j) \in 1..len
    <3> HIDE DEF at
    <3> QED BY <1>2, <2>1, <2>2
  <2>4. a[at(j)] = ForQEMU(tokens[j])
    BY <1>1 DEF Holds
  <2> QED BY <1>5, <2>3, <2>4
<1>7. \A k \in 1..len : out[k] \notin {Hint, "console=hvc0"}
  BY <1>1, <1>5 DEF Holds
<1> QED BY <1>5, <1>6, <1>7 DEF out

(* Rewriting in place loses no word, repeats none and keeps their order,   *)
(* names a serial port in the place of hvc0, whichever the machine's is,   *)
(* and leaves a line alone that has been rewritten.                        *)
THEOREM LinesAreRewritten ==
  \A S : \A tokens \in Seq(S) : RewritesInPlace(tokens)
<1> SUFFICES ASSUME NEW S, NEW tokens \in Seq(S) PROVE RewritesInPlace(tokens)
  OBVIOUS
<1> DEFINE C == S \cup {Hint, "console=ttyAMA0"}
           out == rewriteCmdlineForQEMU(tokens)
           again == rewriteCmdlineForQEMU(out)
           len == Cardinality(Kept(tokens, Len(tokens)))
<1>1. "console=ttyAMA0" \in C /\ Hint \in C /\ tokens \in Seq(C) /\ Len(tokens) \in Nat
  OBVIOUS
<1> HIDE DEF C
<1>2. /\ out \in Seq(C) /\ Len(out) = len + 1 /\ out[len + 1] = Hint
      /\ \A j \in Kept(tokens, Len(tokens)) :
           out[Cardinality(Kept(tokens, j))] = ForQEMU(tokens[j])
      /\ \A k \in 1..len : out[k] \notin {Hint, "console=hvc0"}
  BY <1>1, RewrittenWords
<1>3. len \in Nat
  BY <1>1, KeptCount
<1>4. again = out
  <2> HIDE DEF out, again, len
  <2> DEFINE lenAgain == Cardinality(Kept(out, len + 1))
  <2>1. /\ again \in Seq(C) /\ Len(again) = lenAgain + 1 /\ again[lenAgain + 1] = Hint
        /\ \A j \in Kept(out, len + 1) : again[Cardinality(Kept(out, j))] = ForQEMU(out[j])
    BY <1>1, <1>2, RewrittenWords DEF again
  <2>2. ASSUME NEW j \in 1..len
        PROVE  Kept(out, j) = 1..j /\ Cardinality(Kept(out, j)) = j /\ j \in Kept(out, len + 1)
    <3>1. Kept(out, j) = 1..j
      BY <1>2, <1>3 DEF Kept
    <3>2. j \in Kept(out, len + 1)
      BY <1>2, <1>3 DEF Kept
    <3>3. Cardinality(1..j) = j
      BY FS_Interval
    <3> QED BY <3>1, <3>2, <3>3
  <2>3. lenAgain = len
    <3>1. Kept(out, len + 1) = 1..len
      BY <1>2, <1>3 DEF Kept
    <3>2. Cardinality(1..len) = len
      BY <1>3, FS_Interval
    <3> QED BY <3>1, <3>2
  <2> HIDE DEF lenAgain
  <2>4. \A j \in 1..len : again[j] = out[j]
    BY <1>2, <2>1, <2>2 DEF ForQEMU
  <2>5. \A j \in 1..len + 1 : again[j] = out[j]
    <3>1. \A j \in 1..len + 1 : j = len + 1 \/ j \in 1..len
      BY <1>3
    <3> QED BY <1>2, <2>1, <2>3, <2>4, <3>1
  <2>6. Len(again) = Len(out)
    BY <1>2, <2>1, <2>3
  <2> QED BY <1>2, <2>1, <2>5, <2>6, SeqEqual
<1>5. /\ {i \in DOMAIN tokens : tokens[i] # "weft.transport=9p"} = Kept(tokens, Len(tokens))
      /\ \A i \in Kept(tokens, Len(tokens)) :
           {j \in Kept(tokens, Len(tokens)) : j <= i} = Kept(tokens, i)
  BY <1>1 DEF Kept, Hint
<1> HIDE DEF again, len
<1>6. out[Len(out)] = Hint
  BY <1>2
<1> HIDE DEF out
<1>7. RewritesInPlace(tokens) <=>
        /\ Len(out) = len + 1
        /\ out[Len(out)] = "weft.transport=9p"
        /\ \A i \in Kept(tokens, Len(tokens)) :
             IF tokens[i] = "console=hvc0"
             THEN out[Cardinality({j \in Kept(tokens, Len(tokens)) : j <= i})]
                    \in {SerialPort("virt"), SerialPort("q35")}
             ELSE out[Cardinality({j \in Kept(tokens, Len(tokens)) : j <= i})] = tokens[i]
        /\ again = out
  BY <1>5, Zenon DEF RewritesInPlace, out, again, len
<1>8. SerialPort("virt") = "console=ttyAMA0"
  BY DEF SerialPort
<1> QED BY <1>2, <1>4, <1>5, <1>6, <1>7, <1>8 DEF ForQEMU, Hint

-----------------------------------------------------------------------------
(* The inputs of MCAlgorithms *)

(* The bound of a run aside, its inputs are sequences. *)
LEMMA BoundedSeqIsSeq ==
  ASSUME NEW S, NEW b
  PROVE  BoundedSeq(S, b) \subseteq Seq(S)
<1> SUFFICES ASSUME NEW l \in 0..b, NEW s \in [1..l -> S] PROVE s \in Seq(S)
  BY DEF BoundedSeq, SeqOf
<1> QED OBVIOUS

(* What a state looks at is one of the inputs of its kind.                 *)
CaseInv ==
  /\ kind = "key" => case \in KeyCases
  /\ kind = "ref" => case \in RefCases
  /\ kind = "line" => case \in LineCases
  /\ kind = "boot" => case \in BootCases

(* The run looks at nothing but its inputs. *)
LEMMA CasesAreInputs == Spec => []CaseInv
<1>1. Init => CaseInv
  BY DEF Init, CaseInv
<1>2. CaseInv /\ [Copy \/ Choose]_mcVars => CaseInv'
  BY DEF CaseInv, Copy, Choose, mcVars
<1> QED BY <1>1, <1>2, PTL DEF Spec

(* The characters a reference is made of. *)
RefChars == Parts \cup {Oci, Slash, Colon, "v"}

(* A reference among the inputs is a string of these. *)
LEMMA RefsAreStrings ==
  ASSUME NEW c \in RefCases
  PROVE  c.target \in Seq(RefChars) /\ c.tag \in Seq(RefChars)
<1>1. Scheme \in Seq(RefChars)
  BY DEF Scheme, RefChars
<1>2. \A s \in BoundedSeq(Parts, 7) : s \in Seq(RefChars)
  <2>1. \A s \in BoundedSeq(Parts, 7) : s \in Seq(Parts)
    BY BoundedSeqIsSeq
  <2> QED BY <2>1 DEF RefChars
<1>3. \A s \in BoundedSeq({Oci, Slash, Colon}, 5) : s \in Seq(RefChars)
  <2>1. \A s \in BoundedSeq({Oci, Slash, Colon}, 5) : s \in Seq({Oci, Slash, Colon})
    BY BoundedSeqIsSeq
  <2> QED BY <2>1 DEF RefChars
<1>4. <<"v">> \in Seq(RefChars)
  BY DEF RefChars
<1>5. \A s \in BoundedSeq(Parts, 7) : Scheme \o s \in Seq(RefChars)
  BY <1>1, <1>2, ConcatProperties
<1> QED BY <1>3, <1>4, <1>5 DEF RefCases

(* At any bound, the prefix test finds the keys of its volume. *)
THEOREM PrefixAlwaysExact == Spec => []PrefixExact
<1>1. CaseInv => PrefixExact
  <2> SUFFICES ASSUME kind = "key", case \in KeyCases
               PROVE  PrefixMeansVolume(case.u, case.w, case.h)
    BY DEF CaseInv, PrefixExact
  <2>1. /\ case.u \in BoundedSeq(Chars, MaxLen) /\ case.w \in BoundedSeq(Chars, MaxLen)
        /\ case.h \in BoundedSeq(Chars, MaxLen)
    BY DEF KeyCases
  <2> QED BY <2>1, BoundedSeqIsSeq, PrefixFindsVolume
<1> QED BY <1>1, CasesAreInputs, PTL

(* Attachments that differ have different keys. *)
THEOREM KeysAlwaysExact == Spec => []KeysExact
<1>1. CaseInv => KeysExact
  <2> SUFFICES ASSUME kind = "key", case \in KeyCases
               PROVE  KeysDiffer(case.u, case.g, case.w, case.h)
    BY DEF CaseInv, KeysExact
  <2>1. /\ case.u \in BoundedSeq(Chars, MaxLen) /\ case.w \in BoundedSeq(Chars, MaxLen)
        /\ case.g \in BoundedSeq(Chars, MaxLen) /\ case.h \in BoundedSeq(Chars, MaxLen)
    BY DEF KeyCases
  <2> QED BY <2>1, BoundedSeqIsSeq, KeyIsInjective
<1> QED BY <1>1, CasesAreInputs, PTL

(* References are accepted and cut as documented. *)
THEOREM ParseAlwaysExact == Spec => []ParseExact
<1>1. CaseInv => ParseExact
  <2> SUFFICES ASSUME case \in RefCases PROVE ParsesAsDocumented(case.target)
    BY DEF CaseInv, ParseExact
  <2> QED BY RefsAreStrings, TargetsAreParsed
<1> QED BY <1>1, CasesAreInputs, PTL

(* A snapshot's reference stays in the repository of the base. *)
THEOREM RetagAlwaysExact == Spec => []RetagExact
<1>1. CaseInv => RetagExact
  <2> SUFFICES ASSUME case \in RefCases PROVE RetagKeepsRepository(case.target, case.tag)
    BY DEF CaseInv, RetagExact
  <2> QED BY RefsAreStrings, RetaggedInRepository
<1> QED BY <1>1, CasesAreInputs, PTL

(* The loopback and *.local are reached without TLS, and no other host.    *)
THEOREM LocalAlwaysExact == Spec => []LocalExact
<1>1. CaseInv => LocalExact
  <2> SUFFICES ASSUME case \in RefCases PROVE PlainHttpIfLocal(case.target)
    BY DEF CaseInv, LocalExact
  <2> QED BY RefsAreStrings, LocalWithoutTLS
<1> QED BY <1>1, CasesAreInputs, PTL

(* A command line is rewritten in place, word by word. *)
THEOREM RewriteAlwaysExact == Spec => []RewriteExact
<1>1. CaseInv => RewriteExact
  <2> SUFFICES ASSUME case \in LineCases PROVE RewritesInPlace(case)
    BY DEF CaseInv, RewriteExact
  <2> QED BY BoundedSeqIsSeq, LinesAreRewritten DEF LineCases
<1> QED BY <1>1, CasesAreInputs, PTL
=============================================================================
