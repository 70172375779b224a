----------------------------- MODULE DeviceCopy -----------------------------
(***************************************************************************)
(* copyDevice and readFullAt (src/builtin/govolume.go): a frozen image is  *)
(* copied window by window onto a blank disk, through one buffer that is   *)
(* used again for every window.  The image's reader is outside src/: it    *)
(* may return fewer bytes than asked for, EOF with or without bytes, or    *)
(* fail; without an error it returns one byte at least.                    *)
(***************************************************************************)
EXTENDS Integers, Sequences

CONSTANTS Win,      \* window size, 1 MiB in the code
          Bytes     \* byte values; 0 is a hole

ASSUME WinAssumption == Win \in Nat \ {0}
ASSUME BytesAssumption == 0 \in Bytes

VARIABLES src,      \* the image
          dst,      \* the disk, at least as large, all holes at first
          buf,      \* the buffer
          off,      \* offset of the window
          got,      \* bytes of the window read so far
          pc

vars == <<src, dst, buf, off, got, pc>>

n == Len(src)
Smaller(a, b) == IF a < b THEN a ELSE b
m == Smaller(Win, n - off)      \* length of the window

TypeOK ==
  /\ src \in Seq(Bytes)
  /\ dst \in Seq(Bytes) /\ Len(dst) >= n
  /\ buf \in [1..Win -> Bytes]
  /\ off \in Nat /\ got \in 0..Win
  /\ pc \in {"window", "read", "write", "done", "failed"}

(* An image of at most `size` bytes, a disk of that many.                  *)
InitOf(size) ==
  /\ \E k \in 0..size : src \in [1..k -> Bytes]
  /\ dst = [i \in 1..size |-> 0]
  /\ buf = [i \in 1..Win |-> 0]
  /\ off = 0 /\ got = 0
  /\ pc = "window"

(* The head of the loop. *)
Window ==
  /\ pc = "window"
  /\ pc' = IF off < n THEN "read" ELSE "done"
  /\ got' = 0
  /\ UNCHANGED <<src, dst, buf, off>>

(* Mutant of Read: EOF ends a window that is not full. *)
ReadShortEOF(k, err) ==
  /\ pc = "read"
  /\ k \in 0..(m - got)
  /\ k = 0 => err # "nil"
  /\ buf' = [i \in 1..Win |->
               IF i \in (got + 1)..(got + k) THEN src[off + i] ELSE buf[i]]
  /\ got' = got + k
  /\ pc' = IF err = "nil" THEN (IF got' = m THEN "write" ELSE "read")
           ELSE IF err = "EOF" THEN "write"
           ELSE "failed"
  /\ UNCHANGED <<src, dst, off>>

(* One call of ReadAt, which delivers k bytes and perhaps an error.        *)
Read(k, err) ==
  /\ pc = "read"
  /\ k \in 0..(m - got)
  /\ k = 0 => err # "nil"
  /\ buf' = [i \in 1..Win |->
               IF i \in (got + 1)..(got + k) THEN src[off + i] ELSE buf[i]]
  /\ got' = got + k
  /\ pc' = IF err = "nil" THEN (IF got' = m THEN "write" ELSE "read")
           ELSE IF err = "EOF" /\ got' = m THEN "write"
           ELSE "failed"
  /\ UNCHANGED <<src, dst, off>>

(* Mutant of Skip: a hole is skipped before the offset moves. *)
SkipStays ==
  /\ pc = "write"
  /\ \A i \in 1..m : buf[i] = 0
  /\ pc' = "window"
  /\ UNCHANGED <<src, dst, buf, off, got>>

(* equalBytes with zeroes: the window is a hole and is not written.        *)
Skip ==
  /\ pc = "write"
  /\ \A i \in 1..m : buf[i] = 0
  /\ off' = off + Win
  /\ pc' = "window"
  /\ UNCHANGED <<src, dst, buf, got>>

(* Mutant of Write: the disk ends with the window. *)
WriteTruncates ==
  /\ pc = "write"
  /\ \E i \in 1..m : buf[i] # 0
  /\ dst' = [i \in 1..(off + m) |->
               IF i > off THEN buf[i - off] ELSE dst[i]]
  /\ off' = off + Win
  /\ pc' = "window"
  /\ UNCHANGED <<src, buf, got>>

Write ==
  /\ pc = "write"
  /\ \E i \in 1..m : buf[i] # 0
  /\ dst' = [i \in DOMAIN dst |->
               IF i \in (off + 1)..(off + m) THEN buf[i - off] ELSE dst[i]]
  /\ off' = off + Win
  /\ pc' = "window"
  /\ UNCHANGED <<src, buf, got>>

(* WriteAt fails; any part of the window may have been written.            *)
WriteFails ==
  /\ pc = "write"
  /\ \E i \in 1..m : buf[i] # 0
  /\ \E W \in SUBSET (1..m) :
       dst' = [i \in DOMAIN dst |-> IF i - off \in W THEN buf[i - off] ELSE dst[i]]
  /\ pc' = "failed"
  /\ UNCHANGED <<src, buf, off, got>>

Next ==
  \/ Window \/ Skip \/ Write \/ WriteFails
  \/ \E k \in 0..Win, err \in {"nil", "EOF", "error"} : Read(k, err)
-----------------------------------------------------------------------------
(* However the reads are cut up, the disk shows the image up to the window *)
(* at hand and holes from there on; when the copy is done, the whole image *)
(* and holes up to the size of the disk.  After a failure the window at    *)
(* hand may be written in part: each of its bytes is the image's or a      *)
(* hole, never a byte of another window that the buffer still held.        *)
CopyExact ==
  LET done == Smaller(off, n)
  IN /\ \A i \in DOMAIN dst :
          \/ dst[i] = IF i <= done THEN src[i] ELSE 0
          \/ pc = "failed" /\ i \in (off + 1)..(off + m) /\ dst[i] = src[i]
     /\ pc = "done" => done = n
=============================================================================
