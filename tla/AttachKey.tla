----------------------------- MODULE AttachKey ------------------------------
(***************************************************************************)
(* The key of v.servers (src/builtin/govolume.go): volume and host UUID    *)
(* joined by a separator, and the prefix test that DestroyVolume and       *)
(* liveOverlay use to find the keys of a volume.  Strings are sequences.   *)
(***************************************************************************)
EXTENDS Naturals, Sequences

CONSTANTS Chars, Bar      \* characters, the separator among them

ASSUME BarAssumption == Bar \in Chars

(* Mutant of attachKey: there is no separator. *)
joined(volumeUUID, hostUUID) == volumeUUID \o hostUUID

attachKey(volumeUUID, hostUUID) == volumeUUID \o <<Bar>> \o hostUUID

(* Mutant of hasVolumePrefix: the separator is not tested. *)
hasPrefix(key, volumeUUID) ==
  /\ Len(key) > Len(volumeUUID)
  /\ SubSeq(key, 1, Len(volumeUUID)) = volumeUUID

hasVolumePrefix(key, volumeUUID) ==
  /\ Len(key) > Len(volumeUUID)
  /\ SubSeq(key, 1, Len(volumeUUID)) = volumeUUID
  /\ key[Len(volumeUUID) + 1] = Bar

(* A volume UUID that does not hold the separator; a host UUID may.        *)
Plain(u) == \A i \in 1..Len(u) : u[i] # Bar

(* The prefix test finds the keys of the volume and no others: not those   *)
(* of a volume whose UUID begins or ends alike.                            *)
PrefixMeansVolume(u, w, h) ==
  Plain(u) /\ Plain(w) => (hasVolumePrefix(attachKey(w, h), u) <=> u = w)

(* Two attachments have the same key only if they are the same.            *)
KeysDiffer(u, g, w, h) ==
  Plain(u) /\ Plain(w) => (attachKey(u, g) = attachKey(w, h) <=> u = w /\ g = h)
=============================================================================
