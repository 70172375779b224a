------------------------------- MODULE OciRef -------------------------------
(***************************************************************************)
(* References to images, oci://host[:port]/repository:tag: how the driver  *)
(* takes one apart (parseOCITarget, hostIsLocal in                         *)
(* src/builtin/govolume.go), and how a snapshot makes a new one of the     *)
(* base (retagOCIRef in src/builtin/govolume_oci.go).                      *)
(*                                                                         *)
(* A string is a sequence.  Only the separators are single characters; any *)
(* other element stands for a run of letters, digits and dots.             *)
(***************************************************************************)
EXTENDS Naturals, SequencesExt

CONSTANTS Slash, Colon,
          Oci,          \* the letters before the colon of oci://
          LocalHosts,   \* the three names of the loopback
          DotLocal      \* the suffix .local

ASSUME SeparatorsAssumption == Slash # Colon /\ Oci \notin {Slash, Colon}

Scheme == <<Oci, Colon, Slash, Slash>>

(* What parseOCITarget and retagOCIRef return beside an error. *)
Refused == [host |-> <<>>, http |-> FALSE, repo |-> <<>>, tag |-> <<>>]
NoRef == <<>>

Has(s, ch) == \E i \in 1..Len(s) : s[i] = ch
IndexOf(s, ch) == SelectInSeq(s, LAMBDA x : x = ch)
LastIndexOf(s, ch) == SelectLastInSeq(s, LAMBDA x : x = ch)
Before(s, i) == SubSeq(s, 1, i - 1)
After(s, i) == SubSeq(s, i + 1, Len(s))

LocalName(h) == h \in {<<l>> : l \in LocalHosts} \/ IsSuffix(<<DotLocal>>, h)

(* Mutant of hostIsLocal: the port is not cut off. *)
hostIsLocalWithPort(host) == LocalName(host)

(* What follows the last colon is taken for a port.                        *)
hostIsLocal(host) ==
  LET colon == LastIndexOf(host, Colon)
      h == IF colon = 0 THEN host ELSE Before(host, colon)
  IN LocalName(h)

(* Mutant of parseOCITarget: the tag begins at the first colon. *)
parseAtFirstColon(target) ==
  LET rest == After(target, Len(Scheme))
      slash == IndexOf(rest, Slash)
      path == After(rest, slash)
      colon == IndexOf(path, Colon)
      host == Before(rest, slash)
      repo == Before(path, colon)
      tag == After(path, colon)
  IN IF /\ IsPrefix(Scheme, target)
        /\ slash # 0 /\ colon # 0
        /\ <<>> \notin {host, repo, tag}
     THEN [host |-> host, http |-> hostIsLocal(host), repo |-> repo, tag |-> tag]
     ELSE Refused

(* The host ends at the first slash, the tag begins at the last colon.     *)
parseOCITarget(target) ==
  LET rest == After(target, Len(Scheme))
      slash == IndexOf(rest, Slash)
      path == After(rest, slash)
      colon == LastIndexOf(path, Colon)
      host == Before(rest, slash)
      repo == Before(path, colon)
      tag == After(path, colon)
  IN IF /\ IsPrefix(Scheme, target)
        /\ slash # 0 /\ colon # 0
        /\ <<>> \notin {host, repo, tag}
     THEN [host |-> host, http |-> hostIsLocal(host), repo |-> repo, tag |-> tag]
     ELSE Refused

(* Mutant of retagOCIRef: the colon is cut off with the tag. *)
retagWithoutColon(ref, newTag) ==
  LET colon == LastIndexOf(ref, Colon)
  IN IF /\ newTag # <<>>
        /\ IsPrefix(Scheme, ref)
        /\ colon > LastIndexOf(ref, Slash)
     THEN Before(ref, colon) \o newTag
     ELSE NoRef

(* The tag is what follows the last colon, if no slash does.               *)
retagOCIRef(ref, newTag) ==
  LET colon == LastIndexOf(ref, Colon)
  IN IF /\ newTag # <<>>
        /\ IsPrefix(Scheme, ref)
        /\ colon > LastIndexOf(ref, Slash)
     THEN SubSeq(ref, 1, colon) \o newTag
     ELSE NoRef

-----------------------------------------------------------------------------
(* The ways to cut t into scheme, host, repository and tag, none of them   *)
(* empty, with no slash in the host and no colon in the tag.               *)
Cuts(t) ==
  {cut \in (1..Len(t)) \X (1..Len(t)) :
     /\ IsPrefix(Scheme, t)
     /\ Len(Scheme) + 1 < cut[1] /\ cut[1] + 1 < cut[2] /\ cut[2] < Len(t)
     /\ t[cut[1]] = Slash /\ t[cut[2]] = Colon
     /\ ~Has(SubSeq(t, Len(Scheme) + 1, cut[1] - 1), Slash)
     /\ ~Has(After(t, cut[2]), Colon)}

(* "must be oci://host/repo:tag": a target is accepted exactly if it can   *)
(* be cut into these parts, and it is cut where it can be.                 *)
ParsesAsDocumented(t) ==
  LET p == parseOCITarget(t)
  IN /\ p = Refused <=> Cuts(t) = {}
     /\ \A cut \in Cuts(t) :
          /\ p.host = SubSeq(t, Len(Scheme) + 1, cut[1] - 1)
          /\ p.repo = SubSeq(t, cut[1] + 1, cut[2] - 1)
          /\ p.tag = After(t, cut[2])

(* "keeping host + repo, so a snapshot lands in the same repository under  *)
(* a new version tag": for names a tag can have, which hold no separator.  *)
(* What a base that can be retagged is the driver can also parse, before   *)
(* and after.                                                              *)
RetagKeepsRepository(t, newTag) ==
  LET p == parseOCITarget(t)
      q == parseOCITarget(retagOCIRef(t, newTag))
  IN p # Refused /\ newTag # <<>> /\ ~Has(p.tag, Slash)
       /\ ~Has(newTag, Slash) /\ ~Has(newTag, Colon)
     => q = [p EXCEPT !.tag = newTag]

(* "The host is reached over http:// for loopback / *.local and https://   *)
(* otherwise", whatever its port; for hosts that hold no colon themselves. *)
PlainHttpIfLocal(t) ==
  LET p == parseOCITarget(t)
      name == Before(p.host, IndexOf(p.host \o <<Colon>>, Colon))
  IN p # Refused /\ ~Has(After(p.host, Len(name) + 1), Colon)
     => (p.http <=> LocalName(name))
=============================================================================
