---------------------------- MODULE MCAlgorithms ----------------------------
(***************************************************************************)
(* The algorithms of the driver, side by side: the copy loop of DeviceCopy *)
(* for images of up to Size bytes, and the pure functions of AttachKey,    *)
(* OciRef and BootArgs, each put to a set of bounded inputs.  A state that *)
(* holds an input is reached from the start of the copy of an empty image. *)
(***************************************************************************)
EXTENDS DeviceCopy, AttachKey, OciRef, BootArgs

CONSTANTS Size,     \* bound: the size of the disk
          MaxLen,   \* bound: the longest UUID
          NoCase    \* no input is looked at

VARIABLES kind,     \* which function is looked at
          case      \* its input

mcVars == <<vars, kind, case>>

(* Two volumes and their hosts. *)
KeyCases == [u : BoundedSeq(Chars, MaxLen), w : BoundedSeq(Chars, MaxLen),
             g : BoundedSeq(Chars, MaxLen), h : BoundedSeq(Chars, MaxLen)]

(* References with up to seven parts behind the scheme, enough for a host  *)
(* with a port, and some without a scheme.                                 *)
Parts == LocalHosts \cup {DotLocal, Slash, Colon}
RefCases == [target : {Scheme \o s : s \in BoundedSeq(Parts, 7)}
                        \cup BoundedSeq({Oci, Slash, Colon}, 5),
             tag : {<<"v">>}]

(* Command lines of up to five words. *)
LineCases == BoundedSeq({"console=hvc0", "console=ttyAMA0", "weft.transport=9p", "quiet"}, 5)

(* What config.json, the options and the VM directory may say.             *)
NoConfig == [cmdline |-> <<>>, cpus |-> 0, memMiB |-> 0, microVM |-> FALSE,
             shares |-> <<>>, pciPassthrough |-> <<>>, migDevices |-> <<>>, vsockCID |-> 0]

Share == [tag : {<<>>, <<"a">>, <<"b">>}, path : {<<>>, <<"p">>, <<"p", Comma, "q">>},
          readOnly : BOOLEAN]
Token == BoundedSeq({"a", Comma, "=", "/", "."}, 3)
Names == {<<>>, <<"a">>, <<"b">>, <<"a", Comma>>}

Configs ==
  {[NoConfig EXCEPT !.microVM = v, !.cmdline = l, !.cpus = c, !.vsockCID = c] :
     v \in BOOLEAN, l \in BoundedSeq({"console=hvc0", "quiet"}, 2), c \in {0, 2}}
  \cup {[NoConfig EXCEPT !.microVM = TRUE, !.shares = s] : s \in BoundedSeq(Share, 2)}
  \cup {[NoConfig EXCEPT !.pciPassthrough = p, !.migDevices = t] :
          p \in BoundedSeq(Names, 2), t \in BoundedSeq(Names, 1)}
  \cup {[NoConfig EXCEPT !.pciPassthrough = p, !.migDevices = t] :
          p \in BoundedSeq({<<"a">>}, 1), t \in BoundedSeq(Token, 1)}

BootCases == [cfg : Configs, goarch : {"arm64", "amd64"}, disk : BOOLEAN]

boot(c) ==
  bootConfig(NewHypervisor([arch |-> "", accel |-> "", cpus |-> 0, memMiB |-> 0], c.goarch),
             <<"vm">>, c.cfg, c.cfg, c.cfg, FALSE, c.disk)

Init == InitOf(Size) /\ kind = "copy" /\ case = NoCase

Copy == kind = "copy" /\ Next /\ UNCHANGED <<kind, case>>

Choose ==
  /\ kind = "copy" /\ pc = "window" /\ src = <<>>
  /\ \/ kind' = "key" /\ case' \in KeyCases
     \/ kind' = "ref" /\ case' \in RefCases
     \/ kind' = "line" /\ case' \in LineCases
     \/ kind' = "boot" /\ case' \in BootCases
  /\ UNCHANGED vars

Spec == Init /\ [][Copy \/ Choose]_mcVars /\ WF_mcVars(Copy)
-----------------------------------------------------------------------------
(* The loop ends, whatever the sizes: the last window is cut short.        *)
CopyEnds == <>(kind # "copy" \/ pc \in {"done", "failed"})

(* The prefix test finds the keys of its volume and no others.             *)
PrefixExact == kind = "key" => PrefixMeansVolume(case.u, case.w, case.h)

(* Attachments that differ have different keys.                            *)
KeysExact == kind = "key" => KeysDiffer(case.u, case.g, case.w, case.h)

(* parseOCITarget accepts exactly oci://host/repo:tag, cut where it says.  *)
ParseExact == kind = "ref" => ParsesAsDocumented(case.target)

(* A snapshot's reference names the base's repository under the new tag.   *)
RetagExact == kind = "ref" => RetagKeepsRepository(case.target, case.tag)

(* Plain http for the loopback and for *.local, at any port.               *)
LocalExact == kind = "ref" => PlainHttpIfLocal(case.target)

(* The rewriting in place loses no word and keeps their order, is rid of   *)
(* hvc0 and gives one hint; it is idempotent.                              *)
RewriteExact == kind = "line" => RewritesInPlace(case)

(* QEMU gets the passthrough devices that were claimed and no others.      *)
ClaimedDevices == kind = "boot" => BootsClaimedDevices(boot(case))

(* The guest finds every share of its configuration under its tag.         *)
SharesMounted == kind = "boot" => MountsConfiguredShares(boot(case))

(* The kernel's console is captured in console.log, with the default       *)
(* command line, and with one that names hvc0 on aarch64.                  *)
ConsoleCaptured == kind = "boot" => CapturesConsole(boot(case), case.cfg)

(* A command line that is rewritten names the port of its machine.         *)
ConsoleRewritten == kind = "boot" => RewritesToCapturedPort(boot(case), case.cfg)
=============================================================================
