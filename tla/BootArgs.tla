------------------------------ MODULE BootArgs ------------------------------
(***************************************************************************)
(* What StartVM tells QEMU: the boot configuration it assembles from the   *)
(* VM directory (src/builtin/qemu.go) and the arguments buildArgs makes of *)
(* it (src/builtin/args.go).                                               *)
(*                                                                         *)
(* A kernel command line is the sequence of its words.  An argument is a   *)
(* flag with its text, a sequence of atoms: the characters that mean       *)
(* something to QEMU or to a path, "," " " "=" "/" ".", are atoms of their *)
(* own, and so are digits; any other atom is a run of characters.          *)
(***************************************************************************)
EXTENDS Integers, FiniteSets, SequencesExt

CONSTANT NoArgs       \* stands for an error

hostArch(goarch) ==
  CASE goarch = "arm64" -> "aarch64" [] goarch = "amd64" -> "x86_64" [] OTHER -> goarch

(* The options with the defaults filled in, for a driver built for goarch. *)
NewHypervisor(o, goarch) ==
  [arch   |-> IF o.arch = "" THEN hostArch(goarch) ELSE o.arch,
   accel  |-> IF o.accel = "" THEN "tcg" ELSE o.accel,
   cpus   |-> IF o.cpus = 0 THEN 1 ELSE o.cpus,
   memMiB |-> IF o.memMiB = 0 THEN 512 ELSE o.memMiB]

machineType(arch) == IF arch = "aarch64" THEN "virt" ELSE "q35"

(* Mutant of defaultCmdline: one serial port for every machine. *)
defaultCmdlineX86(arch) == <<"console=ttyS0", "panic=-1">>

defaultCmdline(arch) ==
  <<IF arch = "aarch64" THEN "console=ttyAMA0" ELSE "console=ttyS0", "panic=-1">>

pickCmdline(supplied, def) == IF supplied # <<>> THEN supplied ELSE def
readCPUs(cfg, def) == IF cfg.cpus > 0 THEN cfg.cpus ELSE IF def > 0 THEN def ELSE 1
readMem(cfg, def) == IF cfg.memMiB > 0 THEN cfg.memMiB ELSE def

(* Mutant of rewriteCmdlineForQEMU: a hint that is there stays there. *)
rewriteKeepsHint(tokens) ==
  Append([i \in DOMAIN tokens |->
            IF tokens[i] = "console=hvc0" THEN "console=ttyAMA0" ELSE tokens[i]],
         "weft.transport=9p")

(* The i-th word is read, and written over those already read if it stays. *)
keepWord(out, i) ==
  LET t == out.array[i]
  IN IF t = "weft.transport=9p" THEN out
     ELSE [array |-> [out.array EXCEPT ![out.len + 1] =
                        IF t = "console=hvc0" THEN "console=ttyAMA0" ELSE t],
           len |-> out.len + 1]

(* The one array, and how much of it is written, after each word. *)
readWords(tokens) ==
  LET out[i \in 0..Len(tokens)] ==
        IF i = 0 THEN [array |-> tokens, len |-> 0] ELSE keepWord(out[i - 1], i)
  IN out

(* The hint is appended when all words have been read. *)
rewriteCmdlineForQEMU(tokens) ==
  LET out == readWords(tokens)[Len(tokens)]
  IN Append(SubSeq(out.array, 1, out.len), "weft.transport=9p")

(* StartVM's bootConfig.  config.json is read three times: for the CPUs,   *)
(* the memory and everything else; a file that is missing or cannot be     *)
(* read gives a configuration of zero values, and no error.                *)
bootConfig(opts, vmDir, cfg, cfgCPUs, cfgMem, initrd, disk) ==
  LET cmdline == pickCmdline(cfg.cmdline, defaultCmdline(opts.arch))
  IN [arch |-> opts.arch, accel |-> opts.accel, cpu |-> "",
      cpus |-> readCPUs(cfgCPUs, opts.cpus), memMiB |-> readMem(cfgMem, opts.memMiB),
      kernel |-> vmDir \o <<"/", "kernel">>,
      initrd |-> IF initrd THEN vmDir \o <<"/", "initrd">> ELSE <<>>,
      cmdline |-> IF cfg.microVM THEN rewriteCmdlineForQEMU(cmdline) ELSE cmdline,
      disks |-> IF disk THEN <<[path |-> vmDir \o <<"/", "disk.img">>,
                                readOnly |-> FALSE]>> ELSE <<>>,
      consolePath |-> vmDir \o <<"/", "console.log">>,
      netUser |-> TRUE, fwd |-> <<>>,
      shares |-> IF cfg.microVM THEN cfg.shares ELSE <<>>,
      pciPassthrough |-> cfg.pciPassthrough, migPassthrough |-> cfg.migDevices,
      vsockCID |-> cfg.vsockCID]

-----------------------------------------------------------------------------
(* buildArgs *)

(* What stands between the properties of an option. *)
Comma == ","

(* Mutant of validVFIOToken: a comma may pass. *)
validUnlessPath(s) ==
  /\ \A i \in 1..Len(s) : s[i] \notin {" ", "=", "/"}
  /\ ~\E i \in 1..Len(s) - 1 : s[i] = "." /\ s[i + 1] = "."

validVFIOToken(s) ==
  /\ \A i \in 1..Len(s) : s[i] \notin {Comma, " ", "=", "/"}
  /\ ~\E i \in 1..Len(s) - 1 : s[i] = "." /\ s[i + 1] = "."

(* Numbers are written out in digits.                                      *)
Digits == <<"0", "1", "2", "3", "4", "5", "6", "7", "8", "9">>
decimal[n \in Nat] ==
  IF n < 10 THEN <<Digits[n + 1]>> ELSE Append(decimal[n \div 10], Digits[(n % 10) + 1])

property(key, val) == <<key, "=">> \o val
option(key, val) == <<Comma>> \o property(key, val)
readonly(x) == IF x.readOnly THEN option("readonly", <<"on">>) ELSE <<>>

drive(i, d) ==
  <<<<"-drive", property("file", d.path) \o option("if", <<"virtio">>)
                \o option("format", <<"raw">>)
                \o option("id", <<"disk">> \o decimal[i - 1]) \o readonly(d)>>>>

hostfwd(i, f) ==
  option("hostfwd", <<IF f.proto = "" THEN "tcp" ELSE f.proto, "::">> \o decimal[f.hostPort]
                    \o <<"-:">> \o decimal[f.guestPort])

fsShare(id, s) ==
  <<<<"-fsdev", <<"local">> \o option("id", id) \o option("path", s.path)
                \o option("security_model", <<"none">>) \o readonly(s)>>,
    <<"-device", <<"virtio-9p-pci">> \o option("fsdev", id) \o option("mount_tag", s.tag)>>>>

(* Mutant of share: all shares have one id. *)
shareOneId(i, s) == fsShare(<<"fs", "0">>, s)

(* A share is two arguments, which its id holds together. *)
share(i, s) == fsShare(<<"fs">> \o decimal[i - 1], s)

(* An empty token is passed over. *)
vfio(key, dir, token) ==
  IF token = <<>> THEN <<>> ELSE <<<<"-device", <<"vfio-pci">> \o option(key, dir \o token)>>>>

Devices == <<"/", "sys", "/", "bus", "/", "mdev", "/", "devices", "/">>
pci(i, token) == vfio("host", <<>>, token)
mig(i, token) == vfio("sysfsdev", Devices, token)

Each(op(_, _), s) == FlattenSeq([i \in DOMAIN s |-> op(i, s[i])])
Opt(flag, text) == IF text = <<>> THEN <<>> ELSE <<<<flag, text>>>>

machine(b) ==
  <<<<"-machine", <<machineType(b.arch)>>>>,
    <<"-accel", <<IF b.accel = "" THEN "tcg" ELSE b.accel>>>>,
    <<"-cpu", <<IF b.cpu = "" THEN "max" ELSE b.cpu>>>>,
    <<"-smp", decimal[IF b.cpus < 1 THEN 1 ELSE b.cpus]>>,
    <<"-m", decimal[IF b.memMiB < 1 THEN 512 ELSE b.memMiB]>>,
    <<"-no-reboot", <<>>>>, <<"-display", <<"none">>>>,
    <<"-kernel", b.kernel>>>>

network(b) ==
  IF b.netUser
  THEN <<<<"-netdev", <<"user">> \o option("id", <<"net0">>) \o Each(hostfwd, b.fwd)>>,
         <<"-device", <<"virtio-net-pci">> \o option("netdev", <<"net0">>)>>>>
  ELSE <<>>

vsock(b) ==
  IF b.vsockCID = 0 THEN <<>>
  ELSE <<<<"-device", <<"vhost-vsock-pci">> \o option("guest-cid", decimal[b.vsockCID])>>>>

serial(b) ==
  <<<<"-serial", IF b.consolePath = <<>> THEN <<"null">> ELSE <<"file:">> \o b.consolePath>>>>

(* No arguments at all if one share or one device is not well named.       *)
buildArgs(b) ==
  IF \/ b.kernel = <<>> \/ b.arch = ""
     \/ \E i \in DOMAIN b.shares : <<>> \in {b.shares[i].tag, b.shares[i].path}
     \/ \E t \in ToSet(b.pciPassthrough \o b.migPassthrough) : t # <<>> /\ ~validVFIOToken(t)
  THEN NoArgs
  ELSE machine(b) \o Opt("-initrd", b.initrd) \o Opt("-append", b.cmdline)
       \o Each(drive, b.disks) \o network(b) \o Each(share, b.shares) \o vsock(b)
       \o Each(pci, b.pciPassthrough) \o Each(mig, b.migPassthrough) \o serial(b)

-----------------------------------------------------------------------------
(* How QEMU reads its arguments *)

(* The parts of a text between its ends and the separators in it. *)
Ends(text, sep) == {0, Len(text) + 1} \cup {i \in DOMAIN text : text[i] = sep}
Fields(text, sep) ==
  {SubSeq(text, p[1] + 1, p[2] - 1) :
     p \in {q \in Ends(text, sep) \X Ends(text, sep) :
             q[1] < q[2] /\ \A k \in q[1] + 1..q[2] - 1 : text[k] # sep}}

(* What a text says of a property; it names it once or not at all.         *)
Values(text, key) ==
  {SubSeq(f, 3, Len(f)) : f \in {g \in Fields(text, Comma) : IsPrefix(<<key, "=">>, g)}}

(* The places of a flag among the arguments, and those of the devices of a *)
(* driver, the first word of their text.                                   *)
Places(argv, flag) == {i \in DOMAIN argv : argv[i][1] = flag}
DevicesOf(argv, driver) == {i \in Places(argv, "-device") : argv[i][2][1] = driver}

-----------------------------------------------------------------------------
(* The serial port that a machine captures with -serial. *)
SerialPort(type) == IF type = "virt" THEN "console=ttyAMA0" ELSE "console=ttyS0"

(* The command line handed to QEMU is the one of the VM with hvc0 replaced *)
(* by a serial port, which one aside, and one transport hint, at its end;  *)
(* rewriting it again changes nothing.                                     *)
RewritesInPlace(tokens) ==
  LET out == rewriteCmdlineForQEMU(tokens)
      kept == {i \in DOMAIN tokens : tokens[i] # "weft.transport=9p"}
      place(i) == Cardinality({j \in kept : j <= i})
  IN /\ Len(out) = Cardinality(kept) + 1
     /\ out[Len(out)] = "weft.transport=9p"
     /\ \A i \in kept :
          IF tokens[i] = "console=hvc0"
          THEN out[place(i)] \in {SerialPort("virt"), SerialPort("q35")}
          ELSE out[place(i)] = tokens[i]
     /\ rewriteCmdlineForQEMU(out) = out

(* "a malformed entry fails the VM start loudly rather than booting wrong  *)
(* or extra hardware": QEMU gets the claimed devices, in their order, with *)
(* one property each, and none outside the mdev directory.                 *)
BootsClaimedDevices(b) ==
  LET argv == buildArgs(b)
      tokens == b.pciPassthrough \o b.migPassthrough
      claimed == {i \in DOMAIN tokens : tokens[i] # <<>>}
      mdev(i) == i > Len(b.pciPassthrough)
      got == DevicesOf(argv, "vfio-pci")
      rank(S, i) == Cardinality({j \in S : j <= i})
  IN argv # NoArgs =>
       /\ Cardinality(got) = Cardinality(claimed)
       /\ \A g \in got, i \in claimed :
            rank(got, g) = rank(claimed, i) =>
              Fields(argv[g][2], Comma) =
                {<<"vfio-pci">>, IF mdev(i) THEN property("sysfsdev", Devices \o tokens[i])
                                 ELSE property("host", tokens[i])}
       /\ \A i \in claimed : mdev(i) => <<".", ".">> \notin Fields(Devices \o tokens[i], "/")

(* A comma in the path or the tag of a share would begin a new field.      *)
NoCommas(b) ==
  /\ \A i \in DOMAIN b.shares : Comma \notin ToSet(b.shares[i].path \o b.shares[i].tag)
  /\ \A i \in DOMAIN b.disks : Comma \notin ToSet(b.disks[i].path)

(* "fsdev id is the stable bridge between -fsdev and -device": joined by   *)
(* its id, every file system QEMU exports is found under the tag of its    *)
(* share, and read-only if it should be; no two file systems and no two    *)
(* drives have one id.                                                     *)
MountsConfiguredShares(b) ==
  LET argv == buildArgs(b)
      says(i, key) == Values(argv[i][2], key)
      joined == {p \in Places(argv, "-fsdev") \X DevicesOf(argv, "virtio-9p-pci") :
                   says(p[1], "id") = says(p[2], "fsdev")}
      seen == {<<says(p[2], "mount_tag"), says(p[1], "path"),
                 says(p[1], "readonly") = {<<"on">>}>> : p \in joined}
  IN argv # NoArgs /\ NoCommas(b) =>
       /\ seen = {<<{s.tag}, {s.path}, s.readOnly>> : s \in ToSet(b.shares)}
       /\ \A flag \in {"-fsdev", "-drive"} : \A i, j \in Places(argv, flag) :
            says(i, "id") = says(j, "id") => i = j

(* "Rewrite to ttyAMA0 (or ttyS0 on x86_64)": a microVM's command line     *)
(* that names hvc0 comes to name the serial port of its machine.           *)
RewritesToCapturedPort(b, cfg) ==
  cfg.microVM /\ "console=hvc0" \in ToSet(cfg.cmdline)
    => SerialPort(machineType(b.arch)) \in ToSet(b.cmdline)

(* The guest's console is the port QEMU captures to console.log, in two    *)
(* cases: a VM of any machine with the default command line; and a microVM *)
(* on aarch64 whose command line names hvc0.  Nothing is said of an x86_64 *)
(* machine with hvc0, where RewritesToCapturedPort does not hold, nor of a *)
(* command line that names another console or none.                        *)
CapturesConsole(b, cfg) ==
  LET argv == buildArgs(b)
      texts(flag) == {argv[i][2] : i \in Places(argv, flag)}
      hvc0 == cfg.microVM /\ "console=hvc0" \in ToSet(cfg.cmdline)
  IN argv # NoArgs /\ (cfg.cmdline = <<>> \/ (hvc0 /\ b.arch = "aarch64")) =>
       /\ \E type \in texts("-machine"), line \in texts("-append") :
            /\ texts("-machine") = {type} /\ texts("-append") = {line}
            /\ SerialPort(type[1]) \in ToSet(line)
            /\ "console=hvc0" \notin ToSet(line)
       /\ texts("-serial") = {<<"file:">> \o b.consolePath}
=============================================================================
