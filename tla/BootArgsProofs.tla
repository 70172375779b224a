--------------------------- MODULE BootArgsProofs ---------------------------
(***************************************************************************)
(* The arguments a VM boots with, for configurations of any size: QEMU,    *)
(* reading them its own way, gets the devices, the shares and the console  *)
(* that were configured.  The properties of MCAlgorithms follow.           *)
(***************************************************************************)
EXTENDS ArgumentProofs

-----------------------------------------------------------------------------
(* The arguments of a VM *)

(* The atoms that the driver itself writes. *)
Words ==
  {Comma, "=", "virt", "q35", "tcg", "max", "none", "readonly", "on", "file", "if", "virtio",
   "format", "raw", "id", "disk", "hostfwd", "tcp", "::", "-:", "user", "net0", "netdev",
   "virtio-net-pci", "local", "path", "security_model", "fsdev", "mount_tag", "fs",
   "virtio-9p-pci", "vhost-vsock-pci", "guest-cid", "vfio-pci", "host", "sysfsdev",
   "/", "sys", "bus", "mdev", "devices", "null", "file:",
   "-machine", "-accel", "-cpu", "-smp", "-m", "-no-reboot", "-display", "-kernel", "-initrd",
   "-append", "-drive", "-netdev", "-device", "-fsdev", "-serial"} \cup DigitChars

(* The boot configurations over the atoms in A: any numbers of any things. *)
BootConfigs(A) ==
  [arch : A, accel : A, cpu : A, cpus : Int, memMiB : Int,
   kernel : Seq(A), initrd : Seq(A), cmdline : Seq(A),
   disks : Seq([path : Seq(A), readOnly : BOOLEAN]), consolePath : Seq(A),
   netUser : BOOLEAN, fwd : Seq([proto : A, hostPort : Nat, guestPort : Nat]),
   shares : Seq([tag : Seq(A), path : Seq(A), readOnly : BOOLEAN]),
   pciPassthrough : Seq(Seq(A)), migPassthrough : Seq(Seq(A)), vsockCID : Nat]

(* Arguments, and those of a flag and of a device. *)
Args(A) == A \X Seq(A)
Flagged(A, flag) == {x \in Args(A) : x[1] = flag}
Device(A, driver) == {x \in Flagged(A, "-device") : x[2][1] = driver}

(* The only flags and drivers in s are those in F and D. *)
Only(s, F, D) ==
  \A i \in 1..Len(s) : s[i][1] \in F /\ (s[i][1] = "-device" => s[i][2][1] \in D)

(* What is not among the only flags or drivers is not there. *)
LEMMA OnlyNone ==
  ASSUME NEW A, NEW s, NEW F, NEW D, Only(s, F, D)
  PROVE  /\ \A flag : flag \notin F => None(s, Flagged(A, flag))
         /\ \A driver : driver \notin D => None(s, Device(A, driver))
  BY DEF Only, None, Flagged, Device

(* A number is a text that is not empty and has no comma. *)
LEMMA Numbers ==
  ASSUME NEW A, DigitChars \subseteq A, NEW L \in Nat
  PROVE  decimal[L] \in Seq(A) /\ decimal[L] # <<>> /\ NoComma(decimal[L])
<1> DEFINE d == decimal[L]
<1>1. d \in Seq(DigitChars) /\ d # <<>>
  BY DecimalDigits
<1>2. Comma \notin DigitChars
  BY Zenon DEF Comma, DigitChars
<1> HIDE DEF d
<1>3. d \in Seq(A) /\ \A i \in 1..Len(d) : d[i] \in DigitChars
  BY <1>1
<1> QED BY <1>1, <1>2, <1>3 DEF NoComma, d

(* One and two arguments. *)
LEMMA OneArg ==
  ASSUME NEW A, NEW flag \in A, NEW text \in Seq(A)
  PROVE  LET s == <<<<flag, text>>>>
         IN /\ s \in Seq(Args(A)) /\ Len(s) = 1 /\ s[1] = <<flag, text>>
            /\ s[1][1] = flag /\ s[1][2] = text
  BY DEF Args

(* A flag and its text are an argument. *)
LEMMA TextIs ==
  ASSUME NEW A, NEW flag \in A, NEW text \in Seq(A)
  PROVE  <<flag, text>> \in Args(A)
  BY DEF Args

(* An optional argument is there if its text is not empty. *)
LEMMA OptTyped ==
  ASSUME NEW A, NEW flag \in A, NEW text \in Seq(A), flag # "-device"
  PROVE  /\ Opt(flag, text) \in Seq(Args(A)) /\ Only(Opt(flag, text), {flag}, {})
         /\ text # <<>> => Picks(Opt(flag, text), Flagged(A, flag), <<<<flag, text>>>>)
<1>1. CASE text = <<>>
  <2>1. Opt(flag, text) = <<>> /\ <<>> \in Seq(Args(A)) /\ Len(<<>>) = 0
    BY <1>1 DEF Opt
  <2>2. Only(<<>>, {flag}, {})
    BY DEF Only
  <2> QED BY <1>1, <2>1, <2>2
<1>2. CASE text # <<>>
  <2> DEFINE s == <<<<flag, text>>>>
  <2>1. Opt(flag, text) = s
    BY <1>2 DEF Opt
  <2>2. s \in Seq(Args(A)) /\ Len(s) = 1 /\ s[1][1] = flag
    BY OneArg
  <2> HIDE DEF s
  <2>3. \A i \in 1..Len(s) : i = 1
    BY <2>2
  <2>4. Only(s, {flag}, {})
    BY <2>2, <2>3 DEF Only
  <2>5. \A i \in 1..Len(s) : s[i] \in Flagged(A, flag)
    <3>1. s[1] \in Args(A)
      BY <2>2
    <3>2. s[1] \in Flagged(A, flag)
      BY <2>2, <3>1 DEF Flagged
    <3> QED BY <2>3, <3>2
  <2>6. Picks(s, Flagged(A, flag), s)
    BY <2>2, <2>5, PicksAll
  <2> QED BY <2>1, <2>2, <2>4, <2>6 DEF s
<1> QED BY <1>1, <1>2

(* The first is picked if no other is a member. *)
LEMMA PicksFirst ==
  ASSUME NEW S, NEW s \in Seq(S), Len(s) # 0, NEW P, s[1] \in P,
         \A i \in 2..Len(s) : s[i] \notin P
  PROVE  Picks(s, P, <<s[1]>>)
<1>1. Len(s) \in Nat /\ 1 \in 1..Len(s) /\ \A i \in 1..Len(s) : i = 1 \/ i \in 2..Len(s)
  OBVIOUS
<1>2. At(s, P) = {1}
  BY <1>1 DEF At
<1>3. {j \in {1} : j <= 1} = {1}
  OBVIOUS
<1>4. Cardinality({1}) = 1 /\ Rank({1}, 1) = 1
  BY <1>3, FS_Singleton DEF Rank
<1> DEFINE w == <<s[1]>>
<1>5. Len(w) = 1 /\ w[1] = s[1]
  OBVIOUS
<1> HIDE DEF w
<1>6. Picks(s, P, w)
  BY <1>2, <1>4, <1>5 DEF Picks
<1> QED BY <1>6 DEF w

(* A sequence of eight. *)
LEMMA Eight ==
  ASSUME NEW T, NEW a \in T, NEW b \in T, NEW c \in T, NEW d \in T,
         NEW e \in T, NEW f \in T, NEW g \in T, NEW h \in T
  PROVE  LET s == <<a, b, c, d, e, f, g, h>>
         IN /\ s \in Seq(T) /\ Len(s) = 8 /\ s[1] = a
            /\ \A i \in 1..8 : s[i] \in {a, b, c, d, e, f, g, h}
            /\ \A i \in 2..8 : s[i] \in {b, c, d, e, f, g, h}
<1> DEFINE s == <<a, b, c, d, e, f, g, h>>
<1>1. s \in Seq(T) /\ Len(s) = 8
  OBVIOUS
<1>2. /\ s[1] = a /\ s[2] = b /\ s[3] = c /\ s[4] = d
      /\ s[5] = e /\ s[6] = f /\ s[7] = g /\ s[8] = h
  OBVIOUS
<1>3. \A i \in 1..8 : i = 1 \/ i = 2 \/ i = 3 \/ i = 4 \/ i = 5 \/ i = 6 \/ i = 7 \/ i = 8
  OBVIOUS
<1>4. \A i \in 2..8 : i = 2 \/ i = 3 \/ i = 4 \/ i = 5 \/ i = 6 \/ i = 7 \/ i = 8
  OBVIOUS
<1> HIDE DEF s
<1>5. \A i \in 1..8 : s[i] \in {a, b, c, d, e, f, g, h}
  BY <1>2, <1>3
<1>6. \A i \in 2..8 : s[i] \in {b, c, d, e, f, g, h}
  BY <1>2, <1>4
<1> QED BY <1>1, <1>2, <1>5, <1>6 DEF s

(* A text of one word. *)
LEMMA OneWord ==
  ASSUME NEW A, NEW w \in A
  PROVE  LET s == <<w>> IN s \in Seq(A) /\ Len(s) = 1 /\ s[1] = w
  OBVIOUS

(* The first arguments, with the machine among them. *)
LEMMA MachineTyped ==
  ASSUME NEW A, Words \subseteq A, NEW b \in BootConfigs(A)
  PROVE  /\ machine(b) \in Seq(Args(A))
         /\ Only(machine(b), {"-machine", "-accel", "-cpu", "-smp", "-m", "-no-reboot",
                              "-display", "-kernel"}, {})
         /\ Picks(machine(b), Flagged(A, "-machine"), <<<<"-machine", <<machineType(b.arch)>>>>>>)
<1> DEFINE t1 == <<machineType(b.arch)>>
           t2 == <<IF b.accel = "" THEN "tcg" ELSE b.accel>>
           t3 == <<IF b.cpu = "" THEN "max" ELSE b.cpu>>
           t4 == decimal[IF b.cpus < 1 THEN 1 ELSE b.cpus]
           t5 == decimal[IF b.memMiB < 1 THEN 512 ELSE b.memMiB]
           t6 == <<>>
           t7 == <<"none">>
           t8 == b.kernel
<1>0. /\ b.accel \in A /\ b.cpu \in A /\ b.cpus \in Int /\ b.memMiB \in Int
      /\ b.kernel \in Seq(A)
  BY DEF BootConfigs
<1>1. /\ "virt" \in A /\ "q35" \in A /\ "tcg" \in A /\ "max" \in A /\ "none" \in A
      /\ DigitChars \subseteq A
  BY DEF Words
<1>2. machineType(b.arch) \in A
  BY <1>1 DEF machineType
<1>3. /\ t1 \in Seq(A) /\ t2 \in Seq(A) /\ t3 \in Seq(A) /\ t6 \in Seq(A) /\ t7 \in Seq(A)
      /\ t8 \in Seq(A)
  <2>1. (IF b.accel = "" THEN "tcg" ELSE b.accel) \in A /\ (IF b.cpu = "" THEN "max" ELSE b.cpu) \in A
    BY <1>0, <1>1
  <2>2. t1 \in Seq(A) /\ t7 \in Seq(A)
    BY <1>1, <1>2, OneWord
  <2>3. t2 \in Seq(A) /\ t3 \in Seq(A)
    BY <2>1, OneWord, Zenon
  <2>4. t6 \in Seq(A) /\ t8 \in Seq(A)
    BY <1>0
  <2> QED BY <2>2, <2>3, <2>4
<1>4. t4 \in Seq(A) /\ t5 \in Seq(A)
  <2>1. (IF b.cpus < 1 THEN 1 ELSE b.cpus) \in Nat /\ (IF b.memMiB < 1 THEN 512 ELSE b.memMiB) \in Nat
    BY <1>0
  <2> QED BY <1>1, <2>1, Numbers
<1> DEFINE x1 == <<"-machine", t1>>
           x2 == <<"-accel", t2>>
           x3 == <<"-cpu", t3>>
           x4 == <<"-smp", t4>>
           x5 == <<"-m", t5>>
           x6 == <<"-no-reboot", t6>>
           x7 == <<"-display", t7>>
           x8 == <<"-kernel", t8>>
           s == <<x1, x2, x3, x4, x5, x6, x7, x8>>
<1>5. machine(b) = s
  BY DEF machine
<1> HIDE DEF t1, t2, t3, t4, t5, t6, t7, t8
<1>6. /\ "-machine" \in A /\ "-accel" \in A /\ "-cpu" \in A /\ "-smp" \in A
      /\ "-m" \in A /\ "-no-reboot" \in A /\ "-display" \in A /\ "-kernel" \in A
  BY DEF Words
<1>7. /\ x1 \in Args(A) /\ x2 \in Args(A) /\ x3 \in Args(A) /\ x4 \in Args(A)
      /\ x5 \in Args(A) /\ x6 \in Args(A) /\ x7 \in Args(A) /\ x8 \in Args(A)
  BY <1>3, <1>4, <1>6, TextIs
<1>8. /\ x1[1] = "-machine" /\ x2[1] = "-accel" /\ x3[1] = "-cpu" /\ x4[1] = "-smp"
      /\ x5[1] = "-m" /\ x6[1] = "-no-reboot" /\ x7[1] = "-display" /\ x8[1] = "-kernel"
  OBVIOUS
<1> HIDE DEF x1, x2, x3, x4, x5, x6, x7, x8
<1>9. /\ s \in Seq(Args(A)) /\ Len(s) = 8 /\ s[1] = x1
      /\ \A i \in 1..8 : s[i] \in {x1, x2, x3, x4, x5, x6, x7, x8}
      /\ \A i \in 2..8 : s[i] \in {x2, x3, x4, x5, x6, x7, x8}
  BY <1>7, Eight
<1> HIDE DEF s
<1>10. Only(s, {"-machine", "-accel", "-cpu", "-smp", "-m", "-no-reboot",
                "-display", "-kernel"}, {})
  BY <1>8, <1>9 DEF Only
<1>11. Picks(s, Flagged(A, "-machine"), <<s[1]>>)
  <2>1. s[1] \in Flagged(A, "-machine") /\ \A i \in 2..Len(s) : s[i] \notin Flagged(A, "-machine")
    BY <1>7, <1>8, <1>9 DEF Flagged
  <2> QED BY <1>9, <2>1, PicksFirst
<1> QED BY <1>5, <1>9, <1>10, <1>11 DEF x1, t1

(* The elements of a sequence. *)
LEMMA Elements ==
  ASSUME NEW S, NEW s \in Seq(S)
  PROVE  DOMAIN s = 1..Len(s) /\ Len(s) \in Nat /\ \A i \in DOMAIN s : s[i] \in S
  OBVIOUS

(* Sequences joined are a sequence of the same things. *)
LEMMA FlatTyped ==
  ASSUME NEW S, NEW seqs \in Seq(Seq(S))
  PROVE  FlattenSeq(seqs) \in Seq(S)
<1>1. PICK f \in [0..Len(seqs) -> Seq(S)] : FlattenSeq(seqs) = f[Len(seqs)]
  BY Flattening
<1>2. Len(seqs) \in 0..Len(seqs)
  OBVIOUS
<1> QED BY <1>1, <1>2

(* A word at the start of a text stays there. *)
LEMMA StartsWith ==
  ASSUME NEW A, NEW t \in Seq(A), t # <<>>, NEW o \in Seq(A)
  PROVE  t \o o \in Seq(A) /\ t \o o # <<>> /\ (t \o o)[1] = t[1]
<1> DEFINE u == t \o o
<1>1. u \in Seq(A) /\ Len(u) = Len(t) + Len(o) /\ \A k \in 1..Len(t) : u[k] = t[k]
  BY Joined
<1>2. Len(t) \in Nat /\ Len(o) \in Nat /\ Len(t) # 0 /\ 1 \in 1..Len(t)
  OBVIOUS
<1> HIDE DEF u
<1>3. u # <<>>
  BY <1>1, <1>2
<1> QED BY <1>1, <1>2, <1>3 DEF u

(* A sequence of two. *)
LEMMA Two ==
  ASSUME NEW T, NEW a \in T, NEW b \in T
  PROVE  LET s == <<a, b>>
         IN s \in Seq(T) /\ Len(s) = 2 /\ s[1] = a /\ s[2] = b /\ \A i \in 1..2 : s[i] \in {a, b}
<1> DEFINE s == <<a, b>>
<1>1. s \in Seq(T) /\ Len(s) = 2 /\ s[1] = a /\ s[2] = b
  OBVIOUS
<1>2. \A i \in 1..2 : i = 1 \/ i = 2
  OBVIOUS
<1> HIDE DEF s
<1>3. \A i \in 1..2 : s[i] \in {a, b}
  BY <1>1, <1>2
<1> QED BY <1>1, <1>3 DEF s

(* An option is a text. *)
LEMMA OptionTyped ==
  ASSUME NEW A, Words \subseteq A, NEW key \in A, NEW val \in Seq(A)
  PROVE  option(key, val) \in Seq(A)
<1>1. Comma \in A /\ "=" \in A
  BY DEF Words
<1> QED BY <1>1, PropertyText

(* The arguments of the network. *)
LEMMA NetworkTyped ==
  ASSUME NEW A, Words \subseteq A, NEW b \in BootConfigs(A)
  PROVE  /\ network(b) \in Seq(Args(A))
         /\ Only(network(b), {"-netdev", "-device"}, {"virtio-net-pci"})
<1>1. /\ "user" \in A /\ "id" \in A /\ "net0" \in A /\ "netdev" \in A /\ "virtio-net-pci" \in A
      /\ "hostfwd" \in A /\ "tcp" \in A /\ "::" \in A /\ "-:" \in A /\ DigitChars \subseteq A
      /\ "-netdev" \in A /\ "-device" \in A
  BY DEF Words
<1>2. ASSUME NEW i, NEW f \in [proto : A, hostPort : Nat, guestPort : Nat]
      PROVE  hostfwd(i, f) \in Seq(A)
  <2> DEFINE p == IF f.proto = "" THEN "tcp" ELSE f.proto
             v == <<p, "::">>
             K == <<"-:">>
             d == decimal[f.hostPort]
             e == decimal[f.guestPort]
  <2>1. p \in A /\ d \in Seq(A) /\ e \in Seq(A)
    BY <1>1, Numbers
  <2> HIDE DEF p, d, e
  <2>2. v \in Seq(A)
    BY <1>1, <2>1
  <2>3. K \in Seq(A)
    BY <1>1
  <2> HIDE DEF v, K
  <2>4. v \o d \o K \o e \in Seq(A)
    BY <2>1, <2>2, <2>3
  <2>5. hostfwd(i, f) = option("hostfwd", v \o d \o K \o e)
    BY DEF hostfwd, v, K, p, d, e
  <2> QED BY <1>1, <2>4, <2>5, OptionTyped
<1>3. Each(hostfwd, b.fwd) \in Seq(A)
  <2> DEFINE F == [i \in DOMAIN b.fwd |-> hostfwd(i, b.fwd[i])]
  <2>1. b.fwd \in Seq([proto : A, hostPort : Nat, guestPort : Nat])
    BY DEF BootConfigs
  <2>2. \A i \in DOMAIN b.fwd : hostfwd(i, b.fwd[i]) \in Seq(A)
    <3>1. \A i \in DOMAIN b.fwd : b.fwd[i] \in [proto : A, hostPort : Nat, guestPort : Nat]
      BY <2>1, Elements, Zenon
    <3> QED BY <1>2, <3>1
  <2>3. F \in Seq(Seq(A))
    BY <2>1, <2>2
  <2>4. Each(hostfwd, b.fwd) = FlattenSeq(F)
    BY DEF Each
  <2> HIDE DEF F
  <2> QED BY <2>3, <2>4, FlatTyped
<1> DEFINE t == <<"user">> \o option("id", <<"net0">>) \o Each(hostfwd, b.fwd)
           u == <<"virtio-net-pci">> \o option("netdev", <<"net0">>)
           x == <<"-netdev", t>>
           y == <<"-device", u>>
           s == <<x, y>>
<1>4. t \in Seq(A)
  <2> DEFINE w == <<"user">>
             L == <<"net0">>
  <2>1. w \in Seq(A) /\ L \in Seq(A)
    BY <1>1
  <2> HIDE DEF w, L
  <2>2. option("id", L) \in Seq(A)
    BY <1>1, <2>1, OptionTyped
  <2>3. w \o option("id", L) \o Each(hostfwd, b.fwd) \in Seq(A)
    BY <1>3, <2>1, <2>2
  <2> QED BY <2>3 DEF w, L
<1>5. u \in Seq(A) /\ u[1] = "virtio-net-pci"
  <2> DEFINE w == <<"virtio-net-pci">>
             L == <<"net0">>
  <2>1. w \in Seq(A) /\ L \in Seq(A) /\ w # <<>> /\ w[1] = "virtio-net-pci"
    BY <1>1
  <2> HIDE DEF w, L
  <2>2. option("netdev", L) \in Seq(A)
    BY <1>1, <2>1, OptionTyped
  <2>3. w \o option("netdev", L) \in Seq(A) /\ (w \o option("netdev", L))[1] = w[1]
    BY <2>1, <2>2, StartsWith
  <2> QED BY <2>1, <2>3 DEF w, L
<1> HIDE DEF t, u
<1>6. x \in Args(A) /\ y \in Args(A) /\ x[1] = "-netdev" /\ y[1] = "-device" /\ y[2] = u
  BY <1>1, <1>4, <1>5, TextIs
<1> HIDE DEF x, y
<1>7. s \in Seq(Args(A)) /\ Len(s) = 2 /\ \A i \in 1..2 : s[i] \in {x, y}
  BY <1>6, Two
<1>8. network(b) = IF b.netUser THEN s ELSE <<>>
  BY DEF network, s, x, y, t, u
<1> HIDE DEF s
<1>9. Only(s, {"-netdev", "-device"}, {"virtio-net-pci"})
  BY <1>5, <1>6, <1>7 DEF Only
<1>10. <<>> \in Seq(Args(A)) /\ Only(<<>>, {"-netdev", "-device"}, {"virtio-net-pci"})
  BY DEF Only
<1> QED BY <1>7, <1>8, <1>9, <1>10

(* The argument of the vsock. *)
LEMMA VsockTyped ==
  ASSUME NEW A, Words \subseteq A, NEW b \in BootConfigs(A)
  PROVE  vsock(b) \in Seq(Args(A)) /\ Only(vsock(b), {"-device"}, {"vhost-vsock-pci"})
<1> DEFINE w == <<"vhost-vsock-pci">>
           d == decimal[b.vsockCID]
           t == w \o option("guest-cid", d)
           s == <<<<"-device", t>>>>
<1>1. "vhost-vsock-pci" \in A /\ "guest-cid" \in A /\ DigitChars \subseteq A /\ "-device" \in A
  BY DEF Words
<1>2. d \in Seq(A)
  <2>1. b.vsockCID \in Nat
    BY DEF BootConfigs
  <2> QED BY <1>1, <2>1, Numbers
<1>3. w \in Seq(A) /\ w # <<>> /\ w[1] = "vhost-vsock-pci"
  BY <1>1
<1> HIDE DEF w, d
<1>4. t \in Seq(A) /\ t[1] = "vhost-vsock-pci"
  <2>1. option("guest-cid", d) \in Seq(A)
    BY <1>1, <1>2, OptionTyped
  <2> QED BY <1>3, <2>1, StartsWith
<1> HIDE DEF t
<1>5. /\ s \in Seq(Args(A)) /\ Len(s) = 1 /\ s[1][1] = "-device" /\ s[1][2] = t
  BY <1>1, <1>4, OneArg
<1>6. vsock(b) = IF b.vsockCID = 0 THEN <<>> ELSE s
  BY DEF vsock, s, t, w, d
<1> HIDE DEF s
<1>7. Only(s, {"-device"}, {"vhost-vsock-pci"})
  <2>1. \A i \in 1..Len(s) : i = 1
    BY <1>5
  <2> QED BY <1>4, <1>5, <2>1 DEF Only
<1>8. <<>> \in Seq(Args(A)) /\ Only(<<>>, {"-device"}, {"vhost-vsock-pci"})
  BY DEF Only
<1> QED BY <1>5, <1>6, <1>7, <1>8

(* The argument of the console. *)
LEMMA SerialTyped ==
  ASSUME NEW A, Words \subseteq A, NEW b \in BootConfigs(A)
  PROVE  /\ serial(b) \in Seq(Args(A)) /\ Only(serial(b), {"-serial"}, {})
         /\ b.consolePath # <<>> =>
              Picks(serial(b), Flagged(A, "-serial"),
                    <<<<"-serial", <<"file:">> \o b.consolePath>>>>)
<1> DEFINE f == <<"file:">>
           L == <<"null">>
           t == IF b.consolePath = <<>> THEN L ELSE f \o b.consolePath
           s == <<<<"-serial", t>>>>
<1>1. "file:" \in A /\ "null" \in A /\ "-serial" \in A
  BY DEF Words
<1>2. b.consolePath \in Seq(A)
  BY DEF BootConfigs
<1>3. f \in Seq(A) /\ L \in Seq(A)
  BY <1>1
<1> HIDE DEF f, L
<1>4. t \in Seq(A)
  BY <1>2, <1>3
<1>5. serial(b) = s
  BY DEF serial, s, t, f, L
<1>6. b.consolePath # <<>> => s = <<<<"-serial", <<"file:">> \o b.consolePath>>>>
  BY DEF s, t, f
<1> HIDE DEF t
<1>7. s \in Seq(Args(A)) /\ Len(s) = 1 /\ s[1][1] = "-serial"
  BY <1>1, <1>4, OneArg
<1> HIDE DEF s
<1>8. \A i \in 1..Len(s) : i = 1
  BY <1>7
<1>9. Only(s, {"-serial"}, {}) /\ \A i \in 1..Len(s) : s[i] \in Flagged(A, "-serial")
  BY <1>7, <1>8 DEF Only, Flagged
<1>10. Picks(s, Flagged(A, "-serial"), s)
  BY <1>7, <1>9, PicksAll
<1> QED BY <1>5, <1>6, <1>7, <1>9, <1>10

(* The driver's words are not commas. *)
LEMMA NotComma ==
  /\ "file" # Comma /\ "if" # Comma /\ "virtio" # Comma /\ "format" # Comma /\ "raw" # Comma
  /\ "id" # Comma /\ "disk" # Comma /\ "readonly" # Comma /\ "on" # Comma /\ "local" # Comma
  /\ "path" # Comma /\ "security_model" # Comma /\ "none" # Comma /\ "fs" # Comma
  /\ "virtio-9p-pci" # Comma /\ "fsdev" # Comma /\ "mount_tag" # Comma
  /\ "vfio-pci" # Comma /\ "host" # Comma /\ "sysfsdev" # Comma
  /\ "/" # Comma /\ "sys" # Comma /\ "bus" # Comma /\ "mdev" # Comma /\ "devices" # Comma
  BY Zenon DEF Comma

(* A word is a text. *)
LEMMA WordText ==
  ASSUME NEW A, NEW w \in A, w # Comma
  PROVE  <<w>> \in Seq(A) /\ NoComma(<<w>>) /\ <<w>> # <<>> /\ <<w>>[1] = w
<1> DEFINE s == <<w>>
<1>1. s \in Seq(A) /\ Len(s) = 1 /\ s[1] = w /\ s # <<>>
  OBVIOUS
<1> HIDE DEF s
<1>2. \A i \in 1..Len(s) : i = 1
  BY <1>1
<1>3. NoComma(s)
  BY <1>1, <1>2 DEF NoComma
<1> QED BY <1>1, <1>3 DEF s

(* A text goes on with an option. *)
LEMMA GoesOn ==
  ASSUME NEW A, Words \subseteq A, NEW text \in Seq(A), text # <<>>,
         NEW key \in A, NEW val \in Seq(A)
  PROVE  /\ text \o option(key, val) \in Seq(A) /\ text \o option(key, val) # <<>>
         /\ (text \o option(key, val))[1] = text[1]
         /\ key # Comma /\ NoComma(val) =>
              /\ \A k \in A : k # key => Values(text \o option(key, val), k) = Values(text, k)
              /\ Values(text \o option(key, val), key) = Values(text, key) \cup {val}
<1>1. Comma \in A /\ "=" \in A
  BY DEF Words
<1>2. option(key, val) \in Seq(A)
  BY OptionTyped
<1>3. ASSUME key # Comma, NoComma(val), NEW k \in A
      PROVE  Values(text \o option(key, val), k)
               = Values(text, k) \cup (IF k = key THEN {val} ELSE {})
  BY <1>1, <1>3, ValuesOption
<1>4. ASSUME key # Comma, NoComma(val), NEW k \in A, k # key
      PROVE  Values(text \o option(key, val), k) = Values(text, k)
  BY <1>3, <1>4
<1>5. ASSUME key # Comma, NoComma(val)
      PROVE  Values(text \o option(key, val), key) = Values(text, key) \cup {val}
  BY <1>3, <1>5
<1>6. /\ text \o option(key, val) \in Seq(A) /\ text \o option(key, val) # <<>>
      /\ (text \o option(key, val))[1] = text[1]
  BY <1>2, StartsWith
<1> QED BY <1>4, <1>5, <1>6, Zenon

(* A text goes on with readonly, or as it is. *)
LEMMA GoesOnReadonly ==
  ASSUME NEW A, Words \subseteq A, NEW text \in Seq(A), text # <<>>, NEW x, x.readOnly \in BOOLEAN
  PROVE  /\ text \o readonly(x) \in Seq(A) /\ text \o readonly(x) # <<>>
         /\ (text \o readonly(x))[1] = text[1]
         /\ \A k \in A : k # "readonly" => Values(text \o readonly(x), k) = Values(text, k)
         /\ Values(text \o readonly(x), "readonly")
              = Values(text, "readonly") \cup (IF x.readOnly THEN {<<"on">>} ELSE {})
<1>1. "readonly" \in A /\ "on" \in A
  BY DEF Words
<1> DEFINE on == <<"on">>
<1>2. on \in Seq(A) /\ NoComma(on)
  BY <1>1, NotComma, WordText
<1> HIDE DEF on
<1>3. CASE x.readOnly
  <2>1. readonly(x) = option("readonly", on)
    BY <1>3 DEF readonly, on
  <2> DEFINE u == text \o option("readonly", on)
  <2>2. /\ u \in Seq(A) /\ u # <<>> /\ u[1] = text[1]
        /\ \A k \in A : k # "readonly" => Values(u, k) = Values(text, k)
        /\ Values(u, "readonly") = Values(text, "readonly") \cup {on}
    BY <1>1, <1>2, NotComma, GoesOn
  <2> QED BY <1>3, <2>1, <2>2 DEF on
<1>4. CASE ~x.readOnly
  <2>1. readonly(x) = <<>>
    BY <1>4 DEF readonly
  <2>2. text \o <<>> = text
    OBVIOUS
  <2> QED BY <1>4, <2>1, <2>2
<1> QED BY <1>3, <1>4

(* Texts without commas, joined. *)
LEMMA NoCommaJoin ==
  ASSUME NEW A, NEW s \in Seq(A), NoComma(s), NEW t \in Seq(A), NoComma(t)
  PROVE  s \o t \in Seq(A) /\ NoComma(s \o t)
<1>1. None(s, {Comma}) /\ None(t, {Comma})
  BY DEF None, NoComma
<1>2. None(s \o t, {Comma})
  BY <1>1, NoneJoin
<1>3. s \o t \in Seq(A)
  OBVIOUS
<1> QED BY <1>2, <1>3 DEF None, NoComma

(* An id is made of a word and a number. *)
LEMMA IdOf ==
  ASSUME NEW A, Words \subseteq A, NEW w \in A, w # Comma
  PROVE  \A L \in Nat : /\ <<w>> \o decimal[L] \in Seq(A) /\ NoComma(<<w>> \o decimal[L])
                        /\ \A K \in Nat : <<w>> \o decimal[K] = <<w>> \o decimal[L] => K = L
<1> DEFINE s == <<w>>
<1>1. s \in Seq(A) /\ NoComma(s)
  BY WordText
<1> HIDE DEF s
<1>2. \A L \in Nat : decimal[L] \in Seq(A) /\ NoComma(decimal[L])
  <2>1. DigitChars \subseteq A
    BY DEF Words
  <2> QED BY <2>1, Numbers
<1>3. \A d \in Seq(A) : NoComma(d) => s \o d \in Seq(A) /\ NoComma(s \o d)
  BY <1>1, NoCommaJoin
<1>4. ASSUME NEW L \in Nat, NEW K \in Nat, s \o decimal[K] = s \o decimal[L] PROVE K = L
  <2>1. decimal[K] = decimal[L]
    BY <1>1, <1>2, <1>4, ConcatSimplifications
  <2> QED BY <2>1, DecimalInjective
<1> QED BY <1>2, <1>3, <1>4 DEF s

-----------------------------------------------------------------------------
(* Drives *)

(* What an argument says of a drive. *)
DriveText(i, d) ==
  property("file", d.path) \o option("if", <<"virtio">>) \o option("format", <<"raw">>)
  \o option("id", <<"disk">> \o decimal[i - 1]) \o readonly(d)

(* QEMU reads the id of a drive. *)
LEMMA DriveSays ==
  ASSUME NEW A, Words \subseteq A, NEW i \in Nat, i # 0,
         NEW d, d.path \in Seq(A), d.readOnly \in BOOLEAN
  PROVE  /\ DriveText(i, d) \in Seq(A)
         /\ NoComma(d.path) => Values(DriveText(i, d), "id") = {<<"disk">> \o decimal[i - 1]}
<1> DEFINE p == property("file", d.path)
           v == <<"virtio">>
           r == <<"raw">>
           L == <<"disk">> \o decimal[i - 1]
           t1 == p \o option("if", v)
           t2 == t1 \o option("format", r)
           t3 == t2 \o option("id", L)
           t4 == t3 \o readonly(d)
<1>1. /\ "file" \in A /\ "if" \in A /\ "virtio" \in A /\ "format" \in A /\ "raw" \in A
      /\ "id" \in A /\ "disk" \in A /\ Comma \in A /\ "=" \in A
  BY DEF Words
<1>2. v \in Seq(A) /\ NoComma(v) /\ r \in Seq(A) /\ NoComma(r)
  BY <1>1, NotComma, WordText
<1>3. L \in Seq(A) /\ NoComma(L)
  <2>1. i - 1 \in Nat
    OBVIOUS
  <2> QED BY <1>1, <2>1, NotComma, IdOf
<1>4. p \in Seq(A) /\ p # <<>> /\ (NoComma(d.path) => Values(p, "id") = {})
  <2>1. p \in Seq(A) /\ Len(p) = Len(d.path) + 2 /\ Len(d.path) \in Nat
    BY <1>1, PropertyText
  <2>2. NoComma(d.path) => Values(p, "id") = {}
    BY <1>1, NotComma, ValuesFirst
  <2> HIDE DEF p
  <2> QED BY <2>1, <2>2
<1> HIDE DEF p, v, r, L
<1>5. t1 \in Seq(A) /\ t1 # <<>> /\ (NoComma(d.path) => Values(t1, "id") = {})
  <2>1. t1 \in Seq(A) /\ t1 # <<>> /\ \A k \in A : k # "if" => Values(t1, k) = Values(p, k)
    <3>1. "if" \in A /\ "if" # Comma
      BY <1>1, NotComma
    <3> QED BY <1>2, <1>4, <3>1, GoesOn
  <2> QED BY <1>1, <1>4, <2>1
<1> HIDE DEF t1
<1>6. t2 \in Seq(A) /\ t2 # <<>> /\ (NoComma(d.path) => Values(t2, "id") = {})
  <2>1. t2 \in Seq(A) /\ t2 # <<>> /\ \A k \in A : k # "format" => Values(t2, k) = Values(t1, k)
    <3>1. "format" \in A /\ "format" # Comma
      BY <1>1, NotComma
    <3> QED BY <1>2, <1>5, <3>1, GoesOn
  <2> QED BY <1>1, <1>5, <2>1
<1> HIDE DEF t2
<1>7. t3 \in Seq(A) /\ t3 # <<>> /\ (NoComma(d.path) => Values(t3, "id") = {L})
  <2>1. t3 \in Seq(A) /\ t3 # <<>> /\ Values(t3, "id") = Values(t2, "id") \cup {L}
    <3>1. "id" \in A /\ "id" # Comma
      BY <1>1, NotComma
    <3>2. Words \subseteq A
      OBVIOUS
    <3> QED BY ONLY <1>3, <1>6, <3>1, <3>2, GoesOn, SMTT(20) DEF t3
  <2> HIDE DEF t3
  <2> QED BY ONLY <1>6, <2>1
<1> HIDE DEF t3
<1>8. t4 \in Seq(A) /\ (NoComma(d.path) => Values(t4, "id") = {L})
  BY <1>1, <1>7, GoesOnReadonly
<1>9. DriveText(i, d) = t4
  BY DEF DriveText, t4, t3, t2, t1, p, v, r, L
<1> QED BY <1>8, <1>9 DEF L

-----------------------------------------------------------------------------
(* Shares *)

(* What the two arguments of a share say. *)
FsText(id, s) ==
  <<"local">> \o option("id", id) \o option("path", s.path)
  \o option("security_model", <<"none">>) \o readonly(s)
MountText(id, s) ==
  <<"virtio-9p-pci">> \o option("fsdev", id) \o option("mount_tag", s.tag)

(* What QEMU reads of the file system of a share. *)
LEMMA FsSays ==
  ASSUME NEW A, Words \subseteq A, NEW id \in Seq(A), NoComma(id),
         NEW s, s.path \in Seq(A), s.readOnly \in BOOLEAN
  PROVE  /\ FsText(id, s) \in Seq(A)
         /\ NoComma(s.path) =>
              /\ Values(FsText(id, s), "id") = {id}
              /\ Values(FsText(id, s), "path") = {s.path}
              /\ Values(FsText(id, s), "readonly") = IF s.readOnly THEN {<<"on">>} ELSE {}
<1> DEFINE t0 == <<"local">>
           L == <<"none">>
           t1 == t0 \o option("id", id)
           t2 == t1 \o option("path", s.path)
           t3 == t2 \o option("security_model", L)
           t4 == t3 \o readonly(s)
<1>1. /\ "local" \in A /\ "id" \in A /\ "path" \in A /\ "security_model" \in A /\ "none" \in A
      /\ "readonly" \in A /\ Comma \in A /\ "=" \in A
  BY DEF Words
<1>2. /\ t0 \in Seq(A) /\ t0 # <<>>
      /\ Values(t0, "id") = {} /\ Values(t0, "path") = {} /\ Values(t0, "readonly") = {}
  <2>1. "local" # Comma
    BY NotComma
  <2>2. t0 \in Seq(A) /\ t0 # <<>>
    BY <1>1, <2>1, WordText
  <2>3. \A k \in A : Values(t0, k) = {}
    BY <1>1, <2>1, ValuesFirst
  <2> QED BY <1>1, <2>2, <2>3
<1>3. L \in Seq(A) /\ NoComma(L)
  <2>1. "none" # Comma
    BY NotComma
  <2> QED BY <1>1, <2>1, WordText
<1> HIDE DEF t0, L
<1>4. /\ t1 \in Seq(A) /\ t1 # <<>>
      /\ Values(t1, "id") = {id} /\ Values(t1, "path") = {} /\ Values(t1, "readonly") = {}
  <2>1. "id" # Comma
    BY NotComma
  <2>2. /\ t1 \in Seq(A) /\ t1 # <<>> /\ Values(t1, "id") = Values(t0, "id") \cup {id}
        /\ \A k \in A : k # "id" => Values(t1, k) = Values(t0, k)
    <3>1. Words \subseteq A /\ id \in Seq(A) /\ NoComma(id)
      OBVIOUS
    <3> QED BY ONLY <1>1, <1>2, <2>1, <3>1, GoesOn, SMTT(20) DEF t1
  <2> HIDE DEF t1
  <2>3. Values(t1, "path") = Values(t0, "path") /\ Values(t1, "readonly") = Values(t0, "readonly")
    BY <1>1, <2>2
  <2> QED BY ONLY <1>2, <2>2, <2>3
<1> HIDE DEF t1
<1>5. /\ t2 \in Seq(A) /\ t2 # <<>>
      /\ NoComma(s.path) =>
           Values(t2, "id") = {id} /\ Values(t2, "path") = {s.path} /\ Values(t2, "readonly") = {}
  <2>1. "path" # Comma
    BY NotComma
  <2>2. t2 \in Seq(A) /\ t2 # <<>>
    BY <1>1, <1>4, GoesOn
  <2>3. ASSUME NoComma(s.path)
        PROVE  /\ Values(t2, "path") = Values(t1, "path") \cup {s.path}
               /\ \A k \in A : k # "path" => Values(t2, k) = Values(t1, k)
    <3> DEFINE p == s.path
    <3>1. p \in Seq(A) /\ NoComma(p)
      BY <2>3
    <3> HIDE DEF p
    <3>2. /\ Values(t1 \o option("path", p), "path") = Values(t1, "path") \cup {p}
          /\ \A k \in A : k # "path" => Values(t1 \o option("path", p), k) = Values(t1, k)
      <4>1. Words \subseteq A /\ "path" \in A /\ t1 \in Seq(A) /\ t1 # <<>>
        BY <1>1, <1>4
      <4> QED BY ONLY <2>1, <3>1, <4>1, GoesOn
    <3> QED BY <3>2 DEF p
  <2> HIDE DEF t2
  <2> QED BY <1>1, <1>4, <2>2, <2>3
<1> HIDE DEF t2
<1>6. /\ t3 \in Seq(A) /\ t3 # <<>>
      /\ NoComma(s.path) =>
           Values(t3, "id") = {id} /\ Values(t3, "path") = {s.path} /\ Values(t3, "readonly") = {}
  <2>1. "security_model" # Comma
    BY NotComma
  <2>2. /\ t3 \in Seq(A) /\ t3 # <<>>
        /\ \A k \in A : k # "security_model" => Values(t3, k) = Values(t2, k)
    BY <1>1, <1>3, <1>5, <2>1, GoesOn
  <2> HIDE DEF t3
  <2> QED BY <1>1, <1>5, <2>2
<1> HIDE DEF t3
<1>7. /\ t4 \in Seq(A)
      /\ NoComma(s.path) =>
           /\ Values(t4, "id") = {id} /\ Values(t4, "path") = {s.path}
           /\ Values(t4, "readonly") = IF s.readOnly THEN {<<"on">>} ELSE {}
  <2>1. /\ t4 \in Seq(A) /\ \A k \in A : k # "readonly" => Values(t4, k) = Values(t3, k)
        /\ Values(t4, "readonly")
             = Values(t3, "readonly") \cup (IF s.readOnly THEN {<<"on">>} ELSE {})
    BY <1>6, GoesOnReadonly
  <2> HIDE DEF t4
  <2>2. NoComma(s.path) => Values(t4, "id") = {id} /\ Values(t4, "path") = {s.path}
    BY <1>1, <1>6, <2>1
  <2>3. NoComma(s.path) => Values(t4, "readonly") = IF s.readOnly THEN {<<"on">>} ELSE {}
    BY <1>6, <2>1
  <2> QED BY <2>1, <2>2, <2>3
<1>8. FsText(id, s) = t4
  BY DEF FsText, t4, t3, t2, t1, t0, L
<1> QED BY <1>7, <1>8

(* What it reads of the device that mounts it. *)
LEMMA MountSays ==
  ASSUME NEW A, Words \subseteq A, NEW id \in Seq(A), NoComma(id), NEW s, s.tag \in Seq(A)
  PROVE  /\ MountText(id, s) \in Seq(A) /\ MountText(id, s)[1] = "virtio-9p-pci"
         /\ NoComma(s.tag) =>
              /\ Values(MountText(id, s), "fsdev") = {id}
              /\ Values(MountText(id, s), "mount_tag") = {s.tag}
<1> DEFINE t0 == <<"virtio-9p-pci">>
           t1 == t0 \o option("fsdev", id)
           t2 == t1 \o option("mount_tag", s.tag)
<1>1. /\ "virtio-9p-pci" \in A /\ "fsdev" \in A /\ "mount_tag" \in A /\ Comma \in A /\ "=" \in A
  BY DEF Words
<1>2. /\ t0 \in Seq(A) /\ t0 # <<>> /\ t0[1] = "virtio-9p-pci"
      /\ Values(t0, "fsdev") = {} /\ Values(t0, "mount_tag") = {}
  <2>1. "virtio-9p-pci" # Comma
    BY NotComma
  <2>2. t0 \in Seq(A) /\ t0 # <<>> /\ t0[1] = "virtio-9p-pci"
    BY <1>1, <2>1, WordText
  <2>3. \A k \in A : Values(t0, k) = {}
    BY <1>1, <2>1, ValuesFirst
  <2> QED BY <1>1, <2>2, <2>3
<1> HIDE DEF t0
<1>3. /\ t1 \in Seq(A) /\ t1 # <<>> /\ t1[1] = "virtio-9p-pci"
      /\ Values(t1, "fsdev") = {id} /\ Values(t1, "mount_tag") = {}
  <2>1. "fsdev" # Comma
    BY NotComma
  <2>2. /\ t1 \in Seq(A) /\ t1 # <<>> /\ t1[1] = t0[1]
        /\ Values(t1, "fsdev") = Values(t0, "fsdev") \cup {id}
        /\ \A k \in A : k # "fsdev" => Values(t1, k) = Values(t0, k)
    BY <1>1, <1>2, <2>1, GoesOn
  <2> HIDE DEF t1
  <2> QED BY <1>1, <1>2, <2>2
<1> HIDE DEF t1
<1>4. /\ t2 \in Seq(A) /\ t2[1] = "virtio-9p-pci"
      /\ NoComma(s.tag) => Values(t2, "fsdev") = {id} /\ Values(t2, "mount_tag") = {s.tag}
  <2>1. "mount_tag" # Comma
    BY NotComma
  <2>2. t2 \in Seq(A) /\ t2[1] = t1[1]
    BY <1>1, <1>3, GoesOn
  <2>3. NoComma(s.tag) =>
          /\ Values(t2, "mount_tag") = Values(t1, "mount_tag") \cup {s.tag}
          /\ \A k \in A : k # "mount_tag" => Values(t2, k) = Values(t1, k)
    <3> DEFINE tag == s.tag
    <3>1. tag \in Seq(A) /\ Words \subseteq A
      OBVIOUS
    <3> HIDE DEF tag
    <3>2. NoComma(tag) =>
            /\ Values(t1 \o option("mount_tag", tag), "mount_tag")
                 = Values(t1, "mount_tag") \cup {tag}
            /\ \A k \in A : k # "mount_tag" =>
                 Values(t1 \o option("mount_tag", tag), k) = Values(t1, k)
      BY ONLY <1>1, <1>3, <2>1, <3>1, GoesOn, SMTT(20)
    <3> QED BY <3>2 DEF tag
  <2> HIDE DEF t2
  <2>4. NoComma(s.tag) => Values(t2, "fsdev") = Values(t1, "fsdev")
    BY <1>1, <2>3
  <2> QED BY ONLY <1>3, <2>2, <2>3, <2>4
<1>5. MountText(id, s) = t2
  BY DEF MountText, t2, t1, t0
<1> QED BY <1>4, <1>5

-----------------------------------------------------------------------------
(* One after the other *)

(* The arguments that are none of those flags and drivers. *)
Others(A, F, D) == {x \in Args(A) : ~(x[1] \in F /\ (x[1] = "-device" => x[2][1] \in D))}

(* Having only some is having none of the others. *)
LEMMA NoOthers ==
  ASSUME NEW A, NEW s \in Seq(Args(A)), NEW F, NEW D
  PROVE  Only(s, F, D) <=> None(s, Others(A, F, D))
<1> DEFINE S == Args(A)
<1>1. DOMAIN s = 1..Len(s) /\ \A i \in DOMAIN s : s[i] \in S
  BY Elements
<1>2. Others(A, F, D) = {x \in S : ~(x[1] \in F /\ (x[1] = "-device" => x[2][1] \in D))}
  BY DEF Others
<1> HIDE DEF S
<1> QED BY <1>1, <1>2 DEF Only, None

(* The only flags and drivers of many that are joined. *)
LEMMA FlatOnly ==
  ASSUME NEW A, NEW seqs \in Seq(Seq(Args(A))), NEW F, NEW D,
         \A i \in 1..Len(seqs) : Only(seqs[i], F, D)
  PROVE  Only(FlattenSeq(seqs), F, D)
<1>1. \A i \in 1..Len(seqs) : seqs[i] \in Seq(Args(A))
  OBVIOUS
<1>2. \A i \in 1..Len(seqs) : None(seqs[i], Others(A, F, D))
  BY <1>1, NoOthers
<1>3. None(FlattenSeq(seqs), Others(A, F, D)) /\ FlattenSeq(seqs) \in Seq(Args(A))
  BY <1>2, NoneFlat, FlatTyped
<1> QED BY <1>3, NoOthers

(* The only flags and drivers of two that are joined. *)
LEMMA JoinOnly ==
  ASSUME NEW A, NEW s \in Seq(Args(A)), NEW t \in Seq(Args(A)), NEW F, NEW D,
         Only(s, F, D), Only(t, F, D)
  PROVE  s \o t \in Seq(Args(A)) /\ Only(s \o t, F, D)
<1>1. None(s, Others(A, F, D)) /\ None(t, Others(A, F, D))
  BY NoOthers
<1>2. s \o t \in Seq(Args(A)) /\ None(s \o t, Others(A, F, D))
  BY <1>1, NoneJoin
<1> QED BY <1>2, NoOthers

(* What is picked from many, one from each. *)
LEMMA FlatPicks ==
  ASSUME NEW S, NEW seqs \in Seq(Seq(S)), NEW w \in Seq(S), Len(w) = Len(seqs), NEW P,
         \A i \in 1..Len(seqs) : Picks(seqs[i], P, <<w[i]>>)
  PROVE  Picks(FlattenSeq(seqs), P, w)
<1> DEFINE ws == [i \in 1..Len(seqs) |-> <<w[i]>>]
<1>1. ws \in Seq(Seq(S)) /\ Len(ws) = Len(seqs) /\ \A i \in 1..Len(seqs) : ws[i] = <<w[i]>>
  OBVIOUS
<1> HIDE DEF ws
<1>2. Picks(FlattenSeq(seqs), P, FlattenSeq(ws))
  BY <1>1, PicksFlat
<1>3. FlattenSeq(ws) = w
  BY <1>1, FlatOnes
<1> QED BY <1>2, <1>3

(* One of one, the first and the second of two. *)
LEMMA PicksOne ==
  ASSUME NEW S, NEW x \in S, NEW P, x \in P
  PROVE  Picks(<<x>>, P, <<x>>)
<1> DEFINE s == <<x>>
<1>1. s \in Seq(S) /\ \A i \in 1..Len(s) : s[i] \in P
  OBVIOUS
<1> HIDE DEF s
<1> QED BY <1>1, PicksAll DEF s

(* What is picked from two of which one is a member. *)
LEMMA PicksTwo ==
  ASSUME NEW S, NEW x \in S, NEW y \in S, NEW P
  PROVE  /\ x \in P /\ y \notin P => Picks(<<x, y>>, P, <<x>>)
         /\ x \notin P /\ y \in P => Picks(<<x, y>>, P, <<y>>)
<1> DEFINE s == <<x>>
           t == <<y>>
           e == <<>>
<1>1. s \in Seq(S) /\ t \in Seq(S) /\ e \in Seq(S)
  OBVIOUS
<1>0. s \o t = <<x, y>>
  <2> DEFINE u == s \o t
             v == <<x, y>>
  <2>1. /\ u \in Seq(S) /\ Len(u) = Len(s) + Len(t)
        /\ \A k \in 1..Len(s) : u[k] = s[k]
        /\ \A k \in 1..Len(t) : u[Len(s) + k] = t[k]
    BY <1>1, Joined
  <2>2. Len(s) = 1 /\ Len(t) = 1 /\ s[1] = x /\ t[1] = y
    OBVIOUS
  <2>3. v \in Seq(S) /\ Len(v) = 2 /\ v[1] = x /\ v[2] = y
    BY Two
  <2> HIDE DEF s, t, u, v
  <2>4. Len(u) = 2 /\ u[1] = x /\ u[2] = y
    BY <2>1, <2>2
  <2>5. \A i \in 1..2 : i = 1 \/ i = 2
    OBVIOUS
  <2>6. \A i \in 1..Len(u) : u[i] = v[i]
    BY <2>3, <2>4, <2>5
  <2>7. u = v
    BY <2>1, <2>3, <2>4, <2>6, SeqEqual
  <2> QED BY <2>7 DEF u, v
<1>7. s \o e = s /\ e \o t = t
  BY <1>1, ConcatEmptySeq
<1>2. (x \notin P => None(s, P)) /\ (y \notin P => None(t, P))
  <2>1. Len(s) = 1 /\ Len(t) = 1 /\ s[1] = x /\ t[1] = y /\ \A i \in 1..1 : i = 1
    OBVIOUS
  <2> HIDE DEF s, t
  <2> QED BY <2>1 DEF None
<1>3. (x \in P => Picks(s, P, s)) /\ (y \in P => Picks(t, P, t))
  BY PicksOne
<1>4. (x \notin P => Picks(s, P, e)) /\ (y \notin P => Picks(t, P, e))
  BY <1>2, PicksNone
<1> HIDE DEF s, t, e
<1>5. ASSUME x \in P, y \notin P PROVE Picks(<<x, y>>, P, s)
  <2>1. Picks(s \o t, P, s \o e)
    BY <1>1, <1>3, <1>4, <1>5, PicksJoin
  <2> QED BY <1>0, <1>7, <2>1
<1>6. ASSUME x \notin P, y \in P PROVE Picks(<<x, y>>, P, t)
  <2>1. Picks(s \o t, P, e \o t)
    BY <1>1, <1>3, <1>4, <1>6, PicksJoin
  <2> QED BY <1>0, <1>7, <2>1
<1> QED BY <1>5, <1>6 DEF s, t

-----------------------------------------------------------------------------
(* The argument of the i-th drive. *)
DriveArg(b, i) == <<"-drive", DriveText(i, b.disks[i])>>

(* The arguments of the drives: one for each, in their order. *)
LEMMA DrivesTyped ==
  ASSUME NEW A, Words \subseteq A, NEW b \in BootConfigs(A)
  PROVE  LET w == [i \in DOMAIN b.disks |-> DriveArg(b, i)]
         IN /\ Each(drive, b.disks) \in Seq(Args(A))
            /\ Only(Each(drive, b.disks), {"-drive"}, {})
            /\ w \in Seq(Args(A)) /\ Len(w) = Len(b.disks)
            /\ Picks(Each(drive, b.disks), Flagged(A, "-drive"), w)
<1> DEFINE s == b.disks
           w == [i \in DOMAIN s |-> DriveArg(b, i)]
           seqs == [i \in DOMAIN s |-> drive(i, s[i])]
           T == [path : Seq(A), readOnly : BOOLEAN]
<1>1. s \in Seq(T)
  BY DEF BootConfigs
<1>2. DOMAIN s = 1..Len(s) /\ Len(s) \in Nat /\ \A i \in DOMAIN s : s[i] \in T
  BY <1>1, Elements, Zenon
<1>3. \A i \in DOMAIN s : drive(i, s[i]) = <<DriveArg(b, i)>>
  BY DEF drive, DriveArg, DriveText
<1>4. "-drive" \in A
  BY DEF Words
<1>5. Each(drive, s) = FlattenSeq(seqs)
  BY DEF Each
<1> HIDE DEF s
<1>6. \A i \in DOMAIN s : s[i].path \in Seq(A) /\ s[i].readOnly \in BOOLEAN /\ i \in Nat /\ i # 0
  BY <1>2
<1>7. \A i \in DOMAIN s : DriveArg(b, i) \in Args(A) /\ DriveArg(b, i)[1] = "-drive"
  <2>1. \A i \in DOMAIN s : DriveText(i, s[i]) \in Seq(A)
    BY <1>6, DriveSays
  <2> QED BY <1>4, <2>1, TextIs DEF DriveArg, s
<1>8. \A i \in DOMAIN s : seqs[i] \in Seq(Args(A)) /\ seqs[i] = <<DriveArg(b, i)>>
  <2>1. \A i \in DOMAIN s : seqs[i] = <<DriveArg(b, i)>>
    BY <1>3
  <2>2. \A x \in Args(A) : <<x>> \in Seq(Args(A))
    OBVIOUS
  <2> QED BY <1>7, <2>1, <2>2
<1>9. seqs \in Seq(Seq(Args(A))) /\ Len(seqs) = Len(s) /\ DOMAIN seqs = DOMAIN s
  BY <1>2, <1>8
<1>10. w \in Seq(Args(A)) /\ Len(w) = Len(s) /\ \A i \in DOMAIN s : w[i] = DriveArg(b, i)
  BY <1>2, <1>7
<1> HIDE DEF seqs, w
<1>11. \A i \in 1..Len(seqs) : Picks(seqs[i], Flagged(A, "-drive"), <<w[i]>>)
  <2>1. \A i \in DOMAIN s : DriveArg(b, i) \in Flagged(A, "-drive")
    BY <1>7 DEF Flagged
  <2>2. \A i \in DOMAIN s : Picks(<<DriveArg(b, i)>>, Flagged(A, "-drive"), <<DriveArg(b, i)>>)
    BY <1>7, <2>1, PicksOne
  <2> QED BY <1>2, <1>8, <1>9, <1>10, <2>2
<1>12. \A i \in 1..Len(seqs) : Only(seqs[i], {"-drive"}, {})
  <2>1. ASSUME NEW x, x[1] = "-drive" PROVE Only(<<x>>, {"-drive"}, {})
    BY <2>1 DEF Only
  <2> QED BY <1>2, <1>7, <1>8, <1>9, <2>1
<1>13. FlattenSeq(seqs) \in Seq(Args(A)) /\ Only(FlattenSeq(seqs), {"-drive"}, {})
  BY <1>9, <1>12, FlatTyped, FlatOnly
<1>14. Picks(FlattenSeq(seqs), Flagged(A, "-drive"), w)
  BY <1>9, <1>10, <1>11, FlatPicks
<1> QED BY <1>5, <1>10, <1>13, <1>14 DEF w, s

-----------------------------------------------------------------------------
(* The id of the i-th share, and its arguments. *)
FsId(i) == <<"fs">> \o decimal[i - 1]
FsArg(b, i) == <<"-fsdev", FsText(FsId(i), b.shares[i])>>
MountArg(b, i) == <<"-device", MountText(FsId(i), b.shares[i])>>

(* The arguments of the shares: one of each kind for each, in their        *)
(* order.                                                                  *)
LEMMA SharesTyped ==
  ASSUME NEW A, Words \subseteq A, NEW b \in BootConfigs(A)
  PROVE  LET v == [i \in DOMAIN b.shares |-> FsArg(b, i)]
             w == [i \in DOMAIN b.shares |-> MountArg(b, i)]
         IN /\ Each(share, b.shares) \in Seq(Args(A))
            /\ Only(Each(share, b.shares), {"-fsdev", "-device"}, {"virtio-9p-pci"})
            /\ v \in Seq(Args(A)) /\ Len(v) = Len(b.shares)
            /\ w \in Seq(Args(A)) /\ Len(w) = Len(b.shares)
            /\ Picks(Each(share, b.shares), Flagged(A, "-fsdev"), v)
            /\ Picks(Each(share, b.shares), Device(A, "virtio-9p-pci"), w)
<1> DEFINE s == b.shares
           v == [i \in DOMAIN s |-> FsArg(b, i)]
           w == [i \in DOMAIN s |-> MountArg(b, i)]
           seqs == [i \in DOMAIN s |-> share(i, s[i])]
           T == [tag : Seq(A), path : Seq(A), readOnly : BOOLEAN]
           F == {"-fsdev", "-device"}
           D == {"virtio-9p-pci"}
<1>1. s \in Seq(T)
  BY DEF BootConfigs
<1>2. DOMAIN s = 1..Len(s) /\ Len(s) \in Nat /\ \A i \in DOMAIN s : s[i] \in T
  BY <1>1, Elements, Zenon
<1>3. \A i \in DOMAIN s : share(i, s[i]) = <<FsArg(b, i), MountArg(b, i)>>
  BY DEF share, fsShare, FsArg, MountArg, FsId, FsText, MountText
<1>4. "-fsdev" \in A /\ "-device" \in A /\ "fs" \in A
  BY DEF Words
<1>5. Each(share, s) = FlattenSeq(seqs)
  BY DEF Each
<1>6. \A i \in DOMAIN s : FsArg(b, i) = <<"-fsdev", FsText(FsId(i), s[i])>>
                         /\ MountArg(b, i) = <<"-device", MountText(FsId(i), s[i])>>
  BY DEF FsArg, MountArg
<1> HIDE DEF s
<1>7. \A i \in DOMAIN s : /\ s[i].path \in Seq(A) /\ s[i].tag \in Seq(A)
                          /\ s[i].readOnly \in BOOLEAN /\ i - 1 \in Nat
  BY <1>2
<1>8. \A i \in DOMAIN s : FsId(i) \in Seq(A) /\ NoComma(FsId(i))
  <2>1. "fs" # Comma
    BY NotComma
  <2>2. \A L \in Nat : <<"fs">> \o decimal[L] \in Seq(A) /\ NoComma(<<"fs">> \o decimal[L])
    BY <1>4, <2>1, IdOf
  <2> QED BY <1>7, <2>2 DEF FsId
<1>9. \A i \in DOMAIN s : FsText(FsId(i), s[i]) \in Seq(A)
  BY <1>7, <1>8, FsSays
<1>10. \A i \in DOMAIN s : /\ MountText(FsId(i), s[i]) \in Seq(A)
                           /\ MountText(FsId(i), s[i])[1] = "virtio-9p-pci"
  BY <1>7, <1>8, MountSays
<1>11. \A i \in DOMAIN s : FsArg(b, i) \in Args(A) /\ FsArg(b, i)[1] = "-fsdev"
  BY <1>4, <1>6, <1>9, TextIs
<1>12. \A i \in DOMAIN s : /\ MountArg(b, i) \in Args(A) /\ MountArg(b, i)[1] = "-device"
                           /\ MountArg(b, i)[2][1] = "virtio-9p-pci"
  BY <1>4, <1>6, <1>10, TextIs
<1>13. \A i \in DOMAIN s : seqs[i] \in Seq(Args(A)) /\ seqs[i] = <<FsArg(b, i), MountArg(b, i)>>
  <2>1. \A i \in DOMAIN s : seqs[i] = <<FsArg(b, i), MountArg(b, i)>>
    BY <1>3
  <2>2. \A x, y \in Args(A) : <<x, y>> \in Seq(Args(A))
    BY Two
  <2> QED BY <1>11, <1>12, <2>1, <2>2
<1>14. seqs \in Seq(Seq(Args(A))) /\ Len(seqs) = Len(s) /\ DOMAIN seqs = DOMAIN s
  BY <1>2, <1>13
<1>15. v \in Seq(Args(A)) /\ Len(v) = Len(s) /\ \A i \in DOMAIN s : v[i] = FsArg(b, i)
  BY <1>2, <1>11
<1>16. w \in Seq(Args(A)) /\ Len(w) = Len(s) /\ \A i \in DOMAIN s : w[i] = MountArg(b, i)
  BY <1>2, <1>12
<1> HIDE DEF seqs, v, w
<1>17. \A i \in DOMAIN s : /\ FsArg(b, i) \in Flagged(A, "-fsdev")
                           /\ MountArg(b, i) \notin Flagged(A, "-fsdev")
                           /\ FsArg(b, i) \notin Device(A, "virtio-9p-pci")
                           /\ MountArg(b, i) \in Device(A, "virtio-9p-pci")
  BY <1>11, <1>12 DEF Flagged, Device
<1>18. ASSUME NEW i \in DOMAIN s
       PROVE  /\ Picks(seqs[i], Flagged(A, "-fsdev"), <<v[i]>>)
              /\ Picks(seqs[i], Device(A, "virtio-9p-pci"), <<w[i]>>)
              /\ Only(seqs[i], F, D)
  <2> DEFINE x == FsArg(b, i)
             y == MountArg(b, i)
  <2>1. /\ x \in Args(A) /\ y \in Args(A)
        /\ x[1] = "-fsdev" /\ y[1] = "-device" /\ y[2][1] = "virtio-9p-pci"
    BY <1>11, <1>12
  <2>2. /\ x \in Flagged(A, "-fsdev") /\ y \notin Flagged(A, "-fsdev")
        /\ x \notin Device(A, "virtio-9p-pci") /\ y \in Device(A, "virtio-9p-pci")
    BY <1>17
  <2>3. seqs[i] = <<x, y>> /\ v[i] = x /\ w[i] = y
    BY <1>13, <1>15, <1>16
  <2> HIDE DEF x, y
  <2>4. Picks(<<x, y>>, Flagged(A, "-fsdev"), <<x>>)
    BY ONLY <2>1, <2>2, PicksTwo
  <2>5. Picks(<<x, y>>, Device(A, "virtio-9p-pci"), <<y>>)
    BY ONLY <2>1, <2>2, PicksTwo
  <2>6. Only(<<x, y>>, F, D)
    <3> DEFINE q == <<x, y>>
    <3>1. Len(q) = 2 /\ \A j \in 1..2 : q[j] \in {x, y}
      BY <2>1, Two
    <3> HIDE DEF q
    <3>2. Only(q, F, D)
      BY <2>1, <3>1 DEF Only
    <3> QED BY <3>2 DEF q
  <2> QED BY <2>3, <2>4, <2>5, <2>6
<1>19. 1..Len(seqs) = DOMAIN s
  BY <1>2, <1>14
<1>20. \A i \in 1..Len(seqs) : Only(seqs[i], F, D)
  BY <1>18, <1>19
<1>21. FlattenSeq(seqs) \in Seq(Args(A)) /\ Only(FlattenSeq(seqs), F, D)
  <2> HIDE DEF F, D
  <2> QED BY <1>14, <1>20, FlatTyped, FlatOnly
<1>22. Picks(FlattenSeq(seqs), Flagged(A, "-fsdev"), v)
  BY <1>14, <1>15, <1>18, <1>19, FlatPicks
<1>23. Picks(FlattenSeq(seqs), Device(A, "virtio-9p-pci"), w)
  BY <1>14, <1>16, <1>18, <1>19, FlatPicks
<1> QED BY <1>5, <1>15, <1>16, <1>21, <1>22, <1>23 DEF v, w, s

-----------------------------------------------------------------------------
(* Devices passed through *)

(* What an argument says of a device, and the argument or what stands for  *)
(* none.                                                                   *)
VfioText(key, dir, token) == <<"vfio-pci">> \o option(key, dir \o token)
HeldArg(key, dir, token) == IF token = <<>> THEN <<>> ELSE <<"-device", VfioText(key, dir, token)>>

(* A device has one argument, or none if its token is empty. *)
LEMMA VfioArg ==
  ASSUME NEW A, Words \subseteq A, NEW key \in A, NEW dir \in Seq(A), NEW token \in Seq(A)
  PROVE  /\ VfioText(key, dir, token) \in Seq(A) /\ VfioText(key, dir, token)[1] = "vfio-pci"
         /\ <<"-device", VfioText(key, dir, token)>> \in Device(A, "vfio-pci")
         /\ vfio(key, dir, token) \in Seq(Args(A))
         /\ \A i \in 1..Len(vfio(key, dir, token)) :
              vfio(key, dir, token)[i] \in Device(A, "vfio-pci")
         /\ Only(vfio(key, dir, token), {"-device"}, {"vfio-pci"})
<1> DEFINE t == VfioText(key, dir, token)
           L == <<"vfio-pci">>
           x == <<"-device", t>>
           v == vfio(key, dir, token)
<1>1. "-device" \in A /\ "vfio-pci" \in A
  BY DEF Words
<1>2. L \in Seq(A) /\ L # <<>> /\ L[1] = "vfio-pci"
  BY <1>1
<1>3. t \in Seq(A) /\ t[1] = "vfio-pci"
  <2> DEFINE val == dir \o token
  <2>1. val \in Seq(A)
    OBVIOUS
  <2>3. t = L \o option(key, val)
    BY DEF VfioText
  <2> HIDE DEF L, val, t
  <2>2. L \o option(key, val) \in Seq(A) /\ (L \o option(key, val))[1] = L[1]
    BY ONLY Words \subseteq A, key \in A, <1>2, <2>1, GoesOn
  <2> QED BY <1>2, <2>2, <2>3
<1>4. v = IF token = <<>> THEN <<>> ELSE <<x>>
  BY DEF vfio, VfioText
<1> HIDE DEF t, v
<1>5. x \in Args(A) /\ x[1] = "-device" /\ x[2] = t
  BY <1>1, <1>3, TextIs
<1> HIDE DEF x
<1>6. x \in Device(A, "vfio-pci")
  BY <1>3, <1>5 DEF Device, Flagged
<1>7. v \in Seq(Args(A)) /\ \A i \in 1..Len(v) : v[i] = x
  <2>1. CASE token = <<>>
    BY <1>4, <2>1
  <2>2. CASE token # <<>>
    <3>1. v = <<x>>
      BY <1>4, <2>2
    <3> QED BY <1>5, <3>1
  <2> QED BY <2>1, <2>2
<1>8. Only(v, {"-device"}, {"vfio-pci"})
  BY <1>3, <1>5, <1>7 DEF Only
<1> QED BY <1>3, <1>6, <1>7, <1>8 DEF t, v, x

(* An argument, or none. *)
ArgsOrNone(A) == Args(A) \cup {<<>>}

(* The arguments and what is held for them, device after device. *)
Held(key, dir, tokens) == [i \in DOMAIN tokens |-> HeldArg(key, dir, tokens[i])]
Vfios(key, dir, tokens) == FlattenSeq([i \in DOMAIN tokens |-> vfio(key, dir, tokens[i])])

(* The arguments of devices are what is held for them, the empty tokens    *)
(* left out.                                                               *)
LEMMA HeldPicks ==
  ASSUME NEW A, Words \subseteq A, NEW key \in A, NEW dir \in Seq(A), NEW tokens \in Seq(Seq(A))
  PROVE  /\ Held(key, dir, tokens) \in Seq(ArgsOrNone(A))
         /\ Len(Held(key, dir, tokens)) = Len(tokens)
         /\ Vfios(key, dir, tokens) \in Seq(Args(A))
         /\ Only(Vfios(key, dir, tokens), {"-device"}, {"vfio-pci"})
         /\ \A i \in 1..Len(Vfios(key, dir, tokens)) :
              Vfios(key, dir, tokens)[i] \in Device(A, "vfio-pci")
         /\ Picks(Held(key, dir, tokens), Device(A, "vfio-pci"), Vfios(key, dir, tokens))
<1> DEFINE S == ArgsOrNone(A)
           P == Device(A, "vfio-pci")
           I == DOMAIN tokens
           G == [i \in I |-> HeldArg(key, dir, tokens[i])]
           ws == [i \in I |-> vfio(key, dir, tokens[i])]
           seqs == [i \in I |-> <<G[i]>>]
<1>1. I = 1..Len(tokens) /\ Len(tokens) \in Nat /\ \A i \in I : tokens[i] \in Seq(A)
  BY Elements
<1>2. G = Held(key, dir, tokens) /\ FlattenSeq(ws) = Vfios(key, dir, tokens)
  BY DEF Held, Vfios
<1> HIDE DEF I
<1>3. \A i \in I : /\ vfio(key, dir, tokens[i]) \in Seq(Args(A))
                   /\ \A k \in 1..Len(vfio(key, dir, tokens[i])) : vfio(key, dir, tokens[i])[k] \in P
                   /\ Only(vfio(key, dir, tokens[i]), {"-device"}, {"vfio-pci"})
                   /\ <<"-device", VfioText(key, dir, tokens[i])>> \in P
  BY <1>1, VfioArg
<1>4. P \subseteq Args(A) /\ Args(A) \subseteq S /\ <<>> \in S
  BY DEF Device, Flagged, ArgsOrNone
<1>5. <<>> \notin P
  BY DEF Device, Flagged, Args
<1> HIDE DEF P, S
<1>6. \A i \in I : /\ tokens[i] = <<>> => G[i] = <<>> /\ vfio(key, dir, tokens[i]) = <<>>
                   /\ tokens[i] # <<>> =>
                        /\ G[i] \in P /\ vfio(key, dir, tokens[i]) = <<G[i]>>
  <2>1. \A i \in I : tokens[i] = <<>> => G[i] = <<>> /\ vfio(key, dir, tokens[i]) = <<>>
    BY DEF HeldArg, vfio
  <2>2. \A i \in I : tokens[i] # <<>> =>
             /\ G[i] = <<"-device", VfioText(key, dir, tokens[i])>>
             /\ vfio(key, dir, tokens[i]) = <<<<"-device", VfioText(key, dir, tokens[i])>>>>
    BY DEF HeldArg, vfio, VfioText
  <2>3. \A i \in I : <<"-device", VfioText(key, dir, tokens[i])>> \in P
    BY <1>3
  <2> HIDE DEF G
  <2> QED BY <2>1, <2>2, <2>3
<1>7. \A i \in I : G[i] \in S
  BY <1>4, <1>6
<1>8. G \in Seq(S) /\ Len(G) = Len(tokens)
  BY <1>1, <1>7
<1>9. \A x \in S : <<x>> \in Seq(S)
  OBVIOUS
<1>10. /\ seqs \in Seq(Seq(S)) /\ Len(seqs) = Len(tokens) /\ DOMAIN seqs = I
       /\ \A i \in I : seqs[i] = <<G[i]>>
  <2>1. \A i \in I : <<G[i]>> \in Seq(S)
    BY <1>7, <1>9
  <2> HIDE DEF G
  <2> QED BY <1>1, <2>1
<1>11. ws \in Seq(Seq(Args(A))) /\ Len(ws) = Len(tokens) /\ \A i \in I : ws[i] = vfio(key, dir, tokens[i])
  <2>1. \A i \in I : vfio(key, dir, tokens[i]) \in Seq(Args(A))
    BY <1>3
  <2> DEFINE T == Seq(Args(A))
             f(i) == vfio(key, dir, tokens[i])
  <2>2. ws = [i \in I |-> f(i)] /\ \A i \in I : f(i) \in T
    BY <2>1
  <2> HIDE DEF T, f, ws
  <2>3. ws \in Seq(T) /\ Len(ws) = Len(tokens) /\ \A i \in I : ws[i] = f(i)
    BY <1>1, <2>2
  <2> QED BY <2>3 DEF T, f
<1>12. ws \in Seq(Seq(S))
  <2>1. \A q \in Seq(Args(A)) : q \in Seq(S)
    BY <1>4
  <2>2. \A i \in I : ws[i] \in Seq(Args(A))
    BY <1>3, <1>11
  <2>3. \A i \in I : ws[i] \in Seq(S)
    BY <2>1, <2>2
  <2> DEFINE T == Seq(S)
  <2>4. \A i \in I : ws[i] \in T
    BY <2>3
  <2> HIDE DEF T
  <2>5. ws \in Seq(T)
    <3>1. DOMAIN ws = I /\ Len(ws) = Len(tokens)
      BY <1>1, <1>11, Elements
    <3> QED BY <1>1, <1>11, <2>4, <3>1
  <2> QED BY <2>5 DEF T
<1> HIDE DEF G, seqs, ws
<1>13. ASSUME NEW i \in I PROVE Picks(seqs[i], P, ws[i])
  <2>1. CASE tokens[i] = <<>>
    <3>1. None(<<G[i]>>, P)
      <4> DEFINE q == <<G[i]>>
      <4>1. Len(q) = 1 /\ q[1] = G[i] /\ \A k \in 1..1 : k = 1
        OBVIOUS
      <4> HIDE DEF q
      <4>2. None(q, P)
        BY <1>5, <1>6, <2>1, <4>1 DEF None
      <4> QED BY <4>2 DEF q
    <3>2. Picks(<<G[i]>>, P, <<>>)
      BY <3>1, PicksNone
    <3> QED BY <1>6, <1>10, <1>11, <2>1, <3>2
  <2>2. CASE tokens[i] # <<>>
    <3>1. G[i] \in P /\ G[i] \in S
      BY <1>6, <1>7, <2>2
    <3>2. Picks(<<G[i]>>, P, <<G[i]>>)
      BY <3>1, PicksOne
    <3> QED BY <1>6, <1>10, <1>11, <2>2, <3>2
  <2> QED BY <2>1, <2>2
<1>14. Picks(FlattenSeq(seqs), P, FlattenSeq(ws))
  <2>1. \A i \in 1..Len(seqs) : Picks(seqs[i], P, ws[i])
    BY <1>1, <1>10, <1>13
  <2> QED BY <1>10, <1>11, <1>12, <2>1, PicksFlat
<1>15. FlattenSeq(seqs) = G
  <2>1. \A i \in 1..Len(G) : seqs[i] = <<G[i]>>
    BY <1>1, <1>8, <1>10
  <2> QED BY <1>8, <1>10, <2>1, FlatOnes
<1>16. FlattenSeq(ws) \in Seq(Args(A)) /\ Only(FlattenSeq(ws), {"-device"}, {"vfio-pci"})
  <2>1. \A i \in 1..Len(ws) : Only(ws[i], {"-device"}, {"vfio-pci"})
    BY <1>1, <1>3, <1>11
  <2> QED BY <1>11, <2>1, FlatTyped, FlatOnly
<1>17. \A i \in 1..Len(FlattenSeq(ws)) : FlattenSeq(ws)[i] \in P
  <2> DEFINE R == Args(A) \ P
             u == FlattenSeq(ws)
  <2>1. \A i \in 1..Len(ws) : None(ws[i], R)
    BY <1>1, <1>3, <1>11 DEF None
  <2>2. None(u, R)
    <3> HIDE DEF R
    <3> QED BY <1>11, <2>1, NoneFlat
  <2>3. DOMAIN u = 1..Len(u) /\ \A i \in DOMAIN u : u[i] \in Args(A)
    <3>1. u \in Seq(Args(A))
      BY <1>16
    <3> HIDE DEF u
    <3> QED BY <3>1, Elements
  <2> HIDE DEF u
  <2>4. \A i \in 1..Len(u) : u[i] \in P
    BY <2>2, <2>3 DEF None
  <2> QED BY <2>4 DEF u
<1> QED BY <1>2, <1>8, <1>14, <1>15, <1>16, <1>17 DEF P, S

(* The arguments of all devices, and what is held for each token. *)
Passed(b) == Each(pci, b.pciPassthrough) \o Each(mig, b.migPassthrough)
Claims(b) == Held("host", <<>>, b.pciPassthrough) \o Held("sysfsdev", Devices, b.migPassthrough)

(* The mdev directory is a text without commas. *)
LEMMA DevicesTyped ==
  ASSUME NEW A, Words \subseteq A
  PROVE  Devices \in Seq(A) /\ NoComma(Devices)
<1>1. "/" \in A /\ "sys" \in A /\ "bus" \in A /\ "mdev" \in A /\ "devices" \in A
  BY DEF Words
<1>2. "/" # Comma /\ "sys" # Comma /\ "bus" # Comma /\ "mdev" # Comma /\ "devices" # Comma
  BY NotComma
<1>3. Devices \in Seq(A)
  BY <1>1 DEF Devices
<1>4. Len(Devices) = 9 /\ \A i \in 1..9 : Devices[i] \in {"/", "sys", "bus", "mdev", "devices"}
  <2>1. /\ Len(Devices) = 9
        /\ Devices[1] = "/" /\ Devices[2] = "sys" /\ Devices[3] = "/" /\ Devices[4] = "bus"
        /\ Devices[5] = "/" /\ Devices[6] = "mdev" /\ Devices[7] = "/" /\ Devices[8] = "devices"
        /\ Devices[9] = "/"
    BY DEF Devices
  <2>2. \A i \in 1..9 : i = 1 \/ i = 2 \/ i = 3 \/ i = 4 \/ i = 5 \/ i = 6 \/ i = 7 \/ i = 8 \/ i = 9
    OBVIOUS
  <2> QED BY <2>1, <2>2
<1>5. NoComma(Devices)
  BY <1>2, <1>4 DEF NoComma
<1> QED BY <1>3, <1>5

(* The arguments of the devices are those held for the tokens, in their    *)
(* order.                                                                  *)
LEMMA PassedTyped ==
  ASSUME NEW A, Words \subseteq A, NEW b \in BootConfigs(A)
  PROVE  /\ Passed(b) \in Seq(Args(A)) /\ Only(Passed(b), {"-device"}, {"vfio-pci"})
         /\ Picks(Passed(b), Device(A, "vfio-pci"), Passed(b))
         /\ Picks(Claims(b), Device(A, "vfio-pci"), Passed(b))
         /\ Len(Claims(b)) = Len(b.pciPassthrough) + Len(b.migPassthrough)
         /\ \A i \in 1..Len(b.pciPassthrough) :
              Claims(b)[i] = HeldArg("host", <<>>, b.pciPassthrough[i])
         /\ \A i \in 1..Len(b.migPassthrough) :
              Claims(b)[Len(b.pciPassthrough) + i] = HeldArg("sysfsdev", Devices, b.migPassthrough[i])
<1> DEFINE S == ArgsOrNone(A)
           P == Device(A, "vfio-pci")
           e == <<>>
           p == b.pciPassthrough
           K == b.migPassthrough
           g == Held("host", e, p)
           h == Held("sysfsdev", Devices, K)
           u == Vfios("host", e, p)
           v == Vfios("sysfsdev", Devices, K)
<1>1. "host" \in A /\ "sysfsdev" \in A /\ Devices \in Seq(A) /\ e \in Seq(A)
  BY DevicesTyped DEF Words
<1>2. p \in Seq(Seq(A)) /\ K \in Seq(Seq(A))
  BY DEF BootConfigs
<1>3. Each(pci, p) = u /\ Each(mig, K) = v
  BY DEF Each, Vfios, pci, mig
<1>4. Passed(b) = u \o v /\ Claims(b) = g \o h
  BY <1>3 DEF Passed, Claims
<1>5. /\ DOMAIN p = 1..Len(p) /\ \A i \in DOMAIN p : g[i] = HeldArg("host", e, p[i])
      /\ DOMAIN K = 1..Len(K) /\ \A i \in DOMAIN K : h[i] = HeldArg("sysfsdev", Devices, K[i])
  <2>1. DOMAIN p = 1..Len(p) /\ DOMAIN K = 1..Len(K)
    BY <1>2, Elements
  <2> QED BY <2>1 DEF Held
<1> HIDE DEF p, K, e
<1>6. /\ g \in Seq(S) /\ Len(g) = Len(p) /\ u \in Seq(Args(A)) /\ Only(u, {"-device"}, {"vfio-pci"})
      /\ Picks(g, P, u) /\ \A i \in 1..Len(u) : u[i] \in P
  <2>1. "host" \in A /\ e \in Seq(A)
    BY <1>1
  <2> QED BY ONLY Words \subseteq A, <2>1, <1>2, HeldPicks
<1>7. /\ h \in Seq(S) /\ Len(h) = Len(K) /\ v \in Seq(Args(A)) /\ Only(v, {"-device"}, {"vfio-pci"})
      /\ Picks(h, P, v) /\ \A i \in 1..Len(v) : v[i] \in P
  <2> DEFINE key == "sysfsdev"
             dir == Devices
  <2>1. key \in A /\ dir \in Seq(A)
    BY <1>1
  <2> HIDE DEF key, dir
  <2>2. /\ Held(key, dir, K) \in Seq(S) /\ Len(Held(key, dir, K)) = Len(K)
        /\ Vfios(key, dir, K) \in Seq(Args(A))
        /\ Only(Vfios(key, dir, K), {"-device"}, {"vfio-pci"})
        /\ Picks(Held(key, dir, K), P, Vfios(key, dir, K))
        /\ \A i \in 1..Len(Vfios(key, dir, K)) : Vfios(key, dir, K)[i] \in P
    <3>1. K \in Seq(Seq(A))
      BY <1>2
    <3> HIDE DEF S, P
    <3> QED BY ONLY Words \subseteq A, <2>1, <3>1, HeldPicks DEF S, P
  <2> QED BY <2>2 DEF key, dir

<1> HIDE DEF P, g, h, u, v
<1>9. Picks(u, P, u) /\ Picks(v, P, v)
  BY <1>6, <1>7, PicksAll
<1>10. Picks(u \o v, P, u \o v)
  BY <1>6, <1>7, <1>9, PicksJoin
<1>11. Picks(g \o h, P, u \o v)
  <2>1. u \in Seq(S) /\ v \in Seq(S)
    <3>1. \A q \in Seq(Args(A)) : q \in Seq(ArgsOrNone(A))
      BY DEF ArgsOrNone
    <3> QED BY <1>6, <1>7, <3>1
  <2> HIDE DEF S
  <2> QED BY <1>6, <1>7, <2>1, PicksJoin
<1>12. u \o v \in Seq(Args(A)) /\ Only(u \o v, {"-device"}, {"vfio-pci"})
  BY <1>6, <1>7, JoinOnly
<1>13. /\ Len(g \o h) = Len(p) + Len(K)
       /\ \A i \in 1..Len(p) : (g \o h)[i] = g[i]
       /\ \A i \in 1..Len(K) : (g \o h)[Len(p) + i] = h[i]
  <2> HIDE DEF S
  <2>1. /\ Len(g \o h) = Len(g) + Len(h)
        /\ \A i \in 1..Len(g) : (g \o h)[i] = g[i]
        /\ \A i \in 1..Len(h) : (g \o h)[Len(g) + i] = h[i]
    <3>1. g \in Seq(S) /\ h \in Seq(S)
      BY <1>6, <1>7
    <3> QED BY ONLY <3>1, Joined
  <2> QED BY <1>6, <1>7, <2>1
<1> DEFINE k == g \o h
<1> HIDE DEF k
<1>14. /\ \A i \in 1..Len(p) : k[i] = HeldArg("host", e, p[i])
       /\ \A i \in 1..Len(K) : k[Len(p) + i] = HeldArg("sysfsdev", Devices, K[i])
  BY <1>5, <1>13 DEF k
<1> QED BY <1>4, <1>10, <1>11, <1>12, <1>13, <1>14 DEF P, p, K, e, k

-----------------------------------------------------------------------------
(* All arguments *)

(* The arguments in nine segments, with the only flags and drivers of      *)
(* each.                                                                   *)
Segments(b) ==
  <<machine(b), Opt("-initrd", b.initrd), Opt("-append", b.cmdline), Each(drive, b.disks),
    network(b), Each(share, b.shares), vsock(b), Passed(b), serial(b)>>

Flags ==
  <<{"-machine", "-accel", "-cpu", "-smp", "-m", "-no-reboot", "-display", "-kernel"},
    {"-initrd"}, {"-append"}, {"-drive"}, {"-netdev", "-device"}, {"-fsdev", "-device"},
    {"-device"}, {"-device"}, {"-serial"}>>
Drivers ==
  <<{}, {}, {}, {}, {"virtio-net-pci"}, {"virtio-9p-pci"}, {"vhost-vsock-pci"}, {"vfio-pci"}, {}>>

(* The numbers of the segments. *)
LEMMA Nine ==
  \A i \in 1..9 : i = 1 \/ i = 2 \/ i = 3 \/ i = 4 \/ i = 5 \/ i = 6 \/ i = 7 \/ i = 8 \/ i = 9
  OBVIOUS

(* A segment has only its flags and drivers. *)
LEMMA SegmentsTyped ==
  ASSUME NEW A, Words \subseteq A, NEW b \in BootConfigs(A)
  PROVE  /\ Segments(b) \in Seq(Seq(Args(A))) /\ Len(Segments(b)) = 9
         /\ \A i \in 1..9 : Only(Segments(b)[i], Flags[i], Drivers[i])
<1> DEFINE S == Seq(Args(A))
           s1 == machine(b)
           s2 == Opt("-initrd", b.initrd)
           s3 == Opt("-append", b.cmdline)
           s4 == Each(drive, b.disks)
           s5 == network(b)
           s6 == Each(share, b.shares)
           s7 == vsock(b)
           s8 == Passed(b)
           s9 == serial(b)
           s == <<s1, s2, s3, s4, s5, s6, s7, s8, s9>>
<1>1. "-initrd" \in A /\ "-append" \in A
  BY DEF Words
<1>2. b.initrd \in Seq(A) /\ b.cmdline \in Seq(A)
  BY DEF BootConfigs
<1>3. s1 \in S /\ s4 \in S /\ s5 \in S /\ s6 \in S /\ s7 \in S /\ s8 \in S /\ s9 \in S
  BY MachineTyped, DrivesTyped, NetworkTyped, SharesTyped, VsockTyped, PassedTyped, SerialTyped
<1>4. s2 \in S /\ Only(s2, {"-initrd"}, {})
  BY <1>1, <1>2, OptTyped
<1>5. s3 \in S /\ Only(s3, {"-append"}, {})
  BY <1>1, <1>2, OptTyped
<1>6. /\ Only(s1, {"-machine", "-accel", "-cpu", "-smp", "-m", "-no-reboot", "-display",
                   "-kernel"}, {})
      /\ Only(s4, {"-drive"}, {})
      /\ Only(s5, {"-netdev", "-device"}, {"virtio-net-pci"})
      /\ Only(s6, {"-fsdev", "-device"}, {"virtio-9p-pci"})
      /\ Only(s7, {"-device"}, {"vhost-vsock-pci"})
      /\ Only(s8, {"-device"}, {"vfio-pci"})
      /\ Only(s9, {"-serial"}, {})
  BY MachineTyped, DrivesTyped, NetworkTyped, SharesTyped, VsockTyped, PassedTyped, SerialTyped
<1>7. s = Segments(b)
  BY DEF Segments
<1> HIDE DEF S, s1, s2, s3, s4, s5, s6, s7, s8, s9
<1>8. s \in Seq(S) /\ Len(s) = 9
  BY <1>3, <1>4, <1>5
<1>9. /\ s[1] = s1 /\ s[2] = s2 /\ s[3] = s3 /\ s[4] = s4 /\ s[5] = s5 /\ s[6] = s6
      /\ s[7] = s7 /\ s[8] = s8 /\ s[9] = s9
  OBVIOUS
<1> HIDE DEF s
<1>10. /\ Only(s[1], Flags[1], Drivers[1]) /\ Only(s[2], Flags[2], Drivers[2])
       /\ Only(s[3], Flags[3], Drivers[3]) /\ Only(s[4], Flags[4], Drivers[4])
       /\ Only(s[5], Flags[5], Drivers[5]) /\ Only(s[6], Flags[6], Drivers[6])
       /\ Only(s[7], Flags[7], Drivers[7]) /\ Only(s[8], Flags[8], Drivers[8])
       /\ Only(s[9], Flags[9], Drivers[9])
  <2>1. /\ Flags[1] = {"-machine", "-accel", "-cpu", "-smp", "-m", "-no-reboot", "-display",
                       "-kernel"}
        /\ Flags[2] = {"-initrd"} /\ Flags[3] = {"-append"} /\ Flags[4] = {"-drive"}
        /\ Flags[5] = {"-netdev", "-device"} /\ Flags[6] = {"-fsdev", "-device"}
        /\ Flags[7] = {"-device"} /\ Flags[8] = {"-device"} /\ Flags[9] = {"-serial"}
    BY DEF Flags
  <2>2. /\ Drivers[1] = {} /\ Drivers[2] = {} /\ Drivers[3] = {} /\ Drivers[4] = {}
        /\ Drivers[5] = {"virtio-net-pci"} /\ Drivers[6] = {"virtio-9p-pci"}
        /\ Drivers[7] = {"vhost-vsock-pci"} /\ Drivers[8] = {"vfio-pci"} /\ Drivers[9] = {}
    BY DEF Drivers
  <2>3. /\ Only(s[1], Flags[1], Drivers[1]) /\ Only(s[2], Flags[2], Drivers[2])
        /\ Only(s[3], Flags[3], Drivers[3]) /\ Only(s[4], Flags[4], Drivers[4])
    BY <1>4, <1>5, <1>6, <1>9, <2>1, <2>2, Zenon
  <2>4. /\ Only(s[5], Flags[5], Drivers[5]) /\ Only(s[6], Flags[6], Drivers[6])
        /\ Only(s[7], Flags[7], Drivers[7]) /\ Only(s[8], Flags[8], Drivers[8])
        /\ Only(s[9], Flags[9], Drivers[9])
    BY <1>6, <1>9, <2>1, <2>2, Zenon
  <2> QED BY <2>3, <2>4
<1>11. \A i \in 1..9 : Only(s[i], Flags[i], Drivers[i])
  BY <1>10, Nine, Zenon
<1> QED BY <1>7, <1>8, <1>11 DEF S

(* Nothing is refused, and the arguments are those of the segments. *)
Malformed(b) ==
  \/ b.kernel = <<>> \/ b.arch = ""
  \/ \E i \in DOMAIN b.shares : <<>> \in {b.shares[i].tag, b.shares[i].path}
  \/ \E t \in ToSet(b.pciPassthrough \o b.migPassthrough) : t # <<>> /\ ~validVFIOToken(t)

(* The segments joined one by one, the eighth in two parts. *)
LEMMA NineJoined ==
  ASSUME NEW S, NEW s \in Seq(Seq(S)), Len(s) = 9,
         NEW p \in Seq(S), NEW q \in Seq(S)
  PROVE  s[8] = p \o q =>
           FlattenSeq(s) =
             s[1] \o s[2] \o s[3] \o s[4] \o s[5] \o s[6] \o s[7] \o p \o q \o s[9]
<1>1. PICK f \in [0..Len(s) -> Seq(S)] : Joins(f, s) /\ FlattenSeq(s) = f[Len(s)]
  BY Flattening
<1>2. f[0] = <<>> /\ \A i \in 1..9 : f[i] = f[i - 1] \o s[i]
  BY <1>1 DEF Joins
<1>10. /\ 1 \in 1..9 /\ 2 \in 1..9 /\ 3 \in 1..9 /\ 4 \in 1..9 /\ 5 \in 1..9 /\ 6 \in 1..9
       /\ 7 \in 1..9 /\ 8 \in 1..9 /\ 9 \in 1..9
       /\ 1 - 1 = 0 /\ 2 - 1 = 1 /\ 3 - 1 = 2 /\ 4 - 1 = 3 /\ 5 - 1 = 4 /\ 6 - 1 = 5
       /\ 7 - 1 = 6 /\ 8 - 1 = 7 /\ 9 - 1 = 8
  OBVIOUS
<1>3. s[1] \in Seq(S)
  <2>1. DOMAIN s = 1..9 /\ \A i \in DOMAIN s : s[i] \in Seq(S)
    BY Elements
  <2> QED BY <1>10, <2>1
<1>4. f[1] = s[1]
  <2>1. f[1] = f[0] \o s[1]
    BY <1>2, <1>10, Zenon
  <2> QED BY <1>2, <1>3, <2>1, ConcatEmptySeq
<1>5. /\ f[2] = f[1] \o s[2] /\ f[3] = f[2] \o s[3] /\ f[4] = f[3] \o s[4]
      /\ f[5] = f[4] \o s[5] /\ f[6] = f[5] \o s[6] /\ f[7] = f[6] \o s[7]
      /\ f[8] = f[7] \o s[8] /\ f[9] = f[8] \o s[9]
  BY <1>2, <1>10, Zenon
<1> DEFINE j7 == s[1] \o s[2] \o s[3] \o s[4] \o s[5] \o s[6] \o s[7]
<1>6. f[7] = j7
  BY <1>4, <1>5, Zenon
<1> HIDE DEF j7
<1>7. j7 \in Seq(S)
  BY <1>1, <1>6
<1>8. j7 \o p \o q = j7 \o (p \o q)
  BY ONLY p \in Seq(S), q \in Seq(S), <1>7, ConcatAssociative, SMTT(20)
<1>9. s[8] = p \o q => f[9] = j7 \o p \o q \o s[9]
  BY <1>5, <1>6, <1>8, Zenon
<1> QED BY <1>1, <1>9 DEF j7

(* If there are arguments, nothing was refused and they are the segments. *)
LEMMA Built ==
  ASSUME NEW A, Words \subseteq A, NEW b \in BootConfigs(A), buildArgs(b) # NoArgs
  PROVE  ~Malformed(b) /\ buildArgs(b) = FlattenSeq(Segments(b))
<1> DEFINE S == Args(A)
           s == Segments(b)
           p == Each(pci, b.pciPassthrough)
           q == Each(mig, b.migPassthrough)
<1>1. ~Malformed(b)
  BY DEF buildArgs, Malformed
<1>2. buildArgs(b)
        = s[1] \o s[2] \o s[3] \o s[4] \o s[5] \o s[6] \o s[7] \o p \o q \o s[9]
  BY <1>1 DEF buildArgs, Malformed, Segments
<1>3. s \in Seq(Seq(S)) /\ Len(s) = 9
  BY SegmentsTyped
<1>4. s[8] = p \o q
  BY DEF Segments, Passed
<1>5. p \in Seq(S) /\ q \in Seq(S)
  <2>1. b.pciPassthrough \in Seq(Seq(A)) /\ b.migPassthrough \in Seq(Seq(A))
    BY DEF BootConfigs
  <2>2. "host" \in A /\ "sysfsdev" \in A /\ Devices \in Seq(A) /\ <<>> \in Seq(A)
    BY DevicesTyped DEF Words
  <2>3. p = Vfios("host", <<>>, b.pciPassthrough) /\ q = Vfios("sysfsdev", Devices, b.migPassthrough)
    BY DEF Each, Vfios, pci, mig
  <2>4. p \in Seq(S)
    BY <2>1, <2>2, <2>3, HeldPicks
  <2>5. q \in Seq(S)
    BY <2>1, <2>2, <2>3, HeldPicks
  <2> QED BY <2>4, <2>5
<1> HIDE DEF S, s, p, q
<1> QED BY <1>1, <1>2, <1>3, <1>4, <1>5, NineJoined DEF s

(* What only one segment has is picked from all arguments as from that     *)
(* one.                                                                    *)
LEMMA Asked ==
  ASSUME NEW A, Words \subseteq A, NEW b \in BootConfigs(A), buildArgs(b) # NoArgs,
         NEW k \in 1..9, NEW w \in Seq(Args(A))
  PROVE  /\ buildArgs(b) \in Seq(Args(A))
         /\ \A flag : /\ Picks(Segments(b)[k], Flagged(A, flag), w)
                      /\ \A i \in 1..9 : i # k => flag \notin Flags[i]
                      => Picks(buildArgs(b), Flagged(A, flag), w)
         /\ \A driver : /\ Picks(Segments(b)[k], Device(A, driver), w)
                        /\ \A i \in 1..9 : i # k => driver \notin Drivers[i]
                        => Picks(buildArgs(b), Device(A, driver), w)
<1> DEFINE S == Args(A)
           s == Segments(b)
<1>1. s \in Seq(Seq(S)) /\ Len(s) = 9 /\ \A i \in 1..9 : Only(s[i], Flags[i], Drivers[i])
  BY SegmentsTyped
<1>2. buildArgs(b) = FlattenSeq(s)
  BY Built
<1> HIDE DEF s, S
<1>3. FlattenSeq(s) \in Seq(S)
  BY <1>1, FlatTyped
<1>4. ASSUME NEW P, Picks(s[k], P, w), \A i \in 1..9 : i # k => None(s[i], P)
      PROVE  Picks(buildArgs(b), P, w)
  <2>1. w \in Seq(S) /\ k \in 1..Len(s) /\ \A i \in 1..Len(s) : i # k => None(s[i], P)
    BY <1>1, <1>4 DEF S
  <2>2. Picks(FlattenSeq(s), P, w)
    BY <1>1, <1>4, <2>1, PicksIn
  <2> QED BY <1>2, <2>2
<1>5. ASSUME NEW flag, Picks(s[k], Flagged(A, flag), w),
             \A i \in 1..9 : i # k => flag \notin Flags[i]
      PROVE  Picks(buildArgs(b), Flagged(A, flag), w)
  <2>1. \A i \in 1..9 : i # k => None(s[i], Flagged(A, flag))
    BY <1>1, <1>5, OnlyNone
  <2> QED BY <1>4, <1>5, <2>1
<1>6. ASSUME NEW driver, Picks(s[k], Device(A, driver), w),
             \A i \in 1..9 : i # k => driver \notin Drivers[i]
      PROVE  Picks(buildArgs(b), Device(A, driver), w)
  <2>1. \A i \in 1..9 : i # k => None(s[i], Device(A, driver))
    BY <1>1, <1>6, OnlyNone
  <2> QED BY <1>4, <1>6, <2>1
<1> QED BY <1>2, <1>3, <1>5, <1>6 DEF s, S

-----------------------------------------------------------------------------
(* The arguments picked for the drives and the shares. *)
Drives(b) == [i \in DOMAIN b.disks |-> DriveArg(b, i)]
FileSystems(b) == [i \in DOMAIN b.shares |-> FsArg(b, i)]
Mounts(b) == [i \in DOMAIN b.shares |-> MountArg(b, i)]

(* The flags of each segment. *)
LEMMA WhichFlags ==
  /\ Flags[1] = {"-machine", "-accel", "-cpu", "-smp", "-m", "-no-reboot", "-display", "-kernel"}
  /\ Flags[2] = {"-initrd"} /\ Flags[3] = {"-append"} /\ Flags[4] = {"-drive"}
  /\ Flags[5] = {"-netdev", "-device"} /\ Flags[6] = {"-fsdev", "-device"}
  /\ Flags[7] = {"-device"} /\ Flags[8] = {"-device"} /\ Flags[9] = {"-serial"}
  BY DEF Flags

(* The drivers of each segment. *)
LEMMA WhichDrivers ==
  /\ Drivers[1] = {} /\ Drivers[2] = {} /\ Drivers[3] = {} /\ Drivers[4] = {}
  /\ Drivers[5] = {"virtio-net-pci"} /\ Drivers[6] = {"virtio-9p-pci"}
  /\ Drivers[7] = {"vhost-vsock-pci"} /\ Drivers[8] = {"vfio-pci"} /\ Drivers[9] = {}
  BY DEF Drivers

(* The flags and drivers that are asked for are in one segment only. *)
LEMMA OnlyOnce ==
  /\ \A i \in 1..9 : i # 1 => "-machine" \notin Flags[i]
  /\ \A i \in 1..9 : i # 3 => "-append" \notin Flags[i]
  /\ \A i \in 1..9 : i # 4 => "-drive" \notin Flags[i]
  /\ \A i \in 1..9 : i # 6 => "-fsdev" \notin Flags[i]
  /\ \A i \in 1..9 : i # 9 => "-serial" \notin Flags[i]
  /\ \A i \in 1..9 : i # 6 => "virtio-9p-pci" \notin Drivers[i]
  /\ \A i \in 1..9 : i # 8 => "vfio-pci" \notin Drivers[i]
<1>1. \A i \in 1..9 : i # 1 => "-machine" \notin Flags[i]
  BY WhichFlags, Nine
<1>2. \A i \in 1..9 : i # 3 => "-append" \notin Flags[i]
  BY WhichFlags, Nine
<1>3. \A i \in 1..9 : i # 4 => "-drive" \notin Flags[i]
  BY WhichFlags, Nine
<1>4. \A i \in 1..9 : i # 6 => "-fsdev" \notin Flags[i]
  BY WhichFlags, Nine
<1>5. \A i \in 1..9 : i # 9 => "-serial" \notin Flags[i]
  BY WhichFlags, Nine
<1>6. \A i \in 1..9 : i # 6 => "virtio-9p-pci" \notin Drivers[i]
  BY WhichDrivers, Nine
<1>7. \A i \in 1..9 : i # 8 => "vfio-pci" \notin Drivers[i]
  BY WhichDrivers, Nine
<1> QED BY <1>1, <1>2, <1>3, <1>4, <1>5, <1>6, <1>7

(* What QEMU finds among the arguments, question by question. *)
LEMMA Answers ==
  ASSUME NEW A, Words \subseteq A, NEW b \in BootConfigs(A), buildArgs(b) # NoArgs
  PROVE  /\ Picks(buildArgs(b), Flagged(A, "-machine"), <<<<"-machine", <<machineType(b.arch)>>>>>>)
         /\ b.cmdline # <<>> =>
              Picks(buildArgs(b), Flagged(A, "-append"), <<<<"-append", b.cmdline>>>>)
         /\ Picks(buildArgs(b), Flagged(A, "-drive"), Drives(b))
         /\ Picks(buildArgs(b), Flagged(A, "-fsdev"), FileSystems(b))
         /\ Picks(buildArgs(b), Device(A, "virtio-9p-pci"), Mounts(b))
         /\ Picks(buildArgs(b), Device(A, "vfio-pci"), Passed(b))
         /\ b.consolePath # <<>> =>
              Picks(buildArgs(b), Flagged(A, "-serial"),
                    <<<<"-serial", <<"file:">> \o b.consolePath>>>>)
<1> DEFINE s == Segments(b)
           mw == <<<<"-machine", <<machineType(b.arch)>>>>>>
           aw == <<<<"-append", b.cmdline>>>>
           sw == <<<<"-serial", <<"file:">> \o b.consolePath>>>>
<1>1. /\ s[1] = machine(b) /\ s[3] = Opt("-append", b.cmdline) /\ s[4] = Each(drive, b.disks)
      /\ s[6] = Each(share, b.shares) /\ s[8] = Passed(b) /\ s[9] = serial(b)
  BY DEF Segments
<1>2. b.cmdline \in Seq(A) /\ b.consolePath \in Seq(A) /\ b.arch \in A
  BY DEF BootConfigs
<1>3. "-append" \in A /\ "-machine" \in A /\ "-serial" \in A /\ "file:" \in A
      /\ machineType(b.arch) \in A
  BY DEF Words, machineType
<1>4. mw \in Seq(Args(A))
  <2> DEFINE t == <<machineType(b.arch)>>
  <2>1. t \in Seq(A)
    BY <1>3, OneWord
  <2> HIDE DEF t
  <2>2. <<<<"-machine", t>>>> \in Seq(Args(A))
    BY <1>3, <2>1, OneArg
  <2> QED BY <2>2 DEF t
<1>5. aw \in Seq(Args(A))
  <2> DEFINE t == b.cmdline
  <2>1. t \in Seq(A)
    BY <1>2
  <2> HIDE DEF t
  <2>2. <<<<"-append", t>>>> \in Seq(Args(A))
    BY <1>3, <2>1, OneArg
  <2> QED BY <2>2 DEF t
<1>6. sw \in Seq(Args(A))
  <2> DEFINE f == <<"file:">>
             c == b.consolePath
             t == f \o c
  <2>1. f \in Seq(A) /\ c \in Seq(A)
    BY <1>2, <1>3, OneWord
  <2> HIDE DEF f, c
  <2>2. t \in Seq(A)
    BY <2>1
  <2> HIDE DEF t
  <2>3. <<<<"-serial", t>>>> \in Seq(Args(A))
    BY <1>3, <2>2, OneArg
  <2> QED BY <2>3 DEF t, f, c
<1> HIDE DEF s, mw, aw, sw
<1>7. Picks(s[1], Flagged(A, "-machine"), mw)
  BY <1>1, MachineTyped DEF mw
<1>8. b.cmdline # <<>> => Picks(s[3], Flagged(A, "-append"), aw)
  BY <1>1, <1>2, <1>3, OptTyped DEF aw
<1>9. Drives(b) \in Seq(Args(A)) /\ Picks(s[4], Flagged(A, "-drive"), Drives(b))
  BY <1>1, DrivesTyped DEF Drives
<1>10. FileSystems(b) \in Seq(Args(A)) /\ Picks(s[6], Flagged(A, "-fsdev"), FileSystems(b))
  BY <1>1, SharesTyped DEF FileSystems
<1>11. Mounts(b) \in Seq(Args(A)) /\ Picks(s[6], Device(A, "virtio-9p-pci"), Mounts(b))
  BY <1>1, SharesTyped DEF Mounts
<1>12. Passed(b) \in Seq(Args(A)) /\ Picks(s[8], Device(A, "vfio-pci"), Passed(b))
  BY <1>1, PassedTyped
<1>13. b.consolePath # <<>> => Picks(s[9], Flagged(A, "-serial"), sw)
  BY <1>1, SerialTyped DEF sw
<1>14. ASSUME NEW k \in 1..9, NEW w \in Seq(Args(A))
       PROVE  /\ \A flag : /\ Picks(s[k], Flagged(A, flag), w)
                           /\ \A i \in 1..9 : i # k => flag \notin Flags[i]
                           => Picks(buildArgs(b), Flagged(A, flag), w)
              /\ \A driver : /\ Picks(s[k], Device(A, driver), w)
                             /\ \A i \in 1..9 : i # k => driver \notin Drivers[i]
                             => Picks(buildArgs(b), Device(A, driver), w)
  BY Asked DEF s
<1>15. 1 \in 1..9 /\ 3 \in 1..9 /\ 4 \in 1..9 /\ 6 \in 1..9 /\ 8 \in 1..9 /\ 9 \in 1..9
  OBVIOUS
<1>16. Picks(buildArgs(b), Flagged(A, "-machine"), mw)
  BY <1>4, <1>7, <1>14, <1>15, OnlyOnce, Zenon
<1>17. b.cmdline # <<>> => Picks(buildArgs(b), Flagged(A, "-append"), aw)
  BY <1>5, <1>8, <1>14, <1>15, OnlyOnce, Zenon
<1>18. Picks(buildArgs(b), Flagged(A, "-drive"), Drives(b))
  BY <1>9, <1>14, <1>15, OnlyOnce, Zenon
<1>19. Picks(buildArgs(b), Flagged(A, "-fsdev"), FileSystems(b))
  BY <1>10, <1>14, <1>15, OnlyOnce, Zenon
<1>20. Picks(buildArgs(b), Device(A, "virtio-9p-pci"), Mounts(b))
  BY <1>11, <1>14, <1>15, OnlyOnce, Zenon
<1>21. Picks(buildArgs(b), Device(A, "vfio-pci"), Passed(b))
  BY <1>12, <1>14, <1>15, OnlyOnce, Zenon
<1>22. b.consolePath # <<>> => Picks(buildArgs(b), Flagged(A, "-serial"), sw)
  BY <1>6, <1>13, <1>14, <1>15, OnlyOnce, Zenon
<1> QED BY <1>16, <1>17, <1>18, <1>19, <1>20, <1>21, <1>22 DEF mw, aw, sw

(* The places that the properties ask for are those of what is picked. *)
LEMMA PlacesAt ==
  ASSUME NEW A, NEW s \in Seq(Args(A))
  PROVE  /\ \A flag : Places(s, flag) = At(s, Flagged(A, flag))
         /\ \A driver : DevicesOf(s, driver) = At(s, Device(A, driver))
<1> DEFINE S == Args(A)
<1>1. DOMAIN s = 1..Len(s) /\ \A i \in DOMAIN s : s[i] \in S
  BY Elements
<1>2. \A i \in DOMAIN s : s[i] \in Args(A)
  BY <1>1
<1>3. ASSUME NEW flag PROVE Places(s, flag) = At(s, Flagged(A, flag))
  BY <1>1, <1>2 DEF Places, At, Flagged
<1>4. ASSUME NEW driver PROVE DevicesOf(s, driver) = At(s, Device(A, driver))
  BY <1>1, <1>2 DEF DevicesOf, Places, At, Flagged, Device
<1> QED BY <1>3, <1>4

-----------------------------------------------------------------------------
(* The shares *)

(* Texts without commas, and the parts of one. *)
LEMMA CommaFree ==
  ASSUME NEW A, NEW s \in Seq(A)
  PROVE  /\ Comma \notin ToSet(s) => NoComma(s)
         /\ \A t \in Seq(A) : Comma \notin ToSet(s \o t) => NoComma(s) /\ NoComma(t)
<1>1. ASSUME NEW u \in Seq(A), Comma \notin ToSet(u) PROVE NoComma(u)
  <2>1. DOMAIN u = 1..Len(u)
    BY Elements
  <2> QED BY <1>1, <2>1 DEF NoComma, ToSet
<1>2. ASSUME NEW t \in Seq(A), Comma \notin ToSet(s \o t) PROVE NoComma(s) /\ NoComma(t)
  <2> DEFINE u == s \o t
  <2>1. /\ u \in Seq(A) /\ Len(u) = Len(s) + Len(t) /\ Len(s) \in Nat /\ Len(t) \in Nat
        /\ \A k \in 1..Len(s) : u[k] = s[k]
        /\ \A k \in 1..Len(t) : u[Len(s) + k] = t[k]
    BY Joined
  <2>2. Comma \notin ToSet(u)
    BY <1>2
  <2> HIDE DEF u
  <2>3. NoComma(u)
    BY <1>1, <2>1, <2>2
  <2>4. (\A k \in 1..Len(s) : k \in 1..Len(u)) /\ \A k \in 1..Len(t) : Len(s) + k \in 1..Len(u)
    BY <2>1
  <2> QED BY <2>1, <2>3, <2>4 DEF NoComma
<1> QED BY <1>1, <1>2

(* Ids of different places are different. *)
LEMMA DistinctIds ==
  ASSUME NEW A, Words \subseteq A, NEW K \in Nat, K # 0, NEW L \in Nat, L # 0
  PROVE  /\ FsId(L) \in Seq(A) /\ NoComma(FsId(L))
         /\ FsId(K) = FsId(L) => K = L
         /\ <<"disk">> \o decimal[K - 1] = <<"disk">> \o decimal[L - 1] => K = L
<1>1. "fs" \in A /\ "disk" \in A
  BY DEF Words
<1>2. "fs" # Comma
  BY NotComma
<1>3. "disk" # Comma
  BY NotComma
<1>4. K - 1 \in Nat /\ L - 1 \in Nat
  OBVIOUS
<1>5. /\ FsId(L) \in Seq(A) /\ NoComma(FsId(L))
      /\ FsId(K) = FsId(L) => K - 1 = L - 1
  BY <1>1, <1>2, <1>4, IdOf DEF FsId
<1>6. <<"disk">> \o decimal[K - 1] = <<"disk">> \o decimal[L - 1] => K - 1 = L - 1
  <2> DEFINE k == K - 1
             l == L - 1
  <2>1. k \in Nat /\ l \in Nat
    BY <1>4
  <2> HIDE DEF k, l
  <2>2. Words \subseteq A
    OBVIOUS
  <2>3. <<"disk">> \o decimal[k] = <<"disk">> \o decimal[l] => k = l
    BY ONLY <1>1, <1>3, <2>1, <2>2, IdOf
  <2> QED BY ONLY <2>3 DEF k, l
<1>7. K - 1 = L - 1 => K = L
  OBVIOUS
<1> QED BY ONLY <1>5, <1>6, <1>7

(* What QEMU reads of the L-th share. *)
LEMMA ShareSays ==
  ASSUME NEW A, Words \subseteq A, NEW b \in BootConfigs(A), NoCommas(b),
         NEW L \in 1..Len(b.shares)
  PROVE  /\ Len(b.shares) \in Nat /\ DOMAIN b.shares = 1..Len(b.shares)
         /\ b.shares[L].readOnly \in BOOLEAN
         /\ Values(FileSystems(b)[L][2], "id") = {FsId(L)}
         /\ Values(FileSystems(b)[L][2], "path") = {b.shares[L].path}
         /\ Values(FileSystems(b)[L][2], "readonly") = IF b.shares[L].readOnly THEN {<<"on">>} ELSE {}
         /\ Values(Mounts(b)[L][2], "fsdev") = {FsId(L)}
         /\ Values(Mounts(b)[L][2], "mount_tag") = {b.shares[L].tag}
<1> DEFINE s == b.shares
           T == [tag : Seq(A), path : Seq(A), readOnly : BOOLEAN]
           d == s[L]
           id == FsId(L)
<1>1. s \in Seq(T)
  BY DEF BootConfigs
<1>2. DOMAIN s = 1..Len(s) /\ Len(s) \in Nat /\ \A i \in DOMAIN s : s[i] \in T
  BY <1>1, Elements, Zenon
<1>3. d \in T
  BY <1>2
<1>4. Comma \notin ToSet(d.path \o d.tag)
  BY <1>2 DEF NoCommas
<1>5. FileSystems(b)[L][2] = FsText(id, d) /\ Mounts(b)[L][2] = MountText(id, d)
  <2>1. FileSystems(b)[L] = <<"-fsdev", FsText(id, d)>> /\ Mounts(b)[L] = <<"-device", MountText(id, d)>>
    BY <1>2 DEF FileSystems, Mounts, FsArg, MountArg
  <2> HIDE DEF d, id
  <2> QED BY <2>1
<1> HIDE DEF s, d, id
<1>6. d.path \in Seq(A) /\ d.tag \in Seq(A) /\ d.readOnly \in BOOLEAN
  BY <1>3
<1>7. NoComma(d.path) /\ NoComma(d.tag)
  BY <1>4, <1>6, CommaFree
<1>8. id \in Seq(A) /\ NoComma(id)
  <2>1. L \in Nat /\ L # 0
    BY <1>2 DEF s
  <2> QED BY <2>1, DistinctIds DEF id
<1>9. /\ Values(FsText(id, d), "id") = {id} /\ Values(FsText(id, d), "path") = {d.path}
      /\ Values(FsText(id, d), "readonly") = IF d.readOnly THEN {<<"on">>} ELSE {}
  BY <1>6, <1>7, <1>8, FsSays
<1>10. Values(MountText(id, d), "fsdev") = {id} /\ Values(MountText(id, d), "mount_tag") = {d.tag}
  BY <1>6, <1>7, <1>8, MountSays
<1>11. Len(s) \in Nat /\ DOMAIN s = 1..Len(s)
  BY <1>2
<1> QED BY <1>5, <1>6, <1>9, <1>10, <1>11 DEF s, d, id

(* Whatever is configured, QEMU finds every share under its tag, on its    *)
(* path and read-only if it should be, joined by an id that is its own:    *)
(* buildArgs counts the ids, and the digits of different numbers differ.   *)
THEOREM SharesAreMounted ==
  ASSUME NEW A, Words \subseteq A, NEW b \in BootConfigs(A)
  PROVE  MountsConfiguredShares(b)
<1> DEFINE argv == buildArgs(b)
           says(i, key) == Values(argv[i][2], key)
           P == Places(argv, "-fsdev")
           Q == DevicesOf(argv, "virtio-9p-pci")
           R == Places(argv, "-drive")
           N == Len(b.shares)
           s == b.shares
           on == <<"on">>
           bridged == {p \in P \X Q : says(p[1], "id") = says(p[2], "fsdev")}
           seen == {<<says(p[2], "mount_tag"), says(p[1], "path"),
                      says(p[1], "readonly") = {on}>> : p \in bridged}
<1> SUFFICES ASSUME argv # NoArgs, NoCommas(b)
             PROVE  /\ seen = {<<{x.tag}, {x.path}, x.readOnly>> : x \in ToSet(s)}
                    /\ \A i, j \in P : says(i, "id") = says(j, "id") => i = j
                    /\ \A i, j \in R : says(i, "id") = says(j, "id") => i = j
  <2>1. ASSUME seen = {<<{x.tag}, {x.path}, x.readOnly>> : x \in ToSet(s)},
               \A i, j \in P : says(i, "id") = says(j, "id") => i = j,
               \A i, j \in R : says(i, "id") = says(j, "id") => i = j,
               NEW flag \in {"-fsdev", "-drive"}
        PROVE  \A i, j \in Places(argv, flag) : says(i, "id") = says(j, "id") => i = j
    BY <2>1
  <2> QED BY <2>1 DEF MountsConfiguredShares
<1>1. /\ Picks(argv, Flagged(A, "-drive"), Drives(b))
      /\ Picks(argv, Flagged(A, "-fsdev"), FileSystems(b))
      /\ Picks(argv, Device(A, "virtio-9p-pci"), Mounts(b))
  BY Answers
<1>2. argv \in Seq(Args(A))
  <2>1. 1 \in 1..9 /\ <<>> \in Seq(Args(A))
    OBVIOUS
  <2> QED BY <2>1, Asked
<1>3. /\ P = At(argv, Flagged(A, "-fsdev")) /\ Q = At(argv, Device(A, "virtio-9p-pci"))
      /\ R = At(argv, Flagged(A, "-drive"))
  BY <1>2, PlacesAt
<1>4. Len(argv) \in Nat
  BY <1>2
<1>5. /\ Len(FileSystems(b)) = N /\ Len(Mounts(b)) = N /\ Len(Drives(b)) = Len(b.disks)
  BY SharesTyped, DrivesTyped DEF FileSystems, Mounts, Drives
<1>6. \A L \in 1..N : /\ Values(FileSystems(b)[L][2], "id") = {FsId(L)}
                      /\ Values(FileSystems(b)[L][2], "path") = {s[L].path}
                      /\ Values(FileSystems(b)[L][2], "readonly") = IF s[L].readOnly THEN {on} ELSE {}
                      /\ Values(Mounts(b)[L][2], "fsdev") = {FsId(L)}
                      /\ Values(Mounts(b)[L][2], "mount_tag") = {s[L].tag}
                      /\ s[L].readOnly \in BOOLEAN
  <2> TAKE L \in 1..N
  <2>1. L \in 1..Len(b.shares)
    OBVIOUS
  <2>2. NoCommas(b) /\ Words \subseteq A
    OBVIOUS
  <2> QED BY ONLY <2>1, <2>2, b \in BootConfigs(A), ShareSays
<1>7. DOMAIN s = 1..N /\ N \in Nat
  <2>1. s \in Seq([tag : Seq(A), path : Seq(A), readOnly : BOOLEAN])
    BY DEF BootConfigs
  <2> QED BY <2>1, Elements
<1>8. \A i \in P : Rank(P, i) \in 1..N /\ FileSystems(b)[Rank(P, i)] = argv[i]
  BY <1>1, <1>3, <1>4, <1>5, PickedAt DEF Picks
<1>9. \A i \in Q : Rank(Q, i) \in 1..N /\ Mounts(b)[Rank(Q, i)] = argv[i]
  BY <1>1, <1>3, <1>4, <1>5, PickedAt DEF Picks
<1>10. \A i \in R : Rank(R, i) \in 1..Len(b.disks) /\ Drives(b)[Rank(R, i)] = argv[i]
  BY <1>1, <1>3, <1>4, <1>5, PickedAt DEF Picks
<1>11. /\ \A L \in 1..N : \E i \in P : argv[i] = FileSystems(b)[L]
       /\ \A L \in 1..N : \E i \in Q : argv[i] = Mounts(b)[L]
  BY <1>1, <1>3, <1>5 DEF Picks
<1>12. /\ \A i, j \in P : Rank(P, i) = Rank(P, j) => i = j
       /\ \A i, j \in R : Rank(R, i) = Rank(R, j) => i = j
  BY <1>1, <1>3, <1>4, PickedAt
<1>13. \A K, L \in 1..N : {FsId(K)} = {FsId(L)} => K = L
  <2>1. \A K \in 1..N : K \in Nat /\ K # 0
    BY <1>7
  <2>2. \A K, L \in 1..N : FsId(K) = FsId(L) => K = L
    BY <2>1, DistinctIds
  <2> QED BY <2>2
<1>14. \A i, j \in R : says(i, "id") = says(j, "id") => i = j
  <2> DEFINE disks == b.disks
             T == [path : Seq(A), readOnly : BOOLEAN]
             id(L) == <<"disk">> \o decimal[L - 1]
  <2>1. DOMAIN disks = 1..Len(disks) /\ Len(disks) \in Nat /\ \A i \in DOMAIN disks : disks[i] \in T
    <3>1. disks \in Seq(T)
      BY DEF BootConfigs
    <3> QED BY <3>1, Elements, Zenon
  <2>2. \A L \in DOMAIN disks : Comma \notin ToSet(disks[L].path)
    BY DEF NoCommas
  <2>3. \A L \in DOMAIN disks : Drives(b)[L][2] = DriveText(L, disks[L])
    BY DEF Drives, DriveArg
  <2> HIDE DEF disks
  <2>4. ASSUME NEW L \in DOMAIN disks PROVE Values(Drives(b)[L][2], "id") = {id(L)}
    <3> DEFINE d == disks[L]
    <3>1. d.path \in Seq(A) /\ d.readOnly \in BOOLEAN /\ L \in Nat /\ L # 0
      BY <2>1
    <3>2. Comma \notin ToSet(d.path)
      BY <2>2
    <3> HIDE DEF d
    <3>3. NoComma(d.path)
      BY <3>1, <3>2, CommaFree
    <3>4. Values(DriveText(L, d), "id") = {id(L)}
      BY <3>1, <3>3, DriveSays
    <3> QED BY <2>3, <3>4 DEF d
  <2>5. \A K, L \in DOMAIN disks : {id(K)} = {id(L)} => K = L
    <3>1. \A K \in DOMAIN disks : K \in Nat /\ K # 0
      BY <2>1
    <3>2. \A K, L \in DOMAIN disks : id(K) = id(L) => K = L
      BY <3>1, DistinctIds
    <3> HIDE DEF id
    <3> QED BY <3>2
  <2> HIDE DEF id, R, argv
  <2>6. \A i \in R : Rank(R, i) \in DOMAIN disks /\ Drives(b)[Rank(R, i)] = argv[i]
    BY <1>10, <2>1 DEF disks
  <2>7. \A i \in R : Values(argv[i][2], "id") = {id(Rank(R, i))}
    BY <2>4, <2>6
  <2> QED BY <1>12, <2>5, <2>6, <2>7
<1> HIDE DEF P, Q, R, N, s, on, argv
<1>15. \A i \in P : /\ Rank(P, i) \in 1..N /\ says(i, "id") = {FsId(Rank(P, i))}
                    /\ says(i, "path") = {s[Rank(P, i)].path}
                    /\ says(i, "readonly") = IF s[Rank(P, i)].readOnly THEN {on} ELSE {}
  BY <1>6, <1>8
<1>16. \A i \in Q : /\ Rank(Q, i) \in 1..N /\ says(i, "fsdev") = {FsId(Rank(Q, i))}
                    /\ says(i, "mount_tag") = {s[Rank(Q, i)].tag}
  BY <1>6, <1>9
<1>17. \A i, j \in P : says(i, "id") = says(j, "id") => i = j
  BY <1>12, <1>13, <1>15
<1> HIDE DEF says
<1>18. ASSUME NEW L \in 1..N PROVE ((IF s[L].readOnly THEN {on} ELSE {}) = {on}) = s[L].readOnly
  <2>1. s[L].readOnly \in BOOLEAN
    BY <1>6
  <2> QED BY <2>1
<1>19. ASSUME NEW p \in bridged
       PROVE  \E x \in ToSet(s) : <<says(p[2], "mount_tag"), says(p[1], "path"),
                                    says(p[1], "readonly") = {on}>>
                                    = <<{x.tag}, {x.path}, x.readOnly>>
  <2>1. p[1] \in P /\ p[2] \in Q /\ says(p[1], "id") = says(p[2], "fsdev")
    OBVIOUS
  <2> DEFINE L == Rank(P, p[1])
             i == p[1]
             j == p[2]
  <2> HIDE DEF L, i, j, bridged
  <2>2. L \in 1..N /\ Rank(Q, j) = L
    BY <1>13, <1>15, <1>16, <2>1 DEF L, i, j
  <2>3. /\ says(j, "mount_tag") = {s[L].tag} /\ says(i, "path") = {s[L].path}
        /\ says(i, "readonly") = IF s[L].readOnly THEN {on} ELSE {}
    BY <1>15, <1>16, <2>1, <2>2 DEF L, i, j
  <2>4. s[L] \in ToSet(s)
    BY <1>7, <2>2 DEF ToSet
  <2>5. (says(i, "readonly") = {on}) = s[L].readOnly
    BY <1>18, <2>2, <2>3
  <2>6. <<says(j, "mount_tag"), says(i, "path"), says(i, "readonly") = {on}>>
          = <<{s[L].tag}, {s[L].path}, s[L].readOnly>>
    BY <2>3, <2>5
  <2> QED BY <2>4, <2>6 DEF i, j
<1>20. ASSUME NEW x \in ToSet(s)
       PROVE  \E p \in bridged : <<says(p[2], "mount_tag"), says(p[1], "path"),
                                  says(p[1], "readonly") = {on}>>
                                  = <<{x.tag}, {x.path}, x.readOnly>>
  <2>1. PICK L \in 1..N : x = s[L]
    BY <1>7 DEF ToSet
  <2>2. PICK i \in P : argv[i] = FileSystems(b)[L]
    BY <1>11
  <2>3. PICK j \in Q : argv[j] = Mounts(b)[L]
    BY <1>11
  <2>4. /\ says(i, "id") = says(j, "fsdev") /\ says(j, "mount_tag") = {x.tag}
        /\ says(i, "path") = {x.path} /\ says(i, "readonly") = IF x.readOnly THEN {on} ELSE {}
    BY <1>6, <2>1, <2>2, <2>3 DEF says
  <2>5. (says(i, "readonly") = {on}) = x.readOnly
    BY <1>18, <2>1, <2>4
  <2> DEFINE p == <<i, j>>
  <2>6. p \in bridged
    BY <2>4
  <2>7. p[1] = i /\ p[2] = j
    OBVIOUS
  <2> HIDE DEF p, bridged
  <2>8. <<says(p[2], "mount_tag"), says(p[1], "path"), says(p[1], "readonly") = {on}>>
          = <<{x.tag}, {x.path}, x.readOnly>>
    BY <2>4, <2>5, <2>7
  <2> QED BY <2>6, <2>8
<1>21. seen = {<<{x.tag}, {x.path}, x.readOnly>> : x \in ToSet(s)}
  <2> DEFINE f(p) == <<says(p[2], "mount_tag"), says(p[1], "path"), says(p[1], "readonly") = {on}>>
             g(x) == <<{x.tag}, {x.path}, x.readOnly>>
  <2> HIDE DEF bridged
  <2>1. seen = {f(p) : p \in bridged}
    OBVIOUS
  <2>2. /\ \A p \in bridged : \E x \in ToSet(s) : f(p) = g(x)
        /\ \A x \in ToSet(s) : \E p \in bridged : f(p) = g(x)
    BY <1>19, <1>20
  <2> HIDE DEF seen, f, g
  <2>3. seen = {g(x) : x \in ToSet(s)}
    BY <2>1, <2>2
  <2> QED BY <2>3 DEF g
<1> QED BY <1>14, <1>17, <1>21 DEF says

-----------------------------------------------------------------------------
(* The devices that are passed through *)

(* A valid token has no comma and no two dots in a row. *)
LEMMA TokenTyped ==
  ASSUME NEW A, NEW token \in Seq(A), validVFIOToken(token)
  PROVE  /\ NoComma(token)
         /\ \A i \in 1..Len(token) - 1 : ~(token[i] = "." /\ token[i + 1] = ".")
<1>1. \A i \in 1..Len(token) : token[i] # Comma
  BY Zenon DEF validVFIOToken
<1>2. \A i \in 1..Len(token) - 1 : ~(token[i] = "." /\ token[i + 1] = ".")
  BY Zenon DEF validVFIOToken
<1> QED BY <1>1, <1>2 DEF NoComma

(* QEMU reads the driver and one property of a device. *)
LEMMA VfioSays ==
  ASSUME NEW A, Words \subseteq A, NEW key \in A, key # Comma,
         NEW dir \in Seq(A), NoComma(dir), NEW token \in Seq(A), NoComma(token)
  PROVE  Fields(VfioText(key, dir, token), Comma) = {<<"vfio-pci">>, property(key, dir \o token)}
<1> DEFINE val == dir \o token
           L == <<"vfio-pci">>
<1>1. Comma \in A /\ "=" \in A /\ "vfio-pci" \in A
  BY DEF Words
<1>2. val \in Seq(A) /\ NoComma(val)
  BY NoCommaJoin
<1>3. L \in Seq(A) /\ NoComma(L)
  <2>1. "vfio-pci" # Comma
    BY NotComma
  <2> QED BY <1>1, <2>1, WordText
<1> HIDE DEF val, L
<1>4. Fields(L, Comma) = {L}
  BY <1>3, OneField DEF NoComma
<1>5. Fields(L \o option(key, val), Comma) = Fields(L, Comma) \cup {property(key, val)}
  BY <1>1, <1>2, <1>3, FieldsOption
<1>6. VfioText(key, dir, token) = L \o option(key, val)
  BY DEF VfioText, L, val
<1> QED BY <1>4, <1>5, <1>6 DEF L, val

(* A device's path has no step up. *)
LEMMA StaysInDevices ==
  ASSUME NEW A, Words \subseteq A, NEW token \in Seq(A),
         \A i \in 1..Len(token) - 1 : ~(token[i] = "." /\ token[i + 1] = ".")
  PROVE  <<".", ".">> \notin Fields(Devices \o token, "/")
<1> DEFINE d == Devices
           t == d \o token
           up == <<".", ".">>
<1> SUFFICES ASSUME up \in Fields(t, "/") PROVE FALSE
  OBVIOUS
<1>1. d \in Seq(A) /\ Len(d) = 9 /\ \A k \in 1..9 : d[k] # "."
  <2>1. /\ Len(d) = 9
        /\ d[1] = "/" /\ d[2] = "sys" /\ d[3] = "/" /\ d[4] = "bus"
        /\ d[5] = "/" /\ d[6] = "mdev" /\ d[7] = "/" /\ d[8] = "devices" /\ d[9] = "/"
    BY DEF Devices
  <2>2. d \in Seq(A)
    BY DevicesTyped
  <2> HIDE DEF d
  <2>3. \A k \in 1..9 : d[k] # "."
    BY <2>1, Nine
  <2> QED BY <2>1, <2>2, <2>3
<1> HIDE DEF d
<1>2. /\ t \in Seq(A) /\ Len(t) = 9 + Len(token) /\ Len(token) \in Nat
      /\ \A k \in 1..9 : t[k] = d[k]
      /\ \A k \in 1..Len(token) : t[9 + k] = token[k]
  <2>1. /\ t \in Seq(A) /\ Len(t) = Len(d) + Len(token) /\ Len(token) \in Nat
        /\ \A k \in 1..Len(d) : t[k] = d[k]
        /\ \A k \in 1..Len(token) : t[Len(d) + k] = token[k]
    <3>1. d \in Seq(A)
      BY <1>1
    <3> QED BY ONLY token \in Seq(A), <3>1, Joined
  <2> HIDE DEF t
  <2> QED BY <1>1, <2>1
<1>3. Len(up) = 2 /\ up[1] = "." /\ up[2] = "."
  OBVIOUS
<1> HIDE DEF t, up
<1>4. PICK i \in 0..Len(t), j \in 1..Len(t) + 1 :
           FieldAt(t, "/", i, j) /\ up = SubSeq(t, i + 1, j - 1)
  <2>1. t \in Seq(A)
    BY <1>2
  <2> QED BY ONLY up \in Fields(t, "/"), <2>1, FieldsAre
<1>5. i < j /\ i \in Nat /\ j \in Nat /\ j <= Len(t) + 1
  BY <1>2, <1>4 DEF FieldAt
<1>6. /\ Len(SubSeq(t, i + 1, j - 1)) = (j - 1) - (i + 1) + 1
      /\ \A k \in 1..(j - 1) - (i + 1) + 1 : SubSeq(t, i + 1, j - 1)[k] = t[i + 1 + k - 1]
  <2>1. /\ i + 1 \in 1..Len(t) + 1 /\ j - 1 \in 0..Len(t) /\ i + 1 <= (j - 1) + 1
    BY <1>2, <1>5
  <2> QED BY <1>2, <1>5, <2>1, SubSeqProperties
<1>7. j = i + 3
  BY <1>3, <1>4, <1>5, <1>6
<1>8. t[i + 1] = "." /\ t[i + 2] = "."
  <2>1. 1 \in 1..(j - 1) - (i + 1) + 1 /\ 2 \in 1..(j - 1) - (i + 1) + 1
        /\ i + 1 + 1 - 1 = i + 1 /\ i + 1 + 2 - 1 = i + 2
    BY <1>5, <1>7
  <2>2. SubSeq(t, i + 1, j - 1)[1] = t[i + 1] /\ SubSeq(t, i + 1, j - 1)[2] = t[i + 2]
    BY <1>6, <2>1
  <2> QED BY <1>3, <1>4, <2>2
<1>9. i >= 9
  <2>1. i + 1 \notin 1..9
    BY <1>1, <1>2, <1>8
  <2> QED BY <1>5, <2>1
<1>10. /\ i - 8 \in 1..Len(token) - 1 /\ 9 + (i - 8) = i + 1
       /\ (i - 8) + 1 \in 1..Len(token) /\ 9 + ((i - 8) + 1) = i + 2 /\ i - 8 \in 1..Len(token)
  BY <1>2, <1>5, <1>7, <1>9
<1>11. token[i - 8] = "." /\ token[(i - 8) + 1] = "."
  BY <1>2, <1>8, <1>10
<1> QED BY <1>10, <1>11

(* Whatever is configured, QEMU gets a device for every token that is not  *)
(* empty, in their order, with one property each, and no path leaves the   *)
(* mdev directory: validVFIOToken lets no comma, no slash and no two dots  *)
(* in a row pass.                                                          *)
THEOREM ClaimedDevicesBoot ==
  ASSUME NEW A, Words \subseteq A, NEW b \in BootConfigs(A)
  PROVE  BootsClaimedDevices(b)
<1> DEFINE argv == buildArgs(b)
           p == b.pciPassthrough
           q == b.migPassthrough
           tokens == p \o q
           claimed == {i \in DOMAIN tokens : tokens[i] # <<>>}
           mdev(i) == i > Len(p)
           held == DevicesOf(argv, "vfio-pci")
           P == Device(A, "vfio-pci")
           C == Claims(b)
           e == <<>>
           named(i) == IF mdev(i) THEN property("sysfsdev", Devices \o tokens[i])
                       ELSE property("host", tokens[i])
<1> SUFFICES ASSUME argv # NoArgs
             PROVE  /\ Cardinality(held) = Cardinality(claimed)
                    /\ \A g \in held, i \in claimed : Rank(held, g) = Rank(claimed, i) =>
                         Fields(argv[g][2], Comma) = {<<"vfio-pci">>, named(i)}
                    /\ \A i \in claimed :
                         mdev(i) => <<".", ".">> \notin Fields(Devices \o tokens[i], "/")
  BY DEF BootsClaimedDevices, Rank
<1>1. Picks(argv, P, Passed(b)) /\ Picks(C, P, Passed(b))
  BY Answers, PassedTyped
<1>2. argv \in Seq(Args(A))
  <2>1. 1 \in 1..9 /\ <<>> \in Seq(Args(A))
    OBVIOUS
  <2> QED BY <2>1, Asked
<1>3. held = At(argv, P) /\ Len(argv) \in Nat
  BY <1>2, PlacesAt
<1>4. p \in Seq(Seq(A)) /\ q \in Seq(Seq(A))
  BY DEF BootConfigs
<1>5. /\ Len(C) = Len(p) + Len(q)
      /\ \A i \in 1..Len(p) : C[i] = HeldArg("host", e, p[i])
      /\ \A i \in 1..Len(q) : C[Len(p) + i] = HeldArg("sysfsdev", Devices, q[i])
  BY PassedTyped
<1>6. \A t \in ToSet(tokens) : t # <<>> => validVFIOToken(t)
  BY Built DEF Malformed
<1> HIDE DEF p, q, e, C, P
<1>7. /\ tokens \in Seq(Seq(A)) /\ Len(tokens) = Len(p) + Len(q) /\ Len(p) \in Nat /\ Len(q) \in Nat
      /\ \A k \in 1..Len(p) : tokens[k] = p[k]
      /\ \A k \in 1..Len(q) : tokens[Len(p) + k] = q[k]
  BY <1>4, Joined
<1> HIDE DEF tokens
<1>8. DOMAIN tokens = 1..Len(C) /\ Len(C) \in Nat /\ \A i \in DOMAIN tokens : tokens[i] \in Seq(A)
  BY <1>5, <1>7, Elements
<1>9. ASSUME NEW i \in DOMAIN tokens
      PROVE  /\ ~mdev(i) => C[i] = HeldArg("host", e, tokens[i])
             /\ mdev(i) => C[i] = HeldArg("sysfsdev", Devices, tokens[i])
  <2>1. i \in Nat /\ i >= 1 /\ i <= Len(p) + Len(q)
    BY <1>5, <1>8
  <2>2. ~mdev(i) => i \in 1..Len(p)
    BY <1>7, <2>1
  <2>3. mdev(i) => i - Len(p) \in 1..Len(q) /\ Len(p) + (i - Len(p)) = i
    BY <1>7, <2>1
  <2> HIDE DEF mdev
  <2>4. ~mdev(i) => C[i] = HeldArg("host", e, tokens[i])
    BY <1>5, <1>7, <2>2
  <2>5. mdev(i) => C[i] = HeldArg("sysfsdev", Devices, tokens[i])
    BY <1>5, <1>7, <2>3
  <2> QED BY <2>4, <2>5
<1> HIDE DEF mdev
<1>10. /\ "host" \in A /\ "sysfsdev" \in A /\ "host" # Comma /\ "sysfsdev" # Comma
       /\ Devices \in Seq(A) /\ NoComma(Devices) /\ e \in Seq(A) /\ NoComma(e)
  <2>1. "host" \in A /\ "sysfsdev" \in A
    BY DEF Words
  <2>2. "host" # Comma /\ "sysfsdev" # Comma
    BY NotComma
  <2>3. Devices \in Seq(A) /\ NoComma(Devices)
    BY DevicesTyped
  <2>4. e \in Seq(A) /\ NoComma(e)
    BY DEF e, NoComma
  <2> QED BY <2>1, <2>2, <2>3, <2>4
<1> DEFINE key(i) == IF mdev(i) THEN "sysfsdev" ELSE "host"
           dir(i) == IF mdev(i) THEN Devices ELSE e
<1>11. ASSUME NEW i \in DOMAIN tokens
       PROVE  /\ key(i) \in A /\ key(i) # Comma /\ dir(i) \in Seq(A) /\ NoComma(dir(i))
              /\ C[i] = HeldArg(key(i), dir(i), tokens[i])
              /\ named(i) = property(key(i), dir(i) \o tokens[i])
  <2>1. /\ key(i) \in A /\ key(i) # Comma /\ dir(i) \in Seq(A) /\ NoComma(dir(i))
        /\ C[i] = HeldArg(key(i), dir(i), tokens[i])
    BY <1>9, <1>10
  <2>2. e \o tokens[i] = tokens[i]
    BY <1>8, ConcatEmptySeq DEF e
  <2> HIDE DEF e
  <2>3. named(i) = property(key(i), dir(i) \o tokens[i])
    BY <2>2
  <2> QED BY <2>1, <2>3
<1> HIDE DEF key, dir, named
<1>12. ASSUME NEW i \in DOMAIN tokens
       PROVE  C[i] \in P <=> tokens[i] # <<>>
  <2>1. <<"-device", VfioText(key(i), dir(i), tokens[i])>> \in P
    BY <1>8, <1>11, VfioArg DEF P
  <2>2. <<>> \notin P
    BY DEF P, Device, Flagged, Args
  <2>3. tokens[i] = <<>> => C[i] = <<>>
    BY <1>11 DEF HeldArg
  <2>4. tokens[i] # <<>> => C[i] = <<"-device", VfioText(key(i), dir(i), tokens[i])>>
    BY <1>11 DEF HeldArg
  <2> QED BY <2>1, <2>2, <2>3, <2>4
<1>13. claimed = At(C, P)
  BY <1>8, <1>12 DEF At
<1>14. \A i \in claimed : i \in DOMAIN tokens /\ tokens[i] # <<>>
  OBVIOUS
<1> HIDE DEF claimed, held, argv
<1>15. Cardinality(held) = Cardinality(claimed)
  BY <1>1, <1>3, <1>13 DEF Picks, argv
<1>16. ASSUME NEW i \in claimed
       PROVE  /\ tokens[i] \in Seq(A) /\ NoComma(tokens[i])
              /\ \A k \in 1..Len(tokens[i]) - 1 : ~(tokens[i][k] = "." /\ tokens[i][k + 1] = ".")
  <2>1. tokens[i] \in ToSet(tokens) /\ tokens[i] \in Seq(A)
    BY <1>8, <1>14 DEF ToSet
  <2>2. validVFIOToken(tokens[i])
    BY <1>6, <1>14, <2>1
  <2> QED BY <2>1, <2>2, TokenTyped
<1>17. ASSUME NEW g \in held, NEW i \in claimed, Rank(held, g) = Rank(claimed, i)
       PROVE  Fields(argv[g][2], Comma) = {<<"vfio-pci">>, named(i)}
  <2>1. argv[g] = C[i]
    <3>1. Passed(b)[Rank(held, g)] = argv[g]
      BY <1>1, <1>3 DEF Picks, argv
    <3>2. Passed(b)[Rank(claimed, i)] = C[i]
      BY <1>1, <1>13 DEF Picks
    <3> QED BY <1>17, <3>1, <3>2
  <2> DEFINE t == VfioText(key(i), dir(i), tokens[i])
  <2>2. C[i] = <<"-device", t>>
    BY <1>11, <1>14 DEF HeldArg
  <2>3. Fields(t, Comma) = {<<"vfio-pci">>, property(key(i), dir(i) \o tokens[i])}
    BY <1>11, <1>14, <1>16, VfioSays
  <2>4. argv[g][2] = t
    <3> HIDE DEF t
    <3> QED BY <2>1, <2>2
  <2> HIDE DEF t
  <2>5. named(i) = property(key(i), dir(i) \o tokens[i])
    BY <1>11, <1>14
  <2> QED BY <2>3, <2>4, <2>5
<1>18. ASSUME NEW i \in claimed
       PROVE  <<".", ".">> \notin Fields(Devices \o tokens[i], "/")
  BY <1>16, StaysInDevices
<1> QED BY <1>15, <1>17, <1>18

-----------------------------------------------------------------------------
(* The console *)

(* What config.json and the options say, over the atoms in A. *)
Configurations(A) ==
  [cmdline : Seq(A), cpus : Int, memMiB : Int, microVM : BOOLEAN,
   shares : Seq([tag : Seq(A), path : Seq(A), readOnly : BOOLEAN]),
   pciPassthrough : Seq(Seq(A)), migDevices : Seq(Seq(A)), vsockCID : Nat]
Options(A) == [arch : A, accel : A, cpus : Int, memMiB : Int]

(* The atoms of the texts that StartVM writes. *)
BootWords ==
  Words \cup {"", "kernel", "initrd", "disk.img", "console.log", "console=ttyAMA0",
              "console=ttyS0", "panic=-1", "weft.transport=9p"}

(* The command line is never empty. *)
LEMMA CmdlineTyped ==
  ASSUME NEW A, BootWords \subseteq A, NEW cfg \in Configurations(A), NEW arch
  PROVE  LET line == pickCmdline(cfg.cmdline, defaultCmdline(arch))
         IN line \in Seq(A) /\ line # <<>> /\ rewriteCmdlineForQEMU(line) \in Seq(A)
<1> DEFINE line == pickCmdline(cfg.cmdline, defaultCmdline(arch))
<1>1. /\ "console=ttyAMA0" \in A /\ "console=ttyS0" \in A /\ "panic=-1" \in A
      /\ "weft.transport=9p" \in A
  BY DEF BootWords
<1>2. line \in Seq(A) /\ line # <<>>
  <2>1. cfg.cmdline \in Seq(A)
    BY DEF Configurations
  <2>2. defaultCmdline(arch) \in Seq(A) /\ defaultCmdline(arch) # <<>>
    BY <1>1 DEF defaultCmdline
  <2> QED BY <2>1, <2>2 DEF pickCmdline
<1> HIDE DEF line
<1>3. rewriteCmdlineForQEMU(line) \in Seq(A)
  <2>1. Hint \in A
    BY <1>1 DEF Hint
  <2> QED BY <1>1, <1>2, <2>1, RewrittenWords
<1> QED BY <1>2, <1>3 DEF line

(* A path in a directory. *)
LEMMA InDirectory ==
  ASSUME NEW A, "/" \in A, NEW dir \in Seq(A), NEW name \in A
  PROVE  dir \o <<"/", name>> \in Seq(A) /\ dir \o <<"/", name>> # <<>>
<1> DEFINE c == <<"/", name>>
           u == dir \o c
<1>1. c \in Seq(A) /\ Len(c) = 2
  BY Two
<1> HIDE DEF c
<1>2. u \in Seq(A) /\ Len(u) = Len(dir) + Len(c) /\ Len(dir) \in Nat
  BY <1>1, Joined
<1> HIDE DEF u
<1>3. u # <<>>
  BY <1>1, <1>2
<1> QED BY <1>2, <1>3 DEF u, c

(* The boot configuration of what is configured. *)
LEMMA BootTyped ==
  ASSUME NEW A, BootWords \subseteq A, NEW opts \in Options(A), NEW vmDir \in Seq(A),
         NEW cfg \in Configurations(A), NEW cfgCPUs \in Configurations(A),
         NEW cfgMem \in Configurations(A), NEW initrd \in BOOLEAN, NEW disk \in BOOLEAN
  PROVE  bootConfig(opts, vmDir, cfg, cfgCPUs, cfgMem, initrd, disk) \in BootConfigs(A)
<1> DEFINE b == bootConfig(opts, vmDir, cfg, cfgCPUs, cfgMem, initrd, disk)
           line == pickCmdline(cfg.cmdline, defaultCmdline(opts.arch))
           dk == <<[path |-> vmDir \o <<"/", "disk.img">>, readOnly |-> FALSE]>>
           kernel == vmDir \o <<"/", "kernel">>
           ramdisk == vmDir \o <<"/", "initrd">>
           console == vmDir \o <<"/", "console.log">>
           cmdline == IF cfg.microVM THEN rewriteCmdlineForQEMU(line) ELSE line
           DT == [path : Seq(A), readOnly : BOOLEAN]
           ST == [tag : Seq(A), path : Seq(A), readOnly : BOOLEAN]
           FT == [proto : A, hostPort : Nat, guestPort : Nat]
<1>1. /\ "/" \in A /\ "" \in A /\ "kernel" \in A /\ "initrd" \in A /\ "disk.img" \in A
      /\ "console.log" \in A
  BY DEF BootWords, Words
<1>2. kernel \in Seq(A) /\ ramdisk \in Seq(A) /\ console \in Seq(A)
  BY <1>1, InDirectory
<1>3. dk \in Seq(DT) /\ <<>> \in Seq(DT) /\ <<>> \in Seq(ST) /\ <<>> \in Seq(FT) /\ <<>> \in Seq(A)
  <2>1. vmDir \o <<"/", "disk.img">> \in Seq(A)
    BY <1>1, InDirectory
  <2> DEFINE path == vmDir \o <<"/", "disk.img">>
  <2> HIDE DEF path
  <2>2. [path |-> path, readOnly |-> FALSE] \in DT
    BY <2>1 DEF path
  <2>3. \A x \in DT : <<x>> \in Seq(DT)
    OBVIOUS
  <2> QED BY <2>2, <2>3 DEF path
<1>4. cmdline \in Seq(A)
  BY CmdlineTyped
<1>5. /\ opts.arch \in A /\ opts.accel \in A /\ opts.cpus \in Int /\ opts.memMiB \in Int
      /\ cfgCPUs.cpus \in Int /\ cfgMem.memMiB \in Int
  BY DEF Options, Configurations
<1>6. /\ cfg.shares \in Seq(ST) /\ cfg.pciPassthrough \in Seq(Seq(A))
      /\ cfg.migDevices \in Seq(Seq(A)) /\ cfg.vsockCID \in Nat
  BY DEF Configurations
<1>7. readCPUs(cfgCPUs, opts.cpus) \in Int /\ readMem(cfgMem, opts.memMiB) \in Int
  BY <1>5 DEF readCPUs, readMem
<1>8. b = [arch |-> opts.arch, accel |-> opts.accel, cpu |-> "",
           cpus |-> readCPUs(cfgCPUs, opts.cpus), memMiB |-> readMem(cfgMem, opts.memMiB),
           kernel |-> kernel, initrd |-> IF initrd THEN ramdisk ELSE <<>>, cmdline |-> cmdline,
           disks |-> IF disk THEN dk ELSE <<>>, consolePath |-> console,
           netUser |-> TRUE, fwd |-> <<>>, shares |-> IF cfg.microVM THEN cfg.shares ELSE <<>>,
           pciPassthrough |-> cfg.pciPassthrough, migPassthrough |-> cfg.migDevices,
           vsockCID |-> cfg.vsockCID]
  BY DEF bootConfig
<1> HIDE DEF b, line, dk, kernel, ramdisk, console, cmdline
<1> DEFINE x1 == IF initrd THEN ramdisk ELSE <<>>
           x2 == IF disk THEN dk ELSE <<>>
           x3 == IF cfg.microVM THEN cfg.shares ELSE <<>>
<1>9. x1 \in Seq(A) /\ x2 \in Seq(DT) /\ x3 \in Seq(ST)
  BY <1>2, <1>3, <1>6
<1> HIDE DEF x1, x2, x3, DT, ST, FT
<1>10. b \in [arch : A, accel : A, cpu : A, cpus : Int, memMiB : Int,
              kernel : Seq(A), initrd : Seq(A), cmdline : Seq(A),
              disks : Seq(DT), consolePath : Seq(A), netUser : BOOLEAN, fwd : Seq(FT),
              shares : Seq(ST), pciPassthrough : Seq(Seq(A)), migPassthrough : Seq(Seq(A)),
              vsockCID : Nat]
  BY <1>1, <1>2, <1>3, <1>4, <1>5, <1>6, <1>7, <1>8, <1>9 DEF x1, x2, x3
<1> QED BY <1>10 DEF BootConfigs, DT, ST, FT, b

(* One argument is picked: its text is the only one of the flag. *)
LEMMA OneText ==
  ASSUME NEW A, NEW s \in Seq(Args(A)), NEW flag, NEW text,
         Picks(s, Flagged(A, flag), <<<<flag, text>>>>)
  PROVE  {s[i][2] : i \in Places(s, flag)} = {text}
<1> DEFINE I == Places(s, flag)
           w == <<<<flag, text>>>>
           P == Flagged(A, flag)
<1>1. I = At(s, P) /\ Len(s) \in Nat
  BY PlacesAt
<1>2. Len(w) = 1 /\ w[1][2] = text /\ \A L \in 1..1 : L = 1
  OBVIOUS
<1>3. Picks(s, P, w)
  OBVIOUS
<1> HIDE DEF w, I, P
<1>4. \A i \in I : Rank(I, i) \in 1..Len(w)
  BY <1>1, <1>3, PickedAt
<1>6. \A i \in I : s[i] = w[1]
  BY <1>1, <1>2, <1>3, <1>4 DEF Picks
<1>7. \E i \in I : s[i] = w[1]
  BY <1>1, <1>2, <1>3 DEF Picks
<1>8. {s[i][2] : i \in I} = {text}
  BY <1>2, <1>6, <1>7
<1> QED BY <1>8 DEF I

(* The command line has the port if it is the default, or has named hvc0.  *)
LEMMA LineHasPort ==
  ASSUME NEW A, BootWords \subseteq A, NEW cfg \in Configurations(A), NEW arch,
         \/ cfg.cmdline = <<>>
         \/ cfg.microVM /\ "console=hvc0" \in ToSet(cfg.cmdline) /\ arch = "aarch64"
  PROVE  LET line == pickCmdline(cfg.cmdline, defaultCmdline(arch))
             out == IF cfg.microVM THEN rewriteCmdlineForQEMU(line) ELSE line
         IN /\ out \in Seq(A) /\ out # <<>>
            /\ SerialPort(machineType(arch)) \in ToSet(out)
            /\ "console=hvc0" \notin ToSet(out)
<1> DEFINE line == pickCmdline(cfg.cmdline, defaultCmdline(arch))
           rew == rewriteCmdlineForQEMU(line)
           port == SerialPort(machineType(arch))
           at(j) == Cardinality(Kept(line, j))
           len == at(Len(line))
<1>1. "console=ttyAMA0" \in A /\ Hint \in A
  BY DEF BootWords, Hint
<1>2. line \in Seq(A) /\ line # <<>>
  BY CmdlineTyped
<1>3. port = IF arch = "aarch64" THEN "console=ttyAMA0" ELSE "console=ttyS0"
  BY DEF SerialPort, machineType
<1>4. cfg.cmdline = <<>> => line = <<port, "panic=-1">>
  BY <1>3 DEF pickCmdline, defaultCmdline
<1>5. cfg.cmdline # <<>> => line = cfg.cmdline
  BY DEF pickCmdline
<1>6. cfg.cmdline = <<>> => Len(line) = 2 /\ line[1] = port /\ line[2] = "panic=-1"
  <2> HIDE DEF line, port
  <2> QED BY <1>4
<1>7. \E j \in 1..Len(line) : line[j] # Hint /\ ForQEMU(line[j]) = port
  <2>1. CASE cfg.cmdline = <<>>
    <3>1. port # Hint /\ ForQEMU(port) = port
      BY <1>3 DEF Hint, ForQEMU
    <3>2. 1 \in 1..2
      OBVIOUS
    <3> HIDE DEF line, port
    <3> QED BY <1>6, <2>1, <3>1, <3>2
  <2>2. CASE cfg.cmdline # <<>>
    <3>1. cfg.microVM /\ "console=hvc0" \in ToSet(cfg.cmdline) /\ arch = "aarch64"
      BY <2>2
    <3> DEFINE l == cfg.cmdline
    <3>2. l \in Seq(A)
      BY DEF Configurations
    <3>3. PICK j \in 1..Len(l) : l[j] = "console=hvc0"
      BY <3>1, <3>2, Elements DEF ToSet
    <3>4. line = l
      BY <1>5, <2>2
    <3>5. "console=hvc0" # Hint /\ ForQEMU("console=hvc0") = port
      BY <1>3, <3>1 DEF Hint, ForQEMU
    <3> HIDE DEF l, line, port
    <3> QED BY <3>3, <3>4, <3>5
  <2> QED BY <2>1, <2>2
<1>8. /\ rew \in Seq(A) /\ Len(rew) = len + 1 /\ rew[len + 1] = Hint
      /\ \A j \in Kept(line, Len(line)) : rew[at(j)] = ForQEMU(line[j])
      /\ \A k \in 1..len : rew[k] \notin {Hint, "console=hvc0"}
  <2> HIDE DEF line
  <2> QED BY <1>1, <1>2, RewrittenWords
<1>9. Len(line) \in Nat /\ DOMAIN line = 1..Len(line)
  <2> HIDE DEF line
  <2> QED BY <1>2, Elements
<1>10. len \in Nat /\ \A j \in 1..Len(line) : at(j) \in Nat /\ at(j) <= len
  <2> HIDE DEF line
  <2>1. \A j \in Nat : at(j) \in Nat
    BY KeptCount
  <2>2. \A j \in 0..Len(line) : at(j) <= len
    BY <1>9, KeptCount
  <2> HIDE DEF at
  <2> QED BY <1>9, <2>1, <2>2
<1>11. DOMAIN rew = 1..len + 1 /\ rew # <<>>
  <2> HIDE DEF rew, len, line
  <2>1. DOMAIN rew = 1..Len(rew)
    BY <1>8, Elements
  <2> QED BY <1>8, <1>10, <2>1
<1>12. port \in ToSet(rew)
  <2>1. PICK j \in 1..Len(line) : line[j] # Hint /\ ForQEMU(line[j]) = port
    BY <1>7
  <2> HIDE DEF rew, line, port
  <2>2. j \in Kept(line, Len(line)) /\ j \in Kept(line, j)
    BY <1>9, <2>1 DEF Kept
  <2>3. at(j) # 0
    <3>1. IsFiniteSet(Kept(line, j))
      BY <1>9, KeptCount
    <3> QED BY <2>2, <3>1, FS_EmptySet
  <2>4. at(j) \in 1..len + 1
    <3> HIDE DEF at, len
    <3> QED BY <1>10, <2>3
  <2>5. rew[at(j)] = port
    BY <1>8, <2>1, <2>2
  <2> HIDE DEF at, len
  <2> QED BY <1>11, <2>4, <2>5 DEF ToSet
<1>13. "console=hvc0" \notin ToSet(rew)
  <2>1. Hint # "console=hvc0"
    BY DEF Hint
  <2> HIDE DEF rew, at, len, line
  <2>2. \A k \in 1..len + 1 : k = len + 1 \/ k \in 1..len
    BY <1>10
  <2> QED BY <1>8, <1>11, <2>1, <2>2 DEF ToSet
<1>14. ~cfg.microVM => port \in ToSet(line) /\ "console=hvc0" \notin ToSet(line)
  <2>1. ~cfg.microVM => Len(line) = 2 /\ line[1] = port /\ line[2] = "panic=-1"
    BY <1>6
  <2>2. port # "console=hvc0"
    BY <1>3
  <2> HIDE DEF line, port
  <2>3. \A i \in 1..2 : i = 1 \/ i = 2
    OBVIOUS
  <2> QED BY <1>9, <2>1, <2>2, <2>3 DEF ToSet
<1> HIDE DEF rew, line, port
<1> QED BY <1>2, <1>8, <1>11, <1>12, <1>13, <1>14 DEF rew, line, port

(* Whatever else is configured, the kernel's console is the serial port    *)
(* that QEMU captures: for the default command line, on every machine, and *)
(* for a microVM's that names hvc0, on aarch64 only.                       *)
THEOREM ConsoleIsCaptured ==
  ASSUME NEW A, BootWords \subseteq A, NEW opts \in Options(A), NEW vmDir \in Seq(A),
         NEW cfg \in Configurations(A), NEW cfgCPUs \in Configurations(A),
         NEW cfgMem \in Configurations(A), NEW initrd \in BOOLEAN, NEW disk \in BOOLEAN
  PROVE  CapturesConsole(bootConfig(opts, vmDir, cfg, cfgCPUs, cfgMem, initrd, disk), cfg)
<1> DEFINE b == bootConfig(opts, vmDir, cfg, cfgCPUs, cfgMem, initrd, disk)
           argv == buildArgs(b)
           texts(flag) == {argv[i][2] : i \in Places(argv, flag)}
           type == <<machineType(b.arch)>>
           line == b.cmdline
<1> SUFFICES ASSUME argv # NoArgs,
                    \/ cfg.cmdline = <<>>
                    \/ cfg.microVM /\ "console=hvc0" \in ToSet(cfg.cmdline) /\ b.arch = "aarch64"
             PROVE  /\ \E t \in texts("-machine"), l \in texts("-append") :
                         /\ texts("-machine") = {t} /\ texts("-append") = {l}
                         /\ SerialPort(t[1]) \in ToSet(l)
                         /\ "console=hvc0" \notin ToSet(l)
                    /\ texts("-serial") = {<<"file:">> \o b.consolePath}
  BY DEF CapturesConsole
<1>1. b \in BootConfigs(A)
  BY BootTyped
<1>2. Words \subseteq A
  BY DEF BootWords
<1>3. b.arch = opts.arch /\ b.consolePath = vmDir \o <<"/", "console.log">>
  BY DEF bootConfig
<1>4. line = IF cfg.microVM THEN rewriteCmdlineForQEMU(pickCmdline(cfg.cmdline, defaultCmdline(opts.arch)))
             ELSE pickCmdline(cfg.cmdline, defaultCmdline(opts.arch))
  BY DEF bootConfig
<1>5. line # <<>> /\ SerialPort(machineType(opts.arch)) \in ToSet(line)
      /\ "console=hvc0" \notin ToSet(line)
  <2>1. \/ cfg.cmdline = <<>>
        \/ cfg.microVM /\ "console=hvc0" \in ToSet(cfg.cmdline) /\ opts.arch = "aarch64"
    BY <1>3
  <2> HIDE DEF b
  <2> QED BY <1>4, <2>1, LineHasPort
<1>6. b.consolePath # <<>>
  <2>1. "/" \in A /\ "console.log" \in A
    BY DEF BootWords, Words
  <2>2. vmDir \o <<"/", "console.log">> # <<>>
    BY <2>1, InDirectory
  <2> QED BY <1>3, <2>2
<1> HIDE DEF b
<1>7. /\ Picks(argv, Flagged(A, "-machine"), <<<<"-machine", type>>>>)
      /\ Picks(argv, Flagged(A, "-append"), <<<<"-append", line>>>>)
      /\ Picks(argv, Flagged(A, "-serial"), <<<<"-serial", <<"file:">> \o b.consolePath>>>>)
  BY <1>1, <1>2, <1>5, <1>6, Answers
<1>13. \A x : x = <<"file:">> \o b.consolePath =>
         Picks(argv, Flagged(A, "-serial"), <<<<"-serial", x>>>>)
  BY <1>7
<1>8. argv \in Seq(Args(A))
  <2>1. 1 \in 1..9 /\ <<>> \in Seq(Args(A))
    OBVIOUS
  <2> QED BY <1>1, <1>2, <2>1, Asked
<1> DEFINE file == <<"file:">> \o b.consolePath
<1>9. type[1] = machineType(b.arch)
  OBVIOUS
<1> HIDE DEF argv, type, line, file
<1>10. texts("-machine") = {type} /\ texts("-append") = {line}
  BY <1>7, <1>8, OneText
<1>11. texts("-serial") = {file}
  <2>1. Picks(argv, Flagged(A, "-serial"), <<<<"-serial", file>>>>)
    BY <1>13 DEF file
  <2> QED BY <1>8, <2>1, OneText
<1>12. SerialPort(type[1]) \in ToSet(line)
  BY <1>3, <1>5, <1>9
<1> QED BY <1>5, <1>10, <1>11, <1>12 DEF file

-----------------------------------------------------------------------------
(* The boot configurations of MCAlgorithms *)

(* The atoms they are made of. *)
Atoms ==
  BootWords \cup {"a", "b", "p", "q", ".", "vm", "aarch64", "x86_64", "console=hvc0", "quiet"}

(* Bounded sequences over a smaller set. *)
LEMMA BoundedSeqIn ==
  ASSUME NEW S, NEW T, S \subseteq T, NEW L
  PROVE  BoundedSeq(S, L) \subseteq Seq(T)
<1>1. BoundedSeq(S, L) \subseteq Seq(S)
  BY BoundedSeqIsSeq
<1>2. \A s \in Seq(S) : s \in Seq(T)
  OBVIOUS
<1> QED BY <1>1, <1>2

(* The configurations of the run are made of its atoms. *)
LEMMA ConfigsTyped == Configs \subseteq Configurations(Atoms)
<1> DEFINE A == Atoms
           C == Configurations(A)
           ST == [tag : Seq(A), path : Seq(A), readOnly : BOOLEAN]
           Lines == BoundedSeq({"console=hvc0", "quiet"}, 2)
           Shares == BoundedSeq(Share, 2)
           N2 == BoundedSeq(Names, 2)
           N1 == BoundedSeq(Names, 1)
           P1 == BoundedSeq({<<"a">>}, 1)
           T1 == BoundedSeq(Token, 1)
<1>1. /\ "a" \in A /\ "b" \in A /\ "p" \in A /\ "q" \in A /\ "." \in A /\ "=" \in A /\ "/" \in A
      /\ Comma \in A /\ "console=hvc0" \in A /\ "quiet" \in A
  BY DEF Atoms, BootWords, Words
<1> HIDE DEF A
<1>2. Lines \subseteq Seq(A)
  BY <1>1, BoundedSeqIn
<1>3. Shares \subseteq Seq(ST)
  <2>1. /\ <<>> \in Seq(A) /\ <<"a">> \in Seq(A) /\ <<"b">> \in Seq(A) /\ <<"p">> \in Seq(A)
        /\ <<"p", Comma, "q">> \in Seq(A)
    BY <1>1
  <2>2. Share \subseteq ST
    BY <2>1 DEF Share
  <2> QED BY <2>2, BoundedSeqIn
<1>4. N2 \subseteq Seq(Seq(A)) /\ N1 \subseteq Seq(Seq(A))
  <2>1. <<>> \in Seq(A) /\ <<"a">> \in Seq(A) /\ <<"b">> \in Seq(A) /\ <<"a", Comma>> \in Seq(A)
    BY <1>1
  <2>2. Names \subseteq Seq(A)
    BY <2>1 DEF Names
  <2> QED BY <2>2, BoundedSeqIn
<1>5. P1 \subseteq Seq(Seq(A))
  <2>1. <<"a">> \in Seq(A)
    BY <1>1
  <2>2. {<<"a">>} \subseteq Seq(A)
    BY <2>1
  <2> QED BY <2>2, BoundedSeqIn
<1>6. T1 \subseteq Seq(Seq(A))
  <2>1. {"a", Comma, "=", "/", "."} \subseteq A
    BY <1>1
  <2>2. Token \subseteq Seq(A)
    BY <2>1, BoundedSeqIn DEF Token
  <2> QED BY <2>2, BoundedSeqIn
<1>7. NoConfig \in C
  BY DEF NoConfig, Configurations
<1> DEFINE Q == Seq(A)
           QQ == Seq(Seq(A))
           SS == Seq(ST)
<1>8. C = [cmdline : Q, cpus : Int, memMiB : Int, microVM : BOOLEAN, shares : SS,
           pciPassthrough : QQ, migDevices : QQ, vsockCID : Nat]
  BY DEF Configurations
<1>9. Lines \subseteq Q /\ Shares \subseteq SS /\ N2 \subseteq QQ /\ N1 \subseteq QQ
      /\ P1 \subseteq QQ /\ T1 \subseteq QQ
  BY <1>2, <1>3, <1>4, <1>5, <1>6
<1> HIDE DEF Q, QQ, SS, C, ST, Lines, Shares, N2, N1, P1, T1
<1> DEFINE f1(v, l, c) ==
             [NoConfig EXCEPT !.microVM = v, !.cmdline = l, !.cpus = c, !.vsockCID = c]
           f2(s) == [NoConfig EXCEPT !.microVM = TRUE, !.shares = s]
           f3(p, t) == [NoConfig EXCEPT !.pciPassthrough = p, !.migDevices = t]
<1>10. \A v \in BOOLEAN, l \in Q, c \in Nat : f1(v, l, c) \in C
  <2> SUFFICES ASSUME NEW v \in BOOLEAN, NEW l \in Q, NEW c \in Nat PROVE f1(v, l, c) \in C
    OBVIOUS
  <2>1. c \in Int
    OBVIOUS
  <2> QED BY <1>7, <1>8, <2>1
<1>11. \A s \in Shares : f2(s) \in C
  BY <1>7, <1>8, <1>9
<1>12. \A p, t \in QQ : f3(p, t) \in C
  BY <1>7, <1>8, <1>9
<1>13. Configs =
         {f1(v, l, c) : v \in BOOLEAN, l \in Lines, c \in {0, 2}} \cup {f2(s) : s \in Shares}
         \cup {f3(p, t) : p \in N2, t \in N1} \cup {f3(p, t) : p \in P1, t \in T1}
  BY DEF Configs, Lines, Shares, N2, N1, P1, T1
<1> HIDE DEF f1, f2, f3
<1>14. ASSUME NEW x \in Configs PROVE x \in C
  <2>1. \/ \E v \in BOOLEAN, l \in Lines, c \in {0, 2} : x = f1(v, l, c)
        \/ \E s \in Shares : x = f2(s)
        \/ \E p \in N2, t \in N1 : x = f3(p, t)
        \/ \E p \in P1, t \in T1 : x = f3(p, t)
    BY <1>13
  <2>2. \A c \in {0, 2} : c \in Nat
    OBVIOUS
  <2> QED BY <1>9, <1>10, <1>11, <1>12, <2>1, <2>2
<1> QED BY <1>14 DEF C, A

(* The boot configuration of an input is one of bootConfig's. *)
LEMMA BootIsTyped ==
  ASSUME NEW c \in BootCases
  PROVE  /\ BootWords \subseteq Atoms /\ Words \subseteq Atoms
         /\ boot(c) \in BootConfigs(Atoms)
         /\ CapturesConsole(boot(c), c.cfg)
<1> DEFINE opts == NewHypervisor([arch |-> "", accel |-> "", cpus |-> 0, memMiB |-> 0], c.goarch)
           dir == <<"vm">>
           cfg == c.cfg
           disk == c.disk
<1>1. BootWords \subseteq Atoms /\ Words \subseteq Atoms
  BY DEF Atoms, BootWords
<1>2. dir \in Seq(Atoms)
  <2>1. "vm" \in Atoms
    BY DEF Atoms
  <2> QED BY <2>1
<1>3. cfg \in Configurations(Atoms) /\ disk \in BOOLEAN /\ c.goarch \in {"arm64", "amd64"}
  BY ConfigsTyped DEF BootCases
<1>4. opts \in Options(Atoms)
  <2>1. hostArch(c.goarch) \in {"aarch64", "x86_64"}
    BY <1>3 DEF hostArch
  <2>2. "aarch64" \in Atoms /\ "x86_64" \in Atoms /\ "tcg" \in Atoms
    BY DEF Atoms, BootWords, Words
  <2>3. opts = [arch |-> hostArch(c.goarch), accel |-> "tcg", cpus |-> 1, memMiB |-> 512]
    BY DEF NewHypervisor
  <2>4. hostArch(c.goarch) \in Atoms
    BY <2>1, <2>2
  <2> HIDE DEF opts
  <2> QED BY <2>2, <2>3, <2>4 DEF Options
<1>5. boot(c) = bootConfig(opts, dir, cfg, cfg, cfg, FALSE, disk)
  BY DEF boot
<1> HIDE DEF opts, dir, cfg, disk
<1>6. boot(c) \in BootConfigs(Atoms)
  BY <1>1, <1>2, <1>3, <1>4, <1>5, BootTyped
<1>7. CapturesConsole(bootConfig(opts, dir, cfg, cfg, cfg, FALSE, disk), cfg)
  BY <1>1, <1>2, <1>3, <1>4, ConsoleIsCaptured
<1> QED BY <1>1, <1>5, <1>6, <1>7 DEF cfg

(* QEMU gets the claimed devices for every input of MCAlgorithms. *)
THEOREM AlwaysClaimedDevices == Spec => []ClaimedDevices
<1>1. CaseInv => ClaimedDevices
  <2> SUFFICES ASSUME case \in BootCases PROVE BootsClaimedDevices(boot(case))
    BY DEF CaseInv, ClaimedDevices
  <2> QED BY BootIsTyped, ClaimedDevicesBoot
<1> QED BY <1>1, CasesAreInputs, PTL

(* The guest finds its shares for every input of MCAlgorithms. *)
THEOREM AlwaysSharesMounted == Spec => []SharesMounted
<1>1. CaseInv => SharesMounted
  <2> SUFFICES ASSUME case \in BootCases PROVE MountsConfiguredShares(boot(case))
    BY DEF CaseInv, SharesMounted
  <2> QED BY BootIsTyped, SharesAreMounted
<1> QED BY <1>1, CasesAreInputs, PTL

(* The console is captured for every input of MCAlgorithms with the default *)
(* command line, and for those with hvc0 on aarch64; on x86_64 hvc0 is the  *)
(* case that ConsoleX86 refutes.                                            *)
THEOREM AlwaysConsoleCaptured == Spec => []ConsoleCaptured
<1>1. CaseInv => ConsoleCaptured
  <2> SUFFICES ASSUME case \in BootCases PROVE CapturesConsole(boot(case), case.cfg)
    BY DEF CaseInv, ConsoleCaptured
  <2> QED BY BootIsTyped
<1> QED BY <1>1, CasesAreInputs, PTL
=============================================================================
