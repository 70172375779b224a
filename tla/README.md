# TLA+ models of weft-driver-qemu

weft-driver-qemu is a go-plugin that runs virtual machines with QEMU for a weft
agent and serves their volumes. This directory holds models of its stateful
parts, the TLC runs that check them on small instances, and proofs, checked by
TLAPS, of what holds for every instance. All definitions follow the Go code;
`PROJECT.json` names the lines of each.

Contents: [the system](#the-system), [the modules](#the-modules),
[the runs](#the-runs), [fairness](#fairness), [the proofs](#the-proofs),
[where code and documentation disagree](#where-code-and-documentation-disagree),
[not modelled](#not-modelled), [plan](#plan).

## The system

| Part | State | Operations | What makes it correct |
|---|---|---|---|
| Hypervisor (`builtin/qemu.go`) | none in memory; the files of a VM's directory (`kernel`, `mac.txt`, `disk.img`, `vm.pid`, `exit.json`), the process table, one reaper goroutine per QEMU | `CreateVM`, `StartVM`, `StopVM`, `DeleteVM`, `AttachDisk` | a QEMU that was recorded can be stopped; `exit.json` is whole, names the dead and, in the end, the last one to exit; a VM keeps its address and its guest's data |
| GoVolume exports (`builtin/govolume.go`) | `v.servers` under `v.mu`; one NBD listener, `Serve` goroutine and backing per attached volume | `AttachVolume`, `DetachVolume`, `DestroyVolume` | no backing closed under a client, none leaked or closed twice; the map names live exports; every call returns |
| GoVolume pools (`builtin/govolume.go`) | `<StateDir>/<uuid>/pool.bin` with the volume `disk` and its snapshots | `EnsureVolume`, `CreateSnapshot`, `ListSnapshots`, `CreateBackup`, `RestoreBackup` | a call that returns nil has delivered what it says |
| GoVolume OCI overlays (`builtin/govolume_oci.go`) | the sidecar `oci.json`, tags in a registry, overlays in memory | `EnsureVolume`, `RestoreBackup`, `AttachVolume`, `CreateSnapshot`, `CreateBackup` | a reopen attaches the newest committed version; the base is never lost |
| Boot arguments (`builtin/args.go`, `qemu.go`) | none | `buildArgs`, `rewriteCmdlineForQEMU` | QEMU, reading the arguments its own way, gets the devices, shares and console that were configured |
| OCI references (both govolume files) | none | `parseOCITarget`, `hostIsLocal`, `retagOCIRef` | every documented reference is cut where it should be; a snapshot stays in its repository |
| File volume, image, network (`volume.go`, `image.go`, `network.go`) | none | all return `ErrUnsupported` | scaffolds |
| Bundle, HostInfo, main | none | construction | wiring |

How they interact. The agent's RPCs arrive concurrently, each on its own
goroutine. The hypervisor and the volumes do not call each other: the agent
attaches a volume, passes the `nbd://` address on, and QEMU connects to it. Two
goroutine kinds outlive an RPC: the reaper of a QEMU (`cmd.Wait`, then
`exit.json`) and the `Serve` goroutine of an export. QEMU runs in a session of
its own and survives the plugin; exports and overlays do not. The bundle and
`main` wire the file `Volume`; `GoVolume` is a driver its users construct.

Hard to test, and therefore what the properties are about: two RPCs interleaved
around `v.mu` or around a file; a drain under or outside the lock; clients that
do not disconnect; temporary files with a fixed name; pids that are reused; a
plugin that dies between two file operations; retries of calls that failed half
way. `PROJECT.json` lists every such hazard with its line and the properties
that would catch it.

## The modules

**NbdExports** — the exports of GoVolume. `servers` and `mu` are the fields of
`GoVolume`; a member of `Servers` is one `nbdServer` (and its address), `state`
how far it has come (`opened`, `private` when it serves but is not in the map,
`announced`, `closing` once the listener is closed, `drained` once `Serve` has
returned); `pc`, `vol`, `host`, `mine` and `ret` are the locals of a call.
`AttachVolume` is `AttachCheck` (first critical section), `AttachOpen`,
`AttachListen`, `AttachPublish` (second one), each with its failure;
`nbdServer.close` is `CloseListener`, `ServeReturns` (the goroutine) and
`CloseBacking`; `DetachVolume` is `DetachTake` and a close outside the lock;
`DestroyVolume` is `DestroyLock`, `DestroyScan` and a close for each export,
`DestroyUnlock`, `DestroyRemove`. A pool and an overlay are the same kind of
backing here. Slots are used again after a close, as ports are. `mu` is free
in every state in which the code is between critical sections: those that do
not wait are one action.

**ExportRegistry** — what the exports promise: a map from (volume, host) to an
address on which every call takes effect at one instant. NbdExports implements
it under a refinement mapping (`phaseBar`, `regBar`): an attach or detach takes
effect in its deciding critical section, a destroy when it gets the lock, from
where on nobody sees the map until it has finished.

**AttachKey** — the key of `v.servers` and the prefix test on it. NbdExports
takes keys as pairs; this module shows why it may.

**VmLifecycle** — the hypervisor. A process is its pid, with its owner, its
reaper and whether it is a zombie; `vm.pid` and `exit.json` hold the pid they
name, are missing, are `Empty` after an open that truncated them, or, for the
document in `exit.json`, are `Torn`: bytes that are no document. `os.WriteFile`
is an open and a write to the file that was opened, wherever it is linked by
then (`fd`, and `pc[c] = "writegone"` for `vm.pid`); either may fail and leave
what is there. `os.Rename` moves the file. The constants say what the
environment may do: `Overlap` (calls on one VM overlap), `Ops`, and `Events`
(pids are reused, other processes start, the plugin restarts, reads or writes
fail). Reading `vm.pid` and signalling in `StopVM` are two steps, the test in
`StartVM` and each of its effects are steps of their own, and `DeleteVM`
unlinks `vm.pid`, `exit.json` and its temporary file one by one, then the
directory, which must be empty by then; it may stop anywhere. `CreateVM` is one
step here. The answer of signal 0 for a process that is not ours is open
(`pidAlive`), and so is that of a `vm.pid` that cannot be read. The history
variable `shared` is not in the code: the VMs of which two reapers had the
temporary file at once.

**VmFiles** — the two files of a VM that are created if they are missing:
`mac.txt` (`ensureMAC`) and `disk.img` (`AttachDisk`). Every file operation is a
step that may fail: `MacOpen` (which truncates), `MacWrite`; `MakeDir`,
`DiskCreate` (which truncates), `DiskSize`. The look for a file, `MacStat`,
`DiskStat` and `DiskArg`, cannot fail: `fileExists` takes every error of
`os.Stat` for a missing file, so that the answer for one that exists is either
(`fileExists`), and the call goes on. `DeleteVM`
unlinks the files one by one (`UnlinkMac`, `UnlinkDisk`) and then the
directory, if it is empty (`RemoveDir`); a file that a call or QEMU has open
lives on unlinked. `DiskArg` and `Launch` are the part of `StartVM` that looks
for the disk and gives it to a QEMU, whose guest then writes to it. `SameOp`
says whether two calls of one RPC may overlap. Three history variables are not
in the code: `torn`, the files an earlier call left half made, `raced`, whether
a `DeleteVM` has taken a file away since a call began, and `blind`, whether a
call was told that a file is missing which is there.

**OciVersions** — one OCI-overlay volume. A version is the set of guest writes
it holds; `content` is what an overlay shows, `tag` what a registry tag holds.
`writeOCISidecar` is three steps on `oci.json.tmp` and `oci.json`, with open
files that follow a rename. A snapshot or backup may be given any tag, one in
use and the base's own included, and overwrites what it held. `isOCIVolume` and
`baseRef` are sets of the answers they may give: with `LooksFail`, an `os.Stat`
or `os.ReadFile` of the sidecar may fail, upon which the code takes it for
missing, or its base for `""`. `DestroyRemove` takes away any part of the
directory. Two history variables are not in the code: `acked`, the writes in
versions whose commit has returned, and `home`, the base the volume was
provisioned with.

**VersionChain** — what an OCI-overlay volume promises: it stands on one base
and has one current version, which every guest that gets the volume is shown
whole and which only gains writes until the volume is destroyed. OciVersions
implements it: the base is the one the sidecar names (`baseBar`), the version
the writes of the tag it calls current (`versionBar`), what a guest is shown the
content of its overlay (`shownBar`). A commit takes effect when the sidecar is
renamed; a crash before that leaves the old version.

**VolumeStore** — provisioning, restoring, snapshots and backups of one volume,
with a crash or a failure possible in every step: a stat that fails and takes a
pool or a sidecar for missing (`fileExists`), and a removal that stops after
some of the files, among them; a device is a sequence of
blocks. A backup is of a snapshot or, since `CreateBackup` opens any volume of
the pool by name, of the live `disk`. The history variable `origin` names the
backup the disk should be a copy of.

**DeviceCopy** — `copyDevice` and `readFullAt`, byte by byte, with a reader that
cuts its answers up in every way `io.ReaderAt` permits, and a writer that may
fail after any part of a window.

**OciRef** — `parseOCITarget`, `hostIsLocal` and `retagOCIRef` on sequences in
which the separators are single characters and any other element stands for a
run of letters, digits and dots. `Refused` is the zero value that
`parseOCITarget` returns beside an error, `NoRef` the empty string of
`retagOCIRef`. The reference is a set (`Cuts`): all ways to cut a string into
host, repository and tag.

**BootArgs** — the boot configuration `StartVM` assembles from the options, the
VM directory and `config.json`, and the arguments `buildArgs` makes of it, in
their order. An argument is a flag with the text behind it. A second part is
not the driver's: how QEMU takes such a text apart at its commas and finds a
property by its key (`Fields`, `Values`, `DevicesOf`). The properties
compare what QEMU makes of the arguments with what was configured.
`rewriteCmdlineForQEMU` is the code's loop, with its words written over those
already read (`readWords` gives the array after each word); its property says
word by word where each one must be in the end.

**MCAlgorithms** — puts the copy loop and the pure functions side by side: one
run takes a copy to its end or looks at one input of a function.

`MC*` modules add symmetry sets and bounds for TLC. The `*Proofs` modules hold
the proofs.
Definitions marked "Mutant of" are wrong variants of the action that follows
them, each a plausible slip in the code; with the action replaced by its
mutant, the run named in `PROJECT.json` fails.

## The runs

| Run | Instance | Shows |
|---|---|---|
| ExportsConcurrent | 3 calls, 2 volumes, 2 slots, 1 client | types, `NoUseAfterClose`, `PublishedServes`, `OwnedOnce`, `ImplementsRegistry` |
| ExportsLive | 2 calls, 1 volume, 3 slots, 1 client | `CallsReturn` if clients disconnect, `AttachReturns` even if not |
| VmSerial | 2 VMs, 1 call, 2 pids with reuse, other processes, restarts, writes that fail; no deletion | types, `EveryQemuStoppable`, `ExitWholeUnlessShared` |
| VmOverlap | 1 VM, 3 calls of all RPCs, 2 pids without reuse, other processes, reads that fail | `ExitNamesTheDead`, `ExitIsReported` |
| VmFiles | 1 VM, 3 calls of different RPCs, 2 addresses, sizes to 2, failures, looks that miss a file, restarts | types, `StableMAC`, `MacDelivered`, `GuestDataKept`, `DiskDelivered` |
| OciSerial | 1 call, 1 host, the base and 2 tags, used again, 2 writes, crashes; looks at the sidecar succeed | types, `SidecarWhole`, `AckedKept`, `BaseNeverChanges`, `ImplementsChain` |
| StoreFaults | sizes to 3, 2 targets, failures, looks that miss a file, partial removals, crashes | types, `EnsureDelivers`, `RestoreDelivers` |
| Algorithms | images of 0 to 5 bytes in windows of 2 | types, `CopyExact`, `CopyEnds` |
| | UUIDs of 0 to 2 characters | `PrefixExact`, `KeysExact` |
| | references of up to 7 parts behind `oci://`, or of up to 5 without | `ParseExact`, `RetagExact`, `LocalExact` |
| | command lines of up to 5 words; up to 2 shares, 2 PCI devices and 1 MIG device; both architectures | `RewriteExact`, `SharesMounted`, `ClaimedDevices`, `ConsoleCaptured` |

Four more runs, which TLC refutes on purpose, are under
[disagreements](#where-code-and-documentation-disagree).

Why the bounds are enough. Three calls on one key give a winner, a loser and a
detach or destroy between them; two slots are the winner's server and the
loser's, or one server per volume (the runs on one volume have three, and the
theorems cover any number). The second volume is there for what must not
happen to it. One client is enough for "a client is connected", since the
drain waits for each. Two pids let one QEMU outlive the record of it, and two
reapers of one VM meet; a foreign process takes one of them. Three calls in
VmOverlap are two that race and a `DeleteVM` between them; those in VmFiles one
that makes a file, one that removes it and one that uses it. Two tags and the
base's give a new version, one that overwrites an old one, and one that
overwrites the base. Windows of 2 in images up to 5 give an empty image, a
full, a short and no last window. Seven parts are a host with a port, two parts
of a repository and a tag; five words are a hint before, between and after the
words kept. Two shares or devices are enough for one to be taken for the other.
No run stops at a bound silently: a call that finds no free slot or pid waits,
and deadlock is checked except in Algorithms and ConsoleX86, where a copy ends
and an input has no next.

## Fairness

- *Steps of a call* (`SF` of `Step(c)` in NbdExports, `WF` in VmLifecycle): a
  goroutine runs until it blocks. The strong form covers `v.mu`: Go's mutex
  hands the lock to a waiter that has starved for a millisecond.
- *ServeReturns* (`WF`): `Serve` waits for its connection handlers and returns
  once the listener is closed and they are gone.
- *ClientDisconnect* (`WF`, as the premise of `CallsReturn` only): the agent stops a VM
  before it detaches its volumes, and a dead QEMU holds no connection. Without
  this, `DestroyVolume` may wait forever and everyone waits with it;
  `AttachReturns` says that `DetachVolume` alone has no such effect.
- *The copy loop* (`WF` of `Copy` in MCAlgorithms): it blocks only in a reader
  that answers.
- *Reaper steps* (`WF`), and the exit of a QEMU that got SIGTERM. With the steps
  of a call this is the fairness of VmOverlap, for `ExitIsReported`: the reaper
  of the QEMU that `vm.pid` names reports its exit under its own pid, unless the
  file is overwritten or removed first, `DeleteVM` is at work, or another reaper
  of the VM has its hands on the files they share. A reaper whose write fails,
  or that dies with the plugin, never reports; such events are not in that run.
- Nothing is assumed of calls beginning, restarts, provisioning, connections,
  guests that power off, or DestroyVolume being called.

## The proofs

`NbdExportsProofs` proves, for any volumes, hosts, calls, servers and clients
(of any number; the assumptions say only that the `No...` values are not members
of the sets, and that `Ops` names RPCs):

- `TypeCorrect`: `Spec => []TypeOK`
- `NeverUsedAfterClose`: `Spec => []NoUseAfterClose`
- `AlwaysOwnedOnce`: `Spec => []OwnedOnce`
- `AlwaysPublishedServes`: `Spec => []PublishedServes`

None of the three safety properties is inductive. `IInv` adds what they rest
on: who may hold the lock across steps and where (`LockInv`); that a call has a
server of its own exactly from opening or taking it until it has closed or
published it, and how far that server has come at each step (`MineInv`); that a
map entry is a server of that key which listens unless the holder of the lock is
closing it (`MapInv`); and that a call past its entry knows its arguments
(`ArgsInv`). `OwnedOnce` is the heart: a server that a call closes is in nobody
else's hands, so that freeing its slot disturbs no other call, and
`NoUseAfterClose` holds since only `drained` servers are freed and `Serve`
returns only when nobody is connected. There is one lemma per action;
`Inductive` combines them.

The last part of the module proves, under the same assumptions,

- `ImplementsExportRegistry`: `Spec => ImplementsRegistry`

that is, every step of NbdExports is a step of ExportRegistry or a stutter,
under `phaseBar` and `regBar`. Besides `IInv` it needs `AnswerInv`: a call that
has not yet taken effect answers no address, and a `DestroyVolume` closes
exports of its own volume only. There is one lemma per action; those of the
steps inside a drain show that `regBar` hides them.

`VmLifecycleProofs` proves, for any VMs, calls, pids and events (here and below,
the assumptions say that names which stand for "none" are not members of the
sets):

- `TypeCorrect`: `Spec => []TypeOK`
- `ExitFilesWhole`: `Spec => []ExitWholeUnlessShared`, however calls overlap and
  whatever fails
- `ExitFilesNameTheDead`: `Spec => []ExitNamesTheDead`, if pids are not reused
- `RecordedQemusStoppable`: `Spec => []EveryQemuStoppable`, if calls on one VM
  do not overlap, `DeleteVM` is not called and `vm.pid` can be read. It is about
  QEMUs that were recorded only: one whose `StartVM` has not come to write
  `vm.pid`, failed to, or died on the way is named nowhere, and the property
  excepts it.

`IInv` adds to `TypeOK` what a call knows at each of its steps (`CallInv`), that
a QEMU which a `StartVM` has launched is its own until it has recorded it
(`LaunchInv`), and when a reaper has a file open (`ReaperInv`). The second
theorem needs `OwnInv`: as long as no two reapers of a VM met in the temporary
file, it is the one reaper's, empty from the open to the write and whole until
the rename, or `DeleteVM` has unlinked it. The third needs `FreshInv`: a reaper
past `Wait`, and the files it has written, name a process that is gone for good.
The fourth needs `SerialInv`: a `StartVM` that found no process under `vm.pid`
knows, until it records its own, that none runs but those that were never
recorded.

`VolumeStoreProofs` proves, for any targets and any bound on sizes:

- `TypeCorrect`: `Spec => []TypeOK`
- `EnsureAlwaysDelivers`: `Spec => []EnsureDelivers`
- `RestoreAlwaysDelivers`: `Spec => []RestoreDelivers`

`CallInv` is about the arguments of the call that runs; `ProgressInv` says that
the disk holds the blocks copied so far and holes; `KeptInv` that a restored
volume nobody has touched is still a copy, which a later call that finds it
there relies on.

`OciVersionsProofs` proves, for any tags, writes and hosts:

- `TypeCorrect`: `Spec => []TypeOK`, however calls overlap
- `SidecarAlwaysWhole`: `Spec => []SidecarWhole`, if one call runs at a time
  (`OneCall`)
- `BaseAlwaysKept`: `Spec => []BaseNeverChanges`, if moreover looking at the
  sidecar never fails (`LooksSucceed`)
- `AckedAlwaysKept`: `Spec => []AckedKept` and `ImplementsVersionChain`:
  `Spec => ImplementsChain`, if moreover a volume is attached under one host
  UUID (`OneHost`)

`FileInv` says that the temporary file is the call's own from its creation to
its rename. `SerialInv` says what is in it and in the sidecar, and that a volume
without a sidecar is not attached, which a look that fails would break.
`ChainInv` adds that an overlay, and a commit under way, hold all of the version
the sidecar calls current; with two hosts they need not.

`AlgorithmProofs` begins with the copy loop, for an image, a disk and a window
of any size (`CopySpec(size)` is the copy onto a disk of that size):

- `CopyTypeCorrect`: `CopySpec(size) => []TypeOK`
- `CopyIsExact`: `CopySpec(size) => []CopyExact`

`CopyExact` says nothing of the buffer, on which it rests: `WindowInv` adds that
the first `got` bytes of it are those of the window, whatever it held before,
and that a window is handed on only when it is full. A window that is skipped
was a hole, and the disk is still one there. After a write that failed, the
bytes of its window are the image's or still holes, one by one.

Of the pure functions it proves, for sequences of any length over
any set of characters:

- `PrefixFindsVolume`, `KeyIsInjective`: the prefix test finds exactly the keys
  of its volume and keys are unique, if volume UUIDs do not hold the separator.
  Were one UUID a proper prefix of the other, the separator would have to be a
  character of the longer one.
- `TargetsAreParsed`: `parseOCITarget` accepts exactly what can be cut as
  `oci://host/repo:tag`, and cuts it there. `IndexOfIsFirst` and
  `LastIndexOfIsLast` say which separator the code finds; from there on it is
  the uniqueness of such a cut.
- `RetaggedInRepository`, `LocalWithoutTLS`: `retagOCIRef` and `hostIsLocal`.
- `LinesAreRewritten`: the rewriting in place, by the loop invariant `ReadInv`:
  after i words, the words kept among them stand in their order at the front
  of the array and those not yet read are untouched.

The corollaries `PrefixAlwaysExact`, `KeysAlwaysExact`, `ParseAlwaysExact`,
`RetagAlwaysExact`, `LocalAlwaysExact` and `RewriteAlwaysExact` state the
properties of the run Algorithms for any bound `MaxLen`. Induction over the
length of a command line is by the least counterexample (`Least`): a set of
naturals that has an element has a least one.

`VmFilesProofs` proves, for any calls, addresses, writes and bound on sizes:

- `TypeCorrect`: `Spec => []TypeOK`

and, if calls of one RPC do not overlap (`~SameOp`):

- `AddressIsStable`: `Spec => StableMAC`
- `GuestDataIsKept`: `Spec => GuestDataKept`
- `MacsDelivered`: `Spec => []MacDelivered`
- `DisksDelivered`: `Spec => []DiskDelivered`

The invariant is `TypeOK /\ CallInv /\ (SameOp \/ Serial)`. `CallInv` ties
the step a call is at to its RPC and to the file it has open. `Serial` says that
two calls that run are of different RPCs (`OneEach`), so that a `CreateVM`
about to open `mac.txt` still finds none and one about to write it finds the
empty file it made (`MacInv`, and `DiskInv` for the disk); and that a file
without an address or a size is being written or `torn`. The two action
properties follow: an open or a create that truncates meets no file, unless the
call was told by a failing `os.Stat` that there is none (`CreatesBlind`), and
that loss both properties name as the one exception beside `DeleteVM`.

`ArgumentProofs` and `BootArgsProofs` prove, for any set `A` of atoms that has
those the driver writes (`Words`; for the console, `BootWords`), and any boot
configuration over them, with any number of disks, shares, forwarded ports and
devices and texts of any length:

- `ClaimedDevicesBoot`: QEMU gets exactly the claimed passthrough devices, in
  their order and with one property each, and none outside the mdev directory
- `SharesAreMounted`: joined by their ids, the file systems and devices are the
  configured shares, if no path or tag holds a comma; no two file systems and
  no two drives have one id
- `ConsoleIsCaptured`: the console of the boot configuration that `StartVM`
  assembles is the port that QEMU writes to `console.log`, if the command line
  is the default one, or if the VM is a microVM on aarch64 whose command line
  names hvc0. It says nothing of hvc0 on x86_64, where the console is lost (run
  ConsoleX86), nor of a command line that names another console

and, as corollaries, `AlwaysClaimedDevices`, `AlwaysSharesMounted` and
`AlwaysConsoleCaptured`: the properties of the run Algorithms for every input it
looks at, the last again for those two kinds of command line. The argument has
three parts.

- What QEMU finds. `Picks(s, P, t)` says that the elements of `s` in `P` are
  those of `t`, in their order (`AtFinite` to `PicksFlat`: how that goes with
  concatenation and `FlattenSeq`). The argument list is nine segments
  (`Built`); a flag or a driver that is asked for is in one of them only, so
  what is picked from all is what is picked from that one (`Asked`, `Answers`).
- What QEMU reads there. The fields of a text joined at a comma are those of
  both parts (`FieldsJoin`), so a property is read as it was written
  (`ValuesOption`, `ShareSays`, `VfioSays`) as long as its value holds no
  comma: `validVFIOToken` sees to that for tokens, `NoCommas` assumes it for
  shares. A token without slash and double dot adds no `..` to its path
  (`StaysInDevices`).
- That ids differ. Two numbers with the same digits are equal
  (`DecimalInjective`), so a file system meets the device of its own share only
  (`DistinctIds`).

`decimal` is a recursive function and `FlattenSeq` one of the library's: that
they satisfy their equations (`DecimalRecursion`, `Flattening`) is shown by a
table of the first n values, which exists for every n by `Least`, and two of
which agree where both are defined.

Only model-checked: the liveness properties `CallsReturn`, `AttachReturns`,
`ExitIsReported` and `CopyEnds`, whose proofs need `ENABLED`. Every invariant,
action property and refinement that a passing run checks is a theorem too.

## Where code and documentation disagree

Four runs that TLC refutes; `PROJECT.json` quotes the sentences.

| Run | Property | In short |
|---|---|---|
| ExportsDestroyRace | `DestroyStopsAttachments` | an attach in flight publishes an export of the removed directory |
| VmStaleExit | `NoExitFileWhileRunning` | a late reaper writes `exit.json` beside the next QEMU |
| StoreHalfRestored | `RetryDelivers` | a retried restore accepts an incomplete disk |
| ConsoleX86 | `ConsoleRewritten` | hvc0 becomes `ttyAMA0` on x86_64 too, where the comment says `ttyS0` (`qemu.go:398`) and QEMU captures `ttyS0` |

Other properties are stated under a condition which the code needs and does not
enforce. To see what happens without it, change the instance:

- `Overlap = TRUE` and `Calls = {c1, c2}` in `VmSerial.cfg`: two `StartVM` calls
  both find no live `vm.pid` and both launch, and `vm.pid` names one of the two
  (`EveryQemuStoppable`).
- `"readfail"` added to the events of `VmSerial.cfg`: a `vm.pid` that cannot be
  read names no process to `StartVM`, which launches a second QEMU
  (`EveryQemuStoppable`).
- Without `v \in shared`, `ExitWholeUnlessShared` fails in `VmSerial.cfg`, calls
  that do not overlap or not: `exit.json.tmp` has one name for all reapers of a
  VM, and one reaper renames what the next has just truncated, against
  `qemu.go:203` ("can never observe a half-written JSON document").
- Without the reaper of another QEMU as an exception, `ExitIsReported` fails in
  `VmOverlap.cfg`: one reaper's document takes the place of the other's before
  the rename, and the second rename finds nothing.
- `"delete"` added to `Ops` in `VmSerial.cfg`: `DeleteVM` does not stop the VM
  (`qemu.go:237`); its QEMU runs on and no `vm.pid` names it
  (`EveryQemuStoppable`).
- `Calls = {c1, c2}` in `OciSerial.cfg`: two commits push in one order and
  write the sidecar in the other, through the shared temporary file too
  (`AckedKept`), or one truncates `oci.json.tmp`
  between the write and the rename of the other (`SidecarWhole`); a third call
  that reads the sidecar then records an empty base for good (`BaseNeverChanges`).
- `LooksFail = TRUE` in `OciSerial.cfg`: a repeated `EnsureVolume` whose look at
  the sidecar fails writes it anew, with the base as current version
  (`AckedKept`), or from another image (`BaseNeverChanges`).
- `"reuse"` added to the events of `VmOverlap.cfg`: a QEMU gets the pid that an
  old `exit.json` reports (`ExitNamesTheDead`).
- Without `CreatesBlind`, `StableMAC` and `GuestDataKept` fail: a stat that
  fails makes a `CreateVM` or an `AttachDisk` truncate what is there.
- `SameOp = TRUE` in `VmFiles.cfg`: two `CreateVM` calls both find no `mac.txt`
  and write different addresses, or one truncates the other's (`StableMAC`,
  `MacDelivered`); an `AttachDisk` that found no disk creates it after another
  one has and a guest has written to it (`GuestDataKept`).
- Without `"mac" \notin torn` or `"disk" \notin torn`, `MacDelivered` and
  `DiskDelivered` fail: a retry takes the file that a failed or interrupted call
  left half made for a finished one.
- `LocalExact` leaves out hosts that hold a colon of their own: `[::1]:5000` and
  `::1` are not taken for local, although `hostIsLocal` lists `::1`.
- `RetagExact` is about snapshot names that hold neither a colon nor a slash,
  and `SharesMounted` about paths and tags without commas; the code accepts
  others.
- A snapshot's tag is said to be new and its version immutable
  (`govolume_oci.go:252`). The code does not look: a tag in use is overwritten.

## Not modelled

- The libraries go-volumes `pool`, `nbd` and `oci`, the kernel, QEMU and the
  registry: external, and modelled by what the driver relies on. What two
  handles on one `pool.bin` do to each other is decided there.
- The scaffolds, the bundle, `HostInfo` and `main`: no state.
- `ListSnapshots`, which only reads; an `AttachDisk` with a `BackingPath` of its
  own, which may be a file of another VM; `DetachDisk` and the NIC calls, which
  do nothing.
- The width of sizes: `SizeGiB` would have to be 2^33 for the shift to overflow.
- The text of `config.json` and of errors; a `config.json` that changes between
  the three times `StartVM` reads it is an input of `bootConfig`, which takes
  the three readings apart, and no property is about it.

## Plan

1. Done: a model of every part that keeps state and of the pure functions, two
   abstract specifications with their refinements.
2. Done: proofs of every invariant and action property that a passing run
   checks, and of both refinements.
3. Next: what is left of the chain of versions for a volume attached under
   several hosts, where a commit takes one of the overlays in map order
   (`govolume_oci.go:210`): a property weaker than `AckedKept` that holds
   without `OneHost`, checked first and then proved.
