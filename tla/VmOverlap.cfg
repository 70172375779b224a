\* Overlapping calls on one VM, its deletion included; pids are not reused,
\* writes do not fail and the plugin does not die.
CONSTANTS
  VMs = {v1}
  Calls = {c1, c2, c3}
  Pids = {p1, p2}
  Overlap = TRUE
  Ops = {"create", "start", "stop", "delete"}
  Events = {"foreign", "readfail"}
  NoVM = NoVM
  NoPid = NoPid
  NoFile = NoFile
  Empty = Empty
  Torn = Torn
SPECIFICATION FairSpec
INVARIANT ExitNamesTheDead
PROPERTY ExitIsReported
