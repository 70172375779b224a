\* One call at a time; everything else goes wrong.
CONSTANTS
  VMs = {v1, v2}
  Calls = {c1}
  Pids = {p1, p2}
  Overlap = FALSE
  Ops = {"create", "start", "stop"}
  Events = {"reuse", "foreign", "restart", "writefail"}
  NoVM = NoVM
  NoPid = NoPid
  NoFile = NoFile
  Empty = Empty
  Torn = Torn
SPECIFICATION Spec
SYMMETRY Symmetry
INVARIANTS TypeOK EveryQemuStoppable ExitWholeUnlessShared
