\* A slow reaper and a restarted VM.
CONSTANTS
  VMs = {v1}
  Calls = {c1}
  Pids = {p1, p2}
  Overlap = FALSE
  Ops = {"create", "start"}
  Events = {}
  NoVM = NoVM
  NoPid = NoPid
  NoFile = NoFile
  Empty = Empty
  Torn = Torn
SPECIFICATION Spec
INVARIANT NoExitFileWhileRunning
