\* One host, one call at a time, crashes in every step.
CONSTANTS
  Hosts = {h1}
  Calls = {c1}
  Tags = {t1, t2}
  Writes = {w1, w2}
  Overlays = {o1, o2}
  Ops = {"provision", "commit", "destroy"}
  Restarts = TRUE
  LooksFail = FALSE
  BaseRef = BaseRef
  NoRef = NoRef
  NoHost = NoHost
  NoOverlay = NoOverlay
  NoFile = NoFile
  Empty = Empty
SPECIFICATION Spec
SYMMETRY Symmetry
INVARIANTS TypeOK SidecarWhole AckedKept BaseNeverChanges
PROPERTY ImplementsChain
