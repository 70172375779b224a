\* Any step fails or is the last before a crash.
CONSTANTS
  MaxSize = 3
  Blocks = {1}
  Names = {n1}
  Targets = {t1, t2}
  Ops = {"ensure", "restore", "ensureoci", "snapshot", "backup", "destroy"}
  Faults = TRUE
  DiskName = DiskName
  None = None
SPECIFICATION Spec
SYMMETRY Symmetry
INVARIANTS TypeOK EnsureDelivers RestoreDelivers
