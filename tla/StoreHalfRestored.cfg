\* A restore fails and is retried.
CONSTANTS
  MaxSize = 2
  Blocks = {1}
  Names = {n1}
  Targets = {t1}
  Ops = {"ensure", "restore", "snapshot", "backup", "destroy"}
  Faults = TRUE
  DiskName = DiskName
  None = None
SPECIFICATION Spec
SYMMETRY Symmetry
INVARIANT RetryDelivers
