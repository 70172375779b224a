\* Three calls of different RPCs overlap; any operation fails or is the last
\* before a restart; a file that exists may be taken for missing.
CONSTANTS
  Calls = {c1, c2, c3}
  Macs = {m1, m2}
  MaxSize = 2
  Writes = {w1}
  SameOp = FALSE
  NoFile = NoFile
  Empty = Empty
SPECIFICATION Spec
SYMMETRY Symmetry
INVARIANTS TypeOK MacDelivered DiskDelivered
PROPERTIES StableMAC GuestDataKept
