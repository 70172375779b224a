\* Images of 0 to 5 bytes in windows of 2; UUIDs of up to two characters, one
\* of them the separator; references, command lines and configurations as in
\* MCAlgorithms.  A copy ends, and so does the run.
CONSTANTS
  Win = 2
  Bytes = {0, 1, 2}
  Size = 5
  Chars = {a, bar}
  Bar = bar
  MaxLen = 2
  Slash = "/"
  Colon = ":"
  Oci = "oci"
  LocalHosts = {"localhost"}
  DotLocal = ".local"
  NoArgs = NoArgs
  NoCase = NoCase
SPECIFICATION Spec
INVARIANTS
  TypeOK CopyExact PrefixExact KeysExact ParseExact RetagExact LocalExact
  RewriteExact ClaimedDevices SharesMounted ConsoleCaptured
PROPERTY CopyEnds
CHECK_DEADLOCK FALSE
