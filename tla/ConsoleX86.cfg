\* A microVM on x86_64 whose command line names hvc0.  The copy is of an empty
\* image, and ends.
CONSTANTS
  Win = 1
  Bytes = {0}
  Size = 0
  Chars = {a, bar}
  Bar = bar
  MaxLen = 0
  Slash = "/"
  Colon = ":"
  Oci = "oci"
  LocalHosts = {"localhost"}
  DotLocal = ".local"
  NoArgs = NoArgs
  NoCase = NoCase
SPECIFICATION Spec
INVARIANT ConsoleRewritten
CHECK_DEADLOCK FALSE
