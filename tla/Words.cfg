\* The generator doubled up to 2^128 calls, three workers, and messages of up
\* to 24 bytes.
CONSTANTS
  Threads = 3
  Longest = 24
SPECIFICATION Spec
INVARIANTS JumpsAreFar StretchesAreApart HashIsSipHash KernelHashesAlike
\* The walks end.
CHECK_DEADLOCK FALSE
