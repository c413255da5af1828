\* Windows without large pages does not report that VirtualAlloc failed.
CONSTANTS
  Platforms = {"windows"}
  Requests <- MCRequests
  LargePage = 32
SPECIFICATION Spec
INVARIANT ErrorIsReported
