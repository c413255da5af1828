\* Both platforms, any sequence of successes and failures.
CONSTANTS
  Platforms = {"unix", "windows"}
  Requests <- MCRequests
  LargePage = 32
SPECIFICATION Spec
INVARIANTS SlabHoldsSize NothingLeaks
