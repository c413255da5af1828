\* Up to two workers, two difficulties: safety, and that solve and resize end.
CONSTANTS
  Scale = 1
  MaxThreads = 2
  Stepping = 3
  Nonces = {1, 2}
  Difficulties <- MCTwoDifficulties
  H0 <- MCH0
  H1 <- MCH1
SPECIFICATION FairSpec
INVARIANTS SearchYields FillCovers SlabInUse
PROPERTIES ImplementsDriver ResizeHarmless RoundsAdvance MethodsEnd
