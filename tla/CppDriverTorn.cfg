\* Two workers: the two halves of what solve returns may come from two pairs.
CONSTANTS
  Scale = 1
  MaxThreads = 2
  Stepping = 3
  Nonces = {1, 2}
  Difficulties <- MCDifficulties
  H0 <- MCH0
  H1 <- MCH1
SPECIFICATION Spec
INVARIANT ReturnedPairPasses
