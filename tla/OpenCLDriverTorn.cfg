\* Two work-items: the two words of the result may come from two pairs.
CONSTANTS
  Scale = 1
  Stepping = 1
  ThreadCounts = {2}
  SlabSizes = {2}
  MaxAlloc = 2
  Nonces = {1, 2}
  Difficulties <- MCDifficulties
  H0 <- MCH0
  H1 <- MCH1
  Contents = {0, 3}
  Garbage <- MCGarbage
  Backlog = 0
SPECIFICATION Spec
INVARIANT ReturnedPairPasses
