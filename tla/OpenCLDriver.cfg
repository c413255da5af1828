\* One or two work-items, a slab cut in four buffers; a solve may begin while
\* a command of the last one is in the queue.
CONSTANTS
  Scale = 1
  Stepping = 1
  ThreadCounts = {1, 2}
  SlabSizes = {2, 4}
  MaxAlloc = 2
  Nonces = {1, 2}
  Difficulties <- MCDifficulties
  H0 <- MCH0
  H1 <- MCH1
  Contents = {3}
  Garbage <- MCGarbage
  Backlog = 1
SPECIFICATION FairSpec
INVARIANTS FillCovers SearchTriesAll KernelsHaveTheNonce
PROPERTIES ImplementsDriver RoundsAdvance MethodsEnd
