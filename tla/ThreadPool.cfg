\* thread_pool: safety, that every call returns, and that it implements WorkerBatch.
CONSTANTS
  fill = fill
  search = search
  NoOperation = NoOperation
  MaxThreads = 3
  Operations <- MCOperations
SPECIFICATION FairSpec
INVARIANTS PoolInv BarrierSeparates ServedExactlyOnce SlotsInBounds NobodyForgotten
PROPERTIES ImplementsBatch MethodsReturn CallsAdvance
