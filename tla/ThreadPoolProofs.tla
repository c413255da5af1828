--------------------------- MODULE ThreadPoolProofs ---------------------------
(***************************************************************************)
(* Proofs about ThreadPool, for every number of threads and every set of   *)
(* operations: the inductive invariant PoolInv, what follows from it, and  *)
(* that the pool implements WorkerBatch.                                   *)
(***************************************************************************)
EXTENDS ThreadPool, FiniteSetTheorems, TLAPS

-----------------------------------------------------------------------------
(* The set of sleepers and its cardinality.                                *)

\* The sleepers are finitely many, whatever the workers do.
LEMMA WaitingFinite ==
  /\ IsFiniteSet(Waiting)
  /\ Cardinality(Waiting) \in Nat
<1>1. IsFiniteSet(Workers)
  BY ConstantsAssumption, FS_Interval DEF Workers
<1>2. Waiting \in SUBSET Workers
  BY DEF Waiting
<1>3. QED
  BY <1>1, <1>2, FS_Subset, FS_CardinalityType

\* A worker that falls asleep in start.wait adds one to the sleepers.
LEMMA FallAsleep ==
  ASSUME TypeOK, NEW w \in Workers, workerPc[w] # "waiting",
         workerPc' = [workerPc EXCEPT ![w] = "waiting"]
  PROVE  Cardinality(Waiting') = Cardinality(Waiting) + 1
<1>1. Waiting' = Waiting \cup {w}
  BY DEF Waiting, TypeOK
<1>2. w \notin Waiting
  BY DEF Waiting
<1>3. QED
  BY <1>1, <1>2, WaitingFinite, FS_AddElement

\* A step of a worker from a state to a state, neither of them asleep,
\* leaves the sleepers as they were.
LEMMA SameSleepers ==
  ASSUME TypeOK, NEW w \in Workers, NEW s, s # "waiting", workerPc[w] # "waiting",
         workerPc' = [workerPc EXCEPT ![w] = s]
  PROVE  Waiting' = Waiting
BY DEF Waiting, TypeOK

\* start.notify_all leaves nobody asleep, and no count.
LEMMA NobodySleeps ==
  ASSUME TypeOK, workerPc' = StartNotifyAll(workerPc)
  PROVE  /\ \A w \in Workers : workerPc'[w] = IF workerPc[w] = "waiting"
                                              THEN "woken" ELSE workerPc[w]
         /\ Cardinality(Waiting') = 0
<1>1. \A w \in Workers : workerPc'[w] = IF workerPc[w] = "waiting"
                                        THEN "woken" ELSE workerPc[w]
  BY DEF StartNotifyAll
<1>2. Waiting' = {}
  BY <1>1 DEF Waiting
<1>3. QED
  BY <1>1, <1>2, FS_EmptySet

\* What BarrierPass needs: if as many workers sleep as the pool has threads,
\* then all of its threads sleep.
LEMMA AllAsleep ==
  ASSUME TypeOK, Ownership, Cardinality(Waiting) = size
  PROVE  workerPc = [w \in Workers |-> IF w < size THEN "waiting" ELSE "none"]
<1>1. size \in Nat /\ 0 \in Int /\ size - 1 \in Int
  BY ConstantsAssumption DEF TypeOK
<1>2. /\ IsFiniteSet(0 .. size - 1)
      /\ Cardinality(0 .. size - 1) = size
  BY <1>1, FS_Interval
<1>3. Waiting \in SUBSET (0 .. size - 1)
  BY <1>1, ConstantsAssumption DEF Waiting, Ownership, Workers
<1>4. Waiting = 0 .. size - 1
  BY <1>2, <1>3, FS_Subset
<1>5. ASSUME NEW w \in Workers
      PROVE  workerPc[w] = IF w < size THEN "waiting" ELSE "none"
  BY <1>1, <1>4, ConstantsAssumption DEF Waiting, Ownership, Workers
<1>6. QED
  BY <1>5 DEF TypeOK

-----------------------------------------------------------------------------
(* The workers' steps preserve the invariant.                              *)

\* Past a barrier no worker can take a step: a step shows otherwise.
LEMMA NotPastBarrier ==
  ASSUME BarrierSeparates, NEW w \in Workers, workerPc[w] \notin {"waiting", "none"}
  PROVE  ~PastBarrier
BY DEF BarrierSeparates

\* The top of loop, taken by a worker that is awake.
LEMMA LoopTopPreserves ==
  ASSUME PoolInv, NEW w \in Workers, LoopTop(w), MutexFree,
         workerPc[w] \in {"entering", "woken"},
         operation = NoOperation \/ w \in null \/ workerPc[w] = "entering",
         UNCHANGED <<size, null, operation, next, target, argument, call, history>>
  PROVE  PoolInv'
<1> USE DEF PoolInv
<1>1. ~PastBarrier /\ ~PastBarrier'
  BY NotPastBarrier DEF LoopTop, FinishNotifyAll, PastBarrier, TypeOK
<1>2. CASE w \notin null
  <2>1. /\ workerPc' = [workerPc EXCEPT ![w] = "waiting"]
        /\ ready' = ready + 1
        /\ clientPc' = IF clientPc = "asleep" THEN "barrier" ELSE clientPc
    BY <1>2 DEF LoopTop, FinishNotifyAll
  <2>2. TypeOK'
    BY <2>1 DEF TypeOK, WorkerState, ClientState, history
  <2>3. Ownership'
    BY <2>1 DEF Ownership, TypeOK
  <2>4. ReadyCountsWaiting'
    BY <1>1, <2>1, FallAsleep DEF ReadyCountsWaiting, PastBarrier
  <2>5. Progress'
    BY <1>1, <2>1, <1>2 DEF Progress, TypeOK, PastBarrier, history, Live, Ownership
  <2>6. QED
    BY <1>1, <2>2, <2>3, <2>4, <2>5 DEF BarrierSeparates
<1>3. CASE w \in null
  <2>1. /\ workerPc' = [workerPc EXCEPT ![w] = "exited"]
        /\ UNCHANGED <<ready, clientPc>>
        /\ clientPc = "joining"
    BY <1>3 DEF LoopTop, Ownership
  <2>2. TypeOK'
    BY <2>1 DEF TypeOK, WorkerState, history
  <2>3. Ownership'
    BY <1>3, <2>1 DEF Ownership, TypeOK
  <2>4. ReadyCountsWaiting'
    BY <2>1, SameSleepers DEF ReadyCountsWaiting
  <2>5. Progress'
    BY <2>1 DEF Progress, history
  <2>6. QED
    BY <1>1, <2>2, <2>3, <2>4, <2>5 DEF BarrierSeparates
<1>4. QED
  BY <1>2, <1>3

\* Each of the four steps of a worker preserves the invariant.
LEMMA WorkerPreserves ==
  ASSUME PoolInv, NEW w \in Workers, WorkerStep(w)
  PROVE  PoolInv'
<1> USE DEF PoolInv
<1>1. CASE EnterLoop(w)
  BY <1>1, LoopTopPreserves DEF EnterLoop
<1>2. CASE WakeToLoop(w)
  BY <1>2, LoopTopPreserves DEF WakeToLoop
<1>3. CASE WakeToRun(w)
  <2>0. /\ workerPc[w] = "woken"
        /\ workerPc' = [workerPc EXCEPT ![w] = "running"]
        /\ calls' = [calls EXCEPT ![w] = IF fresh /\ @ < CallsBound THEN @ + 1 ELSE @]
        /\ UNCHANGED <<size, null, ready, operation, clientPc, next, target, argument, call, fresh>>
    BY <1>3 DEF WakeToRun, poolVars, clientVars
  <2>1. ~PastBarrier /\ ~PastBarrier'
    BY <2>0, NotPastBarrier DEF PastBarrier
  <2>2. TypeOK'
    BY <2>0 DEF TypeOK, WorkerState, CallsBound
  <2>3. Ownership'
    BY <2>0 DEF Ownership, TypeOK
  <2>4. ReadyCountsWaiting'
    BY <2>0, SameSleepers DEF ReadyCountsWaiting
  <2>5. Progress'
    BY <2>0 DEF Progress, TypeOK, CallsBound, Live
  <2>6. QED
    BY <2>1, <2>2, <2>3, <2>4, <2>5 DEF BarrierSeparates
<1>4. CASE FinishOperation(w)
  <2>0. /\ workerPc[w] = "running"
        /\ workerPc' = [workerPc EXCEPT ![w] = "entering"]
        /\ UNCHANGED <<size, null, ready, operation, clientPc, next, target, argument, call, fresh, calls>>
    BY <1>4 DEF FinishOperation, poolVars, clientVars, history, AfterOperation
  <2>1. ~PastBarrier /\ ~PastBarrier'
    BY <2>0, NotPastBarrier DEF PastBarrier
  <2>2. TypeOK'
    BY <2>0 DEF TypeOK, WorkerState
  <2>3. Ownership'
    BY <2>0 DEF Ownership, TypeOK
  <2>4. ReadyCountsWaiting'
    BY <2>0, SameSleepers DEF ReadyCountsWaiting
  <2>5. Progress'
    BY <2>0 DEF Progress, TypeOK, Live
  <2>6. QED
    BY <2>1, <2>2, <2>3, <2>4, <2>5 DEF BarrierSeparates
<1>5. QED
  BY <1>1, <1>2, <1>3, <1>4 DEF WorkerStep

-----------------------------------------------------------------------------
(* The client's steps preserve the invariant.                              *)

\* Calling a method changes where the client is, and its argument, only.
LEMMA CallPreserves ==
  ASSUME PoolInv, ClientCall
  PROVE  PoolInv'
<1> USE DEF PoolInv
<1>1. /\ clientPc = "idle" /\ clientPc' = "barrier"
      /\ UNCHANGED <<poolVars, workerPc, history>>
      /\ TypeOK'
      /\ next' = "storing" => argument' \in Operations
  BY DEF ClientCall, CallBarrier, CallStop, CallExecute, CallResize, Begin,
         TypeOK, ClientState, Continuation, Method, poolVars, history
<1>2. Ownership'
  BY <1>1 DEF Ownership, poolVars
<1>3. ReadyCountsWaiting'
  BY <1>1 DEF ReadyCountsWaiting, Waiting, poolVars
<1>4. BarrierSeparates'
  BY <1>1 DEF BarrierSeparates, PastBarrier
<1>5. Progress'
  BY <1>1 DEF Progress, Live, poolVars, history
<1>6. QED
  BY <1>1, <1>2, <1>3, <1>4, <1>5

\* The predicate of the barrier held: this is where ready = size becomes
\* "every thread is asleep".
LEMMA BarrierPassPreserves ==
  ASSUME PoolInv, BarrierPass
  PROVE  PoolInv'
<1> USE DEF PoolInv
<1>1. /\ clientPc = "barrier" /\ ready = size /\ clientPc' = next
      /\ fresh' = (fresh /\ next # "resizing")
      /\ UNCHANGED <<size, null, ready, operation, workerPc, next, target, argument, call, calls>>
  BY DEF BarrierPass, poolVars, AllReady
<1>2. workerPc = [w \in Workers |-> IF w < size THEN "waiting" ELSE "none"]
  BY <1>1, AllAsleep DEF ReadyCountsWaiting
<1>3. next \notin {"notifying", "resetting", "joining", "barrier", "asleep"}
  BY DEF TypeOK, Continuation
<1>4. TypeOK'
  BY <1>1 DEF TypeOK, ClientState, Continuation
<1>5. Ownership'
  BY <1>1, <1>3 DEF Ownership
<1>6. ReadyCountsWaiting'
  BY <1>1, <1>3 DEF ReadyCountsWaiting, Waiting
<1>7. BarrierSeparates'
  BY <1>1, <1>2 DEF BarrierSeparates
<1>8. Progress'
  BY <1>1, <1>3 DEF Progress, Live, TypeOK, Continuation
<1>9. QED
  BY <1>4, <1>5, <1>6, <1>7, <1>8

\* Going to sleep, entering the resize of stop, and returning move the client.
LEMMA MovePreserves ==
  ASSUME PoolInv, BarrierSleep \/ StopResize \/ Return
  PROVE  PoolInv'
<1> USE DEF PoolInv
<1>1. /\ clientPc \in {"barrier", "stopping", "returning"}
      /\ clientPc' \in {"asleep", "barrier", "idle"}
      /\ UNCHANGED <<poolVars, workerPc, history, argument>>
      /\ TypeOK'
      /\ clientPc' = "asleep" => clientPc = "barrier" /\ next' = next
      /\ clientPc' = "barrier" => next' = "resizing"
  BY ConstantsAssumption
     DEF BarrierSleep, StopResize, Return, TypeOK, ClientState, Continuation, Method,
         poolVars, history, AllReady
<1>2. Ownership'
  BY <1>1 DEF Ownership, poolVars
<1>3. ReadyCountsWaiting'
  BY <1>1 DEF ReadyCountsWaiting, Waiting, poolVars
<1>4. BarrierSeparates'
  BY <1>1 DEF BarrierSeparates, PastBarrier
<1>5. Progress'
  BY <1>1 DEF Progress, Live, poolVars, history
<1>6. QED
  BY <1>1, <1>2, <1>3, <1>4, <1>5

\* The three statements of execute, all of them with every worker asleep.
LEMMA ExecutePreserves ==
  ASSUME PoolInv, StoreOperation \/ ResetReady \/ NotifyStart
  PROVE  PoolInv'
<1> USE DEF PoolInv
<1>1. workerPc = [w \in Workers |-> IF w < size THEN "waiting" ELSE "none"]
  BY DEF StoreOperation, ResetReady, NotifyStart, BarrierSeparates, PastBarrier, Restart
<1>2. CASE StoreOperation
  <2>1. /\ clientPc = "storing" /\ clientPc' = "resetting"
        /\ operation' = argument /\ fresh' = TRUE
        /\ calls' = [w \in Workers |-> 0]
        /\ UNCHANGED <<size, null, ready, workerPc, next, target, argument, call>>
    BY <1>2 DEF StoreOperation
  <2>2. TypeOK'
    BY <2>1 DEF TypeOK, ClientState, CallsBound
  <2>3. Ownership'
    BY <2>1 DEF Ownership
  <2>4. ReadyCountsWaiting'
    BY <2>1 DEF ReadyCountsWaiting, Waiting
  <2>5. BarrierSeparates'
    BY <1>1, <2>1 DEF BarrierSeparates
  <2>6. Progress'
    BY <1>1, <2>1, ConstantsAssumption DEF Progress, Live
  <2>7. QED
    BY <2>2, <2>3, <2>4, <2>5, <2>6
<1>3. CASE ResetReady
  <2>1. /\ clientPc = "resetting" /\ clientPc' = "notifying" /\ ready' = 0
        /\ UNCHANGED <<size, null, operation, workerPc, next, target, argument, call, fresh, calls>>
    BY <1>3 DEF ResetReady, history, Restart
  <2>2. TypeOK'
    BY <2>1 DEF TypeOK, ClientState
  <2>3. Ownership'
    BY <2>1 DEF Ownership
  <2>4. ReadyCountsWaiting'
    BY <2>1 DEF ReadyCountsWaiting
  <2>5. BarrierSeparates'
    BY <1>1, <2>1 DEF BarrierSeparates
  <2>6. Progress'
    BY <2>1 DEF Progress, Live
  <2>7. QED
    BY <2>2, <2>3, <2>4, <2>5, <2>6
<1>4. CASE NotifyStart
  <2>1. /\ clientPc = "notifying" /\ clientPc' = "idle" /\ call' = "none"
        /\ workerPc' = StartNotifyAll(workerPc)
        /\ UNCHANGED <<size, null, ready, operation, next, target, argument, fresh, calls>>
    BY <1>4 DEF NotifyStart, poolVars, history
  <2>2. workerPc' = [w \in Workers |-> IF w < size THEN "woken" ELSE "none"]
    BY <1>1, <2>1 DEF StartNotifyAll
  <2>3. TypeOK'
    BY <2>1, <2>2 DEF TypeOK, ClientState, WorkerState, Method
  <2>4. Ownership'
    BY <2>1, <2>2 DEF Ownership, TypeOK, Workers
  <2>5. ReadyCountsWaiting'
    BY <2>1, NobodySleeps DEF ReadyCountsWaiting
  <2>6. BarrierSeparates'
    BY <2>1 DEF BarrierSeparates, PastBarrier
  <2>7. Progress'
    BY <1>1, <2>1, <2>2 DEF Progress, Live
  <2>8. QED
    BY <2>3, <2>4, <2>5, <2>6, <2>7
<1>5. QED
  BY <1>2, <1>3, <1>4

\* The body of resize.
LEMMA ResizePreserves ==
  ASSUME PoolInv, Grow \/ Retire \/ JoinAndPop \/ EndResize
  PROVE  PoolInv'
<1> USE DEF PoolInv
<1>0. /\ clientPc \in {"resizing", "joining"}
      /\ fresh = FALSE
      /\ UNCHANGED <<operation, fresh, calls>>
      /\ size \in Nat /\ target \in Nat /\ MaxThreads \in Nat
      /\ size <= MaxThreads /\ target <= MaxThreads
  BY ConstantsAssumption
     DEF Grow, Retire, JoinAndPop, EndResize, Progress, poolVars, history, TypeOK, Restart,
         MoreToAdd, NewSlot, MoreToRetire, Joined
<1>1. CASE Grow
  <2>1. /\ clientPc = "resizing" /\ size < target
        /\ workerPc' = [workerPc EXCEPT ![size] = "entering"]
        /\ size' = size + 1
        /\ UNCHANGED <<null, ready, clientPc, next, target, argument, call>>
    BY <1>1 DEF Grow, clientVars, MoreToAdd, NewSlot
  <2>2. size \in Workers /\ workerPc[size] = "none"
    BY <1>0, <2>1 DEF Workers, Ownership
  <2>3. TypeOK'
    <3>1. size' \in 0 .. MaxThreads
      BY <1>0, <2>1
    <3>2. workerPc' \in [Workers -> WorkerState]
      BY <2>1 DEF TypeOK, WorkerState
    <3>3. QED
      BY <1>0, <2>1, <3>1, <3>2 DEF TypeOK
  <2>4. Ownership'
    BY <1>0, <2>1, <2>2 DEF Ownership, TypeOK, Workers
  <2>5. ReadyCountsWaiting'
    BY <2>1, <2>2, SameSleepers DEF ReadyCountsWaiting
  <2>6. BarrierSeparates'
    BY <2>1 DEF BarrierSeparates, PastBarrier
  <2>7. Progress'
    BY <1>0, <2>1 DEF Progress
  <2>8. QED
    BY <2>3, <2>4, <2>5, <2>6, <2>7
<1>2. CASE Retire
  <2>1. /\ clientPc = "resizing" /\ clientPc' = "joining" /\ size > target
        /\ null' = null \cup {size - 1} /\ ready' = 0
        /\ workerPc' = StartNotifyAll(workerPc)
        /\ UNCHANGED <<size, next, target, argument, call>>
    BY <1>2 DEF Retire, history, Restart, MoreToRetire
  <2>2. size - 1 \in Workers
    BY <1>0, <2>1 DEF Workers
  <2>3. TypeOK'
    BY <1>0, <2>1, <2>2 DEF TypeOK, ClientState, WorkerState, StartNotifyAll
  <2>4. Ownership'
    BY <1>0, <2>1, NobodySleeps DEF Ownership
  <2>5. ReadyCountsWaiting'
    BY <2>1, NobodySleeps DEF ReadyCountsWaiting
  <2>6. BarrierSeparates'
    BY <2>1 DEF BarrierSeparates, PastBarrier
  <2>7. Progress'
    BY <1>0, <2>1 DEF Progress
  <2>8. QED
    BY <2>3, <2>4, <2>5, <2>6, <2>7
<1>3. CASE JoinAndPop
  <2>1. /\ clientPc = "joining" /\ clientPc' = "resizing"
        /\ workerPc[size - 1] = "exited"
        /\ workerPc' = [workerPc EXCEPT ![size - 1] = "none"]
        /\ null' = null \ {size - 1}
        /\ size' = size - 1
        /\ UNCHANGED <<ready, next, target, argument, call>>
    BY <1>3 DEF JoinAndPop, history, Joined
  <2>2. size > target /\ size - 1 \in Workers /\ null = {size - 1}
    BY <1>0, <2>1 DEF Workers, Ownership
  <2>3. TypeOK'
    BY <1>0, <2>1, <2>2 DEF TypeOK, ClientState, WorkerState
  <2>4. Ownership'
    BY <1>0, <2>1, <2>2 DEF Ownership, TypeOK, Workers
  <2>5. ReadyCountsWaiting'
    BY <2>1, <2>2, SameSleepers DEF ReadyCountsWaiting
  <2>6. BarrierSeparates'
    BY <2>1 DEF BarrierSeparates, PastBarrier
  <2>7. Progress'
    BY <1>0, <2>1 DEF Progress
  <2>8. QED
    BY <2>3, <2>4, <2>5, <2>6, <2>7
<1>4. CASE EndResize
  <2>1. /\ clientPc = "resizing" /\ clientPc' = "barrier" /\ next' = "returning"
        /\ UNCHANGED <<size, null, ready, workerPc, target, argument, call>>
    BY <1>4 DEF EndResize, poolVars, MoreToAdd, MoreToRetire
  <2>2. TypeOK'
    BY <1>0, <2>1 DEF TypeOK, ClientState, Continuation
  <2>3. Ownership'
    BY <2>1 DEF Ownership
  <2>4. ReadyCountsWaiting'
    BY <2>1 DEF ReadyCountsWaiting, Waiting
  <2>5. BarrierSeparates'
    BY <2>1 DEF BarrierSeparates, PastBarrier
  <2>6. Progress'
    BY <1>0, <2>1 DEF Progress
  <2>7. QED
    BY <2>2, <2>3, <2>4, <2>5, <2>6
<1>5. QED
  BY <1>1, <1>2, <1>3, <1>4

-----------------------------------------------------------------------------
(* The theorems.                                                           *)

\* The invariant holds of a pool just constructed.
LEMMA InitPoolInv == Init => PoolInv
<1> SUFFICES ASSUME Init PROVE PoolInv
  OBVIOUS
<1>1. TypeOK
  <2>1. size \in 0 .. MaxThreads /\ target \in 0 .. MaxThreads /\ ready \in Nat
    BY ConstantsAssumption DEF Init
  <2>2. workerPc \in [Workers -> WorkerState] /\ calls \in [Workers -> 0 .. CallsBound]
    BY DEF Init, WorkerState, CallsBound
  <2>3. QED
    BY <2>1, <2>2 DEF Init, TypeOK, ClientState, Continuation, Method
<1>2. Ownership
  BY DEF Init, Ownership, Workers
<1>3. Waiting = {}
  BY DEF Init, Waiting
<1>4. ReadyCountsWaiting
  BY <1>3, FS_EmptySet DEF Init, ReadyCountsWaiting
<1>5. BarrierSeparates /\ Progress
  BY DEF Init, BarrierSeparates, PastBarrier, Progress
<1>6. QED
  BY <1>1, <1>2, <1>4, <1>5 DEF PoolInv

\* Every step of the pool, the workers' and the client's, preserves it.
LEMMA NextPoolInv == PoolInv /\ [Next]_vars => PoolInv'
<1> SUFFICES ASSUME PoolInv, [Next]_vars PROVE PoolInv'
  OBVIOUS
<1>1. CASE ClientCall
  BY <1>1, CallPreserves
<1>2. CASE ClientStep
  BY <1>2, BarrierPassPreserves, MovePreserves, ExecutePreserves, ResizePreserves DEF ClientStep
<1>3. CASE \E w \in Workers : WorkerStep(w)
  BY <1>3, WorkerPreserves
<1>4. CASE UNCHANGED vars
  BY <1>4 DEF vars, poolVars, clientVars, history, PoolInv, TypeOK, Ownership,
              ReadyCountsWaiting, Waiting, BarrierSeparates, PastBarrier, Progress, Live
<1>5. QED
  BY <1>1, <1>2, <1>3, <1>4 DEF Next

(***************************************************************************)
(* The inductive invariant of the thread pool.                             *)
(***************************************************************************)
THEOREM PoolInvariant == Spec => []PoolInv
<1>1. QED
  BY InitPoolInv, NextPoolInv, PTL DEF Spec

(***************************************************************************)
(* Type correctness of the thread pool, for any number of threads.         *)
(***************************************************************************)
THEOREM TypeCorrect == Spec => []TypeOK
<1>1. PoolInv => TypeOK
  BY DEF PoolInv
<1>2. QED
  BY <1>1, PoolInvariant, PTL

(***************************************************************************)
(* When barrier () has returned every thread is asleep, so execute may     *)
(* write operation and ready without the mutex.                            *)
(***************************************************************************)
THEOREM BarrierIsSound == Spec => []BarrierSeparates
<1>1. PoolInv => BarrierSeparates
  BY DEF PoolInv
<1>2. QED
  BY <1>1, PoolInvariant, PTL

(***************************************************************************)
(* Every worker calls the operation of an execute exactly once before the  *)
(* next barrier returns.                                                   *)
(***************************************************************************)
THEOREM ExecuteIsServedOnce == Spec => []ServedExactlyOnce
<1>1. PoolInv => ServedExactlyOnce
  BY DEF PoolInv, ServedExactlyOnce, Progress, BarrierSeparates, PastBarrier, Live
<1>2. QED
  BY <1>1, PoolInvariant, PTL

(***************************************************************************)
(* No worker reads threads[i] past the end of the vector.                  *)
(***************************************************************************)
THEOREM SlotsAreInBounds == Spec => []SlotsInBounds
<1>1. PoolInv => SlotsInBounds
  BY ConstantsAssumption DEF PoolInv, SlotsInBounds, Ownership, TypeOK, Workers
<1>2. QED
  BY <1>1, PoolInvariant, PTL

-----------------------------------------------------------------------------
(* No notification is lost.                                                *)

\* A step of a worker does not leave behind a client that it should have woken,
\* nor put to sleep the thread that resize is joining.
LEMMA WorkerNotices ==
  ASSUME PoolInv, Noticed, NEW w \in Workers, WorkerStep(w)
  PROVE  Noticed'
<1>1. CASE LoopTop(w) /\ UNCHANGED <<size, null>>
  <2>1. CASE w \notin null
    <3>1. /\ clientPc' # "asleep"
          /\ clientPc' = "joining" => clientPc = "joining"
          /\ workerPc' = [workerPc EXCEPT ![w] = "waiting"]
      BY <1>1, <2>1 DEF LoopTop, FinishNotifyAll
    <3>2. clientPc = "joining" => w # size - 1
      BY <2>1 DEF PoolInv, Ownership
    <3>3. workerPc[size - 1] # "waiting" /\ size - 1 # w /\ size - 1 \in Workers
            => workerPc'[size - 1] # "waiting"
      BY <3>1 DEF PoolInv, TypeOK
    <3>4. clientPc = "joining" => size - 1 \in Workers
      BY ConstantsAssumption DEF PoolInv, TypeOK, Ownership, Workers
    <3>5. QED
      BY <1>1, <3>1, <3>2, <3>3, <3>4 DEF Noticed
  <2>2. CASE w \in null
    <3>1. UNCHANGED <<ready, clientPc>> /\ workerPc' = [workerPc EXCEPT ![w] = "exited"]
      BY <1>1, <2>2 DEF LoopTop
    <3>2. \A v \in Workers : workerPc'[v] = "waiting" => workerPc[v] = "waiting"
      BY <3>1 DEF PoolInv, TypeOK
    <3>3. clientPc = "joining" => size - 1 \in Workers
      BY ConstantsAssumption DEF PoolInv, TypeOK, Ownership, Workers
    <3>4. QED
      BY <1>1, <3>1, <3>2, <3>3 DEF Noticed, AllReady
  <2>3. QED
    BY <2>1, <2>2
<1>2. CASE WakeToRun(w) \/ FinishOperation(w)
  <2>1. UNCHANGED <<size, ready, clientPc>>
    BY <1>2 DEF WakeToRun, FinishOperation, poolVars, clientVars
  <2>2. \A v \in Workers : workerPc'[v] = "waiting" => workerPc[v] = "waiting"
    BY <1>2 DEF WakeToRun, FinishOperation, AfterOperation, PoolInv, TypeOK
  <2>3. clientPc = "joining" => size - 1 \in Workers
    BY ConstantsAssumption DEF PoolInv, TypeOK, Ownership, Workers
  <2>4. QED
    BY <2>1, <2>2, <2>3 DEF Noticed, AllReady
<1>3. QED
  BY <1>1, <1>2 DEF WorkerStep, EnterLoop, WakeToLoop

\* Nor does a step of the client: it sleeps only after a failed test, and joins
\* a thread only after waking everybody.
LEMMA NextNotices ==
  ASSUME PoolInv, Noticed, [Next]_vars
  PROVE  Noticed'
<1>1. CASE ClientCall
  BY <1>1 DEF ClientCall, CallBarrier, CallStop, CallExecute, CallResize, Begin, Noticed
<1>2. CASE BarrierPass
  BY <1>2 DEF BarrierPass, Noticed, PoolInv, TypeOK, Continuation
<1>3. CASE BarrierSleep
  BY <1>3 DEF BarrierSleep, Noticed, AllReady, poolVars
<1>4. CASE Retire
  <2>1. size - 1 \in Workers
    BY <1>4, ConstantsAssumption DEF Retire, MoreToRetire, PoolInv, TypeOK, Workers
  <2>2. workerPc'[size - 1] # "waiting" /\ size' = size /\ clientPc' = "joining"
    BY <1>4, <2>1 DEF Retire, StartNotifyAll
  <2>3. QED
    BY <2>2 DEF Noticed
<1>5. CASE \/ StoreOperation \/ ResetReady \/ NotifyStart \/ Grow \/ JoinAndPop
           \/ EndResize \/ StopResize \/ Return
  BY <1>5 DEF StoreOperation, ResetReady, NotifyStart, Grow, JoinAndPop, EndResize,
     StopResize, Return, Noticed, clientVars
<1>6. CASE \E w \in Workers : WorkerStep(w)
  BY <1>6, WorkerNotices
<1>7. CASE UNCHANGED vars
  BY <1>7 DEF Noticed, AllReady, vars, poolVars, clientVars
<1>8. QED
  BY <1>1, <1>2, <1>3, <1>4, <1>5, <1>6, <1>7 DEF Next, ClientStep

\* If every thread of the pool slept, ready would be their number.
LEMMA AllAsleepIsReady ==
  ASSUME PoolInv, clientPc = "asleep", \A w \in Live \ null : ~Awake(w)
  PROVE  AllReady
<1>1. size \in Nat /\ size =< MaxThreads /\ 0 \in Int /\ size - 1 \in Int /\ null = {}
  BY ConstantsAssumption DEF PoolInv, TypeOK, Ownership
<1>2. Waiting = 0 .. size - 1
  <2>1. ASSUME NEW w \in Workers
        PROVE  workerPc[w] = "waiting" <=> w < size
    BY <1>1 DEF PoolInv, TypeOK, Ownership, Live, Awake, WorkerState
  <2>2. QED
    BY <1>1, <2>1, ConstantsAssumption DEF Waiting, Workers
<1>3. Cardinality(Waiting) = size
  BY <1>1, <1>2, FS_Interval
<1>4. QED
  BY <1>3 DEF AllReady, PoolInv, ReadyCountsWaiting

(***************************************************************************)
(* A thread that sleeps in barrier or in join is waiting for a thread that *)
(* is awake: no notification of the two condition variables is ever lost,  *)
(* for any number of threads and any calls.                                *)
(***************************************************************************)
THEOREM NobodyIsForgotten == Spec => []NobodyForgotten
<1>1. Init => Noticed
  BY DEF Init, Noticed
<1>2. PoolInv /\ Noticed /\ [Next]_vars => Noticed'
  BY NextNotices
<1>3. PoolInv /\ Noticed => NobodyForgotten
  <2> SUFFICES ASSUME PoolInv, Noticed PROVE NobodyForgotten
    OBVIOUS
  <2>1. clientPc = "asleep" => \E w \in Live \ null : Awake(w)
    BY AllAsleepIsReady DEF Noticed
  <2>2. ASSUME clientPc = "joining" PROVE Awake(size - 1) \/ Joined
    <3>1. size - 1 \in Workers
      BY <2>2, ConstantsAssumption DEF PoolInv, TypeOK, Ownership, Workers
    <3>2. workerPc[size - 1] \in WorkerState \ {"waiting", "none"}
      BY <2>2, <3>1 DEF Noticed, PoolInv, TypeOK, Ownership
    <3>3. QED
      BY <3>2 DEF WorkerState, Awake, Joined
  <2>3. QED
    BY <2>1, <2>2 DEF NobodyForgotten
<1>4. QED
  BY <1>1, <1>2, <1>3, PoolInvariant, PTL DEF Spec

-----------------------------------------------------------------------------
(* Every step advances.                                                    *)

\* The measures are natural numbers.
LEMMA MeasureTypes ==
  ASSUME TypeOK
  PROVE  /\ size \in Nat /\ target \in Nat
         /\ Distance \in Nat
         /\ \A pc : Rest(pc) \in Nat
BY ConstantsAssumption DEF TypeOK, Distance, Rest

\* A step of a worker tires that worker and leaves the client where it was,
\* or moves it from finish.wait to the test of its predicate.
LEMMA WorkerAdvances ==
  ASSUME TypeOK, NEW w \in Workers, WorkerStep(w)
  PROVE  WorkersAdvance
<1>1. /\ UNCHANGED <<size, target, next>>
      /\ \/ clientPc' = clientPc
         \/ clientPc = "asleep" /\ clientPc' = "barrier"
  BY DEF WorkerStep, EnterLoop, WakeToRun, WakeToLoop, FinishOperation, LoopTop,
     FinishNotifyAll, poolVars, clientVars
<1>2. StepsLeft' = StepsLeft
  <2>1. Distance' = Distance
    BY <1>1 DEF Distance
  <2>2. Rest(clientPc)' = Rest(clientPc) \/ (clientPc = "asleep" /\ clientPc' = "barrier")
    BY <1>1, <2>1 DEF Rest
  <2>3. Rest(next)' = Rest(next)
    BY <1>1, <2>1 DEF Rest
  <2>4. QED
    BY <1>1, <2>2, <2>3 DEF StepsLeft
<1>3. \A v \in Workers \ {w} : workerPc'[v] = workerPc[v]
  BY DEF WorkerStep, EnterLoop, WakeToRun, WakeToLoop, FinishOperation, LoopTop, TypeOK
<1>4. \/ workerPc[w] = "entering" /\ workerPc'[w] \in {"waiting", "exited"}
      \/ workerPc[w] = "woken" /\ workerPc'[w] \in {"running", "waiting", "exited"}
      \/ workerPc[w] = "running" /\ workerPc'[w] = "entering"
  BY DEF WorkerStep, EnterLoop, WakeToRun, WakeToLoop, FinishOperation, LoopTop, TypeOK,
     AfterOperation
<1>5. Toil(w)' < Toil(w)
  BY <1>4 DEF Toil
<1>6. ASSUME NEW v \in Workers \ {w} PROVE Toil(v)' <= Toil(v)
  BY <1>3 DEF Toil
<1>7. Toil(w)' <= Toil(w)
  BY <1>4 DEF Toil
<1>8. QED
  BY <1>2, <1>5, <1>6, <1>7 DEF WorkersAdvance

\* A step of the client: it comes nearer to its return, or goes to sleep.
LEMMA ClientStepAdvances ==
  ASSUME PoolInv, ClientStep
  PROVE  ClientAdvances \/ ClientRests
<1> USE DEF PoolInv
<1>1. CASE BarrierPass
  <2>1. Rest(next)' = Rest(next) /\ Rest(next) \in Nat
    BY <1>1, MeasureTypes DEF BarrierPass, Rest, Distance, poolVars
  <2>2. StepsLeft = 1 + Rest(next) /\ StepsLeft' = Rest(next)'
    BY <1>1 DEF BarrierPass, StepsLeft, TypeOK, Continuation
  <2>3. QED
    BY <2>1, <2>2 DEF ClientAdvances
<1>2. CASE BarrierSleep
  BY <1>2 DEF BarrierSleep, StepsLeft, Rest, Distance, Toil, Alert, ClientRests, poolVars
<1>3. CASE StoreOperation \/ ResetReady \/ NotifyStart \/ Return
  BY <1>3 DEF StoreOperation, ResetReady, NotifyStart, Return, StepsLeft, Rest, ClientAdvances
<1>4. CASE Grow
  BY <1>4, MeasureTypes DEF Grow, MoreToAdd, clientVars, StepsLeft, Rest, Distance,
     ClientAdvances
<1>5. CASE Retire
  <2>1. Distance' = Distance
    BY <1>5 DEF Retire, Distance
  <2>2. StepsLeft = 3 + 2 * Distance /\ StepsLeft' = 2 + 2 * Distance'
    BY <1>5 DEF Retire, StepsLeft, Rest
  <2>3. QED
    BY <2>1, <2>2, MeasureTypes DEF ClientAdvances
<1>6. CASE JoinAndPop
  <2>1. size > target
    BY <1>6 DEF JoinAndPop, Ownership
  <2>2. Distance' = Distance - 1
    BY <1>6, <2>1, MeasureTypes DEF JoinAndPop, Distance
  <2>3. StepsLeft = 2 + 2 * Distance /\ StepsLeft' = 3 + 2 * Distance'
    BY <1>6 DEF JoinAndPop, StepsLeft, Rest
  <2>4. QED
    BY <2>2, <2>3, MeasureTypes DEF ClientAdvances
<1>7. CASE EndResize
  <2>1. StepsLeft = 3 + 2 * Distance /\ StepsLeft' = 2
    BY <1>7 DEF EndResize, StepsLeft, Rest
  <2>2. QED
    BY <2>1, MeasureTypes DEF ClientAdvances
<1>8. CASE StopResize
  <2>1. StepsLeft = 5 + 2 * size /\ StepsLeft' = 1 + (3 + 2 * Distance')
    BY <1>8 DEF StopResize, StepsLeft, Rest
  <2>2. Distance' = size
    BY <1>8, MeasureTypes DEF StopResize, Distance, poolVars
  <2>3. QED
    BY <2>1, <2>2, MeasureTypes DEF ClientAdvances
<1>9. QED
  BY <1>1, <1>2, <1>3, <1>4, <1>5, <1>6, <1>7, <1>8 DEF ClientStep

(***************************************************************************)
(* Between two calls every step makes progress, in a well-founded order: a *)
(* call of the pool takes finitely many steps, whatever the interleaving,  *)
(* the number of threads and the calls that came before.                   *)
(***************************************************************************)
THEOREM CallsDoAdvance == Spec => CallsAdvance
<1>1. PoolInv /\ [Next]_vars
        => [ClientCall \/ ClientAdvances \/ WorkersAdvance \/ ClientRests]_vars
  BY WorkerAdvances, ClientStepAdvances DEF Next, PoolInv
<1>2. QED
  BY <1>1, PoolInvariant, PTL DEF Spec, CallsAdvance

-----------------------------------------------------------------------------
(***************************************************************************)
(* ThreadPool implements WorkerBatch: each step of the pool is a step of   *)
(* the contract or changes nothing the contract speaks of.                 *)
(***************************************************************************)

(* The initial state, and the steps the contract does not see.             *)

\* A pool just constructed is an empty batch.
LEMMA InitRefines == Init => Batch!BatchInit
<1> SUFFICES ASSUME Init PROVE Batch!BatchInit
  OBVIOUS
<1>1. Live = {}
  BY ConstantsAssumption DEF Init, Live, Workers
<1>2. ~PastBarrier
  BY DEF Init, PastBarrier
<1>3. QED
  BY <1>1, <1>2 DEF Init, Batch!BatchInit

\* Calling a method, going to sleep in a barrier, resetting ready.
LEMMA ClientStutters ==
  ASSUME PoolInv, ClientCall \/ BarrierSleep \/ ResetReady
  PROVE  UNCHANGED Batch!batchVars
<1>1. /\ UNCHANGED <<size, null, operation, workerPc>>
      /\ \/ clientPc \in {"idle", "barrier"} /\ clientPc' \in {"barrier", "asleep"}
         \/ clientPc = "resetting" /\ clientPc' = "notifying"
  BY DEF ClientCall, CallBarrier, CallStop, CallExecute, CallResize, Begin,
         BarrierSleep, ResetReady, poolVars, AllReady, Restart
<1>2. Live' = Live /\ PastBarrier' = PastBarrier
  BY <1>1 DEF Live, PastBarrier
<1>3. QED
  BY <1>1, <1>2 DEF Batch!batchVars

-----------------------------------------------------------------------------
(* The client's steps.                                                     *)

\* A barrier returns: nobody is woken, nobody runs.
LEMMA BarrierRefines ==
  ASSUME PoolInv, BarrierPass
  PROVE  Batch!BatchNext
<1>1. PoolInv'
  BY BarrierPassPreserves
<1>2. /\ clientPc = "barrier" /\ clientPc' = next /\ ready = size
      /\ UNCHANGED <<size, null, operation, workerPc>>
      /\ next \in Continuation
  BY DEF BarrierPass, poolVars, PoolInv, TypeOK, AllReady
<1>3. workerPc = [w \in Workers |-> IF w < size THEN "waiting" ELSE "none"]
  BY <1>2, AllAsleep DEF PoolInv, ReadyCountsWaiting
<1>4. \A w \in Workers : workerPc[w] \in {"waiting", "none"}
  BY <1>3
<1>5. /\ Live' = Live
      /\ ~PastBarrier
      /\ next = "resizing" => ~PastBarrier'
      /\ next # "resizing" => PastBarrier'
  BY <1>2 DEF Live, PastBarrier, Continuation
<1>6. CASE next = "resizing"
  BY <1>2, <1>4, <1>5, <1>6 DEF Batch!BatchNext, Batch!Settle
<1>7. CASE next # "resizing"
  BY <1>2, <1>4, <1>5, <1>7 DEF Batch!BatchNext, Batch!Settle
<1>8. QED
  BY <1>6, <1>7

\* execute stores the operation while everybody sleeps.
LEMMA StoreRefines ==
  ASSUME PoolInv, StoreOperation
  PROVE  Batch!BatchNext
<1>1. /\ clientPc = "storing" /\ clientPc' = "resetting"
      /\ operation' = argument /\ argument \in Operations
      /\ UNCHANGED <<size, null, workerPc>>
  BY DEF StoreOperation, PoolInv, Progress
<1>2. Live' = Live /\ PastBarrier /\ PastBarrier'
  BY <1>1 DEF Live, PastBarrier
<1>3. Batch!Assign(argument)
  BY <1>1, <1>2 DEF Batch!Assign
<1>4. QED
  BY <1>1, <1>3 DEF Batch!BatchNext

\* start.notify_all in execute reaches every thread of the pool.
LEMMA NotifyRefines ==
  ASSUME PoolInv, NotifyStart
  PROVE  Batch!BatchNext
<1>1. /\ clientPc = "notifying" /\ clientPc' = "idle"
      /\ workerPc' = StartNotifyAll(workerPc)
      /\ UNCHANGED <<size, null, operation>>
      /\ null = {}
      /\ workerPc = [w \in Workers |-> IF w < size THEN "waiting" ELSE "none"]
  BY DEF NotifyStart, poolVars, PoolInv, BarrierSeparates, PastBarrier, Ownership
<1>2. Live' = Live /\ PastBarrier /\ ~PastBarrier'
  BY <1>1 DEF Live, PastBarrier
<1>3. \A w \in Workers : /\ workerPc[w] # "running" /\ workerPc'[w] # "running"
                         /\ workerPc'[w] = "woken" <=> w \in Live
  BY <1>1 DEF StartNotifyAll, Live
<1>4. Batch!Launch
  BY <1>1, <1>2, <1>3 DEF Batch!Launch, Live
<1>5. QED
  BY <1>4 DEF Batch!BatchNext

\* The end of a resize, the resize of stop and the return of a method.
LEMMA ReleaseRefines ==
  ASSUME PoolInv, EndResize \/ StopResize \/ Return
  PROVE  Batch!BatchNext
<1>1. /\ clientPc \in {"resizing", "stopping", "returning"}
      /\ clientPc' \in {"barrier", "idle"}
      /\ UNCHANGED <<size, null, operation, workerPc>>
      /\ null = {}
  BY DEF EndResize, StopResize, Return, poolVars, PoolInv, Ownership, MoreToAdd, MoreToRetire
<1>2. Live' = Live /\ ~PastBarrier'
  BY <1>1 DEF Live, PastBarrier
<1>3. Batch!Release
  BY <1>1, <1>2 DEF Batch!Release, PastBarrier
<1>4. QED
  BY <1>3 DEF Batch!BatchNext

\* resize adds a thread, which has nothing to do yet.
LEMMA GrowRefines ==
  ASSUME PoolInv, Grow
  PROVE  Batch!BatchNext
<1>1. /\ clientPc = "resizing" /\ UNCHANGED clientPc /\ size < target
      /\ workerPc' = [workerPc EXCEPT ![size] = "entering"]
      /\ size' = size + 1
      /\ UNCHANGED <<null, operation>>
      /\ null = {}
      /\ size \in Nat /\ target \in 0 .. MaxThreads /\ MaxThreads \in Nat
  BY ConstantsAssumption DEF Grow, clientVars, PoolInv, Ownership, TypeOK, MoreToAdd, NewSlot
<1>2. size \in Workers /\ workerPc[size] = "none"
  BY <1>1 DEF Workers, PoolInv, Ownership
<1>3. Live' = Live \cup {size} /\ size \notin Live
  BY <1>1, <1>2, ConstantsAssumption DEF Live, Workers
<1>4. ~PastBarrier /\ ~PastBarrier'
  BY <1>1 DEF PastBarrier
<1>5. \A w \in Workers : /\ workerPc'[w] = "woken" <=> workerPc[w] = "woken"
                         /\ workerPc'[w] = "running" <=> workerPc[w] = "running"
  BY <1>1, <1>2 DEF PoolInv, TypeOK
<1>6. Batch!Add(size)
  BY <1>1, <1>3, <1>4, <1>5 DEF Batch!Add
<1>7. QED
  BY <1>2, <1>6 DEF Batch!BatchNext

\* resize tells the last thread to leave, and wakes the sleepers with it.
LEMMA RetireRefines ==
  ASSUME PoolInv, Retire
  PROVE  Batch!BatchNext
<1>1. /\ clientPc = "resizing" /\ clientPc' = "joining" /\ size > target
      /\ null = {} /\ null' = {size - 1}
      /\ workerPc' = StartNotifyAll(workerPc)
      /\ UNCHANGED <<size, operation>>
      /\ size \in Nat /\ target \in Nat /\ MaxThreads \in Nat /\ size <= MaxThreads
  BY ConstantsAssumption DEF Retire, PoolInv, Ownership, TypeOK, Restart, MoreToRetire
<1>2. size - 1 \in Workers /\ size - 1 \in Live
  BY <1>1 DEF Workers, Live
<1>3. Live' = Live /\ ~PastBarrier /\ ~PastBarrier'
  BY <1>1 DEF Live, PastBarrier
<1> DEFINE again == {w \in Workers \ {size - 1} : workerPc[w] = "waiting"}
<1>4. \A w \in Workers : workerPc'[w] = IF workerPc[w] = "waiting"
                                        THEN "woken" ELSE workerPc[w]
  BY <1>1, NobodySleeps DEF PoolInv
<1>5. \A w \in Workers : workerPc[w] # "none" => w \in Live
  BY <1>1, ConstantsAssumption DEF PoolInv, Ownership, Live, Workers
<1>6. again \in SUBSET ((Live \ {size - 1}) \ {w \in Workers : workerPc[w] = "running"})
  BY <1>5
<1>7. {w \in Workers \ {size - 1} : workerPc'[w] = "woken"}
        = ({w \in Workers \ {} : workerPc[w] = "woken"} \ {size - 1}) \cup again
  BY <1>4
<1>8. {w \in Workers : workerPc'[w] = "running"} = {w \in Workers : workerPc[w] = "running"}
  BY <1>4
<1>9. PICK w \in Workers : w = size - 1
  BY <1>2
<1>10. Batch!Remove(w)
  BY <1>1, <1>2, <1>3, <1>6, <1>7, <1>8, <1>9 DEF Batch!Remove
<1>11. QED
  BY <1>10 DEF Batch!BatchNext

\* The thread that left is joined.
LEMMA JoinRefines ==
  ASSUME PoolInv, JoinAndPop
  PROVE  Batch!BatchNext
<1>1. /\ clientPc = "joining" /\ clientPc' = "resizing"
      /\ workerPc[size - 1] = "exited"
      /\ workerPc' = [workerPc EXCEPT ![size - 1] = "none"]
      /\ null = {size - 1} /\ null' = {}
      /\ size' = size - 1
      /\ UNCHANGED operation
      /\ size \in Nat /\ target \in Nat /\ size > target
      /\ MaxThreads \in Nat /\ size <= MaxThreads
  BY ConstantsAssumption DEF JoinAndPop, PoolInv, Ownership, TypeOK, Joined
<1>2. size - 1 \in Workers
  BY <1>1 DEF Workers
<1>3. Live' = Live \ {size - 1} /\ ~PastBarrier /\ ~PastBarrier'
  BY <1>1 DEF Live, Workers, PastBarrier
<1>4. /\ {w \in Workers \ {} : workerPc'[w] = "woken"}
           = {w \in Workers \ {size - 1} : workerPc[w] = "woken"}
      /\ {w \in Workers : workerPc'[w] = "running"} = {w \in Workers : workerPc[w] = "running"}
  BY <1>1, <1>2 DEF PoolInv, TypeOK
<1>5. Batch!Left(size - 1)
  BY <1>1, <1>2, <1>3, <1>4 DEF Batch!Left
<1>6. QED
  BY <1>2, <1>5 DEF Batch!BatchNext

-----------------------------------------------------------------------------
(* The workers' steps.                                                     *)

LEMMA WorkerRefines ==
  ASSUME PoolInv, NEW w \in Workers, WorkerStep(w)
  PROVE  Batch!BatchNext \/ UNCHANGED Batch!batchVars
<1>0. workerPc \in [Workers -> WorkerState]
  BY DEF PoolInv, TypeOK
<1>1. ASSUME NEW pc, workerPc' = [workerPc EXCEPT ![w] = pc]
      PROVE  \A v \in Workers : workerPc'[v] = IF v = w THEN pc ELSE workerPc[v]
  BY <1>0, <1>1
<1>2. ASSUME UNCHANGED <<size, clientPc>> \/ (size' = size /\ FinishNotifyAll)
      PROVE  /\ Live' = Live /\ PastBarrier' = PastBarrier
             /\ (clientPc \in {"resizing", "joining"}) = (clientPc' \in {"resizing", "joining"})
  BY <1>2 DEF Live, PastBarrier, FinishNotifyAll
<1>3. CASE WakeToRun(w)
  <2>1. /\ workerPc[w] = "woken" /\ w \notin null /\ operation # NoOperation
        /\ workerPc' = [workerPc EXCEPT ![w] = "running"]
        /\ UNCHANGED <<size, null, operation, clientPc>>
    BY <1>3 DEF WakeToRun, poolVars, clientVars
  <2>2. \A v \in Workers : workerPc'[v] = IF v = w THEN "running" ELSE workerPc[v]
    BY <1>1, <2>1
  <2>3. /\ {v \in Workers \ null' : workerPc'[v] = "woken"}
             = {v \in Workers \ null : workerPc[v] = "woken"} \ {w}
        /\ {v \in Workers : workerPc'[v] = "running"}
             = {v \in Workers : workerPc[v] = "running"} \cup {w}
    BY <2>1, <2>2
  <2>4. Batch!Begin(w)
    BY <1>2, <2>1, <2>3 DEF Batch!Begin
  <2>5. QED
    BY <2>4 DEF Batch!BatchNext
<1>4. CASE FinishOperation(w)
  <2>1. /\ workerPc[w] = "running"
        /\ workerPc' = [workerPc EXCEPT ![w] = "entering"]
        /\ UNCHANGED <<size, null, operation, clientPc>>
    BY <1>4 DEF FinishOperation, poolVars, clientVars, AfterOperation
  <2>2. \A v \in Workers : workerPc'[v] = IF v = w THEN "entering" ELSE workerPc[v]
    BY <1>1, <2>1
  <2>3. /\ {v \in Workers \ null' : workerPc'[v] = "woken"}
             = {v \in Workers \ null : workerPc[v] = "woken"}
        /\ {v \in Workers : workerPc'[v] = "running"}
             = {v \in Workers : workerPc[v] = "running"} \ {w}
    BY <2>1, <2>2
  <2>4. Batch!Finish(w)
    BY <1>2, <2>1, <2>3 DEF Batch!Finish
  <2>5. QED
    BY <2>4 DEF Batch!BatchNext
<1>5. CASE EnterLoop(w)
  <2>1. /\ workerPc[w] = "entering"
        /\ UNCHANGED <<size, null, operation>>
        /\ \E pc \in {"waiting", "exited"} : workerPc' = [workerPc EXCEPT ![w] = pc]
        /\ UNCHANGED clientPc \/ FinishNotifyAll
    BY <1>5 DEF EnterLoop, LoopTop
  <2>2. UNCHANGED Batch!batchVars
    BY <1>1, <1>2, <2>1 DEF Batch!batchVars
  <2>3. QED
    BY <2>2
<1>6. CASE WakeToLoop(w)
  <2>1. /\ workerPc[w] = "woken"
        /\ operation = NoOperation \/ w \in null
        /\ UNCHANGED <<size, null, operation>>
        /\ \E pc \in {"waiting", "exited"} : workerPc' = [workerPc EXCEPT ![w] = pc]
        /\ UNCHANGED clientPc \/ FinishNotifyAll
    BY <1>6 DEF WakeToLoop, LoopTop
  <2>2. CASE w \in null
    <3>1. UNCHANGED Batch!batchVars
      BY <1>1, <1>2, <2>1, <2>2 DEF Batch!batchVars
    <3>2. QED
      BY <3>1
  <2>3. CASE w \notin null
    <3>1. PICK pc \in {"waiting", "exited"} : workerPc' = [workerPc EXCEPT ![w] = pc]
      BY <2>1
    <3>2. \A v \in Workers : workerPc'[v] = IF v = w THEN pc ELSE workerPc[v]
      BY <1>1, <3>1
    <3>3. /\ {v \in Workers \ null' : workerPc'[v] = "woken"}
               = {v \in Workers \ null : workerPc[v] = "woken"} \ {w}
          /\ {v \in Workers : workerPc'[v] = "running"}
               = {v \in Workers : workerPc[v] = "running"}
      BY <2>1, <3>1, <3>2
    <3>4. Batch!Skip(w)
      BY <1>2, <2>1, <2>3, <3>3 DEF Batch!Skip
    <3>5. QED
      BY <3>4 DEF Batch!BatchNext
  <2>4. QED
    BY <2>2, <2>3
<1>7. QED
  BY <1>3, <1>4, <1>5, <1>6 DEF WorkerStep

\* Every step of the pool is a step of the contract, or invisible to it.
LEMMA NextRefines ==
  ASSUME PoolInv, [Next]_vars
  PROVE  [Batch!BatchNext]_Batch!batchVars
<1>1. CASE ClientCall
  BY <1>1, ClientStutters
<1>2. CASE ClientStep
  BY <1>2, ClientStutters, BarrierRefines, StoreRefines, NotifyRefines, ReleaseRefines,
     GrowRefines, RetireRefines, JoinRefines DEF ClientStep
<1>3. CASE \E w \in Workers : WorkerStep(w)
  BY <1>3, WorkerRefines
<1>4. CASE UNCHANGED vars
  <2>1. UNCHANGED <<size, null, operation, workerPc, clientPc>>
    BY <1>4 DEF vars, poolVars, clientVars
  <2>2. Live' = Live /\ PastBarrier' = PastBarrier
    BY <2>1 DEF Live, PastBarrier
  <2>3. UNCHANGED Batch!batchVars
    BY <2>1, <2>2 DEF Batch!batchVars
  <2>4. QED
    BY <2>3
<1>5. QED
  BY <1>1, <1>2, <1>3, <1>4 DEF Next

(***************************************************************************)
(* The pool implements its contract: a job is replaced only when every     *)
(* worker is idle, reaches each of them once, and a barrier returns only   *)
(* when none of them has anything to do.                                   *)
(***************************************************************************)
THEOREM PoolImplementsBatch == Spec => ImplementsBatch
<1>1. QED
  BY InitRefines, NextRefines, PoolInvariant, PTL
     DEF Spec, ImplementsBatch, Batch!BatchSpec
=============================================================================
