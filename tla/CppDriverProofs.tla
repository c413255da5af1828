---------------------------- MODULE CppDriverProofs ----------------------------
(***************************************************************************)
(* Proofs about CppDriver, for every number of threads, every width, every *)
(* pair of hash functions and every difficulty: the inductive invariant    *)
(* DriverInv and what follows from it.                                     *)
(***************************************************************************)
EXTENDS CppDriver, PowLemmas, FiniteSetTheorems

Solutions == Passing[nonce][difficulty_m]
OneThread == \A v, w \in members : v = w

\* Where the client is says what it does with the pool, and whether workers
\* may have something to do.
ClientKept ==
  /\ clientPc \in ClientState /\ task \in {"none", "fill", "search", "resize"}
  /\ task = "resize" => clientPc \in {"idle", "entering", "resizing", "awaiting", "leaving"}
  /\ clientPc \in {"entering", "resizing"} => task = "resize"
  /\ clientPc \in {"awaiting", "leaving"} => task # "none"
  /\ clientPc \in {"executing", "assigning", "launching"} => task \in {"fill", "search"}
  /\ clientPc = "filled" => task = "fill"
  /\ clientPc = "searched" => task = "search"
  /\ phase = IF clientPc \in {"assigning", "launching", "leaving"} THEN "quiet"
             ELSE IF clientPc = "resizing" THEN "resizing" ELSE "free"

PoolKept ==
  /\ pending \subseteq members /\ running \subseteq members \cup leaving
  /\ leaving # {} => clientPc = "resizing"
  /\ clientPc \notin {"awaiting", "resizing"} => pending = {} /\ running = {}
  /\ clientPc \in {"launching", "awaiting", "leaving", "filled", "searched"}
       /\ task # "resize" => job = task

WorkersKept ==
  /\ workerPc \in [Workers -> WorkerState]
  /\ DOMAIN pair = Workers
  /\ \A w \in Workers :
       /\ workerPc[w] = "off" <=> w \notin running
       /\ workerPc[w] \in {"fillTest", "fillWrite"} => job = "fill"
       /\ workerPc[w] \in {"searchTest", "probe", "publish0", "publish1"} => job = "search"
       /\ workerPc[w] \in {"fillWrite", "probe", "publish0", "publish1"} => InSolve

SettingsKept ==
  /\ nonce \in Nonces /\ difficulty_m \in Difficulties
  /\ slab = NoSlab \/ DOMAIN slab # {}
  /\ InSolve \/ clientPc = "clearing" => slab # NoSlab

\* The job that was run last is over: to run it again does nothing.
JobIsOver ==
  (~InSolve \/ clientPc = "returning") /\ clientPc # "clearing" =>
    job = "none" \/ cancel \/ (job = "search" /\ result_0 # 0)

\* Whoever stores a left half stores the right one after it.
HalvesFollow ==
  result_0 # 0 => result_1 # 0 \/ \E w \in Workers : workerPc[w] = "publish1"

\* A search ends with a left half, if it is not cancelled.
SearchGoesOn ==
  InSolve /\ clientPc \in {"awaiting", "leaving", "searched"} /\ task = "search"
     /\ members # {} /\ ~cancel
    => pending \cup running # {} \/ result_0 # 0

\* What is published, in this solve.
Published ==
  /\ clientPc = "clearing" => result_0 = 0 /\ result_1 = 0
  /\ \A w \in Workers : workerPc[w] \in {"publish0", "publish1"} =>
       pair[w] \in Solutions /\ pair[w][2] # 0
  /\ InSolve =>
       /\ members = {} => result_1 = 0
       /\ (result_1 # 0 \/ \E w \in Workers : workerPc[w] = "publish1") =>
            \E p \in Solutions : p[1] = result_0
       /\ result_1 # 0 => \E p \in Solutions : p[2] = result_1
       /\ OneThread =>
            /\ \A w \in Workers : workerPc[w] = "publish1" => pair[w][1] = result_0
            /\ result_1 # 0 /\ (\A w \in Workers : workerPc[w] # "publish1") =>
                 <<result_0, result_1>> \in Solutions

\* What driver::solve holds.
Held ==
  /\ InSolve /\ clientPc \notin {"looping", "returning"} => result_l[2] = 0
  /\ clientPc = "looping" /\ result_l[2] # 0 =>
       /\ job = "search" /\ (cancel \/ result_0 # 0)
       /\ Contract!Genuine(result_l)

DriverInv ==
  /\ ClientKept /\ PoolKept /\ WorkersKept /\ SettingsKept /\ JobIsOver
  /\ HalvesFollow /\ SearchGoesOn /\ Published /\ Held

-----------------------------------------------------------------------------
\* What search_impl accepts, a verifier accepts.
LEMMA AcceptedPass ==
  ASSUME NEW n \in Nonces, NEW d \in Difficulties
  PROVE  /\ Accepted[n][d] = {p \in Lhs \X Rhs : Accepts(n, d, p[1], p[2])}
         /\ \A p \in Accepted[n][d] : p \in Passing[n][d]
BY DEF Accepted, Passing, Accepts

\* A driver just constructed satisfies the invariant.
LEMMA InitInv == Init => DriverInv
BY DEF Init, DriverInv, ClientKept, ClientState, PoolKept, WorkersKept, WorkerState, SettingsKept,
  JobIsOver, HalvesFollow, SearchGoesOn, Published, Held, InSolve, Pool!BatchInit

\* A solution is its two halves, so that publishing both publishes it.
LEMMA SolutionsArePairs ==
  ASSUME nonce \in Nonces, difficulty_m \in Difficulties
  PROVE  \A p \in Solutions : p = <<p[1], p[2]>>
BY DEF Solutions, Passing

\* A worker's step keeps the invariant.
LEMMA WorkerInv ==
  ASSUME DriverInv, NEW w \in Workers, WorkerStep(w)
  PROVE  DriverInv'
<1> USE DEF DriverInv, ClientKept, ClientState, PoolKept, WorkersKept, WorkerState, SettingsKept,
            JobIsOver, HalvesFollow, SearchGoesOn, Published, Held, InSolve,
            Solutions, OneThread, Contract!Genuine,
            Goes, poolVars, sharedVars, configVars, clientVars, localVars, workVars
<1>1. CASE SkipJob(w)
  BY <1>1 DEF SkipJob, Pool!Skip
<1>2. CASE StartFill(w)
  BY <1>2 DEF StartFill, Pool!Begin
<1>3. CASE FillTest(w)
  BY <1>3 DEF FillTest, MoreToFill, InnerLoop
<1>4. CASE FillDone(w)
  BY <1>4 DEF FillDone, MoreToFill, Leave, Pool!Finish
<1>5. CASE FillWrite(w)
  BY <1>5 DEF FillWrite, NoSlab, InnerLoop
<1>6. CASE StartSearch(w)
  BY <1>6 DEF StartSearch, Pool!Begin
<1>7. CASE SearchTest(w)
  BY <1>7 DEF SearchTest, MoreToSearch
<1>8. CASE SearchDone(w)
  BY <1>8 DEF SearchDone, MoreToSearch, Leave, Pool!Finish
<1>9. CASE ProbeMiss(w)
  BY <1>9 DEF ProbeMiss
<1>10. CASE ProbeHit(w)
  BY AcceptedPass, <1>10 DEF ProbeHit
<1>11. CASE PublishLhs(w)
  BY <1>11 DEF PublishLhs
<1>12. CASE PublishRhs(w)
  <2>1. /\ pair[w] \in Solutions /\ pair[w][2] # 0
        /\ pair[w] = <<pair[w][1], pair[w][2]>>
        /\ InSolve /\ w \in members
    BY <1>12, SolutionsArePairs DEF PublishRhs
  <2>2. /\ result_1' = pair[w][2] /\ result_0' = result_0
        /\ Solutions' = Solutions /\ members' = members
        /\ workerPc' = [workerPc EXCEPT ![w] = "searchTest"]
        /\ InSolve' /\ clientPc' # "clearing"
    BY <1>12, <2>1 DEF PublishRhs
  <2>3. OneThread' => result_0 = pair[w][1]
    BY <1>12, <2>1, <2>2 DEF PublishRhs
  <2>4. Published'
    BY <1>12, <2>1, <2>2, <2>3 DEF PublishRhs
  <2>5. QED
    BY <1>12, <2>1, <2>2, <2>4 DEF PublishRhs
<1>13. QED
  BY <1>1, <1>2, <1>3, <1>4, <1>5, <1>6, <1>7, <1>8, <1>9, <1>10, <1>11, <1>12
  DEF WorkerStep

\* A call or a step of the client keeps the invariant, and so does
\* cancel_current.
LEMMA ClientInv ==
  ASSUME DriverInv, ClientCall \/ ClientStep \/ Cancel
  PROVE  DriverInv'
<1> USE DEF DriverInv, ClientKept, ClientState, PoolKept, WorkersKept, WorkerState, SettingsKept,
            JobIsOver, HalvesFollow, SearchGoesOn, Published, Held, InSolve,
            Solutions, OneThread, Contract!Genuine,
            Moves, Walks, Alone, poolVars, sharedVars, configVars, clientVars, localVars, workVars
<1>1. CASE Cancel
  BY <1>1 DEF Cancel
<1>2. CASE \E n \in Nonces : Solve(n)
  BY <1>2 DEF Solve, ResetResult
<1>3. CASE \E s \in Sizes : MemorySet(s)
  BY <1>3 DEF MemorySet, Between, NoSlab
<1>4. CASE MemoryReset
  BY <1>4 DEF MemoryReset, Between
<1>5. CASE \E d \in Difficulties : DifficultySet(d)
  BY <1>5 DEF DifficultySet, Between
<1>6. CASE \E n \in 0 .. MaxThreads : ThreadsSet(n)
  BY <1>6 DEF ThreadsSet
<1>7. CASE ClearCancel
  BY <1>7 DEF ClearCancel, NoPair
<1>8. CASE LoopFill
  BY <1>8 DEF LoopFill
<1>9. CASE LoopEnd
  BY <1>9 DEF LoopEnd
<1>10. CASE ExecuteBarrier
  BY <1>10 DEF ExecuteBarrier, Pool!Settle
<1>11. CASE ExecuteAssign
  BY <1>11 DEF ExecuteAssign, Pool!Assign
<1>12. CASE ExecuteLaunch
  BY <1>12 DEF ExecuteLaunch, Pool!Launch
<1>13. CASE AwaitBarrier
  BY <1>13 DEF AwaitBarrier, Awaits, Pool!Settle
<1>14. CASE LeaveBarrier
  BY <1>14 DEF LeaveBarrier, Pool!Release
<1>15. CASE FilledSearch
  BY <1>15 DEF FilledSearch
<1>16. CASE FilledCancelled
  BY <1>16 DEF FilledCancelled
<1>17. CASE Searched
  BY <1>17 DEF Searched, result_get
<1>18. CASE SolveReturn
  BY <1>18 DEF SolveReturn
<1>19. CASE ResizeBarrier
  BY <1>19 DEF ResizeBarrier, Pool!Settle
<1>20. CASE Grow
  BY <1>20 DEF Grow, Resizing, Pool!Add
<1>21. CASE Shrink
  BY <1>21 DEF Shrink, Resizing, Pool!Remove
<1>22. CASE Join
  BY <1>22 DEF Join, Resizing, Pool!Left
<1>23. CASE ResizeEnd
  BY <1>23 DEF ResizeEnd, Pool!Release
<1>24. QED
  BY <1>1, <1>2, <1>3, <1>4, <1>5, <1>6, <1>7, <1>8, <1>9, <1>10, <1>11, <1>12, <1>13,
     <1>14, <1>15, <1>16, <1>17, <1>18, <1>19, <1>20, <1>21, <1>22, <1>23
  DEF ClientCall, ClientStep

\* Every step keeps the invariant.
LEMMA NextInv == DriverInv /\ [Next]_vars => DriverInv'
<1>1. CASE UNCHANGED vars
  BY <1>1 DEF vars, poolVars, sharedVars, configVars, clientVars, localVars, DriverInv,
     ClientKept, PoolKept, WorkersKept, SettingsKept, JobIsOver, HalvesFollow, SearchGoesOn,
     Published, Held, InSolve, Solutions, OneThread, Contract!Genuine
<1>2. QED
  BY <1>1, WorkerInv, ClientInv DEF Next

-----------------------------------------------------------------------------
(***************************************************************************)
(* A search yields: unless it was cancelled, a search by at least one      *)
(* worker does not come back without a right half.                         *)
(***************************************************************************)
THEOREM SearchesYield == Spec => []SearchYields
<1>1. DriverInv => SearchYields
  BY DEF DriverInv, ClientKept, PoolKept, WorkersKept, HalvesFollow, SearchGoesOn, SearchYields,
     InSolve
<1>2. QED
  BY <1>1, InitInv, NextInv, PTL DEF Spec

(***************************************************************************)
(* No worker comes to a load or a store of the slab, or of the result,     *)
(* when there is no slab or no solve: memory_reset and a resize that wakes *)
(* the workers once more are safe.                                         *)
(***************************************************************************)
THEOREM SlabStaysInUse == Spec => []SlabInUse
<1>1. DriverInv => SlabInUse
  BY DEF DriverInv, WorkersKept, SettingsKept, SlabInUse
<1>2. QED
  BY <1>1, InitInv, NextInv, PTL DEF Spec

(***************************************************************************)
(* A resize changes neither the slab nor the result, although it may make  *)
(* workers run the last job again.                                         *)
(***************************************************************************)
THEOREM ResizesAreHarmless == Spec => ResizeHarmless
<1> DEFINE Kept == ~InSolve /\ clientPc # "idle" => UNCHANGED <<slab, result_0, result_1>>
<1>1. ASSUME DriverInv, NEW w \in Workers, WorkerStep(w)
      PROVE  Kept
  <2>1. CASE FillWrite(w) \/ PublishLhs(w) \/ PublishRhs(w)
    <3>1. workerPc[w] \in {"fillWrite", "publish0", "publish1"}
      BY <2>1 DEF FillWrite, PublishLhs, PublishRhs, Goes
    <3>2. QED
      BY <1>1, <3>1 DEF DriverInv, WorkersKept
  <2>2. CASE ~(FillWrite(w) \/ PublishLhs(w) \/ PublishRhs(w))
    BY <1>1, <2>2 DEF WorkerStep, SkipJob, StartFill, FillTest, FillDone, StartSearch, SearchTest,
       SearchDone, ProbeMiss, ProbeHit, Leave, sharedVars, configVars
  <2>3. QED
    BY <2>1, <2>2
<1>2. ASSUME DriverInv, ClientStep \/ ClientCall \/ Cancel
      PROVE  Kept
  BY <1>2 DEF DriverInv, ClientStep, ClientCall, Cancel, Solve, MemorySet, MemoryReset, DifficultySet,
     ThreadsSet, ClearCancel, LoopFill, LoopEnd, ExecuteBarrier, ExecuteAssign, ExecuteLaunch,
     AwaitBarrier, LeaveBarrier, FilledSearch, FilledCancelled, Searched, SolveReturn,
     ResizeBarrier, Grow, Shrink, Join, ResizeEnd, Resizing, Between, Walks, Alone, Moves,
     sharedVars, configVars
<1>3. DriverInv /\ [Next]_vars => [Kept]_vars
  BY <1>1, <1>2 DEF Next
<1>4. QED
  BY <1>3, InitInv, NextInv, PTL DEF Spec, ResizeHarmless

-----------------------------------------------------------------------------
(* The refinement of Driver.                                               *)

\* A driver just constructed is one nobody has called.
LEMMA InitRefines == Init => Contract!DriverInit
BY DEF Init, Contract!DriverInit, InSolve, Pool!BatchInit

\* A worker does nothing its caller sees.
LEMMA WorkerRefines ==
  ASSUME DriverInv, NEW w \in Workers, WorkerStep(w)
  PROVE  UNCHANGED Contract!driverVars
<1>1. UNCHANGED <<clientPc, task, result_l, cancel, nonce, difficulty_m, members>>
  BY DEF WorkerStep, SkipJob, StartFill, FillTest, FillDone, FillWrite, StartSearch, SearchTest,
     SearchDone, ProbeMiss, ProbeHit, PublishLhs, PublishRhs, Leave, Goes, Pool!Skip, Pool!Begin,
     Pool!Finish, poolVars, sharedVars, configVars, clientVars
<1>2. QED
  BY <1>1 DEF Contract!driverVars, InSolve

\* The steps of the client that its caller does not see.
LEMMA InnerRefines ==
  ASSUME DriverInv,
         \/ LoopFill \/ ExecuteBarrier \/ ExecuteAssign \/ ExecuteLaunch \/ AwaitBarrier
         \/ LeaveBarrier \/ FilledSearch \/ FilledCancelled \/ Searched
         \/ ResizeBarrier \/ ResizeEnd \/ MemoryReset
         \/ \E s \in Sizes : MemorySet(s)
         \/ \E n \in 0 .. MaxThreads : ThreadsSet(n)
  PROVE  UNCHANGED Contract!driverVars
<1> USE DEF Contract!driverVars, InSolve, DriverInv, ClientKept, ClientState, Moves, Walks, Alone,
            poolVars, sharedVars, configVars, clientVars, Between
<1>1. CASE LoopFill
  BY <1>1 DEF LoopFill
<1>2. CASE ExecuteBarrier
  BY <1>2 DEF ExecuteBarrier, Pool!Settle
<1>3. CASE ExecuteAssign
  BY <1>3 DEF ExecuteAssign, Pool!Assign
<1>4. CASE ExecuteLaunch
  BY <1>4 DEF ExecuteLaunch, Pool!Launch
<1>5. CASE AwaitBarrier
  BY <1>5 DEF AwaitBarrier, Awaits, Pool!Settle
<1>6. CASE LeaveBarrier
  BY <1>6 DEF LeaveBarrier, Pool!Release
<1>7. CASE FilledSearch
  BY <1>7 DEF FilledSearch
<1>8. CASE FilledCancelled
  BY <1>8 DEF FilledCancelled
<1>9. CASE Searched
  BY <1>9 DEF Searched, result_get
<1>10. CASE ResizeBarrier
  BY <1>10 DEF ResizeBarrier, Pool!Settle
<1>11. CASE ResizeEnd
  BY <1>11 DEF ResizeEnd, Pool!Release
<1>12. CASE MemoryReset
  BY <1>12 DEF MemoryReset
<1>13. CASE \E s \in Sizes : MemorySet(s)
  BY <1>13 DEF MemorySet
<1>14. CASE \E n \in 0 .. MaxThreads : ThreadsSet(n)
  BY <1>14 DEF ThreadsSet
<1>15. QED
  BY <1>1, <1>2, <1>3, <1>4, <1>5, <1>6, <1>7, <1>8, <1>9, <1>10, <1>11, <1>12, <1>13, <1>14

\* The steps its caller sees.
LEMMA OuterRefines ==
  ASSUME DriverInv,
         \/ \E n \in Nonces : Solve(n)
         \/ \E d \in Difficulties : DifficultySet(d)
         \/ Grow \/ Shrink \/ Join \/ Cancel \/ ClearCancel \/ LoopEnd \/ SolveReturn
  PROVE  Contract!DriverNext
<1> USE DEF InSolve, DriverInv, ClientKept, ClientState, Moves, Walks, Alone, NoPair,
            poolVars, sharedVars, configVars, clientVars, Between, Contract!Enters
<1>1. CASE \E n \in Nonces : Solve(n)
  <2>1. \E n \in Nonces : Contract!Call(n)
    BY <1>1 DEF Solve, Contract!Call
  <2>2. QED
    BY <2>1 DEF Contract!DriverNext
<1>2. CASE (\E d \in Difficulties : DifficultySet(d)) \/ Grow \/ Shrink \/ Join
  <2>1. Contract!Configure
    BY <1>2 DEF DifficultySet, Grow, Shrink, Join, Resizing, Contract!Configure, SettingsKept
  <2>2. QED
    BY <2>1 DEF Contract!DriverNext
<1>3. CASE Cancel
  <2>1. Contract!CancelCurrent
    BY <1>3 DEF Cancel, Contract!CancelCurrent
  <2>2. QED
    BY <2>1 DEF Contract!DriverNext
<1>4. CASE ClearCancel
  <2>1. Contract!Start
    BY <1>4 DEF ClearCancel, Contract!Start
  <2>2. QED
    BY <2>1 DEF Contract!DriverNext
<1>5. CASE LoopEnd
  <2>1. Contract!Genuine(result_l)
    BY <1>5 DEF LoopEnd, Held, Contract!Genuine
  <2>2. Contract!Answer
    BY <1>5, <2>1 DEF LoopEnd, Contract!Answer, Contract!Genuine
  <2>3. QED
    BY <2>2 DEF Contract!DriverNext
<1>6. CASE SolveReturn
  <2>1. Contract!Return
    BY <1>6 DEF SolveReturn, Contract!Return
  <2>2. QED
    BY <2>1 DEF Contract!DriverNext
<1>7. QED
  BY <1>1, <1>2, <1>3, <1>4, <1>5, <1>6

(***************************************************************************)
(* cpp_driver keeps the contract of a driver: it answers with nothing only *)
(* when it was cancelled, every half it returns belongs to a pair that     *)
(* passes for the nonce and the difficulty of this call, and with one      *)
(* worker the pair itself passes.                                          *)
(***************************************************************************)
THEOREM DriverIsImplemented == Spec => ImplementsDriver
<1>1. DriverInv /\ [Next]_vars => [Contract!DriverNext]_(Contract!driverVars)
  <2> SUFFICES ASSUME DriverInv, [Next]_vars
               PROVE  Contract!DriverNext \/ UNCHANGED Contract!driverVars
    OBVIOUS
  <2>1. CASE UNCHANGED vars
    BY <2>1 DEF vars, poolVars, sharedVars, configVars, clientVars, Contract!driverVars, InSolve
  <2>2. CASE ClientCall \/ ClientStep \/ Cancel
    BY <2>2, InnerRefines, OuterRefines DEF ClientCall, ClientStep
  <2>3. CASE \E w \in Workers : WorkerStep(w)
    BY <2>3, WorkerRefines
  <2>4. QED
    BY <2>1, <2>2, <2>3 DEF Next
<1>2. QED
  BY <1>1, InitInv, InitRefines, NextInv, PTL DEF Spec, ImplementsDriver, Contract!DriverSpec

-----------------------------------------------------------------------------
(* Types, and what a fill leaves in the slab.                              *)

\* A 64-bit counter stays one.
LEMMA WrapIs ==
  ASSUME NEW x \in Nat
  PROVE  /\ Wrap(x) \in Half /\ x % 2 ^ LhsBits \in Lhs
         /\ x < 2 ^ HalfBits => Wrap(x) = x
<1> DEFINE h == 2 ^ HalfBits
           g == 2 ^ LhsBits
<1>1. h \in Nat \ {0} /\ g \in Nat \ {0} /\ Half = 0 .. h - 1 /\ Lhs = 0 .. g - 1
  BY WordSizes
<1> HIDE DEF h, g
<1>2. x % h \in 0 .. h - 1 /\ x % g \in 0 .. g - 1 /\ (x < h => x % h = x)
  BY <1>1, Division
<1>3. QED
  BY <1>1, <1>2 DEF Wrap, h, g

\* There are finitely many workers.
LEMMA WorkersCount ==
  ASSUME NEW S, S \subseteq Workers
  PROVE  IsFiniteSet(S) /\ Cardinality(S) \in Nat
<1>1. 0 \in Int /\ MaxThreads - 1 \in Int
  BY DriverAssumption
<1>2. IsFiniteSet(Workers)
  BY <1>1, FS_Interval DEF Workers
<1>3. QED
  BY <1>2, FS_Subset, FS_CardinalityType

\* The shares of a fill, together, are left preimages.
LEMMA ShareIs ==
  ASSUME members \subseteq Workers, leaving \subseteq Workers, members # {},
         size \in Sizes \cup {0}
  PROVE  /\ Share \in Nat
         /\ Cardinality(members) \in Nat
         /\ leaving = {} => Cardinality(members) * Share <= 2 ^ LhsBits
<1> DEFINE all == members \cup leaving
           n == Cardinality(all)
           count == fill_count(size, reverse(difficulty_m))
<1>2. n \in Nat /\ n # 0 /\ Cardinality(members) \in Nat
  <2>1. IsFiniteSet(all) /\ IsFiniteSet(members) /\ all # {}
    BY WorkersCount
  <2>2. QED
    BY <2>1, FS_CardinalityType, FS_EmptySet
<1>3. count \in Nat /\ count <= 2 ^ LhsBits
  BY FillCountIs
<1> HIDE DEF n, count
<1>4. count \div n \in Nat /\ count = n * (count \div n) + (count % n) /\ count % n \in Nat
  BY <1>2, <1>3, Division
<1>5. n * (count \div n) <= 2 ^ LhsBits
  <2> DEFINE q == count \div n
             u == n * q
  <2>1. u \in Nat /\ count = u + (count % n)
    BY <1>2, <1>4
  <2>2. 2 ^ LhsBits \in Nat
    BY WordSizes
  <2> HIDE DEF u
  <2>3. u <= 2 ^ LhsBits
    BY <1>3, <1>4, <2>1, <2>2
  <2>4. QED
    BY <2>3 DEF u
<1>6. leaving = {} => n = Cardinality(members)
  BY DEF n
<1>7. QED
  BY <1>2, <1>4, <1>5, <1>6 DEF Share, n, count

\* A left preimage has a bucket of the slab.
LEMMA BucketsExist ==
  ASSUME nonce \in Nonces, size \in Sizes, NEW lhs \in Lhs
  PROVE  BucketOf(lhs) \in 0 .. size - 1
<1>1. H0(nonce, lhs) \in Word
  BY DriverAssumption
<1>2. Low(H0(nonce, lhs)) \in Nat
  <2>1. H0(nonce, lhs) \in Nat /\ 2 ^ HalfBits \in Nat \ {0}
    BY <1>1, WordSizes DEF Word
  <2>2. QED
    BY <2>1, Division DEF Low
<1>3. QED
  BY <1>2, BucketsInSlab DEF BucketOf, FillBucket

\* A worker's step keeps the types.
LEMMA WorkerTypes ==
  ASSUME TypeOK, DriverInv, NEW w \in Workers, WorkerStep(w)
  PROVE  TypeOK'
<1> USE DEF TypeOK, ClientState, WorkerState, Goes, poolVars, sharedVars, configVars, clientVars,
            localVars, workVars
<1>1. CASE SkipJob(w)
  BY <1>1 DEF SkipJob, Pool!Skip
<1>2. CASE StartFill(w)
  <2>1. w \in pending /\ members # {} /\ current \in Nat /\ Share \in Nat
    BY <1>2, ShareIs DEF StartFill, Pool!Begin, Half
  <2>2. Wrap(current + Share) \in Half
    BY <2>1, WrapIs
  <2>3. QED
    BY <1>2, <2>2 DEF StartFill, Pool!Begin, Claim
<1>3. CASE FillTest(w)
  <2>1. cursor[w] + Stepping \in Nat
    BY DriverAssumption DEF Half
  <2>2. Wrap(cursor[w] + Stepping) \in Half
    BY <2>1, WrapIs
  <2>3. QED
    BY <1>3, <2>2 DEF FillTest, InnerLoop
<1>4. CASE FillDone(w)
  <2>1. 0 \in Half /\ NoPair \in Lhs \X Rhs
    BY WordSizes DEF NoPair
  <2>2. QED
    BY <1>4, <2>1 DEF FillDone, Leave, Pool!Finish
<1>5. CASE FillWrite(w)
  <2>1. cursor[w] \in Nat /\ cursor[w] + 1 \in Nat
    BY DEF Half
  <2>2. Wrap(cursor[w] + 1) \in Half /\ cursor[w] % 2 ^ LhsBits \in Lhs
    BY <2>1, WrapIs
  <2>3. slab' = NoSlab \/ slab' \in [0 .. size' - 1 -> Lhs]
    BY <1>5, <2>2 DEF FillWrite, NoSlab
  <2>4. QED
    BY <1>5, <2>2, <2>3 DEF FillWrite, InnerLoop
<1>6. CASE StartSearch(w)
  BY <1>6 DEF StartSearch, Pool!Begin
<1>7. CASE SearchTest(w)
  BY <1>7 DEF SearchTest
<1>8. CASE SearchDone(w)
  <2>1. 0 \in Half /\ NoPair \in Lhs \X Rhs
    BY WordSizes DEF NoPair
  <2>2. QED
    BY <1>8, <2>1 DEF SearchDone, Leave, Pool!Finish
<1>9. CASE ProbeMiss(w)
  BY <1>9 DEF ProbeMiss
<1>10. CASE ProbeHit(w)
  BY <1>10, AcceptedPass DEF ProbeHit
<1>11. CASE PublishLhs(w)
  BY <1>11 DEF PublishLhs
<1>12. CASE PublishRhs(w)
  <2>1. NoPair \in Lhs \X Rhs
    BY WordSizes DEF NoPair
  <2>2. QED
    BY <1>12, <2>1 DEF PublishRhs
<1>13. QED
  BY <1>1, <1>2, <1>3, <1>4, <1>5, <1>6, <1>7, <1>8, <1>9, <1>10, <1>11, <1>12
  DEF WorkerStep

\* A step of the client keeps the types, and so does cancel_current.
LEMMA ClientTypes ==
  ASSUME TypeOK, DriverInv, ClientCall \/ ClientStep \/ Cancel
  PROVE  TypeOK'
<1> USE DEF TypeOK, ClientState, WorkerState, Moves, Walks, Alone, poolVars, sharedVars, configVars,
            clientVars, localVars, workVars
<1>0. 0 \in Half /\ 0 \in Lhs /\ 0 \in Rhs /\ NoPair \in Lhs \X Rhs
  BY WordSizes DEF NoPair
<1>1. CASE Cancel
  BY <1>1 DEF Cancel
<1>2. CASE \E n \in Nonces : Solve(n)
  BY <1>0, <1>2 DEF Solve, ResetResult
<1>3. CASE \E s \in Sizes : MemorySet(s)
  BY <1>0, <1>3 DEF MemorySet, Between
<1>4. CASE MemoryReset
  BY <1>4 DEF MemoryReset, Between
<1>5. CASE \E d \in Difficulties : DifficultySet(d)
  BY <1>5 DEF DifficultySet, Between
<1>6. CASE \E n \in 0 .. MaxThreads : ThreadsSet(n)
  BY <1>6 DEF ThreadsSet
<1>7. CASE ClearCancel
  BY <1>0, <1>7 DEF ClearCancel
<1>8. CASE LoopFill
  BY <1>8 DEF LoopFill
<1>9. CASE LoopEnd
  BY <1>9 DEF LoopEnd
<1>10. CASE ExecuteBarrier
  BY <1>10 DEF ExecuteBarrier, Pool!Settle
<1>11. CASE ExecuteAssign
  BY <1>11 DEF ExecuteAssign, Pool!Assign, DriverInv, ClientKept
<1>12. CASE ExecuteLaunch
  BY <1>12 DEF ExecuteLaunch, Pool!Launch
<1>13. CASE AwaitBarrier
  BY <1>13 DEF AwaitBarrier, Awaits, Pool!Settle
<1>14. CASE LeaveBarrier
  BY <1>14 DEF LeaveBarrier, Pool!Release
<1>15. CASE FilledSearch
  BY <1>15 DEF FilledSearch
<1>16. CASE FilledCancelled
  BY <1>16 DEF FilledCancelled
<1>17. CASE Searched
  BY <1>17 DEF Searched, result_get
<1>18. CASE SolveReturn
  BY <1>0, <1>18 DEF SolveReturn
<1>19. CASE ResizeBarrier
  BY <1>19 DEF ResizeBarrier, Pool!Settle
<1>20. CASE Grow
  <2>1. Cardinality(members) \in Nat
    BY WorkersCount
  <2>2. Cardinality(members) \in Workers
    BY <1>20, <2>1, DriverAssumption DEF Grow, Workers
  <2>3. QED
    BY <1>20, <2>2 DEF Grow, Resizing, Pool!Add
<1>21. CASE Shrink
  BY <1>21 DEF Shrink, Resizing, Pool!Remove
<1>22. CASE Join
  BY <1>22 DEF Join, Resizing, Pool!Left
<1>23. CASE ResizeEnd
  BY <1>23 DEF ResizeEnd, Pool!Release
<1>24. QED
  BY <1>1, <1>2, <1>3, <1>4, <1>5, <1>6, <1>7, <1>8, <1>9, <1>10, <1>11, <1>12, <1>13,
     <1>14, <1>15, <1>16, <1>17, <1>18, <1>19, <1>20, <1>21, <1>22, <1>23
  DEF ClientCall, ClientStep

(***************************************************************************)
(* Every variable of the driver keeps its type: the counters of the fill   *)
(* their 64 bits, what the slab and the result hold their 32 and 48, and   *)
(* exactly the workers in the job are somewhere in its code.               *)
(***************************************************************************)
THEOREM TypesKept == Spec => []TypeOK
<1>1. Init => TypeOK
  <2>1. /\ 0 \in Half /\ 0 \in Lhs /\ 0 \in Rhs /\ NoPair \in Lhs \X Rhs
        /\ 0 \in 0 .. MaxThreads
    BY WordSizes, DriverAssumption DEF NoPair
  <2>2. QED
    BY <2>1 DEF Init, TypeOK, Pool!BatchInit, ClientState, WorkerState
<1>2. TypeOK /\ DriverInv /\ [Next]_vars => TypeOK'
  <2>1. CASE UNCHANGED vars
    BY <2>1 DEF vars, poolVars, sharedVars, configVars, clientVars, localVars, TypeOK
  <2>2. QED
    BY <2>1, WorkerTypes, ClientTypes DEF Next
<1>3. QED
  BY <1>1, <1>2, InitInv, NextInv, PTL DEF Spec

-----------------------------------------------------------------------------
(* A fill covers what it was asked for.                                    *)

\* The bucket of the k-th preimage holds a preimage of its own.
Good(b) == BucketOf(slab[b]) = b
Stored(k) == Good(BucketOf(k % 2 ^ LhsBits))

\* The k-th preimage is in the part of a claim that is still to be stored.
ToStore(k) == \E w \in running : cursor[w] <= k /\ k < end[w]

Wanted == Cardinality(members) * Share

\* A fill hands out the preimages from 0 on, without a gap, and each is stored
\* or still to be stored.  When it is over the search may rely on all of them.
FillKept ==
  /\ clientPc = "clearing" => current = 0 /\ task = "none"
  /\ InSolve /\ ~cancel /\ members # {} =>
       /\ clientPc = "looping" => current = 0 \/ result_l[2] # 0
       /\ task = "fill" /\ clientPc \in {"executing", "assigning", "launching"} => current = 0
       /\ task = "fill" /\ clientPc \in {"awaiting", "leaving", "filled"} =>
            /\ current = (Cardinality(members) - Cardinality(pending)) * Share
            /\ \A k \in 0 .. current - 1 : Stored(k) \/ ToStore(k)
       /\ task = "search" => \A k \in 0 .. Wanted - 1 : Stored(k)

\* A claim begins where the one before ended.
LEMMA ClaimsFollow ==
  ASSUME TypeOK, leaving = {}, members # {}, NEW w \in pending,
         current = (Cardinality(members) - Cardinality(pending)) * Share
  PROVE  /\ Wrap(current + Share) = current + Share
         /\ current + Share = (Cardinality(members) - Cardinality(pending \ {w})) * Share
         /\ current \in Nat /\ Share \in Nat
<1> DEFINE m == Cardinality(members)
           p == Cardinality(pending)
           t == m * Share
           u == (m - p) * Share
<1>1. m \in Nat /\ Share \in Nat /\ t <= 2 ^ LhsBits
  BY ShareIs DEF TypeOK
<1>2. /\ IsFiniteSet(pending) /\ p \in Nat /\ p <= m
      /\ Cardinality(pending \ {w}) = p - 1 /\ p # 0
  <2>1. IsFiniteSet(members) /\ IsFiniteSet(pending) /\ p \in Nat
    BY WorkersCount DEF TypeOK
  <2>2. p <= m
    BY <2>1, FS_Subset DEF TypeOK
  <2>3. Cardinality(pending \ {w}) = p - 1
    BY <2>1, FS_RemoveElement
  <2>4. p # 0
    BY <2>1, FS_EmptySet
  <2>5. QED
    BY <2>1, <2>2, <2>3, <2>4
<1>3. 2 ^ LhsBits \in Nat /\ 2 ^ HalfBits \in Nat /\ 2 ^ LhsBits < 2 ^ HalfBits
  BY WordSizes
<1> HIDE DEF m, p
<1>4. (m - (p - 1)) * Share = u + Share /\ u \in Nat /\ u + Share <= t /\ t \in Nat
  BY <1>1, <1>2
<1> HIDE DEF t, u
<1>5. u + Share \in Nat /\ u + Share < 2 ^ HalfBits
  BY <1>1, <1>3, <1>4
<1>6. current = u
  BY DEF m, p, u
<1>7. QED
  BY <1>1, <1>2, <1>4, <1>5, <1>6, WrapIs DEF m, p

\* What is stored stays stored.
LEMMA StoresKeep ==
  ASSUME TypeOK, slab \in [0 .. size - 1 -> Lhs], size \in Sizes, NEW lhs \in Lhs,
         slab' = [slab EXCEPT ![BucketOf(lhs)] = lhs], size' = size, nonce' = nonce
  PROVE  /\ \A b \in 0 .. size - 1 : Good(b) => Good(b)'
         /\ Good(BucketOf(lhs))'
<1>1. BucketOf(lhs) \in 0 .. size - 1
  BY BucketsExist DEF TypeOK
<1>2. \A x : BucketOf(x)' = BucketOf(x)
  BY DEF BucketOf
<1>3. QED
  BY <1>1, <1>2 DEF Good

\* A worker's step keeps it.
LEMMA WorkerFills ==
  ASSUME TypeOK, DriverInv, FillKept, NEW w \in Workers, WorkerStep(w)
  PROVE  FillKept'
<1>0. clientPc' = clientPc /\ clientPc # "clearing"
  BY DEF DriverInv, PoolKept, WorkersKept, WorkerStep, SkipJob, StartFill, FillTest, FillDone,
     FillWrite, StartSearch, SearchTest, SearchDone, ProbeMiss, ProbeHit, PublishLhs, PublishRhs,
     Leave, Goes, clientVars, Pool!Skip, Pool!Begin, WorkerState
<1> SUFFICES ASSUME InSolve', ~cancel', members' # {}
             PROVE  FillKept'
  BY <1>0 DEF FillKept
<1>1. /\ clientPc' = clientPc /\ task' = task /\ result_l' = result_l /\ cancel' = cancel
      /\ members' = members /\ leaving' = leaving /\ nonce' = nonce /\ size' = size
      /\ difficulty_m' = difficulty_m
  BY DEF WorkerStep, SkipJob, StartFill, FillTest, FillDone, FillWrite, StartSearch, SearchTest,
     SearchDone, ProbeMiss, ProbeHit, PublishLhs, PublishRhs, Leave, Goes, clientVars, poolVars,
     sharedVars, configVars, Pool!Skip, Pool!Begin, Pool!Finish
<1>2. /\ clientPc = "awaiting" /\ leaving = {} /\ members # {} /\ ~cancel /\ InSolve
      /\ job = task /\ task \in {"fill", "search"}
  BY <1>1 DEF DriverInv, ClientKept, PoolKept, WorkersKept, InSolve, WorkerStep, SkipJob, StartFill,
     FillTest, FillDone, FillWrite, StartSearch, SearchTest, SearchDone, ProbeMiss, ProbeHit,
     PublishLhs, PublishRhs, Goes, WorkerState, Leave, Pool!Skip, Pool!Begin
<1>3. size \in Sizes /\ slab \in [0 .. size - 1 -> Lhs]
  BY <1>2 DEF TypeOK, DriverInv, SettingsKept
<1>4. Cardinality(members)' = Cardinality(members) /\ Share' = Share /\ Wanted' = Wanted
      /\ \A lhs : BucketOf(lhs)' = BucketOf(lhs)
  BY <1>1 DEF Share, Wanted, BucketOf
<1>5. slab' = slab => \A k : Stored(k)' <=> Stored(k)
  BY <1>1, <1>4 DEF Stored, Good
<1>6. SUFFICES ASSUME TRUE
               PROVE  /\ task = "search" => \A k \in 0 .. Wanted - 1 : Stored(k)'
                      /\ task = "fill" =>
                           /\ current' = (Cardinality(members) - Cardinality(pending')) * Share
                           /\ \A k \in 0 .. current' - 1 : Stored(k)' \/ ToStore(k)'
  BY <1>1, <1>2, <1>4, <1>6 DEF FillKept
<1>7. CASE task = "search"
  <2>1. slab' = slab
    BY <1>2, <1>7 DEF DriverInv, WorkersKept, WorkerStep, SkipJob, StartFill, FillTest, FillDone,
       FillWrite, StartSearch, SearchTest, SearchDone, ProbeMiss, ProbeHit, PublishLhs, PublishRhs,
       Leave, Goes, configVars
  <2>2. QED
    BY <1>2, <1>5, <1>7, <2>1 DEF FillKept
<1>8. CASE task = "fill"
  <2>1. /\ current = (Cardinality(members) - Cardinality(pending)) * Share
        /\ \A k \in 0 .. current - 1 : Stored(k) \/ ToStore(k)
    BY <1>2, <1>8 DEF FillKept
  <2>2. CASE StartFill(w)
    <3>1. /\ pending' = pending \ {w} /\ running' = running \cup {w} /\ w \in pending
          /\ slab' = slab /\ w \notin running
          /\ cursor' = [cursor EXCEPT ![w] = current]
          /\ end' = [end EXCEPT ![w] = Wrap(current + Share)]
          /\ current' = Wrap(current + Share)
      BY <2>2 DEF StartFill, Pool!Begin, Goes, Claim, TypeOK, configVars
    <3>2. /\ current' = current + Share
          /\ current' = (Cardinality(members) - Cardinality(pending')) * Share
          /\ current \in Nat /\ Share \in Nat
      BY <1>2, <2>1, <3>1, ClaimsFollow
    <3>3. \A k : ToStore(k) => ToStore(k)'
      BY <3>1 DEF ToStore, TypeOK
    <3>4. \A k \in current .. current' - 1 : ToStore(k)'
      BY <3>1, <3>2 DEF ToStore, TypeOK
    <3>5. \A k \in 0 .. current' - 1 : k \in 0 .. current - 1 \/ k \in current .. current' - 1
      BY <3>2
    <3>6. QED
      BY <1>5, <1>8, <2>1, <3>1, <3>2, <3>3, <3>4, <3>5
  <2>3. CASE FillWrite(w)
    <3>0. PICK x \in Half : x = cursor[w]
      BY DEF TypeOK
    <3> DEFINE lhs == x % 2 ^ LhsBits
    <3>1. /\ pending' = pending /\ running' = running /\ w \in running /\ current' = current
          /\ slab' = [slab EXCEPT ![BucketOf(lhs)] = lhs]
          /\ cursor' = [cursor EXCEPT ![w] = Wrap(x + 1)] /\ end' = end
      BY <2>3, <3>0 DEF FillWrite, Goes, TypeOK, poolVars, sharedVars
    <3>2. x \in Nat /\ lhs \in Lhs /\ end[w] \in Half
      BY WrapIs DEF TypeOK, Half
    <3>3. Stored(x)'
      BY <1>1, <1>3, <1>4, <3>1, <3>2, StoresKeep DEF Stored, Good
    <3>4. ASSUME NEW k \in Nat, Stored(k) PROVE Stored(k)'
      <4>1. k % 2 ^ LhsBits \in Lhs
        BY WrapIs
      <4>2. BucketOf(k % 2 ^ LhsBits) \in 0 .. size - 1
        BY <1>3, <4>1, BucketsExist DEF TypeOK
      <4>3. QED
        BY <1>1, <1>3, <1>4, <3>1, <3>2, <3>4, <4>2, StoresKeep DEF Stored, Good
    <3>5. ASSUME NEW k \in Nat, ToStore(k) PROVE Stored(k)' \/ ToStore(k)'
      <4>1. PICK v \in running : cursor[v] <= k /\ k < end[v]
        BY <3>5 DEF ToStore
      <4>2. CASE v # w
        BY <3>1, <4>1, <4>2 DEF ToStore, TypeOK
      <4>3. CASE v = w /\ k = x
        BY <3>3, <4>3
      <4>4. CASE v = w /\ k # x
        <5>1. x + 1 <= k /\ k < end[w] /\ end[w] < 2 ^ HalfBits /\ end[w] \in Nat
              /\ 2 ^ HalfBits \in Nat
          BY <3>0, <3>2, <4>1, <4>4, WordSizes
        <5>2. Wrap(x + 1) = x + 1
          BY <3>2, <5>1, WrapIs
        <5>3. QED
          BY <3>1, <4>1, <4>4, <5>1, <5>2 DEF ToStore, TypeOK
      <4>5. QED
        BY <4>2, <4>3, <4>4
    <3>6. \A k \in 0 .. current - 1 : k \in Nat
      OBVIOUS
    <3>7. QED
      BY <1>8, <2>1, <3>1, <3>4, <3>5, <3>6
  <2>4. CASE FillDone(w)
    <3>1. /\ pending' = pending /\ running' = running \ {w} /\ slab' = slab /\ current' = current
          /\ ~(cursor[w] < end[w])
          /\ \A v \in Workers : v # w => cursor'[v] = cursor[v] /\ end'[v] = end[v]
      BY <1>2, <2>4 DEF FillDone, MoreToFill, Leave, Goes, Pool!Finish, TypeOK, sharedVars, configVars
    <3>2. ASSUME NEW k \in Nat, ToStore(k) PROVE ToStore(k)'
      <4>1. PICK v \in running : cursor[v] <= k /\ k < end[v]
        BY <3>2 DEF ToStore
      <4>2. v \in Workers /\ cursor[v] \in Nat /\ end[v] \in Nat
        BY <4>1 DEF TypeOK, Half
      <4>3. v # w
        BY <3>1, <4>1, <4>2
      <4>4. QED
        BY <3>1, <4>1, <4>2, <4>3 DEF ToStore
    <3>3. \A k \in 0 .. current - 1 : k \in Nat
      OBVIOUS
    <3>4. QED
      BY <1>5, <1>8, <2>1, <3>1, <3>2, <3>3
  <2>5. CASE FillTest(w)
    <3>1. UNCHANGED <<pending, running, slab, current, cursor, end>>
      BY <2>5 DEF FillTest, poolVars, sharedVars, configVars
    <3>2. \A k : ToStore(k)' <=> ToStore(k)
      BY <3>1 DEF ToStore
    <3>3. QED
      BY <1>5, <1>8, <2>1, <3>1, <3>2
  <2>6. ~(SkipJob(w) \/ StartSearch(w) \/ SearchTest(w) \/ SearchDone(w) \/ ProbeMiss(w)
            \/ ProbeHit(w) \/ PublishLhs(w) \/ PublishRhs(w))
    BY <1>2, <1>8 DEF DriverInv, WorkersKept, SkipJob, StartSearch, SearchTest, SearchDone, ProbeMiss,
       ProbeHit, PublishLhs, PublishRhs, Leave, Goes, Pool!Skip
  <2>7. QED
    BY <2>2, <2>3, <2>4, <2>5, <2>6 DEF WorkerStep
<1>9. QED
  BY <1>2, <1>7, <1>8

\* A step of the client keeps it, and so does cancel_current.
LEMMA ClientFills ==
  ASSUME TypeOK, DriverInv, FillKept, SearchYields, ClientCall \/ ClientStep \/ Cancel
  PROVE  FillKept'
<1> DEFINE Fields == <<members, leaving, nonce, difficulty_m, size, slab, current, pending, running,
                       cursor, end>>
<1>1. UNCHANGED Fields =>
        /\ Cardinality(members)' = Cardinality(members) /\ Share' = Share /\ Wanted' = Wanted
        /\ Cardinality(pending)' = Cardinality(pending)
        /\ \A k : (Stored(k)' <=> Stored(k)) /\ (ToStore(k)' <=> ToStore(k))
  BY DEF Share, Wanted, Stored, Good, BucketOf, ToStore
<1>2. /\ clientPc \notin {"awaiting", "resizing"} => pending = {} /\ running = {}
      /\ InSolve => leaving = {}
  BY DEF DriverInv, PoolKept, InSolve
<1>3. CASE \E n \in Nonces : Solve(n)
  BY <1>3 DEF FillKept, Solve, Moves, InSolve
<1>4. CASE ClearCancel
  <2>1. current' = 0 /\ clientPc' = "looping" /\ task' = "none"
    BY <1>4 DEF FillKept, ClearCancel, Alone, Moves
  <2>2. QED
    BY <2>1 DEF FillKept
<1>5. CASE LoopFill
  <2>1. clientPc' = "executing" /\ task' = "fill" /\ (members # {} => current' = 0)
        /\ members' = members
    BY <1>5 DEF LoopFill, Walks, Moves, FillKept, InSolve, sharedVars, poolVars, ClientState,
       DriverInv, ClientKept
  <2>2. QED
    BY <2>1 DEF FillKept
<1>6. CASE LoopEnd
  <2>1. clientPc = "looping" /\ clientPc' = "returning" /\ task' = task /\ cancel' = cancel
        /\ UNCHANGED Fields
    BY <1>6 DEF LoopEnd, Walks, Moves, poolVars, sharedVars, configVars, localVars
  <2>2. QED
    BY <1>1, <2>1 DEF FillKept, InSolve
<1>7. CASE ExecuteBarrier \/ ExecuteAssign \/ AwaitBarrier \/ LeaveBarrier
  <2>1. task' = task /\ cancel' = cancel /\ result_l' = result_l /\ UNCHANGED Fields
    BY <1>7 DEF ExecuteBarrier, ExecuteAssign, AwaitBarrier, LeaveBarrier, Awaits, Walks, Moves,
       Pool!Settle, Pool!Assign, Pool!Release, sharedVars, configVars, localVars
  <2>2. \/ clientPc = "executing" /\ clientPc' = "assigning"
        \/ clientPc = "assigning" /\ clientPc' = "launching"
        \/ clientPc = "awaiting" /\ clientPc' = "leaving"
        \/ clientPc = "leaving" /\ clientPc' \in {"filled", "searched", "idle"}
             /\ (clientPc' = "idle" => task = "resize")
    BY <1>7 DEF ExecuteBarrier, ExecuteAssign, AwaitBarrier, LeaveBarrier, Walks, Moves,
       DriverInv, ClientKept
  <2>3. QED
    BY <1>1, <2>1, <2>2 DEF FillKept, InSolve
<1>8. CASE ExecuteLaunch
  <2>1. /\ clientPc = "launching" /\ clientPc' = "awaiting" /\ task' = task /\ pending' = members
        /\ UNCHANGED <<cancel, members, leaving, nonce, difficulty_m, size, slab, current>>
    BY <1>8 DEF ExecuteLaunch, Walks, Moves, Pool!Launch, sharedVars, configVars
  <2>2. Share' = Share /\ Wanted' = Wanted /\ \A k : Stored(k)' <=> Stored(k)
    BY <2>1 DEF Share, Wanted, Stored, Good, BucketOf
  <2>3. ASSUME InSolve, ~cancel, members # {}, task = "fill"
        PROVE  /\ current' = (Cardinality(members)' - Cardinality(pending')) * Share'
               /\ 0 .. current' - 1 = {}
    <3>1. current' = 0
      BY <2>1, <2>3 DEF FillKept
    <3>2. Cardinality(members) \in Nat /\ Share \in Nat
      BY <2>3, ShareIs DEF TypeOK
    <3>3. (Cardinality(members) - Cardinality(members)) * Share = 0
      BY <3>2
    <3>4. QED
      BY <2>1, <2>2, <3>1, <3>3
  <2>4. QED
    BY <2>1, <2>2, <2>3 DEF FillKept, InSolve
<1>9. CASE FilledSearch
  <2>1. /\ clientPc = "filled" /\ clientPc' = "executing" /\ task = "fill" /\ task' = "search"
        /\ InSolve /\ ~cancel /\ UNCHANGED Fields
    BY <1>9 DEF FilledSearch, Walks, Moves, poolVars, sharedVars, configVars, localVars, DriverInv,
       ClientKept, InSolve
  <2>2. ASSUME members # {} PROVE \A k \in 0 .. Wanted - 1 : Stored(k)
    <3>1. Cardinality(pending) = 0 /\ \A k : ~ToStore(k)
      BY <1>2, <2>1, FS_EmptySet DEF ToStore
    <3>2. Cardinality(members) \in Nat /\ Share \in Nat
      BY <2>2, ShareIs DEF TypeOK
    <3>3. current = Wanted
      BY <2>1, <2>2, <3>1, <3>2 DEF FillKept, Wanted
    <3>4. QED
      BY <2>1, <2>2, <3>1, <3>3 DEF FillKept
  <2>3. QED
    BY <1>1, <2>1, <2>2 DEF FillKept
<1>10. CASE Searched
  <2>1. /\ clientPc = "searched" /\ clientPc' = "looping" /\ task' = task /\ task = "search"
        /\ cancel' = cancel /\ result_l' = <<result_0, result_1>> /\ UNCHANGED Fields
    BY <1>10 DEF Searched, Alone, Moves, result_get, poolVars, sharedVars, configVars, localVars,
       DriverInv, ClientKept
  <2>2. members # {} /\ ~cancel => result_l'[2] # 0
    BY <2>1 DEF SearchYields
  <2>3. QED
    BY <1>1, <2>1, <2>2 DEF FillKept, InSolve
<1>11. CASE Cancel \/ FilledCancelled
  <2>1. cancel' /\ (clientPc' = "clearing" => UNCHANGED <<clientPc, current, task>>)
    BY <1>11 DEF Cancel, FilledCancelled, Walks, Moves, clientVars, sharedVars
  <2>2. QED
    BY <2>1 DEF FillKept
<1>12. CASE \/ \E s \in Sizes : MemorySet(s)
            \/ MemoryReset
            \/ \E d \in Difficulties : DifficultySet(d)
            \/ \E n \in 0 .. MaxThreads : ThreadsSet(n)
            \/ SolveReturn \/ ResizeBarrier \/ Grow \/ Shrink \/ Join \/ ResizeEnd
  <2>1. clientPc' # "clearing" /\ ~InSolve'
    BY <1>12 DEF MemorySet, MemoryReset, DifficultySet, ThreadsSet, SolveReturn, ResizeBarrier, Grow,
       Shrink, Join, ResizeEnd, Between, Resizing, Alone, Walks, Moves, clientVars, InSolve,
       DriverInv, ClientKept
  <2>2. QED
    BY <2>1 DEF FillKept
<1>13. QED
  BY <1>3, <1>4, <1>5, <1>6, <1>7, <1>8, <1>9, <1>10, <1>11, <1>12 DEF ClientCall, ClientStep

LEMMA FillAlways == Spec => []FillKept
<1>1. Init => FillKept
  BY DEF Init, FillKept, InSolve
<1>2. TypeOK /\ DriverInv /\ SearchYields /\ FillKept /\ [Next]_vars => FillKept'
  <2>1. CASE UNCHANGED vars
    <3>1. UNCHANGED <<members, leaving, nonce, difficulty_m, size, slab, current, pending, running,
                      cursor, end, clientPc, task, cancel, result_l>>
      BY <2>1 DEF vars, poolVars, sharedVars, configVars, clientVars, localVars
    <3>2. QED
      BY <3>1 DEF FillKept, InSolve, Wanted, Share, Stored, Good, BucketOf, ToStore
  <2>2. QED
    BY <2>1, WorkerFills, ClientFills DEF Next
<1>3. QED
  BY <1>1, <1>2, InitInv, NextInv, TypesKept, SearchesYield, PTL DEF Spec

(***************************************************************************)
(* A fill fills: unless it was cancelled, when the search begins every     *)
(* bucket one of the preimages handed out hashes to holds a preimage of    *)
(* its own, of the current nonce, however the unsynchronised stores of the *)
(* workers followed each other.                                            *)
(***************************************************************************)
THEOREM FillsCover == Spec => []FillCovers
<1>1. FillKept => FillCovers
  BY DEF FillKept, FillCovers, Wanted, Stored, Good
<1>2. QED
  BY <1>1, FillAlways, PTL

-----------------------------------------------------------------------------
(* Every step advances.                                                    *)

\* A worker in the inner loop of fill_impl is below the end of its stretch.
StretchKept ==
  \A w \in Workers : workerPc[w] = "fillWrite" => cursor[w] < stepEnd[w]

\* The claims of a fill that is not cancelled are of 32 bits.
ClaimsFit ==
  ~cancel => \A w \in Workers : workerPc[w] \in {"fillTest", "fillWrite"} => end[w] <= 2 ^ LhsBits

\* A worker that is to begin the job is not inside it.
Apart == pending \cap running = {}

\* What is left of a loop shrinks when the loop advances, and is no more than
\* the way to its bound.
LEMMA RemainingShrinks ==
  ASSUME NEW at \in Nat, NEW bound \in Nat
  PROVE  /\ Remaining(at, bound) \in Nat
         /\ at < bound => Remaining(at + 1, bound) < Remaining(at, bound)
         /\ ~(at < bound) => Remaining(at, bound) = 0 /\ Remaining(at + 1, bound) = 0
         /\ \A n \in Nat : bound <= at + n => Remaining(at, bound) <= n
BY DEF Remaining

\* The next preimage of the inner loop: the counter does not wrap.
LEMMA FillFollows ==
  ASSUME TypeOK, StretchKept, NEW w \in Workers, FillWrite(w)
  PROVE  /\ cursor[w] \in Nat /\ end[w] \in Nat /\ stepEnd[w] \in Nat
         /\ cursor[w] < stepEnd[w]
         /\ cursor'[w] = cursor[w] + 1 /\ end' = end /\ stepEnd' = stepEnd
         /\ workerPc[w] = "fillWrite"
         /\ workerPc'[w] = IF cursor[w] + 1 < stepEnd[w] THEN "fillWrite" ELSE "fillTest"
<1>1. /\ workerPc[w] = "fillWrite" /\ end' = end /\ stepEnd' = stepEnd
      /\ cursor'[w] = Wrap(cursor[w] + 1)
      /\ workerPc'[w] = IF Wrap(cursor[w] + 1) < stepEnd[w] THEN "fillWrite" ELSE "fillTest"
  BY DEF FillWrite, Goes, InnerLoop, TypeOK
<1>2. /\ cursor[w] \in Nat /\ end[w] \in Nat /\ stepEnd[w] \in Nat
      /\ end[w] < 2 ^ HalfBits /\ stepEnd[w] < 2 ^ HalfBits
  BY WordSizes DEF TypeOK
<1>3. cursor[w] < stepEnd[w]
  BY <1>1 DEF StretchKept
<1>4. cursor[w] + 1 \in Nat /\ cursor[w] + 1 < 2 ^ HalfBits
  BY <1>2, <1>3, WordSizes
<1>5. Wrap(cursor[w] + 1) = cursor[w] + 1
  BY <1>4, WrapIs
<1>6. QED
  BY <1>1, <1>2, <1>3, <1>5

\* Where a step of a worker leaves the others.
LEMMA OthersStay ==
  ASSUME TypeOK, NEW w \in Workers, WorkerStep(w)
  PROVE  /\ \A v \in Workers \ {w} :
              /\ workerPc'[v] = workerPc[v] /\ cursor'[v] = cursor[v]
              /\ end'[v] = end[v] /\ stepEnd'[v] = stepEnd[v]
              /\ v \in pending' <=> v \in pending
         /\ UNCHANGED <<clientPc, task, target, members, leaving>>
<1> USE DEF TypeOK, Goes, Leave, poolVars, sharedVars, configVars, clientVars, localVars, workVars
<1>1. CASE SkipJob(w)
  BY <1>1 DEF SkipJob, Pool!Skip
<1>2. CASE StartFill(w)
  BY <1>2 DEF StartFill, Pool!Begin
<1>3. CASE FillTest(w)
  BY <1>3 DEF FillTest
<1>4. CASE FillDone(w)
  BY <1>4 DEF FillDone, Pool!Finish
<1>5. CASE FillWrite(w)
  BY <1>5 DEF FillWrite
<1>6. CASE StartSearch(w)
  BY <1>6 DEF StartSearch, Pool!Begin
<1>7. CASE SearchTest(w)
  BY <1>7 DEF SearchTest
<1>8. CASE SearchDone(w)
  BY <1>8 DEF SearchDone, Pool!Finish
<1>9. CASE ProbeMiss(w)
  BY <1>9 DEF ProbeMiss
<1>10. CASE ProbeHit(w)
  BY <1>10 DEF ProbeHit
<1>11. CASE PublishLhs(w)
  BY <1>11 DEF PublishLhs
<1>12. CASE PublishRhs(w)
  BY <1>12 DEF PublishRhs
<1>13. QED
  BY <1>1, <1>2, <1>3, <1>4, <1>5, <1>6, <1>7, <1>8, <1>9, <1>10, <1>11, <1>12
  DEF WorkerStep

\* The bounds of the inner loop are kept.
LEMMA StretchStays == TypeOK /\ StretchKept /\ [Next]_vars => StretchKept'
<1> SUFFICES ASSUME TypeOK, StretchKept, [Next]_vars PROVE StretchKept'
  OBVIOUS
<1>1. CASE UNCHANGED <<workerPc, cursor, end, stepEnd>>
  BY <1>1 DEF StretchKept
<1>2. ASSUME NEW w \in Workers, WorkerStep(w) PROVE StretchKept'
  <2>1. \A v \in Workers \ {w} : workerPc'[v] = "fillWrite"
          => cursor'[v] < stepEnd'[v]
    BY <1>2, OthersStay DEF StretchKept
  <2>2. workerPc'[w] = "fillWrite" => cursor'[w] < stepEnd'[w]
    <3>1. CASE FillWrite(w)
      BY <3>1, FillFollows
    <3>2. CASE FillTest(w)
      BY <3>2 DEF FillTest, Goes, InnerLoop, TypeOK
    <3>3. CASE SkipJob(w)
      BY <3>3 DEF SkipJob, StretchKept, localVars
    <3>4. CASE ~FillWrite(w) /\ ~FillTest(w) /\ ~SkipJob(w)
      <4>1. \E from, to : Goes(w, from, to) /\ to # "fillWrite"
        BY <1>2, <3>4 DEF WorkerStep, StartFill, FillDone, StartSearch, SearchTest, SearchDone,
           ProbeMiss, ProbeHit, PublishLhs, PublishRhs, Leave
      <4>2. QED
        BY <4>1 DEF Goes, TypeOK
    <3>5. QED
      BY <3>1, <3>2, <3>3, <3>4
  <2>3. QED
    BY <2>1, <2>2 DEF StretchKept
<1>3. CASE ClientCall \/ ClientStep \/ Cancel
  <2>1. UNCHANGED localVars
    BY <1>3 DEF ClientCall, ClientStep, Cancel, Solve, MemorySet, MemoryReset, DifficultySet,
       ThreadsSet, ClearCancel, LoopFill, LoopEnd, ExecuteBarrier, ExecuteAssign, ExecuteLaunch,
       AwaitBarrier, LeaveBarrier, FilledSearch, FilledCancelled, Searched, SolveReturn,
       ResizeBarrier, Grow, Shrink, Join, ResizeEnd, Resizing, Between, Walks, Alone, Moves
  <2>2. QED
    BY <1>1, <2>1 DEF localVars
<1>4. QED
  BY <1>1, <1>2, <1>3 DEF Next, vars, localVars

\* No worker is told to begin a job it is inside.
LEMMA ApartStays == TypeOK /\ DriverInv /\ Apart /\ [Next]_vars => Apart'
<1> SUFFICES ASSUME TypeOK, DriverInv, Apart, [Next]_vars PROVE Apart'
  OBVIOUS
<1> USE DEF Apart
<1>1. CASE UNCHANGED <<pending, running>>
  BY <1>1
<1>2. CASE \E w \in Workers : Pool!Begin(w) \/ Pool!Skip(w) \/ Pool!Finish(w)
  BY <1>2 DEF Pool!Begin, Pool!Skip, Pool!Finish
<1>3. CASE ExecuteLaunch
  BY <1>3 DEF ExecuteLaunch, Pool!Launch, Walks, Moves, DriverInv, PoolKept
<1>4. CASE Shrink
  BY <1>4 DEF Shrink, Pool!Remove
<1>5. ASSUME NEW w \in Workers, WorkerStep(w)
      PROVE  Pool!Begin(w) \/ Pool!Skip(w) \/ Pool!Finish(w) \/ UNCHANGED <<pending, running>>
  BY <1>5 DEF WorkerStep, SkipJob, StartFill, FillTest, FillDone, FillWrite, StartSearch, SearchTest,
     SearchDone, ProbeMiss, ProbeHit, PublishLhs, PublishRhs, Leave, poolVars
<1>6. CASE (ClientCall \/ ClientStep \/ Cancel) /\ ~ExecuteLaunch /\ ~Shrink
  BY <1>1, <1>6 DEF ClientCall, ClientStep, Cancel, Solve, MemorySet, MemoryReset, DifficultySet,
     ThreadsSet, ClearCancel, LoopFill, LoopEnd, ExecuteBarrier, ExecuteAssign,
     AwaitBarrier, LeaveBarrier, FilledSearch, FilledCancelled, Searched, SolveReturn,
     ResizeBarrier, Grow, Join, ResizeEnd, Resizing, Between, Walks, Alone, Moves, Awaits,
     Pool!Settle, Pool!Assign, Pool!Release, Pool!Add, Pool!Left, poolVars
<1>7. CASE UNCHANGED vars
  BY <1>7 DEF vars, poolVars
<1>8. QED
  BY <1>1, <1>2, <1>3, <1>4, <1>5, <1>6, <1>7 DEF Next

\* The claims of a fill go no further than its preimages.
LEMMA ClaimsStay == TypeOK /\ DriverInv /\ FillKept /\ ClaimsFit /\ [Next]_vars => ClaimsFit'
<1> SUFFICES ASSUME TypeOK, DriverInv, FillKept, ClaimsFit, [Next]_vars, ~cancel'
             PROVE  \A w \in Workers :
                      workerPc'[w] \in {"fillTest", "fillWrite"} => end'[w] <= 2 ^ LhsBits
  BY DEF ClaimsFit
<1>1. CASE UNCHANGED <<cancel, workerPc, end>>
  BY <1>1 DEF ClaimsFit
<1>2. ASSUME NEW w \in Workers, StartFill(w)
      PROVE  \A v \in Workers :
               workerPc'[v] \in {"fillTest", "fillWrite"} => end'[v] <= 2 ^ LhsBits
  <2>1. /\ w \in pending /\ job = "fill" /\ cancel' = cancel
        /\ workerPc' = [workerPc EXCEPT ![w] = "fillTest"]
        /\ end' = [end EXCEPT ![w] = Wrap(current + Share)]
    BY <1>2 DEF StartFill, Pool!Begin, Goes, Claim
  <2>2. /\ clientPc = "awaiting" /\ task = "fill" /\ InSolve /\ leaving = {} /\ members # {}
        /\ current = (Cardinality(members) - Cardinality(pending)) * Share
    BY <2>1 DEF DriverInv, ClientKept, PoolKept, JobIsOver, FillKept, InSolve, ClientState
  <2>3. /\ Wrap(current + Share) = current + Share
        /\ current + Share = (Cardinality(members) - Cardinality(pending \ {w})) * Share
        /\ Share \in Nat
    BY <2>1, <2>2, ClaimsFollow
  <2> DEFINE m == Cardinality(members)
             p == Cardinality(pending \ {w})
             t == m * Share
             u == (m - p) * Share
  <2>4. m \in Nat /\ p \in Nat /\ p <= m
    <3>1. IsFiniteSet(members) /\ IsFiniteSet(pending) /\ m \in Nat /\ pending \ {w} \subseteq members
      BY WorkersCount DEF TypeOK
    <3>2. QED
      BY <3>1, FS_Subset, FS_CardinalityType
  <2>5. t <= 2 ^ LhsBits
    BY <2>2, ShareIs DEF TypeOK
  <2>6. t \in Nat /\ u \in Nat /\ u <= t /\ 2 ^ LhsBits \in Nat
    <3> HIDE DEF m, p
    <3>1. t \in Nat /\ u \in Nat /\ u <= t
      BY <2>3, <2>4
    <3>2. QED
      BY <3>1, WordSizes
  <2>7. Wrap(current + Share) <= 2 ^ LhsBits
    <3>1. Wrap(current + Share) = u
      BY <2>3
    <3> HIDE DEF t, u
    <3>2. QED
      BY <2>5, <2>6, <3>1
  <2>8. QED
    BY <2>1, <2>7 DEF ClaimsFit, TypeOK
<1>3. ASSUME NEW w \in Workers, WorkerStep(w), ~StartFill(w)
      PROVE  \A v \in Workers :
               workerPc'[v] \in {"fillTest", "fillWrite"} => end'[v] <= 2 ^ LhsBits
  <2>1. cancel' = cancel /\ (UNCHANGED <<workerPc, end>> \/ \E from, to : Goes(w, from, to))
    BY <1>3 DEF WorkerStep, SkipJob, FillTest, FillDone, FillWrite, StartSearch, SearchTest,
       SearchDone, ProbeMiss, ProbeHit, PublishLhs, PublishRhs, Leave, sharedVars, localVars
  <2>2. workerPc'[w] \in {"fillTest", "fillWrite"} =>
          /\ workerPc[w] \in {"fillTest", "fillWrite"} /\ end' = end
    BY <1>3 DEF WorkerStep, SkipJob, FillTest, FillDone, FillWrite, StartSearch, SearchTest,
       SearchDone, ProbeMiss, ProbeHit, PublishLhs, PublishRhs, Leave, Goes, workVars, localVars,
       TypeOK
  <2>3. \A v \in Workers \ {w} : workerPc'[v] = workerPc[v] /\ end'[v] = end[v]
    BY <1>3, OthersStay
  <2>4. QED
    BY <2>1, <2>2, <2>3 DEF ClaimsFit
<1>4. CASE ClearCancel
  <2>1. running = {} /\ workerPc' = workerPc
    BY <1>4 DEF ClearCancel, Alone, Moves, DriverInv, PoolKept, localVars
  <2>2. \A w \in Workers : workerPc'[w] = "off"
    BY <2>1 DEF TypeOK
  <2>3. QED
    BY <2>2
<1>5. CASE (ClientCall \/ ClientStep \/ Cancel) /\ ~ClearCancel
  <2>1. UNCHANGED localVars /\ (cancel' = cancel \/ cancel')
    BY <1>5 DEF ClientCall, ClientStep, Cancel, Solve, MemorySet, MemoryReset, DifficultySet,
       ThreadsSet, LoopFill, LoopEnd, ExecuteBarrier, ExecuteAssign, ExecuteLaunch,
       AwaitBarrier, LeaveBarrier, FilledSearch, FilledCancelled, Searched, SolveReturn,
       ResizeBarrier, Grow, Shrink, Join, ResizeEnd, Resizing, Between, Walks, Alone, Moves,
       sharedVars
  <2>2. QED
    BY <1>1, <2>1 DEF localVars
<1>6. QED
  BY <1>1, <1>2, <1>3, <1>4, <1>5 DEF Next, vars, localVars, sharedVars

\* A step of a worker that is in the job, but for more probes: its stages, or in
\* a fill its preimages, become fewer.
LEMMA JobAdvances ==
  ASSUME TypeOK, DriverInv, StretchKept, ClaimsFit, Apart,
         NEW w \in Workers, WorkerStep(w), ~SearchTest(w)
  PROVE  \/ StagesLeft(w)' < StagesLeft(w)
         \/ /\ StagesLeft(w)' = StagesLeft(w)
            /\ \/ ClaimLeft(w)' < ClaimLeft(w)
               \/ ClaimLeft(w)' = ClaimLeft(w) /\ StretchLeft(w)' < StretchLeft(w)
<1>1. CASE SkipJob(w) \/ StartFill(w) \/ StartSearch(w)
  <2>1. w \in pending /\ w \notin pending'
    BY <1>1 DEF SkipJob, StartFill, StartSearch, Pool!Skip, Pool!Begin
  <2>2. QED
    BY <2>1 DEF StagesLeft
<1>2. CASE FillTest(w)
  <2>1. /\ workerPc[w] = "fillTest" /\ cursor[w] < end[w] /\ ~cancel
        /\ stepEnd'[w] = Wrap(cursor[w] + Stepping) /\ UNCHANGED <<pending, cursor, end>>
        /\ workerPc'[w] = IF cursor[w] < stepEnd'[w] THEN "fillWrite" ELSE "fillTest"
    BY <1>2 DEF FillTest, MoreToFill, Goes, InnerLoop, TypeOK, poolVars
  <2>2. /\ cursor[w] \in Nat /\ end[w] \in Nat /\ end[w] <= 2 ^ LhsBits
        /\ Stepping \in Nat \ {0} /\ 2 ^ LhsBits + Stepping <= 2 ^ HalfBits
        /\ 2 ^ LhsBits \in Nat /\ 2 ^ HalfBits \in Nat
    BY <2>1, DriverAssumption, WordSizes DEF TypeOK, ClaimsFit
  <2>3. cursor[w] + Stepping \in Nat /\ cursor[w] + Stepping < 2 ^ HalfBits
    BY <2>1, <2>2
  <2>4. stepEnd'[w] = cursor[w] + Stepping
    BY <2>1, <2>3, WrapIs
  <2>5. workerPc'[w] = "fillWrite" /\ Remaining(cursor[w], stepEnd'[w]) = Stepping
    BY <2>1, <2>2, <2>4 DEF Remaining
  <2>6. StagesLeft(w)' = StagesLeft(w) /\ ClaimLeft(w)' = ClaimLeft(w)
    BY <2>1, <2>5 DEF StagesLeft, ClaimLeft
  <2>7. StretchLeft(w) = Stepping + 2 /\ StretchLeft(w)' = 1 + Remaining(cursor[w], stepEnd'[w])
    BY <2>1, <2>5 DEF StretchLeft
  <2>8. StretchLeft(w)' < StretchLeft(w)
    BY <2>2, <2>5, <2>7
  <2>9. QED
    BY <2>6, <2>8
<1>3. CASE FillWrite(w)
  <2>1. /\ cursor[w] \in Nat /\ end[w] \in Nat /\ stepEnd[w] \in Nat
        /\ cursor[w] < stepEnd[w]
        /\ cursor'[w] = cursor[w] + 1 /\ end'[w] = end[w] /\ stepEnd'[w] = stepEnd[w]
        /\ workerPc[w] = "fillWrite"
        /\ workerPc'[w] = IF cursor[w] + 1 < stepEnd[w] THEN "fillWrite" ELSE "fillTest"
    BY <1>3, FillFollows
  <2>2. pending' = pending
    BY <1>3 DEF FillWrite, poolVars
  <2>3. StagesLeft(w)' = StagesLeft(w)
    BY <2>1, <2>2 DEF StagesLeft
  <2>4. CASE cursor[w] < end[w]
    <3>1. Remaining(cursor[w] + 1, end[w]) < Remaining(cursor[w], end[w])
      BY <2>1, <2>4, RemainingShrinks
    <3>2. QED
      BY <2>1, <2>3, <3>1 DEF ClaimLeft
  <2>5. CASE ~(cursor[w] < end[w])
    <3>1. Remaining(cursor[w] + 1, end[w]) = 0 /\ Remaining(cursor[w], end[w]) = 0
      BY <2>1, <2>5, RemainingShrinks
    <3>2. /\ Remaining(cursor[w], stepEnd[w]) \in Nat
          /\ Remaining(cursor[w] + 1, stepEnd[w]) < Remaining(cursor[w], stepEnd[w])
      BY <2>1, <2>5, RemainingShrinks
    <3>3. Remaining(cursor[w] + 1, stepEnd[w]) \in Nat
      <4>1. cursor[w] + 1 \in Nat /\ stepEnd[w] \in Nat
        BY <2>1
      <4>2. QED
        BY <4>1, RemainingShrinks
    <3>4. StretchLeft(w) = 1 + Remaining(cursor[w], stepEnd[w])
      BY <2>1 DEF StretchLeft
    <3>5. StretchLeft(w)' \in {0, 1 + Remaining(cursor[w] + 1, stepEnd[w])}
      BY <2>1, <2>5 DEF StretchLeft
    <3>6. StretchLeft(w)' < StretchLeft(w)
      BY <3>2, <3>3, <3>4, <3>5
    <3>7. QED
      BY <2>1, <2>3, <3>1, <3>6 DEF ClaimLeft
  <2>6. QED
    BY <2>4, <2>5
<1>4. CASE FillDone(w) \/ SearchDone(w) \/ ProbeMiss(w) \/ ProbeHit(w) \/ PublishLhs(w) \/ PublishRhs(w)
  <2>1. /\ pending' = pending
        /\ \/ workerPc[w] \in {"fillTest", "searchTest"} /\ workerPc'[w] = "off"
           \/ workerPc[w] = "probe" /\ workerPc'[w] \in {"searchTest", "publish0"}
           \/ workerPc[w] = "publish0" /\ workerPc'[w] = "publish1"
           \/ workerPc[w] = "publish1" /\ workerPc'[w] = "searchTest"
    BY <1>4 DEF FillDone, SearchDone, ProbeMiss, ProbeHit, PublishLhs, PublishRhs, Leave, Goes,
       Pool!Finish, TypeOK, poolVars
  <2>2. w \notin pending
    BY <2>1 DEF Apart, DriverInv, WorkersKept
  <2>3. QED
    BY <2>1, <2>2 DEF StagesLeft
<1>5. QED
  BY <1>1, <1>2, <1>3, <1>4 DEF WorkerStep

\* How far the pool is from its new size is a number; a thread that is added,
\* told to leave or joined takes it nearer.
LEMMA ResizeAdvances ==
  ASSUME TypeOK, DriverInv, Grow \/ Shrink \/ Join
  PROVE  ClientAdvances
<1> DEFINE m == Cardinality(members)
           l == Cardinality(leaving)
           w == m - 1
<1>1. /\ m \in Nat /\ l \in Nat /\ target \in Nat
      /\ IsFiniteSet(members) /\ IsFiniteSet(leaving)
  BY WorkersCount, DriverAssumption DEF TypeOK
<1>2. clientPc = "resizing" /\ clientPc' = "resizing" /\ target' = target
  BY DEF Grow, Shrink, Join, Resizing, clientVars
<1>3. /\ StepsLeft = 3 + 2 * Distance + l
      /\ StepsLeft' = 3 + 2 * Distance' + Cardinality(leaving')
  BY <1>2 DEF StepsLeft
<1>4. CASE Grow
  <2>1. m < target /\ m \notin members /\ members' = members \cup {m} /\ leaving' = leaving
    BY <1>4 DEF Grow, Pool!Add
  <2>2. Cardinality(members') = m + 1
    BY <1>1, <2>1, FS_AddElement
  <2>3. Distance = target - m /\ Distance' = target - (m + 1)
    BY <1>1, <1>2, <2>1, <2>2 DEF Distance
  <2>4. QED
    BY <1>1, <1>3, <2>1, <2>3 DEF ClientAdvances
<1>5. CASE Shrink
  <2>1. m > target /\ w \in members /\ members' = members \ {w} /\ leaving = {} /\ leaving' = {w}
    BY <1>5 DEF Shrink, TooManyWorkers, Pool!Remove
  <2>2. Cardinality(members') = m - 1 /\ l = 0 /\ Cardinality(leaving') = 1
    BY <1>1, <2>1, FS_RemoveElement, FS_EmptySet, FS_Singleton
  <2>3. Distance = m - target /\ Distance' = (m - 1) - target
    BY <1>1, <1>2, <2>1, <2>2 DEF Distance
  <2>4. QED
    BY <1>1, <1>3, <2>2, <2>3 DEF ClientAdvances
<1>6. CASE Join
  <2>1. PICK v \in leaving : leaving' = leaving \ {v} /\ members' = members
    BY <1>6 DEF Join, Pool!Left
  <2>2. Cardinality(leaving') = l - 1
    BY <1>1, <2>1, FS_RemoveElement
  <2>3. Distance' = Distance /\ Distance \in Nat
    BY <1>1, <1>2, <2>1 DEF Distance
  <2>4. QED
    BY <1>1, <1>3, <2>2, <2>3 DEF ClientAdvances
<1>7. QED
  BY <1>4, <1>5, <1>6

\* A step of the client brings it nearer to the end of the round.
LEMMA ClientDoesAdvance ==
  ASSUME TypeOK, DriverInv, ClientStep, ~LoopFill
  PROVE  ClientAdvances
<1> USE DEF StepsLeft, AfterJob, ClientAdvances, Moves, Walks, Alone
<1>1. CASE ClearCancel \/ LoopEnd \/ FilledSearch \/ FilledCancelled \/ Searched \/ SolveReturn
  BY <1>1 DEF ClearCancel, LoopEnd, FilledSearch, FilledCancelled, Searched, SolveReturn
<1>2. CASE ExecuteBarrier \/ ExecuteAssign \/ ExecuteLaunch \/ AwaitBarrier
  BY <1>2 DEF ExecuteBarrier, ExecuteAssign, ExecuteLaunch, AwaitBarrier
<1>3. CASE LeaveBarrier
  BY <1>3 DEF LeaveBarrier, DriverInv, ClientKept
<1>4. CASE Grow \/ Shrink \/ Join
  BY <1>4, ResizeAdvances
<1>5. CASE ResizeBarrier \/ ResizeEnd
  <2>1. Cardinality(members) \in Nat /\ Cardinality(leaving) \in Nat /\ target \in Nat
    BY WorkersCount, DriverAssumption DEF TypeOK
  <2>2. Distance \in Nat
    BY <2>1 DEF Distance
  <2>3. CASE ResizeBarrier
    <3>1. Distance' = Distance /\ leaving' = leaving
      BY <2>3 DEF ResizeBarrier, Pool!Settle, Distance
    <3>2. clientPc = "entering" /\ clientPc' = "resizing"
      BY <2>3 DEF ResizeBarrier
    <3>3. QED
      BY <2>1, <2>2, <3>1, <3>2
  <2>4. CASE ResizeEnd
    <3>1. clientPc = "resizing" /\ clientPc' = "awaiting" /\ task = "resize" /\ task' = "resize"
      BY <2>4 DEF ResizeEnd, DriverInv, ClientKept
    <3>2. QED
      BY <2>1, <2>2, <3>1
  <2>5. QED
    BY <1>5, <2>3, <2>4
<1>6. QED
  BY <1>1, <1>2, <1>3, <1>4, <1>5 DEF ClientStep

\* A step of a worker moves neither the client nor another worker.
LEMMA OthersStayPut ==
  ASSUME TypeOK, NEW w \in Workers, WorkerStep(w)
  PROVE  StepsLeft' = StepsLeft /\ \A v \in Workers \ {w} : WorkerStays(v)
<1>1. StepsLeft' = StepsLeft
  BY OthersStay DEF StepsLeft, AfterJob, Distance
<1>2. ASSUME NEW v \in Workers \ {w} PROVE WorkerStays(v)
  <2>1. /\ workerPc'[v] = workerPc[v] /\ cursor'[v] = cursor[v] /\ end'[v] = end[v]
        /\ stepEnd'[v] = stepEnd[v] /\ (v \in pending' <=> v \in pending)
    BY OthersStay
  <2>2. QED
    BY <2>1 DEF WorkerStays, StagesLeft, ClaimLeft, StretchLeft, Remaining
<1>3. QED
  BY <1>1, <1>2

\* cancel_current moves nobody.
LEMMA CancelAdvances == Cancel => FlagAdvances
BY DEF Cancel, FlagAdvances, StepsLeft, AfterJob, Distance, WorkerStays, StagesLeft, ClaimLeft,
   StretchLeft, Remaining, poolVars, clientVars, localVars

(***************************************************************************)
(* Nothing goes round in circles: but for a call, another round of         *)
(* driver::solve and more probes in a search, every step brings the client *)
(* nearer to the end of its round or a worker nearer to the end of its     *)
(* job, and no other away from it, or sets the flag.                       *)
(***************************************************************************)
THEOREM RoundsDoAdvance == Spec => RoundsAdvance
<1> DEFINE Advances == \/ ClientAdvances \/ FlagAdvances
                       \/ \E w \in Workers : WorkerAdvances(w) \/ SearchTest(w)
                       \/ LoopFill \/ ClientCall
<1>1. Init => Apart /\ StretchKept /\ ClaimsFit
  BY DEF Init, Pool!BatchInit, Apart, StretchKept, ClaimsFit
<1>2. /\ TypeOK /\ DriverInv /\ FillKept /\ Apart /\ StretchKept /\ ClaimsFit /\ [Next]_vars
      => Apart' /\ StretchKept' /\ ClaimsFit'
  BY ApartStays, StretchStays, ClaimsStay
<1>3. TypeOK /\ DriverInv /\ Apart /\ StretchKept /\ ClaimsFit /\ [Next]_vars => [Advances]_vars
  <2> SUFFICES ASSUME TypeOK, DriverInv, Apart, StretchKept, ClaimsFit, Next PROVE Advances
    OBVIOUS
  <2>1. CASE ClientCall \/ ClientStep \/ Cancel
    BY <2>1, ClientDoesAdvance, CancelAdvances
  <2>2. ASSUME NEW w \in Workers, WorkerStep(w) PROVE WorkerAdvances(w) \/ SearchTest(w)
    BY <2>2, OthersStayPut, JobAdvances DEF WorkerAdvances
  <2>3. QED
    BY <2>1, <2>2 DEF Next
<1>4. QED
  BY <1>1, <1>2, <1>3, FillAlways, InitInv, NextInv, TypesKept, PTL DEF Spec, RoundsAdvance
=============================================================================
