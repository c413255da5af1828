------------------------------ MODULE ThreadPool ------------------------------
(***************************************************************************)
(* nano_pow::thread_pool (src/src/cpp_driver.cpp, lines 505 to 574): the   *)
(* pool of worker threads that cpp_driver fills and searches with.         *)
(*                                                                         *)
(* One client thread calls barrier, resize, execute and stop; worker i     *)
(* runs loop(i).  Every stretch of code that holds the mutex without       *)
(* sleeping is one step, except resize, whose lock is held across several  *)
(* steps (clientPc = "resizing") and excludes the workers meanwhile.       *)
(* execute writes operation and ready WITHOUT the mutex, so its three      *)
(* statements are three steps that the workers may interleave with.        *)
(***************************************************************************)
EXTENDS Integers, FiniteSets

CONSTANTS MaxThreads,   \* bound on the argument of resize
          Operations,   \* the std::function values a client passes to execute
          NoOperation   \* the empty std::function

ASSUME ConstantsAssumption ==
  /\ MaxThreads \in Nat
  /\ NoOperation \notin Operations

Workers == 0 .. MaxThreads - 1

VARIABLES
  size,       \* threads.size ()
  null,       \* the ids whose slot of threads holds nullptr
  ready,      \* size_t ready
  operation,  \* the std::function member
  workerPc,   \* where each worker is in loop
  clientPc,   \* where the client is
  next,       \* where the barrier the client is in returns to
  target,     \* the argument of the resize in progress
  argument,   \* the argument of the execute in progress
  call,       \* the public method in progress
  fresh,      \* history: no resize since the last execute
  calls       \* history: calls of operation by each worker since that execute

poolVars   == <<size, null, ready, operation>>
clientVars == <<clientPc, next, target, argument, call>>
history    == <<fresh, calls>>
vars       == <<poolVars, workerPc, clientVars, history>>

WorkerState ==
  { "none",      \* no such thread
    "entering",  \* about to take the mutex and test the while condition
    "waiting",   \* asleep in start.wait
    "woken",     \* notified, about to reacquire the mutex in start.wait
    "running",   \* inside operation, mutex released
    "exited" }   \* returned from loop, joinable

ClientState ==
  { "idle",       \* outside the pool
    "barrier",    \* about to test the predicate of barrier
    "asleep",     \* in finish.wait
    "storing", "resetting", "notifying",   \* the three statements of execute
    "resizing",   \* in resize, holding the mutex
    "joining",    \* in thread->join, mutex released
    "stopping",   \* between the barrier of stop and its resize (0)
    "returning" } \* about to return; where stop evaluates its assertions

Continuation == {"storing", "resizing", "stopping", "returning"}
Method == {"none", "barrier", "execute", "resize", "stop"}

\* A history counter saturates: 2 stands for "more than once".
CallsBound == 2

TypeOK ==
  /\ size \in 0 .. MaxThreads
  /\ null \subseteq Workers
  /\ ready \in Nat
  /\ operation \in Operations \cup {NoOperation}
  /\ workerPc \in [Workers -> WorkerState]
  /\ clientPc \in ClientState
  /\ next \in Continuation
  /\ target \in 0 .. MaxThreads
  /\ argument \in Operations \cup {NoOperation}
  /\ call \in Method
  /\ fresh \in BOOLEAN
  /\ calls \in [Workers -> 0 .. CallsBound]

\* A pool just constructed: no thread, no operation.
Init ==
  /\ size = 0
  /\ null = {}
  /\ ready = 0
  /\ operation = NoOperation
  /\ workerPc = [w \in Workers |-> "none"]
  /\ clientPc = "idle"
  /\ next = "returning"
  /\ target = 0
  /\ argument = NoOperation
  /\ call = "none"
  /\ fresh = FALSE
  /\ calls = [w \in Workers |-> 0]

-----------------------------------------------------------------------------
(* Condition variables.                                                    *)

\* start.notify_all (): every worker asleep in start.wait is woken.
StartNotifyAll(pc) ==
  [w \in Workers |-> IF pc[w] = "waiting" THEN "woken" ELSE pc[w]]

\* finish.notify_all (): the client, if asleep in finish.wait, tests again.
FinishNotifyNot == UNCHANGED clientPc
FinishNotifyAll == clientPc' = IF clientPc = "asleep" THEN "barrier" ELSE clientPc

MutexFree == clientPc # "resizing"

-----------------------------------------------------------------------------
(* Tests and assignments of the steps, some preceded by a mutation.        *)

\* The predicate barrier waits for.
AnyReady == ready > 0 \/ size = 0
AllReady == ready = size

\* ready = 0;
RestartNot == UNCHANGED ready
Restart    == ready' = 0

\* The conditions of the two loops of resize.
MoreToAdd    == size < target
MoreToRetire == size > target

\* The number a new thread captures, while the vector still has the old size.
NewSlotAfterPush == size + 1
NewSlot          == size

\* thread->join () returns.
Joined       == workerPc[size - 1] = "exited"

\* Where a worker goes after operation: back to the while condition.
AfterOperationAgain == "woken"
AfterOperation      == "entering"

-----------------------------------------------------------------------------
(* The workers.                                                            *)

\* The while condition and the top of the loop body, down to start.wait.
LoopTop(w) ==
  \/ /\ w \notin null
     /\ ready' = ready + 1
     /\ FinishNotifyAll
     /\ workerPc' = [workerPc EXCEPT ![w] = "waiting"]
  \/ /\ w \in null
     /\ workerPc' = [workerPc EXCEPT ![w] = "exited"]
     /\ UNCHANGED <<ready, clientPc>>

\* A new thread, or one back from operation, takes the mutex.
EnterLoop(w) ==
  /\ workerPc[w] = "entering"
  /\ MutexFree
  /\ LoopTop(w)
  /\ UNCHANGED <<size, null, operation, next, target, argument, call, history>>

\* start.wait returns, and there is an operation for this worker to run.
WakeToRun(w) ==
  /\ workerPc[w] = "woken"
  /\ MutexFree
  /\ operation # NoOperation
  /\ w \notin null
  /\ workerPc' = [workerPc EXCEPT ![w] = "running"]
  /\ calls' = [calls EXCEPT ![w] = IF fresh /\ @ < CallsBound THEN @ + 1 ELSE @]
  /\ UNCHANGED <<poolVars, clientVars, fresh>>

\* start.wait returns with nothing to run: back to the while condition.
WakeToLoop(w) ==
  /\ workerPc[w] = "woken"
  /\ MutexFree
  /\ operation = NoOperation \/ w \in null
  /\ LoopTop(w)
  /\ UNCHANGED <<size, null, operation, next, target, argument, call, history>>

\* operation (thread_id, threads_size) returns.
FinishOperation(w) ==
  /\ workerPc[w] = "running"
  /\ workerPc' = [workerPc EXCEPT ![w] = AfterOperation]
  /\ UNCHANGED <<poolVars, clientVars, history>>

WorkerStep(w) ==
  EnterLoop(w) \/ WakeToRun(w) \/ WakeToLoop(w) \/ FinishOperation(w)

-----------------------------------------------------------------------------
(* The client.                                                             *)

\* Entering a method: all four begin with barrier ().
Begin(method, continuation) ==
  /\ clientPc = "idle"
  /\ call' = method
  /\ clientPc' = "barrier"
  /\ next' = continuation
  /\ UNCHANGED <<poolVars, workerPc, history>>

CallBarrier    == Begin("barrier", "returning") /\ UNCHANGED <<target, argument>>
CallExecute(o) == Begin("execute", "storing") /\ argument' = o /\ UNCHANGED target
CallResize(n)  == Begin("resize", "resizing") /\ target' = n /\ UNCHANGED argument
CallStop       == Begin("stop", "stopping") /\ UNCHANGED <<target, argument>>

\* The predicate of barrier holds: finish.wait returns.
BarrierPass ==
  /\ clientPc = "barrier"
  /\ AllReady
  /\ clientPc' = next
  /\ fresh' = (fresh /\ next # "resizing")
  /\ UNCHANGED <<poolVars, workerPc, next, target, argument, call, calls>>

\* It does not hold: the client sleeps on finish, releasing the mutex.
BarrierSleep ==
  /\ clientPc = "barrier"
  /\ ~AllReady
  /\ clientPc' = "asleep"
  /\ UNCHANGED <<poolVars, workerPc, next, target, argument, call, history>>

\* this->operation = operation;
StoreOperation ==
  /\ clientPc = "storing"
  /\ operation' = argument
  /\ clientPc' = "resetting"
  /\ fresh' = TRUE
  /\ calls' = [w \in Workers |-> 0]
  /\ UNCHANGED <<size, null, ready, workerPc, next, target, argument, call>>

\* ready = 0;
ResetReady ==
  /\ clientPc = "resetting"
  /\ Restart
  /\ clientPc' = "notifying"
  /\ UNCHANGED <<size, null, operation, workerPc, next, target, argument, call, history>>

\* start.notify_all (); and execute returns, without waiting for the workers.
NotifyStart ==
  /\ clientPc = "notifying"
  /\ workerPc' = StartNotifyAll(workerPc)
  /\ clientPc' = "idle"
  /\ call' = "none"
  /\ UNCHANGED <<poolVars, next, target, argument, history>>

\* The first loop of resize: one thread more.
Grow ==
  /\ clientPc = "resizing"
  /\ MoreToAdd
  /\ workerPc' = [workerPc EXCEPT ![NewSlot] = "entering"]
  /\ size' = size + 1
  /\ UNCHANGED <<null, ready, operation, clientVars, history>>

\* The second loop of resize, up to lock.unlock (): the last slot is moved
\* from, and ALL the workers are woken so that its thread notices.
Retire ==
  /\ clientPc = "resizing"
  /\ MoreToRetire
  /\ null' = null \cup {size - 1}
  /\ Restart
  /\ workerPc' = StartNotifyAll(workerPc)
  /\ clientPc' = "joining"
  /\ UNCHANGED <<size, operation, next, target, argument, call, history>>

\* thread->join () returns, the mutex is taken again and the slot dropped.
JoinAndPop ==
  /\ clientPc = "joining"
  /\ Joined
  /\ workerPc' = [workerPc EXCEPT ![size - 1] = "none"]
  /\ null' = null \ {size - 1}
  /\ size' = size - 1
  /\ clientPc' = "resizing"
  /\ UNCHANGED <<ready, operation, next, target, argument, call, history>>

\* Both loops of resize are done: the mutex is released, a last barrier ().
EndResize ==
  /\ clientPc = "resizing"
  /\ ~MoreToAdd /\ ~MoreToRetire
  /\ clientPc' = "barrier"
  /\ next' = "returning"
  /\ UNCHANGED <<poolVars, workerPc, target, argument, call, history>>

\* stop calls resize (0).
StopResize ==
  /\ clientPc = "stopping"
  /\ target' = 0
  /\ clientPc' = "barrier"
  /\ next' = "resizing"
  /\ UNCHANGED <<poolVars, workerPc, argument, call, history>>

Return ==
  /\ clientPc = "returning"
  /\ clientPc' = "idle"
  /\ call' = "none"
  /\ UNCHANGED <<poolVars, workerPc, next, target, argument, history>>

ClientCall ==
  \/ CallBarrier
  \/ CallStop
  \/ \E o \in Operations : CallExecute(o)
  \/ \E n \in 0 .. MaxThreads : CallResize(n)

ClientStep ==
  \/ BarrierPass \/ BarrierSleep
  \/ StoreOperation \/ ResetReady \/ NotifyStart
  \/ Grow \/ Retire \/ JoinAndPop \/ EndResize
  \/ StopResize \/ Return

Next ==
  \/ ClientCall
  \/ ClientStep
  \/ \E w \in Workers : WorkerStep(w)

Spec == Init /\ [][Next]_vars

(***************************************************************************)
(* The client and every worker are threads the operating system schedules, *)
(* and an operation returns; nothing obliges the client to call.  Weak     *)
(* fairness is enough for the mutex because the client, the only one to    *)
(* hold it across steps, cannot call again before the workers are done.    *)
(***************************************************************************)
FairSpec ==
  /\ Spec
  /\ WF_vars(ClientStep)
  /\ \A w \in Workers : WF_vars(WorkerStep(w))

-----------------------------------------------------------------------------
(* Properties.                                                             *)

Live == {w \in Workers : w < size}

\* The client is past a barrier and has not let the workers go again.
PastBarrier ==
  clientPc \in {"storing", "resetting", "notifying", "stopping", "returning"}

(***************************************************************************)
(* A barrier separates: when barrier () has returned, every thread of the  *)
(* pool is asleep in start.wait and no other thread exists.  This is what  *)
(* lets execute replace operation and ready without taking the mutex, and  *)
(* cpp_driver read the slab and the result after fill and search.          *)
(***************************************************************************)
BarrierSeparates ==
  PastBarrier =>
    workerPc = [w \in Workers |-> IF w < size THEN "waiting" ELSE "none"]

(***************************************************************************)
(* An execute is served exactly once by every worker: at the first barrier *)
(* after it, if the pool was not resized meanwhile, each worker has called *)
(* operation once.  A lost notification gives 0, a surplus one 2.          *)
(***************************************************************************)
ServedExactlyOnce ==
  fresh /\ clientPc \in {"storing", "stopping", "returning"}
    => \A w \in Live : calls[w] = 1

(***************************************************************************)
(* loop (i) never reads threads[i] past the end of the vector: a thread    *)
(* that has yet to test its slot still has one, and the only empty slot is *)
(* the last, the one resize is joining.                                    *)
(***************************************************************************)
SlotsInBounds ==
  /\ \A w \in Workers : workerPc[w] # "none" => w < size
  /\ null \subseteq {size - 1}

\* A thread that will take a step without being notified first.
Awake(w) == workerPc[w] \in {"entering", "woken", "running"}

(***************************************************************************)
(* No notification is lost: when barrier sleeps on finish, a thread of the *)
(* pool is awake and has yet to raise ready; when resize joins the last    *)
(* thread, that thread is not asleep, so it will see its empty slot and    *)
(* exit.  Were one of them false the pool would hang.                      *)
(***************************************************************************)
NobodyForgotten ==
  /\ clientPc = "asleep" => \E w \in Live \ null : Awake(w)
  /\ clientPc = "joining" => Awake(size - 1) \/ Joined

(***************************************************************************)
(* How much is left of a call: the steps the client has still to take,     *)
(* those of each worker before it sleeps or exits, and whether the client  *)
(* has yet to test the predicate of barrier.                               *)
(***************************************************************************)
Distance == IF size < target THEN target - size ELSE size - target

Rest(pc) ==
  IF pc = "resizing" THEN 3 + 2 * Distance
  ELSE IF pc = "joining" THEN 2 + 2 * Distance
  ELSE IF pc = "stopping" THEN 5 + 2 * size
  ELSE IF pc = "storing" THEN 3
  ELSE IF pc = "resetting" THEN 2
  ELSE IF pc \in {"notifying", "returning"} THEN 1 ELSE 0

StepsLeft == IF clientPc \in {"barrier", "asleep"} THEN 1 + Rest(next) ELSE Rest(clientPc)

Toil(w) ==
  IF workerPc[w] = "woken" THEN 3
  ELSE IF workerPc[w] = "running" THEN 2
  ELSE IF workerPc[w] = "entering" THEN 1 ELSE 0

Alert == IF clientPc = "barrier" THEN 1 ELSE 0

ClientAdvances == StepsLeft' < StepsLeft

WorkersAdvance ==
  /\ StepsLeft' = StepsLeft
  /\ \E w \in Workers : Toil(w)' < Toil(w)
  /\ \A w \in Workers : Toil(w)' <= Toil(w)

ClientRests ==
  /\ StepsLeft' = StepsLeft
  /\ \A w \in Workers : Toil(w)' = Toil(w)
  /\ Alert' < Alert

(***************************************************************************)
(* Nothing goes round in circles: between two calls of the client, every   *)
(* step brings the client nearer to its return, or else some worker nearer *)
(* to its sleep and none away from it, or else the client from a failed    *)
(* test to finish.wait.  The order is well founded, so whatever the        *)
(* interleaving a call costs finitely many steps; with NobodyForgotten, no *)
(* method can hang.                                                        *)
(***************************************************************************)
CallsAdvance == [][ClientCall \/ ClientAdvances \/ WorkersAdvance \/ ClientRests]_vars

(***************************************************************************)
(* No method blocks for ever: whatever calls came before, a call of        *)
(* barrier, execute, resize or stop returns.                               *)
(***************************************************************************)
MethodsReturn == clientPc # "idle" ~> clientPc = "idle"

(***************************************************************************)
(* The contract the pool implements.  A worker of the pool has the job     *)
(* pending from the moment it is woken to the moment it calls operation.   *)
(***************************************************************************)
Batch == INSTANCE WorkerBatch WITH
  Members <- Workers,
  Jobs    <- Operations,
  NoJob   <- NoOperation,
  members <- Live \ null,
  leaving <- null,
  pending <- {w \in Workers \ null : workerPc[w] = "woken"},
  running <- {w \in Workers : workerPc[w] = "running"},
  job     <- operation,
  phase   <- IF PastBarrier THEN "quiet"
             ELSE IF clientPc \in {"resizing", "joining"} THEN "resizing" ELSE "free"

(***************************************************************************)
(* The pool implements WorkerBatch: a job is replaced only when all the    *)
(* workers are idle, each launch reaches every member once, and a barrier  *)
(* returns only when nobody is busy.                                       *)
(***************************************************************************)
ImplementsBatch == Batch!BatchSpec

-----------------------------------------------------------------------------
(* The inductive invariant behind the first three properties.              *)

Waiting == {w \in Workers : workerPc[w] = "waiting"}

\* Which threads exist, and whose slot is empty.
Ownership ==
  /\ \A w \in Workers : workerPc[w] = "none" <=> w >= size
  /\ \A w \in Workers : workerPc[w] = "exited" => w \in null
  /\ null = IF clientPc = "joining" THEN {size - 1} ELSE {}
  /\ clientPc = "joining" => size > target

\* What ready counts: the threads asleep in start.wait, except in execute
\* between its reset and its notification.
ReadyCountsWaiting ==
  ready = IF clientPc = "notifying" THEN 0 ELSE Cardinality(Waiting)

\* A worker's progress on the last execute, as long as no resize came.
Progress ==
  /\ clientPc = "storing" \/ (clientPc \in {"barrier", "asleep"} /\ next = "storing")
       => argument \in Operations
  /\ fresh =>
       /\ clientPc \notin {"resizing", "joining"}
       /\ operation # NoOperation
       /\ \A w \in Live :
            calls[w] = IF \/ workerPc[w] = "woken"
                          \/ workerPc[w] = "waiting" /\ clientPc \in {"resetting", "notifying"}
                       THEN 0 ELSE 1

\* What NobodyForgotten needs: a client asleep has not been overtaken by the
\* count, and the thread being joined was woken after its slot was emptied.
Noticed ==
  /\ clientPc = "asleep" => ~AllReady
  /\ clientPc = "joining" => workerPc[size - 1] # "waiting"

(***************************************************************************)
(* BarrierSeparates is not inductive: that ready = size means "all asleep" *)
(* needs ready to COUNT the sleepers (ReadyCountsWaiting), and the sleepers*)
(* to be threads of the pool (Ownership).                                  *)
(***************************************************************************)
PoolInv ==
  /\ TypeOK
  /\ Ownership
  /\ ReadyCountsWaiting
  /\ BarrierSeparates
  /\ Progress
=============================================================================
