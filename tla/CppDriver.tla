------------------------------- MODULE CppDriver -------------------------------
(***************************************************************************)
(* nano_pow::cpp_driver (src/src/cpp_driver.cpp) under driver::solve       *)
(* (src/src/driver.cpp): one client thread that solves, resizes and        *)
(* configures, the workers of its thread_pool, and any thread that calls   *)
(* cancel_current.                                                         *)
(*                                                                         *)
(* The pool is its contract, WorkerBatch, which ThreadPool implements: the *)
(* client takes the contract's steps, and a worker's call of the job lies  *)
(* between its Begin and its Finish.  The hashes and the prng, whose own   *)
(* modules are SipHash and Xoroshiro, are free choices here: any function, *)
(* any right preimage.                                                     *)
(***************************************************************************)
EXTENDS Pow, FiniteSets

CONSTANTS MaxThreads,     \* bound on the argument of threads_set
          Stepping,       \* cpp_driver::stepping, 1024 in the code
          Nonces,
          Difficulties,   \* the arguments of difficulty_set
          H0(_, _),       \* the hash of a nonce and a left preimage
          H1(_, _)        \* the hash of a nonce and a right preimage

ASSUME DriverAssumption ==
  /\ MaxThreads \in Nat
  /\ Stepping \in Nat \ {0} /\ 2 ^ LhsBits + Stepping <= 2 ^ HalfBits
  /\ Difficulties \subseteq Word
  /\ \A n \in Nonces : /\ \A lhs \in Lhs : H0(n, lhs) \in Word
                       /\ \A rhs \in Rhs : H1(n, rhs) \in Word

Workers == 0 .. MaxThreads - 1

VARIABLES
  members, leaving, pending, running, job, phase,   \* the pool (WorkerBatch)
  cancel,                   \* driver::cancel
  result_0, result_1,       \* the published solution, two atomics
  current,                  \* the next left preimage to claim, a uint64_t
  nonce, difficulty_m,
  size, slab,               \* the slab; the empty function when there is none
  clientPc,                 \* where the client is
  task,                     \* what it last ran on the pool in this method, or "resize"
  target,                   \* the argument of threads_set
  result_l,                 \* the local of driver::solve
  workerPc,                 \* where each worker is in the job
  cursor, end, stepEnd,     \* the locals of fill_impl
  pair                      \* the local result_l of search_impl

poolVars   == <<members, leaving, pending, running, job, phase>>
sharedVars == <<cancel, result_0, result_1, current>>
configVars == <<nonce, difficulty_m, size, slab>>
clientVars == <<clientPc, task, target, result_l>>
localVars  == <<workerPc, cursor, end, stepEnd, pair>>
workVars   == <<cursor, end, stepEnd, pair>>
vars       == <<poolVars, sharedVars, configVars, clientVars, localVars>>

Pool == INSTANCE WorkerBatch WITH
  Members <- Workers, Jobs <- {"fill", "search"}, NoJob <- "none"

NoSlab == [b \in {} |-> 0]
NoPair == <<0, 0>>

ClientState ==
  { "idle",
    "clearing",    \* in solve, about to clear cancel
    "looping",     \* the while condition of driver::solve
    "executing", "assigning", "launching",   \* the barrier and the body of execute
    "awaiting",    \* in the barrier after it
    "leaving",     \* that barrier has returned
    "filled", "searched",   \* back in driver::solve
    "returning",   \* solve is about to return result_l
    "entering", "resizing" }   \* the barrier and the loops of resize

WorkerState ==
  { "off",         \* not in the job
    "fillTest", "fillWrite",
    "searchTest", "probe", "publish0", "publish1" }

TypeOK ==
  /\ members \subseteq Workers /\ leaving \subseteq Workers
  /\ pending \subseteq members /\ running \subseteq members \cup leaving
  /\ job \in {"none", "fill", "search"} /\ phase \in {"free", "quiet", "resizing"}
  /\ cancel \in BOOLEAN
  /\ result_0 \in Lhs /\ result_1 \in Rhs /\ current \in Half
  /\ nonce \in Nonces /\ difficulty_m \in Difficulties
  /\ size \in Sizes \cup {0}
  /\ slab = NoSlab \/ slab \in [0 .. size - 1 -> Lhs]
  /\ clientPc \in ClientState /\ task \in {"none", "fill", "search", "resize"}
  /\ target \in 0 .. MaxThreads
  /\ result_l \in Lhs \X Rhs
  /\ workerPc \in [Workers -> WorkerState]
  /\ \A w \in Workers : workerPc[w] = "off" <=> w \notin running
  /\ cursor \in [Workers -> Half] /\ end \in [Workers -> Half]
  /\ stepEnd \in [Workers -> Half]
  /\ pair \in [Workers -> Lhs \X Rhs]

\* A driver just constructed, before the constructor's threads_set.
Init ==
  /\ Pool!BatchInit
  /\ cancel = FALSE /\ result_0 = 0 /\ result_1 = 0 /\ current = 0
  /\ nonce \in Nonces /\ difficulty_m \in Difficulties
  /\ size = 0 /\ slab = NoSlab
  /\ clientPc = "idle" /\ task = "none" /\ target = 0 /\ result_l = NoPair
  /\ workerPc = [w \in Workers |-> "off"]
  /\ cursor = [w \in Workers |-> 0] /\ end = [w \in Workers |-> 0]
  /\ stepEnd = [w \in Workers |-> 0]
  /\ pair = [w \in Workers |-> NoPair]

-----------------------------------------------------------------------------
(* The hashes seen through the slab.                                       *)

\* The test search_impl makes of a pair: the quick one, then the exact one.
Accepts(n, d, lhs, rhs) ==
  LET sum == Plus(H0(n, lhs), H1(n, rhs))
  IN  passes_quick(sum, reverse(d)) /\ passes_sum(sum, d)

Accepted == [n \in Nonces |-> [d \in Difficulties |->
               {p \in Lhs \X Rhs : Accepts(n, d, p[1], p[2])}]]

\* nano_pow::passes: what a verifier asks of a solution.
Passing == [n \in Nonces |-> [d \in Difficulties |->
              {p \in Lhs \X Rhs : passes_sum(Plus(H0(n, p[1]), H1(n, p[2])), d)}]]

BucketOf(lhs) == FillBucket(size, H0(nonce, lhs))

\* What one worker fills: count / total_threads.
Share == fill_count(size, reverse(difficulty_m)) \div Cardinality(members \cup leaving)

Wrap(x) == x % 2 ^ HalfBits

-----------------------------------------------------------------------------
(* cancel_current, by any thread at any time.                              *)

Cancel ==
  /\ cancel = FALSE
  /\ cancel' = TRUE
  /\ UNCHANGED <<poolVars, result_0, result_1, current, configVars, clientVars, localVars>>

-----------------------------------------------------------------------------
(* The jobs.                                                               *)

\* A step of the code of worker w, from one place to another.
Goes(w, from, to) ==
  /\ workerPc[w] = from
  /\ workerPc' = [workerPc EXCEPT ![w] = to]
  /\ UNCHANGED clientVars

\* A job returns: its locals are gone.
Leave(w, from) ==
  /\ Goes(w, from, "off")
  /\ Pool!Finish(w)
  /\ cursor' = [cursor EXCEPT ![w] = 0] /\ end' = [end EXCEPT ![w] = 0]
  /\ stepEnd' = [stepEnd EXCEPT ![w] = 0] /\ pair' = [pair EXCEPT ![w] = NoPair]
  /\ UNCHANGED <<sharedVars, configVars>>

\* A worker woken by a resize before the first execute has no job to call.
SkipJob(w) ==
  /\ Pool!Skip(w)
  /\ UNCHANGED <<sharedVars, configVars, clientVars, localVars>>

\* Mutation: the claim begins at the new value of current.
ClaimNew == Wrap(current + Share)
\* Where a claim begins: fetch_add returns the value it replaced.
Claim == current

\* The fill job claims a range of left preimages.
StartFill(w) ==
  /\ job = "fill"
  /\ Pool!Begin(w)
  /\ Goes(w, "off", "fillTest")
  /\ current' = Wrap(current + Share)
  /\ cursor' = [cursor EXCEPT ![w] = Claim]
  /\ end' = [end EXCEPT ![w] = Wrap(Claim + Share)]
  /\ UNCHANGED <<cancel, result_0, result_1, configVars, stepEnd, pair>>

\* Mutation: fill_impl does not look at cancel.
MoreToFillUncancelled(w) == cursor[w] < end[w]
\* The outer loop: cancel is looked at once for every stepping preimages.
MoreToFill(w) == ~cancel /\ cursor[w] < end[w]

\* The inner loop goes on as long as it is below the end of its stretch.
InnerLoop(at, bound) == IF at < bound THEN "fillWrite" ELSE "fillTest"

FillTest(w) ==
  /\ MoreToFill(w)
  /\ stepEnd' = [stepEnd EXCEPT ![w] = Wrap(cursor[w] + Stepping)]
  /\ Goes(w, "fillTest", InnerLoop(cursor[w], stepEnd'[w]))
  /\ UNCHANGED <<poolVars, sharedVars, configVars, cursor, end, pair>>

FillDone(w) == ~MoreToFill(w) /\ Leave(w, "fillTest")

\* A store to the slab, not synchronised with the others.
FillWrite(w) ==
  /\ LET current_32 == cursor[w] % 2 ^ LhsBits
         following  == Wrap(cursor[w] + 1)
     IN  /\ Goes(w, "fillWrite", InnerLoop(following, stepEnd[w]))
         /\ slab' = [slab EXCEPT ![BucketOf(current_32)] = current_32]
         /\ cursor' = [cursor EXCEPT ![w] = following]
  /\ UNCHANGED <<poolVars, sharedVars, nonce, difficulty_m, size, end, stepEnd, pair>>

\* The search job.
StartSearch(w) ==
  /\ job = "search"
  /\ Pool!Begin(w)
  /\ Goes(w, "off", "searchTest")
  /\ UNCHANGED <<sharedVars, configVars, workVars>>

MoreToSearch == ~cancel /\ result_0 = 0

SearchTest(w) ==
  /\ MoreToSearch
  /\ Goes(w, "searchTest", "probe")
  /\ UNCHANGED <<poolVars, sharedVars, configVars, workVars>>

SearchDone(w) == ~MoreToSearch /\ Leave(w, "searchTest")

\* The inner loop of search_impl, up to stepping probes of the slab.  Nobody
\* stores to it meanwhile, so the loop is one step: it ends with nothing, or
\* at the first accepted pair whose right half is not 0.
ProbeMiss(w) ==
  /\ Goes(w, "probe", "searchTest")
  /\ UNCHANGED <<poolVars, sharedVars, configVars, workVars>>

ProbeHit(w) ==
  /\ Goes(w, "probe", "publish0")
  /\ \E rhs \in Rhs \ {0} :
       LET lhs == slab[ProbeBucket(size, H1(nonce, rhs))]
       IN  /\ <<lhs, rhs>> \in Accepted[nonce][difficulty_m]
           /\ pair' = [pair EXCEPT ![w] = <<lhs, rhs>>]
  /\ UNCHANGED <<poolVars, sharedVars, configVars, cursor, end, stepEnd>>

\* result_0 = result_l[0];
PublishLhs(w) ==
  /\ Goes(w, "publish0", "publish1")
  /\ result_0' = pair[w][1]
  /\ UNCHANGED <<poolVars, cancel, result_1, current, configVars, workVars>>

\* result_1 = result_l[1];
PublishRhs(w) ==
  /\ Goes(w, "publish1", "searchTest")
  /\ result_1' = pair[w][2]
  /\ pair' = [pair EXCEPT ![w] = NoPair]
  /\ UNCHANGED <<poolVars, cancel, result_0, current, configVars, cursor, end, stepEnd>>

WorkerStep(w) ==
  \/ SkipJob(w)
  \/ StartFill(w) \/ FillTest(w) \/ FillDone(w) \/ FillWrite(w)
  \/ StartSearch(w) \/ SearchTest(w) \/ SearchDone(w)
  \/ ProbeMiss(w) \/ ProbeHit(w) \/ PublishLhs(w) \/ PublishRhs(w)

-----------------------------------------------------------------------------
(* solve, fill and search.                                                 *)

\* A step of the client, from one place of the code to another.
Moves(from, to) ==
  /\ clientPc = from /\ clientPc' = to
  /\ UNCHANGED <<target, localVars>>

\* A step that changes none of the driver's fields.
Walks(from, to) == Moves(from, to) /\ UNCHANGED <<sharedVars, configVars, result_l>>

\* A step that changes neither the pool nor what the client last ran on it.
Alone(from, to) == Moves(from, to) /\ UNCHANGED <<poolVars, task>>

\* Mutation: the result of the last solve is not reset.
ResetResultNot == UNCHANGED <<result_0, result_1>>
ResetResult == result_0' = 0 /\ result_1' = 0

\* cpp_driver::solve, up to the call of driver::solve.  The caller has set
\* the memory.
Solve(n) ==
  /\ slab # NoSlab
  /\ Moves("idle", "clearing")
  /\ nonce' = n
  /\ ResetResult
  /\ current' = 0
  /\ task' = "none"
  /\ UNCHANGED <<poolVars, cancel, difficulty_m, size, slab, result_l>>

\* cancel = false; a cancel_current that came before is forgotten.
ClearCancel ==
  /\ Alone("clearing", "looping")
  /\ cancel' = FALSE
  /\ result_l' = NoPair
  /\ UNCHANGED <<result_0, result_1, current, configVars>>

\* while (!cancel && result_l[1] == 0) fill ();
LoopFill ==
  /\ ~cancel /\ result_l[2] = 0
  /\ Walks("looping", "executing")
  /\ task' = "fill"
  /\ UNCHANGED poolVars

LoopEnd ==
  /\ cancel \/ result_l[2] # 0
  /\ Walks("looping", "returning")
  /\ UNCHANGED <<poolVars, task>>

\* The barrier at the head of execute.
ExecuteBarrier == Walks("executing", "assigning") /\ Pool!Settle("quiet") /\ UNCHANGED task

ExecuteAssign == Walks("assigning", "launching") /\ Pool!Assign(task) /\ UNCHANGED task

ExecuteLaunch == Walks("launching", "awaiting") /\ Pool!Launch /\ UNCHANGED task

\* Mutation: fill and search do not wait for the workers.
AwaitsNot == phase' = "quiet" /\ UNCHANGED <<members, leaving, pending, running, job>>
Awaits == Pool!Settle("quiet")

\* The barrier that follows execute in fill and search, and ends resize.
AwaitBarrier == Walks("awaiting", "leaving") /\ Awaits /\ UNCHANGED task

LeaveBarrier ==
  /\ Walks("leaving",
           IF task = "fill" THEN "filled" ELSE IF task = "search" THEN "searched" ELSE "idle")
  /\ Pool!Release
  /\ UNCHANGED task

\* if (!cancel) search ();
FilledSearch ==
  /\ ~cancel
  /\ Walks("filled", "executing")
  /\ task' = "search"
  /\ UNCHANGED poolVars

FilledCancelled == cancel /\ Walks("filled", "looping") /\ UNCHANGED <<poolVars, task>>

result_get == <<result_0, result_1>>

\* result_l = search (), which ends with result_get ().
Searched ==
  /\ Alone("searched", "looping")
  /\ result_l' = result_get
  /\ UNCHANGED <<sharedVars, configVars>>

SolveReturn ==
  /\ Alone("returning", "idle")
  /\ result_l' = NoPair
  /\ UNCHANGED <<sharedVars, configVars>>

-----------------------------------------------------------------------------
(* The other methods, called between two solves.                           *)

Between == clientPc = "idle" /\ UNCHANGED <<poolVars, sharedVars, nonce, clientVars, localVars>>

\* memory_set, when it succeeds: mmap and VirtualAlloc give zeros.
MemorySet(s) ==
  /\ Between
  /\ size' = s /\ slab' = [b \in 0 .. s - 1 |-> 0]
  /\ UNCHANGED difficulty_m

MemoryReset == Between /\ slab' = NoSlab /\ UNCHANGED <<difficulty_m, size>>

DifficultySet(d) == Between /\ difficulty_m' = d /\ UNCHANGED <<size, slab>>

\* The constructor ends, and the destructor begins, with a threads_set too.
ThreadsSet(n) ==
  /\ clientPc = "idle" /\ clientPc' = "entering"
  /\ target' = n /\ task' = "resize"
  /\ UNCHANGED <<poolVars, sharedVars, configVars, result_l, localVars>>

ResizeBarrier == Walks("entering", "resizing") /\ Pool!Settle("resizing") /\ UNCHANGED task

Resizing == clientPc = "resizing" /\ UNCHANGED <<sharedVars, configVars, clientVars, localVars>>

\* The workers are numbered from 0, and the last one leaves first.
Grow == Resizing /\ Cardinality(members) < target /\ Pool!Add(Cardinality(members))

\* Mutation: the loop ends one thread too late, and one is missing again.
TooManyWorkersOff == Cardinality(members) >= target
TooManyWorkers == Cardinality(members) > target

Shrink == Resizing /\ TooManyWorkers /\ Pool!Remove(Cardinality(members) - 1)

Join == Resizing /\ \E w \in leaving : Pool!Left(w)

ResizeEnd ==
  /\ Cardinality(members) = target
  /\ Walks("resizing", "awaiting")
  /\ Pool!Release
  /\ UNCHANGED task

-----------------------------------------------------------------------------
ClientCall ==
  \/ \E n \in Nonces : Solve(n)
  \/ \E s \in Sizes : MemorySet(s)
  \/ MemoryReset
  \/ \E d \in Difficulties : DifficultySet(d)
  \/ \E n \in 0 .. MaxThreads : ThreadsSet(n)

ClientStep ==
  \/ ClearCancel \/ LoopFill \/ LoopEnd
  \/ ExecuteBarrier \/ ExecuteAssign \/ ExecuteLaunch \/ AwaitBarrier \/ LeaveBarrier
  \/ FilledSearch \/ FilledCancelled \/ Searched \/ SolveReturn
  \/ ResizeBarrier \/ Grow \/ Shrink \/ Join \/ ResizeEnd

Next ==
  \/ ClientCall
  \/ ClientStep
  \/ Cancel
  \/ \E w \in Workers : WorkerStep(w)

Spec == Init /\ [][Next]_vars

\* Threads are scheduled; nothing obliges anybody to call a method or the
\* prng to hit a solution.
FairSpec ==
  /\ Spec
  /\ WF_vars(ClientStep)
  /\ \A w \in Workers : WF_vars(WorkerStep(w))

-----------------------------------------------------------------------------
(* Properties.                                                             *)

InSolve == clientPc \notin {"idle", "clearing", "entering", "resizing"} /\ task # "resize"

(***************************************************************************)
(* A solution solve returns passes nano_pow::passes for the nonce and the  *)
(* difficulty it was asked for (src/src/testing.cpp, line 30), whatever    *)
(* the slab held before.                                                   *)
(***************************************************************************)
ReturnedPairPasses ==
  clientPc = "returning" /\ result_l[2] # 0
    => result_l \in Passing[nonce][difficulty_m]

(***************************************************************************)
(* The driver implements Driver, what its caller relies on.  Each HALF of  *)
(* what solve returns belongs to a pair that passes, whatever workers do   *)
(* at the same time: no half is left over from an earlier nonce or from    *)
(* the reset, and with one worker in the pool the pair itself passes.  The *)
(* nonce and the difficulty stay while solve works on them, and it comes   *)
(* back with nothing only when it was cancelled.                           *)
(***************************************************************************)
Contract == INSTANCE Driver WITH
  NoAnswer   <- NoPair,
  MayThrow   <- FALSE,
  required   <- difficulty_m,
  alone      <- \A v, w \in members : v = w,
  answer     <- IF clientPc = "returning" THEN result_l ELSE NoPair,
  phase      <- IF clientPc = "clearing" THEN "called"
                ELSE IF clientPc = "returning" THEN "answered"
                ELSE IF InSolve THEN "working" ELSE "idle"

ImplementsDriver == Contract!DriverSpec

(***************************************************************************)
(* A search yields: with a worker in the pool, search () comes back empty- *)
(* handed only when it was cancelled, so driver::solve never fills twice.  *)
(* A worker that stops because it sees result_0 relies on the publisher to *)
(* store result_1 before the barrier.                                      *)
(***************************************************************************)
SearchYields ==
  clientPc = "searched" /\ members # {} /\ ~cancel => result_1 # 0

(***************************************************************************)
(* A fill fills: unless cancelled, when the search begins every bucket one *)
(* of the preimages handed out hashes to holds a preimage of its own, of   *)
(* the CURRENT nonce.  The claims of the workers leave no gap, and the     *)
(* unsynchronised stores only replace a good entry by another.             *)
(***************************************************************************)
FillCovers ==
  InSolve /\ task = "search" /\ ~cancel /\ members # {} =>
    \A k \in 0 .. Cardinality(members) * Share - 1 :
      LET b == BucketOf(k % 2 ^ LhsBits) IN BucketOf(slab[b]) = b

(***************************************************************************)
(* memory_set and memory_reset never take the slab from a worker: no       *)
(* worker, not even one that a resize made run its last job again after    *)
(* memory_reset, comes to a load or a store without a slab.                *)
(***************************************************************************)
SlabInUse ==
  \A w \in Workers :
    workerPc[w] \in {"fillWrite", "probe", "publish0", "publish1"} =>
      slab # NoSlab /\ InSolve

(***************************************************************************)
(* A resize is harmless: although shrinking the pool makes the remaining   *)
(* workers run the last job again, neither the slab nor the result changes.*)
(***************************************************************************)
ResizeHarmless ==
  [][~InSolve /\ clientPc # "idle" => UNCHANGED <<slab, result_0, result_1>>]_vars

(***************************************************************************)
(* How much is left of a call, or of a round of the loop of driver::solve, *)
(* for the client: what follows the job it runs on the pool, or the        *)
(* threads still to be added, told to leave or joined.                     *)
(***************************************************************************)
AfterJob == IF task = "fill" THEN 9 ELSE IF task = "search" THEN 3 ELSE 0

Distance ==
  LET count == Cardinality(members)
  IN  IF count < target THEN target - count ELSE count - target

StepsLeft ==
  IF clientPc = "executing" THEN AfterJob + 5
  ELSE IF clientPc = "assigning" THEN AfterJob + 4
  ELSE IF clientPc = "launching" THEN AfterJob + 3
  ELSE IF clientPc = "awaiting" THEN AfterJob + 2
  ELSE IF clientPc = "leaving" THEN AfterJob + 1
  ELSE IF clientPc = "filled" THEN 9
  ELSE IF clientPc \in {"clearing", "searched"} THEN 3
  ELSE IF clientPc = "looping" THEN 2
  ELSE IF clientPc = "returning" THEN 1
  ELSE IF clientPc = "entering" THEN 4 + 2 * Distance + Cardinality(leaving)
  ELSE IF clientPc = "resizing" THEN 3 + 2 * Distance + Cardinality(leaving) ELSE 0

(***************************************************************************)
(* For a worker: the stages of its job, and in a fill the preimages of its *)
(* claim, then those between the end of the claim and the end of the last  *)
(* stretch, which fill_impl writes too.                                    *)
(***************************************************************************)
Remaining(at, bound) == IF at < bound THEN bound - at ELSE 0

StagesLeft(w) ==
  IF w \in pending THEN 5
  ELSE IF workerPc[w] = "probe" THEN 4
  ELSE IF workerPc[w] = "publish0" THEN 3
  ELSE IF workerPc[w] = "publish1" THEN 2
  ELSE IF workerPc[w] = "off" THEN 0 ELSE 1

ClaimLeft(w) == Remaining(cursor[w], end[w])

StretchLeft(w) ==
  IF workerPc[w] = "fillWrite" THEN 1 + Remaining(cursor[w], stepEnd[w])
  ELSE IF workerPc[w] = "fillTest" /\ cursor[w] < end[w] THEN Stepping + 2 ELSE 0

ClientAdvances == StepsLeft' < StepsLeft

WorkerStays(w) ==
  /\ StagesLeft(w)' = StagesLeft(w)
  /\ ClaimLeft(w)' = ClaimLeft(w) /\ StretchLeft(w)' = StretchLeft(w)

WorkerAdvances(w) ==
  /\ StepsLeft' = StepsLeft
  /\ \/ StagesLeft(w)' < StagesLeft(w)
     \/ /\ StagesLeft(w)' = StagesLeft(w)
        /\ \/ ClaimLeft(w)' < ClaimLeft(w)
           \/ ClaimLeft(w)' = ClaimLeft(w) /\ StretchLeft(w)' < StretchLeft(w)
  /\ \A v \in Workers \ {w} : WorkerStays(v)

FlagAdvances ==
  /\ StepsLeft' = StepsLeft /\ \A w \in Workers : WorkerStays(w)
  /\ ~cancel /\ cancel'

(***************************************************************************)
(* Nothing goes round in circles: but for a call, another round of         *)
(* driver::solve, and more probes in a search that is neither cancelled    *)
(* nor successful, every step brings the client nearer to the end of its   *)
(* round, or a worker nearer to the end of its job and no other away from  *)
(* it, or sets the flag.  The order is well founded: no worker stays in a  *)
(* fill for ever, as one would whose stretch wraps, for the claims of a    *)
(* fill stay below the 32 bits; and no resize makes the workers run jobs   *)
(* for ever.                                                               *)
(***************************************************************************)
RoundsAdvance ==
  [][ \/ ClientAdvances \/ FlagAdvances
      \/ \E w \in Workers : WorkerAdvances(w) \/ SearchTest(w)
      \/ LoopFill \/ ClientCall ]_vars

(***************************************************************************)
(* A solve that is cancelled after it cleared the flag returns, and so     *)
(* does one for which a worker found a solution, provided that no solution *)
(* has the left half 0, which looks like "nothing found yet"; a resize     *)
(* always returns.                                                         *)
(***************************************************************************)
ZeroSolves == \E p \in Passing[nonce][difficulty_m] : p[1] = 0

MethodsEnd ==
  /\ InSolve /\ (cancel \/ (result_0 # 0 /\ ~ZeroSolves)) ~> clientPc = "idle"
  /\ task = "resize" ~> clientPc = "idle"
=============================================================================
