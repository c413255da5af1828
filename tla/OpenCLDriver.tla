------------------------------ MODULE OpenCLDriver ------------------------------
(***************************************************************************)
(* nano_pow::opencl_driver (src/src/opencl_driver.cpp, lines 159 to 312)   *)
(* under driver::solve, with the kernels it runs (src/src/                 *)
(* opencl_program.cl, lines 240 to 341).                                   *)
(*                                                                         *)
(* The host thread puts commands in an in-order queue, and the device      *)
(* executes them later: kernels, the two transfers of solve that read the  *)
(* host's stack, and the transfer of the result back to it.  An enqueue    *)
(* may throw; solve then ends, and its frame with it, while commands it    *)
(* enqueued are still in the queue.                                        *)
(*                                                                         *)
(* A kernel is one step.  Its work-items race, but only with each other:   *)
(* the slab or the result is left with any outcome of their stores.        *)
(***************************************************************************)
EXTENDS Pow, FiniteSets
LOCAL INSTANCE FiniteSetsExt

CONSTANTS Stepping,       \* opencl_driver::stepping, 256 in the code
          ThreadCounts,   \* the arguments of threads_set
          SlabSizes,      \* the arguments of memory_set, in entries
          MaxAlloc,       \* the largest buffer of the device, in entries
          Nonces,
          Difficulties,   \* the arguments of difficulty_set
          H0(_, _), H1(_, _),
          Contents,       \* what the entries of a new buffer may hold
          Garbage,        \* what a dead frame, or a kernel without buffers, may leave
          Backlog         \* bound on the commands in the queue when a method is called

\* How far a kernel advances: thread_count * stepping, a product of uint32_t.
Stride(t) == (t * Stepping) % 2 ^ LhsBits

ASSUME OpenCLAssumption ==
  /\ Stepping \in Lhs \ {0}
  /\ ThreadCounts \subseteq Lhs \ {0}
  \* The product does not wrap.  Otherwise the loops of fill and search advance
  \* by 0, or by less than their kernels cover: a search then tries numbers of
  \* more than 48 bits.
  /\ \A t \in ThreadCounts : Stride(t) \in Nat \ {0} /\ Stride(t) = t * Stepping
  /\ SlabSizes \subseteq Sizes
  /\ Difficulties \subseteq Word
  /\ Contents \subseteq Lhs /\ Garbage \subseteq Lhs \X Rhs
  /\ \A n \in Nonces : /\ \A lhs \in Lhs : H0(n, lhs) \in Word
                       /\ \A rhs \in Rhs : H1(n, rhs) \in Word

VARIABLES
  cancel,
  threads, difficulty_m,
  slab_entries,             \* the size last asked of memory_set
  slab,                     \* the buffers: a function of <<slab, bucket>>
  current_fill,             \* a uint32_t
  hostPc, caller,           \* where the host is, and whether in solve
  nonce,                    \* the argument of solve
  current,                  \* the local of fill, and of search
  result,                   \* the local of search
  result_l,                 \* the local of driver::solve
  queue,                    \* the commands the device has not executed
  nonce_buffer, result_buffer

configVars == <<threads, difficulty_m, slab_entries, slab>>
hostVars   == <<hostPc, caller, nonce, current, result, result_l>>
deviceVars == <<nonce_buffer, result_buffer>>
vars       == <<cancel, configVars, current_fill, hostVars, queue, deviceVars>>

NoSlab == [a \in {} |-> 0]
NoPair == <<0, 0>>

HostState ==
  { "idle",
    "clearing", "looping",      \* driver::solve
    "filling", "finishing",     \* the loop of fill, and queue.finish
    "filled",
    "searching", "waiting",     \* the loop of search, and events[0].wait
    "returning" }

\* A command keeps the arguments its kernel had when it was enqueued.  It is
\* live while the call that enqueued it goes on, and here while the buffers
\* of its kernel are those of the driver.
Command ==
  [op : {"writeResult", "writeNonce", "fill", "search", "read"},
   begin : Half, threads : ThreadCounts, difficulty : Difficulties,
   nonce : Nonces, live : BOOLEAN, here : BOOLEAN]

TypeOK ==
  /\ cancel \in BOOLEAN
  /\ threads \in ThreadCounts /\ difficulty_m \in Difficulties
  /\ slab_entries \in SlabSizes \cup {0}
  /\ \A a \in DOMAIN slab : slab[a] \in Lhs
  /\ current_fill \in Lhs
  /\ hostPc \in HostState /\ caller \in {"solve", "fill"} /\ nonce \in Nonces
  /\ current \in Half
  /\ result \in Lhs \X Rhs /\ result_l \in Lhs \X Rhs
  /\ \A i \in DOMAIN queue : queue[i] \in Command
  /\ nonce_buffer \in Nonces /\ result_buffer \in Lhs \X Rhs

\* A driver just initialized.  The buffers hold anything.
Init ==
  /\ cancel = FALSE
  /\ threads \in ThreadCounts /\ difficulty_m \in Difficulties
  /\ slab_entries = 0 /\ slab = NoSlab /\ current_fill = 0
  /\ hostPc = "idle" /\ caller = "fill" /\ nonce \in Nonces
  /\ current = 0 /\ result = NoPair /\ result_l = NoPair
  /\ queue = <<>>
  /\ nonce_buffer = nonce /\ result_buffer = NoPair

-----------------------------------------------------------------------------
(* The slabs.                                                              *)

max_slabs == 4

\* A slab that is too large for one buffer of the device is cut in four.
number_slabs(size) == IF size > MaxAlloc THEN max_slabs ELSE 1

Buffers(size) ==
  {<<s, b>> : s \in 0 .. number_slabs(size) - 1, b \in 0 .. size \div number_slabs(size) - 1}

\* slab and bucket of the kernels: where the entry of an item is.
Address(size, item) ==
  LET masked == bucket(size, item)
  IN  <<masked % number_slabs(size), masked \div number_slabs(size)>>

\* Where a left preimage is stored, and where a right one looks for a partner.
StoreAddress == [size \in SlabSizes |-> [n \in Nonces |-> [lhs \in Lhs |->
                   Address(size, Low(H0(n, lhs)))]]]
LoadAddress == [size \in SlabSizes |-> [n \in Nonces |-> [rhs \in Rhs |->
                  Address(size, (2 ^ HalfBits - Low(H1(n, rhs))) % 2 ^ HalfBits)]]]

-----------------------------------------------------------------------------
(* The kernels.                                                            *)

WorkItems(c) == 0 .. c.threads - 1

\* The preimages a work-item of fill stores: current and end are uint, and
\* a range whose end wraps is empty.
FillRange(c, i) ==
  LET first == (c.begin + i * Stepping) % 2 ^ LhsBits
      end   == (first + Stepping) % 2 ^ LhsBits
  IN  first .. end - 1

\* What a work-item leaves in each entry it stores to: its last preimage.
Stored(c, n, a) ==
  {Max(here) : here \in
     {{lhs \in FillRange(c, i) : StoreAddress[slab_entries][n][lhs] = a}
        : i \in WorkItems(c)} \ {{}}}

\* Entries are stored to in any order.
FillOutcomes(c, n) ==
  LET stored  == [a \in DOMAIN slab |-> Stored(c, n, a)]
      touched == {a \in DOMAIN slab : stored[a] # {}}
      last    == {f \in [touched -> Lhs] : \A a \in touched : f[a] \in stored[a]}
  IN  {[a \in DOMAIN slab |-> IF a \in touched THEN f[a] ELSE slab[a]] : f \in last}

\* The right preimages a work-item of search tries.  They are those of 48 bits:
\* begin is at most max_current, and the work-items cover one stride.
SearchRange(c, i) == c.begin + i * Stepping .. c.begin + (i + 1) * Stepping - 1

\* The test of a work-item of search: the quick one, then the exact one.
Accepts(n, d, lhs, rhs) ==
  LET sum == Plus(H0(n, lhs), H1(n, rhs))
  IN  passes_quick(sum, reverse(d)) /\ passes_sum(sum, d)

Accepted == [n \in Nonces |-> [d \in Difficulties |->
               {p \in Lhs \X Rhs : Accepts(n, d, p[1], p[2])}]]

\* nano_pow::passes: what a verifier asks of a solution.
Passing == [n \in Nonces |-> [d \in Difficulties |->
              {p \in Lhs \X Rhs : passes_sum(Plus(H0(n, p[1]), H1(n, p[2])), d)}]]

Partner(n, rhs) == <<slab[LoadAddress[slab_entries][n][rhs]], rhs>>

\* The accepted pair each work-item stops at, if it meets one.
Found(c, n) ==
  LET hits(i) == {rhs \in SearchRange(c, i) : Partner(n, rhs) \in Accepted[n][c.difficulty]}
  IN  {Partner(n, Min(hits(i))) : i \in {j \in WorkItems(c) : hits(j) # {}}}

-----------------------------------------------------------------------------
(* The device.                                                             *)

\* The queue is in order: the device executes its first command.
Executes(op) == queue # <<>> /\ Head(queue).op = op /\ queue' = Tail(queue)

\* The transfers of solve read its frame; once solve is over they read
\* whatever the stack holds.
WriteResult ==
  /\ Executes("writeResult")
  /\ IF Head(queue).live THEN result_buffer' = NoPair
                         ELSE result_buffer' \in Garbage
  /\ UNCHANGED <<cancel, configVars, current_fill, hostVars, nonce_buffer>>

WriteNonce ==
  /\ Executes("writeNonce")
  /\ IF Head(queue).live THEN nonce_buffer' = Head(queue).nonce
                         ELSE nonce_buffer' \in Nonces
  /\ UNCHANGED <<cancel, configVars, current_fill, hostVars, result_buffer>>

\* A kernel whose buffers were given up stores where nobody looks.
FillKernel ==
  /\ Executes("fill")
  /\ IF Head(queue).here THEN slab' \in FillOutcomes(Head(queue), nonce_buffer)
                         ELSE UNCHANGED slab
  /\ UNCHANGED <<cancel, threads, difficulty_m, slab_entries, current_fill, hostVars, deviceVars>>

\* The two words of the result are two stores, of any of the work-items
\* that found a pair.
SearchKernel ==
  /\ Executes("search")
  /\ IF Head(queue).here
     THEN LET found == Found(Head(queue), nonce_buffer)
          IN  IF found = {} THEN UNCHANGED result_buffer
              ELSE \E p, q \in found : result_buffer' = <<p[1], q[2]>>
     ELSE result_buffer' \in Garbage
  /\ UNCHANGED <<cancel, configVars, current_fill, hostVars, nonce_buffer>>

ReadResult ==
  /\ Executes("read")
  /\ result' = result_buffer
  /\ UNCHANGED <<cancel, configVars, current_fill, hostPc, caller, nonce, current, result_l, deviceVars>>

DeviceStep == WriteResult \/ WriteNonce \/ FillKernel \/ SearchKernel \/ ReadResult

-----------------------------------------------------------------------------
(* cancel_current, by any thread at any time.                              *)

Cancel ==
  /\ cancel = FALSE
  /\ cancel' = TRUE
  /\ UNCHANGED <<configVars, current_fill, hostVars, queue, deviceVars>>

-----------------------------------------------------------------------------
(* solve, fill and search, on the host.                                    *)

Enqueued(op, begin, n) ==
  [op |-> op, begin |-> begin, threads |-> threads, difficulty |-> difficulty_m,
   nonce |-> n, live |-> TRUE, here |-> TRUE]

\* The frames of the calls that enqueued these commands are gone.
Abandoned(q) == [i \in DOMAIN q |-> [q[i] EXCEPT !.live = FALSE]]

\* A step of the host, from one place of the code to another.
Goes(from, to) ==
  /\ hostPc = from /\ hostPc' = to
  /\ UNCHANGED <<cancel, configVars, deviceVars>>

\* A step in the same calls, on the same nonce.
Walks(from, to) == Goes(from, to) /\ UNCHANGED <<caller, nonce>>

\* One that only decides where to go.
Decides(from, to) ==
  Walks(from, to) /\ UNCHANGED <<current_fill, current, result, result_l, queue>>

\* The host leaves solve or fill, by return or by an exception.
Leave(from, q) ==
  /\ Goes(from, "idle")
  /\ queue' = Abandoned(q)
  /\ caller' = "fill"
  /\ current' = 0 /\ result' = NoPair /\ result_l' = NoPair
  /\ UNCHANGED current_fill

Throws(from, q) == Leave(from, q) /\ UNCHANGED nonce

\* A method that uses the device is called only once the memory is set.
Ready == slab # NoSlab /\ Len(queue) <= Backlog

\* Mutation: the result buffer is not cleared.
SetupKeepsResult(n) == <<Enqueued("writeNonce", 0, n)>>
\* Mutation: the nonce is only written by the first solve.
SetupKeepsNonce(n) == <<Enqueued("writeResult", 0, n)>>
\* What opencl_driver::solve enqueues: two transfers that do not block.
Setup(n) == <<Enqueued("writeResult", 0, n), Enqueued("writeNonce", 0, n)>>

Solve(n) ==
  /\ Ready
  /\ Goes("idle", "clearing")
  /\ nonce' = n /\ caller' = "solve"
  /\ queue' = queue \o Setup(n)
  /\ UNCHANGED <<current_fill, current, result, result_l>>

\* The second enqueue throws.  (When the first does, nothing has changed.)
SolveSetupFails(n) ==
  /\ Ready
  /\ Leave("idle", Append(queue, Enqueued("writeResult", 0, n)))
  /\ nonce' = n

\* tune calls fill by itself.
CallFill ==
  /\ Ready
  /\ Goes("idle", "filling")
  /\ caller' = "fill" /\ current' = current_fill
  /\ UNCHANGED <<current_fill, nonce, result, result_l, queue>>

\* cancel = false;
ClearCancel ==
  /\ hostPc = "clearing" /\ hostPc' = "looping"
  /\ cancel' = FALSE
  /\ UNCHANGED <<configVars, current_fill, caller, nonce, current, result, result_l, queue, deviceVars>>

\* while (!cancel && result_l[1] == 0) fill ();
LoopFill ==
  /\ ~cancel /\ result_l[2] = 0
  /\ Walks("looping", "filling")
  /\ current' = current_fill
  /\ UNCHANGED <<current_fill, result, result_l, queue>>

LoopEnd == (cancel \/ result_l[2] # 0) /\ Decides("looping", "returning")

\* Mutation: the loop of fill ends at slab_entries.
MoreToFillNoBase == ~cancel /\ current < slab_entries
\* The sum is computed in a uint64_t.
MoreToFill == ~cancel /\ current < current_fill + slab_entries

FillEnqueue ==
  /\ MoreToFill
  /\ Walks("filling", "filling")
  /\ queue' = Append(queue, Enqueued("fill", current % 2 ^ LhsBits, nonce))
  /\ current' = (current + Stride(threads)) % 2 ^ HalfBits
  /\ UNCHANGED <<current_fill, result, result_l>>

FillFails == MoreToFill /\ Throws("filling", queue)

\* Where the next fill starts.
NextFill == (current_fill + slab_entries) % 2 ^ LhsBits

\* Cancelled or not, the next fill takes the next preimages.
FillEnd ==
  /\ ~MoreToFill
  /\ Walks("filling", "finishing")
  /\ current_fill' = NextFill
  /\ UNCHANGED <<current, result, result_l, queue>>

\* queue.finish ();
Finish == queue = <<>> /\ Decides("finishing", "filled")

FinishFails == Throws("finishing", queue)

FillReturn == caller = "fill" /\ Throws("filled", queue)

\* if (!cancel) search ();
FilledSearch ==
  /\ caller = "solve" /\ ~cancel
  /\ Walks("filled", "searching")
  /\ current' = 0 /\ result' = NoPair
  /\ UNCHANGED <<current_fill, result_l, queue>>

FilledCancelled == caller = "solve" /\ cancel /\ Decides("filled", "looping")

max_current == 2 ^ RhsBits - 1 - Stride(threads)

MoreToSearch == ~cancel /\ result[2] = 0 /\ current <= max_current

\* Mutation: the search does not advance.
AdvanceNot == current
\* Mutation: a kernel is taken to advance by the threads it was given, plus one.
AdvanceSkips == current + Stride(threads) + 1
Advance == current + Stride(threads)

SearchEnqueue ==
  /\ MoreToSearch
  /\ Walks("searching", "waiting")
  /\ queue' = queue \o <<Enqueued("search", current, nonce), Enqueued("read", 0, nonce)>>
  /\ current' = Advance
  /\ UNCHANGED <<current_fill, result, result_l>>

\* An enqueue throws, the kernel's or the transfer's.
SearchFails ==
  /\ MoreToSearch
  /\ \/ Throws("searching", queue)
     \/ Throws("searching", Append(queue, Enqueued("search", current, nonce)))

\* events[0].wait (); the transfer is the last command of the queue.
Wait == queue = <<>> /\ Decides("waiting", "searching")

\* The wait throws when the transfer, or the kernel before it, was given up
\* by the device.
WaitFails == Throws("waiting", <<>>)

\* result_l = search ();
SearchEnd ==
  /\ ~MoreToSearch
  /\ Walks("searching", "looping")
  /\ result_l' = result
  /\ current' = 0 /\ result' = NoPair
  /\ UNCHANGED <<current_fill, queue>>

SolveReturn == Throws("returning", queue)

-----------------------------------------------------------------------------
(* The other methods, called between two solves.                           *)

Between == hostPc = "idle" /\ UNCHANGED <<cancel, hostVars, deviceVars>>

\* Kernels still in the queue keep the buffers they were given.
NewBuffers ==
  /\ Between
  /\ queue' = [i \in DOMAIN queue |-> [queue[i] EXCEPT !.here = FALSE]]
  /\ current_fill' = 0
  /\ UNCHANGED <<threads, difficulty_m>>

\* The contents of a new buffer are undefined.
MemorySet(s) == NewBuffers /\ slab_entries' = s /\ slab' \in [Buffers(s) -> Contents]

\* A buffer cannot be had: the size has changed, and the memory must be set
\* again before the next solve (Tuning and CommandLine show that it is).
MemorySetFails(s) == NewBuffers /\ slab_entries' = s /\ slab' = NoSlab

MemoryReset == NewBuffers /\ slab' = NoSlab /\ UNCHANGED slab_entries

Settings(d, t) ==
  /\ Between
  /\ difficulty_m' = d /\ threads' = t
  /\ UNCHANGED <<slab_entries, slab, current_fill, queue>>

DifficultySet(d) == Settings(d, threads)

ThreadsSet(t) == Settings(difficulty_m, t)

-----------------------------------------------------------------------------
HostCall ==
  \/ \E n \in Nonces : Solve(n) \/ SolveSetupFails(n)
  \/ CallFill
  \/ \E s \in SlabSizes : MemorySet(s) \/ MemorySetFails(s)
  \/ MemoryReset
  \/ \E d \in Difficulties : DifficultySet(d)
  \/ \E t \in ThreadCounts : ThreadsSet(t)

HostStep ==
  \/ ClearCancel \/ LoopFill \/ LoopEnd
  \/ FillEnqueue \/ FillFails \/ FillEnd \/ Finish \/ FinishFails \/ FillReturn
  \/ FilledSearch \/ FilledCancelled
  \/ SearchEnqueue \/ SearchFails \/ Wait \/ WaitFails \/ SearchEnd
  \/ SolveReturn

Next == HostCall \/ HostStep \/ DeviceStep \/ Cancel

Spec == Init /\ [][Next]_vars

\* The host thread is scheduled and the device executes its queue.
FairSpec == Spec /\ WF_vars(HostStep \/ DeviceStep)

-----------------------------------------------------------------------------
(* Properties.                                                             *)

(***************************************************************************)
(* A kernel the current solve enqueued runs with the nonce of this solve,  *)
(* whatever transfers an earlier solve that was cancelled, or that threw,  *)
(* left in the queue to read a dead frame.                                 *)
(***************************************************************************)
KernelsHaveTheNonce ==
  queue # <<>> /\ Head(queue).op \in {"fill", "search"} /\ Head(queue).live
    /\ caller = "solve" => nonce_buffer = nonce

(***************************************************************************)
(* A solution solve returns passes (src/src/testing.cpp, line 57).         *)
(***************************************************************************)
ReturnedPairPasses ==
  hostPc = "returning" /\ result_l[2] # 0
    => result_l \in Passing[nonce][difficulty_m]

(***************************************************************************)
(* The driver implements Driver, what its caller relies on.  Each HALF of  *)
(* what solve returns belongs to a pair that passes: it is not left in the *)
(* result buffer by an earlier solve, nor by a kernel that an earlier      *)
(* solve left in the queue; with one work-item to a kernel the pair itself *)
(* passes.                                                                 *)
(***************************************************************************)
Contract == INSTANCE Driver WITH
  NoAnswer <- NoPair,
  MayThrow <- TRUE,
  required <- difficulty_m,
  alone    <- threads = 1,
  answer   <- IF hostPc = "returning" THEN result_l ELSE NoPair,
  phase    <- IF hostPc = "idle" \/ caller = "fill" THEN "idle"
              ELSE IF hostPc = "clearing" THEN "called"
              ELSE IF hostPc = "returning" THEN "answered" ELSE "working"

ImplementsDriver == Contract!DriverSpec

(***************************************************************************)
(* When the search begins, every preimage of the fill just made has its    *)
(* entry hold a preimage that belongs there, of the CURRENT nonce, in      *)
(* whichever slab it is; only the last stepping preimages of the 32-bit    *)
(* range may be missing, because there a work-item's range wraps.          *)
(***************************************************************************)
FillCovers ==
  hostPc \in {"searching", "waiting"} =>
    \A k \in 1 .. slab_entries :
      LET lhs == (current_fill - k) % 2 ^ LhsBits
          a   == StoreAddress[slab_entries][nonce][lhs]
      IN  lhs < 2 ^ LhsBits - Stepping =>
            a \in DOMAIN slab /\ StoreAddress[slab_entries][nonce][slab[a]] = a

(***************************************************************************)
(* A search that gives up has tried everything: unless cancelled, it ends  *)
(* without a result only when no right preimage up to max_current has a    *)
(* partner in the slab, provided the right preimage 0, whose success looks *)
(* like none and ends its work-item, has no partner either.                *)
(***************************************************************************)
SearchTriesAll ==
  hostPc = "searching" /\ ~cancel /\ result[2] = 0 /\ current > max_current =>
    \A rhs \in 0 .. max_current :
      Partner(nonce, rhs) \in Accepted[nonce][difficulty_m] =>
        Partner(nonce, 0) \in Accepted[nonce][difficulty_m]

(***************************************************************************)
(* How much is left of a call, or of a round of the loop of driver::solve: *)
(* the stages, and within the loops of fill and search the kernels still   *)
(* to enqueue.  The device has its queue, and a flag not set can be set.   *)
(***************************************************************************)
StagesLeft ==
  IF hostPc = "clearing" THEN 7
  ELSE IF hostPc = "filling" THEN 6
  ELSE IF hostPc = "finishing" THEN 5
  ELSE IF hostPc = "filled" THEN 4
  ELSE IF hostPc \in {"searching", "waiting"} THEN 3
  ELSE IF hostPc = "looping" THEN 2
  ELSE IF hostPc = "returning" THEN 1 ELSE 0

Remaining(at, bound) == IF at < bound THEN bound - at ELSE 0

KernelsLeft ==
  IF hostPc = "filling" THEN Remaining(current, current_fill + slab_entries)
  ELSE IF hostPc = "searching" THEN 2 * Remaining(current, max_current + 1)
  ELSE IF hostPc = "waiting" THEN 2 * Remaining(current, max_current + 1) + 1 ELSE 0

HostAdvances ==
  \/ StagesLeft' < StagesLeft
  \/ StagesLeft' = StagesLeft /\ KernelsLeft' < KernelsLeft

HostStays == StagesLeft' = StagesLeft /\ KernelsLeft' = KernelsLeft

DeviceAdvances == HostStays /\ Len(queue') < Len(queue)

FlagAdvances == HostStays /\ queue' = queue /\ ~cancel /\ cancel'

(***************************************************************************)
(* Nothing goes round in circles: but for a call, or another round of      *)
(* driver::solve, every step brings the host nearer to the end of its      *)
(* round, or the device to the end of its queue, or sets the flag.  The    *)
(* order is well founded, so no sum that wraps and no failure makes a fill *)
(* or a search of a slab go on for ever.                                   *)
(***************************************************************************)
RoundsAdvance ==
  [][HostAdvances \/ DeviceAdvances \/ FlagAdvances \/ LoopFill \/ HostCall]_vars

(***************************************************************************)
(* The host always comes back, out of every call or, in a solve that is    *)
(* not cancelled, to the loop of driver::solve: a fill ends, a search ends *)
(* found or not, and a solve that is cancelled returns.                    *)
(***************************************************************************)
MethodsEnd == []<>(hostPc = "idle" \/ (hostPc = "looping" /\ ~cancel))
=============================================================================
