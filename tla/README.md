# A TLA+ development of nano-pow

This directory specifies, model-checks and proves properties of nano-pow: a
proof-of-work that fills a table (the *slab*) with left preimages and then
tries right preimages against it, on the CPU with a pool of threads and on a
device through OpenCL.  Paths are as in `PROJECT.json`: the repository is
`src/`, its sources are `src/src/` and `src/include/`.

## 1. The system

| Component | State | Operations | Used by |
|---|---|---|---|
| command line program (`src/src/main.cpp`) | its options, the driver, the exit code | parse, construct, check, `profile`, `tune`, `dump`, `gtest` | the user |
| tuning (`src/src/tuning.cpp`) | locals of the two `tune` functions | measure, halve, double | the program |
| `driver` (`src/src/driver.cpp`, `src/include/nano_pow/driver.hpp`) | `cancel` | the loop fill - search of `solve`; `cancel_current` from any thread | the program, `tune` |
| `cpp_driver` (`src/src/cpp_driver.cpp` 331-503, 576-587) | slab and `size`, nonce, difficulty, `current`, `result_0`, `result_1` | `solve`, `fill`, `search`, `memory_set`, `memory_reset`, `threads_set`, `difficulty_set` | `driver::solve` |
| `thread_pool` (505-574) | vector of threads, `ready`, `operation`, a mutex, two condition variables | `barrier`, `resize`, `execute`, `stop`, `loop` | `cpp_driver` |
| `opencl_driver` (`src/src/opencl_driver.cpp`) and its kernels (`src/src/opencl_program.cl`) | buffers, `slab_entries`, `current_fill`, the command queue, the result and nonce buffers of the device | the same interface; kernels `fill` and `search` | `driver::solve` |
| OpenCL environment (`src/include/nano_pow/opencl.hpp`) | platforms and devices | enumerate, pick, throw | the program, `opencl_driver` |
| slab memory (`src/include/plat/*/memory.cpp`, `memory_set`) | the mapping, the size its deleter captured | `alloc`, `free_page_memory`, `memory_available` | `cpp_driver` |
| arithmetic (`src/src/cpp_driver.cpp` 231-329) | none | `reverse`, difficulties, `passes_sum`, `passes_quick`, `bucket`, `fill_count` | everything |
| `uint128_t` in two limbs (`src/include/nano_pow/uint128.hpp`, and in the kernels) | none | arithmetic, comparison, shifts, `%=` | hosts without a 128-bit integer; the kernels |
| SipHash (`src/src/cpp_driver.cpp` 31-229, and in the kernels) | none | `H0`, `H1` | verification, fill, search |
| xoroshiro128** (`src/include/nano_pow/xoroshiro128starstar.hpp`) | two words per worker | `next`, `jump`, `long_jump` | the workers of `cpp_driver` |

How they interact: the program constructs a driver, gives it memory, threads
and a difficulty, and calls `solve` many times.  `cpp_driver` hands two closures
to the pool with `execute` and waits with `barrier`; the workers write the slab
and read it *without* synchronisation and publish a solution in two atomics; any
thread may set `cancel`.  `opencl_driver` enqueues transfers and kernels in an
in-order queue which the device executes asynchronously; any of its calls may
throw.

What is hard here:

* The pool changes `operation` and `ready` outside the mutex, uses a condition
  variable without a predicate, and counts sleepers to implement the barrier.
* Shrinking the pool wakes everybody, so the remaining workers run the last
  job a second time while the client is in `resize`.
* The two halves of a solution are published separately, on the CPU and on the
  device, and a half of 0 means "nothing".
* `cancel` races with everything; `solve` itself clears it.
* On the device, commands of a solve that was cancelled or that threw are
  still in the queue when the next solve enqueues its own, and two of them read
  a stack frame that is gone.
* 32-bit preimages, 48-bit preimages and 64-bit products wrap at different places.
* Allocation fails at several points after `size` has already changed, and
  `tune` makes it fail on purpose.
* The kernels repeat the hash and the arithmetic of the host in another language.

`PROJECT.json` lists these as hazards, each at its line with the properties that
would catch it.  Two have none: the spurious wakeups and the assertion of `stop`, both in section 6.

## 2. The modules

| Module | Models | Kind |
|---|---|---|
| `Driver` | what a caller of `solve`, `cancel_current` and the settings may rely on | abstract contract |
| `CppDriver` | `cpp_driver` under `driver::solve`, on top of `WorkerBatch` | composition, implements `Driver` |
| `OpenCLDriver` | `opencl_driver` under `driver::solve`, the queue, the kernels, the exceptions | composition, implements `Driver` |
| `WorkerBatch` | what a client of the pool may rely on: a job is given to every member once, between two barriers nobody runs | abstract contract |
| `ThreadPool` | `thread_pool`, every interleaving of the client and the workers | detailed, implements `WorkerBatch` |
| `SlabMemory` | `memory_set` and `memory_reset` over the two platforms | detailed |
| `Tuning` | both `tune` functions | detailed |
| `CommandLine` | `main`: options, construction, `profile`, `tune`, exits; extends `Tuning` | composition |
| `Pow` | the arithmetic on whole words | operators |
| `Uint128` | the arithmetic on two limbs; extends `Pow`, its reference | operators |
| `Words` | `uint64_t` as sets of bit positions, at the real width | operators |
| `SipHash`, `OpenCLHash`, `Xoroshiro` | the hash of the host, the hash of the kernels, and the generator; each extends `Words` | operators |
| `PowLemmas` | division, powers of two, bits, least elements: what the other proofs cite; and lemmas on `Pow` | proofs |
| `PowProofs` (words and limbs), `WordsProofs` (the hash and the generator), `ThreadPoolProofs`, `CppDriverProofs`, `OpenCLDriverProofs`, `SlabMemoryProofs`, `CommandLineProofs` | theorems | proofs |
| `MC*` | values of the constants for TLC; `MCPow` and `MCWords` also walk over the inputs of the operators | instances |

    CommandLine -- Tuning
        :  (calls)
      Driver  <= CppDriver == WorkerBatch  <= ThreadPool
              <= OpenCLDriver
    CppDriver, OpenCLDriver -- Pow -- Uint128        SipHash, OpenCLHash, Xoroshiro -- Words

(`A <= B`: B implements A; `A == B`: A is built on B; `A -- B`: one extends the
other.)

**Driver** has a phase, the flag `cancel`, the nonce and the difficulty of the
call, whether at most one thread searches, and the answer.  `Answer` allows only
`Genuine` results: nothing, if cancelled after the call cleared the flag;
otherwise halves that belong to pairs that pass for *this* nonce and difficulty,
and, when one thread searches, halves of the same pair.  `Throw` is for drivers
that may throw.  Its `Answer` is weaker than what the tests expect, because the
code is (see the violations).

**ThreadPool.**  A stretch of code that holds the mutex without sleeping is one
action.  `execute` writes `operation`, then `ready`, then notifies, without the
mutex: three actions (`StoreOperation`, `ResetReady`, `NotifyStart`) with worker
steps between them.  `resize` keeps its lock across several actions
(`clientPc = "resizing"`), releases it only in `join`.  A worker is *entering*
(before the while condition), *waiting*, *woken* (notified, mutex not yet
reacquired), *running* or *exited*.  `fresh` and `calls` are history: how often
each worker has called the operation of the last `execute`.

**WorkerBatch** has no mutex, counter or condition variable.  `Remove` allows
any set of remaining members to be given the job again, which is what waking
everybody amounts to.  `CppDriver` instantiates it: the client takes the steps
`Settle`, `Assign`, `Launch`, `Release` of the contract, a worker's call of the
closure lies between `Begin` and `Finish`.

**CppDriver.**  The public methods and each statement of `fill_impl`,
`search_impl` and `driver::solve` that another thread can observe are actions:
the test of `cancel`, each store to the slab, the two stores of a result.
Abstractions, and why they lose nothing:

* The condition `!cancel && result_0 == 0` is one step: a worker that stops (or
  goes on) because it read an older value of one of them behaves like one that
  tested a moment earlier or later.
* The probe loop of `search_impl` (up to `stepping` probes) is one step,
  `ProbeMiss` or `ProbeHit`: nobody stores to the slab while a search runs
  (`SlabInUse`, and the job is the same for all the workers).
* The copies `nonce_l`, `size_l` and `slab_l` are the members themselves: they
  cannot change while a job runs, which is again `SlabInUse`.
* The generator is a free choice of the right preimage, and the hashes are
  arbitrary constants `H0`, `H1`; their own modules say what they are.
* `solve` is called with a slab and a difficulty, which `CommandLine` shows of
  the program.  One client thread calls the methods.

**OpenCLDriver.**  The queue is a sequence of commands with the arguments
`clSetKernelArg` had given the kernel when it was enqueued; the device executes
the first one at any time.  A command is `live` while the call that enqueued it
goes on: a transfer from or to the frame of a call that ended reads `Garbage`.
It is `here` while the buffers it captured are those of the driver.  A kernel is
one step with every outcome of its work-items' stores: any order for the slab,
any mixture of the two words for the result.  Every enqueue may throw, so may
`queue.finish` and the wait for the result; each leaves `solve` or `fill` with
what it had enqueued still in the queue.  A wait that throws takes the queue with
it: the device gave up on the commands before the transfer.

**SlabMemory.**  `slab` is what the `unique_ptr` points to together with the
size its deleter captured; `mapped` counts the bytes the process holds.
`Allocations` is what `alloc` can return on each platform, and whether it sets
`error`.

**Tuning and CommandLine.**  Each iteration of each loop of a tune is an action
for *faster*, one for *slower*, one for *fails* and one for the end of the loop.
A measurement is any duration, a request for memory may fail at any time, and
the options are any of a set that has legal and illegal values of each.
`measured`, `measuredThreads` and `failed` are history.

**Pow and Uint128.**  All widths derive from `Scale` (5 in the code: left
preimages of 32 bits, right 48, halves 64, sums 128) so that the proportions,
and hence the wraps, are those of the code.  Undefined shifts are sets of
outcomes (`SpilledUp`, `SpilledDown`).

**Words, SipHash, Xoroshiro.**  A word is the set of the positions of its bits
that are 1: rotation, shift, exclusive or and addition with carries are then set
operations at the real width, and no number is too large for TLC.  The kernels
have a second text of the same SipHash-2-4 (`opencl_program.cl`, lines 76 to 248):
bytes in a loop, rounds, constants and rotations of their own.  `OpenCLHash`
transcribes it separately, from `kernel_ROTL` to `kernel_H1`, and shares nothing
with `SipHash` but the words.  Of `next` the new state is modelled and not the
number it returns.

Some operators are marked `\* Mutation:`.  Nothing uses them: each is a
plausible defect of the definition after it, and the property named for it in
`PROJECT.json` is violated when it replaces that definition.

## 3. The runs

| Run | Shows | Instance |
|---|---|---|
| `driver` | `cpp_driver` implements `Driver`; a search yields; a fill covers; the slab is not taken from a worker; a resize is harmless; every step brings a round or a job nearer to its end; cancelled solves and resizes return | 2 workers, 2 nonces, 2 difficulties, slabs of 1, 2, 4 entries (140 200 states) |
| `driver_torn` | **violation**: with two workers the returned pair need not pass | 2 workers |
| `opencl` | `opencl_driver` implements `Driver` whatever throws; kernels run with the nonce of their solve; the slab is filled, in one buffer or four; the search is exhaustive; every step brings a round or the queue nearer to its end; the loops end | 1 or 2 work-items, slabs of 2 and 4 entries, a left-over command (589 170 states) |
| `opencl_torn` | **violation**: two work-items leave the words of two pairs | 2 work-items |
| `pool` | The pool's invariants; that it implements `WorkerBatch`; that nobody sleeps unnoticed and every step of a call brings it nearer to its end; that `barrier`, `execute`, `resize`, `stop` return | 3 threads, 2 operations (6 247 states) |
| `command_line` | No solve without memory, difficulty and an initialized driver, whatever the options and whatever failed; the recommended memory is the best measured; the cpp tune looked in both directions, but for the way up after a failure; every step brings the end nearer; the program ends | legal and illegal options, lookups up to 6, 4 durations (55 361 states) |
| `tuning_directions` | **violation**: the cpp tune need not look upwards | same |
| `tuning_threads` | **violation**: the recommended thread count may never have been tried | same |
| `memory` | The slab is at least `size`; nothing leaks or is freed with the wrong size | both platforms, 10 sizes (116 states) |
| `memory_windows` | **violation**: a failed `VirtualAlloc` is not reported | Windows |
| `pow` | `passes_sum` is the equation of the README but for one sum; the quick test drops no solution; partners share a bucket; 64- and 128-bit difficulties agree; `fill_count` fits 32 bits; the two-limb integers are integers | all pairs of 8-bit words, `Scale = 1` (65 536 states) |
| `words` | `jump` and `long_jump` are as long as their comments say; the stretches from which the workers draw have nothing in common; the hash is SipHash-2-4; the kernels hash as the host does | 64-bit words, messages up to 24 bytes (154 states) |

The types have no run of their own: `PoolInv` contains those of the pool, and the
theorems `TypesKept` and `MemoryTypes` prove `TypeOK` of the other modules for
every instance.

### The violations

* `driver_torn`, `opencl_torn`: `result_0`/`result_1` (lines 471, 472) and
  `result_a[0]`/`result_a[1]` (`opencl_program.cl` 315, 316) are written without
  any ordering between writers.  The tests expect a result that passes.  What
  does hold is `Driver`: each half belongs to a pair of this nonce and
  difficulty.
* `memory_windows`: `error` is set only inside the branch for large pages.
* `tuning_directions`: the comment at `tuning.cpp` 62 says "Go down and then up in
  memory until a worse configuration is found in both directions".  When the
  first memory below the one the tune begins with cannot be had, the error of
  its `memory_set` (90) is still set at the loop that goes up (94), which is
  not entered: twice the initial memory is never tried.  `BothDirections` is what
  does hold, with this one exception (`UpwardsSkipped`).
* `tuning_threads`: the loop ends past `max_threads` with a doubled number.

### Bounds, and why they are enough

* *Pool*: three threads are the least for which one `resize` retires two while
  a third runs the operation again; two operations tell a new one from an old.
  The proofs remove the bound.
* *CppDriver*: the tables in `MCCppDriver` are chosen so that the hard cases
  occur: solutions with a left half or a right half of 0, a pair that passes only
  the quick test, two left preimages in one bucket, no half common to both
  nonces.  `Stepping = 3` makes a stride overlap the next range.  Two workers are
  enough for a race of publications, for a survivor of a shrink, and for claims
  that meet; two difficulties for one that changes between solves.  The proofs
  remove the bounds for all but the liveness.
* *OpenCL*: the tables in `MCOpenCLDriver` likewise.  A slab of 2 entries is in
  one buffer, one of 4 is larger than the device allows and in four.
  `Backlog = 1` lets a method begin with a command of a dead call in the queue
  (a call that is itself abandoned leaves more, of which the device must execute
  all but one first).  The proofs remove the bounds for all but the liveness.
* *Command line*: `MinLookup` and `MaxLookup` (18 and 32 in the code) are 3 and
  6, with tables below and above; the durations let a tune improve three times
  in a row and then stop, in every order.  The proofs remove the bounds for all
  but `ProgramEnds`.
* *Memory*: sizes on both sides of a large page.
* *Arithmetic*: with `Scale = 1` a word has 8 bits and all pairs are tried; the
  carries, the exchange of halves and every bucket mask are exercised.  The
  proofs of `PowProofs`, those of the two limbs included, are for every `Scale`.
* *Words*: `next` is linear, so the 128 states of one bit decide `JumpsAreFar`
  for every state (`OneBitsSuffice`), and doubling the leap 64 or 96 times reaches the 2^64 or 2^96
  calls of the comments.  The same walk goes on to 2^128 calls: the stretches of
  three workers follow one another, 2^64 calls each (`StretchesAreApart`), and the
  seed returns after 2^128 - 1 calls and after no quotient of that number by one
  of its primes, so the stretches do not come round to the first.
  `HashIsSipHash` compares with published vectors, with and without bytes left
  over after the last word.  `KernelHashesAlike` compares the two texts on the
  messages of 0 to 24 bytes, with 8 and with 16 bytes of output, and H0 and H1 on
  those long enough to be split into a nonce and an item; the theorem is for
  every item and nonce.

`CHECK_DEADLOCK FALSE` appears where the system stops: the program exits
(`command_line`, `tuning_directions`,
`tuning_threads`), and the walks of `words` end.

### Fairness

*CppDriver and ThreadPool*: weak fairness of the client's steps and of every
worker's steps; they are threads of the operating system, and closures return.
Nothing obliges the client to *call* a method, so calls are outside the fair
actions, and no fairness is assumed of `Cancel`.  The prng is not assumed to hit
a solution: `WorkerStep` is fair, `ProbeHit` by itself is not, so that
`MethodsEnd` promises a return only when cancelled or when a solution has been
stored.  It excludes two things the code does not promise: a `cancel_current`
that comes before `solve` clears the flag is lost, and a left half 0 looks like
"nothing found".

*OpenCLDriver*: weak fairness of host and device together, `HostStep \/
DeviceStep`: one of them can always go on, and a host that waits depends on a
device that executes.  Nothing is assumed of exceptions, which end a call.
`OpenCLAssumption` asks that the 32-bit product `thread_count * stepping` does not
wrap.  With 2^24 threads it is 0 and the loops do not advance; with more they
advance by less than their kernels cover, and the last kernels of a search try
right preimages of more than 48 bits.

*CommandLine*: weak fairness of `Next`, one thread.  That a solve returns is
assumed there; its duration is a choice.

## 4. What is proved

TLAPS checks these for every value of the constants, from the assumptions named
in the modules, which TLC evaluates on every run:

* `ConstantsAssumption`, `DriverAssumption`, `OpenCLAssumption`, `MemoryAssumption`,
  `ScaleAssumption`, `CommandLineAssumption`: types of the constants, hashes that
  yield words, a stride that does not wrap, options that are unsigned numbers;
  `DriverAssumption` also that a `uint64_t` holds 2^32 and one `Stepping` more, as it
  does by far;
  `TuningAssumption` adds that the limits of a tune are in order, and that a
  measurement is shorter than `Longest`, the largest duration, where the code
  starts.
* `PowersOfTwo`, in `Pow` and in `Tuning`: `2^(n + 1) = 2 * 2^n` up to the width,
  and, in `Tuning`, powers are not 0.  It is a law of arithmetic and no assumption
  on the code, but the provers leave `^` uninterpreted; everything about powers
  in the proofs follows from it.

| Theorem | States |
|---|---|
| `PassingIsTheEquation` | `passes_sum` is the equation of the repository's `README.md`, but for one sum |
| `QuickTestIsAFilter` | the test `sum & difficulty_inv = 0` drops no sum that passes, and inverses of difficulties are masks |
| `LookupIsComplete` | the right preimage of a solution looks into the bucket of its left one |
| `SixtyFourBitsSurvive` | difficulties survive the conversion to 128 bits and back |
| `FillsFitAndSuffice` | the preimages of a fill fit 32 bits, and are not fewer than the buckets (by more than the one of the largest slab) |
| `LimbsCompute` | `uint128_t` in two limbs computes as one number of twice the width: `<`, `==`, `+`, `-`, shifts, `%` |
| `KernelsAgree` | the host with limbs, the host with 128-bit integers and the kernels decide alike on every sum and difficulty |
| `KernelsHashAsTheHost` | H0 and H1 in the text of the kernels are those in the text of the host, for every item and nonce |
| `LeapsAreCalls` | the walk of `words` holds what 2^exponent calls of `next` do to the states of one bit |
| `OneBitsSuffice` | where `JumpsAreFar` holds of those 128 states, `jump` is 2^64 and `long_jump` 2^96 calls of `next` from every state |
| `PoolInvariant`, `TypeCorrect` | the inductive invariant of the pool, and its types |
| `BarrierIsSound` | past a barrier every thread of the pool is asleep and no other exists |
| `ExecuteIsServedOnce` | at the first barrier after an `execute` each worker has run it exactly once |
| `SlotsAreInBounds` | `loop` never reads `threads[i]` past the end |
| `NobodyIsForgotten` | a client asleep in `barrier` has a worker awake that has yet to raise `ready`; a thread being joined is awake or gone |
| `CallsDoAdvance` | every step of a call lowers a measure of the call, its workers and the client's test |
| `PoolImplementsBatch` | the pool implements `WorkerBatch` |
| `CppDriverProofs!TypesKept` | the types of `cpp_driver`: the 64-bit counter of a fill, 32-bit and 48-bit halves |
| `SearchesYield` | a search by at least one worker that was not cancelled comes back with a right half |
| `SlabStaysInUse` | no worker loads or stores without a slab or outside a solve |
| `ResizesAreHarmless` | a resize changes neither slab nor result, though jobs run again |
| `CppDriverProofs!FillsCover` | when a search begins, each bucket a preimage of the fill hashes to holds one that hashes there |
| `CppDriverProofs!RoundsDoAdvance` | but for a call, another round of `driver::solve` and more probes, every step lowers a measure of the round or of a job |
| `DriverIsImplemented` | `cpp_driver` implements `Driver` |
| `OpenCLDriverProofs!TypesKept` | the types of `opencl_driver`: queue, buffers, locals |
| `KernelsRunTheirNonce` | a kernel of this solve runs with the nonce of this solve |
| `OpenCLDriverProofs!FillsCover` | the same of the kernels and of one or four buffers |
| `SearchesTryAll` | when a search of the device gives up on a range, it has tried every right preimage of the kernels it enqueued |
| `OpenCLDriverProofs!RoundsDoAdvance` | but for a call and another round, every step of host or device lowers a measure of the round or of the queue |
| `OpenCLDriverIsImplemented` | `opencl_driver` implements `Driver` |
| `MemoryTypes`, `MemoryNeverLeaks`, `SlabIsLargeEnough` | types; `mapped = slab.bytes`; a slab holds `size` entries |
| `CommandLineProofs!TypesKept` | the types of the program and its tunes |
| `ProgramDoesAdvance` | every step of the program and of a tune lowers a measure of what is left |
| `CallsAreLegal` | the program calls the driver only as its assertions allow, whatever the options and the failures |
| `MeasuredWithMemory` | no solve is measured, and no thread count tried, on a driver whose `memory_set` failed |
| `TheBestIsFound` | the memory a tune recommends is the best it measured |
| `BothAreTried` | the tune of `cpp_driver` ends only where half and twice its best are settled, but for the case of `tuning_directions` |

**The arithmetic.**  The provers know neither `^` nor induction over an operator, but
a *set* of numbers that contains 0 and with each number the next contains them
all: `LeastExists` (a non-empty set of naturals has a least element, from the
well-foundedness of `<`) gives `UpTo`, and that gives `RecursionExists` for functions
defined along `0 .. n`, of which `FromBits` is one.  So a number is determined by
its bits (`BitsDetermine`), `reverse` and `And` have the bits they should, and the
theorems compare numbers by their bits: a sum is divisible by `2^D` iff its lower D
bits are 0 iff the upper D of its reverse are, which is what a comparison with a
difficulty that has its ones there decides.

**The limbs.**  A number of two words is `upper * 2^w + lower`, and each operator of
`uint128_t` is one case distinction away from that: a carry or a borrow of the
lower word (`SumsAgree`, `DifferencesAgree`), a word cut in two by a shift that
moves one part of it into its neighbour (`LeftShiftsAgree`, `RightShiftsAgree`, a
shift by 0 and by a word or more being cases of their own, as in the code), an
exchange of reversed halves (`ReversesAgree`).  The `%=` of the header is two
loops.  `LoopExists` says that a loop which counts down is a function, so
`RemaindersAgree` can say what they leave: the first aligns the divisor, and
`AlignedIs` says that it stops without losing a bit, with more than half of the
dividend; the second subtracts and shifts back, and the remainder stays below
twice the shifted divisor.

**The hash.**  `siphash` and `kernel_siphash` are two texts of one algorithm, compared
part by part: the rotations and the macros of a round (`TurnsAre`, `RoundsAgree`,
`ManyRoundsAgree`), the vector the key
gives (`KeysAgree`), one word of a message (`WordsAbsorbed`), the word with the
length and the bytes left over (`NothingLeft`).  What is hashed is memory: the
host and the kernels look at item and nonce as at bytes
(`BytesInOrder`, `MemoryOfOne`, `MemoryOfTwo`), and the bytes of a word make that
word again (`BytesMakeWord`).  So in both texts the loop runs once, absorbs the
item (`HashOfItem`, `ItemAbsorbed`) and leaves nothing over.  The two halves of the
nonce differ in how their top bit is set and cleared, which comes to the same.

**The generator.**  A state is the sum (exclusive or) of states of one bit, and
`next` is linear because shifts and rotations give each bit a place of its own
(`ShiftsAdd`, `NextAdds`); so are the loops of the jumps, each pass of which either adds
the state or not (`TakenAdds`, `LeapIsLinear`).  What a linear function does to a
state is then the parity of what it does to its bits (`OneBitsDecide`), which is
also why the sums of the walk in `MCWords` double the number of calls.  TLC computes
`JumpsAreFar` for the 128 states; the proof extends it to all.

**The pool.**  `BarrierSeparates` is not inductive: `ready = size` only means
"all asleep" if `ready` *counts* the sleepers.  `PoolInv` adds `Ownership` (a
worker exists iff its number is below `size`; the only empty slot is the last
one, while it is being joined), `ReadyCountsWaiting` (`ready` is the number of
workers in `start.wait`, except between the two statements of `execute`, where
it is 0 and they still sleep) and `Progress` (as long as no resize came, a
worker's count of calls is determined by where it is).  The cardinality lemmas
say that a set of workers that has as many elements as the pool is the whole
pool.  The refinement maps `members` to the slots that are not empty, `pending`
to the woken workers, and `phase` to what the client's position means; most
steps stutter, and `Retire` maps to `Remove` with the sleepers as those who run
again.

**`cpp_driver`.**  `DriverInv` says where the client is says what the pool does
(`ClientKept`, `PoolKept`, `WorkersKept`), and:

* `JobIsOver`: outside a solve the last job of the pool is none, or cancelled, or
  a search with a result.  This is why a resize, which makes workers run that job
  again, is harmless, and without it neither `SlabInUse` nor `ResizeHarmless` is
  inductive.
* `HalvesFollow`: a stored left half is followed by its right one; with
  `SearchGoesOn` this gives `SearchYields`.
* `Published`: what is published in this solve is halves of solutions, each worker
  on its way to publish holds a solution with a right half that is not 0, and with
  one worker the two published halves are one pair.
* `Held`: what `driver::solve` holds is `Genuine`.

The refinement maps each step of the client to a step of `Driver` or a stutter;
no worker's step is seen by the caller.

`FillCovers` needs `FillKept`: `current` is the number of workers that have claimed
times their share, so the claims are the preimages below it, without a gap, and
each is in its bucket or was overwritten there by one that hashes to the same
bucket under this nonce, or its store is still before a worker that runs (`Stored`,
`ToStore`).  Nothing is said of the order of the stores: a race for a bucket does
not matter.

**`opencl_driver`.**  `QueueInv` is about what the queue holds:

* `QueueKept`: the commands of dead calls come before the live ones; a read is
  only ever the last command, while the host waits for it; a live search has the
  threads and the difficulty of the driver, and its buffers.
* `Transferred`: of each of the two transfers of a solve, either it is in the
  queue with nothing of this solve before it that could use what it writes
  (`Pending`), or it has been executed, everything dead was executed before it
  (`Done`), and the buffer holds what it wrote: the nonce, or a result that is
  empty or halves of solutions (`Mixed`).
* `Held`: the same of the locals `result` and `result_l`.

The order of the queue is the whole argument: a dead transfer writes garbage to
the nonce or to the result, but before ours overwrites it.  What the search
kernel finds is a partner at the *least* preimage that hits, which exists by
`LeastExists`.

The second half of `OpenCLDriverProofs` adds what the kernels have *done*, which
depends on what is in the queue:

* `FillKept`: the buffers are those of the slab (`SlabKept`), a search finds no fill
  kernel in the queue (`KernelsKept`), and each preimage of this fill has a live
  kernel in the queue that will store it, or nothing dead is left in the queue
  and its bucket is good (`ProgressKept`).  A dead kernel may overwrite a bucket
  with what hashes there under another nonce, but it is executed before the live
  kernels.
* `TriedKept`: where the host has no right half it has tried everything below
  `current`; while it waits, everything below the range of the kernel in the queue.
  The argument excludes a nonce for which the right preimage 0 belongs to a
  solution: a result of 0 means "nothing" to the host, and `SearchTriesAll` says so.

**The memory.**  The invariant adds that what the deleter captured is the size
that was asked for, so that `munmap` gives back what was mapped.  The lemma
`RoundUp` says that rounding to a large page never rounds down.

**The program.**  `Kept` is one invariant for both tunes and for `main`.  What makes
`BestIsBest` inductive is where the measured memories lie: while a tune goes down,
all of them are above the memory it holds and the last is the best
(`DownKept`, `BestKept`); while it goes up, all are below, and half of the best is
settled, that is measured, or failed, or outside the limits (`UpKept`).  A failure
on the way down while the best is still the initial memory is what keeps
the tune from going up: `UpKept` and `CppDoneKept` carry it to the end.  So a
memory that turns out slower ends its direction with the best of all that were
measured still in `best_memory`.  That the calls are legal is `MainKept` together with:
a legal memory is `4 * 2^k` bytes, so halving one that is above `min_memory` gives a
legal one, and `FirstKept` never halves below it.  The tune of `opencl_driver` is
the exception, and `Small` says what it may ask for: 2, 1 or 0 bytes.

**What ends.**  That something happens *eventually* cannot be proved here, but what
makes it so can: every step lowers a measure in a well-founded order, and whoever
waits has somebody to wait for.  Both are about single states and steps.

* *Pool*: the measure of a call is (`StepsLeft`, the sum of `Toil`, `Alert`): what
  the client has still to do, how far each worker is from its next sleep, and
  whether the client has to test the predicate again.  Notifying everybody raises
  the toil of all, but only the client's own steps do it (`Retire`,
  `NotifyStart`).  `NobodyForgotten` says that a client asleep has a worker awake;
  it needs `Noticed`, that the count is not complete while the client sleeps and
  that the thread in `join` was woken after its slot was emptied.
* *`cpp_driver`*: (`StepsLeft`, then per worker `StagesLeft`, `ClaimLeft`,
  `StretchLeft`).  A fill runs over its claim, and past it to the end of its last
  stretch of `stepping` preimages, where the claim no longer shrinks.  Neither
  the counter nor `cursor + stepping` wraps: the claims of a fill are of 32 bits
  (`ClaimsFit`), and the cursor is below the end of its stretch (`StretchKept`).
  Were the end of a stretch to wrap, the inner loop would be empty and the
  outer one would spin: `DriverAssumption` excludes it.  `Apart`, that
  nobody is told to begin a job it is inside, keeps `StagesLeft` unambiguous.  In a
  resize `ResizeAdvances` counts threads to add, to retire and to join.  What is
  exempt is what may really go on: more probes (`SearchTest`), another round of the
  loop of `driver::solve` (`LoopFill`), and the next call.
* *`opencl_driver`*: stages, then in `fill` and `search` the distance to the end
  of the loop, which a kernel shortens by `Stride`: `FillStrides` shows that
  no sum of a fill wraps on the way.  The device has its queue.
* *Program*: stages of `main`; in a tune the loops left, then the best duration,
  which a faster measurement lowers, then the memory that a failing request
  halves (`HalvingShrinks`).

`NobodyForgotten` and the four action properties are checked by TLC too.

**Only model-checked.**  Liveness under fairness (`MethodsReturn`, `MethodsEnd`,
`ProgramEnds`) and ENABLED are out of the prover's reach: what is missing between
the measures and these is that a step is always possible and fairly taken, which
the runs check.  `JumpsAreFar`, `StretchesAreApart` and `HashIsSipHash` are
computations on particular 64-bit constants and vectors: `Words` has the real
width, so the check decides them, and `JumpsAreFar` for every state by
`OneBitsSuffice`.

## 5. Coverage of the code

Of the 16 073 lines of the repository's implementation, 13 408 are
`src/include/OpenCL/cl.hpp`, a third-party wrapper of the OpenCL API.  Of the rest
the map names about two thirds: `cpp_driver.cpp` but its includes, the printing
and the accessors; `opencl_driver.cpp` but `initialize` and the messages;
both memory files; `tuning.cpp` and `main.cpp` but their messages; the parts of
`uint128.hpp` the algorithm computes with.

## 6. What is not modelled

* **Spurious wakeups** of `start.wait`.  The pool has no predicate there.  With
  one, a worker runs the last operation again and is counted in `ready` twice:
  a barrier may wait for ever, or return while another worker runs, so that it no
  longer separates one job from the next.  `ThreadPool` supposes that `start.wait`
  returns only when notified, and so do the theorems.
* The second assertion of `thread_pool::stop` (`assert (!operation)`, line 549).
  `execute` sets `operation` (539) and nothing clears it, so after any `execute`
  the assertion is false.  It needs no run to see, and no code in the
  repository calls `stop`; `ThreadPool` models the rest of it.
* `opencl_driver::initialize` and `opencl_environment` beyond their outcome
  (success, an exception `main` catches, one that nobody catches): choosing a
  platform and a device by index, compiling the program, formatting errors.
* What the program prints, `dump`, and `profile_validation`, which changes no
  state of the drivers: they are exits.
* Of `uint128_t`, multiplication and the operators the algorithm does not use.
* `src/include/OpenCL/cl.hpp` and `src/include/nano_pow/plat.hpp`: vendored code and
  compiler attributes.  The queue is modelled from its use in `opencl_driver`.
* `src/src/testing.cpp`: its assertions are properties of the modules.
* A driver destroyed by another thread during a `solve`, and two clients of one
  driver: the interface excludes them, and no caller does either.
* The public `fill ()` and `search ()` of `cpp_driver` outside `solve`: nothing in
  the repository calls them so.

`long_jump` is modelled and checked although nothing in the repository calls it.

## 7. Plan

Done, in this order: the pool and its proofs; the arithmetic; `CppDriver`;
`OpenCLDriver`; `Uint128`; `SlabMemory` and its proofs; the contract `Driver` and
the two refinements, checked and proved; the hash and the generator; the program
with its tunes; the proofs of the arithmetic, of the fills and of the program; the
proofs of the limbs, of the hash and of the generator; the measures that make the
calls, the rounds and the program end.

Left:

1. `ThreadPool` with a predicate in `start.wait`, as a design: which of the
   pool's properties then hold under spurious wakeups.
