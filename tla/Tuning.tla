--------------------------------- MODULE Tuning ---------------------------------
(***************************************************************************)
(* nano_pow::tune (src/src/tuning.cpp): the search for the memory and the  *)
(* threads with which a driver solves fastest, once for cpp_driver (lines  *)
(* 29 to 111) and once for opencl_driver (lines 113 to 228).               *)
(*                                                                         *)
(* A measurement (solve_many) yields any duration; memory_set may fail at  *)
(* any time: that of cpp_driver returns an error, and what opencl_driver   *)
(* does may throw.                                                         *)
(***************************************************************************)
EXTENDS Integers, FiniteSets

CONSTANTS MinLookup, MaxLookup,   \* 18 and 32 in the code
          MaxThreads,             \* opencl_driver::max_threads ()
          Durations,
          Longest                 \* duration::max ()

ASSUME TuningAssumption ==
  /\ MinLookup \in Nat \ {0} /\ MaxLookup \in Nat /\ MinLookup <= MaxLookup
  /\ MaxThreads \in Nat
  /\ Durations \subseteq Nat
  /\ Longest \in Nat /\ \A d \in Durations : d < Longest

\* The law of powers that halving and doubling rest on.  TLC evaluates it; the
\* provers, which know nothing of ^, take it from here.
ASSUME PowersOfTwo ==
  \A n \in 0 .. MaxLookup : 2 ^ n \in Nat \ {0} /\ (n > 0 => 2 ^ n = 2 * 2 ^ (n - 1))

entry_size == 4
lookup_to_entries(lookup)  == 2 ^ lookup
entries_to_memory(entries) == entries * entry_size

min_memory == entries_to_memory(lookup_to_entries(MinLookup))
max_memory == entries_to_memory(lookup_to_entries(MaxLookup))

VARIABLES
  pc,
  initial,                  \* initial_memory_a
  memory, threads, error,   \* locals
  best_duration, best_memory, best_threads,
  held,                     \* the memory the driver has, in bytes, 0 if none
  measured,                 \* history: the duration measured, by memory held
  measuredThreads,          \* history: the threads measured
  failed                    \* history: the memories that could not be had

arguments == <<initial, memory, threads, error>>
bests     == <<best_duration, best_memory, best_threads>>
seen      == <<measured, measuredThreads>>
driverMemory == <<held, failed>>
tuneVars  == <<pc, arguments, bests, driverMemory, seen>>

Loops ==
  { "first", "down", "up", "upSolve",    \* the three loops of the cpp tune
    "max", "best", "solve", "threads" }  \* the three of the OpenCL one
Ends ==
  { "cppDone", "oclDone",   \* returned false
    "failed" }              \* returned true, or threw

TuneTypeOK ==
  /\ pc \in {"idle"} \cup Loops \cup Ends
  /\ initial \in Nat /\ memory \in Nat /\ threads \in Nat
  /\ error \in BOOLEAN
  /\ best_duration \in Durations \cup {Longest}
  /\ best_memory \in Nat /\ best_threads \in Nat
  /\ held \in Nat /\ failed \subseteq Nat
  /\ DOMAIN measured \subseteq Nat /\ \A m \in DOMAIN measured : measured[m] \in Durations
  /\ measuredThreads \subseteq Nat

TuneInit ==
  /\ pc = "idle"
  /\ initial = 0 /\ memory = 0 /\ threads = 0 /\ error = FALSE
  /\ best_duration = Longest /\ best_memory = 0 /\ best_threads = 0
  /\ held = 0 /\ failed = {}
  /\ measured = [m \in {} |-> 0] /\ measuredThreads = {}

-----------------------------------------------------------------------------
\* memory_set (m): the slab it had is given up in any case.
Fits(m)  == held' = m /\ UNCHANGED failed
Fails(m) == held' = 0 /\ failed' = failed \cup {m}

\* solve_many, with the memory and the threads the driver has.
Measure(d) ==
  /\ measured' = [m \in DOMAIN measured \cup {held} |-> IF m = held THEN d ELSE measured[m]]
  /\ measuredThreads' = measuredThreads \cup {threads}

Faster(d) == d < best_duration

\* Mutation: the memory that could not be had is tried again.
HalvedNot == memory
Halved    == memory \div 2

\* Mutation: only the duration is kept.
KeepDuration(d) == best_duration' = d /\ UNCHANGED <<best_memory, best_threads>>
Keep(d) == best_duration' = d /\ best_memory' = memory /\ UNCHANGED best_threads

Goto(s) == pc' = s /\ UNCHANGED initial

Called(m, t) ==
  /\ pc = "idle"
  /\ initial' = m /\ memory' = m /\ threads' = t
  /\ UNCHANGED <<bests, driverMemory, seen>>

-----------------------------------------------------------------------------
(* The tune of cpp_driver.                                                 *)

CppTune(m, t) == Called(m, t) /\ error' = FALSE /\ pc' = "first"

\* Halve the memory until it can be had.
FirstFits ==
  /\ pc = "first"
  /\ Fits(memory)
  /\ error' = FALSE
  /\ Goto("down")
  /\ UNCHANGED <<memory, threads, bests, seen>>

FirstFails ==
  /\ pc = "first"
  /\ Fails(memory)
  /\ error' = TRUE
  /\ IF memory > min_memory
     THEN memory' = Halved /\ Goto("first")
     ELSE Goto("failed") /\ UNCHANGED memory
  /\ UNCHANGED <<threads, bests, seen>>

\* Mutation: the error of the way down is forgotten.
GoingDownAnyway == memory >= min_memory
GoingDown       == ~error /\ memory >= min_memory
GoingUp         == ~error /\ memory <= max_memory

\* Go down in memory while it is faster.
DownFaster(d) ==
  /\ pc = "down" /\ GoingDown
  /\ Measure(d) /\ Faster(d) /\ Keep(d)
  /\ memory' = Halved
  /\ \/ Fits(memory') /\ error' = FALSE
     \/ Fails(memory') /\ error' = TRUE
  /\ UNCHANGED <<pc, initial, threads>>

\* Mutation: going up begins twice as far.
UpwardsFar == initial * 4
Upwards    == initial * 2

DownSlower(d) ==
  /\ pc = "down" /\ GoingDown
  /\ Measure(d) /\ ~Faster(d)
  /\ memory' = Upwards
  /\ Goto("up")
  /\ UNCHANGED <<threads, error, bests, driverMemory>>

DownEnd ==
  /\ pc = "down" /\ ~GoingDown
  /\ memory' = Upwards
  /\ Goto("up")
  /\ UNCHANGED <<threads, error, bests, driverMemory, seen>>

\* Go up in memory while it can be had ...
UpFails ==
  /\ pc = "up" /\ GoingUp
  /\ Fails(memory)
  /\ error' = TRUE
  /\ Goto("cppDone")
  /\ UNCHANGED <<memory, threads, bests, seen>>

UpFits ==
  /\ pc = "up" /\ GoingUp
  /\ Fits(memory)
  /\ Goto("upSolve")
  /\ UNCHANGED <<memory, threads, error, bests, seen>>

\* ... and is faster.
UpFaster(d) ==
  /\ pc = "upSolve"
  /\ Measure(d) /\ Faster(d) /\ Keep(d)
  /\ memory' = memory * 2
  /\ Goto("up")
  /\ UNCHANGED <<threads, error, driverMemory>>

UpSlower(d) ==
  /\ pc = "upSolve"
  /\ Measure(d) /\ ~Faster(d)
  /\ Goto("cppDone")
  /\ UNCHANGED <<memory, threads, error, bests, driverMemory>>

\* The error of a memory_set that failed on the way down ends the way up.
UpEnd ==
  /\ pc = "up" /\ ~GoingUp
  /\ Goto("cppDone")
  /\ UNCHANGED <<memory, threads, error, bests, driverMemory, seen>>

-----------------------------------------------------------------------------
(* The tune of opencl_driver.                                              *)

OclTune(m, t) == Called(m, t) /\ error' = TRUE /\ pc' = "max"

\* Halve the memory until memory_set and fill succeed.
MaxFits ==
  /\ pc = "max" /\ memory > min_memory
  /\ Fits(memory)
  /\ error' = FALSE
  /\ Goto("best")
  /\ UNCHANGED <<memory, threads, bests, seen>>

\* One of them throws; the smallest memory is not tried.
MaxFails ==
  /\ pc = "max" /\ memory > min_memory
  /\ held' \in {0, memory} /\ failed' = failed \cup {memory}
  /\ memory' = Halved
  /\ Goto("max")
  /\ UNCHANGED <<threads, error, bests, seen>>

MaxEnd ==
  /\ pc = "max" /\ memory <= min_memory
  /\ Goto("failed")
  /\ UNCHANGED <<memory, threads, error, bests, driverMemory, seen>>

\* Go down in memory, without a limit but that there be any ...
BestFits ==
  /\ pc = "best" /\ memory > 0
  /\ Fits(memory)
  /\ Goto("solve")
  /\ UNCHANGED <<memory, threads, error, bests, seen>>

BestFails ==
  /\ pc = "best"
  /\ Fails(memory)
  /\ error' = TRUE
  /\ Goto("failed")
  /\ UNCHANGED <<memory, threads, bests, seen>>

\* ... while it is faster.
BestFaster(d) ==
  /\ pc = "solve"
  /\ Measure(d) /\ Faster(d)
  /\ best_duration' = d
  /\ memory' = Halved
  /\ Goto("best")
  /\ UNCHANGED <<threads, error, best_memory, best_threads, driverMemory>>

\* The last memory but one was the best; it is set, outside the try block.
BestSlower(d) ==
  /\ pc = "solve"
  /\ Measure(d) /\ ~Faster(d)
  /\ memory' = memory * 2 /\ best_memory' = memory'
  /\ \/ Fits(memory') /\ threads' = threads * 2 /\ Goto("threads")
     \/ Fails(memory') /\ Goto("failed") /\ UNCHANGED threads
  /\ UNCHANGED <<error, best_duration, best_threads>>

\* Go up in threads while it is faster.
ThreadsFaster(d) ==
  /\ pc = "threads" /\ threads <= MaxThreads
  /\ Faster(d) /\ best_duration' = d
  /\ measuredThreads' = measuredThreads \cup {threads}
  /\ threads' = threads * 2
  /\ UNCHANGED <<pc, initial, memory, error, best_memory, best_threads, driverMemory, measured>>

ThreadsSlower(d) ==
  /\ pc = "threads" /\ threads <= MaxThreads
  /\ ~Faster(d)
  /\ measuredThreads' = measuredThreads \cup {threads}
  /\ threads' = threads \div 2 /\ best_threads' = threads'
  /\ Goto("oclDone")
  /\ UNCHANGED <<memory, error, best_duration, best_memory, driverMemory, measured>>

ThreadsEnd ==
  /\ pc = "threads" /\ threads > MaxThreads
  /\ best_threads' = threads
  /\ Goto("oclDone")
  /\ UNCHANGED <<memory, threads, error, best_duration, best_memory, driverMemory, seen>>

\* A solve throws.
SolveFails ==
  /\ pc = "solve" \/ (pc = "threads" /\ threads <= MaxThreads)
  /\ error' = TRUE
  /\ Goto("failed")
  /\ UNCHANGED <<memory, threads, bests, driverMemory, seen>>

-----------------------------------------------------------------------------
TuneStep ==
  \/ FirstFits \/ FirstFails \/ DownEnd \/ UpFits \/ UpFails \/ UpEnd
  \/ MaxFits \/ MaxFails \/ MaxEnd \/ BestFits \/ BestFails \/ ThreadsEnd \/ SolveFails
  \/ \E d \in Durations :
       \/ DownFaster(d) \/ DownSlower(d) \/ UpFaster(d) \/ UpSlower(d)
       \/ BestFaster(d) \/ BestSlower(d) \/ ThreadsFaster(d) \/ ThreadsSlower(d)

-----------------------------------------------------------------------------
(* Properties.                                                             *)

(***************************************************************************)
(* No solve is measured on a driver whose last memory_set failed, whatever *)
(* failed before: the buffers of such an opencl_driver are incomplete and  *)
(* a cpp_driver has no slab.  What the loop for the threads measures is    *)
(* not kept by memory; while it goes on the driver has its memory.         *)
(***************************************************************************)
SolvesHaveMemory == 0 \notin DOMAIN measured /\ (pc = "threads" => held # 0)

(***************************************************************************)
(* The memory tune recommends is the best one it measured, whatever the    *)
(* order of failures and of durations; a tune of opencl_driver has         *)
(* measured it.                                                            *)
(***************************************************************************)
BestIsBest ==
  pc \in {"cppDone", "oclDone"} /\ measured # [m \in {} |-> 0] =>
    /\ best_memory \in DOMAIN measured
    /\ \A m \in DOMAIN measured : measured[best_memory] <= measured[m]

Settled(m) == m < min_memory \/ m > max_memory \/ m \in failed \/ m \in DOMAIN measured

\* The first memory below the one the tune began with could not be had: the
\* error of its memory_set (src/src/tuning.cpp, line 90) outlives the way down
\* and keeps the way up (line 94) from being taken.
UpwardsSkipped == best_memory = initial /\ initial \div 2 \in failed

(***************************************************************************)
(* The tune of cpp_driver ends where both neighbours of the recommended    *)
(* memory, half of it and twice of it, are settled: measured, or could not *)
(* be had, or out of the limits.  There is one way for the upper one not   *)
(* to be; it then was not even asked for.                                  *)
(***************************************************************************)
BothDirections ==
  pc = "cppDone" /\ measured # [m \in {} |-> 0] =>
    /\ Settled(best_memory \div 2)
    /\ Settled(best_memory * 2) \/ UpwardsSkipped

(***************************************************************************)
(* "Go down and then up in memory until a worse configuration is found in  *)
(* both directions" (src/src/tuning.cpp, line 62): the same without that   *)
(* exception.  A memory that cannot be had, or is out of the limits, is    *)
(* taken for a worse one.                                                  *)
(***************************************************************************)
WorseInBothDirections ==
  pc = "cppDone" /\ measured # [m \in {} |-> 0] =>
    Settled(best_memory \div 2) /\ Settled(best_memory * 2)

(***************************************************************************)
(* "Find the best number of threads in powers of 2" (src/src/tuning.cpp,   *)
(* line 193): the number of threads found was tried.                       *)
(***************************************************************************)
ThreadsWereTried == pc = "oclDone" => best_threads \in measuredThreads

(***************************************************************************)
(* How much is left of a tune: the loops still to go through, the room     *)
(* below the best duration, and what is left of the round.  The loops that *)
(* go on while it is faster are bounded by the durations alone, those that *)
(* look for a memory that can be had by the memory they halve.             *)
(***************************************************************************)
LoopsLeft ==
  IF pc = "idle" THEN 5
  ELSE IF pc = "first" THEN 4
  ELSE IF pc \in {"down", "max"} THEN 3
  ELSE IF pc \in {"up", "upSolve", "best", "solve"} THEN 2
  ELSE IF pc = "threads" THEN 1 ELSE 0

RoundLeft ==
  IF pc \in {"first", "max"} THEN memory
  ELSE IF pc \in {"up", "best"} THEN 1 ELSE 0

(***************************************************************************)
(* A step of a tune ends a loop, or improves the best duration, or brings  *)
(* a loop that does not look at durations nearer to its end.               *)
(***************************************************************************)
TuneAdvances ==
  \/ LoopsLeft' < LoopsLeft
  \/ LoopsLeft' = LoopsLeft /\ best_duration' < best_duration
  \/ LoopsLeft' = LoopsLeft /\ best_duration' = best_duration /\ RoundLeft' < RoundLeft
=============================================================================
