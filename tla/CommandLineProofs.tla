--------------------------- MODULE CommandLineProofs ---------------------------
(***************************************************************************)
(* Proofs about the command line program and its two tunes, for any        *)
(* options, any limits of the memory, any durations and any failures.      *)
(***************************************************************************)
EXTENDS CommandLine, TLAPS

-----------------------------------------------------------------------------
(* The inductive invariant.                                                *)

\* The memories a solve was measured with; of those, one that is the best.
known     == DOMAIN measured
Fresh     == best_duration = Longest
BestIs(b) == /\ b \in known /\ measured[b] = best_duration
             /\ \A m \in known : best_duration <= measured[m]
Least(b)  == b \in known /\ \A m \in known : measured[b] <= measured[m]

\* On the way to the first memory that can be had.
FromInitial == memory = initial \/ (initial \in failed /\ 2 * memory \in failed)

FirstKept == pc = "first" =>
  /\ Fresh /\ known = {}
  /\ memory \in Legal /\ memory <= initial /\ FromInitial

\* Going down, whatever was measured is more than the memory held, and the best
\* is the last.
DownKept == pc = "down" =>
  /\ memory \in Legal /\ memory <= initial
  /\ error \/ held = memory
  /\ \A m \in known : m > memory /\ m <= initial
  /\ Fresh => known = {} /\ ~error /\ FromInitial
  /\ ~Fresh => /\ BestIs(best_memory) /\ best_memory = 2 * memory
               /\ initial \in failed \cup known
               /\ best_memory = initial \/ Settled(best_memory * 2)
               /\ error => memory \in failed

\* Going up, whatever was measured is less, and what is below the best is settled.
UpKept == pc \in {"up", "upSolve"} =>
  /\ \E m \in Legal : memory = 2 * m /\ Settled(m)
  /\ \A m \in known : m < memory
  /\ Fresh => known = {}
  /\ ~Fresh => /\ BestIs(best_memory) /\ Settled(best_memory \div 2)
               /\ best_memory * 2 = memory \/ Settled(best_memory * 2)
  /\ error => Settled(best_memory * 2) \/ UpwardsSkipped
  /\ pc = "upSolve" => memory \in Legal /\ held = memory /\ ~error

CppDoneKept == pc = "cppDone" /\ known # {} =>
  /\ BestIs(best_memory) /\ Settled(best_memory \div 2)
  /\ Settled(best_memory * 2) \/ UpwardsSkipped

\* The tune of opencl_driver halves the memory down to nothing.
Small(m) == m \in Legal \cup {0, 1, 2}

MaxKept == pc = "max" => Fresh /\ known = {} /\ memory \in Legal

BestKept == pc \in {"best", "solve"} =>
  /\ Small(memory) /\ \A m \in known : Small(m) /\ m > memory
  /\ Fresh => known = {}
  /\ ~Fresh => \E b \in known : BestIs(b) /\ (memory = 0 \/ b = 2 * memory)
  /\ pc = "solve" => memory > 0 /\ held = memory

ThreadsKept == pc \in {"threads", "oclDone"} =>
  /\ Least(best_memory)
  /\ pc = "threads" => held # 0

\* The memory a tune begins with is legal; only one of opencl_driver asks for less.
TuneKept ==
  /\ 0 \notin known /\ (known = {} => measured = [m \in {} |-> 0])
  /\ pc # "idle" => initial \in Legal /\ options.operation = "tune"
  /\ pc \in {"max", "best", "solve", "threads", "oclDone"} => options.driver = "opencl"

PhaseKept ==
  /\ FirstKept /\ DownKept /\ UpKept /\ CppDoneKept /\ MaxKept /\ BestKept /\ ThreadsKept

\* What main has checked and done before it calls the driver.
MainKept ==
  /\ mainPc \in {"parsing", "constructing", "checking", "operating"} => Fresh /\ known = {}
  /\ mainPc \notin {"tuning", "exited", "aborted"} => pc = "idle"
  /\ mainPc \in {"checking", "operating", "profiling", "solving", "averaging", "tuning"} =>
       /\ options.driver \in {"cpp", "opencl"}
       /\ state = "initialized" \/ options.operation = "dump"
  /\ mainPc \in {"operating", "profiling", "solving", "averaging", "tuning"} =>
       lookup \in 1 .. MaxLookup /\ options.difficulty \in 1 .. MaxDifficulty
  /\ mainPc \in {"profiling", "solving", "averaging", "tuning"} =>
       difficulty = options.difficulty /\ options.operation # "dump"
  /\ mainPc = "solving" => held = lookup_memory

\* All of it.
Kept == TypeOK /\ DriverCallsAreLegal /\ TuneKept /\ PhaseKept /\ MainKept

-----------------------------------------------------------------------------
(* Memories.                                                               *)

\* A legal memory holds an entry; the limits of a tune are legal.
LEMMA LegalMemory ==
  /\ \A m \in Legal : m \in Nat /\ m >= 4
  /\ min_memory \in Nat /\ min_memory >= 8 /\ max_memory \in Nat
<1>1. \A m \in Legal : m \in Nat /\ m >= 4
  <2> SUFFICES ASSUME NEW k \in 0 .. MaxLookup
               PROVE  2 ^ k * 4 \in Nat /\ 2 ^ k * 4 >= 4
    BY DEF Legal, entry_size
  <2>1. 2 ^ k \in Nat \ {0}
    BY PowersOfTwo
  <2>2. QED
    BY <2>1
<1>2. 2 ^ MaxLookup \in Nat
  BY PowersOfTwo, TuningAssumption
<1>3. 2 ^ MinLookup \in Nat /\ 2 ^ MinLookup >= 2
  <2>1. /\ MinLookup \in 0 .. MaxLookup /\ MinLookup > 0
        /\ MinLookup - 1 \in 0 .. MaxLookup
    BY TuningAssumption
  <2>2. /\ 2 ^ MinLookup = 2 * 2 ^ (MinLookup - 1)
        /\ 2 ^ (MinLookup - 1) \in Nat \ {0}
    BY <2>1, PowersOfTwo
  <2>3. QED
    BY <2>2
<1>4. QED
  BY <1>1, <1>2, <1>3
     DEF min_memory, max_memory, entries_to_memory, lookup_to_entries, entry_size

\* The memory of a lookup is legal.
LEMMA LookupIsLegal ==
  ASSUME NEW l \in 0 .. MaxLookup
  PROVE  entries_to_memory(lookup_to_entries(l)) \in Legal
BY DEF Legal, entries_to_memory, lookup_to_entries

\* Half of a legal memory is legal, but for that of a single entry.
LEMMA HalfIsLegal ==
  ASSUME NEW m \in Legal, m > 4
  PROVE  m \div 2 \in Legal /\ 2 * (m \div 2) = m
<1>1. PICK k \in 0 .. MaxLookup : m = 2 ^ k * 4
  BY DEF Legal, entry_size
<1>2. k # 0
  <2> SUFFICES ASSUME k = 0 PROVE FALSE
    OBVIOUS
  <2>1. 2 ^ k = 1
    OBVIOUS
  <2>2. QED
    BY <1>1, <2>1
<1>3. k - 1 \in 0 .. MaxLookup /\ k > 0
  BY <1>2, TuningAssumption
<1>4. 2 ^ k = 2 * 2 ^ (k - 1) /\ 2 ^ (k - 1) \in Nat
  BY <1>3, PowersOfTwo
<1>5. m \div 2 = 2 ^ (k - 1) * 4 /\ 2 * (m \div 2) = m
  BY <1>1, <1>4
<1>6. QED
  BY <1>3, <1>5 DEF Legal, entry_size

\* Twice a legal memory is legal up to the limit.
LEMMA DoubleIsLegal ==
  ASSUME NEW m \in Legal, 2 * m <= max_memory
  PROVE  2 * m \in Legal
<1>1. PICK k \in 0 .. MaxLookup : m = 2 ^ k * 4
  BY DEF Legal, entry_size
<1>2. max_memory = 2 ^ MaxLookup * 4
  BY DEF max_memory, entries_to_memory, lookup_to_entries, entry_size
<1>3. 2 ^ MaxLookup \in Nat \ {0}
  BY PowersOfTwo, TuningAssumption
<1>4. k # MaxLookup
  <2> SUFFICES ASSUME k = MaxLookup PROVE FALSE
    OBVIOUS
  <2>1. 2 * m = 2 * max_memory /\ max_memory \in Nat \ {0}
    BY <1>1, <1>2, <1>3
  <2>2. QED
    BY <2>1
<1>5. k + 1 \in 0 .. MaxLookup /\ k + 1 > 0 /\ (k + 1) - 1 = k
  BY <1>4, TuningAssumption
<1>6. 2 ^ (k + 1) = 2 * 2 ^ k /\ 2 ^ k \in Nat
  BY <1>5, PowersOfTwo
<1>7. 2 * m = 2 ^ (k + 1) * 4
  BY <1>1, <1>6
<1>8. QED
  BY <1>5, <1>7 DEF Legal, entry_size

\* Halving what a tune of opencl_driver holds.
LEMMA HalfIsSmall ==
  ASSUME NEW m, Small(m), m > 0
  PROVE  /\ m \in Nat /\ m \div 2 \in Nat /\ Small(m \div 2) /\ m \div 2 < m
         /\ m \div 2 = 0 \/ m = 2 * (m \div 2)
<1>1. CASE m \in {1, 2}
  <2>1. m \div 2 \in {0, 1} /\ m \in Nat /\ (m \div 2 = 0 \/ m = 2 * (m \div 2))
    BY <1>1
  <2>2. QED
    BY <1>1, <2>1 DEF Small
<1>2. CASE m \in Legal /\ m > 4
  BY <1>2, HalfIsLegal, LegalMemory DEF Small
<1>3. CASE m = 4
  <2>1. m \div 2 = 2
    BY <1>3
  <2>2. QED
    BY <1>3, <2>1 DEF Small
<1>4. QED
  BY <1>1, <1>2, <1>3, LegalMemory DEF Small

-----------------------------------------------------------------------------
(* Measurements.                                                           *)

\* A measurement adds the memory held; what else was measured stays.
LEMMA MeasureAdds ==
  ASSUME NEW d, Measure(d), held \notin known
  PROVE  /\ known' = known \cup {held} /\ measured'[held] = d
         /\ \A m \in known : measured'[m] = measured[m]
BY DEF Measure, known

\* A faster solve with a new memory is the best.
LEMMA FasterIsBest ==
  ASSUME Kept, NEW d \in Durations, Measure(d), held \notin known, Faster(d),
         Fresh => known = {},
         ~Fresh => \E b \in known : BestIs(b),
         best_duration' = d
  PROVE  /\ held \in known' /\ measured'[held] = best_duration'
         /\ \A m \in known' : best_duration' <= measured'[m]
         /\ ~(Fresh')
<1>1. /\ d \in Nat /\ d < Longest /\ Longest \in Nat
      /\ \A m \in known : measured[m] \in Nat
      /\ best_duration \in Nat
  BY TuningAssumption DEF Kept, TypeOK, TuneTypeOK, known
<1>2. \A m \in known : d <= measured[m]
  BY <1>1 DEF Faster, BestIs
<1>3. QED
  BY <1>1, <1>2, MeasureAdds DEF Fresh

\* A slower one leaves the best as it is, and there was one.
LEMMA SlowerIsNot ==
  ASSUME Kept, NEW d \in Durations, Measure(d), held \notin known, ~Faster(d),
         UNCHANGED best_duration
  PROVE  /\ ~Fresh /\ ~(Fresh')
         /\ \A b \in known : BestIs(b) =>
              /\ b \in known' /\ measured'[b] = best_duration'
              /\ \A m \in known' : best_duration' <= measured'[m]
<1>1. /\ d \in Nat /\ d < Longest /\ Longest \in Nat /\ best_duration \in Nat
      /\ best_duration <= d
  BY TuningAssumption DEF Kept, TypeOK, TuneTypeOK, Faster
<1>2. QED
  BY <1>1, MeasureAdds DEF Fresh, BestIs
\* What was settled remains so: nothing measured or failed is forgotten.
LEMMA SettledStays ==
  ASSUME failed \subseteq failed', known \subseteq known', NEW m, Settled(m)
  PROVE  m < min_memory \/ m > max_memory \/ m \in failed' \/ m \in known'
BY DEF Settled, known

-----------------------------------------------------------------------------
(* Types.                                                                  *)

\* A measurement is typed.
LEMMA MeasureTypes ==
  ASSUME TuneTypeOK, NEW d \in Durations, Measure(d)
  PROVE  /\ DOMAIN measured' \subseteq Nat
         /\ \A m \in DOMAIN measured' : measured'[m] \in Durations
         /\ measuredThreads' \subseteq Nat
BY DEF Measure, TuneTypeOK

\* The variables of a tune but what it measured.
Scalars ==
  /\ pc \in {"idle"} \cup Loops \cup Ends
  /\ initial \in Nat /\ memory \in Nat /\ threads \in Nat
  /\ error \in BOOLEAN
  /\ best_duration \in Durations \cup {Longest}
  /\ best_memory \in Nat /\ best_threads \in Nat
  /\ held \in Nat /\ failed \subseteq Nat

\* The steps that measure nothing leave the variables typed.
LEMMA UnmeasuredTypes ==
  ASSUME Scalars,
         \/ FirstFits \/ FirstFails \/ DownEnd \/ UpFits \/ UpFails \/ UpEnd
         \/ MaxFits \/ MaxFails \/ MaxEnd \/ BestFits \/ BestFails \/ ThreadsEnd \/ SolveFails
  PROVE  Scalars' /\ UNCHANGED seen
<1>1. memory \div 2 \in Nat /\ initial * 2 \in Nat
  BY DEF Scalars
<1> USE DEF Fits, Fails, Goto, Halved, Upwards, Scalars, Loops, Ends, bests, driverMemory
<1>2. CASE FirstFits
  BY <1>2 DEF FirstFits
<1>3. CASE FirstFails
  BY <1>1, <1>3 DEF FirstFails
<1>4. CASE DownEnd
  BY <1>1, <1>4 DEF DownEnd
<1>5. CASE UpFits
  BY <1>5 DEF UpFits
<1>6. CASE UpFails
  BY <1>6 DEF UpFails
<1>7. CASE UpEnd
  BY <1>7 DEF UpEnd
<1>8. CASE MaxFits
  BY <1>8 DEF MaxFits
<1>9. CASE MaxFails
  BY <1>1, <1>9 DEF MaxFails
<1>10. CASE MaxEnd
  BY <1>10 DEF MaxEnd
<1>11. CASE BestFits
  BY <1>11 DEF BestFits
<1>12. CASE BestFails
  BY <1>12 DEF BestFails
<1>13. CASE ThreadsEnd
  BY <1>13 DEF ThreadsEnd
<1>14. CASE SolveFails
  BY <1>14 DEF SolveFails
<1>15. QED
  BY <1>2, <1>3, <1>4, <1>5, <1>6, <1>7, <1>8, <1>9, <1>10, <1>11, <1>12, <1>13, <1>14

\* So do those that measure.
LEMMA MeasuredTypes ==
  ASSUME Scalars, NEW d \in Durations,
         \/ DownFaster(d) \/ DownSlower(d) \/ UpFaster(d) \/ UpSlower(d)
         \/ BestFaster(d) \/ BestSlower(d) \/ ThreadsFaster(d) \/ ThreadsSlower(d)
  PROVE  Scalars'
<1>1. /\ memory \div 2 \in Nat /\ memory * 2 \in Nat /\ initial * 2 \in Nat
      /\ threads \div 2 \in Nat /\ threads * 2 \in Nat
  BY DEF Scalars
<1> USE DEF Keep, Fits, Fails, Goto, Halved, Upwards, Scalars, Loops, Ends, bests, driverMemory
<1>2. CASE DownFaster(d)
  <2>1. memory' \in Nat /\ best_memory' \in Nat /\ best_duration' \in Durations
    BY <1>1, <1>2 DEF DownFaster
  <2>2. held' \in {0, memory'} /\ failed' \in {failed, failed \cup {memory'}} /\ error' \in BOOLEAN
    BY <1>2 DEF DownFaster
  <2>3. UNCHANGED <<pc, initial, threads, best_threads>>
    BY <1>2 DEF DownFaster
  <2>4. QED
    BY <2>1, <2>2, <2>3
<1>3. CASE DownSlower(d)
  BY <1>1, <1>3 DEF DownSlower
<1>4. CASE UpFaster(d)
  BY <1>1, <1>4 DEF UpFaster
<1>5. CASE UpSlower(d)
  BY <1>5 DEF UpSlower
<1>6. CASE BestFaster(d)
  BY <1>1, <1>6 DEF BestFaster
<1>7. CASE BestSlower(d)
  <2>1. /\ memory' \in Nat /\ best_memory' = memory' /\ threads' \in Nat
        /\ pc' \in {"threads", "failed"}
    BY <1>1, <1>7 DEF BestSlower
  <2>2. held' \in {0, memory'} /\ failed' \in {failed, failed \cup {memory'}}
    BY <1>7 DEF BestSlower
  <2>3. UNCHANGED <<initial, error, best_duration, best_threads>>
    BY <1>7 DEF BestSlower
  <2>4. QED
    BY <2>1, <2>2, <2>3
<1>8. CASE ThreadsFaster(d)
  BY <1>1, <1>8 DEF ThreadsFaster
<1>9. CASE ThreadsSlower(d)
  BY <1>1, <1>9 DEF ThreadsSlower
<1>10. QED
  BY <1>2, <1>3, <1>4, <1>5, <1>6, <1>7, <1>8, <1>9

\* Every step of a tune leaves its variables typed.
LEMMA TuneTypes ==
  ASSUME TuneTypeOK, TuneStep
  PROVE  TuneTypeOK'
<1> DEFINE Seen == /\ DOMAIN measured \subseteq Nat
                   /\ \A m \in DOMAIN measured : measured[m] \in Durations
                   /\ measuredThreads \subseteq Nat
<1>1. Scalars /\ Seen
  BY DEF TuneTypeOK, Scalars
<1>2. Scalars' /\ Seen' => TuneTypeOK'
  BY DEF TuneTypeOK, Scalars
<1>3. UNCHANGED seen => Seen'
  BY <1>1 DEF seen
<1>4. ASSUME NEW d \in Durations,
             \/ DownFaster(d) \/ DownSlower(d) \/ UpFaster(d) \/ UpSlower(d)
             \/ BestFaster(d) \/ BestSlower(d) \/ ThreadsFaster(d) \/ ThreadsSlower(d)
      PROVE  Scalars' /\ Seen'
  <2>1. CASE Measure(d)
    BY <1>1, <1>4, <2>1, MeasureTypes, MeasuredTypes
  <2>2. CASE ThreadsFaster(d) \/ ThreadsSlower(d)
    <3>1. measured' = measured /\ measuredThreads' = measuredThreads \cup {threads}
      BY <2>2 DEF ThreadsFaster, ThreadsSlower
    <3>2. threads \in Nat
      BY DEF TuneTypeOK
    <3>3. Seen'
      BY <1>1, <3>1, <3>2
    <3>4. Scalars'
      BY <1>1, <1>4, MeasuredTypes
    <3>5. QED
      BY <3>3, <3>4
  <2>3. QED
    BY <1>4, <2>1, <2>2
       DEF DownFaster, DownSlower, UpFaster, UpSlower, BestFaster, BestSlower
<1> HIDE DEF Seen
<1>5. QED
  BY <1>1, <1>2, <1>3, <1>4, UnmeasuredTypes DEF TuneStep

-----------------------------------------------------------------------------
(* What every step of a tune keeps.                                        *)

\* What holds while main is tuning.
LEMMA Tuned ==
  ASSUME Kept, mainPc = "tuning"
  PROVE  /\ state = "initialized" /\ difficulty > 0
         /\ options.operation = "tune" \/ pc = "idle"
         /\ pc # "idle" => initial \in Legal
         /\ pc \in {"max", "best", "solve", "threads", "oclDone"} => options.driver = "opencl"
  BY DEF Kept, TuneKept, MainKept, TypeOK

\* A memory the driver may be asked to hold.
Asked(m) ==
  \/ m \in Legal
  \/ m \in Nat /\ m < entry_size /\ options.driver = "opencl" /\ options.operation = "tune"

\* The memory of a small one.
LEMMA SmallIsAsked ==
  ASSUME Kept, mainPc = "tuning", pc \in {"best", "solve"}, NEW m, Small(m)
  PROVE  Asked(m)
BY Tuned DEF Small, Asked, entry_size

\* A step asks for the memory of before, for the one of after, or for none.
LEMMA WhatIsAsked ==
  ASSUME Kept, mainPc = "tuning", TuneStep
  PROVE  \/ UNCHANGED driverMemory
         \/ \E m \in Nat : Asked(m) /\ held' \in {0, m} /\ failed' \subseteq failed \cup {m}
<1>1. memory \in Nat /\ min_memory \in Nat /\ min_memory >= 8
  BY LegalMemory DEF Kept, TypeOK, TuneTypeOK
<1>2. ASSUME pc \in {"first", "max", "upSolve", "down"}
      PROVE  memory \in Legal
  BY <1>2 DEF Kept, PhaseKept, FirstKept, MaxKept, UpKept, DownKept
<1>3. ASSUME NEW m \in Nat, Asked(m), Fits(m) \/ Fails(m)
      PROVE  Asked(m) /\ held' \in {0, m} /\ failed' \subseteq failed \cup {m}
  BY <1>3 DEF Fits, Fails
<1>4. CASE FirstFits \/ FirstFails
  BY <1>1, <1>2, <1>3, <1>4 DEF FirstFits, FirstFails, Asked
<1>5. CASE UpFits \/ UpFails
  <2>1. pc = "up" /\ memory <= max_memory
    BY <1>5 DEF UpFits, UpFails, GoingUp
  <2>2. PICK m \in Legal : memory = 2 * m
    BY <2>1 DEF Kept, PhaseKept, UpKept
  <2>3. memory \in Legal
    BY <2>1, <2>2, DoubleIsLegal
  <2>4. QED
    BY <1>1, <1>3, <1>5, <2>3 DEF UpFits, UpFails, Asked
<1>6. CASE MaxFits
  BY <1>1, <1>2, <1>3, <1>6 DEF MaxFits, Asked
<1>7. CASE MaxFails
  BY <1>1, <1>2, <1>7 DEF MaxFails, Asked
<1>8. CASE BestFits \/ BestFails
  <2>1. pc = "best" /\ Small(memory)
    BY <1>8 DEF BestFits, BestFails, Kept, PhaseKept, BestKept
  <2>2. Asked(memory)
    BY <2>1, SmallIsAsked
  <2>3. QED
    BY <1>1, <1>3, <1>8, <2>2 DEF BestFits, BestFails
<1>9. ASSUME NEW d \in Durations, DownFaster(d)
      PROVE  \E m \in Nat : Asked(m) /\ held' \in {0, m} /\ failed' \subseteq failed \cup {m}
  <2>1. pc = "down" /\ memory >= min_memory /\ memory' = memory \div 2
    BY <1>9 DEF DownFaster, GoingDown, Halved
  <2>2. memory \in Legal /\ memory > 4
    BY <1>1, <1>2, <2>1
  <2>3. memory' \in Legal
    BY <2>1, <2>2, HalfIsLegal
  <2>4. memory' \in Nat /\ Asked(memory')
    BY <2>3, LegalMemory DEF Asked
  <2>5. held' \in {0, memory'} /\ failed' \subseteq failed \cup {memory'}
    BY <1>9 DEF DownFaster, Fits, Fails
  <2>6. QED
    BY <2>4, <2>5
<1>10. ASSUME NEW d \in Durations, BestSlower(d)
       PROVE  \E m \in Nat : Asked(m) /\ held' \in {0, m} /\ failed' \subseteq failed \cup {m}
  <2>1. pc = "solve" /\ Measure(d) /\ ~Faster(d) /\ memory' = memory * 2
    BY <1>10 DEF BestSlower
  <2>2. /\ memory > 0 /\ held = memory /\ \A m \in known : Small(m) /\ m > memory
        /\ Fresh => known = {}
        /\ ~Fresh => \E b \in known : BestIs(b) /\ (memory = 0 \/ b = 2 * memory)
    BY <2>1 DEF Kept, PhaseKept, BestKept
  <2>3. ~Fresh
    <3>1. d < Longest /\ d \in Nat /\ best_duration \in Nat /\ ~(d < best_duration)
      BY <2>1, TuningAssumption DEF Kept, TypeOK, TuneTypeOK, Faster
    <3>2. QED
      BY <3>1 DEF Fresh
  <2>4. memory' \in known
    BY <1>1, <2>1, <2>2, <2>3
  <2>5. memory' \in Nat /\ Asked(memory')
    BY <1>1, <2>1, <2>2, <2>4, SmallIsAsked
  <2>6. held' \in {0, memory'} /\ failed' \subseteq failed \cup {memory'}
    BY <1>10 DEF BestSlower, Fits, Fails
  <2>7. QED
    BY <2>5, <2>6
<1>11. ASSUME NEW d \in Durations,
              DownSlower(d) \/ UpFaster(d) \/ UpSlower(d) \/ BestFaster(d)
                \/ ThreadsFaster(d) \/ ThreadsSlower(d)
       PROVE  UNCHANGED driverMemory
  BY <1>11 DEF DownSlower, UpFaster, UpSlower, BestFaster, ThreadsFaster, ThreadsSlower
<1>12. CASE DownEnd \/ UpEnd \/ MaxEnd \/ ThreadsEnd \/ SolveFails
  BY <1>12 DEF DownEnd, UpEnd, MaxEnd, ThreadsEnd, SolveFails
<1>13. QED
  BY <1>4, <1>5, <1>6, <1>7, <1>8, <1>9, <1>10, <1>11, <1>12 DEF TuneStep

\* A call that asks for such a memory is legal.
LEMMA AskedIsLegal ==
  ASSUME Kept, UNCHANGED options, state' = "initialized", difficulty' > 0,
         NEW m \in Nat, Asked(m), held' \in {0, m}, failed' \subseteq failed \cup {m}
  PROVE  DriverCallsAreLegal'
<1> DEFINE Fine(h, f) ==
             \A k \in {h} \cup f :
               \/ k \in Legal
               \/ k = 0 /\ k \notin f
               \/ k < entry_size /\ options.driver = "opencl" /\ options.operation = "tune"
<1>1. Fine(held, failed)
  BY DEF Kept, DriverCallsAreLegal
<1>2. Fine(held', failed')
  <2>1. /\ 0 \notin Legal
        /\ m \in Legal \/ (m < 4 /\ options.driver = "opencl" /\ options.operation = "tune")
    BY LegalMemory DEF Asked, entry_size
  <2>2. \A k \in failed : k \in Legal
           \/ (k < 4 /\ options.driver = "opencl" /\ options.operation = "tune")
    BY <1>1 DEF entry_size
  <2>3. 0 \in failed' => options.driver = "opencl" /\ options.operation = "tune"
    BY <2>1, <2>2
  <2>4. QED
    BY <2>1, <2>2, <2>3 DEF entry_size
<1>3. QED
  BY <1>2 DEF DriverCallsAreLegal

\* The memory a tune asks for is legal, or less than an entry and the driver
\* opencl_driver.
LEMMA TuneLegal ==
  ASSUME Kept, mainPc = "tuning", TuneStep, UNCHANGED mainVars
  PROVE  DriverCallsAreLegal'
<1>1. state' = "initialized" /\ difficulty' > 0 /\ UNCHANGED options
  BY Tuned DEF mainVars
<1>2. CASE UNCHANGED driverMemory
  BY <1>1, <1>2 DEF driverMemory, Kept, DriverCallsAreLegal
<1>3. QED
  BY <1>1, <1>2, AskedIsLegal, WhatIsAsked

-----------------------------------------------------------------------------
(* The phases of a tune.                                                   *)

\* Only one phase has to be kept at a time.
LEMMA InPhase ==
  ASSUME \/ pc' = "first" /\ FirstKept'
         \/ pc' = "down" /\ DownKept'
         \/ pc' \in {"up", "upSolve"} /\ UpKept'
         \/ pc' = "cppDone" /\ CppDoneKept'
         \/ pc' = "max" /\ MaxKept'
         \/ pc' \in {"best", "solve"} /\ BestKept'
         \/ pc' \in {"threads", "oclDone"} /\ ThreadsKept'
         \/ pc' \in {"idle", "failed"}
  PROVE  PhaseKept'
BY DEF PhaseKept, FirstKept, DownKept, UpKept, CppDoneKept, MaxKept, BestKept, ThreadsKept

\* What the steps below start from.
LEMMA Numbers ==
  ASSUME Kept
  PROVE  /\ memory \in Nat /\ initial \in Nat /\ best_memory \in Nat
         /\ best_duration \in Nat /\ Longest \in Nat
         /\ min_memory \in Nat /\ min_memory >= 8 /\ max_memory \in Nat
         /\ \A m \in known : m \in Nat /\ measured[m] \in Nat
BY LegalMemory, TuningAssumption DEF Kept, TypeOK, TuneTypeOK, known

\* The first memory that can be had is halved from the initial one.
LEMMA FirstKeepsPhase ==
  ASSUME Kept, mainPc = "tuning", FirstFits \/ FirstFails
  PROVE  PhaseKept'
<1>1. /\ pc = "first" /\ Fresh /\ known = {}
      /\ memory \in Legal /\ memory <= initial /\ FromInitial
  BY DEF Kept, PhaseKept, FirstKept, FirstFits, FirstFails
<1>2. CASE FirstFits
  <2>1. /\ pc' = "down" /\ held' = memory /\ error' = FALSE
        /\ UNCHANGED <<memory, initial, best_duration, failed, measured>>
    BY <1>2 DEF FirstFits, Fits, Goto, bests, seen
  <2>2. DownKept'
    BY <1>1, <2>1 DEF DownKept, Fresh, known, FromInitial
  <2>3. QED
    BY <2>1, <2>2, InPhase
<1>3. CASE FirstFails /\ memory > min_memory
  <2>1. /\ pc' = "first" /\ memory' = memory \div 2 /\ failed' = failed \cup {memory}
        /\ UNCHANGED <<initial, best_duration, measured>>
    BY <1>3 DEF FirstFails, Fails, Goto, bests, seen, Halved
  <2>2. memory' \in Legal /\ 2 * memory' = memory /\ memory' <= initial
    BY <1>1, <1>3, <2>1, Numbers, HalfIsLegal
  <2>3. FromInitial'
    BY <1>1, <2>1, <2>2 DEF FromInitial
  <2>4. FirstKept'
    BY <1>1, <2>1, <2>2, <2>3 DEF FirstKept, Fresh, known
  <2>5. QED
    BY <2>1, <2>4, InPhase
<1>4. CASE FirstFails /\ ~(memory > min_memory)
  <2>1. pc' = "failed"
    BY <1>4 DEF FirstFails, Goto
  <2>2. QED
    BY <2>1, InPhase
<1>5. QED
  BY <1>2, <1>3, <1>4

\* What is known on the way down.
LEMMA Down ==
  ASSUME Kept, pc = "down"
  PROVE  /\ memory \in Legal /\ memory <= initial
         /\ error \/ held = memory
         /\ \A m \in known : m > memory /\ m <= initial
         /\ Fresh => known = {} /\ ~error /\ FromInitial
         /\ ~Fresh => /\ BestIs(best_memory) /\ best_memory = 2 * memory
                      /\ initial \in failed \cup known
                      /\ best_memory = initial \/ Settled(best_memory * 2)
                      /\ error => memory \in failed
BY DEF Kept, PhaseKept, DownKept

\* A faster solve on the way down: the way goes on from half of it.
LEMMA DownFasterKeepsPhase ==
  ASSUME Kept, mainPc = "tuning", NEW d \in Durations, DownFaster(d)
  PROVE  PhaseKept'
<1>1. /\ pc = "down" /\ ~error /\ memory >= min_memory
      /\ Measure(d) /\ Faster(d)
  BY DEF DownFaster, GoingDown
<1>2. /\ pc' = "down" /\ best_duration' = d /\ best_memory' = memory
      /\ memory' = memory \div 2 /\ UNCHANGED initial
      /\ \/ held' = memory' /\ ~error' /\ UNCHANGED failed
         \/ error' /\ failed' = failed \cup {memory'}
  BY <1>1 DEF DownFaster, Keep, Halved, Fits, Fails
<1>3. held = memory /\ held \notin known
  BY <1>1, Down, Numbers
<1>4. /\ memory \in known' /\ measured'[memory] = best_duration'
      /\ \A m \in known' : best_duration' <= measured'[m]
      /\ ~(Fresh')
  <2>1. (Fresh => known = {}) /\ (~Fresh => \E b \in known : BestIs(b))
    BY <1>1, Down DEF BestIs
  <2>2. /\ held \in known' /\ measured'[held] = best_duration'
        /\ \A m \in known' : best_duration' <= measured'[m]
        /\ ~(Fresh')
    BY <1>1, <1>2, <1>3, <2>1, FasterIsBest
  <2>3. QED
    BY <1>3, <2>2
<1>5. known' = known \cup {memory}
  BY <1>1, <1>3, MeasureAdds
<1>6. memory' \in Legal /\ 2 * memory' = memory /\ memory' < memory /\ memory <= initial
  BY <1>1, <1>2, Down, Numbers, HalfIsLegal
<1>7. \A m \in known' : m > memory' /\ m <= initial'
  BY <1>1, <1>2, <1>5, <1>6, Down, Numbers
<1>8. initial' \in failed' \cup known'
  BY <1>1, <1>2, <1>5, Down DEF FromInitial
<1>9. best_memory' = initial' \/ Settled(best_memory * 2)'
  <2>1. memory = initial \/ 2 * memory \in failed' \cup known'
    <3>1. CASE Fresh
      BY <1>1, <1>2, <3>1, Down DEF FromInitial
    <3>2. CASE ~Fresh
      <4>1. best_memory \in known /\ best_memory = 2 * memory
        BY <1>1, <3>2, Down DEF BestIs
      <4>2. QED
        BY <1>5, <4>1
    <3>3. QED
      BY <3>1, <3>2
  <2>2. 2 * memory = memory * 2
    BY Numbers
  <2>3. QED
    BY <1>2, <2>1, <2>2 DEF Settled, known
<1>10. DownKept'
  <2>1. BestIs(best_memory)' /\ best_memory' = 2 * memory'
    BY <1>2, <1>4, <1>6 DEF BestIs
  <2>2. (error' \/ held' = memory') /\ (error' => memory' \in failed')
    BY <1>2
  <2>3. memory' <= initial'
    BY <1>2, <1>6, Numbers
  <2>4. QED
    BY <1>4, <1>6, <1>7, <1>8, <1>9, <2>1, <2>2, <2>3 DEF DownKept
<1>11. QED
  BY <1>2, <1>10, InPhase

\* The way down ends: the way up begins at twice the initial memory.
LEMMA DownSlowerKeepsPhase ==
  ASSUME Kept, mainPc = "tuning", NEW d \in Durations, DownSlower(d)
  PROVE  PhaseKept'
<1>1. /\ pc = "down" /\ ~error /\ memory >= min_memory
      /\ Measure(d) /\ ~Faster(d)
  BY DEF DownSlower, GoingDown
<1>2. /\ pc' = "up" /\ memory' = initial * 2
      /\ UNCHANGED <<initial, best_duration, best_memory, error, failed>>
  BY DEF DownSlower, Goto, Upwards, bests, driverMemory
<1>3. held = memory /\ held \notin known
  BY <1>1, Down, Numbers
<1>4. /\ known' = known \cup {memory}
      /\ ~Fresh /\ ~(Fresh')
      /\ BestIs(best_memory) =>
           /\ best_memory \in known' /\ measured'[best_memory] = best_duration'
           /\ \A m \in known' : best_duration' <= measured'[m]
  BY <1>1, <1>2, <1>3, MeasureAdds, SlowerIsNot DEF BestIs
<1>5. /\ BestIs(best_memory) /\ best_memory = 2 * memory
      /\ initial \in failed \cup known
      /\ best_memory = initial \/ Settled(best_memory * 2)
  BY <1>1, <1>4, Down
<1>6. BestIs(best_memory)'
  BY <1>2, <1>4, <1>5 DEF BestIs
<1>7. initial \in Legal /\ initial \in Nat /\ initial > 0 /\ memory' = 2 * initial
  BY <1>1, <1>2, Numbers, Tuned, LegalMemory
<1>8. initial \in failed' \cup known'
  BY <1>2, <1>4, <1>5
<1>9. \A m \in known' : m < memory'
  BY <1>1, <1>2, <1>4, <1>7, Down, Numbers
<1>10. Settled(best_memory \div 2)'
  <2>1. best_memory' \div 2 = memory
    BY <1>2, <1>5, Numbers
  <2>2. memory \in known'
    BY <1>4
  <2>3. QED
    BY <2>1, <2>2 DEF Settled, known
<1>11. best_memory' * 2 = memory' \/ Settled(best_memory * 2)'
  <2>1. CASE best_memory = initial
    BY <1>2, <2>1
  <2>2. CASE Settled(best_memory * 2)
    BY <1>2, <1>4, <2>2, SettledStays DEF Settled, known
  <2>3. QED
    BY <1>5, <2>1, <2>2
<1>12. \E m \in Legal : memory' = 2 * m /\ Settled(m)'
  BY <1>7, <1>8 DEF Settled, known
<1>13. UpKept'
  BY <1>1, <1>2, <1>4, <1>6, <1>9, <1>10, <1>11, <1>12 DEF UpKept
<1>14. QED
  BY <1>2, <1>13, InPhase
\* So it does when the memory is too little, or could not be had.
LEMMA DownEndKeepsPhase ==
  ASSUME Kept, mainPc = "tuning", DownEnd
  PROVE  PhaseKept'
<1>1. /\ pc = "down" /\ (error \/ memory < min_memory)
      /\ pc' = "up" /\ memory' = initial * 2
      /\ UNCHANGED <<initial, best_duration, best_memory, error, failed, measured>>
  BY Numbers DEF DownEnd, GoingDown, Goto, Upwards, bests, driverMemory, seen
<1>2. /\ initial \in Legal /\ initial \in Nat /\ initial > 0 /\ memory' = 2 * initial
  BY <1>1, Numbers, Tuned, LegalMemory
<1>3. Settled(initial)
  <2>1. CASE Fresh
    <3>1. memory < min_memory /\ FromInitial
      BY <1>1, <2>1, Down
    <3>2. QED
      BY <3>1 DEF FromInitial, Settled
  <2>2. CASE ~Fresh
    BY <1>1, <2>2, Down DEF Settled, known
  <2>3. QED
    BY <2>1, <2>2
<1>4. \A m \in known : m < memory'
  BY <1>1, <1>2, Down, Numbers
<1>5. ASSUME ~Fresh
      PROVE  /\ BestIs(best_memory) /\ Settled(best_memory \div 2)
             /\ best_memory * 2 = memory' \/ Settled(best_memory * 2)
  <2>1. /\ BestIs(best_memory) /\ best_memory = 2 * memory
        /\ best_memory = initial \/ Settled(best_memory * 2)
        /\ error => memory \in failed
    BY <1>1, <1>5, Down
  <2>2. best_memory \div 2 = memory
    BY <2>1, Numbers
  <2>3. Settled(memory)
    BY <1>1, <2>1 DEF Settled
  <2>4. QED
    BY <1>1, <2>1, <2>2, <2>3
<1>6. error => Settled(best_memory * 2) \/ UpwardsSkipped
  <2> SUFFICES ASSUME error PROVE Settled(best_memory * 2) \/ UpwardsSkipped
    OBVIOUS
  <2>1. /\ memory \in failed /\ best_memory = 2 * memory
        /\ best_memory = initial \/ Settled(best_memory * 2)
    BY <1>1, Down
  <2>2. best_memory \div 2 = memory
    BY <2>1, Numbers
  <2>3. QED
    BY <2>1, <2>2 DEF UpwardsSkipped
<1>7. Fresh => known = {}
  BY <1>1, Down
<1>8. UpKept'
  <2>1. \E m \in Legal : memory' = 2 * m /\ Settled(m)'
    BY <1>1, <1>2, <1>3 DEF Settled
  <2>2. ~(Fresh') => /\ BestIs(best_memory)' /\ Settled(best_memory \div 2)'
                     /\ best_memory' * 2 = memory' \/ Settled(best_memory * 2)'
    BY <1>1, <1>5 DEF Fresh, BestIs, Settled, known
  <2>3. (\A m \in known' : m < memory') /\ (Fresh' => known' = {})
    BY <1>1, <1>4, <1>7 DEF Fresh, known
  <2>4. error' => Settled(best_memory * 2)' \/ UpwardsSkipped'
    BY <1>1, <1>6 DEF Settled, UpwardsSkipped
  <2>5. QED
    BY <1>1, <2>1, <2>2, <2>3, <2>4 DEF UpKept
<1>9. QED
  BY <1>1, <1>8, InPhase

\* What is known on the way up.
LEMMA Up ==
  ASSUME Kept, pc \in {"up", "upSolve"}
  PROVE  /\ \E m \in Legal : memory = 2 * m /\ Settled(m)
         /\ \A m \in known : m < memory
         /\ Fresh => known = {}
         /\ ~Fresh => /\ BestIs(best_memory) /\ Settled(best_memory \div 2)
                      /\ best_memory * 2 = memory \/ Settled(best_memory * 2)
         /\ error => Settled(best_memory * 2) \/ UpwardsSkipped
         /\ pc = "upSolve" => memory \in Legal /\ held = memory /\ ~error
BY DEF Kept, PhaseKept, UpKept

\* More memory can be had.
LEMMA UpFitsKeepsPhase ==
  ASSUME Kept, mainPc = "tuning", UpFits
  PROVE  PhaseKept'
<1>1. /\ pc = "up" /\ memory <= max_memory /\ ~error /\ pc' = "upSolve" /\ held' = memory
      /\ UNCHANGED <<memory, best_duration, best_memory, error, failed, measured>>
  BY DEF UpFits, GoingUp, Goto, Fits, bests, seen
<1>2. memory \in Legal
  BY <1>1, Up, DoubleIsLegal
<1>3. \E m \in Legal : memory' = 2 * m /\ Settled(m)'
  BY <1>1, Up DEF Settled
<1>4. ~(Fresh') => /\ BestIs(best_memory)' /\ Settled(best_memory \div 2)'
                   /\ best_memory' * 2 = memory' \/ Settled(best_memory * 2)'
  BY <1>1, Up DEF Fresh, BestIs, Settled, known
<1>5. (\A m \in known' : m < memory') /\ (Fresh' => known' = {})
  BY <1>1, Up DEF Fresh, known
<1>6. ~error'
  BY <1>1
<1>7. UpKept'
  BY <1>1, <1>2, <1>3, <1>4, <1>5, <1>6 DEF UpKept
<1>8. QED
  BY <1>1, <1>7, InPhase

\* The way up ends because no more can be had, or because of the limit or of an
\* error of the way down.
LEMMA UpEndKeepsPhase ==
  ASSUME Kept, mainPc = "tuning", UpFails \/ UpEnd
  PROVE  PhaseKept'
<1>1. /\ pc = "up" /\ pc' = "cppDone"
      /\ UNCHANGED <<initial, best_duration, best_memory, measured>>
      /\ failed \subseteq failed'
  BY DEF UpFails, UpEnd, Goto, Fails, bests, seen, driverMemory
<1>2. memory \in failed' \/ error \/ memory > max_memory
  BY Numbers DEF UpFails, UpEnd, Fails, GoingUp
<1>3. known' = known
  BY <1>1 DEF known
<1>4. SUFFICES ASSUME known # {}
               PROVE  /\ BestIs(best_memory)' /\ Settled(best_memory \div 2)'
                      /\ Settled(best_memory * 2)' \/ UpwardsSkipped'
  <2>1. (known # {} => /\ BestIs(best_memory)' /\ Settled(best_memory \div 2)'
                       /\ Settled(best_memory * 2)' \/ UpwardsSkipped')
          => CppDoneKept'
    BY <1>3 DEF CppDoneKept
  <2>2. QED
    BY <1>1, <1>4, <2>1, InPhase
<1>5. /\ BestIs(best_memory) /\ Settled(best_memory \div 2)
      /\ best_memory * 2 = memory \/ Settled(best_memory * 2)
  BY <1>1, <1>4, Up
<1>6. BestIs(best_memory)'
  BY <1>1, <1>3, <1>5 DEF BestIs
<1>7. \A m : Settled(m) => Settled(m)'
  BY <1>1, <1>3 DEF Settled, known
<1>8. Settled(best_memory * 2)' \/ UpwardsSkipped'
  <2>1. CASE error
    <3>1. Settled(best_memory * 2) \/ UpwardsSkipped
      BY <1>1, <2>1, Up
    <3>2. UpwardsSkipped => UpwardsSkipped'
      BY <1>1 DEF UpwardsSkipped
    <3>3. Settled(best_memory * 2) => Settled(best_memory * 2)'
      BY <1>1, <1>7
    <3>4. QED
      BY <3>1, <3>2, <3>3
  <2>2. CASE memory \in failed' \/ memory > max_memory
    <3>1. CASE best_memory * 2 = memory
      BY <1>1, <2>2, <3>1 DEF Settled
    <3>2. QED
      BY <1>1, <1>5, <1>7, <3>1 DEF Settled
  <2>3. QED
    BY <1>2, <2>1, <2>2
<1>9. Settled(best_memory \div 2)'
  BY <1>1, <1>5, <1>7 DEF Settled
<1>10. QED
  BY <1>6, <1>8, <1>9

\* A faster solve on the way up.
LEMMA UpFasterKeepsPhase ==
  ASSUME Kept, mainPc = "tuning", NEW d \in Durations, UpFaster(d)
  PROVE  PhaseKept'
<1>1. /\ pc = "upSolve" /\ Measure(d) /\ Faster(d)
      /\ pc' = "up" /\ best_duration' = d /\ best_memory' = memory /\ memory' = memory * 2
      /\ UNCHANGED <<error, failed>>
  BY DEF UpFaster, Keep, Goto, driverMemory
<1>2. held = memory /\ held \notin known /\ memory \in Legal /\ memory \in Nat /\ memory > 0
  BY <1>1, Up, Numbers, LegalMemory
<1>3. /\ memory \in known' /\ measured'[memory] = best_duration'
      /\ \A m \in known' : best_duration' <= measured'[m]
      /\ ~(Fresh')
  <2>1. (Fresh => known = {}) /\ (~Fresh => \E b \in known : BestIs(b))
    BY <1>1, Up DEF BestIs
  <2>2. /\ held \in known' /\ measured'[held] = best_duration'
        /\ \A m \in known' : best_duration' <= measured'[m]
        /\ ~(Fresh')
    BY <1>1, <1>2, <2>1, FasterIsBest
  <2>3. QED
    BY <1>2, <2>2
<1>4. known' = known \cup {memory}
  BY <1>1, <1>2, MeasureAdds
<1>5. memory' = 2 * memory /\ best_memory' * 2 = memory'
  BY <1>1, <1>2
<1>6. \A m \in known' : m < memory'
  BY <1>1, <1>2, <1>4, <1>5, Up, Numbers
<1>7. \E m \in Legal : memory' = 2 * m /\ Settled(m)'
  BY <1>2, <1>3, <1>5 DEF Settled, known
<1>8. Settled(best_memory \div 2)'
  <2>1. PICK m \in Legal : memory = 2 * m /\ Settled(m)
    BY <1>1, Up
  <2>2. best_memory' \div 2 = m
    BY <1>1, <2>1, LegalMemory
  <2>3. QED
    BY <1>1, <1>4, <2>1, <2>2, SettledStays DEF Settled, known
<1>9. ~error'
  BY <1>1, Up
<1>10. BestIs(best_memory)'
  BY <1>1, <1>3 DEF BestIs
<1>11. UpKept'
  BY <1>1, <1>3, <1>5, <1>6, <1>7, <1>8, <1>9, <1>10 DEF UpKept
<1>12. QED
  BY <1>1, <1>11, InPhase

\* A slower one ends it.
LEMMA UpSlowerKeepsPhase ==
  ASSUME Kept, mainPc = "tuning", NEW d \in Durations, UpSlower(d)
  PROVE  PhaseKept'
<1>1. /\ pc = "upSolve" /\ Measure(d) /\ ~Faster(d) /\ pc' = "cppDone"
      /\ UNCHANGED <<best_duration, best_memory, failed>>
  BY DEF UpSlower, Goto, bests, driverMemory
<1>2. held = memory /\ held \notin known
  BY <1>1, Up, Numbers
<1>3. /\ known' = known \cup {memory} /\ ~Fresh
      /\ BestIs(best_memory) =>
           /\ best_memory \in known' /\ measured'[best_memory] = best_duration'
           /\ \A m \in known' : best_duration' <= measured'[m]
  BY <1>1, <1>2, MeasureAdds, SlowerIsNot DEF BestIs
<1>4. /\ BestIs(best_memory) /\ Settled(best_memory \div 2)
      /\ best_memory * 2 = memory \/ Settled(best_memory * 2)
  BY <1>1, <1>3, Up
<1>5. BestIs(best_memory)'
  BY <1>1, <1>3, <1>4 DEF BestIs
<1>6. \A m : Settled(m) => Settled(m)'
  BY <1>1, <1>3 DEF Settled, known
<1>7. Settled(best_memory * 2)'
  <2>1. memory \in known'
    BY <1>3
  <2>2. CASE best_memory * 2 = memory
    BY <1>1, <2>1, <2>2 DEF Settled, known
  <2>3. QED
    BY <1>1, <1>4, <1>6, <2>2 DEF Settled
<1>8. Settled(best_memory \div 2)'
  BY <1>1, <1>4, <1>6 DEF Settled
<1>9. CppDoneKept'
  BY <1>5, <1>7, <1>8 DEF CppDoneKept
<1>10. QED
  BY <1>1, <1>9, InPhase
\* The largest memory of an opencl_driver is looked for.
LEMMA MaxKeepsPhase ==
  ASSUME Kept, mainPc = "tuning", MaxFits \/ MaxFails \/ MaxEnd
  PROVE  PhaseKept'
<1>1. pc = "max" /\ Fresh /\ known = {} /\ memory \in Legal
  BY DEF MaxFits, MaxFails, MaxEnd, Kept, PhaseKept, MaxKept
<1>2. CASE MaxFits
  <2>1. pc' = "best" /\ UNCHANGED <<memory, best_duration, measured>>
    BY <1>2 DEF MaxFits, Goto, bests, seen
  <2>2. BestKept'
    BY <1>1, <2>1 DEF BestKept, Small, Fresh, known
  <2>3. QED
    BY <2>1, <2>2, InPhase
<1>3. CASE MaxFails
  <2>1. /\ pc' = "max" /\ memory' = memory \div 2 /\ memory > min_memory
        /\ UNCHANGED <<best_duration, measured>>
    BY <1>3 DEF MaxFails, Goto, Halved, bests, seen
  <2>2. memory' \in Legal
    BY <1>1, <2>1, Numbers, HalfIsLegal
  <2>3. MaxKept'
    BY <1>1, <2>1, <2>2 DEF MaxKept, Fresh, known
  <2>4. QED
    BY <2>1, <2>3, InPhase
<1>4. CASE MaxEnd
  BY <1>4, InPhase DEF MaxEnd, Goto
<1>5. QED
  BY <1>2, <1>3, <1>4

\* What is known when an opencl_driver goes down in memory.
LEMMA Best ==
  ASSUME Kept, pc \in {"best", "solve"}
  PROVE  /\ Small(memory) /\ \A m \in known : Small(m) /\ m > memory
         /\ Fresh => known = {}
         /\ ~Fresh => \E b \in known : BestIs(b) /\ (memory = 0 \/ b = 2 * memory)
         /\ pc = "solve" => memory > 0 /\ held = memory
BY DEF Kept, PhaseKept, BestKept

\* The next memory is had, or not.
LEMMA BestKeepsPhase ==
  ASSUME Kept, mainPc = "tuning", BestFits \/ BestFails
  PROVE  PhaseKept'
<1>1. CASE BestFits
  <2>1. /\ pc = "best" /\ memory > 0 /\ pc' = "solve" /\ held' = memory
        /\ UNCHANGED <<memory, best_duration, measured>>
    BY <1>1 DEF BestFits, Fits, Goto, bests, seen
  <2>2. /\ Small(memory) /\ \A m \in known : Small(m) /\ m > memory
        /\ Fresh => known = {}
        /\ ~Fresh => \E b \in known : BestIs(b) /\ (memory = 0 \/ b = 2 * memory)
    BY <2>1, Best
  <2>3. BestKept'
    BY <2>1, <2>2 DEF BestKept, Fresh, BestIs, known, Small
  <2>4. QED
    BY <2>1, <2>3, InPhase
<1>2. CASE BestFails
  BY <1>2, InPhase DEF BestFails, Goto
<1>3. QED
  BY <1>1, <1>2

\* A faster solve.
LEMMA BestFasterKeepsPhase ==
  ASSUME Kept, mainPc = "tuning", NEW d \in Durations, BestFaster(d)
  PROVE  PhaseKept'
<1>1. /\ pc = "solve" /\ Measure(d) /\ Faster(d)
      /\ pc' = "best" /\ best_duration' = d /\ memory' = memory \div 2
  BY DEF BestFaster, Goto, Halved
<1>2. held = memory /\ held \notin known /\ Small(memory) /\ memory > 0
  BY <1>1, Best, Numbers
<1>3. /\ memory \in known' /\ measured'[memory] = best_duration'
      /\ \A m \in known' : best_duration' <= measured'[m]
      /\ ~(Fresh')
  <2>1. (Fresh => known = {}) /\ (~Fresh => \E b \in known : BestIs(b))
    BY <1>1, Best
  <2>2. /\ held \in known' /\ measured'[held] = best_duration'
        /\ \A m \in known' : best_duration' <= measured'[m]
        /\ ~(Fresh')
    BY <1>1, <1>2, <2>1, FasterIsBest
  <2>3. QED
    BY <1>2, <2>2
<1>4. known' = known \cup {memory}
  BY <1>1, <1>2, MeasureAdds
<1>5. /\ memory' \in Nat /\ Small(memory') /\ memory' < memory
      /\ memory' = 0 \/ memory = 2 * memory'
  BY <1>1, <1>2, HalfIsSmall
<1>6. \A m \in known' : Small(m) /\ m > memory'
  BY <1>1, <1>2, <1>4, <1>5, Best, Numbers
<1>7. \E b \in known' : BestIs(b)' /\ (memory' = 0 \/ b = 2 * memory')
  BY <1>3, <1>5 DEF BestIs
<1>8. BestKept'
  BY <1>1, <1>3, <1>5, <1>6, <1>7 DEF BestKept, Small, BestIs
<1>9. QED
  BY <1>1, <1>8, InPhase

\* A slower one: the memory before was the best.
LEMMA BestSlowerKeepsPhase ==
  ASSUME Kept, mainPc = "tuning", NEW d \in Durations, BestSlower(d)
  PROVE  PhaseKept'
<1>1. /\ pc = "solve" /\ Measure(d) /\ ~Faster(d)
      /\ pc' \in {"threads", "failed"} /\ best_memory' = memory * 2
      /\ pc' = "threads" => held' = memory * 2
      /\ UNCHANGED best_duration
  BY DEF BestSlower, Goto, Fits
<1>2. held = memory /\ held \notin known /\ memory > 0
  BY <1>1, Best, Numbers
<1>3. /\ ~Fresh
      /\ \A b \in known : BestIs(b) =>
           /\ b \in known' /\ measured'[b] = best_duration'
           /\ \A m \in known' : best_duration' <= measured'[m]
  BY <1>1, <1>2, SlowerIsNot
<1>4. PICK b \in known : BestIs(b) /\ b = 2 * memory
  BY <1>1, <1>2, <1>3, Best
<1>5. best_memory' = b
  BY <1>1, <1>4, Numbers
<1>6. Least(best_memory)'
  BY <1>3, <1>4, <1>5 DEF Least
<1>7. ThreadsKept'
  <2>1. pc' = "threads" => held' # 0
    BY <1>1, <1>2, Numbers
  <2>2. QED
    BY <1>6, <2>1 DEF ThreadsKept
<1>8. QED
  BY <1>1, <1>7, InPhase

\* The threads change nothing in the memory.
LEMMA ThreadsKeepPhase ==
  ASSUME Kept, mainPc = "tuning",
         ThreadsEnd \/ (\E d \in Durations : ThreadsFaster(d) \/ ThreadsSlower(d))
  PROVE  PhaseKept'
<1>1. /\ pc = "threads" /\ pc' \in {"threads", "oclDone"}
      /\ UNCHANGED <<best_memory, held, measured>>
  BY DEF ThreadsEnd, ThreadsFaster, ThreadsSlower, Goto, seen, driverMemory
<1>2. ThreadsKept'
  BY <1>1 DEF Kept, PhaseKept, ThreadsKept, Least, known
<1>3. QED
  BY <1>1, <1>2, InPhase

\* Every step of a tune keeps its phase.
LEMMA TuneKeepsPhase ==
  ASSUME Kept, mainPc = "tuning", TuneStep
  PROVE  PhaseKept'
<1>1. SolveFails => pc' = "failed"
  BY DEF SolveFails, Goto
<1>2. QED
  BY <1>1, FirstKeepsPhase, DownFasterKeepsPhase, DownSlowerKeepsPhase, DownEndKeepsPhase,
     UpFitsKeepsPhase, UpEndKeepsPhase, UpFasterKeepsPhase, UpSlowerKeepsPhase,
     MaxKeepsPhase, BestKeepsPhase, BestFasterKeepsPhase, BestSlowerKeepsPhase,
     ThreadsKeepPhase, InPhase
     DEF TuneStep

\* A step belongs to the tune of one of the drivers, and leaves it neither for
\* the other nor for a new one.
LEMMA OwnTune ==
  ASSUME TuneStep
  PROVE  /\ pc # "idle" /\ pc' # "idle" /\ UNCHANGED initial
         /\ pc' \in {"max", "best", "solve", "threads", "oclDone"} =>
              pc \in {"max", "best", "solve", "threads", "oclDone"}
<1> USE DEF Goto
<1>1. CASE FirstFits \/ FirstFails
  BY <1>1 DEF FirstFits, FirstFails
<1>2. CASE DownEnd \/ UpFits \/ UpFails \/ UpEnd
  BY <1>2 DEF DownEnd, UpFits, UpFails, UpEnd
<1>3. CASE MaxFits \/ MaxFails \/ MaxEnd \/ BestFits \/ BestFails
  BY <1>3 DEF MaxFits, MaxFails, MaxEnd, BestFits, BestFails
<1>4. CASE ThreadsEnd \/ SolveFails
  BY <1>4 DEF ThreadsEnd, SolveFails
<1>5. ASSUME NEW d \in Durations, DownFaster(d) \/ DownSlower(d) \/ UpFaster(d) \/ UpSlower(d)
      PROVE  /\ pc \in {"down", "upSolve"} /\ pc' \in {"down", "up", "cppDone"}
             /\ UNCHANGED initial
  BY <1>5 DEF DownFaster, DownSlower, UpFaster, UpSlower
<1>6. ASSUME NEW d \in Durations,
             BestFaster(d) \/ BestSlower(d) \/ ThreadsFaster(d) \/ ThreadsSlower(d)
      PROVE  /\ pc \in {"solve", "threads"} /\ pc' # "idle" /\ UNCHANGED initial
  BY <1>6 DEF BestFaster, BestSlower, ThreadsFaster, ThreadsSlower
<1>7. QED
  BY <1>1, <1>2, <1>3, <1>4, <1>5, <1>6 DEF TuneStep

\* A step measures nothing, or with the memory held.
LEMMA WhatIsMeasured ==
  ASSUME Kept, TuneStep
  PROVE  \/ UNCHANGED measured
         \/ \E d \in Durations : Measure(d) /\ held \in known' /\ held # 0
<1>1. Scalars
  BY DEF Kept, TypeOK, TuneTypeOK, Scalars
<1>2. ASSUME NEW d \in Durations, ThreadsFaster(d) \/ ThreadsSlower(d)
      PROVE  UNCHANGED measured
  BY <1>2 DEF ThreadsFaster, ThreadsSlower
<1>3. ASSUME NEW d \in Durations,
             \/ DownFaster(d) \/ DownSlower(d) \/ UpFaster(d) \/ UpSlower(d)
             \/ BestFaster(d) \/ BestSlower(d)
      PROVE  Measure(d) /\ held \in known' /\ held # 0
  <2>1. Measure(d)
    BY <1>3 DEF DownFaster, DownSlower, UpFaster, UpSlower, BestFaster, BestSlower
  <2>2. (pc = "down" /\ ~error) \/ pc \in {"upSolve", "solve"}
    BY <1>3 DEF DownFaster, DownSlower, UpFaster, UpSlower, BestFaster, BestSlower, GoingDown
  <2>3. held # 0
    <3>1. CASE pc = "down" /\ ~error
      BY <3>1, Down, LegalMemory
    <3>2. CASE pc = "upSolve"
      BY <3>2, Up, LegalMemory
    <3>3. CASE pc = "solve"
      BY <3>3, Best, Numbers
    <3>4. QED
      BY <2>2, <3>1, <3>2, <3>3
  <2>4. held \in known'
    BY <2>1 DEF Measure, known
  <2>5. QED
    BY <2>1, <2>3, <2>4
<1>4. QED
  BY <1>1, <1>2, <1>3, UnmeasuredTypes DEF TuneStep, seen

\* Nothing is measured without memory; the driver is the one the tune is of.
LEMMA TuneKeepsTune ==
  ASSUME Kept, mainPc = "tuning", TuneStep, UNCHANGED mainVars
  PROVE  TuneKept'
<1>1. 0 \notin known /\ (known = {} => measured = [m \in {} |-> 0])
  BY DEF Kept, TuneKept
<1>2. 0 \notin known' /\ (known' = {} => measured' = [m \in {} |-> 0])
  <2>1. CASE UNCHANGED measured
    BY <1>1, <2>1 DEF known
  <2>2. ASSUME NEW d \in Durations, Measure(d), held \in known', held # 0
        PROVE  0 \notin known' /\ known' # {}
    BY <1>1, <2>2 DEF Measure, known
  <2>3. QED
    BY <2>1, <2>2, WhatIsMeasured
<1>3. UNCHANGED <<options, initial>>
  BY OwnTune DEF mainVars
<1>4. /\ initial \in Legal /\ options.operation = "tune"
      /\ pc' \in {"max", "best", "solve", "threads", "oclDone"} => options.driver = "opencl"
  BY OwnTune, Tuned
<1>5. QED
  BY <1>2, <1>3, <1>4 DEF TuneKept

\* What main did stays done.
LEMMA TuneKeepsMain ==
  ASSUME Kept, mainPc = "tuning", TuneStep, UNCHANGED mainVars
  PROVE  MainKept'
BY DEF Kept, MainKept, mainVars

\* A step of a tune keeps everything.
LEMMA TuningKeeps ==
  ASSUME Kept, Tuning
  PROVE  Kept'
<1>1. mainPc = "tuning" /\ TuneStep /\ UNCHANGED mainVars
  BY DEF Tuning
<1>2. TypeOK'
  BY <1>1, TuneTypes DEF Kept, TypeOK, mainVars
<1>3. QED
  BY <1>1, <1>2, TuneLegal, TuneKeepsTune, TuneKeepsPhase, TuneKeepsMain DEF Kept

-----------------------------------------------------------------------------
(* The steps of main.                                                      *)

\* Nothing the tune knows has changed.
LEMMA SameTune ==
  ASSUME Kept, UNCHANGED <<tuneVars, options>>
  PROVE  TuneTypeOK' /\ TuneKept' /\ PhaseKept'
<1>1. UNCHANGED <<pc, initial, memory, threads, error, best_duration, best_memory, best_threads,
                  held, failed, measured, measuredThreads, options>>
  BY DEF tuneVars, arguments, bests, driverMemory, seen
<1>2. TuneTypeOK'
  BY <1>1 DEF Kept, TypeOK, TuneTypeOK
<1>3. TuneKept'
  BY <1>1 DEF Kept, TuneKept, known
<1>4. FirstKept' /\ MaxKept'
  BY <1>1 DEF Kept, PhaseKept, FirstKept, MaxKept, Fresh, known, FromInitial
<1>5. DownKept'
  BY <1>1 DEF Kept, PhaseKept, DownKept, Fresh, known, FromInitial, BestIs, Settled
<1>6. UpKept'
  BY <1>1 DEF Kept, PhaseKept, UpKept, Fresh, known, BestIs, Settled, UpwardsSkipped
<1>7. CppDoneKept'
  BY <1>1 DEF Kept, PhaseKept, CppDoneKept, known, BestIs, Settled, UpwardsSkipped
<1>8. BestKept'
  BY <1>1 DEF Kept, PhaseKept, BestKept, Fresh, known, BestIs, Small
<1>9. ThreadsKept'
  BY <1>1 DEF Kept, PhaseKept, ThreadsKept, Least, known
<1>10. QED
  BY <1>2, <1>3, <1>4, <1>5, <1>6, <1>7, <1>8, <1>9 DEF PhaseKept

\* As long as the tune is idle, none of its phases is entered.
LEMMA IdlePhase ==
  ASSUME pc = "idle"
  PROVE  PhaseKept
BY DEF PhaseKept, FirstKept, DownKept, UpKept, CppDoneKept, MaxKept, BestKept, ThreadsKept
\* A lookup that is accepted is one.
LEMMA LegalIsLookup ==
  ASSUME options \in Options, LegalLookup(ChosenLookup), LegalDifficulty
  PROVE  ChosenLookup \in 1 .. MaxLookup /\ options.difficulty \in 1 .. MaxDifficulty
<1>1. /\ options.difficulty \in Nat /\ options.lookup \in Int
      /\ MaxLookup \in Nat /\ MaxDifficulty \in Nat
  BY CommandLineAssumption, TuningAssumption DEF Absent
<1>2. (options.difficulty \div 2) + 1 \in Int
  BY <1>1
<1>3. ChosenLookup \in Int
  BY <1>1, <1>2 DEF ChosenLookup
<1>4. QED
  BY <1>1, <1>3 DEF LegalLookup, LegalDifficulty

\* The steps of main that call no driver.
Quiet ==
  \/ ParseExits \/ Parse \/ Construct \/ ConstructExits \/ OpenCLAborts
  \/ Check \/ CheckExits \/ Operate
  \/ Profile \/ ProfileEnd \/ Average \/ AverageTraps \/ TuneReturns

\* They leave the tune and the options alone; the driver changes only before it
\* is used.
LEMMA QuietLeaves ==
  ASSUME Kept, Quiet
  PROVE  /\ UNCHANGED <<tuneVars, options>>
         /\ known = {} \/ UNCHANGED <<state, difficulty>>
<1>1. mainPc \in {"constructing", "operating"} => known = {}
  BY DEF Kept, MainKept
<1> USE DEF Proceed, Exit
<1>2. CASE ParseExits \/ Parse \/ CheckExits \/ Check
  BY <1>2 DEF ParseExits, Parse, CheckExits, Check
<1>3. CASE Construct
  BY <1>1, <1>3 DEF Construct
<1>4. CASE ConstructExits \/ OpenCLAborts
  BY <1>4 DEF ConstructExits, OpenCLAborts
<1>5. CASE Operate
  BY <1>5 DEF Operate
<1>6. CASE Profile
  BY <1>1, <1>6 DEF Profile
<1>7. CASE ProfileEnd \/ Average \/ AverageTraps \/ TuneReturns
  BY <1>7 DEF ProfileEnd, Average, AverageTraps, TuneReturns
<1>8. QED
  BY <1>2, <1>3, <1>4, <1>5, <1>6, <1>7 DEF Quiet

\* Their variables stay typed.
LEMMA QuietTypes ==
  ASSUME Kept, Quiet
  PROVE  TypeOK'
<1>1. /\ options \in Options /\ mainPc \in MainState /\ result \in {-1, 0, 1}
      /\ state \in {"none", "constructed", "initialized"}
      /\ difficulty \in 0 .. MaxDifficulty /\ lookup \in 0 .. MaxLookup
      /\ solved \in 0 .. options.count
  BY DEF Kept, TypeOK
<1>2. TuneTypeOK' /\ options' = options
  BY QuietLeaves, SameTune
<1>3. SUFFICES /\ mainPc' \in MainState /\ result' \in {-1, 0, 1}
               /\ state' \in {"none", "constructed", "initialized"}
               /\ difficulty' \in 0 .. MaxDifficulty /\ lookup' \in 0 .. MaxLookup
               /\ solved' = solved
  BY <1>1, <1>2 DEF TypeOK
<1> USE DEF Proceed, Exit, MainState
<1>4. CASE ParseExits \/ Parse \/ CheckExits
  BY <1>1, <1>4 DEF ParseExits, Parse, CheckExits
<1>5. CASE Check
  <2>1. lookup' \in 0 .. MaxLookup
    BY <1>1, <1>5, LegalIsLookup, TuningAssumption DEF Check
  <2>2. QED
    BY <1>1, <1>5, <2>1 DEF Check
<1>6. CASE Construct \/ ConstructExits \/ OpenCLAborts
  BY <1>1, <1>6 DEF Construct, ConstructExits, OpenCLAborts
<1>7. CASE Operate
  BY <1>1, <1>7 DEF Operate
<1>8. CASE Profile
  <2>1. mainPc = "operating"
    BY <1>8 DEF Profile
  <2>2. options.difficulty \in 0 .. MaxDifficulty
    BY <2>1, CommandLineAssumption DEF Kept, MainKept
  <2>3. QED
    BY <1>1, <1>8, <2>2 DEF Profile
<1>9. CASE ProfileEnd \/ Average \/ AverageTraps \/ TuneReturns
  BY <1>1, <1>9 DEF ProfileEnd, Average, AverageTraps, TuneReturns
<1>10. QED
  BY <1>4, <1>5, <1>6, <1>7, <1>8, <1>9 DEF Quiet

\* What main has checked stays so.
LEMMA QuietKeepsMain ==
  ASSUME Kept, Quiet
  PROVE  MainKept'
<1>1. /\ UNCHANGED <<pc, best_duration, measured, held, options>>
      /\ MainKept /\ options \in Options
  BY QuietLeaves DEF tuneVars, arguments, bests, driverMemory, seen, Kept, TypeOK
<1> USE DEF Proceed, Exit, MainKept, Fresh, known
<1>2. CASE ParseExits \/ Parse \/ CheckExits
  BY <1>1, <1>2 DEF ParseExits, Parse, CheckExits
<1>3. CASE Check
  <2>1. lookup' \in 1 .. MaxLookup /\ options.difficulty \in 1 .. MaxDifficulty
    BY <1>1, <1>3, LegalIsLookup DEF Check
  <2>2. QED
    BY <1>1, <1>3, <2>1 DEF Check
<1>4. CASE Construct
  BY <1>1, <1>4 DEF Construct
<1>5. CASE ConstructExits \/ OpenCLAborts
  BY <1>1, <1>5 DEF ConstructExits, OpenCLAborts
<1>6. CASE Operate
  BY <1>1, <1>6 DEF Operate
<1>7. CASE Profile
  BY <1>1, <1>7 DEF Profile
<1>8. CASE ProfileEnd \/ Average \/ AverageTraps \/ TuneReturns
  BY <1>1, <1>8 DEF ProfileEnd, Average, AverageTraps, TuneReturns
<1>9. QED
  BY <1>2, <1>3, <1>4, <1>5, <1>6, <1>7, <1>8 DEF Quiet

\* The calls made are still legal.
LEMMA SameCalls ==
  ASSUME Kept, UNCHANGED <<tuneVars, options>>, known = {} \/ UNCHANGED <<state, difficulty>>
  PROVE  DriverCallsAreLegal'
BY DEF Kept, DriverCallsAreLegal, tuneVars, driverMemory, seen, known

\* A quiet step keeps everything.
LEMMA QuietKeeps ==
  ASSUME Kept, Quiet
  PROVE  Kept'
BY QuietLeaves, QuietTypes, QuietKeepsMain, SameCalls, SameTune DEF Kept

-----------------------------------------------------------------------------
(* The calls of the driver by main.                                        *)

\* The memory of profile is had, or not.
LEMMA ProfileMemoryKeeps ==
  ASSUME Kept, ProfileFits \/ ProfileFails
  PROVE  Kept'
<1>1. /\ mainPc = "profiling" /\ mainPc' \in {"solving", "exited"}
      /\ mainPc' = "solving" => held' = lookup_memory
      /\ result' \in {result, 1}
      /\ UNCHANGED <<options, state, difficulty, lookup, solved>>
      /\ UNCHANGED <<pc, initial, memory, threads, error, best_duration, best_memory, best_threads,
                     measured, measuredThreads>>
      /\ held' \in {0, lookup_memory} /\ failed' \subseteq failed \cup {lookup_memory}
  BY DEF ProfileFits, ProfileFails, AfterNoMemory, Proceed, Exit, Fits, Fails, arguments, bests, seen
<1>2. lookup \in 0 .. MaxLookup /\ pc = "idle"
  BY <1>1 DEF Kept, TypeOK, MainKept
<1>3. lookup_memory \in Legal /\ lookup_memory \in Nat /\ 0 \notin Legal
  BY <1>2, LookupIsLegal, LegalMemory DEF lookup_memory
<1>4. TypeOK'
  BY <1>1, <1>3 DEF Kept, TypeOK, TuneTypeOK, MainState
<1>5. DriverCallsAreLegal'
  <2>1. state' = "initialized" /\ difficulty' > 0
    BY <1>1 DEF Kept, MainKept, TypeOK
  <2>2. QED
    BY <1>1, <1>3, <2>1, AskedIsLegal DEF Asked
<1>6. TuneKept'
  BY <1>1, <1>2 DEF Kept, TuneKept, known
<1>7. PhaseKept'
  BY <1>1, <1>2, InPhase
<1>8. MainKept'
  BY <1>1, <1>2 DEF Kept, MainKept, lookup_memory
<1>9. QED
  BY <1>4, <1>5, <1>6, <1>7, <1>8 DEF Kept
\* A solve of profile.
LEMMA ProfileSolveKeeps ==
  ASSUME Kept, NEW d \in Durations, ProfileSolve(d)
  PROVE  Kept'
<1>1. /\ mainPc = "solving" /\ solved < options.count /\ solved' = solved + 1 /\ Measure(d)
      /\ UNCHANGED <<options, mainPc, result, state, difficulty, lookup>>
      /\ UNCHANGED <<pc, initial, memory, threads, error, best_duration, best_memory, best_threads,
                     held, failed>>
  BY DEF ProfileSolve, arguments, bests, driverMemory
<1>2. /\ pc = "idle" /\ held = lookup_memory /\ lookup \in 0 .. MaxLookup
      /\ state = "initialized" /\ difficulty > 0
  BY <1>1 DEF Kept, TypeOK, MainKept
<1>3. held # 0
  BY <1>2, LookupIsLegal, LegalMemory DEF lookup_memory
<1>4. known' = known \cup {held}
  BY <1>1 DEF Measure, known
<1>5. TypeOK'
  <2>1. TuneTypeOK'
    BY <1>1, MeasureTypes DEF Kept, TypeOK, TuneTypeOK
  <2>2. options.count \in Nat
    BY CommandLineAssumption DEF Kept, TypeOK
  <2>3. solved' \in 0 .. options.count
    BY <1>1, <2>2 DEF Kept, TypeOK
  <2>4. QED
    BY <1>1, <2>1, <2>3 DEF Kept, TypeOK
<1>6. DriverCallsAreLegal'
  BY <1>1, <1>2 DEF Kept, DriverCallsAreLegal
<1>7. TuneKept'
  BY <1>1, <1>2, <1>3, <1>4 DEF Kept, TuneKept
<1>8. PhaseKept'
  BY <1>1, <1>2, InPhase
<1>9. MainKept'
  BY <1>1, <1>2 DEF Kept, MainKept, lookup_memory
<1>10. QED
  BY <1>5, <1>6, <1>7, <1>8, <1>9 DEF Kept

\* The call of tune.
LEMMA TuneKeeps ==
  ASSUME Kept, Tune
  PROVE  Kept'
<1>1. /\ mainPc = "operating" /\ mainPc' = "tuning" /\ options.operation = "tune"
      /\ difficulty' = options.difficulty
      /\ initial' = lookup_memory /\ memory' = lookup_memory /\ threads' = InitialThreads
      /\ UNCHANGED <<options, result, state, lookup, solved>>
      /\ UNCHANGED <<best_duration, best_memory, best_threads, held, failed, measured,
                     measuredThreads>>
      /\ \/ options.driver = "cpp" /\ pc' = "first" /\ error' = FALSE
         \/ options.driver # "cpp" /\ pc' = "max" /\ error' = TRUE
  BY DEF Tune, Proceed, CppTune, OclTune, Called, bests, driverMemory, seen
<1>2. /\ known = {} /\ Fresh /\ options.driver \in {"cpp", "opencl"} /\ state = "initialized"
      /\ lookup \in 0 .. MaxLookup /\ options.difficulty \in 1 .. MaxDifficulty
  BY <1>1 DEF Kept, TypeOK, MainKept
<1>3. lookup_memory \in Legal /\ lookup_memory \in Nat
  BY <1>2, LookupIsLegal, LegalMemory DEF lookup_memory
<1>4. InitialThreads \in Nat
  BY CommandLineAssumption DEF InitialThreads, Kept, TypeOK
<1>5. TypeOK'
  <2>1. TuneTypeOK'
    BY <1>1, <1>3, <1>4 DEF Kept, TypeOK, TuneTypeOK, Loops
  <2>2. difficulty' \in 0 .. MaxDifficulty
    BY <1>1, <1>2, CommandLineAssumption
  <2>3. QED
    BY <1>1, <2>1, <2>2 DEF Kept, TypeOK, MainState
<1>6. DriverCallsAreLegal'
  BY <1>1, <1>2 DEF Kept, DriverCallsAreLegal, known
<1>7. TuneKept'
  BY <1>1, <1>2, <1>3 DEF Kept, TuneKept, known
<1>8. PhaseKept'
  <2>1. CASE pc' = "first"
    <3>1. FirstKept'
      BY <1>1, <1>2, <1>3 DEF FirstKept, Fresh, known, FromInitial
    <3>2. QED
      BY <2>1, <3>1, InPhase
  <2>2. CASE pc' = "max"
    <3>1. MaxKept'
      BY <1>1, <1>2, <1>3 DEF MaxKept, Fresh, known
    <3>2. QED
      BY <2>2, <3>1, InPhase
  <2>3. QED
    BY <1>1, <2>1, <2>2
<1>9. MainKept'
  BY <1>1, <1>2 DEF Kept, MainKept
<1>10. QED
  BY <1>5, <1>6, <1>7, <1>8, <1>9 DEF Kept

-----------------------------------------------------------------------------
(* The theorems.                                                           *)

\* The program has just been started.
LEMMA InitKept == Init => Kept
<1> SUFFICES ASSUME Init PROVE Kept
  OBVIOUS
<1>1. /\ pc = "idle" /\ initial = 0 /\ memory = 0 /\ threads = 0 /\ error = FALSE
      /\ best_duration = Longest /\ best_memory = 0 /\ best_threads = 0
      /\ held = 0 /\ failed = {}
      /\ measured = [m \in {} |-> 0] /\ measuredThreads = {}
      /\ options \in Options /\ mainPc = "parsing" /\ result = 1 /\ state = "none"
      /\ difficulty = 0 /\ lookup = 0 /\ solved = 0
  BY DEF Init, TuneInit
<1>2. known = {}
  BY <1>1 DEF known
<1>3. options.count \in Nat /\ MaxDifficulty \in Nat /\ MaxLookup \in Nat
  BY <1>1, CommandLineAssumption, TuningAssumption
<1>4. TypeOK
  <2>1. TuneTypeOK
    BY <1>1, <1>2, TuningAssumption DEF TuneTypeOK, known
  <2>2. lookup \in 0 .. MaxLookup /\ difficulty \in 0 .. MaxDifficulty /\ solved \in 0 .. options.count
    BY <1>1, <1>3
  <2>3. mainPc \in MainState /\ state \in {"none", "constructed", "initialized"}
    BY <1>1 DEF MainState
  <2>4. QED
    BY <1>1, <2>1, <2>2, <2>3 DEF TypeOK
<1>5. DriverCallsAreLegal
  BY <1>1, <1>2 DEF DriverCallsAreLegal, known
<1>6. TuneKept
  BY <1>1, <1>2 DEF TuneKept
<1>7. PhaseKept
  BY <1>1 DEF PhaseKept, FirstKept, DownKept, UpKept, CppDoneKept, MaxKept, BestKept, ThreadsKept
<1>8. MainKept
  BY <1>1, <1>2 DEF MainKept, Fresh
<1>9. QED
  BY <1>4, <1>5, <1>6, <1>7, <1>8 DEF Kept

\* Every step keeps the invariant.
LEMMA NextKept == Kept /\ [Next]_vars => Kept'
<1> SUFFICES ASSUME Kept, [Next]_vars PROVE Kept'
  OBVIOUS
<1>1. CASE UNCHANGED vars
  <2>1. UNCHANGED <<tuneVars, options, mainPc, result, state, difficulty, lookup, solved, pc,
                    held, best_duration, measured>>
    BY <1>1 DEF vars, mainVars, tuneVars, arguments, bests, driverMemory, seen
  <2>2. TypeOK'
    BY <2>1, SameTune DEF Kept, TypeOK
  <2>3. MainKept'
    BY <2>1 DEF Kept, MainKept, Fresh, known, lookup_memory
  <2>4. QED
    BY <2>1, <2>2, <2>3, SameTune, SameCalls DEF Kept
<1>2. CASE Next
  BY <1>2, QuietKeeps, ProfileMemoryKeeps, ProfileSolveKeeps, TuneKeeps, TuningKeeps
     DEF Next, Quiet
<1>3. QED
  BY <1>1, <1>2

\* The inductive invariant holds throughout.
LEMMA KeptAlways == Spec => []Kept
BY InitKept, NextKept, PTL DEF Spec

(***************************************************************************)
(* Every variable of the program and of the tunes has its type: no memory  *)
(* and no number of threads becomes negative, for any options.             *)
(***************************************************************************)
THEOREM TypesKept == Spec => []TypeOK
<1>1. Kept => TypeOK
  BY DEF Kept
<1>2. QED
  BY <1>1, KeptAlways, PTL

(***************************************************************************)
(* The driver is initialized and has its difficulty when it solves, and is *)
(* never asked for a memory its assertions forbid, but by the tune of      *)
(* opencl_driver; whatever the options and whatever fails.                 *)
(***************************************************************************)
THEOREM CallsAreLegal == Spec => []DriverCallsAreLegal
<1>1. Kept => DriverCallsAreLegal
  BY DEF Kept
<1>2. QED
  BY <1>1, KeptAlways, PTL

(***************************************************************************)
(* Nothing is measured after a memory_set that failed.                     *)
(***************************************************************************)
THEOREM MeasuredWithMemory == Spec => []SolvesHaveMemory
<1>1. Kept => SolvesHaveMemory
  BY DEF Kept, TuneKept, PhaseKept, ThreadsKept, SolvesHaveMemory, known
<1>2. QED
  BY <1>1, KeptAlways, PTL

(***************************************************************************)
(* The memory a tune recommends is the best of those it measured.          *)
(***************************************************************************)
THEOREM TheBestIsFound == Spec => []BestIsBest
<1>1. Kept => BestIsBest
  <2> SUFFICES ASSUME Kept, pc \in {"cppDone", "oclDone"}, measured # [m \in {} |-> 0]
               PROVE  Least(best_memory)
    BY DEF BestIsBest, Least, known
  <2>1. known # {}
    BY DEF Kept, TuneKept
  <2>2. CASE pc = "cppDone"
    BY <2>1, <2>2 DEF Kept, PhaseKept, CppDoneKept, BestIs, Least
  <2>3. CASE pc = "oclDone"
    BY <2>3 DEF Kept, PhaseKept, ThreadsKept
  <2>4. QED
    BY <2>2, <2>3
<1>2. QED
  BY <1>1, KeptAlways, PTL

(***************************************************************************)
(* The tune of cpp_driver stops only where both directions are settled, or *)
(* where the first memory of the way down could not be had.                *)
(***************************************************************************)
THEOREM BothAreTried == Spec => []BothDirections
<1>1. Kept => BothDirections
  <2> SUFFICES ASSUME Kept, pc = "cppDone", measured # [m \in {} |-> 0]
               PROVE  /\ Settled(best_memory \div 2)
                      /\ Settled(best_memory * 2) \/ UpwardsSkipped
    BY DEF BothDirections
  <2>1. known # {}
    BY DEF Kept, TuneKept
  <2>2. QED
    BY <2>1 DEF Kept, PhaseKept, CppDoneKept
<1>2. QED
  BY <1>1, KeptAlways, PTL

-----------------------------------------------------------------------------
(* The program comes to its end.                                           *)

\* Half of a memory that is not the smallest is less than that memory.
LEMMA HalvingShrinks ==
  ASSUME Scalars, memory > min_memory
  PROVE  Halved \in Nat /\ Halved < memory
<1>1. memory \in Nat /\ memory > 0
  BY LegalMemory DEF Scalars
<1>2. QED
  BY <1>1 DEF Halved

\* A step of a tune that measures nothing ends a loop, or the round, or halves
\* the memory.
LEMMA UnmeasuredAdvances ==
  ASSUME Scalars,
         \/ FirstFits \/ FirstFails \/ DownEnd \/ UpFits \/ UpFails \/ UpEnd
         \/ MaxFits \/ MaxFails \/ MaxEnd \/ BestFits \/ BestFails \/ ThreadsEnd \/ SolveFails
  PROVE  TuneAdvances
<1> USE DEF Goto, TuneAdvances, LoopsLeft, RoundLeft, bests
<1>1. CASE FirstFits \/ MaxFits
  BY <1>1 DEF FirstFits, MaxFits
<1>2. CASE FirstFails
  <2>1. CASE memory > min_memory
    <3>1. /\ pc = "first" /\ pc' = "first" /\ memory' = Halved
          /\ best_duration' = best_duration
      BY <1>2, <2>1 DEF FirstFails
    <3>2. QED
      BY <2>1, <3>1, HalvingShrinks
  <2>2. CASE ~(memory > min_memory)
    BY <1>2, <2>2 DEF FirstFails
  <2>3. QED
    BY <2>1, <2>2
<1>3. CASE MaxFails
  <2>1. /\ pc = "max" /\ pc' = "max" /\ memory' = Halved
        /\ best_duration' = best_duration /\ memory > min_memory
    BY <1>3 DEF MaxFails
  <2>2. QED
    BY <2>1, HalvingShrinks
<1>4. CASE DownEnd \/ UpFails \/ UpEnd \/ MaxEnd \/ BestFails \/ ThreadsEnd \/ SolveFails
  BY <1>4 DEF DownEnd, UpFails, UpEnd, MaxEnd, BestFails, ThreadsEnd, SolveFails
<1>5. CASE UpFits \/ BestFits
  BY <1>5 DEF UpFits, BestFits
<1>6. QED
  BY <1>1, <1>2, <1>3, <1>4, <1>5

\* One that measures improves on the best duration, or ends its loop.
LEMMA MeasuredAdvances ==
  ASSUME Scalars, NEW d \in Durations,
         \/ DownFaster(d) \/ DownSlower(d) \/ UpFaster(d) \/ UpSlower(d)
         \/ BestFaster(d) \/ BestSlower(d) \/ ThreadsFaster(d) \/ ThreadsSlower(d)
  PROVE  TuneAdvances
<1>1. CASE DownFaster(d) \/ ThreadsFaster(d)
  BY <1>1 DEF DownFaster, ThreadsFaster, Faster, Keep, TuneAdvances, LoopsLeft
<1>2. CASE UpFaster(d) \/ BestFaster(d)
  BY <1>2 DEF UpFaster, BestFaster, Faster, Keep, Goto, TuneAdvances, LoopsLeft
<1>3. CASE DownSlower(d) \/ UpSlower(d) \/ BestSlower(d) \/ ThreadsSlower(d)
  BY <1>3 DEF DownSlower, UpSlower, BestSlower, ThreadsSlower, Goto, TuneAdvances, LoopsLeft
<1>4. QED
  BY <1>1, <1>2, <1>3

(***************************************************************************)
(* The program takes finitely many steps: each ends a stage of main, makes *)
(* one of the solves of a profile, or advances the tune, for any options,  *)
(* any limits of the memory, any durations and any failures.               *)
(***************************************************************************)
THEOREM ProgramDoesAdvance == Spec => ProgramAdvances
<1> DEFINE Ahead ==
      \/ StagesLeft' < StagesLeft
      \/ /\ StagesLeft' = StagesLeft /\ mainPc = "solving"
         /\ solved < solved' /\ solved' <= options.count
      \/ StagesLeft' = StagesLeft /\ mainPc = "tuning" /\ TuneAdvances
<1>1. ASSUME TypeOK, Next PROVE Ahead
  <2> USE DEF Proceed, Exit, StagesLeft
  <2>1. CASE ParseExits \/ Parse \/ Construct \/ ConstructExits \/ Check \/ CheckExits
    BY <2>1 DEF ParseExits, Parse, Construct, ConstructExits, Check, CheckExits
  <2>2. CASE OpenCLAborts \/ Operate
    BY <2>2 DEF OpenCLAborts, Operate
  <2>3. CASE Profile \/ ProfileFits \/ ProfileFails \/ ProfileEnd \/ Average \/ AverageTraps
    BY <2>3 DEF Profile, ProfileFits, ProfileFails, AfterNoMemory, ProfileEnd, Average,
       AverageTraps
  <2>4. CASE \E d \in Durations : ProfileSolve(d)
    <3>1. /\ UNCHANGED <<mainPc, options>> /\ mainPc = "solving"
          /\ solved < options.count /\ solved' = solved + 1
      BY <2>4 DEF ProfileSolve
    <3>2. solved \in Nat /\ options.count \in Nat
      BY <1>1, CommandLineAssumption DEF TypeOK
    <3>3. QED
      BY <3>1, <3>2
  <2>5. CASE Tune \/ TuneReturns
    BY <2>5 DEF Tune, TuneReturns
  <2>6. CASE Tuning
    <3>1. Scalars
      BY <1>1 DEF TypeOK, TuneTypeOK, Scalars
    <3>2. mainPc = "tuning" /\ mainPc' = mainPc /\ TuneStep
      BY <2>6 DEF Tuning, mainVars
    <3>3. TuneAdvances
      BY <3>1, <3>2, UnmeasuredAdvances, MeasuredAdvances DEF TuneStep
    <3>4. QED
      BY <3>2, <3>3
  <2>7. QED
    BY <1>1, <2>1, <2>2, <2>3, <2>4, <2>5, <2>6 DEF Next
<1>2. TypeOK /\ [Next]_vars => [Ahead]_vars
  BY <1>1
<1>3. QED
  BY <1>2, TypesKept, PTL DEF Spec, ProgramAdvances

=============================================================================
