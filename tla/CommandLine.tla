------------------------------ MODULE CommandLine ------------------------------
(***************************************************************************)
(* nano_pow_driver, the command line program (src/src/main.cpp): it parses *)
(* its options, constructs a driver and performs one operation, tune being *)
(* the loops of Tuning.                                                    *)
(*                                                                         *)
(* The options are what the user gave.  cl.hpp throws cl::Error; what the  *)
(* driver turns into an OCLDriverException main catches, the rest aborts.  *)
(***************************************************************************)
EXTENDS Tuning

CONSTANTS Options,         \* records of driver, operation, difficulty, ...
          MaxDifficulty,   \* 127
          MaxDefault,      \* 4096, the most threads a tune begins with
          DriverThreads    \* threads_get () of a driver just constructed

\* parsed.count (...) = 0
Absent == -1

\* The numbers among the options are unsigned.
ASSUME CommandLineAssumption ==
  /\ \A o \in Options : /\ o.difficulty \in Nat /\ o.lookup \in Nat \cup {Absent}
                       /\ o.count \in Nat /\ o.threads \in Nat
  /\ MaxDifficulty \in Nat /\ MaxDefault \in Nat /\ DriverThreads \in Nat

VARIABLES
  options,
  mainPc,
  result,         \* the exit code
  state,          \* of the driver: "none", "constructed" or "initialized"
  difficulty,     \* what difficulty_set was given, 0 for never
  lookup,         \* the local variable, once computed
  solved          \* solves of the profile in progress

mainVars == <<options, mainPc, result, state, difficulty, lookup, solved>>
vars     == <<mainVars, tuneVars>>

MainState ==
  { "parsing", "constructing", "checking", "operating", "profiling", "solving",
    "averaging", "tuning",
    "exited",
    "aborted" }   \* an exception nobody catches, or SIGFPE

TypeOK ==
  /\ TuneTypeOK
  /\ options \in Options
  /\ mainPc \in MainState
  /\ result \in {-1, 0, 1}
  /\ state \in {"none", "constructed", "initialized"}
  /\ difficulty \in 0 .. MaxDifficulty
  /\ lookup \in 0 .. MaxLookup
  /\ solved \in 0 .. options.count

Init ==
  /\ TuneInit
  /\ options \in Options
  /\ mainPc = "parsing" /\ result = 1 /\ state = "none"
  /\ difficulty = 0 /\ lookup = 0 /\ solved = 0

-----------------------------------------------------------------------------
Proceed(from, to) ==
  /\ mainPc = from /\ mainPc' = to
  /\ UNCHANGED options

Exit(from, code) == Proceed(from, "exited") /\ result' = code

\* --help, or a cxxopts::OptionException.
ParseExits == Exit("parsing", result) /\ UNCHANGED <<state, difficulty, lookup, solved, tuneVars>>
Parse ==
  /\ Proceed("parsing", "constructing")
  /\ UNCHANGED <<result, state, difficulty, lookup, solved, tuneVars>>

\* The driver; an opencl_driver is initialized too, but for a dump.
Construct ==
  /\ options.driver \in {"cpp", "opencl"}
  /\ Proceed("constructing", "checking")
  /\ state' = IF options.driver = "opencl" /\ options.operation = "dump"
              THEN "constructed" ELSE "initialized"
  /\ UNCHANGED <<result, difficulty, lookup, solved, tuneVars>>

\* An unknown driver, or initialize throws.
ConstructExits ==
  /\ options.driver # "cpp"
  /\ ~(options.driver = "opencl" /\ options.operation = "dump")
  /\ Exit("constructing", result)
  /\ UNCHANGED <<state, difficulty, lookup, solved, tuneVars>>

\* Nobody catches the cl::Error that opencl_environment throws when it finds no
\* platform, those of a dump, and those with which difficulty_set and
\* max_threads begin a profile and a tune.
OpenCLAborts ==
  /\ options.driver = "opencl"
  /\ \/ mainPc = "constructing"
     \/ mainPc = "operating" /\ options.operation \in {"dump", "profile", "tune"}
  /\ mainPc' = "aborted"
  /\ UNCHANGED <<options, result, state, difficulty, lookup, solved, tuneVars>>

\* Mutation: no upper limit.
LegalLookupAny(l) == l >= 1
LegalLookup(l)    == l >= 1 /\ l <= MaxLookup
LegalDifficulty   == options.difficulty >= 1 /\ options.difficulty <= MaxDifficulty

\* The lookup given, or the one of the difficulty; a tune of an
\* opencl_driver begins at the largest.
ChosenLookup ==
  IF options.lookup # Absent THEN options.lookup
  ELSE IF options.driver = "opencl" /\ options.operation = "tune" THEN MaxLookup
  ELSE LET half == (options.difficulty \div 2) + 1
       IN  IF half < MaxLookup THEN half ELSE MaxLookup

lookup_memory == entries_to_memory(lookup_to_entries(lookup))

Check ==
  /\ LegalDifficulty /\ LegalLookup(ChosenLookup)
  /\ Proceed("checking", "operating")
  /\ lookup' = ChosenLookup
  /\ UNCHANGED <<result, state, difficulty, solved, tuneVars>>

CheckExits ==
  /\ ~(LegalDifficulty /\ LegalLookup(ChosenLookup))
  /\ Exit("checking", -1)
  /\ UNCHANGED <<state, difficulty, lookup, solved, tuneVars>>

\* gtest returns what the tests do, dump and profile_validation leave the
\* result as it is, and an unknown operation is an error.
Operate ==
  /\ \/ options.operation = "gtest" /\ \E r \in {0, 1} : Exit("operating", r)
     \/ options.operation \in {"dump", "profile_validation"} /\ Exit("operating", result)
     \/ options.operation = "unknown" /\ Exit("operating", -1)
  /\ UNCHANGED <<state, difficulty, lookup, solved, tuneVars>>

-----------------------------------------------------------------------------
(* profile                                                                 *)

Profile ==
  /\ options.operation = "profile"
  /\ Proceed("operating", "profiling")
  /\ difficulty' = options.difficulty
  /\ UNCHANGED <<result, state, lookup, solved, tuneVars>>

ProfileFits ==
  /\ Proceed("profiling", "solving")
  /\ Fits(lookup_memory)
  /\ UNCHANGED <<result, state, difficulty, lookup, solved, pc, arguments, bests, seen>>

AfterNoMemory       == Exit("profiling", 1)

\* exit (1), or the exception that main catches.
ProfileFails ==
  /\ AfterNoMemory
  /\ Fails(lookup_memory)
  /\ UNCHANGED <<state, difficulty, lookup, solved, pc, arguments, bests, seen>>

ProfileSolve(d) ==
  /\ mainPc = "solving" /\ solved < options.count
  /\ solved' = solved + 1
  /\ Measure(d)
  /\ UNCHANGED <<options, mainPc, result, state, difficulty, lookup, pc, arguments, bests, driverMemory>>

\* The last solve is done, or one threw.
ProfileEnd ==
  /\ solved = options.count \/ options.driver = "opencl"
  /\ Proceed("solving", "averaging")
  /\ UNCHANGED <<result, state, difficulty, lookup, solved, tuneVars>>

\* total_time / count: for a count of 0 the processor traps, or gives 0.
Average ==
  /\ Exit("averaging", result)
  /\ UNCHANGED <<state, difficulty, lookup, solved, tuneVars>>

AverageTraps ==
  /\ options.count = 0
  /\ Proceed("averaging", "aborted")
  /\ UNCHANGED <<result, state, difficulty, lookup, solved, tuneVars>>

-----------------------------------------------------------------------------
(* tune                                                                    *)

InitialThreads ==
  IF options.threads # 0 THEN options.threads
  ELSE IF DriverThreads < MaxDefault THEN DriverThreads ELSE MaxDefault

Tune ==
  /\ options.operation = "tune"
  /\ Proceed("operating", "tuning")
  /\ difficulty' = options.difficulty
  /\ IF options.driver = "cpp" THEN CppTune(lookup_memory, InitialThreads)
     ELSE OclTune(lookup_memory, InitialThreads)
  /\ UNCHANGED <<result, state, lookup, solved>>

Tuning == mainPc = "tuning" /\ TuneStep /\ UNCHANGED mainVars

\* tune returns, or throws what main catches.
TuneReturns ==
  /\ pc \in Ends
  /\ Exit("tuning", result)
  /\ UNCHANGED <<state, difficulty, lookup, solved, tuneVars>>

-----------------------------------------------------------------------------
Next ==
  \/ ParseExits \/ Parse \/ Construct \/ ConstructExits \/ OpenCLAborts
  \/ Check \/ CheckExits \/ Operate
  \/ Profile \/ ProfileFits \/ ProfileFails \/ ProfileEnd \/ Average \/ AverageTraps
  \/ \E d \in Durations : ProfileSolve(d)
  \/ Tune \/ Tuning \/ TuneReturns

Spec == Init /\ [][Next]_vars

(* The program runs on; its solves return.                                 *)
FairSpec == Spec /\ WF_vars(Next)

-----------------------------------------------------------------------------
(* Properties.                                                             *)

(***************************************************************************)
(* A solve is made with a driver that is initialized and has its           *)
(* difficulty, and the memory it was ever asked to hold is what memory_set *)
(* asserts (src/src/cpp_driver.cpp, lines 357 and 358,                     *)
(* src/src/opencl_driver.cpp, lines 194 to 196) and a search needs: a      *)
(* power of 2 of bytes, from one entry to 2^32, whatever the options.      *)
(* Only the tune of opencl_driver, which halves the memory as long as that *)
(* is faster, can come to ask for less.                                    *)
(***************************************************************************)
Legal == {2 ^ k * entry_size : k \in 0 .. MaxLookup}

DriverCallsAreLegal ==
  /\ \A m \in {held} \cup failed :
       \/ m \in Legal
       \/ m = 0 /\ m \notin failed
       \/ m < entry_size /\ options.driver = "opencl" /\ options.operation = "tune"
  /\ DOMAIN measured # {} => state = "initialized" /\ difficulty > 0

\* The stages of main that are left.
StagesLeft ==
  IF mainPc = "parsing" THEN 7
  ELSE IF mainPc = "constructing" THEN 6
  ELSE IF mainPc = "checking" THEN 5
  ELSE IF mainPc = "operating" THEN 4
  ELSE IF mainPc = "profiling" THEN 3
  ELSE IF mainPc = "solving" THEN 2
  ELSE IF mainPc \in {"averaging", "tuning"} THEN 1 ELSE 0

(***************************************************************************)
(* Every step brings the end of the program nearer: a stage of main is     *)
(* over, a solve of the profile is made, or the tune advances.  The order  *)
(* is well founded, so no failures and no durations make a loop of main or *)
(* of a tune go on for ever.                                               *)
(***************************************************************************)
ProgramAdvances ==
  [][ \/ StagesLeft' < StagesLeft
      \/ StagesLeft' = StagesLeft /\ mainPc = "solving" /\ solved < solved' /\ solved' <= options.count
      \/ StagesLeft' = StagesLeft /\ mainPc = "tuning" /\ TuneAdvances ]_vars

(***************************************************************************)
(* The program ends, if the solves do: every loop of main and of the two   *)
(* tunes comes to its end for any durations and any failures.              *)
(***************************************************************************)
ProgramEnds == <>(mainPc \in {"exited", "aborted"})
=============================================================================
