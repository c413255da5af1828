\* The number of threads tune recommends may never have been tried.
CONSTANTS
  MinLookup = 3
  MaxLookup = 6
  MaxThreads = 4
  Durations <- MCDurations
  Longest = 9
  Options <- MCOptions
  MaxDifficulty = 13
  MaxDefault = 2
  DriverThreads = 4
SPECIFICATION Spec
INVARIANT ThreadsWereTried
\* The program exits.
CHECK_DEADLOCK FALSE
