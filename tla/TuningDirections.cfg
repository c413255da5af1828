\* The comment of tune about going down and up in memory.
CONSTANTS
  MinLookup = 3
  MaxLookup = 6
  MaxThreads = 4
  Durations <- MCDurations
  Longest = 9
  Options <- MCOptions
  MaxDifficulty = 13
  MaxDefault = 2
  DriverThreads = 4
SPECIFICATION Spec
INVARIANT WorseInBothDirections
\* The program exits.
CHECK_DEADLOCK FALSE
