\* Any options, any durations and any failures.
CONSTANTS
  MinLookup = 3
  MaxLookup = 6
  MaxThreads = 4
  Durations <- MCDurations
  Longest = 9
  Options <- MCOptions
  MaxDifficulty = 13
  MaxDefault = 2
  DriverThreads = 4
SPECIFICATION FairSpec
INVARIANTS SolvesHaveMemory DriverCallsAreLegal BestIsBest BothDirections
PROPERTIES ProgramEnds ProgramAdvances
\* The program exits.
CHECK_DEADLOCK FALSE
