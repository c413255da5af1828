----------------------------- MODULE MCCommandLine -----------------------------
(***************************************************************************)
(* CommandLine for TLC: tables of 2^1 to 2^6 entries, 2^3 and up within    *)
(* the limits of a tune; legal and illegal options; powers of 2 of         *)
(* threads; as many durations as let a tune improve again and again.       *)
(***************************************************************************)
EXTENDS CommandLine

Common ==
  [driver : {"cpp", "opencl"}, operation : {"tune", "profile"}, difficulty : {4, 10},
   lookup : {Absent, 2, 5, 6}, count : {0, 2}, threads : {0, 1}]
Odd ==
  [driver : {"cpp", "opencl", "other"},
   operation : {"gtest", "dump", "profile", "profile_validation", "tune", "unknown"},
   difficulty : {0, 1, 13, 14}, lookup : {Absent, 0, 7}, count : {1}, threads : {4}]

MCOptions == Common \cup Odd
MCDurations == 1 .. 4
=============================================================================
