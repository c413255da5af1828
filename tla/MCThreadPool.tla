----------------------------- MODULE MCThreadPool -----------------------------
(***************************************************************************)
(* ThreadPool for TLC: the two operations cpp_driver passes to execute, as *)
(* model values, and up to three threads, so that one resize can retire    *)
(* two of them while a third runs the operation again.                     *)
(***************************************************************************)
EXTENDS ThreadPool

CONSTANTS fill, search

MCOperations == {fill, search}
=============================================================================
