--------------------------------- MODULE Driver ---------------------------------
(***************************************************************************)
(* What the caller of a nano_pow::driver relies on (src/include/nano_pow/  *)
(* driver.hpp and src/src/driver.cpp), with no slab, no threads and no     *)
(* device: a solve works on the nonce it was given and on the difficulty   *)
(* set before it, answers with nothing only when it was cancelled after it *)
(* cleared the flag, and otherwise with halves of solutions; when only one *)
(* thread searches they are the halves of one solution.                    *)
(*                                                                         *)
(* cpp_driver and opencl_driver implement it (CppDriver, OpenCLDriver).    *)
(***************************************************************************)
CONSTANTS Nonces, Difficulties,
          NoAnswer,    \* the pair of two zeros
          Passing,     \* for a nonce and a difficulty, the pairs that pass
          MayThrow     \* whether a call may end by an exception

VARIABLES
  phase,        \* "idle", "called", "working" or "answered"
  cancel,       \* driver::cancel
  nonce,        \* the argument of the last call of solve
  required,     \* the last argument of difficulty_set
  alone,        \* whether at most one thread searches
  answer        \* what solve is about to return

driverVars == <<phase, cancel, nonce, required, alone, answer>>

DriverInit ==
  /\ phase = "idle" /\ cancel = FALSE
  /\ nonce \in Nonces /\ required \in Difficulties /\ alone \in BOOLEAN
  /\ answer = NoAnswer

Enters(from, to) == phase = from /\ phase' = to

\* The settings, and the calls of fill by tune, between two solves.
Configure ==
  /\ Enters("idle", "idle")
  /\ required' \in Difficulties /\ alone' \in BOOLEAN
  /\ UNCHANGED <<cancel, nonce, answer>>

Call(n) ==
  /\ Enters("idle", "called")
  /\ nonce' = n
  /\ UNCHANGED <<cancel, required, alone, answer>>

\* cancel = false;
Start ==
  /\ Enters("called", "working")
  /\ cancel' = FALSE
  /\ UNCHANGED <<nonce, required, alone, answer>>

CancelCurrent ==
  /\ cancel' = TRUE
  /\ UNCHANGED <<phase, nonce, required, alone, answer>>

\* What may be returned: nothing, for a right half of 0 says so.
Genuine(r) ==
  \/ r[2] = 0 /\ cancel
  \/ r[2] # 0 /\ r \in Passing[nonce][required]
  \/ r[2] # 0 /\ ~alone
       /\ \E p, q \in Passing[nonce][required] : r = <<p[1], q[2]>>

Answer ==
  /\ Enters("working", "answered")
  /\ Genuine(answer')
  /\ UNCHANGED <<cancel, nonce, required, alone>>

Return ==
  /\ Enters("answered", "idle")
  /\ answer' = NoAnswer
  /\ UNCHANGED <<cancel, nonce, required, alone>>

\* An exception: from the setup of solve, before cancel is cleared, or later.
Throw ==
  /\ MayThrow
  /\ \/ Enters("idle", "idle") /\ nonce' \in Nonces
     \/ Enters("working", "idle") /\ UNCHANGED nonce
  /\ UNCHANGED <<cancel, required, alone, answer>>

DriverNext ==
  Configure \/ (\E n \in Nonces : Call(n)) \/ Start \/ CancelCurrent
    \/ Answer \/ Return \/ Throw

DriverSpec == DriverInit /\ [][DriverNext]_driverVars
=============================================================================
