------------------------------ MODULE WorkerBatch ------------------------------
(***************************************************************************)
(* What cpp_driver relies on when it runs a job on its thread_pool: the    *)
(* contract of execute, barrier and resize, with no mutex, no counter and  *)
(* no condition variable.  ThreadPool implements it; CppDriver is built on *)
(* it.                                                                     *)
(***************************************************************************)
EXTENDS Naturals

CONSTANTS Members,   \* every worker the pool can ever have
          Jobs,      \* what the client can ask it to run
          NoJob

VARIABLES
  members,   \* the workers of the pool
  leaving,   \* workers told to leave and not joined yet
  pending,   \* members told to run the job that have not begun
  running,   \* workers, members or leaving, that are inside the job
  job,       \* the current job, kept after it is done
  phase      \* "free", or what the client does between a barrier and the next job

batchVars == <<members, leaving, pending, running, job, phase>>

BatchInit ==
  /\ members = {}
  /\ leaving = {}
  /\ pending = {}
  /\ running = {}
  /\ job = NoJob
  /\ phase = "free"

\* A barrier returns to the client only when no worker has anything to do.
Settle(p) ==
  /\ phase = "free"
  /\ pending = {}
  /\ running = {}
  /\ phase' = p
  /\ UNCHANGED <<members, leaving, pending, running, job>>

\* The job is replaced only between a barrier and the launch.
Assign(j) ==
  /\ phase = "quiet"
  /\ job' = j
  /\ UNCHANGED <<members, leaving, pending, running, phase>>

\* Every member gets the job, once.
Launch ==
  /\ phase = "quiet"
  /\ pending' = members
  /\ phase' = "free"
  /\ UNCHANGED <<members, leaving, running, job>>

Begin(w) ==
  /\ w \in pending
  /\ job # NoJob
  /\ pending' = pending \ {w}
  /\ running' = running \cup {w}
  /\ UNCHANGED <<members, leaving, job, phase>>

\* A worker woken before any job was given has nothing to begin.
Skip(w) ==
  /\ w \in pending
  /\ job = NoJob
  /\ pending' = pending \ {w}
  /\ UNCHANGED <<members, leaving, running, job, phase>>

Finish(w) ==
  /\ w \in running
  /\ running' = running \ {w}
  /\ UNCHANGED <<members, leaving, pending, job, phase>>

Add(w) ==
  /\ phase = "resizing"
  /\ w \notin members \cup leaving
  /\ members' = members \cup {w}
  /\ UNCHANGED <<leaving, pending, running, job, phase>>

\* Telling a worker to leave may make the others run the current job AGAIN,
\* the price of waking them all.  One that is inside the job stays there.
Remove(w) ==
  /\ phase = "resizing"
  /\ leaving = {}
  /\ w \in members
  /\ members' = members \ {w}
  /\ leaving' = {w}
  /\ \E again \in SUBSET (members' \ running) : pending' = (pending \ {w}) \cup again
  /\ UNCHANGED <<running, job, phase>>

\* A worker that left is joined: it is inside the job no longer.
Left(w) ==
  /\ phase = "resizing"
  /\ w \in leaving \ running
  /\ leaving' = leaving \ {w}
  /\ UNCHANGED <<members, pending, running, job, phase>>

\* The client leaves the quiet phase, or a resize with nobody left to join.
Release ==
  /\ phase # "free"
  /\ leaving = {}
  /\ phase' = "free"
  /\ UNCHANGED <<members, leaving, pending, running, job>>

BatchNext ==
  \/ \E p \in {"quiet", "resizing"} : Settle(p)
  \/ \E j \in Jobs : Assign(j)
  \/ Launch
  \/ \E w \in Members :
       Begin(w) \/ Skip(w) \/ Finish(w) \/ Add(w) \/ Remove(w) \/ Left(w)
  \/ Release

BatchSpec == BatchInit /\ [][BatchNext]_batchVars
=============================================================================
