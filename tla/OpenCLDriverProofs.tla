--------------------------- MODULE OpenCLDriverProofs ---------------------------
(***************************************************************************)
(* Proofs about OpenCLDriver, for every backlog of the queue, every number *)
(* of work-items, every slab and every pair of hash functions: the         *)
(* inductive invariant QueueInv and what follows from it, then what the    *)
(* kernels of fill leave in the slab (FillKept) and what those of search   *)
(* have tried when the search gives up (TriedKept).                        *)
(***************************************************************************)
EXTENDS OpenCLDriver, PowLemmas
LOCAL INSTANCE FiniteSetsExt

InSolve   == caller = "solve"
Solutions == Passing[nonce][difficulty_m]

\* What the result may hold in a solve: nothing, or halves of solutions.
Mixed(r) ==
  \/ r = NoPair
  \/ /\ \E p, q \in Solutions : r = <<p[1], q[2]>>
     /\ threads = 1 => r \in Solutions

HostKept ==
  /\ hostPc \in HostState /\ caller \in {"solve", "fill"}
  /\ caller = "fill" => hostPc \in {"idle", "filling", "finishing", "filled"}
  /\ hostPc = "idle" => caller = "fill"
  /\ nonce \in Nonces /\ difficulty_m \in Difficulties /\ threads \in ThreadCounts
  /\ hostPc \in {"searching", "waiting"} => current \in Nat

\* A queue is a sequence of commands; where its kernels begin is no matter.
IsCommand(c) ==
  \E B : c \in [op : {"writeResult", "writeNonce", "fill", "search", "read"}, begin : B,
               threads : ThreadCounts, difficulty : Difficulties, nonce : Nonces,
               live : BOOLEAN, here : BOOLEAN]

IsQueue(q) == (\E S : q \in Seq(S)) /\ \A i \in DOMAIN q : IsCommand(q[i])

\* The dead commands come first, and only one read is ever in the queue, the last.
QueueKept ==
  /\ IsQueue(queue)
  /\ hostPc = "idle" => \A i \in DOMAIN queue : ~queue[i].live
  /\ \A i, j \in DOMAIN queue : i < j /\ queue[i].live => queue[j].live
  /\ \A i \in DOMAIN queue : queue[i].op = "read" => hostPc = "waiting" /\ i = Len(queue)
  /\ InSolve => \A i \in DOMAIN queue : queue[i].op = "search" /\ queue[i].live =>
       /\ queue[i].begin \in Nat /\ queue[i].here
       /\ queue[i].threads = threads /\ queue[i].difficulty = difficulty_m

\* A transfer of this solve is in the queue, and nothing of this solve that
\* uses what it writes comes before it.
Pending(q, op) ==
  \E i \in DOMAIN q :
    /\ q[i].op = op /\ q[i].live
    /\ op = "writeNonce" => q[i].nonce = nonce
    /\ \A j \in DOMAIN q :
         /\ j < i /\ q[j].live => q[j].op \in {"writeResult", "writeNonce"} \ {op}
         /\ j > i => q[j].op # op

\* It was executed, and with it everything an earlier call had left.
Done(q, op) == \A i \in DOMAIN q : q[i].live /\ q[i].op # op

Transferred ==
  InSolve =>
    /\ Pending(queue, "writeNonce") \/ (Done(queue, "writeNonce") /\ nonce_buffer = nonce)
    /\ Pending(queue, "writeResult") \/ (Done(queue, "writeResult") /\ Mixed(result_buffer))

Held ==
  /\ hostPc \in {"idle", "clearing"} => result_l = NoPair
  /\ InSolve => Mixed(result_l)
  /\ hostPc \in {"searching", "waiting"} => Mixed(result)

QueueInv == HostKept /\ QueueKept /\ Transferred /\ Held

-----------------------------------------------------------------------------
(* Queues.                                                                 *)

\* The device takes the first command away.
LEMMA Taken ==
  ASSUME NEW q, IsQueue(q), q # <<>>
  PROVE  /\ IsQueue(Tail(q)) /\ Len(Tail(q)) = Len(q) - 1 /\ Len(q) \in Nat \ {0}
         /\ DOMAIN q = 1 .. Len(q) /\ DOMAIN Tail(q) = 1 .. Len(q) - 1
         /\ Head(q) = q[1]
         /\ \A i \in 1 .. Len(q) - 1 : Tail(q)[i] = q[i + 1]
<1>1. PICK S : q \in Seq(S)
  BY DEF IsQueue
<1>2. /\ Tail(q) \in Seq(S) /\ Len(Tail(q)) = Len(q) - 1 /\ Len(q) \in Nat \ {0}
      /\ DOMAIN q = 1 .. Len(q) /\ DOMAIN Tail(q) = 1 .. Len(q) - 1
      /\ Head(q) = q[1]
      /\ \A i \in 1 .. Len(q) - 1 : Tail(q)[i] = q[i + 1]
  BY <1>1
<1>3. \A i \in DOMAIN Tail(q) : IsCommand(Tail(q)[i])
  BY <1>2 DEF IsQueue
<1>4. QED
  BY <1>2, <1>3 DEF IsQueue

\* The host adds one.
LEMMA Added ==
  ASSUME NEW q, IsQueue(q), NEW a, IsCommand(a)
  PROVE  /\ IsQueue(Append(q, a)) /\ Len(Append(q, a)) = Len(q) + 1 /\ Len(q) \in Nat
         /\ DOMAIN q = 1 .. Len(q) /\ DOMAIN Append(q, a) = 1 .. Len(q) + 1
         /\ \A i \in 1 .. Len(q) : Append(q, a)[i] = q[i]
         /\ Append(q, a)[Len(q) + 1] = a
<1>1. PICK S : q \in Seq(S)
  BY DEF IsQueue
<1>2. q \in Seq(S \cup {a})
  BY <1>1
<1>3. /\ Append(q, a) \in Seq(S \cup {a}) /\ Len(Append(q, a)) = Len(q) + 1 /\ Len(q) \in Nat
      /\ DOMAIN q = 1 .. Len(q) /\ DOMAIN Append(q, a) = 1 .. Len(q) + 1
      /\ \A i \in 1 .. Len(q) : Append(q, a)[i] = q[i]
      /\ Append(q, a)[Len(q) + 1] = a
  BY <1>2
<1>4. \A i \in DOMAIN Append(q, a) : IsCommand(Append(q, a)[i])
  BY <1>3 DEF IsQueue
<1>5. QED
  BY <1>3, <1>4 DEF IsQueue

\* Or two, one after the other.
LEMMA AddedTwo ==
  ASSUME NEW q, IsQueue(q), NEW a, IsCommand(a), NEW b, IsCommand(b)
  PROVE  LET r == q \o <<a, b>>
         IN  /\ IsQueue(r) /\ r = Append(Append(q, a), b)
             /\ Len(r) = Len(q) + 2 /\ Len(q) \in Nat
             /\ DOMAIN q = 1 .. Len(q) /\ DOMAIN r = 1 .. Len(q) + 2
             /\ \A i \in 1 .. Len(q) : r[i] = q[i]
             /\ r[Len(q) + 1] = a /\ r[Len(q) + 2] = b
<1> DEFINE r == q \o <<a, b>>
<1>1. PICK S : q \in Seq(S)
  BY DEF IsQueue
<1>2. q \in Seq(S \cup {a, b}) /\ a \in S \cup {a, b} /\ b \in S \cup {a, b}
  BY <1>1
<1>3. r = Append(Append(q, a), b)
  BY <1>2
<1>4. /\ r \in Seq(S \cup {a, b}) /\ Len(r) = Len(q) + 2 /\ Len(q) \in Nat
      /\ DOMAIN q = 1 .. Len(q) /\ DOMAIN r = 1 .. Len(q) + 2
      /\ \A i \in 1 .. Len(q) : r[i] = q[i]
      /\ r[Len(q) + 1] = a /\ r[Len(q) + 2] = b
  BY <1>2
<1> HIDE DEF r
<1>5. \A i \in DOMAIN r : IsCommand(r[i])
  BY <1>4 DEF IsQueue
<1>6. IsQueue(r)
  BY <1>4, <1>5 DEF IsQueue
<1>7. QED
  BY <1>3, <1>4, <1>6 DEF r

\* Rewriting the commands of a queue leaves a sequence.
LEMMA FunctionsAreSequences ==
  ASSUME NEW U, NEW n \in Nat, NEW r \in [1 .. n -> U]
  PROVE  r \in Seq(U)
OBVIOUS

\* Commands stay commands when they die, and when they lose their buffers.
LEMMA StaysCommand ==
  ASSUME NEW c, IsCommand(c)
  PROVE  LET dead == [c EXCEPT !.live = FALSE]
             bare == [c EXCEPT !.here = FALSE]
         IN  /\ IsCommand(dead) /\ ~dead.live /\ dead.op = c.op
             /\ IsCommand(bare) /\ bare.live = c.live /\ bare.op = c.op
<1> DEFINE dead == [c EXCEPT !.live = FALSE]
           bare == [c EXCEPT !.here = FALSE]
           Commands(B) ==
             [op : {"writeResult", "writeNonce", "fill", "search", "read"}, begin : B,
              threads : ThreadCounts, difficulty : Difficulties, nonce : Nonces,
              live : BOOLEAN, here : BOOLEAN]
<1>1. PICK B : c \in Commands(B)
  BY DEF IsCommand
<1>2. dead \in Commands(B) /\ ~dead.live /\ dead.op = c.op
  BY <1>1
<1>3. bare \in Commands(B) /\ bare.live = c.live /\ bare.op = c.op
  BY <1>1
<1>4. QED
  BY <1>2, <1>3 DEF IsCommand

\* A call ends: its commands stay, and are dead.
LEMMA Left ==
  ASSUME NEW q, IsQueue(q)
  PROVE  /\ IsQueue(Abandoned(q))
         /\ DOMAIN Abandoned(q) = DOMAIN q
         /\ \A i \in DOMAIN q : ~Abandoned(q)[i].live /\ Abandoned(q)[i].op = q[i].op
<1> DEFINE U == {[q[i] EXCEPT !.live = FALSE] : i \in DOMAIN q}
<1>1. PICK S : q \in Seq(S)
  BY DEF IsQueue
<1>2. Len(q) \in Nat /\ DOMAIN q = 1 .. Len(q)
  BY <1>1
<1>3. Abandoned(q) \in [1 .. Len(q) -> U]
  BY <1>2 DEF Abandoned
<1>4. Abandoned(q) \in Seq(U)
  BY <1>2, <1>3, FunctionsAreSequences
<1>5. \A i \in DOMAIN q : /\ ~Abandoned(q)[i].live /\ Abandoned(q)[i].op = q[i].op
                         /\ IsCommand(Abandoned(q)[i])
  BY StaysCommand DEF Abandoned, IsQueue
<1>6. DOMAIN Abandoned(q) = DOMAIN q
  BY DEF Abandoned
<1>7. \E T : Abandoned(q) \in Seq(T)
  BY <1>4
<1>8. QED
  BY <1>5, <1>6, <1>7 DEF IsQueue

\* The driver gives its buffers up: the commands stay, without them.
LEMMA GivenUp ==
  ASSUME NEW q, IsQueue(q), NEW r, r = [i \in DOMAIN q |-> [q[i] EXCEPT !.here = FALSE]]
  PROVE  /\ IsQueue(r) /\ DOMAIN r = DOMAIN q
         /\ \A i \in DOMAIN q : r[i].live = q[i].live /\ r[i].op = q[i].op
<1> DEFINE U == {[q[i] EXCEPT !.here = FALSE] : i \in DOMAIN q}
<1>1. PICK S : q \in Seq(S)
  BY DEF IsQueue
<1>2. Len(q) \in Nat /\ DOMAIN q = 1 .. Len(q)
  BY <1>1
<1>3. r \in [1 .. Len(q) -> U]
  BY <1>2
<1>4. r \in Seq(U)
  BY <1>2, <1>3, FunctionsAreSequences
<1>5. \A i \in DOMAIN q : r[i].live = q[i].live /\ r[i].op = q[i].op /\ IsCommand(r[i])
  BY StaysCommand DEF IsQueue
<1>6. \E T : r \in Seq(T)
  BY <1>4
<1>7. QED
  BY <1>5, <1>6 DEF IsQueue

-----------------------------------------------------------------------------
(* The invariant.                                                          *)

\* A driver just initialized satisfies it.
LEMMA InitInv == Init => QueueInv
<1> SUFFICES ASSUME Init PROVE QueueInv
  OBVIOUS
<1>1. IsQueue(queue) /\ DOMAIN queue = {}
  <2>1. queue \in Seq({}) /\ DOMAIN queue = {}
    BY DEF Init
  <2>2. QED
    BY <2>1 DEF IsQueue
<1>2. QED
  BY <1>1 DEF Init, QueueInv, HostKept, HostState, QueueKept, Transferred, Held, InSolve

\* Min finds the least of some natural numbers.
LEMMA MinIsIn ==
  ASSUME NEW S, S \subseteq Nat, S # {}
  PROVE  Min(S) \in S
BY LeastExists DEF Min

\* What a kernel of this solve finds passes, and one work-item finds one pair.
LEMMA FoundPass ==
  ASSUME NEW c, NEW n \in Nonces, c.begin \in Nat, c.threads \in ThreadCounts,
         c.difficulty \in Difficulties
  PROVE  /\ Found(c, n) \subseteq Passing[n][c.difficulty]
         /\ \A p \in Found(c, n) : p = <<p[1], p[2]>>
         /\ c.threads = 1 => \A p, q \in Found(c, n) : p = q
<1> DEFINE hits(i) == {rhs \in SearchRange(c, i) : Partner(n, rhs) \in Accepted[n][c.difficulty]}
<1>1. \A p \in Accepted[n][c.difficulty] : p \in Passing[n][c.difficulty] /\ p \in Lhs \X Rhs
  BY DEF Accepted, Passing, Accepts
<1>2. ASSUME NEW i \in WorkItems(c), hits(i) # {}
      PROVE  Min(hits(i)) \in hits(i)
  <2>1. i \in Nat /\ Stepping \in Nat
    BY OpenCLAssumption DEF WorkItems, Lhs
  <2>2. hits(i) \subseteq Nat
    BY <2>1 DEF SearchRange
  <2>3. QED
    BY <1>2, <2>2, MinIsIn
<1>3. \A p \in Found(c, n) : p \in Accepted[n][c.difficulty]
  BY <1>2 DEF Found
<1>4. \A p \in Found(c, n) : p = <<p[1], p[2]>>
  BY <1>1, <1>3
<1>5. ASSUME c.threads = 1
      PROVE  \A p, q \in Found(c, n) : p = q
  <2>1. WorkItems(c) = {0}
    BY <1>5 DEF WorkItems
  <2>2. \A p \in Found(c, n) : p = Partner(n, Min(hits(0)))
    BY <2>1 DEF Found
  <2>3. QED
    BY <2>2
<1>6. QED
  BY <1>1, <1>3, <1>4, <1>5

\* A kernel of this solve that comes first has the nonce.
LEMMA KernelNonce ==
  ASSUME QueueInv, queue # <<>>, InSolve, queue[1].live, queue[1].op \in {"fill", "search"}
  PROVE  nonce_buffer = nonce
<1>1. DOMAIN queue = 1 .. Len(queue) /\ Len(queue) \in Nat \ {0}
  BY Taken DEF QueueInv, QueueKept
<1>2. 1 \in DOMAIN queue /\ \A i \in DOMAIN queue : i # 1 => 1 < i
  BY <1>1
<1>3. ~Pending(queue, "writeNonce")
  BY <1>2 DEF Pending
<1>4. QED
  BY <1>3 DEF QueueInv, Transferred

\* The device executes a command.
LEMMA DeviceInv == QueueInv /\ DeviceStep => QueueInv'
<1> SUFFICES ASSUME QueueInv, DeviceStep PROVE QueueInv'
  OBVIOUS
<1> USE DEF QueueInv
<1>1. /\ queue # <<>> /\ queue' = Tail(queue)
      /\ UNCHANGED <<threads, difficulty_m, hostPc, caller, nonce, current, result_l>>
  BY DEF DeviceStep, Executes, WriteResult, WriteNonce, FillKernel, SearchKernel, ReadResult,
         configVars, hostVars
<1>2. /\ IsQueue(queue') /\ Len(queue') = Len(queue) - 1 /\ Len(queue) \in Nat \ {0}
      /\ DOMAIN queue = 1 .. Len(queue) /\ DOMAIN queue' = 1 .. Len(queue) - 1
      /\ Head(queue) = queue[1]
      /\ \A i \in 1 .. Len(queue) - 1 : queue'[i] = queue[i + 1]
  BY <1>1, Taken DEF QueueKept
<1>3. HostKept'
  BY <1>1 DEF HostKept
<1>4. QueueKept'
  <2>1. hostPc' = "idle" => \A i \in DOMAIN queue' : ~queue'[i].live
    BY <1>1, <1>2 DEF QueueKept
  <2>2. \A i, j \in DOMAIN queue' : i < j /\ queue'[i].live => queue'[j].live
    <3> SUFFICES ASSUME NEW i \in 1 .. Len(queue) - 1, NEW j \in 1 .. Len(queue) - 1,
                        i < j, queue[i + 1].live
                 PROVE  queue[j + 1].live
      BY <1>2
    <3>1. i + 1 \in DOMAIN queue /\ j + 1 \in DOMAIN queue /\ i + 1 < j + 1
      BY <1>2
    <3>2. QED
      BY <3>1 DEF QueueKept
  <2>3. \A i \in DOMAIN queue' : queue'[i].op = "read" => hostPc' = "waiting" /\ i = Len(queue')
    BY <1>1, <1>2 DEF QueueKept
  <2>4. InSolve' => \A i \in DOMAIN queue' : queue'[i].op = "search" /\ queue'[i].live =>
          /\ queue'[i].begin \in Nat /\ queue'[i].here
          /\ queue'[i].threads = threads' /\ queue'[i].difficulty = difficulty_m'
    BY <1>1, <1>2 DEF QueueKept, InSolve
  <2>5. QED
    BY <1>2, <2>1, <2>2, <2>3, <2>4 DEF QueueKept
\* What is first in the queue is pending no more.
<1>5. ASSUME NEW op, Pending(queue, op), ~(queue[1].op = op /\ queue[1].live)
      PROVE  Pending(queue, op)'
  <2>1. PICK i \in DOMAIN queue :
          /\ queue[i].op = op /\ queue[i].live
          /\ op = "writeNonce" => queue[i].nonce = nonce
          /\ \A j \in DOMAIN queue :
               /\ j < i /\ queue[j].live => queue[j].op \in {"writeResult", "writeNonce"} \ {op}
               /\ j > i => queue[j].op # op
    BY <1>5 DEF Pending
  <2>2. i - 1 \in DOMAIN queue' /\ queue'[i - 1] = queue[i]
    BY <1>2, <1>5, <2>1
  <2>3. \A j \in DOMAIN queue' :
          /\ j < i - 1 /\ queue'[j].live => queue'[j].op \in {"writeResult", "writeNonce"} \ {op}
          /\ j > i - 1 => queue'[j].op # op
    <3> SUFFICES ASSUME NEW j \in DOMAIN queue'
                 PROVE  /\ j < i - 1 /\ queue'[j].live =>
                             queue'[j].op \in {"writeResult", "writeNonce"} \ {op}
                        /\ j > i - 1 => queue'[j].op # op
      OBVIOUS
    <3>1. /\ queue'[j] = queue[j + 1] /\ j + 1 \in DOMAIN queue
          /\ j < i - 1 => j + 1 < i
          /\ j > i - 1 => j + 1 > i
      BY <1>2
    <3>2. QED
      BY <2>1, <3>1
  <2>4. QED
    BY <1>1, <2>1, <2>2, <2>3 DEF Pending
<1>6. ASSUME NEW op, Pending(queue, op), queue[1].op = op, queue[1].live
      PROVE  Done(queue, op)' /\ (op = "writeNonce" => queue[1].nonce = nonce)
  <2>1. PICK i \in DOMAIN queue :
          /\ op = "writeNonce" => queue[i].nonce = nonce
          /\ \A j \in DOMAIN queue :
               /\ j < i /\ queue[j].live => queue[j].op \in {"writeResult", "writeNonce"} \ {op}
               /\ j > i => queue[j].op # op
    BY <1>6 DEF Pending
  <2>2. i = 1
    BY <1>2, <1>6, <2>1
  <2>3. \A j \in DOMAIN queue' : queue'[j] = queue[j + 1] /\ j + 1 \in DOMAIN queue /\ 1 < j + 1
    BY <1>2
  <2>4. \A j \in DOMAIN queue' : queue'[j].op # op
    BY <2>1, <2>2, <2>3
  <2>5. \A j \in DOMAIN queue' : queue'[j].live
    BY <1>2, <1>6, <2>3 DEF QueueKept
  <2>6. QED
    BY <2>1, <2>2, <2>4, <2>5 DEF Done
\* Past a transfer the queue holds nothing of an earlier call.
<1>7. ASSUME NEW op, Done(queue, op)
      PROVE  Done(queue, op)' /\ queue[1].live /\ queue[1].op # op
  <2>1. \A j \in DOMAIN queue' : queue'[j] = queue[j + 1] /\ j + 1 \in DOMAIN queue
    BY <1>2
  <2>2. 1 \in DOMAIN queue
    BY <1>2
  <2>3. QED
    BY <1>7, <2>1, <2>2 DEF Done
<1>8. Mixed(result_buffer)' <=>
         \/ result_buffer' = NoPair
         \/ /\ \E p, q \in Solutions : result_buffer' = <<p[1], q[2]>>
            /\ threads = 1 => result_buffer' \in Solutions
  BY <1>1 DEF Mixed, Solutions
<1>9. CASE WriteResult
  <2>1. /\ queue[1].op = "writeResult"
        /\ queue[1].live => result_buffer' = NoPair
        /\ UNCHANGED <<nonce_buffer, result>>
    BY <1>2, <1>9 DEF WriteResult, Executes, hostVars
  <2>2. Transferred'
    BY <1>1, <1>5, <1>6, <1>7, <1>8, <2>1 DEF Transferred, InSolve
  <2>3. QED
    BY <1>1, <1>3, <1>4, <2>1, <2>2 DEF Held, InSolve, Mixed, Solutions
<1>10. CASE WriteNonce
  <2>1. /\ queue[1].op = "writeNonce"
        /\ queue[1].live => nonce_buffer' = queue[1].nonce
        /\ UNCHANGED <<result_buffer, result>>
    BY <1>2, <1>10 DEF WriteNonce, Executes, hostVars
  <2>2. Transferred'
    BY <1>1, <1>5, <1>6, <1>7, <2>1 DEF Transferred, InSolve, Mixed, Solutions
  <2>3. QED
    BY <1>1, <1>3, <1>4, <2>1, <2>2 DEF Held, InSolve, Mixed, Solutions
<1>11. CASE FillKernel
  <2>1. queue[1].op = "fill" /\ UNCHANGED <<result_buffer, nonce_buffer, result>>
    BY <1>2, <1>11 DEF FillKernel, Executes, hostVars, deviceVars
  <2>2. Transferred'
    BY <1>1, <1>5, <1>7, <2>1 DEF Transferred, InSolve, Mixed, Solutions
  <2>3. QED
    BY <1>1, <1>3, <1>4, <2>1, <2>2 DEF Held, InSolve, Mixed, Solutions
<1>12. CASE SearchKernel
  <2>1. queue[1].op = "search" /\ UNCHANGED <<nonce_buffer, result>>
    BY <1>2, <1>12 DEF SearchKernel, Executes, hostVars
  <2>2. ASSUME InSolve, Done(queue, "writeResult"), Mixed(result_buffer)
        PROVE  Mixed(result_buffer)'
    <3>1. /\ queue[1].live /\ queue[1].here /\ queue[1].begin \in Nat
          /\ queue[1].threads = threads /\ queue[1].difficulty = difficulty_m
      BY <1>2, <2>1, <2>2, <1>7 DEF QueueKept
    <3>2. nonce_buffer = nonce
      BY <1>1, <2>1, <2>2, <3>1, KernelNonce
    <3>3. QED
      BY <1>2, <1>8, <1>12, <2>2, <3>1, <3>2, FoundPass
         DEF SearchKernel, HostKept, Mixed, Solutions
  <2>3. Transferred'
    BY <1>1, <1>5, <1>7, <2>1, <2>2 DEF Transferred, InSolve
  <2>4. QED
    BY <1>1, <1>3, <1>4, <2>1, <2>3 DEF Held, InSolve, Mixed, Solutions
<1>13. CASE ReadResult
  <2>1. queue[1].op = "read" /\ result' = result_buffer /\ UNCHANGED <<result_buffer, nonce_buffer>>
    BY <1>2, <1>13 DEF ReadResult, Executes, deviceVars
  <2>2. Transferred'
    BY <1>1, <1>5, <1>7, <2>1 DEF Transferred, InSolve, Mixed, Solutions
  <2>3. Len(queue) = 1 /\ hostPc = "waiting" /\ InSolve
    BY <1>2, <2>1 DEF QueueKept, HostKept, InSolve
  <2>4. Mixed(result_buffer)
    BY <1>2, <2>1, <2>3 DEF Transferred, Pending
  <2>5. QED
    BY <1>1, <1>3, <1>4, <2>1, <2>2, <2>4 DEF Held, InSolve, Mixed, Solutions
<1>14. QED
  BY <1>9, <1>10, <1>11, <1>12, <1>13 DEF DeviceStep

\* A call ends.
LEMMA LeaveInv ==
  ASSUME QueueInv, NEW q, IsQueue(q), \A i \in DOMAIN q : q[i].op # "read",
         hostPc' = "idle", caller' = "fill", queue' = Abandoned(q), result_l' = NoPair,
         nonce' \in Nonces, UNCHANGED <<threads, difficulty_m>>
  PROVE  QueueInv'
BY Left DEF QueueInv, HostKept, HostState, QueueKept, Transferred, Held, InSolve

\* The host goes on in the same call and enqueues nothing.
LEMMA WalkInv ==
  ASSUME QueueInv, HostKept', Held',
         hostPc # "idle", hostPc # "waiting" \/ queue = <<>>, hostPc' # "idle",
         UNCHANGED <<caller, nonce, threads, difficulty_m, queue, nonce_buffer, result_buffer>>
  PROVE  QueueInv'
<1>1. QueueKept'
  BY DEF QueueInv, QueueKept, InSolve
<1>2. Transferred'
  BY DEF QueueInv, Transferred, InSolve, Pending, Done, Mixed, Solutions
<1>3. QED
  BY <1>1, <1>2 DEF QueueInv

\* A transfer that was enqueued stays so when more is enqueued behind it.
LEMMA StaysPending ==
  ASSUME NEW q, IsQueue(q), NEW a, IsCommand(a), a.live, NEW op, a.op # op
  PROVE  /\ Pending(q, op) => Pending(Append(q, a), op)
         /\ Done(q, op) => Done(Append(q, a), op)
<1> DEFINE r == Append(q, a)
<1>1. /\ Len(q) \in Nat /\ DOMAIN q = 1 .. Len(q) /\ DOMAIN r = 1 .. Len(q) + 1
      /\ \A i \in 1 .. Len(q) : r[i] = q[i]
      /\ r[Len(q) + 1] = a
  BY Added
<1> HIDE DEF r
<1>2. ASSUME Pending(q, op) PROVE Pending(r, op)
  <2>1. PICK i \in DOMAIN q :
          /\ q[i].op = op /\ q[i].live
          /\ op = "writeNonce" => q[i].nonce = nonce
          /\ \A j \in DOMAIN q :
               /\ j < i /\ q[j].live => q[j].op \in {"writeResult", "writeNonce"} \ {op}
               /\ j > i => q[j].op # op
    BY <1>2 DEF Pending
  <2>2. i \in DOMAIN r /\ r[i] = q[i] /\ i < Len(q) + 1
    BY <1>1
  <2>3. \A j \in DOMAIN r :
          /\ j < i /\ r[j].live => r[j].op \in {"writeResult", "writeNonce"} \ {op}
          /\ j > i => r[j].op # op
    BY <1>1, <2>1, <2>2
  <2>4. QED
    BY <2>1, <2>2, <2>3 DEF Pending
<1>3. ASSUME Done(q, op) PROVE Done(r, op)
  BY <1>1, <1>3 DEF Done
<1>4. QED
  BY <1>2, <1>3 DEF r

\* What the host enqueues is a command of its own, live.
LEMMA EnqueuedIsCommand ==
  ASSUME HostKept, NEW op \in {"writeResult", "writeNonce", "fill", "search", "read"},
         NEW begin, NEW n \in Nonces
  PROVE  LET c == Enqueued(op, begin, n)
         IN  /\ IsCommand(c) /\ c.op = op /\ c.live /\ c.here /\ c.begin = begin
             /\ c.nonce = n /\ c.threads = threads /\ c.difficulty = difficulty_m
<1>1. Enqueued(op, begin, n) \in
        [op : {"writeResult", "writeNonce", "fill", "search", "read"}, begin : {begin},
         threads : ThreadCounts, difficulty : Difficulties, nonce : Nonces,
         live : BOOLEAN, here : BOOLEAN]
  BY DEF HostKept, Enqueued
<1>2. QED
  BY <1>1 DEF IsCommand, Enqueued

\* solve enqueues its two transfers.
LEMMA SolveInv ==
  ASSUME QueueInv, NEW n \in Nonces, Solve(n)
  PROVE  QueueInv'
<1> DEFINE a == Enqueued("writeResult", 0, n)
           b == Enqueued("writeNonce", 0, n)
<1>1. /\ hostPc = "idle" /\ hostPc' = "clearing" /\ nonce' = n /\ caller' = "solve"
      /\ queue' = queue \o <<a, b>>
      /\ UNCHANGED <<threads, difficulty_m, result_l>>
  BY DEF Solve, Setup, Goes, configVars
<1>2. /\ IsCommand(a) /\ a.op = "writeResult" /\ a.live
      /\ IsCommand(b) /\ b.op = "writeNonce" /\ b.live /\ b.nonce = n
  BY EnqueuedIsCommand DEF QueueInv
<1> HIDE DEF a, b
<1>3. IsQueue(queue)
  BY DEF QueueInv, QueueKept
<1>4. /\ IsQueue(queue') /\ Len(queue') = Len(queue) + 2 /\ Len(queue) \in Nat
      /\ DOMAIN queue = 1 .. Len(queue) /\ DOMAIN queue' = 1 .. Len(queue) + 2
      /\ \A i \in 1 .. Len(queue) : queue'[i] = queue[i]
      /\ queue'[Len(queue) + 1] = a /\ queue'[Len(queue) + 2] = b
  BY <1>1, <1>2, <1>3, AddedTwo
<1>5. /\ \A i \in 1 .. Len(queue) : ~queue'[i].live /\ queue'[i].op # "read"
      /\ queue'[Len(queue) + 1] = a /\ queue'[Len(queue) + 2] = b
  BY <1>1, <1>4 DEF QueueInv, QueueKept
<1>6. QueueKept'
  BY <1>1, <1>2, <1>4, <1>5 DEF QueueKept
<1>7. Pending(queue, "writeResult")'
  <2>1. Len(queue) + 1 \in DOMAIN queue'
    BY <1>4
  <2>2. \A j \in DOMAIN queue' :
          /\ j < Len(queue) + 1 => ~queue'[j].live
          /\ j > Len(queue) + 1 => queue'[j].op # "writeResult"
    BY <1>2, <1>4, <1>5
  <2>3. QED
    BY <1>2, <1>5, <2>1, <2>2 DEF Pending
<1>8. Pending(queue, "writeNonce")'
  <2>1. Len(queue) + 2 \in DOMAIN queue'
    BY <1>4
  <2>2. \A j \in DOMAIN queue' :
          /\ j < Len(queue) + 2 /\ queue'[j].live => queue'[j].op = "writeResult"
          /\ ~(j > Len(queue) + 2)
    BY <1>2, <1>4, <1>5
  <2>3. QED
    BY <1>1, <1>2, <1>5, <2>1, <2>2 DEF Pending
<1>9. HostKept' /\ Held'
  BY <1>1 DEF QueueInv, HostKept, HostState, Held, InSolve, Mixed
<1>10. QED
  BY <1>6, <1>7, <1>8, <1>9 DEF QueueInv, Transferred

\* A step of fill enqueues a kernel.
LEMMA FillEnqueueInv ==
  ASSUME QueueInv, FillEnqueue
  PROVE  QueueInv'
<1> DEFINE c == Enqueued("fill", current % 2 ^ LhsBits, nonce)
<1>1. /\ hostPc = "filling" /\ hostPc' = "filling" /\ queue' = Append(queue, c)
      /\ UNCHANGED <<caller, nonce, threads, difficulty_m, result_l, nonce_buffer, result_buffer>>
  BY DEF FillEnqueue, Walks, Goes, configVars, deviceVars
<1>2. IsCommand(c) /\ c.op = "fill" /\ c.live
  BY EnqueuedIsCommand DEF QueueInv, HostKept
<1> HIDE DEF c
<1>3. IsQueue(queue)
  BY DEF QueueInv, QueueKept
<1>4. /\ IsQueue(queue') /\ Len(queue') = Len(queue) + 1 /\ Len(queue) \in Nat
      /\ DOMAIN queue = 1 .. Len(queue) /\ DOMAIN queue' = 1 .. Len(queue) + 1
      /\ \A i \in 1 .. Len(queue) : queue'[i] = queue[i]
      /\ queue'[Len(queue) + 1] = c
  BY <1>1, <1>2, <1>3, Added
<1>5. QueueKept'
  <2>1. \A i, j \in DOMAIN queue' : i < j /\ queue'[i].live => queue'[j].live
    BY <1>2, <1>4 DEF QueueInv, QueueKept
  <2>2. \A i \in DOMAIN queue' : queue'[i].op # "read"
    BY <1>1, <1>2, <1>4 DEF QueueInv, QueueKept
  <2>3. QED
    BY <1>1, <1>2, <1>4, <2>1, <2>2 DEF QueueInv, QueueKept, InSolve
<1>6. \A op \in {"writeNonce", "writeResult"} :
        /\ Pending(queue, op) => Pending(Append(queue, c), op)
        /\ Done(queue, op) => Done(Append(queue, c), op)
  BY <1>2, <1>3, StaysPending
<1>7. \A op \in {"writeNonce", "writeResult"} :
        /\ Pending(queue, op) => Pending(queue, op)'
        /\ Done(queue, op) => Done(queue, op)'
  BY <1>1, <1>6 DEF Pending, Done
<1>8. Mixed(result_buffer) => Mixed(result_buffer)'
  BY <1>1 DEF Mixed, Solutions
<1>9. Transferred'
  BY <1>1, <1>7, <1>8 DEF QueueInv, Transferred, InSolve
<1>10. HostKept' /\ Held'
  BY <1>1 DEF QueueInv, HostKept, HostState, Held, InSolve, Mixed, Solutions
<1>11. QED
  BY <1>5, <1>9, <1>10 DEF QueueInv

\* A step of search enqueues a kernel and the transfer of its result.
LEMMA SearchEnqueueInv ==
  ASSUME QueueInv, SearchEnqueue
  PROVE  QueueInv'
<1> DEFINE a == Enqueued("search", current, nonce)
           b == Enqueued("read", 0, nonce)
<1>1. /\ hostPc = "searching" /\ hostPc' = "waiting" /\ queue' = queue \o <<a, b>>
      /\ current' = current + Stride(threads)
      /\ UNCHANGED <<caller, nonce, threads, difficulty_m, result, result_l,
                     nonce_buffer, result_buffer>>
  BY DEF SearchEnqueue, Walks, Goes, Advance, configVars, deviceVars
<1>2. /\ IsCommand(a) /\ a.op = "search" /\ a.live /\ a.here /\ a.begin = current
      /\ a.threads = threads /\ a.difficulty = difficulty_m
      /\ IsCommand(b) /\ b.op = "read" /\ b.live
  BY EnqueuedIsCommand DEF QueueInv, HostKept
<1> HIDE DEF a, b
<1>3. IsQueue(queue)
  BY DEF QueueInv, QueueKept
<1>4. /\ IsQueue(queue') /\ Len(queue') = Len(queue) + 2 /\ Len(queue) \in Nat
      /\ DOMAIN queue = 1 .. Len(queue) /\ DOMAIN queue' = 1 .. Len(queue) + 2
      /\ \A i \in 1 .. Len(queue) : queue'[i] = queue[i]
      /\ queue'[Len(queue) + 1] = a /\ queue'[Len(queue) + 2] = b
  BY <1>1, <1>2, <1>3, AddedTwo
<1>5. current \in Nat /\ current' \in Nat
  BY <1>1, OpenCLAssumption DEF QueueInv, HostKept
<1>6. QueueKept'
  <2>1. \A i, j \in DOMAIN queue' : i < j /\ queue'[i].live => queue'[j].live
    BY <1>2, <1>4 DEF QueueInv, QueueKept
  <2>2. \A i \in DOMAIN queue' : queue'[i].op = "read" => i = Len(queue')
    BY <1>1, <1>2, <1>4 DEF QueueInv, QueueKept
  <2>3. InSolve' => \A i \in DOMAIN queue' : queue'[i].op = "search" /\ queue'[i].live =>
          /\ queue'[i].begin \in Nat /\ queue'[i].here
          /\ queue'[i].threads = threads' /\ queue'[i].difficulty = difficulty_m'
    BY <1>1, <1>2, <1>4, <1>5 DEF QueueInv, QueueKept, InSolve
  <2>4. QED
    BY <1>1, <1>4, <2>1, <2>2, <2>3 DEF QueueKept
<1>7. \A op \in {"writeNonce", "writeResult"} :
        /\ Pending(queue, op) => Pending(Append(Append(queue, a), b), op)
        /\ Done(queue, op) => Done(Append(Append(queue, a), b), op)
  <2>1. IsQueue(Append(queue, a))
    BY <1>2, <1>3, Added
  <2>2. \A op \in {"writeNonce", "writeResult"} :
          /\ Pending(queue, op) => Pending(Append(queue, a), op)
          /\ Done(queue, op) => Done(Append(queue, a), op)
    BY <1>2, <1>3, StaysPending
  <2> DEFINE r == Append(queue, a)
  <2> HIDE DEF r
  <2>3. IsQueue(r)
    BY <2>1 DEF r
  <2>4. \A op \in {"writeNonce", "writeResult"} :
          /\ Pending(r, op) => Pending(Append(r, b), op)
          /\ Done(r, op) => Done(Append(r, b), op)
    BY <1>2, <2>3, StaysPending
  <2>5. QED
    BY <2>2, <2>4 DEF r
<1>8. \A op \in {"writeNonce", "writeResult"} :
        /\ Pending(queue, op) => Pending(queue, op)'
        /\ Done(queue, op) => Done(queue, op)'
  <2>1. queue' = Append(Append(queue, a), b)
    BY <1>1, <1>2, <1>3, AddedTwo
  <2>2. \A op \in {"writeNonce", "writeResult"} :
          /\ Pending(queue, op) => Pending(queue', op)
          /\ Done(queue, op) => Done(queue', op)
    BY <1>7, <2>1
  <2>3. nonce' = nonce
    BY <1>1
  <2>4. ASSUME NEW op
        PROVE  /\ Pending(queue', op) => Pending(queue, op)'
               /\ Done(queue', op) => Done(queue, op)'
    BY <2>3, Zenon DEF Pending, Done
  <2>5. QED
    BY <2>2, <2>4
<1>9. Mixed(result_buffer) => Mixed(result_buffer)'
  BY <1>1 DEF Mixed, Solutions
<1>10. Transferred'
  BY <1>1, <1>8, <1>9 DEF QueueInv, Transferred, InSolve
<1>11. HostKept' /\ Held'
  BY <1>1, <1>5 DEF QueueInv, HostKept, HostState, Held, InSolve, Mixed, Solutions
<1>12. QED
  BY <1>6, <1>10, <1>11 DEF QueueInv

\* Only a search that waits has a transfer of the result in the queue.
LEMMA NothingToRead ==
  ASSUME QueueInv, hostPc # "waiting"
  PROVE  IsQueue(queue) /\ \A i \in DOMAIN queue : queue[i].op # "read"
BY DEF QueueInv, QueueKept

\* Leaving a call, by return or by an exception.
LEMMA LeavesInv ==
  ASSUME QueueInv, NEW q, IsQueue(q), \A i \in DOMAIN q : q[i].op # "read",
         NEW from, Leave(from, q), nonce' \in Nonces
  PROVE  QueueInv'
BY LeaveInv DEF Leave, Goes, configVars

\* One that abandons a command more, the last it enqueued.
LEMMA LeavesOneMoreInv ==
  ASSUME QueueInv, hostPc # "waiting", NEW c, IsCommand(c), c.op # "read",
         NEW from, Leave(from, Append(queue, c)), nonce' \in Nonces
  PROVE  QueueInv'
<1> DEFINE q == Append(queue, c)
<1>1. IsQueue(q) /\ \A i \in DOMAIN q : q[i].op # "read"
  BY Added, NothingToRead
<1> HIDE DEF q
<1>2. Leave(from, q)
  BY DEF q
<1>3. QED
  BY <1>1, <1>2, LeavesInv

\* Every way out of solve and of fill.
LEMMA EndsInv ==
  ASSUME QueueInv,
         \/ \E n \in Nonces : SolveSetupFails(n)
         \/ FillFails \/ FinishFails \/ FillReturn \/ SearchFails \/ WaitFails \/ SolveReturn
  PROVE  QueueInv'
<1>1. nonce \in Nonces /\ HostKept
  BY DEF QueueInv, HostKept
<1>2. CASE \E n \in Nonces : SolveSetupFails(n)
  <2>1. PICK n \in Nonces : SolveSetupFails(n)
    BY <1>2
  <2>2. hostPc = "idle" /\ nonce' = n /\ Leave("idle", Append(queue, Enqueued("writeResult", 0, n)))
    BY <2>1 DEF SolveSetupFails, Leave, Goes
  <2>3. IsCommand(Enqueued("writeResult", 0, n)) /\ Enqueued("writeResult", 0, n).op = "writeResult"
    BY <1>1, EnqueuedIsCommand
  <2>4. QED
    BY <2>2, <2>3, LeavesOneMoreInv
<1>3. CASE FillFails \/ FinishFails \/ FillReturn \/ SolveReturn
  <2>1. hostPc # "waiting" /\ \E from : Leave(from, queue) /\ nonce' \in Nonces
    BY <1>1, <1>3 DEF FillFails, FinishFails, FillReturn, SolveReturn, Throws, Leave, Goes
  <2>2. QED
    BY <2>1, NothingToRead, LeavesInv
<1>4. CASE SearchFails
  <2>1. /\ hostPc = "searching" /\ nonce' = nonce
        /\ \/ Leave("searching", queue)
           \/ Leave("searching", Append(queue, Enqueued("search", current, nonce)))
    BY <1>4 DEF SearchFails, Throws, Leave, Goes
  <2>2. /\ IsCommand(Enqueued("search", current, nonce))
        /\ Enqueued("search", current, nonce).op = "search"
    BY <1>1, EnqueuedIsCommand
  <2>3. CASE Leave("searching", queue)
    BY <1>1, <2>1, <2>3, NothingToRead, LeavesInv
  <2>4. CASE Leave("searching", Append(queue, Enqueued("search", current, nonce)))
    BY <1>1, <2>1, <2>2, <2>4, LeavesOneMoreInv
  <2>5. QED
    BY <2>1, <2>3, <2>4
<1>5. CASE WaitFails
  <2>1. Leave("waiting", <<>>) /\ nonce' \in Nonces
    BY <1>1, <1>5 DEF WaitFails, Throws
  <2>2. IsQueue(<<>>) /\ \A i \in DOMAIN <<>> : <<>>[i].op # "read"
    <3>1. <<>> \in Seq({}) /\ DOMAIN <<>> = {}
      OBVIOUS
    <3>2. QED
      BY <3>1 DEF IsQueue
  <2>3. QED
    BY <2>1, <2>2, LeavesInv
<1>6. QED
  BY <1>2, <1>3, <1>4, <1>5

\* The steps of solve, fill and search that enqueue nothing.
LEMMA WalksInv ==
  ASSUME QueueInv,
         \/ ClearCancel \/ LoopFill \/ LoopEnd \/ FillEnd \/ Finish
         \/ FilledSearch \/ FilledCancelled \/ Wait \/ SearchEnd
  PROVE  QueueInv'
<1>1. /\ hostPc # "idle" /\ hostPc' # "idle"
      /\ hostPc # "waiting" \/ queue = <<>>
      /\ UNCHANGED <<caller, nonce, threads, difficulty_m, queue, nonce_buffer, result_buffer>>
  BY DEF ClearCancel, LoopFill, LoopEnd, FillEnd, Finish, FilledSearch, FilledCancelled, Wait,
         SearchEnd, Decides, Walks, Goes, configVars, deviceVars
<1>2. HostKept'
  BY <1>1 DEF QueueInv, HostKept, HostState, ClearCancel, LoopFill, LoopEnd, FillEnd, Finish,
              FilledSearch, FilledCancelled, Wait, SearchEnd, Decides, Walks, Goes
<1>3. Held'
  BY <1>1 DEF QueueInv, HostKept, Held, InSolve, Mixed, Solutions, ClearCancel, LoopFill, LoopEnd,
              FillEnd, Finish, FilledSearch, FilledCancelled, Wait, SearchEnd, Decides, Walks, Goes
<1>4. QED
  BY <1>1, <1>2, <1>3, WalkInv

\* The methods called between two solves.
LEMMA BetweenInv ==
  ASSUME QueueInv,
         \/ \E s \in SlabSizes : MemorySet(s) \/ MemorySetFails(s)
         \/ MemoryReset
         \/ \E d \in Difficulties : DifficultySet(d)
         \/ \E t \in ThreadCounts : ThreadsSet(t)
  PROVE  QueueInv'
<1>1. /\ hostPc = "idle" /\ hostPc' = "idle"
      /\ UNCHANGED <<caller, nonce, result_l>>
      /\ threads' \in ThreadCounts /\ difficulty_m' \in Difficulties
      /\ queue' = queue \/ queue' = [i \in DOMAIN queue |-> [queue[i] EXCEPT !.here = FALSE]]
  BY DEF QueueInv, HostKept, MemorySet, MemorySetFails, MemoryReset, DifficultySet, ThreadsSet,
         NewBuffers, Settings, Between, hostVars
<1>2. IsQueue(queue) /\ \A i \in DOMAIN queue : ~queue[i].live /\ queue[i].op # "read"
  BY <1>1 DEF QueueInv, QueueKept
<1>3. IsQueue(queue') /\ \A i \in DOMAIN queue' : ~queue'[i].live /\ queue'[i].op # "read"
  BY <1>1, <1>2, GivenUp
<1>4. QED
  BY <1>1, <1>3 DEF QueueInv, HostKept, QueueKept, Transferred, Held, InSolve

\* Every step keeps the invariant.
LEMMA NextInv == QueueInv /\ [Next]_vars => QueueInv'
<1> SUFFICES ASSUME QueueInv, [Next]_vars PROVE QueueInv'
  OBVIOUS
<1>1. CASE Cancel \/ CallFill \/ UNCHANGED vars
  <2>1. /\ UNCHANGED <<nonce, threads, difficulty_m, queue, result_l, nonce_buffer, result_buffer>>
        /\ \/ UNCHANGED <<hostPc, caller, current, result>>
           \/ hostPc = "idle" /\ hostPc' = "filling" /\ caller' = "fill"
    BY <1>1 DEF Cancel, CallFill, Goes, vars, configVars, hostVars, deviceVars
  <2>2. Mixed(result_l)' = Mixed(result_l) /\ Mixed(result_buffer)' = Mixed(result_buffer)
    BY <2>1 DEF Mixed, Solutions
  <2>3. CASE UNCHANGED <<hostPc, caller, current, result>>
    <3>1. HostKept' /\ QueueKept' /\ Held'
      BY <2>1, <2>2, <2>3 DEF QueueInv, HostKept, QueueKept, Held, InSolve, Mixed, Solutions
    <3>2. Transferred'
      BY <2>1, <2>2, <2>3 DEF QueueInv, Transferred, InSolve, Pending, Done
    <3>3. QED
      BY <3>1, <3>2 DEF QueueInv
  <2>4. CASE hostPc = "idle" /\ hostPc' = "filling" /\ caller' = "fill"
    BY <2>1, <2>4 DEF QueueInv, HostKept, HostState, QueueKept, Transferred, Held, InSolve
  <2>5. QED
    BY <2>1, <2>3, <2>4
<1>2. CASE \E n \in Nonces : Solve(n)
  BY <1>2, SolveInv
<1>3. CASE DeviceStep
  BY <1>3, DeviceInv
<1>4. CASE FillEnqueue \/ SearchEnqueue
  BY <1>4, FillEnqueueInv, SearchEnqueueInv
<1>5. QED
  BY <1>1, <1>2, <1>3, <1>4, EndsInv, WalksInv, BetweenInv DEF Next, HostCall, HostStep

(***************************************************************************)
(* A kernel of this solve runs with the nonce of this solve, for every     *)
(* queue an earlier solve may have left behind: its transfers, which would *)
(* write the nonce of a dead frame, come first, and ours after them.       *)
(***************************************************************************)
THEOREM KernelsRunTheirNonce == Spec => []KernelsHaveTheNonce
<1>1. QueueInv => KernelsHaveTheNonce
  <2> SUFFICES ASSUME QueueInv, queue # <<>>, Head(queue).op \in {"fill", "search"},
                      Head(queue).live, caller = "solve"
               PROVE  nonce_buffer = nonce
    BY DEF KernelsHaveTheNonce
  <2>1. Head(queue) = queue[1]
    BY Taken DEF QueueInv, QueueKept
  <2>2. QED
    BY <2>1, KernelNonce DEF InSolve
<1>2. QED
  BY <1>1, InitInv, NextInv, PTL DEF Spec

-----------------------------------------------------------------------------
(* The refinement of Driver.                                               *)

\* A driver just initialized is one nobody has called.
LEMMA InitRefines == Init => Contract!DriverInit
BY DEF Init, Contract!DriverInit

\* What nobody sees: the device, and most steps of the host.
LEMMA InnerRefines ==
  ASSUME QueueInv,
         \/ DeviceStep \/ CallFill \/ LoopFill \/ FillEnqueue \/ FillEnd \/ Finish \/ FillReturn
         \/ FilledSearch \/ FilledCancelled \/ SearchEnqueue \/ Wait \/ SearchEnd
         \/ \E s \in SlabSizes : MemorySet(s) \/ MemorySetFails(s)
         \/ MemoryReset
  PROVE  UNCHANGED Contract!driverVars
<1> USE DEF Contract!driverVars, QueueInv, HostKept, HostState, configVars, hostVars, deviceVars
<1>1. CASE DeviceStep
  BY <1>1 DEF DeviceStep, WriteResult, WriteNonce, FillKernel, SearchKernel, ReadResult
<1>2. CASE CallFill \/ LoopFill \/ FillEnqueue \/ FillEnd \/ Finish
  BY <1>2 DEF CallFill, LoopFill, FillEnqueue, FillEnd, Finish, Decides, Walks, Goes
<1>3. CASE FillReturn
  BY <1>3 DEF FillReturn, Throws, Leave, Goes
<1>4. CASE FilledSearch \/ FilledCancelled \/ SearchEnqueue \/ Wait \/ SearchEnd
  BY <1>4 DEF FilledSearch, FilledCancelled, SearchEnqueue, Wait, SearchEnd, Decides, Walks, Goes
<1>5. CASE (\E s \in SlabSizes : MemorySet(s) \/ MemorySetFails(s)) \/ MemoryReset
  BY <1>5 DEF MemorySet, MemorySetFails, MemoryReset, NewBuffers, Between
<1>6. QED
  BY <1>1, <1>2, <1>3, <1>4, <1>5

\* An exception of the middle of a call, which is a call of fill by tune, or of solve.
LEMMA FailureRefines ==
  ASSUME QueueInv,
         \/ FillFails \/ FinishFails \/ SearchFails \/ WaitFails
         \/ \E n \in Nonces : SolveSetupFails(n)
  PROVE  Contract!DriverNext \/ UNCHANGED Contract!driverVars
<1> USE DEF Contract!Enters, QueueInv, HostKept, HostState, configVars, deviceVars, Throws, Leave, Goes
<1>1. CASE \E n \in Nonces : SolveSetupFails(n)
  BY <1>1 DEF SolveSetupFails, Contract!Throw, Contract!DriverNext
<1>2. CASE FillFails \/ FinishFails \/ SearchFails \/ WaitFails
  <2>1. /\ hostPc \in {"filling", "finishing", "searching", "waiting"} /\ hostPc' = "idle"
        /\ caller' = "fill" /\ UNCHANGED <<cancel, nonce, threads, difficulty_m>>
    BY <1>2 DEF FillFails, FinishFails, SearchFails, WaitFails
  <2>2. CASE caller = "solve"
    BY <2>1, <2>2 DEF Contract!Throw, Contract!DriverNext
  <2>3. CASE caller = "fill"
    BY <2>1, <2>3 DEF Contract!driverVars
  <2>4. QED
    BY <2>2, <2>3
<1>3. QED
  BY <1>1, <1>2

\* The other steps its caller sees.
LEMMA OuterRefines ==
  ASSUME QueueInv,
         \/ \E n \in Nonces : Solve(n)
         \/ \E d \in Difficulties : DifficultySet(d)
         \/ \E t \in ThreadCounts : ThreadsSet(t)
         \/ Cancel \/ ClearCancel \/ LoopEnd \/ SolveReturn
  PROVE  Contract!DriverNext
<1> USE DEF Contract!Enters, QueueInv, HostKept, HostState, configVars, hostVars, deviceVars
<1>1. CASE \E n \in Nonces : Solve(n)
  <2>1. \E n \in Nonces : Contract!Call(n)
    BY <1>1 DEF Solve, Goes, Contract!Call
  <2>2. QED
    BY <2>1 DEF Contract!DriverNext
<1>2. CASE (\E d \in Difficulties : DifficultySet(d)) \/ \E t \in ThreadCounts : ThreadsSet(t)
  <2>1. Contract!Configure
    BY <1>2 DEF DifficultySet, ThreadsSet, Settings, Between, Contract!Configure
  <2>2. QED
    BY <2>1 DEF Contract!DriverNext
<1>3. CASE Cancel
  <2>1. Contract!CancelCurrent
    BY <1>3 DEF Cancel, Contract!CancelCurrent
  <2>2. QED
    BY <2>1 DEF Contract!DriverNext
<1>4. CASE ClearCancel
  <2>1. Contract!Start
    BY <1>4 DEF ClearCancel, Contract!Start
  <2>2. QED
    BY <2>1 DEF Contract!DriverNext
<1>5. CASE LoopEnd
  <2>1. /\ hostPc = "looping" /\ hostPc' = "returning" /\ caller = "solve"
        /\ cancel \/ result_l[2] # 0
        /\ UNCHANGED <<cancel, caller, nonce, threads, difficulty_m, result_l>>
    BY <1>5 DEF LoopEnd, Decides, Walks, Goes
  <2>2. Mixed(result_l)
    BY <2>1 DEF Held, InSolve
  <2>3. Contract!Genuine(result_l)
    BY <2>1, <2>2 DEF Mixed, Solutions, NoPair, Contract!Genuine
  <2>4. Contract!Answer
    BY <2>1, <2>3 DEF Contract!Answer, Contract!Genuine
  <2>5. QED
    BY <2>4 DEF Contract!DriverNext
<1>6. CASE SolveReturn
  <2>1. Contract!Return
    BY <1>6 DEF SolveReturn, Throws, Leave, Goes, Contract!Return
  <2>2. QED
    BY <2>1 DEF Contract!DriverNext
<1>7. QED
  BY <1>1, <1>2, <1>3, <1>4, <1>5, <1>6

(***************************************************************************)
(* opencl_driver keeps the contract of a driver, whatever an earlier solve *)
(* left in its queue and whichever call of the device fails: it answers    *)
(* with nothing only when it was cancelled, every half it returns belongs  *)
(* to a pair that passes for the nonce and the difficulty of this call,    *)
(* and with one work-item to a kernel the pair itself passes.              *)
(***************************************************************************)
THEOREM OpenCLDriverIsImplemented == Spec => ImplementsDriver
<1>1. QueueInv /\ [Next]_vars => [Contract!DriverNext]_(Contract!driverVars)
  <2> SUFFICES ASSUME QueueInv, [Next]_vars
               PROVE  Contract!DriverNext \/ UNCHANGED Contract!driverVars
    OBVIOUS
  <2>1. CASE UNCHANGED vars
    BY <2>1 DEF vars, configVars, hostVars, Contract!driverVars
  <2>2. CASE Next
    BY <2>2, InnerRefines, FailureRefines, OuterRefines DEF Next, HostCall, HostStep
  <2>3. QED
    BY <2>1, <2>2
<1>2. QED
  BY <1>1, InitInv, InitRefines, NextInv, PTL DEF Spec, ImplementsDriver, Contract!DriverSpec

-----------------------------------------------------------------------------
(* Types.                                                                  *)

\* What every slab, queue and counter of the host holds.
AllCommands(q) == \A i \in DOMAIN q : q[i] \in Command

\* What the host enqueues is typed.
LEMMA EnqueuedIsTyped ==
  ASSUME TypeOK, NEW op \in {"writeResult", "writeNonce", "fill", "search", "read"},
         NEW begin \in Half, NEW n \in Nonces
  PROVE  Enqueued(op, begin, n) \in Command
BY DEF TypeOK, Enqueued, Command

\* A queue that gets one more command.
LEMMA MoreIsTyped ==
  ASSUME NEW q, IsQueue(q), AllCommands(q), NEW a \in Command, IsCommand(a)
  PROVE  AllCommands(Append(q, a)) /\ IsQueue(Append(q, a))
BY Added DEF AllCommands

\* Queues stay typed in whatever way the driver changes them.
LEMMA QueuesStayTyped ==
  ASSUME NEW q, IsQueue(q), AllCommands(q)
  PROVE  /\ q # <<>> => AllCommands(Tail(q)) /\ Head(q) \in Command
         /\ AllCommands(Abandoned(q))
         /\ AllCommands([i \in DOMAIN q |-> [q[i] EXCEPT !.here = FALSE]])
<1>1. ASSUME q # <<>> PROVE AllCommands(Tail(q)) /\ Head(q) \in Command
  <2>1. /\ DOMAIN q = 1 .. Len(q) /\ DOMAIN Tail(q) = 1 .. Len(q) - 1 /\ Len(q) \in Nat \ {0}
        /\ Head(q) = q[1] /\ \A i \in 1 .. Len(q) - 1 : Tail(q)[i] = q[i + 1]
    BY <1>1, Taken
  <2>2. 1 \in DOMAIN q /\ \A i \in DOMAIN Tail(q) : i + 1 \in DOMAIN q
    BY <2>1
  <2>3. QED
    BY <2>1, <2>2 DEF AllCommands
<1>2. \A a \in Command : [a EXCEPT !.live = FALSE] \in Command /\ [a EXCEPT !.here = FALSE] \in Command
  BY DEF Command
<1>3. QED
  BY <1>1, <1>2 DEF AllCommands, Abandoned

\* Two commands are one after the other.
LEMMA TwoMoreAreTyped ==
  ASSUME NEW q, IsQueue(q), AllCommands(q), NEW a \in Command, IsCommand(a),
         NEW b \in Command, IsCommand(b)
  PROVE  AllCommands(q \o <<a, b>>)
<1> DEFINE r == Append(q, a)
<1>1. AllCommands(r) /\ IsQueue(r)
  BY MoreIsTyped
<1>2. q \o <<a, b>> = Append(r, b)
  BY AddedTwo
<1> HIDE DEF r
<1>3. AllCommands(Append(r, b))
  BY <1>1, MoreIsTyped
<1>4. QED
  BY <1>2, <1>3

\* What a kernel of fill leaves in each entry.
LEMMA OutcomeIs ==
  ASSUME NEW c, NEW n, NEW s \in FillOutcomes(c, n)
  PROVE  /\ DOMAIN s = DOMAIN slab
         /\ \A a \in DOMAIN slab :
              IF Stored(c, n, a) = {} THEN s[a] = slab[a] ELSE s[a] \in Stored(c, n, a) \cap Lhs
<1> DEFINE touched == {a \in DOMAIN slab : Stored(c, n, a) # {}}
<1>1. PICK f \in [touched -> Lhs] :
        /\ \A a \in touched : f[a] \in Stored(c, n, a)
        /\ s = [a \in DOMAIN slab |-> IF a \in touched THEN f[a] ELSE slab[a]]
  BY DEF FillOutcomes
<1>2. QED
  BY <1>1

\* A step of the device keeps the types.
LEMMA DeviceTypes ==
  ASSUME TypeOK, QueueInv, DeviceStep
  PROVE  TypeOK'
<1> DEFINE c == Head(queue)
<1>1. IsQueue(queue) /\ AllCommands(queue) /\ queue # <<>> /\ queue' = Tail(queue)
  BY DEF QueueInv, QueueKept, TypeOK, AllCommands, DeviceStep, WriteResult, WriteNonce, FillKernel,
     SearchKernel, ReadResult, Executes
<1>2. AllCommands(queue') /\ c \in Command
  BY <1>1, QueuesStayTyped
<1>3. \A i \in DOMAIN queue' : queue'[i] \in Command
  BY <1>2 DEF AllCommands
<1>4. NoPair \in Lhs \X Rhs /\ Garbage \subseteq Lhs \X Rhs
  BY WordSizes, OpenCLAssumption DEF NoPair
<1> USE DEF TypeOK, configVars, hostVars, deviceVars
<1>5. CASE WriteResult
  BY <1>3, <1>4, <1>5 DEF WriteResult
<1>6. CASE WriteNonce
  BY <1>2, <1>3, <1>6 DEF WriteNonce, Command
<1>7. CASE FillKernel
  <2>1. \A a \in DOMAIN slab' : slab'[a] \in Lhs
    BY <1>7, OutcomeIs DEF FillKernel
  <2>2. QED
    BY <1>3, <1>7, <2>1 DEF FillKernel
<1>8. CASE SearchKernel
  <2>1. c.begin \in Nat /\ c.threads \in ThreadCounts /\ c.difficulty \in Difficulties
    BY <1>2 DEF Command, Half
  <2>2. Found(c, nonce_buffer) \subseteq Lhs \X Rhs
    <3>1. Passing[nonce_buffer][c.difficulty] \subseteq Lhs \X Rhs
      BY <2>1 DEF Passing
    <3>2. QED
      BY <2>1, <3>1, FoundPass
  <2>3. \A p, q \in Found(c, nonce_buffer) : <<p[1], q[2]>> \in Lhs \X Rhs
    BY <2>2
  <2>4. result_buffer' \in Lhs \X Rhs
    BY <1>4, <1>8, <2>3 DEF SearchKernel
  <2>5. QED
    BY <1>3, <1>8, <2>4 DEF SearchKernel
<1>9. CASE ReadResult
  BY <1>3, <1>9 DEF ReadResult
<1>10. QED
  BY <1>5, <1>6, <1>7, <1>8, <1>9 DEF DeviceStep

\* Leaving a call keeps the types.
LEMMA LeaveTypes ==
  ASSUME TypeOK, NEW q, IsQueue(q), AllCommands(q), NEW from, Leave(from, q), nonce' \in Nonces
  PROVE  TypeOK'
<1>0. queue' = Abandoned(q) /\ AllCommands(Abandoned(q))
  BY QueuesStayTyped DEF Leave
<1>1. AllCommands(queue') /\ NoPair \in Lhs \X Rhs /\ 0 \in Half
  BY <1>0, WordSizes DEF NoPair
<1>2. QED
  BY <1>1 DEF TypeOK, AllCommands, Leave, Goes, HostState, configVars, deviceVars

\* A step of the host that changes no command keeps the types.
LEMMA WalkTypes ==
  ASSUME TypeOK,
         \/ ClearCancel \/ LoopFill \/ LoopEnd \/ FillEnd \/ Finish
         \/ FilledSearch \/ FilledCancelled \/ Wait \/ SearchEnd \/ CallFill \/ Cancel
  PROVE  TypeOK'
<1>1. /\ NoPair \in Lhs \X Rhs /\ 0 \in Half /\ Lhs \subseteq Half
      /\ \A n \in Nat : n % 2 ^ LhsBits \in Lhs
  <2>1. \A n \in Nat : n % 2 ^ LhsBits \in Lhs
    BY WordSizes, Division
  <2>2. NoPair \in Lhs \X Rhs /\ 0 \in Half
    BY WordSizes DEF NoPair
  <2>3. Lhs \subseteq Half
    BY WordSizes
  <2>4. QED
    BY <2>1, <2>2, <2>3
<1>2. current_fill \in Nat /\ slab_entries \in Nat
  BY WordSizes, OpenCLAssumption, BucketsInSlab DEF TypeOK
<1>3. NextFill \in Lhs
  BY <1>1, <1>2 DEF NextFill
<1> USE DEF TypeOK, HostState, configVars, hostVars, deviceVars
<1>4. CASE ClearCancel \/ Cancel
  BY <1>4 DEF ClearCancel, Cancel
<1>5. CASE LoopEnd \/ Finish \/ FilledCancelled \/ Wait
  BY <1>5 DEF LoopEnd, Finish, FilledCancelled, Wait, Decides, Walks, Goes
<1>6. CASE LoopFill \/ CallFill
  BY <1>1, <1>6 DEF LoopFill, CallFill, Walks, Goes
<1>7. CASE FillEnd
  BY <1>3, <1>7 DEF FillEnd, Walks, Goes
<1>8. CASE FilledSearch \/ SearchEnd
  BY <1>1, <1>8 DEF FilledSearch, SearchEnd, Walks, Goes
<1>9. QED
  BY <1>4, <1>5, <1>6, <1>7, <1>8

\* What the host enqueues is typed.
LEMMA EnqueueTypes ==
  ASSUME TypeOK, QueueInv, (\E n \in Nonces : Solve(n)) \/ FillEnqueue \/ SearchEnqueue
  PROVE  TypeOK'
<1>1. IsQueue(queue) /\ AllCommands(queue) /\ HostKept /\ nonce \in Nonces /\ 0 \in Half
  BY WordSizes DEF QueueInv, QueueKept, HostKept, TypeOK, AllCommands
<1>2. \A op \in {"writeResult", "writeNonce", "fill", "search", "read"}, begin \in Half, n \in Nonces :
        Enqueued(op, begin, n) \in Command /\ IsCommand(Enqueued(op, begin, n))
  BY <1>1, EnqueuedIsTyped, EnqueuedIsCommand
<1>3. /\ current \in Nat /\ Stride(threads) \in Nat /\ current \in Half
      /\ current % 2 ^ LhsBits \in Half
      /\ (current + Stride(threads)) % 2 ^ HalfBits \in Half
  <2>1. current \in Nat /\ Stride(threads) \in Nat
    BY WordSizes, OpenCLAssumption DEF TypeOK
  <2>2. \A n \in Nat : n % 2 ^ LhsBits \in Half /\ n % 2 ^ HalfBits \in Half
    BY WordSizes, Division
  <2>3. QED
    BY <2>1, <2>2 DEF TypeOK
<1>4. CASE \E n \in Nonces : Solve(n)
  <2>1. PICK n \in Nonces : Solve(n)
    BY <1>4
  <2> DEFINE a == Enqueued("writeResult", 0, n)
             b == Enqueued("writeNonce", 0, n)
  <2>2. a \in Command /\ IsCommand(a) /\ b \in Command /\ IsCommand(b) /\ queue' = queue \o <<a, b>>
    BY <1>1, <1>2, <2>1 DEF Solve, Setup
  <2> HIDE DEF a, b
  <2>3. AllCommands(queue')
    BY <1>1, <2>2, TwoMoreAreTyped
  <2>4. QED
    BY <2>1, <2>3 DEF TypeOK, AllCommands, Solve, Goes, HostState, configVars, deviceVars
<1>5. CASE FillEnqueue
  <2> DEFINE c == Enqueued("fill", current % 2 ^ LhsBits, nonce)
  <2>1. c \in Command /\ IsCommand(c) /\ queue' = Append(queue, c)
    BY <1>1, <1>2, <1>3, <1>5 DEF FillEnqueue
  <2> HIDE DEF c
  <2>2. AllCommands(queue')
    BY <1>1, <2>1, MoreIsTyped
  <2>3. QED
    BY <1>3, <1>5, <2>2
       DEF TypeOK, AllCommands, FillEnqueue, Walks, Goes, HostState, configVars, deviceVars
<1>6. CASE SearchEnqueue
  <2> DEFINE a == Enqueued("search", current, nonce)
             b == Enqueued("read", 0, nonce)
  <2>1. a \in Command /\ IsCommand(a) /\ b \in Command /\ IsCommand(b) /\ queue' = queue \o <<a, b>>
    BY <1>1, <1>2, <1>3, <1>6 DEF SearchEnqueue
  <2> HIDE DEF a, b
  <2>2. AllCommands(queue')
    BY <1>1, <2>1, TwoMoreAreTyped
  <2>3. current' \in Half
    <3>1. current <= 2 ^ RhsBits - 1 - Stride(threads) /\ current' = current + Stride(threads)
      BY <1>6 DEF SearchEnqueue, MoreToSearch, max_current, Advance
    <3>2. 2 ^ RhsBits <= 2 ^ HalfBits
      BY Widths, PowersGrow
    <3>3. QED
      BY <1>3, <3>1, <3>2, WordSizes
  <2>4. QED
    BY <1>6, <2>2, <2>3
       DEF TypeOK, AllCommands, SearchEnqueue, Walks, Goes, HostState, configVars, deviceVars
<1>7. QED
  BY <1>4, <1>5, <1>6

\* A call that ends, whether it returns or throws, keeps them.
LEMMA EndTypes ==
  ASSUME TypeOK, QueueInv,
         \/ \E n \in Nonces : SolveSetupFails(n)
         \/ FillFails \/ FinishFails \/ FillReturn \/ SearchFails \/ WaitFails \/ SolveReturn
  PROVE  TypeOK'
<1>1. IsQueue(queue) /\ AllCommands(queue) /\ HostKept /\ nonce \in Nonces
      /\ 0 \in Half /\ current \in Half
  BY WordSizes DEF QueueInv, QueueKept, HostKept, TypeOK, AllCommands
<1>2. \A op \in {"writeResult", "writeNonce", "fill", "search", "read"}, begin \in Half, n \in Nonces :
        LET q == Append(queue, Enqueued(op, begin, n)) IN IsQueue(q) /\ AllCommands(q)
  BY <1>1, EnqueuedIsTyped, EnqueuedIsCommand, MoreIsTyped
<1>3. IsQueue(<<>>) /\ AllCommands(<<>>)
  <2>1. <<>> \in Seq({}) /\ DOMAIN <<>> = {}
    OBVIOUS
  <2>2. QED
    BY <2>1 DEF IsQueue, AllCommands
<1>4. \A q, from : Throws(from, q) => nonce' \in Nonces /\ Leave(from, q)
  BY <1>1 DEF Throws
<1>5. CASE \E n \in Nonces : SolveSetupFails(n)
  BY <1>1, <1>2, <1>5, LeaveTypes DEF SolveSetupFails
<1>6. CASE FillFails \/ FinishFails \/ FillReturn \/ SolveReturn
  BY <1>1, <1>4, <1>6, LeaveTypes DEF FillFails, FinishFails, FillReturn, SolveReturn
<1>7. CASE SearchFails
  BY <1>1, <1>2, <1>4, <1>7, LeaveTypes DEF SearchFails
<1>8. CASE WaitFails
  BY <1>3, <1>4, <1>8, LeaveTypes DEF WaitFails
<1>9. QED
  BY <1>5, <1>6, <1>7, <1>8

\* The other methods keep them.
LEMMA BetweenTypes ==
  ASSUME TypeOK, QueueInv,
         \/ \E s \in SlabSizes : MemorySet(s) \/ MemorySetFails(s)
         \/ MemoryReset
         \/ \E d \in Difficulties : DifficultySet(d)
         \/ \E t \in ThreadCounts : ThreadsSet(t)
  PROVE  TypeOK'
<1> USE DEF TypeOK, Between, hostVars, deviceVars
<1>1. CASE (\E s \in SlabSizes : MemorySet(s) \/ MemorySetFails(s)) \/ MemoryReset
  <2>1. NewBuffers
    BY <1>1 DEF MemorySet, MemorySetFails, MemoryReset
  <2>2. AllCommands(queue')
    <3>1. IsQueue(queue) /\ AllCommands(queue)
      BY DEF QueueInv, QueueKept, AllCommands
    <3>2. AllCommands([i \in DOMAIN queue |-> [queue[i] EXCEPT !.here = FALSE]])
      BY <3>1, QueuesStayTyped
    <3>3. QED
      BY <2>1, <3>2 DEF NewBuffers
  <2>3. \A i \in DOMAIN queue' : queue'[i] \in Command
    BY <2>2 DEF AllCommands
  <2>4. /\ slab_entries' \in SlabSizes \cup {0} /\ \A a \in DOMAIN slab' : slab'[a] \in Lhs
    BY <1>1, OpenCLAssumption DEF MemorySet, MemorySetFails, MemoryReset, NoSlab
  <2>5. 0 \in Lhs
    BY WordSizes
  <2>6. QED
    BY <2>1, <2>3, <2>4, <2>5 DEF NewBuffers
<1>2. CASE (\E d \in Difficulties : DifficultySet(d)) \/ \E t \in ThreadCounts : ThreadsSet(t)
  BY <1>2 DEF DifficultySet, ThreadsSet, Settings
<1>3. QED
  BY <1>1, <1>2

\* A driver just initialized is typed.
LEMMA InitTypes == Init => TypeOK
<1>1. NoPair \in Lhs \X Rhs /\ 0 \in Half /\ 0 \in Lhs
  BY WordSizes DEF NoPair
<1>2. DOMAIN NoSlab = {} /\ DOMAIN <<>> = {}
  BY DEF NoSlab
<1>3. QED
  BY <1>1, <1>2 DEF Init, TypeOK, HostState

\* Every step keeps the types.
LEMMA NextTypes == TypeOK /\ QueueInv /\ [Next]_vars => TypeOK'
<1> SUFFICES ASSUME TypeOK, QueueInv, [Next]_vars PROVE TypeOK'
  OBVIOUS
<1>1. CASE UNCHANGED vars
  BY <1>1 DEF TypeOK, vars, configVars, hostVars, deviceVars
<1>2. CASE Next
  BY <1>2, DeviceTypes, WalkTypes, EnqueueTypes, EndTypes, BetweenTypes DEF Next, HostCall, HostStep
<1>3. QED
  BY <1>1, <1>2

(***************************************************************************)
(* The types, for every queue: in particular the 64-bit counter of fill,   *)
(* which wraps, and that of search, which never does because it stops at   *)
(* max_current, and the result, whose halves come from the slab and from   *)
(* what the kernels were asked to try.                                     *)
(***************************************************************************)
THEOREM TypesKept == Spec => []TypeOK
BY InitInv, NextInv, InitTypes, NextTypes, PTL DEF Spec

-----------------------------------------------------------------------------
(* The slabs.                                                              *)

\* A slab that can be cut in four buffers has a multiple of four entries.
LEMMA Quarters ==
  ASSUME NEW size \in Sizes, size \div 4 # 0
  PROVE  size = 4 * (size \div 4) /\ size \div 4 \in Nat
<1>1. PICK k \in 0 .. LhsBits : size = 2 ^ k
  BY DEF Sizes
<1>2. 2 ^ 0 = 1 /\ 2 ^ 1 = 2 /\ 2 ^ 2 = 4 /\ LhsBits + 2 <= Width + 1
  <2>1. 0 \in 0 .. Width /\ 1 \in 0 .. Width /\ LhsBits + 2 <= Width + 1
    BY Widths
  <2>2. 2 ^ 0 = 1 /\ 2 ^ (0 + 1) = 2 * 2 ^ 0 /\ 2 ^ (1 + 1) = 2 * 2 ^ 1
    BY <2>1, Powers
  <2>3. QED
    BY <2>1, <2>2
<1>3. k >= 2
  <2>1. SUFFICES ASSUME k = 0 \/ k = 1 PROVE FALSE
    BY <1>1
  <2>2. size = 1 \/ size = 2
    BY <1>1, <1>2, <2>1
  <2>3. QED
    BY <2>2
<1>4. size = 4 * 2 ^ (k - 2) /\ 2 ^ (k - 2) \in Nat
  <2>1. k \in Nat /\ k <= Width + 1
    BY <1>1, Widths
  <2>2. 2 ^ k = 2 ^ 2 * 2 ^ (k - 2) /\ 2 ^ (k - 2) \in Nat
    BY <1>3, <2>1, PowersGrow
  <2>3. QED
    BY <1>1, <1>2, <2>2
<1>5. QED
  <2> DEFINE q == 2 ^ (k - 2)
  <2>1. q \in Nat /\ size = 4 * q
    BY <1>4
  <2> HIDE DEF q
  <2>2. QED
    BY <2>1

\* Every item has its entry in the buffers, unless there are none.
LEMMA AddressesExist ==
  ASSUME NEW size \in Sizes, Buffers(size) # {}, NEW item \in Nat
  PROVE  Address(size, item) \in Buffers(size)
<1> DEFINE m == bucket(size, item)
<1>1. m \in 0 .. size - 1 /\ size \in Nat \ {0}
  BY BucketsInSlab
<1> HIDE DEF m
<1>2. CASE number_slabs(size) = 1
  <2>1. m % 1 = 0 /\ m \div 1 = m /\ size \div 1 = size
    BY <1>1
  <2>2. QED
    BY <1>1, <1>2, <2>1 DEF Address, Buffers, m
<1>3. CASE number_slabs(size) = 4
  <2>1. size \div 4 # 0
    BY <1>1, <1>3 DEF Buffers
  <2>2. size = 4 * (size \div 4) /\ size \div 4 \in Nat
    BY <2>1, Quarters
  <2>3. m % 4 \in 0 .. 3 /\ m \div 4 \in 0 .. size \div 4 - 1
    BY <1>1, <2>2
  <2>4. QED
    BY <1>3, <2>3 DEF Address, Buffers, m
<1>4. QED
  BY <1>2, <1>3 DEF number_slabs, max_slabs

\* A left preimage has its entry, and so has the partner of a right one.
LEMMA EntriesExist ==
  ASSUME NEW size \in SlabSizes, Buffers(size) # {}, NEW n \in Nonces
  PROVE  /\ \A lhs \in Lhs : StoreAddress[size][n][lhs] \in Buffers(size)
         /\ \A rhs \in Rhs : LoadAddress[size][n][rhs] \in Buffers(size)
<1>1. size \in Sizes
  BY OpenCLAssumption
<1>2. \A x \in Word : Low(x) \in Nat /\ (2 ^ HalfBits - Low(x)) % 2 ^ HalfBits \in Nat
  <2> SUFFICES ASSUME NEW x \in Word
               PROVE  Low(x) \in Nat /\ (2 ^ HalfBits - Low(x)) % 2 ^ HalfBits \in Nat
    OBVIOUS
  <2> DEFINE h == 2 ^ HalfBits
             y == Low(x)
  <2>1. h \in Nat \ {0} /\ x \in Nat
    BY WordSizes DEF Word
  <2>2. y \in Nat /\ y < h
    BY <2>1, Division DEF Low
  <2> HIDE DEF h, y
  <2>3. h - y \in Nat
    BY <2>1, <2>2
  <2>4. (h - y) % h \in Nat
    BY <2>1, <2>3, Division
  <2>5. QED
    BY <2>2, <2>4 DEF h, y
<1>3. ASSUME NEW lhs \in Lhs PROVE StoreAddress[size][n][lhs] \in Buffers(size)
  <2>1. Low(H0(n, lhs)) \in Nat
    BY <1>2, OpenCLAssumption
  <2>2. QED
    BY <1>1, <2>1, AddressesExist DEF StoreAddress
<1>4. ASSUME NEW rhs \in Rhs PROVE LoadAddress[size][n][rhs] \in Buffers(size)
  <2>1. (2 ^ HalfBits - Low(H1(n, rhs))) % 2 ^ HalfBits \in Nat
    BY <1>2, OpenCLAssumption
  <2>2. QED
    BY <1>1, <2>1, AddressesExist DEF LoadAddress
<1>5. QED
  BY <1>3, <1>4

-----------------------------------------------------------------------------
(* The kernels.                                                            *)

\* Max finds the greatest of some natural numbers that are bounded.
LEMMA MaxIsIn ==
  ASSUME NEW n \in Nat, NEW S, S \subseteq 0 .. n, S # {}
  PROVE  Max(S) \in S
<1> DEFINE T == {n - x : x \in S}
<1>1. PICK m \in T : \A y \in T : m <= y
  <2>1. T \subseteq Nat /\ T # {}
    <3>1. \A x \in 0 .. n : n - x \in Nat
      OBVIOUS
    <3>2. \A x \in S : n - x \in Nat
      BY <3>1
    <3>3. T \subseteq Nat
      BY <3>2
    <3>4. QED
      BY <3>3
  <2>2. QED
    BY <2>1, LeastExists
<1>2. PICK z \in S : m = n - z
  BY <1>1
<1>3. \A x \in S : z >= x
  <2> SUFFICES ASSUME NEW x \in S PROVE z >= x
    OBVIOUS
  <2>1. n - z <= n - x /\ x \in Nat /\ z \in Nat
    BY <1>1, <1>2
  <2>2. QED
    BY <2>1
<1>4. QED
  BY <1>3 DEF Max

\* A work-item of fill stores left preimages.
LEMMA RangesAreLhs ==
  ASSUME NEW c, c.begin \in Nat, NEW i \in Nat
  PROVE  FillRange(c, i) \subseteq Lhs
<1> DEFINE L == 2 ^ LhsBits
           first == (c.begin + i * Stepping) % L
<1>1. L \in Nat \ {0} /\ Stepping \in Nat /\ Lhs = 0 .. L - 1
  BY WordSizes, OpenCLAssumption
<1>2. i * Stepping \in Nat
  BY <1>1
<1>3. c.begin + i * Stepping \in Nat
  BY <1>2
<1> HIDE DEF L
<1>4. first \in Nat
  BY <1>1, <1>3, Division
<1>5. (first + Stepping) % L < L /\ (first + Stepping) % L \in Nat
  <2>1. first + Stepping \in Nat
    BY <1>1, <1>4
  <2>2. QED
    BY <1>1, <2>1, Division
<1>6. QED
  BY <1>1, <1>4, <1>5 DEF FillRange, L

\* What a kernel may leave in an entry was stored there for that entry.
LEMMA StoredBelongs ==
  ASSUME NEW c, c.begin \in Nat, c.threads \in Nat, NEW n, NEW a, NEW x \in Stored(c, n, a)
  PROVE  x \in Lhs /\ StoreAddress[slab_entries][n][x] = a
<1> DEFINE here(i) == {lhs \in FillRange(c, i) : StoreAddress[slab_entries][n][lhs] = a}
<1>1. PICK i \in WorkItems(c) : here(i) # {} /\ x = Max(here(i))
  BY DEF Stored
<1>2. here(i) \subseteq Lhs
  BY <1>1, RangesAreLhs DEF WorkItems
<1>3. here(i) \subseteq 0 .. 2 ^ LhsBits - 1 /\ 2 ^ LhsBits - 1 \in Nat
  BY <1>2, WordSizes
<1>4. x \in here(i)
  BY <1>1, <1>3, MaxIsIn
<1>5. QED
  BY <1>2, <1>4

\* Each place of a kernel's stride is in the share of one of its work-items.
LEMMA SomeItem ==
  ASSUME NEW t \in ThreadCounts, NEW x \in Nat, x < Stride(t)
  PROVE  \E i \in 0 .. t - 1 : \E p \in Nat :
           /\ i * Stepping = p /\ (i + 1) * Stepping = p + Stepping
           /\ p <= x /\ x < p + Stepping
<1> DEFINE L == 2 ^ LhsBits
           i == x \div Stepping
           p == Stepping * i
<1>1. L \in Nat \ {0} /\ Stepping \in Nat \ {0} /\ t \in Nat
  <2>1. L \in Nat \ {0} /\ Lhs = 0 .. L - 1
    BY WordSizes
  <2>2. Stepping \in Lhs \ {0} /\ t \in Lhs
    BY OpenCLAssumption
  <2> HIDE DEF L
  <2>3. QED
    BY <2>1, <2>2
<1> HIDE DEF L
<1>2. /\ i \in Nat /\ x % Stepping \in Nat /\ x % Stepping < Stepping
      /\ x = p + (x % Stepping) /\ p \in Nat
  BY <1>1, Division
<1>3. x < t * Stepping
  <2> DEFINE w == t * Stepping
  <2>1. w \in Nat
    BY <1>1
  <2>2. x < w % L
    BY DEF Stride, L
  <2> HIDE DEF w
  <2>3. w % L <= w
    <3> DEFINE q == w \div L
    <3>1. q \in Nat /\ w % L \in Nat /\ w = L * q + (w % L)
      BY <1>1, <2>1, Division
    <3>2. L * q \in Nat
      BY <1>1, <3>1
    <3>3. QED
      BY <3>1, <3>2
  <2>4. x < w /\ w % L \in Nat
    BY <1>1, <2>1, <2>2, <2>3, Division
  <2>5. QED
    BY <2>4 DEF w
<1> HIDE DEF i
<1>4. i < t
  <2>1. SUFFICES ASSUME i >= t PROVE FALSE
    BY <1>1, <1>2
  <2>2. Stepping * i >= t * Stepping
    BY <1>1, <1>2, <2>1
  <2>3. QED
    BY <1>1, <1>2, <1>3, <2>2
<1>5. i * Stepping = p /\ (i + 1) * Stepping = p + Stepping
  BY <1>1, <1>2
<1> HIDE DEF p
<1>6. i \in 0 .. t - 1 /\ p <= x /\ x < p + Stepping /\ p \in Nat
  BY <1>1, <1>2, <1>4
<1>7. QED
  BY <1>5, <1>6, Zenon

\* Some work-item stores each preimage of its kernel but the last of all.
LEMMA SomeItemStores ==
  ASSUME NEW c, c.begin \in Nat, c.threads \in ThreadCounts,
         NEW lhs \in Lhs, c.begin <= lhs, lhs < c.begin + Stride(c.threads),
         lhs < 2 ^ LhsBits - Stepping
  PROVE  \E i \in WorkItems(c) : lhs \in FillRange(c, i)
<1> DEFINE L == 2 ^ LhsBits
           x == lhs - c.begin
<1>1. L \in Nat \ {0} /\ Stepping \in Nat \ {0} /\ lhs \in Nat /\ lhs < L
  <2>1. L \in Nat \ {0} /\ Lhs = 0 .. L - 1
    BY WordSizes
  <2>2. Stepping \in Lhs \ {0}
    BY OpenCLAssumption
  <2> HIDE DEF L
  <2>3. QED
    BY <2>1, <2>2
<1>2. x \in Nat /\ x < Stride(c.threads)
  <2>1. Stride(c.threads) \in Nat
    BY OpenCLAssumption
  <2>2. QED
    BY <1>1, <2>1
<1> HIDE DEF x
<1>3. PICK i \in WorkItems(c), p \in Nat : i * Stepping = p /\ p <= x /\ x < p + Stepping
  BY <1>2, SomeItem DEF WorkItems
<1>4. c.begin + p \in Nat /\ c.begin + p <= lhs /\ lhs < (c.begin + p) + Stepping
  BY <1>1, <1>2, <1>3 DEF x
<1>5. lhs + Stepping < L
  BY <1>1 DEF L
<1> HIDE DEF L
<1>6. (c.begin + p) % L = c.begin + p
  BY <1>1, <1>4, Division
<1>7. ((c.begin + p) + Stepping) % L = (c.begin + p) + Stepping
  <2>1. (c.begin + p) + Stepping \in Nat /\ (c.begin + p) + Stepping < L
    BY <1>1, <1>4, <1>5
  <2>2. QED
    BY <1>1, <2>1, Division
<1>8. lhs \in FillRange(c, i)
  BY <1>1, <1>3, <1>4, <1>6, <1>7 DEF FillRange, L
<1>9. QED
  BY <1>8

-----------------------------------------------------------------------------
(* A fill covers what it was asked for.                                    *)

\* Where a left preimage of this solve belongs, and whether its entry holds
\* one that belongs there.
Home(lhs) == StoreAddress[slab_entries][nonce][lhs]
Good(lhs) == Home(lhs) \in DOMAIN slab /\ Home(slab[Home(lhs)]) = Home(lhs)

\* A kernel of this call is still to store the preimage.
Fills(c, lhs) == c.op = "fill" /\ c.live /\ c.begin <= lhs /\ lhs < c.begin + Stride(threads)
ToFill(lhs)   == \E i \in DOMAIN queue : Fills(queue[i], lhs)

\* Nothing an earlier call has left can store to the slab any more.
AllLive == \A i \in DOMAIN queue : queue[i].live

Filled(lhs) == lhs < 2 ^ LhsBits - Stepping => ToFill(lhs) \/ (AllLive /\ Good(lhs))

SlabKept ==
  /\ slab # NoSlab => /\ slab_entries \in SlabSizes
                      /\ slab \in [Buffers(slab_entries) -> Lhs]
                      /\ current_fill % slab_entries = 0
  /\ hostPc # "idle" => slab # NoSlab

KernelsKept ==
  /\ hostPc \in {"filled", "searching"} => queue = <<>>
  /\ hostPc = "waiting" => \A i \in DOMAIN queue : queue[i].op # "fill"
  /\ InSolve => \A i \in DOMAIN queue : queue[i].op = "fill" /\ queue[i].live =>
                  queue[i].here /\ queue[i].threads = threads

\* The k-th preimage before the next fill.
Before(k) == (current_fill - k) % 2 ^ LhsBits

ProgressKept ==
  InSolve =>
    /\ hostPc = "filling" =>
         /\ current_fill <= current
         /\ current < current_fill + slab_entries + Stride(threads)
         /\ \A lhs \in current_fill .. current - 1 :
              lhs < current_fill + slab_entries => Filled(lhs)
    /\ (hostPc \in {"finishing", "filled"} /\ ~cancel) \/ hostPc \in {"searching", "waiting"} =>
         \A k \in 1 .. slab_entries : Filled(Before(k))

FillKept == SlabKept /\ KernelsKept /\ ProgressKept

\* The slab of a call has entries, and the next fill is within the preimages.
LEMMA SlabIs ==
  ASSUME TypeOK, SlabKept, slab # NoSlab
  PROVE  /\ slab_entries \in SlabSizes /\ slab_entries \in Nat \ {0}
         /\ slab \in [Buffers(slab_entries) -> Lhs] /\ Buffers(slab_entries) # {}
         /\ current_fill \in Nat /\ current_fill + slab_entries <= 2 ^ LhsBits
         /\ NextFill % slab_entries = 0 /\ slab_entries <= 2 ^ LhsBits
<1> DEFINE s == slab_entries
           f == current_fill
           L == 2 ^ LhsBits
<1>1. /\ s \in SlabSizes /\ slab \in [Buffers(s) -> Lhs] /\ f % s = 0
      /\ f \in Lhs
  BY DEF SlabKept, TypeOK
<1>2. Buffers(s) # {}
  <2>1. SUFFICES ASSUME Buffers(s) = {} PROVE slab = NoSlab
    OBVIOUS
  <2>2. slab \in [{} -> Lhs] /\ NoSlab \in [{} -> Lhs]
    BY <1>1, <2>1 DEF NoSlab
  <2>3. QED
    BY <2>2
<1>3. L \in Nat \ {0} /\ f \in Nat /\ f < L
  BY <1>1, WordSizes
<1>4. s \in Nat \ {0} /\ \E c \in Nat \ {0} : L = s * c
  <2>1. PICK k \in 0 .. LhsBits : s = 2 ^ k
    BY <1>1, OpenCLAssumption DEF Sizes
  <2>2. k \in Nat /\ LhsBits \in Nat /\ LhsBits <= Width + 1 /\ k <= LhsBits
    BY <2>1, Widths
  <2>3. /\ 2 ^ k \in Nat \ {0} /\ 2 ^ LhsBits = 2 ^ k * 2 ^ (LhsBits - k)
        /\ 2 ^ (LhsBits - k) \in Nat \ {0}
    BY <2>2, PowersGrow
  <2>4. QED
    BY <2>1, <2>3
<1>5. PICK c \in Nat \ {0} : L = s * c
  BY <1>4
<1> DEFINE q == f \div s
<1>6. q \in Nat /\ f = s * q
  <2>1. q \in Nat /\ f % s \in Nat /\ f = s * q + (f % s)
    BY <1>3, <1>4, Division
  <2>2. s * q \in Nat
    BY <1>4, <2>1
  <2>3. QED
    BY <1>1, <2>1, <2>2
<1> HIDE DEF q, L, s, f
<1>7. f + s = s * (q + 1)
  BY <1>3, <1>4, <1>6
<1>8. q + 1 <= c
  <2>1. SUFFICES ASSUME q >= c PROVE FALSE
    BY <1>5, <1>6
  <2>2. s * q >= s * c
    BY <1>4, <1>5, <1>6, <2>1
  <2>3. QED
    BY <1>3, <1>5, <1>6, <2>2
<1>9. s * (q + 1) <= s * c
  BY <1>4, <1>5, <1>6, <1>8
<1>10. f + s <= L /\ f + s \in Nat /\ s <= L
  BY <1>3, <1>4, <1>5, <1>7, <1>9
<1>11. ((f + s) % L) % s = 0
  <2>1. CASE f + s < L
    <3>1. (f + s) % L = f + s
      BY <1>3, <1>10, <2>1, Division
    <3>2. s * (q + 1) + 0 = f + s
      BY <1>3, <1>4, <1>7
    <3>3. 0 \in Nat /\ q + 1 \in Nat /\ s \in Nat \ {0}
      BY <1>4, <1>6
    <3>4. (s * (q + 1) + 0) % s = 0 % s
      BY <3>3, RemainderOfSum
    <3>5. 0 % s = 0
      BY <3>3, Division
    <3>6. QED
      BY <3>1, <3>2, <3>4, <3>5
  <2>2. CASE f + s = L
    <3>1. L = L * 1 + 0
      BY <1>3
    <3>2. L % L = 0 /\ 0 % s = 0
      BY <1>3, <1>4, <3>1, DivisionUnique, Division
    <3>3. QED
      BY <2>2, <3>2
  <2>3. QED
    BY <1>3, <1>10, <2>1, <2>2
<1>12. QED
  BY <1>1, <1>2, <1>3, <1>4, <1>10, <1>11 DEF s, f, L, NextFill

\* What a kernel of this solve does to the slab: its preimages are stored,
\* and what was good stays good.
LEMMA KernelFills ==
  ASSUME TypeOK, SlabKept, slab # NoSlab, NEW c \in Command, c.threads = threads,
         NEW t \in FillOutcomes(c, nonce)
  PROVE  /\ t \in [Buffers(slab_entries) -> Lhs]
         /\ \A lhs \in Lhs :
              /\ Home(lhs) \in DOMAIN t
              /\ Good(lhs) => Home(t[Home(lhs)]) = Home(lhs)
              /\ /\ c.begin <= lhs /\ lhs < c.begin + Stride(threads)
                 /\ lhs < 2 ^ LhsBits - Stepping
                 => Home(t[Home(lhs)]) = Home(lhs)
<1>1. /\ slab_entries \in SlabSizes /\ slab \in [Buffers(slab_entries) -> Lhs]
      /\ Buffers(slab_entries) # {} /\ nonce \in Nonces
  BY SlabIs DEF TypeOK
<1>2. c.begin \in Nat /\ c.threads \in ThreadCounts /\ c.threads \in Nat
  <2>1. c.begin \in Half /\ c.threads \in ThreadCounts
    BY DEF Command
  <2>2. c.begin \in Nat
    BY <2>1, WordSizes
  <2>3. c.threads \in Lhs
    BY <2>1, OpenCLAssumption
  <2>4. c.threads \in Nat
    BY <2>3, WordSizes
  <2>5. QED
    BY <2>1, <2>2, <2>4
<1>3. /\ DOMAIN t = DOMAIN slab
      /\ \A a \in DOMAIN slab : IF Stored(c, nonce, a) = {} THEN t[a] = slab[a]
                               ELSE t[a] \in Stored(c, nonce, a) \cap Lhs
  BY OutcomeIs
<1>4. t \in [Buffers(slab_entries) -> Lhs]
  <2>1. DOMAIN t = Buffers(slab_entries) /\ \A a \in DOMAIN t : t[a] \in Lhs
    BY <1>1, <1>3
  <2>2. t = [a \in DOMAIN t |-> t[a]]
    BY DEF FillOutcomes
  <2>3. QED
    BY <2>1, <2>2
<1>5. \A lhs \in Lhs : Home(lhs) \in DOMAIN slab
  BY <1>1, EntriesExist DEF Home
<1>6. \A a \in DOMAIN slab : Stored(c, nonce, a) # {} => Home(t[a]) = a
  BY <1>2, <1>3, StoredBelongs DEF Home
<1>7. ASSUME NEW lhs \in Lhs, Good(lhs) PROVE Home(t[Home(lhs)]) = Home(lhs)
  BY <1>3, <1>5, <1>6, <1>7 DEF Good
<1>8. ASSUME NEW lhs \in Lhs, c.begin <= lhs, lhs < c.begin + Stride(threads),
             lhs < 2 ^ LhsBits - Stepping
      PROVE  Home(t[Home(lhs)]) = Home(lhs)
  <2>1. PICK i \in WorkItems(c) : lhs \in FillRange(c, i)
    BY <1>2, <1>8, SomeItemStores
  <2> DEFINE a == StoreAddress[slab_entries][nonce][lhs]
             here(j) == {x \in FillRange(c, j) : StoreAddress[slab_entries][nonce][x] = a}
  <2>2. lhs \in here(i)
    BY <2>1
  <2>3. here(i) # {}
    BY <2>2
  <2>4. Max(here(i)) \in Stored(c, nonce, a)
    BY <2>3 DEF Stored
  <2>5. QED
    BY <1>5, <1>6, <2>4 DEF Home
<1>9. QED
  BY <1>3, <1>4, <1>5, <1>7, <1>8

\* Preimages that follow the last fill are those of the fill before it.
LEMMA BeforeIs ==
  ASSUME TypeOK, SlabKept, slab # NoSlab, NEW k \in 1 .. slab_entries
  PROVE  /\ Before(k) = IF current_fill = 0 THEN 2 ^ LhsBits - k ELSE current_fill - k
         /\ Before(k) \in Lhs
<1> DEFINE L == 2 ^ LhsBits
           f == current_fill
           s == slab_entries
<1>1. /\ L \in Nat \ {0} /\ Lhs = 0 .. L - 1 /\ f \in Lhs /\ s \in Nat \ {0} /\ s <= L
      /\ f % s = 0
  BY WordSizes, SlabIs DEF TypeOK, SlabKept
<1>2. f # 0 => s <= f
  <2>1. f \in Nat /\ s \in Nat \ {0}
    BY <1>1
  <2>2. f < s => f % s = f
    BY <2>1, Division
  <2>3. QED
    BY <1>1, <2>1, <2>2
<1> HIDE DEF L, f, s
<1>3. CASE f = 0
  <2>1. k \in 1 .. L
    BY <1>1 DEF s
  <2>2. (0 - k) % L = L - k
    BY <1>1, <2>1, RemainderBelow
  <2>3. Before(k) = L - k /\ L - k \in Lhs
    BY <1>1, <1>3, <2>1, <2>2 DEF Before, L, f
  <2>4. QED
    BY <1>3, <2>3 DEF f, L
<1>4. CASE f # 0
  <2>1. f - k \in Nat /\ f - k < L /\ f - k \in Lhs
    BY <1>1, <1>2, <1>4 DEF s
  <2>2. (f - k) % L = f - k
    BY <1>1, <2>1, Division
  <2>3. QED
    BY <1>4, <2>1, <2>2 DEF Before, f, L
<1>5. QED
  BY <1>3, <1>4

\* What was filled stays so when this call enqueues more, or nothing.
LEMMA FilledStays ==
  ASSUME UNCHANGED <<slab_entries, slab, nonce, threads>>,
         \A i \in DOMAIN queue : i \in DOMAIN queue' /\ queue'[i] = queue[i],
         \A i \in DOMAIN queue' : i \in DOMAIN queue \/ queue'[i].live,
         NEW lhs, Filled(lhs)
  PROVE  Filled(lhs)'
<1>1. ToFill(lhs) => ToFill(lhs)'
  BY DEF ToFill, Fills, Stride
<1>2. Good(lhs) => Good(lhs)'
  BY DEF Good, Home
<1>3. AllLive => AllLive'
  BY DEF AllLive
<1>4. QED
  BY <1>1, <1>2, <1>3 DEF Filled

\* The device keeps it filled, and fills it.
LEMMA DeviceKeepsFilled ==
  ASSUME TypeOK, QueueInv, FillKept, DeviceStep, InSolve, NEW lhs \in Lhs, Filled(lhs)
  PROVE  Filled(lhs)'
<1>1. /\ queue # <<>> /\ queue' = Tail(queue) /\ slab # NoSlab
      /\ UNCHANGED <<threads, slab_entries, nonce>>
  <2>1. /\ queue # <<>> /\ queue' = Tail(queue)
        /\ UNCHANGED <<threads, slab_entries, nonce>>
    BY DEF DeviceStep, Executes, WriteResult, WriteNonce, FillKernel, SearchKernel, ReadResult,
           configVars, hostVars
  <2>2. slab # NoSlab
    BY DEF InSolve, FillKept, SlabKept, QueueInv, HostKept
  <2>3. QED
    BY <2>1, <2>2
<1>2. /\ Len(queue) \in Nat \ {0} /\ Head(queue) = queue[1]
      /\ DOMAIN queue = 1 .. Len(queue) /\ DOMAIN queue' = 1 .. Len(queue) - 1
      /\ \A i \in 1 .. Len(queue) - 1 : queue'[i] = queue[i + 1]
  BY <1>1, Taken DEF QueueInv, QueueKept
<1>3. ASSUME NEW i \in DOMAIN queue, Fills(queue[i], lhs), i # 1
      PROVE  ToFill(lhs)'
  <2>1. i - 1 \in DOMAIN queue' /\ queue'[i - 1] = queue[i]
    BY <1>2, <1>3
  <2>2. QED
    BY <1>1, <1>3, <2>1 DEF ToFill, Fills, Stride
<1>4. AllLive => AllLive'
  <2>1. \A i \in DOMAIN queue' : i + 1 \in DOMAIN queue /\ queue'[i] = queue[i + 1]
    BY <1>2
  <2>2. QED
    BY <2>1 DEF AllLive
<1>5. CASE queue[1].op = "fill" /\ queue[1].live
  <2>1. queue[1].here /\ queue[1].threads = threads /\ queue[1] \in Command /\ nonce_buffer = nonce
    <3>1. 1 \in DOMAIN queue
      BY <1>2
    <3>2. nonce_buffer = nonce
      BY <1>1, <1>5, KernelNonce
    <3>3. QED
      BY <1>5, <3>1, <3>2 DEF FillKept, KernelsKept, TypeOK
  <2>2. slab' \in FillOutcomes(queue[1], nonce)
    BY <1>2, <1>5, <2>1
       DEF DeviceStep, Executes, WriteResult, WriteNonce, FillKernel, SearchKernel, ReadResult
  <2>3. /\ Home(lhs) \in DOMAIN slab'
        /\ Good(lhs) => Home(slab'[Home(lhs)]) = Home(lhs)
        /\ Fills(queue[1], lhs) /\ lhs < 2 ^ LhsBits - Stepping
             => Home(slab'[Home(lhs)]) = Home(lhs)
    BY <1>1, <2>1, <2>2, KernelFills DEF FillKept, Fills
  <2>4. \A x : Home(x)' = Home(x)
    BY <1>1 DEF Home
  <2>5. AllLive
    <3>1. \A i \in DOMAIN queue : i = 1 \/ 1 < i
      BY <1>2
    <3>2. 1 \in DOMAIN queue
      BY <1>2
    <3>3. QED
      BY <1>5, <3>1, <3>2 DEF AllLive, QueueInv, QueueKept
  <2>6. ASSUME lhs < 2 ^ LhsBits - Stepping, ~ToFill(lhs)'
        PROVE  Good(lhs)'
    <3>1. Good(lhs) \/ Fills(queue[1], lhs)
      BY <1>3, <2>6 DEF Filled, ToFill
    <3>2. Home(slab'[Home(lhs)]) = Home(lhs)
      BY <2>3, <2>6, <3>1
    <3>3. QED
      BY <2>3, <2>4, <3>2 DEF Good
  <2>7. QED
    BY <1>4, <2>5, <2>6 DEF Filled
<1>6. CASE ~(queue[1].op = "fill" /\ queue[1].live)
  <2>1. ToFill(lhs) => ToFill(lhs)'
    BY <1>3, <1>6 DEF ToFill, Fills
  <2>2. AllLive => slab' = slab
    <3>1. 1 \in DOMAIN queue
      BY <1>2
    <3>2. queue[1].op = "fill" \/ slab' = slab
      BY <1>2 DEF DeviceStep, Executes, WriteResult, WriteNonce, FillKernel, SearchKernel,
                  ReadResult, configVars
    <3>3. QED
      BY <1>6, <3>1, <3>2 DEF AllLive
  <2>3. AllLive /\ Good(lhs) => Good(lhs)'
    BY <1>1, <2>2 DEF Good, Home
  <2>4. QED
    BY <1>4, <2>1, <2>3 DEF Filled
<1>7. QED
  BY <1>5, <1>6

\* What a kernel leaves in the slab is typed, whatever solve it is of.
LEMMA OutcomeIsTyped ==
  ASSUME TypeOK, NEW c, NEW n, NEW t \in FillOutcomes(c, n)
  PROVE  t \in [DOMAIN slab -> Lhs]
<1>1. DOMAIN t = DOMAIN slab /\ \A a \in DOMAIN t : t[a] \in Lhs
  BY OutcomeIs DEF TypeOK
<1>2. t = [a \in DOMAIN t |-> t[a]]
  BY DEF FillOutcomes
<1>3. QED
  BY <1>1, <1>2

\* Preimages of the fill under way, or of the one before, are preimages.
LEMMA AskedAreLhs ==
  ASSUME TypeOK, SlabKept, slab # NoSlab
  PROVE  \A lhs \in current_fill .. current_fill + slab_entries - 1 : lhs \in Lhs
BY SlabIs, WordSizes

\* The progress of a call stays when what it filled does.
LEMMA ProgressStays ==
  ASSUME TypeOK, SlabKept, slab # NoSlab, ProgressKept,
         UNCHANGED <<cancel, threads, slab_entries, current_fill, hostPc, caller, current>>,
         InSolve => \A lhs \in Lhs : Filled(lhs) => Filled(lhs)'
  PROVE  ProgressKept'
<1> SUFFICES ASSUME InSolve PROVE ProgressKept'
  BY DEF ProgressKept, InSolve
<1>1. \A lhs \in current_fill .. current - 1 : lhs < current_fill + slab_entries => lhs \in Lhs
  <2>1. current_fill \in Nat /\ slab_entries \in Nat /\ current \in Nat
    BY SlabIs, WordSizes DEF TypeOK
  <2>2. QED
    BY <2>1, AskedAreLhs
<1>2. \A k \in 1 .. slab_entries : Before(k) \in Lhs /\ Before(k)' = Before(k)
  BY BeforeIs DEF Before
<1>3. hostPc = "filling" =>
        \A lhs \in current_fill .. current - 1 : lhs < current_fill + slab_entries => Filled(lhs)'
  BY <1>1 DEF ProgressKept
<1>4. (hostPc \in {"finishing", "filled"} /\ ~cancel) \/ hostPc \in {"searching", "waiting"} =>
        \A k \in 1 .. slab_entries : Filled(Before(k))'
  <2> SUFFICES ASSUME (hostPc \in {"finishing", "filled"} /\ ~cancel)
                        \/ hostPc \in {"searching", "waiting"},
                      NEW k \in 1 .. slab_entries
               PROVE  Filled(Before(k))'
    OBVIOUS
  <2>1. PICK lhs \in Lhs : lhs = Before(k) /\ lhs = Before(k)'
    BY <1>2
  <2>2. Filled(lhs)
    BY <2>1 DEF ProgressKept
  <2>3. Filled(lhs)'
    BY <2>2
  <2>4. QED
    BY <2>1, <2>3
<1>5. hostPc = "filling" =>
        current_fill <= current /\ current < current_fill + slab_entries + Stride(threads)
  BY DEF ProgressKept
<1>6. QED
  BY <1>3, <1>4, <1>5 DEF ProgressKept, Stride

\* The device keeps the invariant.
LEMMA DeviceFills ==
  ASSUME TypeOK, QueueInv, FillKept, DeviceStep
  PROVE  FillKept'
<1>1. /\ queue # <<>> /\ queue' = Tail(queue)
      /\ UNCHANGED <<cancel, threads, slab_entries, current_fill, hostPc, caller, current>>
      /\ slab' = slab \/ \E c, n : slab' \in FillOutcomes(c, n)
  BY DEF DeviceStep, Executes, WriteResult, WriteNonce, FillKernel, SearchKernel, ReadResult,
         configVars, hostVars
<1>2. /\ Len(queue) \in Nat \ {0} /\ Head(queue) = queue[1]
      /\ DOMAIN queue = 1 .. Len(queue) /\ DOMAIN queue' = 1 .. Len(queue) - 1
      /\ \A i \in 1 .. Len(queue) - 1 : queue'[i] = queue[i + 1]
  BY <1>1, Taken DEF QueueInv, QueueKept
<1>3. SlabKept'
  <2>1. CASE slab' = slab
    BY <1>1, <2>1 DEF FillKept, SlabKept
  <2>2. CASE slab' \in [DOMAIN slab -> Lhs]
    <3>1. CASE slab = NoSlab
      <4>1. slab' \in [{} -> Lhs] /\ NoSlab \in [{} -> Lhs]
        BY <2>2, <3>1 DEF NoSlab
      <4>2. slab' = NoSlab
        BY <4>1
      <4>3. QED
        BY <1>1, <3>1, <4>2 DEF FillKept, SlabKept
    <3>2. CASE slab # NoSlab
      <4>1. slab' \in [Buffers(slab_entries) -> Lhs] /\ Buffers(slab_entries) # {}
        BY <2>2, <3>2, SlabIs DEF FillKept
      <4>2. slab' # NoSlab
        BY <4>1 DEF NoSlab
      <4>3. QED
        BY <1>1, <3>2, <4>1, <4>2 DEF FillKept, SlabKept, Buffers, number_slabs
    <3>3. QED
      BY <3>1, <3>2
  <2>3. QED
    BY <1>1, <2>1, <2>2, OutcomeIsTyped
<1>4. KernelsKept'
  <2>1. \A i \in DOMAIN queue' : i + 1 \in DOMAIN queue /\ queue'[i] = queue[i + 1]
    BY <1>2
  <2>2. QED
    BY <1>1, <2>1 DEF FillKept, KernelsKept, InSolve
<1>5. ProgressKept'
  <2>1. InSolve => slab # NoSlab
    BY DEF FillKept, SlabKept, InSolve, QueueInv, HostKept
  <2>2. InSolve => \A lhs \in Lhs : Filled(lhs) => Filled(lhs)'
    BY DeviceKeepsFilled
  <2>3. ~InSolve => ProgressKept'
    BY <1>1 DEF ProgressKept, InSolve
  <2>4. InSolve => ProgressKept'
    BY <1>1, <2>1, <2>2, ProgressStays DEF FillKept
  <2>5. QED
    BY <2>3, <2>4
<1>6. QED
  BY <1>3, <1>4, <1>5 DEF FillKept

\* What fill enqueues begins where the loop is, and the loop advances by the
\* stride: neither the cast to 32 bits nor the sum in 64 bits wraps.
LEMMA FillStrides ==
  ASSUME TypeOK, FillKept, FillEnqueue
  PROVE  /\ current \in Nat /\ current_fill \in Nat /\ slab_entries \in Nat \ {0}
         /\ Stride(threads) \in Nat \ {0} /\ Stride(threads) < 2 ^ LhsBits
         /\ current < 2 ^ LhsBits /\ current_fill + slab_entries <= 2 ^ LhsBits
         /\ current % 2 ^ LhsBits = current /\ current' = current + Stride(threads)
<1> DEFINE b == current % 2 ^ LhsBits
           S == Stride(threads)
<1>1. /\ hostPc = "filling" /\ current < current_fill + slab_entries
      /\ current' = (current + S) % 2 ^ HalfBits
  BY DEF FillEnqueue, MoreToFill, Walks, Goes, configVars
<1>2. slab # NoSlab
  BY <1>1 DEF FillKept, SlabKept
<1>3. /\ current \in Nat /\ current_fill \in Nat /\ slab_entries \in Nat \ {0}
      /\ S \in Nat \ {0} /\ S < 2 ^ LhsBits
      /\ current < 2 ^ LhsBits /\ current_fill + slab_entries <= 2 ^ LhsBits
  <2>1. /\ current \in Nat /\ current_fill \in Nat /\ slab_entries \in Nat \ {0}
        /\ current_fill + slab_entries <= 2 ^ LhsBits
    BY <1>2, SlabIs, WordSizes DEF TypeOK, FillKept
  <2>2. S \in Nat \ {0}
    BY OpenCLAssumption DEF TypeOK
  <2>3. threads * Stepping \in Nat
    <3>1. threads \in Lhs /\ Stepping \in Lhs
      BY OpenCLAssumption DEF TypeOK
    <3>2. threads \in Nat /\ Stepping \in Nat
      BY <3>1, WordSizes
    <3>3. QED
      BY <3>2
  <2>4. S < 2 ^ LhsBits
    BY <2>3, WordSizes, Division DEF Stride
  <2>5. current < 2 ^ LhsBits
    BY <1>1, <2>1, WordSizes
  <2>6. QED
    BY <2>1, <2>2, <2>4, <2>5
<1>4. b = current /\ current' = current + S
  <2>1. b = current
    BY <1>3, WordSizes, Division
  <2>2. current + S \in Nat /\ current + S < 2 ^ HalfBits
    <3>1. 2 ^ HalfBits = 2 ^ LhsBits * 2 ^ LhsBits /\ 2 ^ LhsBits >= 2
      <4>1. 2 ^ (LhsBits + LhsBits) = 2 ^ LhsBits * 2 ^ LhsBits
        BY Widths, PowerOfSum
      <4>2. 2 ^ 1 <= 2 ^ LhsBits /\ 2 ^ 1 = 2
        <5>1. 2 ^ (0 + 1) = 2 * 2 ^ 0 /\ 2 ^ 0 = 1
          BY Widths, Powers
        <5>2. 2 ^ 1 <= 2 ^ LhsBits
          BY Widths, PowersGrow
        <5>3. QED
          BY <5>1, <5>2
      <4>3. LhsBits + LhsBits = HalfBits
        BY Widths
      <4>4. QED
        BY <4>1, <4>2, <4>3, WordSizes
    <3> DEFINE L == 2 ^ LhsBits
    <3>2. L \in Nat /\ L >= 2 /\ 2 ^ HalfBits = L * L /\ S < L /\ current < L
      BY <1>3, <3>1, WordSizes
    <3> HIDE DEF L, S
    <3>3. L * L >= L + L
      BY <3>2
    <3>4. QED
      BY <1>3, <3>2, <3>3
  <2>3. QED
    BY <1>1, <2>1, <2>2, WordSizes, Division
<1>5. QED
  BY <1>3, <1>4

\* A step of fill enqueues a kernel, which takes the next preimages.
LEMMA FillEnqueueFills ==
  ASSUME TypeOK, QueueInv, FillKept, FillEnqueue
  PROVE  FillKept'
<1> DEFINE b == current % 2 ^ LhsBits
           c == Enqueued("fill", b, nonce)
           S == Stride(threads)
<1>1. /\ hostPc = "filling" /\ current < current_fill + slab_entries
      /\ queue' = Append(queue, c) /\ current' = (current + S) % 2 ^ HalfBits
      /\ UNCHANGED <<cancel, threads, difficulty_m, slab_entries, slab, current_fill, hostPc, caller,
                     nonce>>
  BY DEF FillEnqueue, MoreToFill, Walks, Goes, configVars
<1>2. IsCommand(c) /\ c.op = "fill" /\ c.live /\ c.here /\ c.begin = b /\ c.threads = threads
  BY EnqueuedIsCommand DEF QueueInv, HostKept
<1>4. /\ current \in Nat /\ current_fill \in Nat /\ slab_entries \in Nat \ {0}
      /\ S \in Nat \ {0} /\ S < 2 ^ LhsBits
      /\ current < 2 ^ LhsBits /\ current_fill + slab_entries <= 2 ^ LhsBits
  BY FillStrides
<1>5. b = current /\ current' = current + S
  BY FillStrides
<1> HIDE DEF c, b, S
<1>6. /\ Len(queue) \in Nat /\ DOMAIN queue = 1 .. Len(queue) /\ DOMAIN queue' = 1 .. Len(queue) + 1
      /\ \A i \in 1 .. Len(queue) : queue'[i] = queue[i]
      /\ queue'[Len(queue) + 1] = c
  BY <1>1, <1>2, Added DEF QueueInv, QueueKept
<1>7. /\ \A i \in DOMAIN queue : i \in DOMAIN queue' /\ queue'[i] = queue[i]
      /\ \A i \in DOMAIN queue' : i \in DOMAIN queue \/ queue'[i] = c
      /\ \E i \in DOMAIN queue' : queue'[i] = c
  <2>1. \A i \in 1 .. Len(queue) + 1 : i \in 1 .. Len(queue) \/ i = Len(queue) + 1
    BY <1>6
  <2>2. \A i \in 1 .. Len(queue) : i \in 1 .. Len(queue) + 1
    BY <1>6
  <2>3. Len(queue) + 1 \in 1 .. Len(queue) + 1
    BY <1>6
  <2>4. QED
    BY <1>6, <2>1, <2>2, <2>3
<1>8. SlabKept'
  BY <1>1 DEF FillKept, SlabKept
<1>9. KernelsKept'
  BY <1>1, <1>2, <1>7 DEF FillKept, KernelsKept, InSolve
<1>10. ASSUME NEW lhs, Filled(lhs) PROVE Filled(lhs)'
  BY <1>1, <1>2, <1>7, <1>10, FilledStays
<1>11. ASSUME NEW lhs, current <= lhs, lhs < current' PROVE Filled(lhs)'
  BY <1>1, <1>2, <1>5, <1>7, <1>11 DEF Filled, ToFill, Fills, S, Stride
<1>12. ASSUME InSolve
       PROVE  /\ current_fill <= current' /\ current' < current_fill + slab_entries + S
              /\ \A lhs \in current_fill .. current' - 1 :
                   lhs < current_fill + slab_entries => Filled(lhs)'
  <2>1. /\ current_fill <= current
        /\ \A lhs \in current_fill .. current - 1 :
             lhs < current_fill + slab_entries => Filled(lhs)
    BY <1>1, <1>12 DEF FillKept, ProgressKept
  <2>2. current_fill <= current' /\ current' < current_fill + slab_entries + S
    BY <1>1, <1>4, <1>5, <2>1
  <2>3. ASSUME NEW lhs \in current_fill .. current' - 1, lhs < current_fill + slab_entries
        PROVE  Filled(lhs)'
    <3>1. lhs \in current_fill .. current - 1 \/ (current <= lhs /\ lhs < current')
      BY <1>4, <1>5
    <3>2. QED
      BY <1>10, <1>11, <2>1, <2>3, <3>1
  <2>4. QED
    BY <2>2, <2>3
<1>13. ProgressKept'
  BY <1>1, <1>12 DEF ProgressKept, InSolve, S, Stride
<1>14. QED
  BY <1>8, <1>9, <1>13 DEF FillKept

\* The last step of fill: every preimage of this fill is filled, unless it
\* was cancelled.
LEMMA FillEndFills ==
  ASSUME TypeOK, QueueInv, FillKept, FillEnd
  PROVE  FillKept'
<1>1. /\ hostPc = "filling" /\ hostPc' = "finishing" /\ current_fill' = NextFill
      /\ cancel \/ current >= current_fill + slab_entries
      /\ UNCHANGED <<cancel, threads, difficulty_m, slab_entries, slab, caller, nonce, current,
                     queue>>
  <2>1. current \in Nat /\ current_fill \in Nat /\ slab_entries \in Nat
    BY WordSizes, SlabIs DEF TypeOK, FillKept, SlabKept, FillEnd, Walks, Goes
  <2>2. QED
    BY <2>1 DEF FillEnd, MoreToFill, Walks, Goes, configVars
<1>2. slab # NoSlab
  BY <1>1 DEF FillKept, SlabKept
<1>3. SlabKept'
  BY <1>1, <1>2, SlabIs DEF FillKept, SlabKept
<1>4. KernelsKept'
  BY <1>1 DEF FillKept, KernelsKept, InSolve
<1>5. ASSUME InSolve, ~cancel, NEW k \in 1 .. slab_entries
      PROVE  Filled(Before(k))'
  <2> DEFINE L == 2 ^ LhsBits
             f == current_fill
             lhs == (f + slab_entries) - k
  <2>1. /\ L \in Nat \ {0} /\ f \in Nat /\ slab_entries \in Nat \ {0} /\ f + slab_entries <= L
        /\ current \in Nat /\ NextFill = (f + slab_entries) % L
    BY <1>2, SlabIs, WordSizes DEF FillKept, TypeOK, NextFill
  <2>2. Before(k)' = (NextFill - k) % L
    BY <1>1 DEF Before
  <2> HIDE DEF L, f
  <2>3. lhs \in f .. (f + slab_entries) - 1 /\ lhs \in Nat /\ lhs < L /\ lhs < f + slab_entries
    BY <2>1
  <2>4. Before(k)' = lhs
    <3>1. CASE f + slab_entries < L
      <4>1. NextFill = f + slab_entries
        BY <2>1, <3>1, Division
      <4>2. lhs % L = lhs
        BY <2>1, <2>3, Division
      <4>3. QED
        BY <2>2, <4>1, <4>2
    <3>2. CASE f + slab_entries = L
      <4>1. L = L * 1 + 0
        BY <2>1
      <4>2. NextFill = 0
        BY <2>1, <3>2, <4>1, DivisionUnique
      <4>3. k \in 1 .. L
        BY <2>1, <3>2
      <4>4. (0 - k) % L = L - k
        BY <2>1, <4>3, RemainderBelow
      <4>5. QED
        BY <2>2, <3>2, <4>2, <4>4
    <3>3. QED
      BY <2>1, <3>1, <3>2
  <2>5. lhs \in current_fill .. current - 1 /\ lhs < current_fill + slab_entries
    BY <1>1, <1>5, <2>1, <2>3 DEF f
  <2>6. PICK l : l = lhs /\ Filled(l)
    BY <1>1, <1>5, <2>5 DEF FillKept, ProgressKept
  <2>7. Filled(l)'
    BY <1>1, <2>6, FilledStays
  <2>8. Before(k)' = l
    BY <2>4, <2>6
  <2>9. QED
    BY <2>7, <2>8
<1>6. ProgressKept'
  BY <1>1, <1>5 DEF ProgressKept, InSolve
<1>7. QED
  BY <1>3, <1>4, <1>6 DEF FillKept

\* search enqueues its kernel and its transfer.
LEMMA SearchEnqueueFills ==
  ASSUME TypeOK, QueueInv, FillKept, SearchEnqueue
  PROVE  FillKept'
<1> DEFINE a == Enqueued("search", current, nonce)
           b == Enqueued("read", 0, nonce)
<1>1. /\ hostPc = "searching" /\ hostPc' = "waiting" /\ queue' = queue \o <<a, b>> /\ queue = <<>>
      /\ UNCHANGED <<cancel, threads, difficulty_m, slab_entries, slab, current_fill, caller, nonce>>
  BY DEF SearchEnqueue, Walks, Goes, configVars, FillKept, KernelsKept
<1>2. /\ IsCommand(a) /\ a.op = "search" /\ a.live
      /\ IsCommand(b) /\ b.op = "read" /\ b.live
  BY EnqueuedIsCommand DEF QueueInv, HostKept
<1> HIDE DEF a, b
<1>3. IsQueue(queue)
  BY DEF QueueInv, QueueKept
<1>4. /\ DOMAIN queue = {}
      /\ \A i \in DOMAIN queue' : queue'[i] = a \/ queue'[i] = b
  <2>1. /\ DOMAIN queue = 1 .. Len(queue) /\ DOMAIN queue' = 1 .. Len(queue) + 2 /\ Len(queue) = 0
        /\ queue'[Len(queue) + 1] = a /\ queue'[Len(queue) + 2] = b
    BY <1>1, <1>2, <1>3, AddedTwo
  <2>2. \A i \in 1 .. Len(queue) + 2 : i = Len(queue) + 1 \/ i = Len(queue) + 2
    BY <2>1
  <2>3. QED
    BY <2>1, <2>2
<1>5. slab # NoSlab
  BY <1>1 DEF FillKept, SlabKept
<1>6. SlabKept'
  BY <1>1 DEF FillKept, SlabKept
<1>7. KernelsKept'
  BY <1>1, <1>2, <1>4 DEF KernelsKept, InSolve
<1>8. ASSUME InSolve, NEW k \in 1 .. slab_entries
      PROVE  Filled(Before(k))'
  <2>1. PICK lhs : lhs = Before(k) /\ Before(k)' = lhs
    BY <1>1 DEF Before
  <2>2. Filled(lhs)
    BY <1>1, <1>8, <2>1 DEF FillKept, ProgressKept
  <2>3. Filled(lhs)'
    BY <1>1, <1>2, <1>4, <2>2, FilledStays
  <2>4. QED
    BY <2>1, <2>3
<1>9. ProgressKept'
  BY <1>1, <1>8 DEF ProgressKept, InSolve
<1>10. QED
  BY <1>6, <1>7, <1>9 DEF FillKept

\* The other steps of the host in a call.
LEMMA WalkFills ==
  ASSUME TypeOK, QueueInv, FillKept,
         \/ ClearCancel \/ LoopFill \/ LoopEnd \/ Finish
         \/ FilledSearch \/ FilledCancelled \/ Wait \/ SearchEnd \/ Cancel \/ CallFill
  PROVE  FillKept'
<1>1. UNCHANGED <<threads, slab_entries, slab, current_fill, nonce, queue>>
  BY DEF ClearCancel, LoopFill, LoopEnd, Finish, FilledSearch, FilledCancelled, Wait, SearchEnd,
         Cancel, CallFill, Decides, Walks, Goes, configVars, hostVars
<1>2. /\ hostPc # "idle" \/ hostPc' = "idle" \/ slab # NoSlab
      /\ hostPc' \in {"filled", "searching"} => hostPc = hostPc' \/ queue = <<>>
      /\ hostPc' = "waiting" => hostPc = "waiting"
      /\ caller' = caller \/ caller' = "fill"
      /\ hostPc' = "filling" => (hostPc = "filling" /\ current' = current) \/ current' = current_fill
      /\ hostPc' \in {"finishing", "filled"} /\ ~cancel'
           => hostPc \in {"finishing", "filled"} /\ ~cancel
      /\ hostPc' \in {"searching", "waiting"}
           => (hostPc = "filled" /\ ~cancel) \/ hostPc \in {"searching", "waiting"}
  BY DEF FillKept, KernelsKept, ClearCancel, LoopFill, LoopEnd, Finish, FilledSearch,
         FilledCancelled, Wait, SearchEnd, Cancel, CallFill, Ready, Decides, Walks, Goes, hostVars
<1>3. SlabKept'
  BY <1>1, <1>2 DEF FillKept, SlabKept
<1>4. KernelsKept'
  BY <1>1, <1>2 DEF FillKept, KernelsKept, InSolve
<1>5. ASSUME NEW lhs, Filled(lhs) PROVE Filled(lhs)'
  BY <1>1, <1>5, FilledStays
<1>6. ASSUME InSolve', hostPc' = "filling"
      PROVE  /\ current_fill <= current' /\ current' < current_fill + slab_entries + Stride(threads)
             /\ \A lhs \in current_fill .. current' - 1 :
                  lhs < current_fill + slab_entries => Filled(lhs)'
  <2>1. InSolve
    BY <1>2, <1>6 DEF InSolve
  <2>2. CASE hostPc = "filling" /\ current' = current
    BY <1>5, <2>1, <2>2 DEF FillKept, ProgressKept
  <2>3. CASE current' = current_fill
    <3>1. slab # NoSlab
      BY <1>1, <1>3, <1>6 DEF SlabKept
    <3>2. current_fill \in Nat /\ slab_entries \in Nat \ {0} /\ Stride(threads) \in Nat
      BY <3>1, SlabIs, OpenCLAssumption DEF FillKept, TypeOK
    <3>3. current_fill .. current' - 1 = {}
      BY <2>3, <3>2
    <3>4. current_fill <= current' /\ current' < current_fill + slab_entries + Stride(threads)
      BY <2>3, <3>2
    <3>5. QED
      BY <3>3, <3>4
  <2>4. QED
    BY <1>2, <1>6, <2>2, <2>3
<1>7. ASSUME InSolve', NEW k \in 1 .. slab_entries,
             \/ hostPc' \in {"finishing", "filled"} /\ ~cancel'
             \/ hostPc' \in {"searching", "waiting"}
      PROVE  Filled(Before(k))'
  <2>1. PICK lhs : lhs = Before(k) /\ Before(k)' = lhs
    BY <1>1 DEF Before
  <2>2. Filled(lhs)
    BY <1>2, <1>7, <2>1 DEF FillKept, ProgressKept, InSolve
  <2>3. Filled(lhs)'
    BY <1>5, <2>2
  <2>4. QED
    BY <2>1, <2>3
<1>8. ProgressKept'
  BY <1>1, <1>6, <1>7 DEF ProgressKept, Stride
<1>9. QED
  BY <1>3, <1>4, <1>8 DEF FillKept

\* solve begins, and calls that end, have filled nothing yet.
LEMMA CallFills ==
  ASSUME TypeOK, QueueInv, FillKept, QueueInv',
         \/ \E n \in Nonces : Solve(n) \/ SolveSetupFails(n)
         \/ FillFails \/ FinishFails \/ FillReturn \/ SearchFails \/ WaitFails \/ SolveReturn
  PROVE  FillKept'
<1>1. /\ UNCHANGED <<threads, slab_entries, slab, current_fill>>
      /\ \/ hostPc' = "idle" /\ caller' = "fill"
         \/ /\ hostPc = "idle" /\ hostPc' = "clearing" /\ slab # NoSlab
            /\ \E n \in Nonces : queue' = queue \o Setup(n)
  BY DEF Solve, SolveSetupFails, Ready, FillFails, FinishFails, FillReturn, SearchFails, WaitFails,
         SolveReturn, Throws, Leave, Goes, configVars
<1>2. SlabKept'
  BY <1>1 DEF FillKept, SlabKept
<1>3. KernelsKept'
  <2>1. CASE hostPc' = "idle" /\ caller' = "fill"
    BY <2>1 DEF KernelsKept, InSolve
  <2>2. CASE hostPc = "idle" /\ \E n \in Nonces : hostPc' = "clearing" /\ queue' = queue \o Setup(n)
    <3>1. PICK n \in Nonces : hostPc' = "clearing" /\ queue' = queue \o Setup(n)
      BY <2>2
    <3> DEFINE a == Enqueued("writeResult", 0, n)
               b == Enqueued("writeNonce", 0, n)
    <3>2. IsCommand(a) /\ a.op = "writeResult" /\ IsCommand(b) /\ b.op = "writeNonce"
      BY EnqueuedIsCommand DEF QueueInv
    <3>3. queue' = queue \o <<a, b>>
      BY <3>1 DEF Setup
    <3> HIDE DEF a, b
    <3>4. IsQueue(queue)
      BY DEF QueueInv, QueueKept
    <3>5. /\ DOMAIN queue = 1 .. Len(queue) /\ DOMAIN queue' = 1 .. Len(queue) + 2
          /\ Len(queue) \in Nat /\ \A i \in 1 .. Len(queue) : queue'[i] = queue[i]
          /\ queue'[Len(queue) + 1] = a /\ queue'[Len(queue) + 2] = b
      BY <3>2, <3>3, <3>4, AddedTwo
    <3>6. \A i \in 1 .. Len(queue) + 2 :
            i \in 1 .. Len(queue) \/ i = Len(queue) + 1 \/ i = Len(queue) + 2
      BY <3>5
    <3>7. \A i \in DOMAIN queue' : queue'[i].op # "fill" \/ ~queue'[i].live
      BY <2>2, <3>2, <3>5, <3>6 DEF QueueInv, QueueKept
    <3>8. QED
      BY <2>2, <3>7 DEF KernelsKept
  <2>3. QED
    BY <1>1, <2>1, <2>2
<1>4. ProgressKept'
  BY <1>1 DEF ProgressKept, InSolve
<1>5. QED
  BY <1>2, <1>3, <1>4 DEF FillKept

\* Between two solves the buffers are replaced, and the next fill begins at 0.
LEMMA BetweenFills ==
  ASSUME TypeOK, QueueInv, FillKept,
         \/ \E s \in SlabSizes : MemorySet(s) \/ MemorySetFails(s)
         \/ MemoryReset
         \/ \E d \in Difficulties : DifficultySet(d)
         \/ \E t \in ThreadCounts : ThreadsSet(t)
  PROVE  FillKept'
<1>1. hostPc = "idle" /\ hostPc' = "idle" /\ caller' = "fill"
  BY DEF MemorySet, MemorySetFails, MemoryReset, NewBuffers, DifficultySet, ThreadsSet, Settings,
         Between, hostVars, QueueInv, HostKept
<1>2. SlabKept'
  <2>1. CASE \E s \in SlabSizes : MemorySet(s)
    <3>1. PICK s \in SlabSizes : MemorySet(s)
      BY <2>1
    <3>2. slab' \in [Buffers(s) -> Lhs]
      BY <3>1, OpenCLAssumption DEF MemorySet
    <3>3. s \in Nat \ {0} /\ 0 % s = 0
      BY OpenCLAssumption, BucketsInSlab, Division
    <3>4. QED
      BY <1>1, <3>1, <3>2, <3>3 DEF MemorySet, NewBuffers, SlabKept
  <2>2. CASE MemoryReset \/ \E s \in SlabSizes : MemorySetFails(s)
    BY <1>1, <2>2 DEF MemoryReset, MemorySetFails, SlabKept
  <2>3. CASE (\E d \in Difficulties : DifficultySet(d)) \/ \E t \in ThreadCounts : ThreadsSet(t)
    BY <1>1, <2>3 DEF DifficultySet, ThreadsSet, Settings, FillKept, SlabKept
  <2>4. QED
    BY <2>1, <2>2, <2>3
<1>3. KernelsKept' /\ ProgressKept'
  BY <1>1 DEF KernelsKept, ProgressKept, InSolve
<1>4. QED
  BY <1>2, <1>3 DEF FillKept

\* Every step keeps it.
LEMMA FillKeptAlways == Spec => []FillKept
<1>1. Init => FillKept
  BY DEF Init, FillKept, SlabKept, KernelsKept, ProgressKept, InSolve
<1>2. TypeOK /\ QueueInv /\ QueueInv' /\ FillKept /\ [Next]_vars => FillKept'
  <2> SUFFICES ASSUME TypeOK, QueueInv, QueueInv', FillKept, [Next]_vars
               PROVE  FillKept'
    OBVIOUS
  <2>1. CASE UNCHANGED vars
    <3>1. /\ UNCHANGED <<cancel, threads, slab_entries, slab, current_fill, hostPc, caller, nonce,
                         current, queue>>
      BY <2>1 DEF vars, configVars, hostVars
    <3>2. \A lhs : Filled(lhs)' = Filled(lhs)
      BY <3>1 DEF Filled, ToFill, Fills, AllLive, Good, Home, Stride
    <3>3. SlabKept' /\ KernelsKept'
      BY <3>1 DEF FillKept, SlabKept, KernelsKept, InSolve
    <3>4. InSolve => slab # NoSlab
      BY DEF FillKept, SlabKept, InSolve, QueueInv, HostKept
    <3>5. ProgressKept'
      BY <3>1, <3>2, <3>4, ProgressStays DEF FillKept, ProgressKept, InSolve
    <3>6. QED
      BY <3>3, <3>5 DEF FillKept
  <2>2. CASE Next
    BY <2>2, DeviceFills, FillEnqueueFills, FillEndFills, SearchEnqueueFills, WalkFills, CallFills,
       BetweenFills DEF Next, HostCall, HostStep
  <2>3. QED
    BY <2>1, <2>2
<1>3. QED
  BY <1>1, <1>2, InitInv, NextInv, InitTypes, NextTypes, PTL DEF Spec

(***************************************************************************)
(* When the search begins, every preimage of the fill just made but the    *)
(* last stepping of the 32-bit range has its entry hold a preimage that    *)
(* belongs there: whichever buffer it is in, whatever was in the queue     *)
(* when solve began, and whichever of the racing work-items stored last.   *)
(***************************************************************************)
THEOREM FillsCover == Spec => []FillCovers
<1>1. TypeOK /\ QueueInv /\ FillKept => FillCovers
  <2> SUFFICES ASSUME TypeOK, QueueInv, FillKept, hostPc \in {"searching", "waiting"},
                      NEW k \in 1 .. slab_entries, Before(k) < 2 ^ LhsBits - Stepping
               PROVE  Good(Before(k))
    BY DEF FillCovers, Good, Home, Before
  <2>1. InSolve
    BY DEF InSolve, QueueInv, HostKept
  <2>2. Filled(Before(k))
    BY <2>1 DEF FillKept, ProgressKept
  <2>3. \A i \in DOMAIN queue : queue[i].op # "fill"
    BY DEF FillKept, KernelsKept
  <2>4. QED
    BY <2>2, <2>3 DEF Filled, ToFill, Fills
<1>2. QED
  BY <1>1, FillKeptAlways, InitInv, NextInv, InitTypes, NextTypes, PTL DEF Spec

-----------------------------------------------------------------------------
(* A search tries everything.                                              *)

Hits(rhs) == Partner(nonce, rhs) \in Accepted[nonce][difficulty_m]
Misses(n) == \A rhs \in 0 .. n - 1 : ~Hits(rhs)

\* Unless the right preimage 0 is a solution, a result without a right half
\* says that the preimages asked of the kernels so far are none.
TriedKept ==
  ~Hits(0) =>
    /\ hostPc = "searching" /\ result[2] = 0 => Misses(current)
    /\ hostPc = "waiting" =>
         \/ /\ Len(queue) = 2 /\ queue[1].op = "search" /\ queue[2].op = "read"
            /\ queue[1].live
            /\ current = queue[1].begin + Stride(threads)
            /\ Misses(queue[1].begin)
         \/ /\ Len(queue) = 1 /\ queue[1].op = "read"
            /\ result_buffer[2] = 0 => Misses(current)
         \/ /\ queue = <<>>
            /\ result[2] = 0 => Misses(current)

\* A kernel that finds nothing has tried every preimage of its stride, and
\* what another finds is a partner.
LEMMA KernelTries ==
  ASSUME NEW c, c.begin \in Nat, c.threads \in ThreadCounts, NEW n \in Nonces
  PROVE  /\ Found(c, n) = {} =>
              \A rhs \in c.begin .. c.begin + Stride(c.threads) - 1 :
                Partner(n, rhs) \notin Accepted[n][c.difficulty]
         /\ \A q \in Found(c, n) : \E rhs \in Nat :
              q = Partner(n, rhs) /\ Partner(n, rhs) \in Accepted[n][c.difficulty]
<1> DEFINE hits(i) == {rhs \in SearchRange(c, i) : Partner(n, rhs) \in Accepted[n][c.difficulty]}
<1>1. Stepping \in Nat /\ Stride(c.threads) \in Nat
  <2>1. Stepping \in Lhs /\ Stride(c.threads) \in Nat
    BY OpenCLAssumption
  <2>2. QED
    BY <2>1, WordSizes
<1>2. ASSUME Found(c, n) = {}, NEW rhs \in c.begin .. c.begin + Stride(c.threads) - 1
      PROVE  Partner(n, rhs) \notin Accepted[n][c.difficulty]
  <2> DEFINE x == rhs - c.begin
  <2>1. x \in Nat /\ x < Stride(c.threads) /\ rhs = c.begin + x
    BY <1>1
  <2> HIDE DEF x
  <2>2. PICK i \in WorkItems(c), p \in Nat :
          /\ i * Stepping = p /\ (i + 1) * Stepping = p + Stepping
          /\ p <= x /\ x < p + Stepping
    BY <2>1, SomeItem DEF WorkItems
  <2>3. rhs \in SearchRange(c, i)
    BY <1>1, <2>1, <2>2 DEF SearchRange
  <2>4. hits(i) = {}
    BY <1>2 DEF Found
  <2>5. QED
    BY <2>3, <2>4
<1>3. ASSUME NEW q \in Found(c, n)
      PROVE  \E rhs \in Nat : q = Partner(n, rhs) /\ Partner(n, rhs) \in Accepted[n][c.difficulty]
  <2>1. PICK i \in WorkItems(c) : hits(i) # {} /\ q = Partner(n, Min(hits(i)))
    BY DEF Found
  <2>2. i \in Nat
    BY <2>1 DEF WorkItems
  <2>3. hits(i) \subseteq Nat
    BY <1>1, <2>2 DEF SearchRange
  <2>4. Min(hits(i)) \in hits(i)
    BY <2>1, <2>3, MinIsIn
  <2>5. QED
    BY <2>1, <2>3, <2>4
<1>4. QED
  BY <1>2, <1>3

\* The device: a kernel tries the next preimages, and a transfer brings what
\* it found.
LEMMA DeviceTries ==
  ASSUME TypeOK, QueueInv, FillKept, TriedKept, DeviceStep
  PROVE  TriedKept'
<1>1. /\ queue # <<>> /\ queue' = Tail(queue)
      /\ UNCHANGED <<threads, difficulty_m, slab_entries, hostPc, caller, nonce, current>>
  BY DEF DeviceStep, Executes, WriteResult, WriteNonce, FillKernel, SearchKernel, ReadResult,
         configVars, hostVars
<1>2. /\ IsQueue(Tail(queue)) /\ Len(queue') = Len(queue) - 1 /\ Len(queue) \in Nat \ {0}
      /\ Head(queue) = queue[1]
      /\ DOMAIN queue = 1 .. Len(queue) /\ DOMAIN queue' = 1 .. Len(queue) - 1
      /\ \A i \in 1 .. Len(queue) - 1 : queue'[i] = queue[i + 1]
  BY <1>1, Taken DEF QueueInv, QueueKept
<1>3. hostPc # "searching"
  BY <1>1 DEF FillKept, KernelsKept
<1> SUFFICES ASSUME hostPc = "waiting", ~Hits(0)'
             PROVE  TriedKept'
  BY <1>1, <1>3 DEF TriedKept
<1>4. queue[1].op # "fill" /\ InSolve
  <2>1. 1 \in DOMAIN queue
    BY <1>2
  <2>2. QED
    BY <2>1 DEF FillKept, KernelsKept, QueueInv, HostKept, InSolve
<1>5. slab' = slab
  BY <1>2, <1>4 DEF DeviceStep, Executes, WriteResult, WriteNonce, FillKernel, SearchKernel,
                    ReadResult, configVars
<1>6. \A rhs : Hits(rhs)' = Hits(rhs)
  BY <1>1, <1>5 DEF Hits, Partner
<1>7. \A n : Misses(n)' = Misses(n)
  BY <1>6 DEF Misses
<1>8. CASE /\ Len(queue) = 2 /\ queue[1].op = "search" /\ queue[2].op = "read" /\ queue[1].live
           /\ current = queue[1].begin + Stride(threads) /\ Misses(queue[1].begin)
  <2> DEFINE c == queue[1]
  <2>1. /\ c.begin \in Nat /\ c.here /\ c.threads = threads /\ c.difficulty = difficulty_m
        /\ threads \in ThreadCounts /\ nonce \in Nonces /\ nonce_buffer = nonce
    <3>1. 1 \in DOMAIN queue
      BY <1>2
    <3>2. nonce_buffer = nonce
      BY <1>1, <1>4, <1>8, KernelNonce
    <3>3. QED
      BY <1>4, <1>8, <3>1, <3>2 DEF QueueInv, QueueKept, HostKept
  <2>2. IF Found(c, nonce) = {} THEN UNCHANGED result_buffer
        ELSE \E p, q \in Found(c, nonce) : result_buffer' = <<p[1], q[2]>>
    BY <1>2, <1>8, <2>1
       DEF DeviceStep, Executes, WriteResult, WriteNonce, FillKernel, SearchKernel, ReadResult
  <2>3. Len(queue') = 1 /\ queue'[1].op = "read"
    <3>1. 1 \in 1 .. Len(queue) - 1 /\ Len(queue') = 1
      BY <1>2, <1>8
    <3>2. queue'[1] = queue[1 + 1]
      BY <1>2, <3>1
    <3>3. QED
      BY <1>8, <3>1, <3>2
  <2>4. CASE Found(c, nonce) = {}
    <3>1. \A rhs \in c.begin .. c.begin + Stride(threads) - 1 : ~Hits(rhs)
      BY <2>1, <2>4, KernelTries DEF Hits
    <3>2. Stride(threads) \in Nat
      BY <2>1, OpenCLAssumption
    <3>3. \A rhs \in 0 .. current - 1 :
            rhs \in 0 .. c.begin - 1 \/ rhs \in c.begin .. c.begin + Stride(threads) - 1
      BY <1>8, <2>1, <3>2
    <3>4. Misses(current)
      BY <1>8, <3>1, <3>3 DEF Misses
    <3>5. QED
      BY <1>1, <1>7, <2>3, <3>4 DEF TriedKept
  <2>5. CASE Found(c, nonce) # {}
    <3>1. PICK p \in Found(c, nonce), q \in Found(c, nonce) : result_buffer' = <<p[1], q[2]>>
      BY <2>2, <2>5
    <3>2. PICK rhs \in Nat : q = Partner(nonce, rhs) /\ Hits(rhs)
      BY <2>1, KernelTries DEF Hits
    <3>3. q[2] = rhs /\ rhs # 0
      BY <1>6, <3>2 DEF Partner
    <3>4. result_buffer'[2] # 0
      BY <3>1, <3>3
    <3>5. QED
      BY <1>1, <2>3, <3>4 DEF TriedKept
  <2>6. QED
    BY <2>4, <2>5
<1>9. CASE /\ Len(queue) = 1 /\ queue[1].op = "read"
           /\ result_buffer[2] = 0 => Misses(current)
  <2>1. result' = result_buffer
    BY <1>2, <1>9
       DEF DeviceStep, Executes, WriteResult, WriteNonce, FillKernel, SearchKernel, ReadResult
  <2>2. queue' = <<>>
    BY <1>1, <1>2, <1>9 DEF IsQueue
  <2>3. QED
    BY <1>1, <1>7, <1>9, <2>1, <2>2 DEF TriedKept
<1>10. QED
  BY <1>1, <1>6, <1>8, <1>9 DEF TriedKept

\* search asks for the next preimages when it has no result yet.
LEMMA SearchEnqueueTries ==
  ASSUME TypeOK, QueueInv, FillKept, TriedKept, SearchEnqueue
  PROVE  TriedKept'
<1>0. PICK a, b : a = Enqueued("search", current, nonce) /\ b = Enqueued("read", 0, nonce)
  OBVIOUS
<1>1. /\ hostPc = "searching" /\ hostPc' = "waiting" /\ queue' = queue \o <<a, b>> /\ queue = <<>>
      /\ result[2] = 0 /\ current' = current + Stride(threads)
      /\ UNCHANGED <<threads, difficulty_m, slab_entries, slab, nonce>>
  BY <1>0 DEF SearchEnqueue, MoreToSearch, Advance, Walks, Goes, configVars, FillKept, KernelsKept
<1>2. /\ IsCommand(a) /\ a.op = "search" /\ a.live /\ a.begin = current
      /\ IsCommand(b) /\ b.op = "read"
  BY <1>0, EnqueuedIsCommand DEF QueueInv, HostKept
<1>3. Len(queue') = 2 /\ queue'[1] = a /\ queue'[2] = b
  BY <1>1
<1>4. \A rhs : Hits(rhs)' = Hits(rhs)
  BY <1>1 DEF Hits, Partner
<1>5. \A n : Misses(n)' = Misses(n)
  BY <1>4 DEF Misses
<1>6. ~Hits(0)' => Misses(a.begin)'
  BY <1>1, <1>2, <1>4, <1>5 DEF TriedKept
<1>7. QED
  BY <1>1, <1>2, <1>3, <1>6 DEF TriedKept, Stride

\* The other steps in a search, and those elsewhere.
LEMMA OthersTry ==
  ASSUME TypeOK, QueueInv, FillKept, TriedKept, [Next]_vars, ~DeviceStep, ~SearchEnqueue
  PROVE  TriedKept'
<1>1. CASE hostPc' \notin {"searching", "waiting"}
  BY <1>1 DEF TriedKept
<1>2. CASE hostPc' \in {"searching", "waiting"}
  <2>1. /\ UNCHANGED <<threads, difficulty_m, slab_entries, slab, nonce, result_buffer, queue>>
        /\ \/ UNCHANGED <<hostPc, current, result>>
           \/ hostPc = "filled" /\ hostPc' = "searching" /\ current' = 0
           \/ /\ hostPc = "waiting" /\ hostPc' = "searching" /\ queue = <<>>
              /\ UNCHANGED <<current, result>>
    BY <1>2 DEF Next, HostCall, HostStep, vars, configVars, hostVars, deviceVars,
       Solve, SolveSetupFails, CallFill, MemorySet, MemorySetFails, MemoryReset, NewBuffers,
       DifficultySet, ThreadsSet, Settings, Between, ClearCancel, LoopFill, LoopEnd, FillEnqueue,
       FillFails, FillEnd, Finish, FinishFails, FillReturn, FilledSearch, FilledCancelled,
       SearchFails, Wait, WaitFails, SearchEnd, SolveReturn, Throws, Leave, Goes, Walks, Decides,
       Cancel
  <2>2. \A rhs : Hits(rhs)' = Hits(rhs)
    BY <2>1 DEF Hits, Partner
  <2>3. \A n : Misses(n)' = Misses(n)
    BY <2>2 DEF Misses
  <2>4. CASE UNCHANGED <<hostPc, current, result>>
    BY <2>1, <2>2, <2>3, <2>4 DEF TriedKept, Stride
  <2>5. CASE hostPc = "filled" /\ hostPc' = "searching" /\ current' = 0
    BY <2>5 DEF TriedKept, Misses
  <2>6. CASE /\ hostPc = "waiting" /\ hostPc' = "searching" /\ queue = <<>>
             /\ UNCHANGED <<current, result>>
    <3>1. ~Hits(0) /\ result[2] = 0 => Misses(current)
      BY <2>6 DEF TriedKept
    <3>2. QED
      BY <2>2, <2>3, <2>6, <3>1 DEF TriedKept
  <2>7. QED
    BY <2>1, <2>4, <2>5, <2>6
<1>3. QED
  BY <1>1, <1>2

(***************************************************************************)
(* A search that gives up without being cancelled has tried every right    *)
(* preimage up to max_current: no stride is skipped between one kernel and *)
(* the next, and a result a kernel stored is never taken for none, as long *)
(* as the right preimage 0, whose result looks like none, is no solution.  *)
(***************************************************************************)
THEOREM SearchesTryAll == Spec => []SearchTriesAll
<1>1. Init => TriedKept
  BY DEF Init, TriedKept
<1>2. TypeOK /\ QueueInv /\ FillKept /\ TriedKept /\ [Next]_vars => TriedKept'
  BY DeviceTries, SearchEnqueueTries, OthersTry
<1>3. TypeOK /\ TriedKept => SearchTriesAll
  <2> SUFFICES ASSUME TypeOK, TriedKept, hostPc = "searching", result[2] = 0,
                      current > max_current, NEW rhs \in 0 .. max_current, Hits(rhs)
               PROVE  Hits(0)
    BY DEF SearchTriesAll, Hits
  <2>1. SUFFICES ASSUME Misses(current) PROVE FALSE
    BY DEF TriedKept
  <2>2. current \in Nat /\ max_current \in Int
    <3>1. Stride(threads) \in Nat
      BY OpenCLAssumption DEF TypeOK
    <3>2. QED
      BY <3>1, WordSizes DEF TypeOK, max_current
  <2>3. rhs \in 0 .. current - 1
    BY <2>2
  <2>4. QED
    BY <2>1, <2>3 DEF Misses
<1>4. QED
  BY <1>1, <1>2, <1>3, FillKeptAlways, InitInv, NextInv, InitTypes, NextTypes, PTL DEF Spec

-----------------------------------------------------------------------------
(* Every step advances.                                                    *)

\* What is left of a loop shrinks when the loop advances.
LEMMA RemainingShrinks ==
  ASSUME NEW bound \in Int, NEW at \in Nat, at < bound, NEW next \in Nat, at < next
  PROVE  /\ Remaining(at, bound) \in Nat /\ Remaining(next, bound) \in Nat
         /\ Remaining(next, bound) < Remaining(at, bound)
<1>1. CASE next < bound
  BY <1>1 DEF Remaining
<1>2. CASE ~(next < bound)
  BY <1>2 DEF Remaining
<1>3. QED
  BY <1>1, <1>2

\* The two loops: each kernel takes its preimages off what is left.
LEMMA LoopsAdvance ==
  ASSUME TypeOK, FillKept, FillEnqueue \/ SearchEnqueue \/ Wait
  PROVE  HostAdvances
<1> USE DEF StagesLeft, HostAdvances
<1>1. CASE FillEnqueue
  <2>1. /\ hostPc = "filling" /\ hostPc' = "filling" /\ current < current_fill + slab_entries
        /\ UNCHANGED <<current_fill, slab_entries>>
    BY <1>1 DEF FillEnqueue, MoreToFill, Walks, Goes, configVars
  <2>2. /\ current_fill + slab_entries \in Int /\ current \in Nat
        /\ current' \in Nat /\ current < current'
    BY <1>1, FillStrides
  <2>3. Remaining(current', current_fill + slab_entries) < Remaining(current, current_fill + slab_entries)
    BY <2>1, <2>2, RemainingShrinks
  <2>4. KernelsLeft' < KernelsLeft
    BY <2>1, <2>3 DEF KernelsLeft, Remaining
  <2>5. QED
    BY <2>1, <2>4
<1>2. CASE SearchEnqueue
  <2>1. /\ hostPc = "searching" /\ hostPc' = "waiting" /\ current <= max_current
        /\ current' = current + Stride(threads) /\ threads' = threads
    BY <1>2 DEF SearchEnqueue, MoreToSearch, Advance, Walks, Goes, configVars
  <2>2. Stride(threads) \in Nat \ {0} /\ current \in Nat /\ max_current \in Int
    BY OpenCLAssumption, WordSizes DEF TypeOK, max_current
  <2>3. max_current' = max_current
    BY <2>1 DEF max_current, Stride
  <2>4. /\ max_current + 1 \in Int /\ current \in Nat /\ current < max_current + 1
        /\ current' \in Nat /\ current < current'
    BY <2>1, <2>2
  <2>5. /\ Remaining(current, max_current + 1) \in Nat /\ Remaining(current', max_current + 1) \in Nat
        /\ Remaining(current', max_current + 1) < Remaining(current, max_current + 1)
    BY <2>4, RemainingShrinks
  <2>6. /\ KernelsLeft = 2 * Remaining(current, max_current + 1)
        /\ KernelsLeft' = 2 * Remaining(current', max_current + 1) + 1
    BY <2>1, <2>3 DEF KernelsLeft, Remaining
  <2>7. KernelsLeft' < KernelsLeft
    BY <2>5, <2>6
  <2>8. QED
    BY <2>1, <2>7
<1>3. CASE Wait
  <2>1. /\ hostPc = "waiting" /\ hostPc' = "searching" /\ UNCHANGED <<current, threads>>
    BY <1>3 DEF Wait, Decides, Walks, Goes, configVars
  <2>2. max_current' = max_current /\ max_current \in Int /\ current \in Nat
    BY <2>1, OpenCLAssumption, WordSizes DEF TypeOK, max_current, Stride
  <2>3. /\ Remaining(current', max_current + 1) = Remaining(current, max_current + 1)
        /\ Remaining(current, max_current + 1) \in Nat
    BY <2>1, <2>2 DEF Remaining
  <2>4. /\ KernelsLeft = 2 * Remaining(current, max_current + 1) + 1
        /\ KernelsLeft' = 2 * Remaining(current', max_current + 1)
    BY <2>1, <2>2 DEF KernelsLeft, Remaining
  <2>5. KernelsLeft' < KernelsLeft
    BY <2>3, <2>4
  <2>6. QED
    BY <2>1, <2>5
<1>4. QED
  BY <1>1, <1>2, <1>3

\* The other steps of the host go from a stage to a later one.
LEMMA StagesAdvance ==
  ASSUME HostStep, ~LoopFill, ~FillEnqueue, ~SearchEnqueue, ~Wait
  PROVE  HostAdvances
<1> USE DEF StagesLeft, HostAdvances, Decides, Walks, Goes, Throws, Leave
<1>1. CASE ClearCancel \/ LoopEnd \/ SolveReturn
  BY <1>1 DEF ClearCancel, LoopEnd, SolveReturn
<1>2. CASE FillFails \/ FillEnd \/ Finish \/ FinishFails \/ FillReturn
  BY <1>2 DEF FillFails, FillEnd, Finish, FinishFails, FillReturn
<1>3. CASE FilledSearch \/ FilledCancelled
  BY <1>3 DEF FilledSearch, FilledCancelled
<1>4. CASE SearchFails \/ WaitFails \/ SearchEnd
  BY <1>4 DEF SearchFails, WaitFails, SearchEnd
<1>5. QED
  BY <1>1, <1>2, <1>3, <1>4 DEF HostStep

\* A step that leaves alone where the host is.
LEMMA HostUnmoved ==
  ASSUME UNCHANGED <<hostPc, current, current_fill, slab_entries, threads>>
  PROVE  HostStays
<1>1. max_current' = max_current
  BY DEF max_current, Stride
<1>2. QED
  BY <1>1 DEF HostStays, StagesLeft, KernelsLeft, Remaining

\* The device takes a command off its queue.
LEMMA DeviceTakes ==
  ASSUME QueueInv, DeviceStep
  PROVE  DeviceAdvances
<1>1. queue # <<>> /\ queue' = Tail(queue) /\ IsQueue(queue)
  BY DEF DeviceStep, WriteResult, WriteNonce, FillKernel, SearchKernel, ReadResult, Executes,
     QueueInv, QueueKept
<1>2. Len(queue') < Len(queue)
  <2>1. Len(Tail(queue)) = Len(queue) - 1 /\ Len(queue) \in Nat
    BY <1>1, Taken
  <2>2. QED
    BY <1>1, <2>1
<1>3. UNCHANGED <<hostPc, current, current_fill, slab_entries, threads>>
  BY DEF DeviceStep, WriteResult, WriteNonce, FillKernel, SearchKernel, ReadResult,
     configVars, hostVars
<1>4. QED
  BY <1>2, <1>3, HostUnmoved DEF DeviceAdvances

(***************************************************************************)
(* But for a call and another round of driver::solve, every step advances  *)
(* the host, the device or the flag in a well-founded order: no call and   *)
(* no round is infinite, for any slab, any number of work-items whose      *)
(* stride is not 0, any failures and any commands left in the queue.       *)
(***************************************************************************)
THEOREM RoundsDoAdvance == Spec => RoundsAdvance
<1> DEFINE Ahead == HostAdvances \/ DeviceAdvances \/ FlagAdvances \/ LoopFill \/ HostCall
<1>1. ASSUME TypeOK, QueueInv, FillKept, Next PROVE Ahead
  <2>1. CASE HostStep
    BY <1>1, <2>1, LoopsAdvance, StagesAdvance
  <2>2. CASE DeviceStep
    BY <1>1, <2>2, DeviceTakes
  <2>3. CASE Cancel
    <3>1. UNCHANGED <<hostPc, current, current_fill, slab_entries, threads>>
      BY <2>3 DEF Cancel, configVars, hostVars
    <3>2. QED
      BY <2>3, <3>1, HostUnmoved DEF Cancel, FlagAdvances
  <2>4. QED
    BY <1>1, <2>1, <2>2, <2>3 DEF Next
<1>2. TypeOK /\ QueueInv /\ FillKept /\ [Next]_vars => [Ahead]_vars
  BY <1>1
<1>3. QED
  BY <1>2, FillKeptAlways, InitInv, NextInv, InitTypes, NextTypes, PTL DEF Spec, RoundsAdvance

=============================================================================
