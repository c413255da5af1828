---------------------------- MODULE SlabMemoryProofs ----------------------------
(***************************************************************************)
(* What SlabMemory promises, for both platforms, every size of a large     *)
(* page and every sequence of requests.                                    *)
(***************************************************************************)
EXTENDS SlabMemory, TLAPS

\* What a deleter captured is what was asked for, and what is held.
Captured ==
  /\ slab.to # "memory" => slab.bytes = 0
  /\ slab.to = "memory" =>
       /\ slab.captured = size
       /\ slab.bytes >= size * EntrySize
       /\ platform = "unix" => slab.bytes = size * EntrySize

Inv == TypeOK /\ Captured /\ NothingLeaks

-----------------------------------------------------------------------------
\* A request is a whole number of entries.
LEMMA EntriesOfRequest ==
  ASSUME NEW m \in Requests
  PROVE  /\ m \in Nat /\ m \div EntrySize \in Nat
         /\ (m \div EntrySize) * EntrySize = m
  BY MemoryAssumption DEF EntrySize

\* Rounding up to a multiple never rounds down.
LEMMA RoundUp ==
  ASSUME NEW n \in Nat, NEW k \in Nat \ {0}
  PROVE  round_up(n, k) \in Nat /\ round_up(n, k) >= n
<1> DEFINE q == (n + k - 1) \div k
           r == (n + k - 1) % k
<1>1. /\ q \in Nat /\ r \in Nat /\ r < k
      /\ n + k - 1 = k * q + r
  BY Z3
<1>2. k * q \in Nat /\ k * q = q * k
  BY <1>1
<1>3. k * q > n - 1
  <2> DEFINE p == k * q
  <2>1. n + k - 1 = p + r /\ r < k /\ r \in Nat /\ p \in Nat
    BY <1>1, <1>2
  <2> HIDE DEF p, r, q
  <2>2. p > n - 1
    BY <2>1
  <2>3. QED
    BY <2>2 DEF p
<1>4. round_up(n, k) = q * k
  BY DEF round_up
<1> HIDE DEF q, r
<1>5. QED
  BY <1>2, <1>3, <1>4

\* Freeing the slab gives back exactly the bytes it holds.
LEMMA FreesAll == Inv => Freed(slab) = slab.bytes
  BY DEF Inv, Captured, TypeOK, Freed

\* What an allocation yields: memory of at least the size asked for, or none.
LEMMA AllocationOutcomes ==
  ASSUME NEW m \in Requests, NEW a \in Allocations(m),
         platform \in Platforms, use_large_mem_pages \in BOOLEAN
  PROVE  /\ a.ptr \in [to : {"null", "failed", "memory"}, bytes : Nat, captured : Nat]
         /\ a.ptr.to # "memory" => a.ptr.bytes = 0
         /\ a.ptr.to = "memory" =>
              /\ a.ptr.captured = m \div EntrySize
              /\ a.ptr.bytes >= m
              /\ platform = "unix" => a.ptr.bytes = m
<1>1. m \in Nat /\ m \div EntrySize \in Nat
  BY EntriesOfRequest
<1>2. round_up(m, LargePage) \in Nat /\ round_up(m, LargePage) >= m
  BY <1>1, RoundUp, MemoryAssumption
<1>3. CASE platform = "unix"
  BY <1>1, <1>3 DEF Allocations, Nothing
<1>4. CASE platform # "unix" /\ use_large_mem_pages
  BY <1>1, <1>2, <1>4 DEF Allocations, Nothing
<1>5. CASE platform # "unix" /\ ~use_large_mem_pages
  BY <1>1, <1>5 DEF Allocations, Nothing
<1>6. QED
  BY <1>3, <1>4, <1>5

-----------------------------------------------------------------------------
LEMMA InitInv == Init => Inv
<1> SUFFICES ASSUME Init PROVE Inv
  OBVIOUS
<1>1. platform \in Platforms /\ use_large_mem_pages \in BOOLEAN
  BY DEF Init
<1>2. QED
  BY <1>1 DEF Init, Inv, TypeOK, Captured, NothingLeaks, Nothing

\* Each call keeps the invariant, failed or not.
LEMMA NextInv ==
  ASSUME Inv, [Next]_vars
  PROVE  Inv'
<1>1. ASSUME NEW m \in Requests, MemorySet(m)
      PROVE  Inv'
  <2>1. PICK a \in Allocations(m) :
          /\ slab' = a.ptr
          /\ mapped' = mapped + a.ptr.bytes - Freed(slab)
          /\ returned' = IF a.error THEN "error" ELSE "success"
    BY <1>1 DEF MemorySet
  <2>2. size' = m \div EntrySize /\ UNCHANGED <<platform, use_large_mem_pages>>
    BY <1>1 DEF MemorySet
  <2>3. platform \in Platforms /\ use_large_mem_pages \in BOOLEAN
    BY DEF Inv, TypeOK
  <2>4. /\ slab' \in [to : {"null", "failed", "memory"}, bytes : Nat, captured : Nat]
        /\ slab'.to # "memory" => slab'.bytes = 0
        /\ slab'.to = "memory" =>
             /\ slab'.captured = size'
             /\ slab'.bytes >= size' * EntrySize
             /\ platform = "unix" => slab'.bytes = size' * EntrySize
    BY <2>1, <2>2, <2>3, AllocationOutcomes, EntriesOfRequest
  <2>5. mapped' = slab'.bytes
    BY <2>1, <2>4, FreesAll DEF Inv, NothingLeaks, TypeOK
  <2>6. TypeOK'
    BY <2>1, <2>2, <2>3, <2>4, <2>5, EntriesOfRequest DEF TypeOK
  <2>7. QED
    BY <2>2, <2>4, <2>5, <2>6 DEF Inv, Captured, NothingLeaks
<1>2. ASSUME NEW m \in Requests, Insufficient(m)
      PROVE  Inv'
  BY <1>2, FreesAll, EntriesOfRequest
  DEF Insufficient, Inv, TypeOK, Captured, NothingLeaks, Nothing
<1>3. CASE MemoryReset
  BY <1>3, FreesAll DEF MemoryReset, Inv, TypeOK, Captured, NothingLeaks, Nothing
<1>4. CASE UNCHANGED vars
  BY <1>4 DEF vars, Inv, TypeOK, Captured, NothingLeaks, Freed
<1>5. QED
  BY <1>1, <1>2, <1>3, <1>4 DEF Next

(***************************************************************************)
(* The fields of the driver and its deleter keep their types.              *)
(***************************************************************************)
THEOREM MemoryTypes == Spec => []TypeOK
<1>1. Inv => TypeOK
  BY DEF Inv
<1>2. QED
  BY <1>1, InitInv, NextInv, PTL DEF Spec

(***************************************************************************)
(* The process holds the bytes of the present slab and no other: memory_set*)
(* and memory_reset neither leak nor free twice, whichever of their        *)
(* allocations fail, on both platforms.                                    *)
(***************************************************************************)
THEOREM MemoryNeverLeaks == Spec => []NothingLeaks
<1>1. Inv => NothingLeaks
  BY DEF Inv
<1>2. QED
  BY <1>1, InitInv, NextInv, PTL DEF Spec

(***************************************************************************)
(* The slab is never smaller than the size that bucket numbers are masked  *)
(* with.                                                                   *)
(***************************************************************************)
THEOREM SlabIsLargeEnough == Spec => []SlabHoldsSize
<1>1. Inv => SlabHoldsSize
  BY DEF Inv, Captured, SlabHoldsSize
<1>2. QED
  BY <1>1, InitInv, NextInv, PTL DEF Spec
=============================================================================
