------------------------------- MODULE SlabMemory -------------------------------
(***************************************************************************)
(* The memory of cpp_driver: memory_set and memory_reset (src/src/         *)
(* cpp_driver.cpp, lines 355 to 393) over alloc, free_page_memory and      *)
(* memory_available of the two platforms (src/include/plat/).              *)
(*                                                                         *)
(* One thread calls them.  How much memory there is depends on the other   *)
(* processes: any query and any allocation may turn out either way.        *)
(***************************************************************************)
EXTENDS Integers

CONSTANTS Platforms,    \* of {"unix", "windows"}
          Requests,     \* the arguments of memory_set, in bytes
          LargePage     \* GetLargePageMinimum (), in bytes

EntrySize == 4

ASSUME MemoryAssumption ==
  /\ Platforms \subseteq {"unix", "windows"}
  /\ \A m \in Requests : m \in Nat /\ m >= EntrySize /\ m % EntrySize = 0
  /\ LargePage \in Nat \ {0}

VARIABLES
  platform,
  use_large_mem_pages,
  size,       \* cpp_driver::size, in entries
  slab,       \* the unique_ptr: what it points to, and what its deleter captured
  mapped,     \* the bytes the process holds
  returned    \* what the last call returned, if it was memory_set

vars == <<platform, use_large_mem_pages, size, slab, mapped, returned>>

\* "null" is nullptr, "failed" is MAP_FAILED, which is not null.
Nothing(p, n) == [to |-> p, bytes |-> 0, captured |-> n]

TypeOK ==
  /\ platform \in Platforms /\ use_large_mem_pages \in BOOLEAN
  /\ size \in Nat
  /\ slab \in [to : {"null", "failed", "memory"}, bytes : Nat, captured : Nat]
  /\ mapped \in Nat
  /\ returned \in {"none", "success", "error"}

\* The constructor calls memory_init, which asks for large pages on Windows.
Init ==
  /\ platform \in Platforms
  /\ use_large_mem_pages \in IF platform = "windows" THEN BOOLEAN ELSE {FALSE}
  /\ size = 0 /\ slab = Nothing("null", 0)
  /\ mapped = 0
  /\ returned = "none"

-----------------------------------------------------------------------------
round_up(n, multiple) == ((n + multiple - 1) \div multiple) * multiple

\* Mutation: the deleter takes its size from the driver when it is called.
FreedLate(s) ==
  IF s.to # "memory" THEN 0
  ELSE IF platform = "unix" THEN size' * EntrySize ELSE s.bytes

\* The bytes free_page_memory gives back for a slab: munmap is told the size
\* the deleter captured, VirtualFree releases the whole region.
Freed(s) ==
  IF s.to # "memory" THEN 0
  ELSE IF platform = "unix" THEN s.captured * EntrySize ELSE s.bytes

\* What alloc may return for a request, and whether it sets error.
Allocations(memory) ==
  LET got(bytes) == [ptr |-> [to |-> "memory", bytes |-> bytes, captured |-> memory \div EntrySize],
                     error |-> FALSE]
      no(p, e)   == [ptr |-> Nothing(p, memory \div EntrySize), error |-> e]
  IN  IF platform = "unix" THEN {got(memory), no("failed", TRUE)}
      ELSE IF use_large_mem_pages
      THEN {got(round_up(memory, LargePage)), got(memory), no("null", TRUE)}
      ELSE {got(memory), no("null", FALSE)}

-----------------------------------------------------------------------------
\* The assignment to slab frees the old memory, if Windows did not have to
\* free it before it could tell that there is enough.
MemorySet(memory) ==
  /\ size' = memory \div EntrySize
  /\ \E a \in Allocations(memory) :
       /\ slab' = a.ptr
       /\ mapped' = mapped + a.ptr.bytes - Freed(slab)
       /\ returned' = IF a.error THEN "error" ELSE "success"
  /\ UNCHANGED <<platform, use_large_mem_pages>>

\* Mutation: the old slab is kept when memory is insufficient.
InsufficientKeeps(memory) ==
  /\ platform = "windows"
  /\ size' = memory \div EntrySize
  /\ returned' = "error"
  /\ UNCHANGED <<platform, use_large_mem_pages, slab, mapped>>

\* Windows reports too little memory, and again when the old slab is freed.
Insufficient(memory) ==
  /\ platform = "windows"
  /\ size' = memory \div EntrySize
  /\ slab' = Nothing("null", 0)
  /\ mapped' = mapped - Freed(slab)
  /\ returned' = "error"
  /\ UNCHANGED <<platform, use_large_mem_pages>>

MemoryReset ==
  /\ UNCHANGED <<platform, use_large_mem_pages, size>>
  /\ slab' = Nothing("null", 0)
  /\ mapped' = mapped - Freed(slab)
  /\ returned' = "none"

Next ==
  \/ \E m \in Requests : MemorySet(m) \/ Insufficient(m)
  \/ MemoryReset

Spec == Init /\ [][Next]_vars

-----------------------------------------------------------------------------
(* Properties.                                                             *)

(***************************************************************************)
(* The slab the driver points to is never smaller than the size it masks   *)
(* bucket numbers with, although memory_set changes size first and may     *)
(* fail at three places after that.                                        *)
(***************************************************************************)
SlabHoldsSize == slab.to = "memory" => slab.bytes >= size * EntrySize

(***************************************************************************)
(* Nothing leaks and nothing is freed twice: the process holds the bytes   *)
(* of the present slab, whatever failed before, with the size that munmap  *)
(* is told being the one the deleter captured.                             *)
(***************************************************************************)
NothingLeaks == mapped = slab.bytes

(***************************************************************************)
(* "Returns true on error" (src/include/nano_pow/driver.hpp, line 40): a   *)
(* memory_set that returned false left memory in the slab.                 *)
(***************************************************************************)
ErrorIsReported == returned = "success" => slab.to = "memory"
=============================================================================
