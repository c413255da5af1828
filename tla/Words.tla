--------------------------------- MODULE Words ---------------------------------
(***************************************************************************)
(* uint64_t, with the operations that siphash and the generator of the     *)
(* workers apply to it.  A word is the set of the positions of its bits    *)
(* that are 1, so that every bit counts and no number exceeds TLC's.       *)
(***************************************************************************)
EXTENDS Integers, FiniteSets

Bits == 0 .. 63
Word == SUBSET Bits

\* x ^ y
Xor(x, y) == (x \ y) \cup (y \ x)

\* x << k, whose high bits are lost.
ShiftLeft(x, k) == {b + k : b \in x} \cap Bits

\* Mutation: the bits shifted out are lost.
ROTLShift(x, k) == ShiftLeft(x, k)

\* (x << k) | (x >> (64 - k))
ROTL(x, k) == {(b + k) % 64 : b \in x}

\* x + y modulo 2^64: a carry into bit i comes from a bit j < i of both
\* words, through bits of either.
Carries(x, y) ==
  {i \in Bits : \E j \in x \cap y : j < i /\ (j + 1) .. (i - 1) \subseteq x \cup y}
Plus(x, y) == Xor(Xor(x, y), Carries(x, y))

\* A literal, 16 bits at a time.
Literal(a, b, c, d) ==
  {i \in Bits : (<<d, c, b, a>>[(i \div 16) + 1] \div 2 ^ (i % 16)) % 2 = 1}
=============================================================================
