---------------------------------- MODULE Pow ----------------------------------
(***************************************************************************)
(* The arithmetic of the proof of work: bit reversal, difficulties, the    *)
(* two tests of a sum, buckets and the size of a fill (src/src/            *)
(* cpp_driver.cpp, lines 231 to 329 and 576 to 581).                       *)
(*                                                                         *)
(* All the widths of the code are proportional: a left preimage has 32     *)
(* bits, a right one 48, size_t and a half of uint128_t 64, a sum 128.     *)
(* They are derived from one constant, and the code has Scale = 5.         *)
(* A hash is any word here; SipHash has what H0 and H1 compute.            *)
(***************************************************************************)
EXTENDS Integers, Sequences

CONSTANT Scale

ASSUME ScaleAssumption == Scale \in Nat \ {0}

LhsBits  == 2 ^ Scale
RhsBits  == LhsBits + LhsBits \div 2
HalfBits == 2 * LhsBits
Width    == 4 * LhsBits

\* The law of powers the widths rest on.  TLC evaluates it; the provers, which
\* know nothing of ^, take it from here.
ASSUME PowersOfTwo ==
  /\ \A n \in 0 .. Scale : 2 ^ (n + 1) = 2 * 2 ^ n
  /\ \A n \in 0 .. Width : 2 ^ (n + 1) = 2 * 2 ^ n

Lhs  == 0 .. 2 ^ LhsBits - 1
Rhs  == 0 .. 2 ^ RhsBits - 1
Half == 0 .. 2 ^ HalfBits - 1
Word == 0 .. 2 ^ Width - 1

-----------------------------------------------------------------------------
(* Words.                                                                  *)

Bit(x, i) == (x \div 2 ^ i) % 2

\* The number of n bits whose bit i is bits[i].
FromBits(n, bits) ==
  LET below[k \in 0 .. n] ==
        IF k = 0 THEN 0 ELSE below[k - 1] + bits[k - 1] * 2 ^ (k - 1)
  IN  below[n]

And(n, x, y) == FromBits(n, [i \in 0 .. n - 1 |-> Bit(x, i) * Bit(y, i)])
Not(x)       == 2 ^ Width - 1 - x
Plus(x, y)   == (x + y) % 2 ^ Width

\* static_cast<uint64_t> of a uint128_t.
Low(x) == x % 2 ^ HalfBits

-----------------------------------------------------------------------------
(* reverse and the difficulties.                                           *)

\* One line of reverse_64: neighbouring groups of s bits change places.
Swap(x, s) ==
  FromBits(HalfBits, [i \in 0 .. HalfBits - 1 |->
                        Bit(x, IF (i \div s) % 2 = 0 THEN i + s ELSE i - s)])

\* The lines of reverse_64, for groups of 1, 2, 4, ... bits.
reverse_64(x) ==
  LET after[k \in 0 .. Scale + 1] ==
        IF k = 0 THEN x ELSE Swap(after[k - 1], 2 ^ (k - 1))
  IN  after[Scale + 1]

\* Each half reversed, and the halves exchanged.
reverse(x) == reverse_64(Low(x)) * 2 ^ HalfBits + reverse_64(x \div 2 ^ HalfBits)

bit_difficulty(bits)    == reverse(2 ^ bits - 1)
bit_difficulty_64(bits) == bit_difficulty(bits + LhsBits)

\* Mutation: the upper 32 bits are left 0.
difficulty_64_shifted(d) == d * 2 ^ LhsBits

difficulty_64_to_128(d) == (2 ^ LhsBits - 1) * 2 ^ (3 * LhsBits) + d * 2 ^ LhsBits
difficulty_128_to_64(d) == Low(d \div 2 ^ LhsBits)

\* The difficulty a sum H0 + H1 reaches.
difficulty(sum) == reverse(Not(sum))

-----------------------------------------------------------------------------
(* The tests of a sum.                                                     *)

\* Mutation: the mask is one bit too wide.
difficulty_quick_wide(sum, inv) == And(Width, sum, (2 * inv + 1) % 2 ^ Width)

\* Mutation: the comparison is not strict.
passes_sum_loose(sum, d)  == difficulty(sum) >= d

passes_sum(sum, d)        == difficulty(sum) > d
difficulty_quick(sum, inv) == And(Width, sum, inv)
passes_quick(sum, inv)     == difficulty_quick(sum, inv) = 0

\* What the assertions of difficulty_quick and passes_quick ask of inv.
IsMask(inv) == And(Width, inv, (inv + 1) % 2 ^ Width) = 0

-----------------------------------------------------------------------------
(* The slab.                                                               *)

\* Sizes memory_set accepts, in entries.
Sizes == {2 ^ k : k \in 0 .. LhsBits}

bucket(size, item) == And(HalfBits, item, size - 1)

\* Where fill_impl stores a preimage whose hash is h0, and where search_impl
\* looks for a partner of a right preimage whose hash is h1.
FillBucket(size, h0)  == bucket(size, Low(h0))
\* Mutation: the right hash is not negated.
ProbeBucketPlain(size, h1) == bucket(size, Low(h1))

ProbeBucket(size, h1) == bucket(size, (2 ^ HalfBits - Low(h1)) % 2 ^ HalfBits)

\* Mutation: no limit to 32-bit preimages.
fill_count_unlimited(size, inv) ==
  IF (size * size) % 2 ^ HalfBits >= (inv + 1) % 2 ^ Width THEN size ELSE 3 * size

\* How many preimages fill stores.  size * size is computed in a size_t.
fill_count(size, inv) ==
  LET max_32   == 2 ^ LhsBits - 1
      low_fill == 3 * (IF size < max_32 \div 3 THEN size ELSE max_32 \div 3)
      critical == (size * size) % 2 ^ HalfBits >= (inv + 1) % 2 ^ Width
  IN  IF critical THEN size ELSE low_fill
=============================================================================
