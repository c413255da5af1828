--------------------------------- MODULE MCPow ---------------------------------
(***************************************************************************)
(* Pow and Uint128 for TLC: a walk over all pairs of words with sums of 8  *)
(* bits (limbs of 4 bits, left preimages of 2, slabs of 1, 2 and 4         *)
(* entries) that checks the arithmetic on each pair.  The pair is seen as  *)
(* the hashes of a left and of a right preimage, and, in limbs, as x and y.*)
(***************************************************************************)
EXTENDS Uint128

VARIABLES h0, h1   \* the hashes of a left and of a right preimage

Init == h0 = 0 /\ h1 = 0

NextLeft  == h0' = Plus(h0, 1) /\ h1' = h1
NextRight == h0 = 0 /\ h1' = Plus(h1, 1) /\ h0' = h0

Next == NextLeft \/ NextRight

Spec == Init /\ [][Next]_<<h0, h1>>

\* Tables of the operators that are evaluated again and again.
ReverseTable    == [x \in Word |-> reverse(x)]
DifficultyTable == [D \in 1 .. Width - 1 |-> bit_difficulty(D)]
PassTable       == [D \in 1 .. Width - 1 |->
                      {x \in Word : passes_sum(x, DifficultyTable[D])}]
QuickTable      == [D \in 1 .. Width - 1 |->
                      {x \in Word : passes_quick(x, ReverseTable[DifficultyTable[D]])}]

sum == Plus(h0, h1)

(***************************************************************************)
(* The quick test of search_impl, sum & difficulty_inv = 0, never drops a  *)
(* sum that passes_sum would accept, at any difficulty bit_difficulty      *)
(* makes: it is a filter in front of the exact test.  The inverses of      *)
(* those difficulties are the masks that difficulty_quick asserts them to  *)
(* be (src/src/cpp_driver.cpp, line 308), and that of a 64-bit difficulty  *)
(* is one whenever its own reverse is.                                     *)
(***************************************************************************)
QuickDropsNothing ==
  /\ \A D \in 1 .. Width - 1 :
       /\ sum \in PassTable[D] => sum \in QuickTable[D]
       /\ IsMask(ReverseTable[DifficultyTable[D]])
  /\ LET d == h1 % 2 ^ HalfBits
     IN  IsMask(reverse_64(d)) => IsMask(ReverseTable[difficulty_64_to_128(d)])

(***************************************************************************)
(* The lookup is complete: if two preimages solve the problem then, in any *)
(* slab with no more entries than 2^D, the right one looks into the very   *)
(* bucket the left one was stored in (README.md, lines 23 and 27).         *)
(***************************************************************************)
SolutionsShareABucket ==
  \A D \in 1 .. Width - 1 : sum \in PassTable[D] =>
    \A size \in Sizes : size <= 2 ^ D => FillBucket(size, h0) = ProbeBucket(size, h1)

(***************************************************************************)
(* A 64-bit difficulty survives the conversion to 128 bits and back, and a *)
(* sum that passes the converted one reaches it when its own difficulty is *)
(* converted back.                                                         *)
(***************************************************************************)
SixtyFourBitsAgree ==
  LET d == h1 % 2 ^ HalfBits
      wide == difficulty_64_to_128(d)
      reached == ReverseTable[Not(h0)]
  IN  /\ difficulty_128_to_64(wide) = d
      /\ reached > wide => difficulty_128_to_64(reached) >= d

(***************************************************************************)
(* The preimages of one fill are 32-bit numbers, never two equal ones, at  *)
(* any difficulty, and they are never fewer than the buckets by more than  *)
(* the one that the 16GB slab loses when size * size wraps to 0.           *)
(***************************************************************************)
FillCountFits ==
  \A size \in Sizes :
    LET count == fill_count(size, h1)
    IN  count <= 2 ^ LhsBits /\ count >= size - (IF size = 2 ^ LhsBits THEN 1 ELSE 0)

(***************************************************************************)
(* passes_sum is the equation of README.md, line 14, H0(x) + H1(y) = 0 mod *)
(* 2^D, but for ONE sum that satisfies it and is rejected because the      *)
(* comparison is strict: the one whose other bits are all ones.            *)
(***************************************************************************)
PassesIsTheEquation ==
  \A D \in 1 .. Width - 1 :
    sum \in PassTable[D] <=> sum % 2 ^ D = 0 /\ sum # 2 ^ Width - 2 ^ D

-----------------------------------------------------------------------------
(* The same pairs, in limbs.                                               *)

x == LimbsOf(h0)
y == LimbsOf(h1)

(***************************************************************************)
(* The limbs compute as 128-bit numbers do: + and the sum of the kernels   *)
(* carry, - borrows, the comparisons order, the shifts by 1 to 127 are     *)
(* well defined (by 0 they are not, see SpilledUp), and % ends, never      *)
(* doubles the divisor beyond 128 bits, and is the remainder.              *)
(***************************************************************************)
LimbsAreNumbers ==
  /\ Value(add(x, y)) = Plus(Value(x), Value(y))
  /\ kernel_sum(x, y) = add(x, y)
  /\ Value(subtract(x, y)) = (Value(x) - Value(y)) % 2 ^ Width
  /\ less(x, y) = (Value(x) < Value(y)) /\ less_equal(x, y) = (Value(x) <= Value(y))
  /\ greater(x, y) = (Value(x) > Value(y)) /\ kernel_greater(x, y) = greater(x, y)
  /\ equal(x, y) = (Value(x) = Value(y)) /\ as_bool(x) = (Value(x) # 0)
  /\ \A n \in 1 .. Width - 1 :
       /\ shift_left(x, n) = {LimbsOf((Value(x) * 2 ^ n) % 2 ^ Width)}
       /\ shift_right(x, n) = {LimbsOf(Value(x) \div 2 ^ n)}
  /\ as_bool(y) => Value(modulo(x, y)) = Value(x) % Value(y)

(***************************************************************************)
(* The host without 128-bit integers, the host with them and the kernels   *)
(* agree on every difficulty from 1 to 127 bits and on every sum.          *)
(***************************************************************************)
LimbsAgree ==
  \A D \in 1 .. Width - 1 :
    /\ limb_bit_difficulty(D) = {LimbsOf(DifficultyTable[D])}
    /\ x = <<0, 0>> =>
         /\ kernel_passes_sum(y, LimbsOf(DifficultyTable[D])) = (h1 \in PassTable[D])
         /\ kernel_passes_quick(y, LimbsOf(ReverseTable[DifficultyTable[D]]))
              = (h1 \in QuickTable[D])
=============================================================================
