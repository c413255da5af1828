-------------------------------- MODULE Uint128 --------------------------------
(***************************************************************************)
(* The two-limb uint128_t used where the compiler has no 128-bit integer   *)
(* (src/include/nano_pow/uint128.hpp), and the one of the OpenCL kernels   *)
(* (src/src/opencl_program.cl, lines 20 to 57 and 246 to 270).             *)
(*                                                                         *)
(* A value is <<low, high>>, two words of HalfBits bits.  Pow computes on  *)
(* whole words: it is what the limbs have to agree with.                   *)
(***************************************************************************)
EXTENDS Pow

Modulus == 2 ^ HalfBits
Limbs   == Half \X Half

Value(x)   == x[1] + x[2] * Modulus
LimbsOf(v) == <<v % Modulus, v \div Modulus>>

\* A comparison used as a number.
Carry(b) == IF b THEN 1 ELSE 0

-----------------------------------------------------------------------------
(* Comparisons.                                                            *)

less(x, y)       == x[2] < y[2] \/ (x[2] = y[2] /\ x[1] < y[1])
less_equal(x, y) == x[2] < y[2] \/ (x[2] = y[2] /\ x[1] <= y[1])
greater(x, y)    == x[2] > y[2] \/ (x[2] = y[2] /\ x[1] > y[1])
\* greater of the kernels.
kernel_greater(x, y) ==
  \/ x[2] > y[2]
  \/ ~(x[2] > y[2]) /\ x[2] = y[2] /\ x[1] > y[1]
greater_equal(x, y) == x[2] > y[2] \/ (x[2] = y[2] /\ x[1] >= y[1])
equal(x, y)      == x[2] = y[2] /\ x[1] = y[1]
as_bool(x)       == ~equal(x, <<0, 0>>)

-----------------------------------------------------------------------------
(* Addition and subtraction.                                               *)

\* Mutation: no carry when the low limbs add up to exactly the modulus.
addLoosely(x, y) ==
  LET low == (x[1] + y[1]) % Modulus
  IN  <<low, (x[2] + y[2] + Carry(low < x[1] /\ low > 0)) % Modulus>>

\* operator+=: the sum of the low limbs wrapped if it is less than one of them.
add(x, y) ==
  LET low == (x[1] + y[1]) % Modulus
  IN  <<low, (x[2] + y[2] + Carry(low < x[1])) % Modulus>>

\* sum of the kernels looks at both.
kernel_sum(x, y) ==
  LET low == (x[1] + y[1]) % Modulus
  IN  <<low, (x[2] + y[2] + Carry(low < x[1] \/ low < y[1])) % Modulus>>

\* operator-=
subtract(x, y) ==
  LET low == (x[1] - y[1]) % Modulus
  IN  <<low, (x[2] - y[2] - Carry(low > x[1])) % Modulus>>

\* operator& and operator~
both(x, y)    == <<And(HalfBits, x[1], y[1]), And(HalfBits, x[2], y[2])>>
complement(x) == <<Modulus - 1 - x[1], Modulus - 1 - x[2]>>

-----------------------------------------------------------------------------
(* Shifts.                                                                 *)

Or(x, y) == x + y - And(HalfBits, x, y)

Left(limb, n)  == (limb * 2 ^ n) % Modulus
Right(limb, n) == limb \div 2 ^ n

\* A shift by all the bits of a limb is undefined: it gives 0, or the limb
\* itself where the processor takes the count modulo the width.
SpilledUp(limb, n)   == IF n = 0 THEN {0, limb} ELSE {Right(limb, HalfBits - n)}
SpilledDown(limb, n) == IF n = 0 THEN {0, limb} ELSE {Left(limb, HalfBits - n)}

\* The outcomes of operator<<= and operator>>=, by less than Width.
shift_left(x, n) ==
  IF n < HalfBits
  THEN {<<Left(x[1], n), Or(Left(x[2], n), s)>> : s \in SpilledUp(x[1], n)}
  ELSE {<<0, Left(x[1], n % HalfBits)>>}

shift_right(x, n) ==
  IF n < HalfBits
  THEN {<<Or(Right(x[1], n), s), Right(x[2], n)>> : s \in SpilledDown(x[2], n)}
  ELSE {<<Right(x[2], n % HalfBits), 0>>}

twice(x)  == CHOOSE r \in shift_left(x, 1) : TRUE
halved(x) == CHOOSE r \in shift_right(x, 1) : TRUE

-----------------------------------------------------------------------------
(* operator%=: the divisor is doubled beyond half of the dividend, and then *)
(* halved and subtracted until the dividend is less than it.               *)

Aligned(x, b) ==
  LET y == halved(x)
      double[d \in Limbs] == IF less_equal(d, y) THEN double[twice(d)] ELSE d
  IN  double[b]

modulo(x, b) ==
  LET reduce[p \in Limbs \X Limbs] ==
        IF ~greater_equal(p[1], b) THEN p[1]
        ELSE reduce[<<IF greater_equal(p[1], p[2]) THEN subtract(p[1], p[2]) ELSE p[1],
                      halved(p[2])>>]
  IN  reduce[<<x, Aligned(x, b)>>]

-----------------------------------------------------------------------------
(* What the algorithm computes with them.                                  *)

\* Mutation: the limbs keep their places.
limb_reverseInPlace(x) == <<reverse_64(x[1]), reverse_64(x[2])>>

\* reverse of the driver and of the kernels.
limb_reverse(x) == <<reverse_64(x[2]), reverse_64(x[1])>>

\* bit_difficulty: (1 << bits) - 1, reversed.
limb_bit_difficulty(bits) ==
  {limb_reverse(subtract(power, <<1, 0>>)) : power \in shift_left(<<1, 0>>, bits)}

\* passes_quick of the kernels, and their passes_sum.
kernel_passes_quick(sum, difficulty_inv) == both(sum, difficulty_inv) = <<0, 0>>
kernel_passes_sum(sum, threshold) == kernel_greater(limb_reverse(complement(sum)), threshold)
=============================================================================
