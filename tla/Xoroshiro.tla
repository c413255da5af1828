------------------------------- MODULE Xoroshiro -------------------------------
(***************************************************************************)
(* xor_shift::hash (src/include/nano_pow/xoroshiro128starstar.hpp): the    *)
(* generator from which each worker of cpp_driver draws the right halves   *)
(* it tries.  A state is <<s[0], s[1]>>.                                   *)
(***************************************************************************)
EXTENDS Words

State == Word \X Word
Zero  == <<{}, {}>>

Added(s, t) == <<Xor(s[1], t[1]), Xor(s[2], t[2])>>

\* The state next () leaves; the number it returns is left out.
next(s) ==
  LET s1 == Xor(s[1], s[2])
  IN  <<Xor(Xor(ROTL(s[1], 24), s1), ShiftLeft(s1, 16)), ROTL(s1, 37)>>

\* JUMP and LONG_JUMP, bit 64 * i + b for bit b of element i.
TwoWords(low, high) == low \cup {64 + b : b \in high}
JUMP ==
  TwoWords(Literal(57232, 660, 55541, 21669), Literal(5896, 26079, 19250, 508))
LONG_JUMP ==
  TwoWords(Literal(53929, 35622, 25182, 61051), Literal(56799, 39696, 37034, 31425))

\* Mutation: the state is added after it has moved.
TakenLate(polynomial, i, taken, s) ==
  IF i \in polynomial THEN Added(taken, next(s)) ELSE taken

Taken(polynomial, i, taken, s) ==
  IF i \in polynomial THEN Added(taken, s) ELSE taken

\* From l = <<passes made, sum of the states taken, state>>, the sum after all
\* 128 passes through the loops of jump.
Passes(polynomial) ==
  LET passes[l \in (0 .. 128) \X State \X State] ==
        IF l[1] = 128 THEN l[2]
        ELSE passes[<<l[1] + 1, Taken(polynomial, l[1], l[2], l[3]), next(l[3])>>]
  IN  passes

Leap(polynomial, s) == Passes(polynomial)[<<0, Zero, s>>]

jump(s)      == Leap(JUMP, s)
long_jump(s) == Leap(LONG_JUMP, s)

\* Mutation: the jumps all begin at the seed.
OneMoreJumpAnew(s) == jump(<<{}, {0}>>)
OneMoreJump(s)     == jump(s)

\* hash (jump_count)
hash_state[jump_count \in Nat] ==
  IF jump_count = 0 THEN <<{}, {0}>> ELSE OneMoreJump(hash_state[jump_count - 1])

\* The generator of worker thread_id.
prng(thread_id) == hash_state[thread_id + 1]
=============================================================================
