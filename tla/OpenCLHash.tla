------------------------------- MODULE OpenCLHash -------------------------------
(***************************************************************************)
(* H0 and H1 in the language of the device (src/src/opencl_program.cl,     *)
(* lines 1 to 18 and 76 to 248): a second text of SipHash-2-4, which has   *)
(* to agree with the one of the host.  Nothing here is built from SipHash. *)
(*                                                                         *)
(* Bytes, words and states are as in SipHash.                              *)
(***************************************************************************)
EXTENDS Words, Sequences

\* The macro ROTL.
kernel_ROTL(x, b) == ShiftLeft(x, b) \cup {i - (64 - b) : i \in {i \in x : i >= 64 - b}}

\* The word of the eight bytes of p from the n-th on.
kernel_U8TO64_LE(p, n) == {i \in Bits : i % 8 \in p[n + i \div 8]}

\* An ulong or several, as (uchar *) sees them.
Memory(ulongs) ==
  [n \in 1 .. 8 * Len(ulongs) |->
     {b \in 0 .. 7 : 8 * ((n - 1) % 8) + b \in ulongs[((n - 1) \div 8) + 1]}]

\* a += b, b = ROTL (b, c), b ^= a
Mix(a, b, c) == LET s == Plus(a, b) IN <<s, Xor(kernel_ROTL(b, c), s)>>

\* Mutation: v0 is turned after v3 has been added to it.
kernel_SIPROUNDLate(v) ==
  LET p == Mix(v[1], v[2], 13)
      q == Mix(v[3], v[4], 16)
      r == Mix(p[1], q[2], 21)
      s == Mix(q[1], p[2], 17)
  IN  <<kernel_ROTL(r[1], 32), s[2], kernel_ROTL(s[1], 32), r[2]>>

kernel_SIPROUND(v) ==
  LET p == Mix(v[1], v[2], 13)
      q == Mix(v[3], v[4], 16)
      r == Mix(kernel_ROTL(p[1], 32), q[2], 21)
      s == Mix(q[1], p[2], 17)
  IN  <<r[1], s[2], kernel_ROTL(s[1], 32), r[2]>>

kernel_cROUNDS(v) == kernel_SIPROUND(kernel_SIPROUND(v))
kernel_dROUNDS(v) ==
  kernel_SIPROUND(kernel_SIPROUND(kernel_SIPROUND(kernel_SIPROUND(v))))

\* v before the message; 0xee is {1, 2, 3, 5, 6, 7}.
Keyed(k, outlen) ==
  LET k0 == kernel_U8TO64_LE(k, 1)
      k1 == kernel_U8TO64_LE(k, 9)
      v1 == Xor(Literal(25711, 29281, 28260, 28525), k1)
  IN  << Xor(Literal(29551, 28005, 28787, 25973), k0),
         IF outlen = 16 THEN Xor(v1, {1, 2, 3, 5, 6, 7}) ELSE v1,
         Xor(Literal(27769, 26469, 28261, 29281), k0),
         Xor(Literal(29797, 25698, 31092, 25971), k1) >>

\* v3 ^= m, two rounds, v0 ^= m
Absorbed(v, m) == [kernel_cROUNDS([v EXCEPT ![4] = Xor(@, m)]) EXCEPT ![1] = Xor(@, m)]

\* b: the length in the top byte, and below it the bytes that are left.
Left(in) ==
  LET whole == Len(in) - (Len(in) % 8)
  IN  {i \in Bits : IF i >= 56 THEN (Len(in) \div 2 ^ (i - 56)) % 2 = 1
                    ELSE i \div 8 < Len(in) % 8 /\ i % 8 \in in[whole + 1 + i \div 8]}

Folded(v) == Xor(Xor(Xor(v[1], v[2]), v[3]), v[4])

\* The words written to out.
kernel_siphash(in, k, outlen) ==
  LET loop[i \in 0 .. Len(in) \div 8] ==
        IF i = 0 THEN Keyed(k, outlen)
        ELSE Absorbed(loop[i - 1], kernel_U8TO64_LE(in, 8 * i - 7))
      v == Absorbed(loop[Len(in) \div 8], Left(in))
      first == kernel_dROUNDS([v EXCEPT ![3] =
                 Xor(@, IF outlen = 16 THEN {1, 2, 3, 5, 6, 7} ELSE 0 .. 7)])
      second == kernel_dROUNDS([first EXCEPT ![2] = Xor(@, {0, 2, 3, 4, 6, 7})])
  IN  IF outlen = 8 THEN <<Folded(first)>> ELSE <<Folded(first), Folded(second)>>

-----------------------------------------------------------------------------
\* hash
kernel_hash(nonce, item) == kernel_siphash(Memory(<<item>>), Memory(nonce), 16)

\* |= ~LONG_MAX and &= LONG_MAX
kernel_lhs_nonce(nonce) == <<nonce[1] \cup {63}, nonce[2]>>
kernel_rhs_nonce(nonce) == <<nonce[1] \cap 0 .. 62, nonce[2]>>

kernel_H0(nonce, item) == kernel_hash(kernel_lhs_nonce(nonce), item)
kernel_H1(nonce, item) == kernel_hash(kernel_rhs_nonce(nonce), item)
=============================================================================
