-------------------------------- MODULE SipHash --------------------------------
(***************************************************************************)
(* H0 and H1, the two hash functions of the proof: SipHash-2-4 with 128    *)
(* bits of output, keyed by the nonce with its top bit set or cleared      *)
(* (src/src/cpp_driver.cpp, lines 31 to 229).                              *)
(*                                                                         *)
(* A byte is a set of bit positions 0 .. 7, a nonce a pair of words, a     *)
(* 128-bit result the pair of its low and its high word; the state v of    *)
(* the hash is <<v0, v1, v2, v3>>.                                         *)
(***************************************************************************)
EXTENDS Words, Sequences

U8TO64_LE(bytes) == UNION {{8 * (i - 1) + b : b \in bytes[i]} : i \in DOMAIN bytes}

SIPROUND(v) ==
  LET s0 == Plus(v[1], v[2])       s1 == Xor(ROTL(v[2], 13), s0)
      s2 == Plus(v[3], v[4])       s3 == Xor(ROTL(v[4], 16), s2)
      t0 == Plus(ROTL(s0, 32), s3) t3 == Xor(ROTL(s3, 21), t0)
      t2 == Plus(s2, s1)           t1 == Xor(ROTL(s1, 17), t2)
  IN  <<t0, t1, ROTL(t2, 32), t3>>

cROUNDS(v) == SIPROUND(SIPROUND(v))
dROUNDS(v) == cROUNDS(cROUNDS(v))

\* v0 to v3 before the message: the constants, the key, and ee for a result
\* of 16 bytes.
KeyedState(key, outlen) ==
  << Xor(Literal(29551, 28005, 28787, 25973), key[1]),
     Xor(Xor(Literal(25711, 29281, 28260, 28525), key[2]),
         IF outlen = 16 THEN {1, 2, 3, 5, 6, 7} ELSE {}),
     Xor(Literal(27769, 26469, 28261, 29281), key[1]),
     Xor(Literal(29797, 25698, 31092, 25971), key[2]) >>

\* One word of the message.
Absorb(v, m) ==
  LET w == cROUNDS([v EXCEPT ![4] = Xor(@, m)]) IN [w EXCEPT ![1] = Xor(@, m)]

XorAll(v) == Xor(Xor(v[1], v[2]), Xor(v[3], v[4]))

\* b: the length and the bytes left over.
LastWord(in) ==
  {56 + b : b \in {b \in 0 .. 7 : (Len(in) \div 2 ^ b) % 2 = 1}}
    \cup U8TO64_LE(SubSeq(in, 8 * (Len(in) \div 8) + 1, Len(in)))

siphash(in, key, outlen) ==
  LET words == Len(in) \div 8
      absorbed[i \in 0 .. words] ==
        IF i = 0 THEN KeyedState(key, outlen)
        ELSE Absorb(absorbed[i - 1], U8TO64_LE(SubSeq(in, 8 * i - 7, 8 * i)))
      read  == Absorb(absorbed[words], LastWord(in))
      low   == dROUNDS([read EXCEPT ![3] =
                          Xor(@, IF outlen = 16 THEN {1, 2, 3, 5, 6, 7} ELSE 0 .. 7)])
      high  == dROUNDS([low EXCEPT ![2] = Xor(@, {0, 2, 3, 4, 6, 7})])
  IN  IF outlen = 8 THEN <<XorAll(low)>> ELSE <<XorAll(low), XorAll(high)>>

-----------------------------------------------------------------------------
\* The item as the bytes of a word.
BytesOf(word) == [i \in 1 .. 8 |-> {b \in 0 .. 7 : 8 * (i - 1) + b \in word}]

hash(nonce, item) == siphash(BytesOf(item), nonce, 16)

lhs_nonce(nonce) == [nonce EXCEPT ![1] = @ \cup {63}]
rhs_nonce(nonce) == [nonce EXCEPT ![1] = @ \ {63}]

H0(nonce, item) == hash(lhs_nonce(nonce), item)
H1(nonce, item) == hash(rhs_nonce(nonce), item)
=============================================================================
