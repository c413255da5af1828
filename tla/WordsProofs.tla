------------------------------ MODULE WordsProofs ------------------------------
(***************************************************************************)
(* Proofs about the words of 64 bits.  The host and the kernels hash       *)
(* alike; and the generator is linear, so that what its jumps do to the    *)
(* states of one bit, which TLC computes, they do to every state.          *)
(***************************************************************************)
EXTENDS MCWords, SequenceTheorems, FiniteSetTheorems, WellFoundedInduction, TLAPS

-----------------------------------------------------------------------------
(* The hash.                                                               *)

Byte == SUBSET (0 .. 7)

\* Bytes numbered from 1 are a sequence of bytes.
LEMMA BytesInOrder ==
  ASSUME NEW n \in Nat, NEW s \in [1 .. n -> Byte]
  PROVE  s \in Seq(Byte) /\ Len(s) = n
<1>1. Seq(Byte) = UNION {[1 .. k -> Byte] : k \in Nat}
  BY SeqDef
<1>2. [1 .. n -> Byte] \in {[1 .. k -> Byte] : k \in Nat}
  BY Zenon
<1>3. s \in Seq(Byte)
  BY <1>1, <1>2, Zenon
<1>4. Len(s) \in Nat /\ DOMAIN s = 1 .. Len(s) /\ DOMAIN s = 1 .. n
  BY <1>3, LenProperties
<1>5. QED
  BY <1>3, <1>4

\* The bytes of a word, on the host.
LEMMA BytesAre ==
  ASSUME NEW w \in Word
  PROVE  /\ BytesOf(w) \in Seq(Byte) /\ Len(BytesOf(w)) = 8
         /\ DOMAIN BytesOf(w) = 1 .. 8
         /\ \A i \in 1 .. 8 : BytesOf(w)[i] = {b \in 0 .. 7 : 8 * (i - 1) + b \in w}
<1>1. BytesOf(w) \in [1 .. 8 -> Byte]
  BY DEF BytesOf, Byte
<1>2. \A i \in 1 .. 8 : BytesOf(w)[i] = {b \in 0 .. 7 : 8 * (i - 1) + b \in w}
  BY DEF BytesOf
<1>3. 8 \in Nat
  OBVIOUS
<1>4. BytesOf(w) \in Seq(Byte) /\ Len(BytesOf(w)) = 8
  BY <1>1, <1>3, BytesInOrder
<1>5. QED
  BY <1>1, <1>2, <1>4

\* Bytes and words say the same.
LEMMA BytesMakeWord ==
  ASSUME NEW w \in Word
  PROVE  U8TO64_LE(BytesOf(w)) = w
<1>1. ASSUME NEW i \in 1 .. 8, NEW b \in BytesOf(w)[i] PROVE 8 * (i - 1) + b \in w
  BY BytesAre
<1>2. ASSUME NEW e \in w
      PROVE  \E i \in 1 .. 8 : \E b \in BytesOf(w)[i] : e = 8 * (i - 1) + b
  <2>1. e \in 0 .. 63
    BY DEF Word, Bits
  <2> DEFINE q == e \div 8
             b == e % 8
  <2>2. q \in 0 .. 7 /\ b \in 0 .. 7 /\ e = 8 * q + b
    BY <2>1
  <2> HIDE DEF q, b
  <2>3. q + 1 \in 1 .. 8 /\ e = 8 * ((q + 1) - 1) + b
    BY <2>2
  <2>4. b \in BytesOf(w)[q + 1]
    BY <2>2, <2>3, BytesAre
  <2>5. QED
    BY <2>3, <2>4
<1>3. \A e : e \in U8TO64_LE(BytesOf(w)) <=>
        \E i \in 1 .. 8 : \E b \in BytesOf(w)[i] : e = 8 * (i - 1) + b
  <2> DEFINE s == BytesOf(w)
  <2>1. DOMAIN s = 1 .. 8
    BY BytesAre
  <2> HIDE DEF s
  <2>2. U8TO64_LE(s) = UNION {{8 * (i - 1) + b : b \in s[i]} : i \in 1 .. 8}
    BY <2>1 DEF U8TO64_LE
  <2>3. QED
    BY <2>2 DEF s
<1>4. QED
  BY <1>1, <1>2, <1>3

\* What is left over after the eight bytes of an item: nothing, and their number.
LEMMA NothingLeftOver ==
  ASSUME NEW w \in Word
  PROVE  LastWord(BytesOf(w)) = {59}
<1> DEFINE s == BytesOf(w)
<1>1. s \in Seq(Byte) /\ Len(s) = 8
  BY BytesAre
<1> HIDE DEF s
<1>2. SubSeq(s, 8 * (Len(s) \div 8) + 1, Len(s)) = << >>
  BY <1>1
<1>3. DOMAIN << >> = {}
  OBVIOUS
<1>4. U8TO64_LE(<< >>) = {}
  BY <1>3 DEF U8TO64_LE
<1>5. {b \in 0 .. 7 : (Len(s) \div 2 ^ b) % 2 = 1} = {3}
  <2>1. /\ (8 \div 2 ^ 0) % 2 = 0 /\ (8 \div 2 ^ 1) % 2 = 0 /\ (8 \div 2 ^ 2) % 2 = 0
        /\ (8 \div 2 ^ 3) % 2 = 1 /\ (8 \div 2 ^ 4) % 2 = 0 /\ (8 \div 2 ^ 5) % 2 = 0
        /\ (8 \div 2 ^ 6) % 2 = 0 /\ (8 \div 2 ^ 7) % 2 = 0
    OBVIOUS
  <2>2. 0 .. 7 = {0, 1, 2, 3, 4, 5, 6, 7}
    OBVIOUS
  <2> DEFINE odd(b) == (8 \div 2 ^ b) % 2 = 1
  <2>3. /\ ~odd(0) /\ ~odd(1) /\ ~odd(2) /\ odd(3) /\ ~odd(4) /\ ~odd(5) /\ ~odd(6) /\ ~odd(7)
    BY <2>1
  <2> HIDE DEF odd
  <2>4. {b \in 0 .. 7 : odd(b)} = {3}
    BY <2>2, <2>3
  <2>5. QED
    BY <1>1, <2>4 DEF odd
<1>6. {56 + b : b \in {3}} = {59}
  OBVIOUS
<1>7. QED
  BY <1>2, <1>4, <1>5, <1>6 DEF LastWord, s

\* What the host makes of an item: it absorbs the item, and then the length.
ItemHash(key, w) ==
  LET read == Absorb(Absorb(KeyedState(key, 16), w), {59})
      low  == dROUNDS([read EXCEPT ![3] = Xor(@, {1, 2, 3, 5, 6, 7})])
      high == dROUNDS([low EXCEPT ![2] = Xor(@, {0, 2, 3, 4, 6, 7})])
  IN  <<XorAll(low), XorAll(high)>>

\* Eight bytes are absorbed as one word.
LEMMA HashOfItem ==
  ASSUME NEW w \in Word, NEW key
  PROVE  hash(key, w) = ItemHash(key, w)
<1> DEFINE s == BytesOf(w)
           word(i) == U8TO64_LE(SubSeq(s, 8 * i - 7, 8 * i))
           start == KeyedState(key, 16)
           absorbed == CHOOSE f : f = [i \in 0 .. Len(s) \div 8 |->
                         IF i = 0 THEN start ELSE Absorb(f[i - 1], word(i))]
<1>1. s \in Seq(Byte) /\ Len(s) = 8 /\ Len(s) \div 8 = 1
  <2>1. s \in Seq(Byte) /\ Len(s) = 8
    BY BytesAre
  <2> HIDE DEF s
  <2>2. QED
    BY <2>1
<1>2. word(1) = w
  <2>1. SubSeq(s, 1, 8) = s
    <3> HIDE DEF s
    <3>1. QED
      BY <1>1
  <2>2. 8 * 1 - 7 = 1 /\ 8 * 1 = 8
    OBVIOUS
  <2>3. QED
    BY <2>1, <2>2, BytesMakeWord
<1>3. absorbed[1] = Absorb(start, w)
  <2> DEFINE g == [i \in 0 .. 1 |-> IF i = 0 THEN start ELSE Absorb(start, w)]
  <2>1. g = [i \in 0 .. 1 |-> IF i = 0 THEN start ELSE Absorb(g[i - 1], word(i))]
    <3>1. ASSUME NEW i \in 0 .. 1, i # 0 PROVE Absorb(start, w) = Absorb(g[i - 1], word(i))
      BY <1>2, <3>1
    <3>2. QED
      BY <3>1
  <2>2. \E f : f = [i \in 0 .. Len(s) \div 8 |-> IF i = 0 THEN start ELSE Absorb(f[i - 1], word(i))]
    BY <1>1, <2>1
  <2>3. absorbed = [i \in 0 .. Len(s) \div 8 |->
                      IF i = 0 THEN start ELSE Absorb(absorbed[i - 1], word(i))]
    BY <2>2
  <2> HIDE DEF absorbed
  <2>4. absorbed[1] = Absorb(absorbed[0], word(1)) /\ absorbed[0] = start
    BY <1>1, <2>3
  <2>5. QED
    BY <1>2, <2>4
<1>4. LastWord(s) = {59}
  BY NothingLeftOver
<1>5. siphash(s, key, 16) =
        LET read == Absorb(absorbed[Len(s) \div 8], LastWord(s))
            low  == dROUNDS([read EXCEPT ![3] = Xor(@, {1, 2, 3, 5, 6, 7})])
            high == dROUNDS([low EXCEPT ![2] = Xor(@, {0, 2, 3, 4, 6, 7})])
        IN  <<XorAll(low), XorAll(high)>>
  BY DEF siphash
<1>6. QED
  BY <1>1, <1>3, <1>4, <1>5 DEF hash, ItemHash

\* The copy of the kernels.  Shifts that turn a word are a rotation.
LEMMA TurnsAre ==
  ASSUME NEW x \in Word, NEW k \in 1 .. 63
  PROVE  kernel_ROTL(x, k) = ROTL(x, k) /\ ROTL(x, k) \in Word
<1>1. x \subseteq 0 .. 63
  BY DEF Word, Bits
<1>2. \A b \in 0 .. 63 : (b + k) % 64 = IF b < 64 - k THEN b + k ELSE b - (64 - k)
  OBVIOUS
<1>3. ASSUME NEW e
      PROVE  e \in kernel_ROTL(x, k) <=> \E b \in x : e = (b + k) % 64
  <2>1. e \in ShiftLeft(x, k) <=> e \in 0 .. 63 /\ \E b \in x : e = b + k
    BY DEF ShiftLeft, Bits
  <2>2. e \in kernel_ROTL(x, k) <=>
          \/ e \in 0 .. 63 /\ \E b \in x : e = b + k
          \/ \E b \in x : b >= 64 - k /\ e = b - (64 - k)
    BY <2>1 DEF kernel_ROTL
  <2>3. ASSUME NEW b \in x
        PROVE  e = (b + k) % 64 <=> \/ e \in 0 .. 63 /\ e = b + k
                                    \/ b >= 64 - k /\ e = b - (64 - k)
    BY <1>1, <1>2
  <2>4. QED
    BY <2>2, <2>3
<1>4. ASSUME NEW e PROVE e \in ROTL(x, k) <=> \E b \in x : e = (b + k) % 64
  BY DEF ROTL
<1>5. \A b \in 0 .. 63 : (b + k) % 64 \in 0 .. 63
  OBVIOUS
<1>6. ROTL(x, k) \in Word
  BY <1>1, <1>5 DEF ROTL, Word, Bits
<1>7. QED
  BY <1>3, <1>4, <1>6

\* Words stay words.
LEMMA WordsAre ==
  ASSUME NEW x \in Word, NEW y \in Word
  PROVE  Xor(x, y) \in Word /\ Plus(x, y) \in Word
BY DEF Xor, Plus, Carries, Word

Vector == Word \X Word \X Word \X Word

\* Half of a round, on two of the four words.
LEMMA Mixed ==
  ASSUME NEW a \in Word, NEW b \in Word, NEW c \in 1 .. 63
  PROVE  /\ Mix(a, b, c)[1] = Plus(a, b) /\ Plus(a, b) \in Word
         /\ Mix(a, b, c)[2] = Xor(ROTL(b, c), Plus(a, b))
         /\ Xor(ROTL(b, c), Plus(a, b)) \in Word
<1>1. kernel_ROTL(b, c) = ROTL(b, c) /\ ROTL(b, c) \in Word
  BY TurnsAre
<1>2. Plus(a, b) \in Word
  BY WordsAre
<1>3. Mix(a, b, c) = <<Plus(a, b), Xor(ROTL(b, c), Plus(a, b))>>
  BY <1>1 DEF Mix
<1>4. Xor(ROTL(b, c), Plus(a, b)) \in Word
  BY <1>1, <1>2, WordsAre
<1>5. QED
  BY <1>2, <1>3, <1>4

\* A round.
LEMMA RoundsAgree ==
  ASSUME NEW v \in Vector
  PROVE  SIPROUND(v) \in Vector /\ kernel_SIPROUND(v) = SIPROUND(v)
<1>1. v[1] \in Word /\ v[2] \in Word /\ v[3] \in Word /\ v[4] \in Word
  BY DEF Vector
<1>2. 13 \in 1 .. 63 /\ 16 \in 1 .. 63 /\ 17 \in 1 .. 63 /\ 21 \in 1 .. 63 /\ 32 \in 1 .. 63
  OBVIOUS
<1>3. PICK s0 : s0 = Plus(v[1], v[2])
  OBVIOUS
<1>4. PICK s1 : s1 = Xor(ROTL(v[2], 13), s0)
  OBVIOUS
<1>5. PICK s2 : s2 = Plus(v[3], v[4])
  OBVIOUS
<1>6. PICK s3 : s3 = Xor(ROTL(v[4], 16), s2)
  OBVIOUS
<1>7. PICK t0 : t0 = Plus(ROTL(s0, 32), s3)
  OBVIOUS
<1>8. PICK t3 : t3 = Xor(ROTL(s3, 21), t0)
  OBVIOUS
<1>9. PICK t2 : t2 = Plus(s2, s1)
  OBVIOUS
<1>10. PICK t1 : t1 = Xor(ROTL(s1, 17), t2)
  OBVIOUS
<1>11. SIPROUND(v) = <<t0, t1, ROTL(t2, 32), t3>>
  BY <1>3, <1>4, <1>5, <1>6, <1>7, <1>8, <1>9, <1>10, Zenon DEF SIPROUND
<1>12. PICK p : p = Mix(v[1], v[2], 13)
  OBVIOUS
<1>13. PICK q : q = Mix(v[3], v[4], 16)
  OBVIOUS
<1>14. PICK r : r = Mix(kernel_ROTL(p[1], 32), q[2], 21)
  OBVIOUS
<1>15. PICK s : s = Mix(q[1], p[2], 17)
  OBVIOUS
<1>16. kernel_SIPROUND(v) = <<r[1], s[2], kernel_ROTL(s[1], 32), r[2]>>
  BY <1>12, <1>13, <1>14, <1>15, Zenon DEF kernel_SIPROUND
<1>17. p[1] = s0 /\ p[2] = s1 /\ s0 \in Word /\ s1 \in Word
  BY <1>1, <1>2, <1>3, <1>4, <1>12, Mixed
<1>18. q[1] = s2 /\ q[2] = s3 /\ s2 \in Word /\ s3 \in Word
  BY <1>1, <1>2, <1>5, <1>6, <1>13, Mixed
<1>19. kernel_ROTL(s0, 32) = ROTL(s0, 32) /\ ROTL(s0, 32) \in Word
  BY <1>2, <1>17, TurnsAre
<1>20. r[1] = t0 /\ r[2] = t3 /\ t0 \in Word /\ t3 \in Word
  <2>1. r = Mix(ROTL(s0, 32), s3, 21)
    BY <1>14, <1>17, <1>18, <1>19
  <2>2. /\ Mix(ROTL(s0, 32), s3, 21)[1] = Plus(ROTL(s0, 32), s3)
        /\ Plus(ROTL(s0, 32), s3) \in Word
        /\ Mix(ROTL(s0, 32), s3, 21)[2] = Xor(ROTL(s3, 21), Plus(ROTL(s0, 32), s3))
        /\ Xor(ROTL(s3, 21), Plus(ROTL(s0, 32), s3)) \in Word
    BY <1>2, <1>18, <1>19, Mixed
  <2>3. QED
    BY <1>7, <1>8, <2>1, <2>2
<1>21. s[1] = t2 /\ s[2] = t1 /\ t2 \in Word /\ t1 \in Word
  <2>1. s = Mix(s2, s1, 17)
    BY <1>15, <1>17, <1>18
  <2>2. /\ Mix(s2, s1, 17)[1] = Plus(s2, s1) /\ Plus(s2, s1) \in Word
        /\ Mix(s2, s1, 17)[2] = Xor(ROTL(s1, 17), Plus(s2, s1))
        /\ Xor(ROTL(s1, 17), Plus(s2, s1)) \in Word
    BY <1>2, <1>17, <1>18, Mixed
  <2>3. QED
    BY <1>9, <1>10, <2>1, <2>2
<1>22. kernel_ROTL(t2, 32) = ROTL(t2, 32) /\ ROTL(t2, 32) \in Word
  BY <1>2, <1>21, TurnsAre
<1>23. kernel_SIPROUND(v) = SIPROUND(v)
  BY <1>11, <1>16, <1>20, <1>21, <1>22
<1>24. SIPROUND(v) \in Vector
  BY <1>11, <1>20, <1>21, <1>22 DEF Vector
<1>25. QED
  BY <1>23, <1>24

\* Two rounds, and four.
LEMMA ManyRoundsAgree ==
  ASSUME NEW v \in Vector
  PROVE  /\ cROUNDS(v) \in Vector /\ kernel_cROUNDS(v) = cROUNDS(v)
         /\ dROUNDS(v) \in Vector /\ kernel_dROUNDS(v) = dROUNDS(v)
<1>1. \A u \in Vector : SIPROUND(u) \in Vector /\ kernel_SIPROUND(u) = SIPROUND(u)
  BY RoundsAgree
<1>2. QED
  BY <1>1 DEF cROUNDS, dROUNDS, kernel_cROUNDS, kernel_dROUNDS

LEMMA VectorIs ==
  ASSUME NEW v \in Vector
  PROVE  /\ v[1] \in Word /\ v[2] \in Word /\ v[3] \in Word /\ v[4] \in Word
         /\ \A x : /\ [v EXCEPT ![1] = x] = <<x, v[2], v[3], v[4]>>
                   /\ [v EXCEPT ![2] = x] = <<v[1], x, v[3], v[4]>>
                   /\ [v EXCEPT ![3] = x] = <<v[1], v[2], x, v[4]>>
                   /\ [v EXCEPT ![4] = x] = <<v[1], v[2], v[3], x>>
BY DEF Vector

\* A word of the message.
LEMMA WordsAbsorbed ==
  ASSUME NEW v \in Vector, NEW m \in Word
  PROVE  Absorb(v, m) \in Vector /\ Absorbed(v, m) = Absorb(v, m)
<1> DEFINE u == <<v[1], v[2], v[3], Xor(v[4], m)>>
           w == cROUNDS(u)
<1>1. u \in Vector
  <2>1. Xor(v[4], m) \in Word
    BY VectorIs, WordsAre
  <2>2. QED
    BY <2>1, VectorIs DEF Vector
<1>2. [v EXCEPT ![4] = Xor(@, m)] = u
  BY VectorIs
<1> HIDE DEF u
<1>3. w \in Vector /\ kernel_cROUNDS(u) = w
  BY <1>1, ManyRoundsAgree
<1>4. Absorb(v, m) = [w EXCEPT ![1] = Xor(@, m)]
  BY <1>2 DEF Absorb
<1>5. Absorbed(v, m) = [w EXCEPT ![1] = Xor(@, m)]
  BY <1>2, <1>3 DEF Absorbed
<1> HIDE DEF w
<1>6. [w EXCEPT ![1] = Xor(@, m)] = <<Xor(w[1], m), w[2], w[3], w[4]>>
  BY <1>3, VectorIs
<1>7. w[1] \in Word /\ w[2] \in Word /\ w[3] \in Word /\ w[4] \in Word
  BY <1>3, VectorIs
<1>8. Xor(w[1], m) \in Word
  BY <1>7, WordsAre
<1>9. QED
  BY <1>4, <1>5, <1>6, <1>7, <1>8 DEF Vector

\* An ulong in memory, and two of them.
LEMMA MemoryOfOne ==
  ASSUME NEW w \in Word
  PROVE  /\ Len(Memory(<<w>>)) = 8
         /\ kernel_U8TO64_LE(Memory(<<w>>), 1) = w
<1> DEFINE s == Memory(<<w>>)
<1>1. /\ s \in [1 .. 8 -> Byte]
      /\ \A n \in 1 .. 8 : s[n] = {b \in 0 .. 7 : 8 * ((n - 1) % 8) + b \in w}
  <2>1. 8 * Len(<<w>>) = 8 /\ <<w>>[1] = w
    OBVIOUS
  <2>2. \A n \in 1 .. 8 : ((n - 1) \div 8) + 1 = 1
    OBVIOUS
  <2>3. s = [n \in 1 .. 8 |-> {b \in 0 .. 7 : 8 * ((n - 1) % 8) + b \in <<w>>[((n - 1) \div 8) + 1]}]
    BY <2>1 DEF Memory
  <2> HIDE DEF s
  <2>4. QED
    BY <2>1, <2>2, <2>3 DEF Byte
<1> HIDE DEF s
<1>2. Len(s) = 8
  BY <1>1, 8 \in Nat, BytesInOrder
<1>3. \A i \in 0 .. 63 : /\ 1 + i \div 8 \in 1 .. 8 /\ i % 8 \in 0 .. 7
                         /\ 8 * (((1 + i \div 8) - 1) % 8) + (i % 8) = i
  <2> SUFFICES ASSUME NEW i \in 0 .. 63
               PROVE  /\ 1 + i \div 8 \in 1 .. 8 /\ i % 8 \in 0 .. 7
                      /\ 8 * (((1 + i \div 8) - 1) % 8) + (i % 8) = i
    OBVIOUS
  <2> DEFINE q == i \div 8
             r == i % 8
  <2>1. q \in 0 .. 7 /\ r \in 0 .. 7 /\ 8 * q + r = i
    OBVIOUS
  <2> HIDE DEF q, r
  <2>2. 1 + q \in 1 .. 8 /\ ((1 + q) - 1) % 8 = q
    BY <2>1
  <2>3. QED
    BY <2>1, <2>2 DEF q, r
<1>4. ASSUME NEW i \in 0 .. 63 PROVE i % 8 \in s[1 + i \div 8] <=> i \in w
  BY <1>1, <1>3
<1>5. kernel_U8TO64_LE(s, 1) = {i \in 0 .. 63 : i % 8 \in s[1 + i \div 8]}
  BY DEF kernel_U8TO64_LE, Bits
<1>6. w \subseteq 0 .. 63
  BY DEF Word, Bits
<1>7. kernel_U8TO64_LE(s, 1) = w
  BY <1>4, <1>5, <1>6
<1>8. QED
  BY <1>2, <1>7 DEF s

LEMMA MemoryOfTwo ==
  ASSUME NEW nonce \in Word \X Word
  PROVE  /\ kernel_U8TO64_LE(Memory(nonce), 1) = nonce[1]
         /\ kernel_U8TO64_LE(Memory(nonce), 9) = nonce[2]
<1> DEFINE s == Memory(nonce)
<1>1. \A n \in 1 .. 16 : s[n] = {b \in 0 .. 7 : 8 * ((n - 1) % 8) + b \in nonce[((n - 1) \div 8) + 1]}
  <2>1. 8 * Len(nonce) = 16
    <3>1. nonce = <<nonce[1], nonce[2]>>
      OBVIOUS
    <3>2. Len(<<nonce[1], nonce[2]>>) = 2
      OBVIOUS
    <3>3. Len(nonce) = 2
      BY <3>1, <3>2, Zenon
    <3>4. QED
      BY <3>3
  <2>2. QED
    BY <2>1 DEF Memory
<1> HIDE DEF s
<1>2. ASSUME NEW k \in {0, 1}, NEW i \in 0 .. 63
      PROVE  i % 8 \in s[8 * k + 1 + i \div 8] <=> i \in nonce[k + 1]
  <2> DEFINE q == i \div 8
             r == i % 8
             n == 8 * k + 1 + q
  <2>1. q \in 0 .. 7 /\ r \in 0 .. 7 /\ 8 * q + r = i
    OBVIOUS
  <2> HIDE DEF q, r
  <2>2. n \in 1 .. 16 /\ (n - 1) % 8 = q /\ ((n - 1) \div 8) + 1 = k + 1
    BY <2>1
  <2> HIDE DEF n
  <2>3. r \in s[n] <=> 8 * q + r \in nonce[k + 1]
    BY <1>1, <2>1, <2>2
  <2>4. QED
    BY <2>1, <2>3 DEF q, r, n
<1>3. nonce[1] \subseteq 0 .. 63 /\ nonce[2] \subseteq 0 .. 63
  BY DEF Word, Bits
<1>4. \A n : kernel_U8TO64_LE(s, n) = {i \in 0 .. 63 : i % 8 \in s[n + i \div 8]}
  BY DEF kernel_U8TO64_LE, Bits
<1>5. /\ \A i \in 0 .. 63 : i % 8 \in s[1 + i \div 8] <=> i \in nonce[1]
      /\ \A i \in 0 .. 63 : i % 8 \in s[9 + i \div 8] <=> i \in nonce[2]
  <2>1. 8 * 0 + 1 = 1 /\ 8 * 1 + 1 = 9 /\ 0 + 1 = 1 /\ 1 + 1 = 2
    OBVIOUS
  <2>2. \A i \in 0 .. 63 : i % 8 \in s[8 * 0 + 1 + i \div 8] <=> i \in nonce[0 + 1]
    BY <1>2
  <2>3. \A i \in 0 .. 63 : i % 8 \in s[8 * 1 + 1 + i \div 8] <=> i \in nonce[1 + 1]
    BY <1>2
  <2>4. QED
    BY <2>1, <2>2, <2>3
<1>6. kernel_U8TO64_LE(s, 1) = nonce[1] /\ kernel_U8TO64_LE(s, 9) = nonce[2]
  BY <1>3, <1>4, <1>5
<1>7. QED
  BY <1>6 DEF s

\* The kernels too have nothing left over but the length.
LEMMA NothingLeft ==
  ASSUME NEW s, Len(s) = 8
  PROVE  Left(s) = {59}
<1>1. \A i \in 0 .. 63 : ~(i \div 8 < 8 % 8)
  OBVIOUS
<1> DEFINE odd(n) == (8 \div 2 ^ n) % 2 = 1
<1>2. /\ ~odd(0) /\ ~odd(1) /\ ~odd(2) /\ odd(3) /\ ~odd(4) /\ ~odd(5) /\ ~odd(6) /\ ~odd(7)
  <2>1. /\ (8 \div 2 ^ 0) % 2 = 0 /\ (8 \div 2 ^ 1) % 2 = 0 /\ (8 \div 2 ^ 2) % 2 = 0
        /\ (8 \div 2 ^ 3) % 2 = 1 /\ (8 \div 2 ^ 4) % 2 = 0 /\ (8 \div 2 ^ 5) % 2 = 0
        /\ (8 \div 2 ^ 6) % 2 = 0 /\ (8 \div 2 ^ 7) % 2 = 0
    OBVIOUS
  <2>2. QED
    BY <2>1
<1>3. Left(s) = {i \in 0 .. 63 : IF i >= 56 THEN odd(i - 56)
                                 ELSE i \div 8 < 8 % 8
                                        /\ i % 8 \in s[(8 - (8 % 8)) + 1 + i \div 8]}
  BY DEF Left, Bits
<1> HIDE DEF odd
<1>4. Left(s) = {i \in 0 .. 63 : i >= 56 /\ odd(i - 56)}
  BY <1>1, <1>3
<1>5. \A i \in 0 .. 63 : i >= 56 =>
        \/ (i = 56 /\ i - 56 = 0) \/ (i = 57 /\ i - 56 = 1)
        \/ (i = 58 /\ i - 56 = 2) \/ (i = 59 /\ i - 56 = 3)
        \/ (i = 60 /\ i - 56 = 4) \/ (i = 61 /\ i - 56 = 5)
        \/ (i = 62 /\ i - 56 = 6) \/ (i = 63 /\ i - 56 = 7)
  OBVIOUS
<1>6. \A i \in 0 .. 63 : (i >= 56 /\ odd(i - 56)) <=> i = 59
  <2>1. 59 - 56 = 3
    OBVIOUS
  <2>2. QED
    BY <1>2, <1>5, <2>1
<1>7. QED
  BY <1>4, <1>6

\* Constants and key.
LEMMA KeysAgree ==
  ASSUME NEW nonce \in Word \X Word
  PROVE  /\ KeyedState(nonce, 16) \in Vector
         /\ Keyed(Memory(nonce), 16) = KeyedState(nonce, 16)
<1>1. \A a, b, c, d : Literal(a, b, c, d) \in Word
  BY DEF Literal, Word
<1>2. nonce[1] \in Word /\ nonce[2] \in Word /\ {1, 2, 3, 5, 6, 7} \in Word
  BY DEF Word, Bits
<1> DEFINE c1 == Literal(29551, 28005, 28787, 25973)
           c2 == Literal(25711, 29281, 28260, 28525)
           c3 == Literal(27769, 26469, 28261, 29281)
           c4 == Literal(29797, 25698, 31092, 25971)
           v == << Xor(c1, nonce[1]), Xor(Xor(c2, nonce[2]), {1, 2, 3, 5, 6, 7}),
                   Xor(c3, nonce[1]), Xor(c4, nonce[2]) >>
<1>3. KeyedState(nonce, 16) = v
  BY DEF KeyedState
<1>4. Keyed(Memory(nonce), 16) = v
  BY MemoryOfTwo DEF Keyed
<1>5. c1 \in Word /\ c2 \in Word /\ c3 \in Word /\ c4 \in Word
  BY <1>1
<1> HIDE DEF c1, c2, c3, c4
<1>6. /\ Xor(c1, nonce[1]) \in Word /\ Xor(c2, nonce[2]) \in Word
      /\ Xor(c3, nonce[1]) \in Word /\ Xor(c4, nonce[2]) \in Word
  BY <1>2, <1>5, WordsAre
<1>7. Xor(Xor(c2, nonce[2]), {1, 2, 3, 5, 6, 7}) \in Word
  BY <1>2, <1>6, WordsAre
<1>8. v \in Vector
  BY <1>6, <1>7 DEF Vector
<1>9. QED
  BY <1>3, <1>4, <1>8

\* Sums of four words, in either order.
LEMMA SumsOfFour ==
  ASSUME NEW a, NEW b, NEW c, NEW d
  PROVE  Xor(Xor(Xor(a, b), c), d) = Xor(Xor(a, b), Xor(c, d))
BY Zenon DEF Xor

\* The loop of the kernels runs once over an item.
LEMMA ItemAbsorbed ==
  ASSUME NEW nonce \in Word \X Word, NEW w \in Word
  PROVE  kernel_hash(nonce, w) = ItemHash(nonce, w)
<1> DEFINE s == Memory(<<w>>)
           k == Memory(nonce)
           word(i) == kernel_U8TO64_LE(s, 8 * i - 7)
           start == KeyedState(nonce, 16)
           loop == CHOOSE f : f = [i \in 0 .. Len(s) \div 8 |->
                     IF i = 0 THEN Keyed(k, 16) ELSE Absorbed(f[i - 1], word(i))]
           read == Absorb(Absorb(start, w), {59})
<1>1. Len(s) = 8 /\ Len(s) \div 8 = 1
  <2>1. Len(s) = 8
    BY MemoryOfOne
  <2> HIDE DEF s
  <2>2. QED
    BY <2>1
<1>2. word(1) = w
  <2>1. 8 * 1 - 7 = 1
    OBVIOUS
  <2>2. QED
    BY <2>1, MemoryOfOne
<1>3. start \in Vector /\ Keyed(k, 16) = start
  BY KeysAgree
<1>4. loop[1] = Absorbed(start, w)
  <2> HIDE DEF s, k, word, start
  <2> DEFINE g == [i \in 0 .. 1 |-> IF i = 0 THEN start ELSE Absorbed(start, w)]
  <2>1. g = [i \in 0 .. 1 |-> IF i = 0 THEN start ELSE Absorbed(g[i - 1], word(i))]
    <3>1. ASSUME NEW i \in 0 .. 1, i # 0 PROVE Absorbed(start, w) = Absorbed(g[i - 1], word(i))
      BY <1>2, <3>1
    <3>2. QED
      BY <3>1
  <2>2. \E f : f = [i \in 0 .. Len(s) \div 8 |->
                      IF i = 0 THEN Keyed(k, 16) ELSE Absorbed(f[i - 1], word(i))]
    BY <1>1, <1>3, <2>1
  <2>3. loop = [i \in 0 .. Len(s) \div 8 |->
                  IF i = 0 THEN Keyed(k, 16) ELSE Absorbed(loop[i - 1], word(i))]
    BY <2>2
  <2> HIDE DEF loop
  <2>4. loop[1] = Absorbed(loop[0], word(1)) /\ loop[0] = start
    BY <1>1, <1>3, <2>3
  <2>5. QED
    BY <1>2, <2>4
<1>5. read \in Vector /\ Absorbed(loop[1], Left(s)) = read
  <2>1. {59} \in Word
    BY DEF Word, Bits
  <2>2. Left(s) = {59}
    BY <1>1, NothingLeft
  <2> HIDE DEF start, loop, s
  <2>3. Absorb(start, w) \in Vector /\ Absorbed(start, w) = Absorb(start, w)
    BY <1>3, WordsAbsorbed
  <2>4. /\ Absorb(Absorb(start, w), {59}) \in Vector
        /\ Absorbed(Absorb(start, w), {59}) = Absorb(Absorb(start, w), {59})
    BY <2>1, <2>3, WordsAbsorbed
  <2>5. QED
    BY <1>4, <2>2, <2>3, <2>4
<1> DEFINE v == Absorbed(loop[Len(s) \div 8], Left(s))
           turned == [v EXCEPT ![3] = Xor(@, {1, 2, 3, 5, 6, 7})]
           first == kernel_dROUNDS(turned)
           again == [first EXCEPT ![2] = Xor(@, {0, 2, 3, 4, 6, 7})]
           second == kernel_dROUNDS(again)
<1>6. kernel_hash(nonce, w) = <<Folded(first), Folded(second)>>
  BY DEF kernel_hash, kernel_siphash
<1>7. v = read /\ v \in Vector
  <2> HIDE DEF loop, s, read
  <2>1. QED
    BY <1>1, <1>5
<1> HIDE DEF v
<1> DEFINE low  == dROUNDS([read EXCEPT ![3] = Xor(@, {1, 2, 3, 5, 6, 7})])
           high == dROUNDS([low EXCEPT ![2] = Xor(@, {0, 2, 3, 4, 6, 7})])
<1>8. ItemHash(nonce, w) = <<XorAll(low), XorAll(high)>>
  BY DEF ItemHash
<1> HIDE DEF read
<1>9. {1, 2, 3, 5, 6, 7} \in Word /\ {0, 2, 3, 4, 6, 7} \in Word
  BY DEF Word, Bits
<1>10. turned \in Vector
  <2>1. v[1] \in Word /\ v[2] \in Word /\ v[3] \in Word /\ v[4] \in Word
    BY <1>7, VectorIs
  <2>2. Xor(v[3], {1, 2, 3, 5, 6, 7}) \in Word
    BY <1>9, <2>1, WordsAre
  <2>3. turned = <<v[1], v[2], Xor(v[3], {1, 2, 3, 5, 6, 7}), v[4]>>
    BY <1>7, VectorIs
  <2>4. QED
    BY <2>1, <2>2, <2>3 DEF Vector
<1>11. first = dROUNDS(turned) /\ first \in Vector
  BY <1>10, ManyRoundsAgree
<1>12. first = low
  BY <1>7, <1>11
<1> HIDE DEF turned
<1> HIDE DEF first, low
<1>13. again \in Vector
  <2>1. first[1] \in Word /\ first[2] \in Word /\ first[3] \in Word /\ first[4] \in Word
    BY <1>11, VectorIs
  <2>2. Xor(first[2], {0, 2, 3, 4, 6, 7}) \in Word
    BY <1>9, <2>1, WordsAre
  <2>3. again = <<first[1], Xor(first[2], {0, 2, 3, 4, 6, 7}), first[3], first[4]>>
    BY <1>11, VectorIs
  <2>4. QED
    BY <2>1, <2>2, <2>3 DEF Vector
<1>14. second = dROUNDS(again)
  BY <1>13, ManyRoundsAgree
<1>15. second = high
  BY <1>12, <1>14
<1> HIDE DEF again
<1>16. \A u : Folded(u) = XorAll(u)
  BY SumsOfFour DEF Folded, XorAll
<1> HIDE DEF second, high
<1>17. QED
  BY <1>6, <1>8, <1>12, <1>15, <1>16

(***************************************************************************)
(* The kernels hash as the host does: their H0 and H1 give the values of   *)
(* those of the host for every item under every nonce.  So the sums that   *)
(* the two compare with a difficulty are the same.                         *)
(***************************************************************************)
THEOREM KernelsHashAsTheHost ==
  \A nonce \in Word \X Word, item \in Word :
    /\ kernel_H0(nonce, item) = H0(nonce, item)
    /\ kernel_H1(nonce, item) = H1(nonce, item)
<1> SUFFICES ASSUME NEW nonce \in Word \X Word, NEW item \in Word
             PROVE  /\ kernel_H0(nonce, item) = H0(nonce, item)
                    /\ kernel_H1(nonce, item) = H1(nonce, item)
  OBVIOUS
<1>1. nonce = <<nonce[1], nonce[2]>> /\ nonce[1] \in Word /\ nonce[2] \in Word
  OBVIOUS
<1>2. lhs_nonce(nonce) = kernel_lhs_nonce(nonce) /\ kernel_lhs_nonce(nonce) \in Word \X Word
  <2>1. nonce[1] \cup {63} \in Word
    BY <1>1 DEF Word, Bits
  <2>2. QED
    BY <1>1, <2>1 DEF lhs_nonce, kernel_lhs_nonce
<1>3. rhs_nonce(nonce) = kernel_rhs_nonce(nonce) /\ kernel_rhs_nonce(nonce) \in Word \X Word
  <2>1. nonce[1] \ {63} = nonce[1] \cap 0 .. 62
    <3>1. \A b \in 0 .. 63 : b # 63 <=> b \in 0 .. 62
      OBVIOUS
    <3>2. QED
      BY <1>1, <3>1 DEF Word, Bits
  <2>2. nonce[1] \cap 0 .. 62 \in Word
    BY <1>1 DEF Word
  <2>3. QED
    BY <1>1, <2>1, <2>2 DEF rhs_nonce, kernel_rhs_nonce
<1>4. \A k \in Word \X Word : kernel_hash(k, item) = hash(k, item)
  BY ItemAbsorbed, HashOfItem
<1>5. QED
  BY <1>2, <1>3, <1>4 DEF H0, H1, kernel_H0, kernel_H1

-----------------------------------------------------------------------------
(* Induction, over a set of numbers.                                       *)

\* A set that holds 0 and, with each number below n, the next one holds 0 .. n.
LEMMA CountingUp ==
  ASSUME NEW n \in Nat, NEW S, 0 \in S, \A k \in 0 .. n - 1 : k \in S => k + 1 \in S
  PROVE  0 .. n \subseteq S
<1> DEFINE Missing == (0 .. n) \ S
           R == {ss \in Nat \X Nat : ss[1] < ss[2]}
<1> SUFFICES ASSUME Missing # {} PROVE FALSE
  OBVIOUS
<1>1. PICK m \in Missing : \A k \in Missing : ~(<<k, m>> \in R)
  <2>1. IsWellFoundedOn(R, Nat)
    BY NatLessThanWellFounded DEF OpToRel
  <2>2. Missing \subseteq Nat
    OBVIOUS
  <2> HIDE DEF Missing, R
  <2>3. QED
    BY <2>1, <2>2, WFMin
<1>2. m \in 1 .. n
  OBVIOUS
<1>3. m - 1 \in 0 .. n - 1 /\ <<m - 1, m>> \in R
  BY <1>2
<1>4. m - 1 \notin Missing
  BY <1>1, <1>3
<1>5. QED
  BY <1>3, <1>4

-----------------------------------------------------------------------------
(* Words and states, as sums of their bits.                                *)

LEMMA XorIs ==
  ASSUME NEW x, NEW y, NEW b
  PROVE  b \in Xor(x, y) <=> (b \in x /\ b \notin y) \/ (b \notin x /\ b \in y)
BY DEF Xor

\* Sums of words, in any order.
LEMMA XorSorts ==
  ASSUME NEW a, NEW b, NEW c, NEW d
  PROVE  /\ Xor(Xor(a, b), Xor(c, d)) = Xor(Xor(a, c), Xor(b, d))
         /\ Xor(Xor(a, b), c) = Xor(Xor(a, c), b)
         /\ Xor(a, a) = {}
         /\ Xor({}, a) = a
BY Zenon DEF Xor

LEMMA XorWord ==
  ASSUME NEW x \in Word, NEW y \in Word
  PROVE  Xor(x, y) \in Word
BY DEF Xor, Word

\* Shifts move each bit to a place of its own, or lose it.
LEMMA ShiftsAdd ==
  ASSUME NEW x \in Word, NEW y \in Word, NEW k \in 0 .. 63
  PROVE  /\ ROTL(x, k) \in Word /\ ShiftLeft(x, k) \in Word
         /\ ROTL(Xor(x, y), k) = Xor(ROTL(x, k), ROTL(y, k))
         /\ ShiftLeft(Xor(x, y), k) = Xor(ShiftLeft(x, k), ShiftLeft(y, k))
<1>1. \A b \in Bits : (b + k) % 64 \in Bits
  BY DEF Bits
<1>2. \A b, c \in Bits : (b + k) % 64 = (c + k) % 64 => b = c
  BY DEF Bits
<1>3. \A b, c \in Bits : b + k = c + k => b = c
  BY DEF Bits
<1>4. ROTL(x, k) \in Word /\ ShiftLeft(x, k) \in Word
  BY <1>1 DEF ROTL, ShiftLeft, Word
<1>5. ASSUME NEW e PROVE e \in ROTL(Xor(x, y), k) <=> e \in Xor(ROTL(x, k), ROTL(y, k))
  <2> DEFINE turn(b) == (b + k) % 64
  <2>1. /\ e \in ROTL(x, k) <=> \E b \in x : e = turn(b)
        /\ e \in ROTL(y, k) <=> \E b \in y : e = turn(b)
        /\ e \in ROTL(Xor(x, y), k) <=> \E b \in Xor(x, y) : e = turn(b)
    BY DEF ROTL
  <2>2. \A b, c \in Bits : turn(b) = turn(c) => b = c
    BY <1>2
  <2> HIDE DEF turn
  <2>3. x \subseteq Bits /\ y \subseteq Bits
    BY DEF Word
  <2>4. QED
    BY <2>1, <2>2, <2>3, XorIs
<1>6. ASSUME NEW e
      PROVE  e \in ShiftLeft(Xor(x, y), k) <=> e \in Xor(ShiftLeft(x, k), ShiftLeft(y, k))
  <2> DEFINE moved(b) == b + k
  <2>1. /\ e \in ShiftLeft(x, k) <=> e \in Bits /\ \E b \in x : e = moved(b)
        /\ e \in ShiftLeft(y, k) <=> e \in Bits /\ \E b \in y : e = moved(b)
        /\ e \in ShiftLeft(Xor(x, y), k) <=> e \in Bits /\ \E b \in Xor(x, y) : e = moved(b)
    BY DEF ShiftLeft
  <2>2. \A b, c \in Bits : moved(b) = moved(c) => b = c
    BY <1>3
  <2> HIDE DEF moved
  <2>3. x \subseteq Bits /\ y \subseteq Bits
    BY DEF Word
  <2>4. QED
    BY <2>1, <2>2, <2>3, XorIs
<1>7. QED
  BY <1>4, <1>5, <1>6, Zenon

LEMMA AddedIs ==
  ASSUME NEW s \in State, NEW t \in State
  PROVE  Added(s, t) \in State
BY XorWord DEF Added, State

\* next is linear.
LEMMA NextAdds ==
  ASSUME NEW s \in State, NEW t \in State
  PROVE  /\ next(s) \in State
         /\ next(Added(s, t)) = Added(next(s), next(t))
<1>1. s[1] \in Word /\ s[2] \in Word /\ t[1] \in Word /\ t[2] \in Word
  BY DEF State
<1> DEFINE mixed(r) == Xor(r[1], r[2])
           low(r) == Xor(Xor(ROTL(r[1], 24), mixed(r)), ShiftLeft(mixed(r), 16))
           sum == Added(s, t)
<1>2. \A r : next(r) = <<low(r), ROTL(mixed(r), 37)>>
  BY DEF next
<1>3. sum[1] = Xor(s[1], t[1]) /\ sum[2] = Xor(s[2], t[2])
  BY DEF Added
<1>4. mixed(s) \in Word /\ mixed(t) \in Word
  BY <1>1, XorWord
<1>5. mixed(sum) = Xor(mixed(s), mixed(t))
  BY <1>3, XorSorts
<1> HIDE DEF mixed, sum
<1>6. 16 \in 0 .. 63 /\ 24 \in 0 .. 63 /\ 37 \in 0 .. 63
  OBVIOUS
<1>7. /\ ROTL(sum[1], 24) = Xor(ROTL(s[1], 24), ROTL(t[1], 24))
      /\ ROTL(mixed(sum), 37) = Xor(ROTL(mixed(s), 37), ROTL(mixed(t), 37))
      /\ ShiftLeft(mixed(sum), 16) = Xor(ShiftLeft(mixed(s), 16), ShiftLeft(mixed(t), 16))
  <2>1. ROTL(Xor(s[1], t[1]), 24) = Xor(ROTL(s[1], 24), ROTL(t[1], 24))
    BY <1>1, <1>6, ShiftsAdd
  <2>2. ROTL(Xor(mixed(s), mixed(t)), 37) = Xor(ROTL(mixed(s), 37), ROTL(mixed(t), 37))
    BY <1>4, <1>6, ShiftsAdd
  <2>3. ShiftLeft(Xor(mixed(s), mixed(t)), 16)
          = Xor(ShiftLeft(mixed(s), 16), ShiftLeft(mixed(t), 16))
    BY <1>4, <1>6, ShiftsAdd
  <2>4. QED
    BY <1>3, <1>5, <2>1, <2>2, <2>3
<1>8. low(sum) = Xor(low(s), low(t))
  BY <1>5, <1>7, XorSorts
<1>9. low(s) \in Word /\ ROTL(mixed(s), 37) \in Word
  <2>1. ROTL(s[1], 24) \in Word
    BY <1>1, <1>6, ShiftsAdd
  <2>2. ShiftLeft(mixed(s), 16) \in Word
    BY <1>4, <1>6, ShiftsAdd
  <2>3. ROTL(mixed(s), 37) \in Word
    BY <1>4, <1>6, ShiftsAdd
  <2>4. Xor(ROTL(s[1], 24), mixed(s)) \in Word
    BY <1>4, <2>1, XorWord
  <2>5. QED
    BY <2>2, <2>3, <2>4, XorWord
<1>10. next(s) \in State
  BY <1>2, <1>9 DEF State
<1>11. next(sum) = Added(next(s), next(t))
  <2>1. next(sum) = <<Xor(low(s), low(t)), Xor(ROTL(mixed(s), 37), ROTL(mixed(t), 37))>>
    BY <1>2, <1>7, <1>8
  <2> HIDE DEF low
  <2>2. QED
    BY <1>2, <2>1 DEF Added
<1>12. QED
  BY <1>10, <1>11 DEF sum

\* The state whose ones are in some places.
StateOf(places) == <<places \cap Bits, {b \in Bits : 64 + b \in places}>>

LEMMA PlacesIs ==
  ASSUME NEW s \in State
  PROVE  PlacesOf(s) \subseteq Places /\ StateOf(PlacesOf(s)) = s
<1>1. s[1] \subseteq 0 .. 63 /\ s[2] \subseteq 0 .. 63 /\ s = <<s[1], s[2]>>
  BY DEF State, Word, Bits
<1>2. \A e : e \in PlacesOf(s) <=> e \in s[1] \/ \E b \in s[2] : e = 64 + b
  BY DEF PlacesOf, TwoWords
<1>3. PlacesOf(s) \subseteq Places
  BY <1>1, <1>2 DEF Places
<1>4. PlacesOf(s) \cap 0 .. 63 = s[1]
  BY <1>1, <1>2
<1>5. {b \in 0 .. 63 : 64 + b \in PlacesOf(s)} = s[2]
  BY <1>1, <1>2
<1>6. QED
  BY <1>1, <1>3, <1>4, <1>5 DEF StateOf, Bits

LEMMA StateIs ==
  ASSUME NEW A \in SUBSET Places
  PROVE  StateOf(A) \in State /\ PlacesOf(StateOf(A)) = A
<1> DEFINE low == A \cap 0 .. 63
           high == {b \in 0 .. 63 : 64 + b \in A}
<1>1. StateOf(A) = <<low, high>> /\ StateOf(A) \in State
  BY DEF StateOf, State, Word, Bits
<1>2. \A e : e \in A <=> e \in low \/ \E b \in high : e = 64 + b
  <2> SUFFICES ASSUME NEW e, e \in A, e \notin 0 .. 63 PROVE \E b \in high : e = 64 + b
    OBVIOUS
  <2>1. e \in 0 .. 127
    BY DEF Places
  <2>2. e - 64 \in high /\ e = 64 + (e - 64)
    BY <2>1
  <2>3. QED
    BY <2>2
<1> HIDE DEF low, high
<1>3. PlacesOf(<<low, high>>) = low \cup {64 + b : b \in high}
  BY DEF PlacesOf, TwoWords
<1>4. QED
  BY <1>1, <1>2, <1>3

\* The places of a sum, and of a state of one bit.
LEMMA PlacesAdd ==
  ASSUME NEW s \in State, NEW t \in State
  PROVE  PlacesOf(Added(s, t)) = Xor(PlacesOf(s), PlacesOf(t))
<1>1. /\ s[1] \subseteq 0 .. 63 /\ s[2] \subseteq 0 .. 63
      /\ t[1] \subseteq 0 .. 63 /\ t[2] \subseteq 0 .. 63
  BY DEF State, Word, Bits
<1>2. \A r, e : e \in PlacesOf(r) <=> e \in r[1] \/ \E b \in r[2] : e = 64 + b
  BY DEF PlacesOf, TwoWords
<1>3. Added(s, t)[1] = Xor(s[1], t[1]) /\ Added(s, t)[2] = Xor(s[2], t[2])
  BY DEF Added
<1>4. \A b, c \in 0 .. 63 : 64 + b # c /\ (64 + b = 64 + c => b = c)
  OBVIOUS
<1>5. ASSUME NEW e
      PROVE  e \in PlacesOf(Added(s, t)) <=> e \in Xor(PlacesOf(s), PlacesOf(t))
  <2>1. e \in PlacesOf(Added(s, t)) <=>
          e \in Xor(s[1], t[1]) \/ \E b \in Xor(s[2], t[2]) : e = 64 + b
    BY <1>2, <1>3
  <2>2. CASE e \in 0 .. 63
    BY <1>1, <1>2, <1>4, <2>1, <2>2, XorIs
  <2>3. CASE e \notin 0 .. 63
    <3>1. \A w : w \subseteq 0 .. 63 => e \notin w
      BY <2>3
    <3>2. e \notin s[1] /\ e \notin t[1]
      BY <1>1, <2>3
    <3>3. QED
      BY <1>1, <1>2, <1>4, <2>1, <3>2, XorIs
  <2>4. QED
    BY <2>2, <2>3
<1>6. QED
  BY <1>5

LEMMA OneBitIs ==
  ASSUME NEW p \in Places
  PROVE  OneBit(p) \in State /\ PlacesOf(OneBit(p)) = {p}
<1>1. p \in 0 .. 127
  BY DEF Places
<1>2. CASE p < 64
  <2>1. OneBit(p) = <<{p}, {}>> /\ {p} \in Word /\ {} \in Word
    BY <1>1, <1>2 DEF OneBit, Word, Bits
  <2>2. QED
    BY <2>1 DEF State, PlacesOf, TwoWords
<1>3. CASE p >= 64
  <2>1. OneBit(p) = <<{}, {p - 64}>> /\ {p - 64} \in Word /\ {} \in Word
    BY <1>1, <1>3 DEF OneBit, Word, Bits
  <2>2. 64 + (p - 64) = p
    BY <1>1
  <2>3. PlacesOf(OneBit(p)) = {64 + b : b \in {p - 64}}
    BY <2>1 DEF PlacesOf, TwoWords
  <2>4. QED
    BY <2>1, <2>2, <2>3 DEF State
<1>4. QED
  BY <1>1, <1>2, <1>3

Linear(f) ==
  /\ f \in [State -> State]
  /\ \A s, t \in State : f[Added(s, t)] = Added(f[s], f[t])

\* Where f takes the states of one bit of some places, their sum has q.
Odd(f, places, q) ==
  Cardinality({p \in places : q \in PlacesOf(f[OneBit(p)])}) % 2 = 1

LEMMA OneMorePlace ==
  ASSUME NEW f, Linear(f), NEW A \in SUBSET Places, NEW n \in Places, n \notin A,
         PlacesOf(f[StateOf(A)]) = {q \in Places : Odd(f, A, q)}
  PROVE  PlacesOf(f[StateOf(A \cup {n})]) = {q \in Places : Odd(f, A \cup {n}, q)}
<1>1. StateOf(A) \in State /\ OneBit(n) \in State
  BY StateIs, OneBitIs
<1>2. StateOf(A \cup {n}) = Added(StateOf(A), OneBit(n))
  <2>1. PlacesOf(Added(StateOf(A), OneBit(n))) = Xor(A, {n})
    BY <1>1, PlacesAdd, StateIs, OneBitIs
  <2>2. Xor(A, {n}) = A \cup {n}
    BY DEF Xor
  <2>3. QED
    BY <1>1, <2>1, <2>2, AddedIs, PlacesIs
<1>3. f[StateOf(A)] \in State /\ f[OneBit(n)] \in State
  BY <1>1 DEF Linear
<1>4. PlacesOf(f[StateOf(A \cup {n})]) = Xor(PlacesOf(f[StateOf(A)]), PlacesOf(f[OneBit(n)]))
  BY <1>1, <1>2, <1>3, PlacesAdd DEF Linear
<1>5. PlacesOf(f[OneBit(n)]) \subseteq Places
  BY <1>3, PlacesIs
<1>6. ASSUME NEW q \in Places
      PROVE  Odd(f, A \cup {n}, q) <=> ~(Odd(f, A, q) <=> q \in PlacesOf(f[OneBit(n)]))
  <2> DEFINE has(p) == q \in PlacesOf(f[OneBit(p)])
             D == {p \in A : has(p)}
  <2>1. IsFiniteSet(D) /\ Cardinality(D) \in Nat
    <3>1. IsFiniteSet(Places)
      BY 0 \in Int, 127 \in Int, FS_Interval DEF Places
    <3>2. D \subseteq Places
      OBVIOUS
    <3> HIDE DEF D
    <3>3. QED
      BY <3>1, <3>2, FS_Subset, FS_CardinalityType
  <2>2. CASE has(n)
    <3>1. {p \in A \cup {n} : has(p)} = D \cup {n} /\ n \notin D
      BY <2>2
    <3> HIDE DEF D
    <3>2. Cardinality(D \cup {n}) = Cardinality(D) + 1
      BY <2>1, <3>1, FS_AddElement
    <3>3. (Cardinality(D) + 1) % 2 = 1 <=> Cardinality(D) % 2 # 1
      BY <2>1
    <3>4. QED
      BY <2>2, <3>1, <3>2, <3>3 DEF Odd, D
  <2>3. CASE ~has(n)
    <3>1. {p \in A \cup {n} : has(p)} = D
      BY <2>3
    <3>2. QED
      BY <2>3, <3>1 DEF Odd
  <2>4. QED
    BY <2>2, <2>3
<1>7. ASSUME NEW q
      PROVE  q \in PlacesOf(f[StateOf(A \cup {n})]) <=> q \in Places /\ Odd(f, A \cup {n}, q)
  <2>1. q \in PlacesOf(f[StateOf(A)]) <=> q \in Places /\ Odd(f, A, q)
    OBVIOUS
  <2> HIDE DEF Odd
  <2>2. q \in PlacesOf(f[StateOf(A \cup {n})]) <=>
          ~(q \in PlacesOf(f[StateOf(A)]) <=> q \in PlacesOf(f[OneBit(n)]))
    BY <1>4, XorIs
  <2>3. QED
    BY <1>5, <1>6, <2>1, <2>2
<1>8. QED
  BY <1>7

\* What a linear function does to the states of one bit is what it does.
LEMMA OneBitsDecide ==
  ASSUME NEW f, Linear(f), NEW A \in SUBSET Places
  PROVE  PlacesOf(f[StateOf(A)]) = {q \in Places : Odd(f, A, q)}
<1> DEFINE Known(P) == PlacesOf(f[StateOf(P)]) = {q \in Places : Odd(f, P, q)}
           S == {n \in 0 .. 128 : \A P \in SUBSET (0 .. n - 1) : Known(P)}
<1>1. 0 \in S
  <2>1. Known({})
    <3>1. StateOf({}) = Zero /\ Zero \in State
      BY DEF StateOf, Zero, State, Word
    <3>2. Added(Zero, Zero) = Zero
      BY XorSorts DEF Added, Zero
    <3>3. f[Zero] \in State /\ f[Zero] = Added(f[Zero], f[Zero])
      BY <3>1, <3>2 DEF Linear
    <3>4. PlacesOf(f[Zero]) = Xor(PlacesOf(f[Zero]), PlacesOf(f[Zero]))
      BY <3>3, PlacesAdd
    <3>5. PlacesOf(f[Zero]) = {}
      BY <3>4, XorSorts
    <3>6. \A q : ~Odd(f, {}, q)
      BY FS_EmptySet DEF Odd
    <3>7. QED
      BY <3>1, <3>5, <3>6
  <2> HIDE DEF Known
  <2>2. \A P \in SUBSET (0 .. 0 - 1) : P = {}
    OBVIOUS
  <2>3. \A P \in SUBSET (0 .. 0 - 1) : Known(P)
    BY <2>1, <2>2
  <2>4. QED
    BY <2>3
<1>2. ASSUME NEW n \in 0 .. 128 - 1, n \in S PROVE n + 1 \in S
  <2> SUFFICES ASSUME NEW P \in SUBSET (0 .. n) PROVE Known(P)
    <3> HIDE DEF Known
    <3>1. (n + 1) - 1 = n /\ n + 1 \in 0 .. 128
      OBVIOUS
    <3>2. QED
      BY <3>1
  <2> DEFINE Q == P \ {n}
  <2>1. Known(Q)
    <3> HIDE DEF Known
    <3>1. Q \in SUBSET (0 .. n - 1)
      OBVIOUS
    <3>2. QED
      BY <1>2, <3>1
  <2>2. Q \in SUBSET Places /\ n \in Places /\ n \notin Q
    BY DEF Places
  <2>3. CASE n \in P
    <3>1. P = Q \cup {n}
      BY <2>3
    <3> HIDE DEF Q
    <3>2. QED
      BY <2>1, <2>2, <3>1, OneMorePlace
  <2>4. CASE n \notin P
    <3>1. P = Q
      BY <2>4
    <3>2. QED
      BY <2>1, <3>1
  <2>5. QED
    BY <2>3, <2>4
<1> HIDE DEF Known
<1>3. 128 \in S
  <2> HIDE DEF S
  <2>1. 0 .. 128 \subseteq S
    BY <1>1, <1>2, CountingUp
  <2>2. QED
    BY <2>1
<1>4. A \in SUBSET (0 .. 128 - 1)
  BY DEF Places
<1>5. QED
  BY <1>3, <1>4 DEF Known

\* Linear functions that do the same to the states of one bit are the same.
LEMMA SameOnOneBits ==
  ASSUME NEW f, NEW g, Linear(f), Linear(g), \A p \in Places : f[OneBit(p)] = g[OneBit(p)]
  PROVE  f = g
<1>1. ASSUME NEW s \in State PROVE f[s] = g[s]
  <2> DEFINE A == PlacesOf(s)
  <2>1. A \in SUBSET Places /\ StateOf(A) = s
    BY PlacesIs
  <2> HIDE DEF A
  <2>2. \A q : Odd(f, A, q) <=> Odd(g, A, q)
    <3> SUFFICES ASSUME NEW q PROVE Odd(f, A, q) <=> Odd(g, A, q)
      OBVIOUS
    <3>1. {p \in A : q \in PlacesOf(f[OneBit(p)])} = {p \in A : q \in PlacesOf(g[OneBit(p)])}
      BY <2>1
    <3>2. QED
      BY <3>1 DEF Odd
  <2>3. PlacesOf(f[s]) = {q \in Places : Odd(f, A, q)} /\ PlacesOf(g[s]) = {q \in Places : Odd(g, A, q)}
    BY <2>1, OneBitsDecide
  <2>4. PlacesOf(f[s]) = PlacesOf(g[s]) /\ f[s] \in State /\ g[s] \in State
    <3> HIDE DEF Odd
    <3>1. QED
      BY <2>2, <2>3 DEF Linear
  <2>5. f[s] = StateOf(PlacesOf(f[s])) /\ g[s] = StateOf(PlacesOf(g[s]))
    BY <2>4, PlacesIs
  <2>6. QED
    BY <2>4, <2>5
<1>2. QED
  BY <1>1 DEF Linear

-----------------------------------------------------------------------------
(* The doubling of the calls.                                              *)

\* d[k] is 2^k calls of next, for k up to n.
Doubled(d, n) ==
  /\ d[0] = [s \in State |-> next(s)]
  /\ \A k \in 1 .. n : d[k] = [s \in State |-> d[k - 1][d[k - 1][s]]]

\* next is linear, and what is linear is so if done twice.
LEMMA OnceIsLinear == Linear([s \in State |-> next(s)])
BY NextAdds, AddedIs DEF Linear

LEMMA TwiceIsLinear ==
  ASSUME NEW f, Linear(f)
  PROVE  Linear([s \in State |-> f[f[s]]])
<1> DEFINE g == [s \in State |-> f[f[s]]]
<1>1. \A s \in State : f[s] \in State /\ g[s] = f[f[s]]
  BY DEF Linear
<1>2. g \in [State -> State]
  BY <1>1
<1> HIDE DEF g
<1>3. ASSUME NEW s \in State, NEW t \in State
      PROVE  g[Added(s, t)] = Added(g[s], g[t])
  <2>1. g[Added(s, t)] = f[Added(f[s], f[t])]
    BY <1>1, AddedIs DEF Linear
  <2>2. QED
    BY <1>1, <2>1 DEF Linear
<1>4. QED
  BY <1>2, <1>3 DEF Linear, g

\* leaps are the states that 2^exponent calls leave of those of one bit.
LeapsKept ==
  walk = "double" =>
    /\ exponent \in Nat
    /\ \E d : /\ Doubled(d, exponent)
              /\ Linear(d[exponent])
              /\ leaps = [p \in Places |-> PlacesOf(d[exponent][OneBit(p)])]

\* The places that leap to a place, from those of a state.
LEMMA SumIs ==
  ASSUME NEW f, Linear(f), leaps = [p \in Places |-> PlacesOf(f[OneBit(p)])],
         NEW s \in State
  PROVE  Sum(PlacesOf(s)) = PlacesOf(f[s])
<1> DEFINE A == PlacesOf(s)
<1>1. A \in SUBSET Places /\ StateOf(A) = s
  BY PlacesIs
<1> HIDE DEF A
<1>2. ASSUME NEW q PROVE {p \in A : q \in leaps[p]} = {p \in A : q \in PlacesOf(f[OneBit(p)])}
  BY <1>1
<1>3. Sum(A) = {q \in Places : Odd(f, A, q)}
  BY <1>2 DEF Sum, Odd
<1>4. QED
  BY <1>1, <1>3, OneBitsDecide DEF A

(***************************************************************************)
(* leaps holds, for the states of one bit, what 2 ^ exponent calls of next *)
(* do to them.                                                             *)
(***************************************************************************)
THEOREM LeapsAreCalls == Spec => []LeapsKept
<1>1. Init => LeapsKept
  <2> SUFFICES ASSUME Init, walk = "double" PROVE LeapsKept
    BY DEF LeapsKept
  <2> DEFINE once == [s \in State |-> next(s)]
             d == [k \in {0} |-> once]
  <2>1. exponent = 0 /\ d[0] = once /\ Doubled(d, exponent)
    BY DEF Init, Doubled
  <2>2. Linear(once)
    BY OnceIsLinear
  <2>3. leaps = [p \in Places |-> PlacesOf(once[OneBit(p)])]
    BY OneBitIs DEF Init
  <2> HIDE DEF d, once
  <2>4. QED
    BY <2>1, <2>2, <2>3 DEF LeapsKept
<1>2. LeapsKept /\ [Next]_vars => LeapsKept'
  <2> SUFFICES ASSUME LeapsKept, Double PROVE LeapsKept'
    BY DEF LeapsKept, Next, Lengthen, vars
  <2> DEFINE n == exponent
  <2>1. /\ walk = "double" /\ n \in Nat
        /\ exponent' = n + 1 /\ leaps' = [p \in Places |-> Sum(leaps[p])]
    BY DEF Double, LeapsKept
  <2>2. PICK d : /\ Doubled(d, n) /\ Linear(d[n])
                 /\ leaps = [p \in Places |-> PlacesOf(d[n][OneBit(p)])]
    BY <2>1 DEF LeapsKept
  <2> DEFINE twice == [s \in State |-> d[n][d[n][s]]]
             e == [k \in 0 .. n + 1 |-> IF k = n + 1 THEN twice ELSE d[k]]
  <2>3. e[n + 1] = twice /\ \A k \in 0 .. n : e[k] = d[k]
    BY <2>1
  <2> HIDE DEF e
  <2>4. Doubled(e, n + 1)
    <3>1. e[0] = [s \in State |-> next(s)]
      BY <2>1, <2>2, <2>3 DEF Doubled
    <3>2. ASSUME NEW k \in 1 .. n + 1
          PROVE  e[k] = [s \in State |-> e[k - 1][e[k - 1][s]]]
      <4>1. CASE k = n + 1
        BY <2>1, <2>3, <4>1
      <4>2. CASE k # n + 1
        <5>1. k \in 1 .. n /\ k \in 0 .. n /\ k - 1 \in 0 .. n
          BY <2>1, <4>2
        <5>2. QED
          BY <2>2, <2>3, <5>1 DEF Doubled
      <4>3. QED
        BY <4>1, <4>2
    <3>3. QED
      BY <3>1, <3>2 DEF Doubled
  <2>5. Linear(twice)
    BY <2>2, TwiceIsLinear
  <2>6. leaps' = [p \in Places |-> PlacesOf(twice[OneBit(p)])]
    <3>1. ASSUME NEW p \in Places PROVE Sum(leaps[p]) = PlacesOf(twice[OneBit(p)])
      <4>1. OneBit(p) \in State /\ d[n][OneBit(p)] \in State
        BY <2>2, OneBitIs DEF Linear
      <4>2. QED
        BY <2>2, <4>1, SumIs
    <3>2. QED
      BY <2>1, <3>1
  <2> HIDE DEF twice
  <2>7. n + 1 \in Nat /\ e[n + 1] = twice
    BY <2>1, <2>3
  <2>8. QED
    BY <2>1, <2>4, <2>5, <2>6, <2>7 DEF LeapsKept
<1>3. QED
  BY <1>1, <1>2, PTL DEF Spec

-----------------------------------------------------------------------------
(* The loops of jump and long_jump.                                        *)

\* Sums of states, in any order.
LEMMA AddedSorts ==
  ASSUME NEW a, NEW b, NEW c, NEW d
  PROVE  /\ Added(Added(a, b), Added(c, d)) = Added(Added(a, c), Added(b, d))
         /\ Added(Zero, Zero) = Zero
BY XorSorts DEF Added, Zero

\* A pass takes a state or not: either adds.
LEMMA TakenAdds ==
  ASSUME NEW P, NEW i, NEW t \in State, NEW s \in State, NEW u \in State, NEW v \in State
  PROVE  /\ Taken(P, i, t, s) \in State
         /\ Taken(P, i, Added(t, u), Added(s, v)) = Added(Taken(P, i, t, s), Taken(P, i, u, v))
<1>1. CASE i \in P
  BY <1>1, AddedIs, AddedSorts DEF Taken
<1>2. CASE i \notin P
  BY <1>2, AddedIs DEF Taken
<1>3. QED
  BY <1>1, <1>2

\* f is what the passes from the m-th on leave of a sum and a state.
ArePasses(f, P, m) ==
  f = [l \in (m .. 128) \X State \X State |->
         IF l[1] = 128 THEN l[2]
         ELSE f[<<l[1] + 1, Taken(P, l[1], l[2], l[3]), next(l[3])>>]]

\* One pass.
Passed(f, P, i, t, s) ==
  f[<<i, t, s>>] = IF i = 128 THEN t ELSE f[<<i + 1, Taken(P, i, t, s), next(s)>>]

LEMMA PassIs ==
  ASSUME NEW f, NEW P, NEW m \in 0 .. 128, ArePasses(f, P, m)
  PROVE  \A i \in m .. 128, t \in State, s \in State : Passed(f, P, i, t, s)
<1> DEFINE then(l) == <<l[1] + 1, Taken(P, l[1], l[2], l[3]), next(l[3])>>
           D == (m .. 128) \X State \X State
<1> SUFFICES ASSUME NEW i \in m .. 128, NEW t \in State, NEW s \in State
             PROVE  Passed(f, P, i, t, s)
  OBVIOUS
<1> DEFINE l == <<i, t, s>>
<1>1. f = [k \in D |-> IF k[1] = 128 THEN k[2] ELSE f[then(k)]]
  BY DEF ArePasses
<1>2. l \in D /\ l[1] = i /\ l[2] = t /\ l[3] = s
  OBVIOUS
<1>3. then(l) = <<i + 1, Taken(P, i, t, s), next(s)>>
  BY <1>2
<1> HIDE DEF D, then, l
<1>4. f[l] = IF l[1] = 128 THEN l[2] ELSE f[then(l)]
  BY <1>1, <1>2
<1>5. f[l] = IF i = 128 THEN t ELSE f[<<i + 1, Taken(P, i, t, s), next(s)>>]
  BY <1>2, <1>3, <1>4
<1>6. QED
  BY <1>5 DEF l, Passed

\* The function of the loops exists: it is made from the last pass back.
LEMMA PassesAre ==
  ASSUME NEW P
  PROVE  ArePasses(Passes(P), P, 0)
<1> DEFINE S == {n \in 0 .. 128 : \E f : ArePasses(f, P, 128 - n)}
<1>1. 0 \in S
  <2> DEFINE f == [l \in (128 .. 128) \X State \X State |-> l[2]]
  <2>1. f = [l \in (128 .. 128) \X State \X State |->
               IF l[1] = 128 THEN l[2]
               ELSE f[<<l[1] + 1, Taken(P, l[1], l[2], l[3]), next(l[3])>>]]
    OBVIOUS
  <2> HIDE DEF f
  <2>2. ArePasses(f, P, 128 - 0)
    BY <2>1 DEF ArePasses
  <2>3. QED
    BY <2>2
<1>2. ASSUME NEW n \in 0 .. 128 - 1, n \in S PROVE n + 1 \in S
  <2> DEFINE m == 128 - n
  <2>1. PICK f : ArePasses(f, P, m)
    BY <1>2
  <2>2. m \in 1 .. 128 /\ 128 - (n + 1) = m - 1
    OBVIOUS
  <2> HIDE DEF m
  <2> DEFINE g == [l \in (m - 1 .. 128) \X State \X State |->
                     IF l[1] = m - 1 THEN f[<<m, Taken(P, m - 1, l[2], l[3]), next(l[3])>>]
                     ELSE f[l]]
             D == (m .. 128) \X State \X State
  <2>3. \A i \in m .. 128, t, s \in State : g[<<i, t, s>>] = f[<<i, t, s>>]
    BY <2>2
  <2>4. \A i \in m .. 128, t \in State, s \in State : Passed(f, P, i, t, s)
    <3>1. m \in 0 .. 128
      BY <2>2
    <3>2. QED
      BY <2>1, <3>1, PassIs
  <2>5. \A i, t, s : t \in State /\ s \in State => Taken(P, i, t, s) \in State /\ next(s) \in State
    BY TakenAdds, NextAdds
  <2>6. ASSUME NEW i \in m - 1 .. 128, NEW t \in State, NEW s \in State
        PROVE  g[<<i, t, s>>] = IF i = 128 THEN t ELSE g[<<i + 1, Taken(P, i, t, s), next(s)>>]
    <3>1. Taken(P, i, t, s) \in State /\ next(s) \in State
      BY <2>5
    <3>2. CASE i = m - 1
      <4>1. g[<<i, t, s>>] = f[<<m, Taken(P, m - 1, t, s), next(s)>>]
        BY <3>2
      <4>2. m \in m .. 128 /\ i + 1 = m /\ i # 128
        BY <2>2, <3>2
      <4> HIDE DEF g
      <4>3. QED
        BY <2>3, <3>1, <3>2, <4>1, <4>2
    <3>3. CASE i # m - 1
      <4>1. i \in m .. 128 /\ (i # 128 => i + 1 \in m .. 128)
        BY <2>2, <3>3
      <4> HIDE DEF g
      <4>2. QED
        BY <2>3, <2>4, <3>1, <4>1 DEF Passed
    <3>4. QED
      BY <3>2, <3>3
  <2>7. ASSUME NEW l \in (m - 1 .. 128) \X State \X State
        PROVE  g[l] = IF l[1] = 128 THEN l[2]
                      ELSE g[<<l[1] + 1, Taken(P, l[1], l[2], l[3]), next(l[3])>>]
    <3>1. /\ l[1] \in m - 1 .. 128 /\ l[2] \in State /\ l[3] \in State
          /\ l = <<l[1], l[2], l[3]>>
      OBVIOUS
    <3> HIDE DEF g
    <3>2. QED
      BY <2>6, <3>1
  <2>8. g = [l \in (m - 1 .. 128) \X State \X State |->
               IF l[1] = 128 THEN l[2]
               ELSE g[<<l[1] + 1, Taken(P, l[1], l[2], l[3]), next(l[3])>>]]
    BY <2>7
  <2> HIDE DEF g
  <2>9. ArePasses(g, P, 128 - (n + 1))
    BY <2>2, <2>8 DEF ArePasses
  <2>10. n + 1 \in 0 .. 128
    OBVIOUS
  <2>11. QED
    BY <2>9, <2>10
<1>3. \E f : ArePasses(f, P, 0)
  <2>1. 128 \in S
    <3> HIDE DEF S
    <3>1. 0 .. 128 \subseteq S
      BY <1>1, <1>2, CountingUp
    <3>2. QED
      BY <3>1
  <2>2. \E f : ArePasses(f, P, 128 - 128)
    BY <2>1
  <2>3. 128 - 128 = 0
    OBVIOUS
  <2>4. QED
    BY <2>2, <2>3
<1>4. QED
  BY <1>3 DEF ArePasses, Passes

\* A leap is linear: all passes add what they are given.
LEMMA LeapIsLinear ==
  ASSUME NEW P
  PROVE  Linear([s \in State |-> Leap(P, s)])
<1> DEFINE f == Passes(P)
           Adds(i) == \A t, s, u, v \in State :
                        /\ f[<<i, t, s>>] \in State
                        /\ f[<<i, Added(t, u), Added(s, v)>>] = Added(f[<<i, t, s>>], f[<<i, u, v>>])
           S == {n \in 0 .. 128 : Adds(128 - n)}
<1>1. \A i \in 0 .. 128, t \in State, s \in State : Passed(f, P, i, t, s)
  <2>1. ArePasses(f, P, 0) /\ 0 \in 0 .. 128
    BY PassesAre
  <2> HIDE DEF f
  <2>2. QED
    BY <2>1, PassIs
<1> HIDE DEF f
<1>2. 0 \in S
  <2>1. Adds(128)
    <3>1. ASSUME NEW t \in State, NEW s \in State PROVE f[<<128, t, s>>] = t
      <4>1. Passed(f, P, 128, t, s)
        BY <1>1
      <4>2. QED
        BY <4>1 DEF Passed
    <3>2. ASSUME NEW t \in State, NEW s \in State, NEW u \in State, NEW v \in State
          PROVE  /\ f[<<128, t, s>>] \in State
                 /\ f[<<128, Added(t, u), Added(s, v)>>]
                      = Added(f[<<128, t, s>>], f[<<128, u, v>>])
      <4>1. Added(t, u) \in State /\ Added(s, v) \in State
        BY AddedIs
      <4>2. QED
        BY <3>1, <4>1
    <3>3. QED
      BY <3>2
  <2> HIDE DEF Adds
  <2>2. 128 - 0 = 128
    OBVIOUS
  <2>3. QED
    BY <2>1, <2>2
<1>3. ASSUME NEW n \in 0 .. 128 - 1, n \in S PROVE n + 1 \in S
  <2> DEFINE i == 128 - (n + 1)
  <2>1. i \in 0 .. 128 /\ i # 128 /\ i + 1 = 128 - n /\ n + 1 \in 0 .. 128
    OBVIOUS
  <2>2. Adds(i + 1)
    <3> HIDE DEF Adds
    <3>1. QED
      BY <1>3, <2>1
  <2> HIDE DEF i
  <2>3. ASSUME NEW t \in State, NEW s \in State, NEW u \in State, NEW v \in State
        PROVE  /\ f[<<i, t, s>>] \in State
               /\ f[<<i, Added(t, u), Added(s, v)>>] = Added(f[<<i, t, s>>], f[<<i, u, v>>])
    <3>1. /\ Taken(P, i, t, s) \in State /\ Taken(P, i, u, v) \in State
          /\ Taken(P, i, Added(t, u), Added(s, v)) = Added(Taken(P, i, t, s), Taken(P, i, u, v))
      BY TakenAdds
    <3>2. next(s) \in State /\ next(v) \in State /\ next(Added(s, v)) = Added(next(s), next(v))
      BY NextAdds
    <3>3. /\ f[<<i, t, s>>] = f[<<i + 1, Taken(P, i, t, s), next(s)>>]
          /\ f[<<i, u, v>>] = f[<<i + 1, Taken(P, i, u, v), next(v)>>]
      <4>1. Passed(f, P, i, t, s) /\ Passed(f, P, i, u, v)
        BY <1>1, <2>1
      <4>2. QED
        BY <2>1, <4>1 DEF Passed
    <3>4. f[<<i, Added(t, u), Added(s, v)>>]
            = f[<<i + 1, Taken(P, i, Added(t, u), Added(s, v)), next(Added(s, v))>>]
      <4>1. Added(t, u) \in State /\ Added(s, v) \in State
        BY AddedIs
      <4>2. Passed(f, P, i, Added(t, u), Added(s, v))
        BY <1>1, <2>1, <4>1
      <4>3. QED
        BY <2>1, <4>2 DEF Passed
    <3>5. QED
      BY <2>2, <3>1, <3>2, <3>3, <3>4
  <2>4. Adds(i)
    BY <2>3
  <2> HIDE DEF Adds
  <2>5. QED
    BY <2>1, <2>4 DEF i
<1>4. Adds(0)
  <2>1. 128 \in S
    <3> HIDE DEF S
    <3>1. 0 .. 128 \subseteq S
      BY <1>2, <1>3, CountingUp
    <3>2. QED
      BY <3>1
  <2> HIDE DEF Adds
  <2>2. 128 - 128 = 0
    OBVIOUS
  <2>3. QED
    BY <2>1, <2>2
<1>5. Zero \in State /\ Added(Zero, Zero) = Zero
  BY AddedSorts DEF Zero, State, Word
<1>6. \A s \in State : Leap(P, s) = f[<<0, Zero, s>>]
  BY DEF Leap, f
<1>7. ASSUME NEW s \in State, NEW t \in State
      PROVE  Leap(P, s) \in State /\ Leap(P, Added(s, t)) = Added(Leap(P, s), Leap(P, t))
  <2>1. Added(s, t) \in State
    BY AddedIs
  <2>2. /\ f[<<0, Zero, s>>] \in State
        /\ f[<<0, Added(Zero, Zero), Added(s, t)>>] = Added(f[<<0, Zero, s>>], f[<<0, Zero, t>>])
    BY <1>4, <1>5
  <2>3. QED
    BY <1>5, <1>6, <2>1, <2>2
<1>8. QED
  BY <1>7, AddedIs DEF Linear

(***************************************************************************)
(* If jump does to the states of one bit what 2^64 calls of next do, it    *)
(* does so to every state; and long_jump, with 2^96 calls.                 *)
(***************************************************************************)
JumpsAreCalls ==
  walk = "double" /\ JumpsAreFar =>
    \E d : /\ Doubled(d, exponent)
           /\ exponent = 64 => \A s \in State : jump(s) = d[64][s]
           /\ exponent = 96 => \A s \in State : long_jump(s) = d[96][s]

(***************************************************************************)
(* The 128 states that JumpsAreFar is about suffice: where it holds, the   *)
(* comments on jump and long_jump (xoroshiro128starstar.hpp, lines 42 and  *)
(* 66) are right of every state.                                           *)
(***************************************************************************)
THEOREM OneBitsSuffice == Spec => []JumpsAreCalls
<1>1. LeapsKept => JumpsAreCalls
  <2> SUFFICES ASSUME LeapsKept, walk = "double", JumpsAreFar
               PROVE  \E d : /\ Doubled(d, exponent)
                             /\ exponent = 64 => \A s \in State : jump(s) = d[64][s]
                             /\ exponent = 96 => \A s \in State : long_jump(s) = d[96][s]
    BY DEF JumpsAreCalls
  <2>1. PICK d : /\ Doubled(d, exponent)
                 /\ Linear(d[exponent])
                 /\ leaps = [p \in Places |-> PlacesOf(d[exponent][OneBit(p)])]
    BY DEF LeapsKept
  <2> DEFINE g == d[exponent]
             leap(P) == [s \in State |-> Leap(P, s)]
  <2>2. \A P : Linear(leap(P))
    BY LeapIsLinear
  <2>3. ASSUME NEW P, \A p \in Places : PlacesOf(Leap(P, OneBit(p))) = leaps[p]
        PROVE  \A s \in State : Leap(P, s) = g[s]
    <3>1. ASSUME NEW p \in Places PROVE leap(P)[OneBit(p)] = g[OneBit(p)]
      <4>1. OneBit(p) \in State
        BY OneBitIs
      <4>2. leap(P)[OneBit(p)] \in State /\ g[OneBit(p)] \in State
        <5> HIDE DEF leap, g
        <5>1. Linear(g)
          BY <2>1 DEF g
        <5>2. QED
          BY <2>2, <4>1, <5>1 DEF Linear
      <4>3. PlacesOf(leap(P)[OneBit(p)]) = PlacesOf(g[OneBit(p)])
        BY <2>1, <2>3, <4>1
      <4> HIDE DEF leap, g
      <4>4. QED
        BY <4>2, <4>3, PlacesIs
    <3>2. leap(P) = g
      <4> HIDE DEF leap, g
      <4>1. Linear(g)
        BY <2>1 DEF g
      <4>2. QED
        BY <2>2, <3>1, <4>1, SameOnOneBits
    <3>3. \A s \in State : leap(P)[s] = Leap(P, s)
      OBVIOUS
    <3>4. QED
      BY <3>2, <3>3
  <2>4. DOMAIN leaps = Places
    BY <2>1
  <2>5. ASSUME exponent = 64 PROVE \A s \in State : jump(s) = d[64][s]
    <3>1. \A p \in Places : PlacesOf(Leap(JUMP, OneBit(p))) = leaps[p]
      BY <2>4, <2>5 DEF JumpsAreFar, jump
    <3>2. QED
      BY <2>3, <2>5, <3>1 DEF jump
  <2>6. ASSUME exponent = 96 PROVE \A s \in State : long_jump(s) = d[96][s]
    <3>1. \A p \in Places : PlacesOf(Leap(LONG_JUMP, OneBit(p))) = leaps[p]
      BY <2>4, <2>6 DEF JumpsAreFar, long_jump
    <3>2. QED
      BY <2>3, <2>6, <3>1 DEF long_jump
  <2>7. QED
    BY <2>1, <2>5, <2>6
<1>2. QED
  BY <1>1, LeapsAreCalls, PTL
=============================================================================
