------------------------------- MODULE PowProofs -------------------------------
(***************************************************************************)
(* What MCPow checks on sums of 8 bits, proved for every width: whatever   *)
(* the hashes of a left and of a right preimage are, the tests of their    *)
(* sum, the buckets and the conversions agree, and so do the words of two  *)
(* limbs with the whole ones.                                              *)
(***************************************************************************)
EXTENDS MCPow, PowLemmas

\* The walk never leaves the words.
TypeOK == h0 \in Word /\ h1 \in Word

\* A sum of words is a word.
LEMMA PlusIsWord ==
  ASSUME NEW a \in Word, NEW b \in Nat
  PROVE  Plus(a, b) \in Word
<1>1. 2 ^ Width \in Nat \ {0} /\ a + b \in Nat
  BY Powers, Widths DEF Word
<1>2. QED
  BY <1>1 DEF Plus, Word

\* Every step of the walk keeps to the words.
LEMMA WordsKept == Spec => []TypeOK
<1>1. Init => TypeOK
  BY Powers, Widths DEF Init, TypeOK, Word
<1>2. TypeOK /\ [Next]_<<h0, h1>> => TypeOK'
  <2> SUFFICES ASSUME TypeOK, [Next]_<<h0, h1>> PROVE TypeOK'
    OBVIOUS
  <2>1. Plus(h0, 1) \in Word /\ Plus(h1, 1) \in Word
    BY PlusIsWord DEF TypeOK
  <2>2. QED
    BY <2>1 DEF TypeOK, Next, NextLeft, NextRight
<1>3. QED
  BY <1>1, <1>2, PTL DEF Spec

\* The tables of the checker hold what their operators compute.
LEMMA Tables ==
  ASSUME TypeOK
  PROVE  /\ sum \in Word
         /\ \A v \in Word : ReverseTable[v] = reverse(v)
         /\ \A D \in 1 .. Width - 1 :
              /\ DifficultyTable[D] = bit_difficulty(D)
              /\ \A v \in Word : v \in PassTable[D] <=> passes_sum(v, bit_difficulty(D))
              /\ \A v \in Word : v \in QuickTable[D] <=> passes_quick(v, reverse(bit_difficulty(D)))
<1>1. sum \in Word
  <2>1. Word \subseteq Nat
    BY DEF Word
  <2>2. QED
    BY <2>1, PlusIsWord DEF sum, TypeOK
<1>2. \A v \in Word : ReverseTable[v] = reverse(v)
  BY DEF ReverseTable
<1>3. ASSUME NEW D \in 1 .. Width - 1
      PROVE  /\ DifficultyTable[D] = bit_difficulty(D)
             /\ \A v \in Word : v \in PassTable[D] <=> passes_sum(v, bit_difficulty(D))
             /\ \A v \in Word : v \in QuickTable[D] <=> passes_quick(v, reverse(bit_difficulty(D)))
  <2>1. DifficultyTable[D] = bit_difficulty(D) /\ bit_difficulty(D) \in Word
    BY DifficultyIs DEF DifficultyTable
  <2>2. ReverseTable[DifficultyTable[D]] = reverse(bit_difficulty(D))
    BY <1>2, <2>1
  <2>3. PassTable[D] = {v \in Word : passes_sum(v, bit_difficulty(D))}
    BY <2>1 DEF PassTable
  <2>4. QuickTable[D] = {v \in Word : passes_quick(v, reverse(bit_difficulty(D)))}
    BY <2>2 DEF QuickTable
  <2>5. QED
    BY <1>1, <2>1, <2>3, <2>4
<1>4. QED
  BY <1>1, <1>2, <1>3

-----------------------------------------------------------------------------
(***************************************************************************)
(* passes_sum is the equation of README.md, line 14, but for the one sum   *)
(* that its strict comparison rejects.                                     *)
(***************************************************************************)
THEOREM PassingIsTheEquation == Spec => []PassesIsTheEquation
<1>1. TypeOK => PassesIsTheEquation
  BY Tables, PassesIs DEF PassesIsTheEquation
<1>2. QED
  BY <1>1, WordsKept, PTL

\* A number is a mask when it and its successor have no bit in common.
LEMMA MaskIs ==
  ASSUME NEW D \in 0 .. Width - 1
  PROVE  IsMask(2 ^ D - 1)
<1>1. /\ D \in Nat /\ D <= Width /\ Width \in Nat /\ Width \in 0 .. Width
      /\ Width <= Width + 1 /\ D < Width /\ D \in 0 .. Width
  BY Widths
<1>2. 2 ^ D \in Nat \ {0} /\ 2 ^ D < 2 ^ Width /\ 2 ^ D - 1 \in Nat /\ (2 ^ D - 1) + 1 = 2 ^ D
      /\ 2 ^ Width \in Nat \ {0}
  BY <1>1, PowersGrow
<1>3. (2 ^ D) % 2 ^ Width = 2 ^ D /\ 2 ^ D = 2 ^ D * 1 + 0
  BY <1>2, Division
<1>4. And(Width, 2 ^ D, 2 ^ D - 1) = (2 ^ D) % 2 ^ D
  BY <1>1, <1>2, AndMask
<1>5. (2 ^ D) % 2 ^ D = 0
  BY <1>2
<1>6. And(Width, 2 ^ D - 1, 2 ^ D) = 0
  <2>1. And(Width, 2 ^ D, 2 ^ D - 1) = 0
          <=> \A i \in 0 .. Width - 1 : Bit(2 ^ D, i) = 0 \/ Bit(2 ^ D - 1, i) = 0
    BY <1>1, <1>2, AndIsZero
  <2>2. And(Width, 2 ^ D - 1, 2 ^ D) = 0
          <=> \A i \in 0 .. Width - 1 : Bit(2 ^ D - 1, i) = 0 \/ Bit(2 ^ D, i) = 0
    BY <1>1, <1>2, AndIsZero
  <2>3. QED
    BY <1>4, <1>5, <2>1, <2>2
<1>7. QED
  BY <1>2, <1>3, <1>6 DEF IsMask

\* The inverse of a 64-bit difficulty, converted, is ones below its own.
LEMMA WideIs ==
  ASSUME NEW d \in Half
  PROVE  /\ difficulty_64_to_128(d) \in Word
         /\ reverse(difficulty_64_to_128(d)) = reverse_64(d) * 2 ^ LhsBits + (2 ^ LhsBits - 1)
         /\ difficulty_64_to_128(d) \div 2 ^ LhsBits = (2 ^ LhsBits - 1) * 2 ^ HalfBits + d
<1> DEFINE L == LhsBits
           H == HalfBits
           ones == 2 ^ L - 1
           top == ones * 2 ^ H + d
           wide == difficulty_64_to_128(d)
           m == reverse_64(d)
           inv == m * 2 ^ L + ones
<1>1. /\ L \in Nat /\ H = 2 * L /\ Width = 4 * L /\ L > 0 /\ Width \in 0 .. Width
      /\ H \in Nat /\ Width \in Nat /\ L \in 0 .. Width /\ H \in 0 .. Width
      /\ L \in 0 .. Width + 1 /\ H \in 0 .. Width + 1 /\ Width \in 0 .. Width + 1
  BY Widths
<1>2. /\ 2 ^ L \in Nat \ {0} /\ 2 ^ H \in Nat \ {0} /\ 2 ^ (3 * L) = 2 ^ H * 2 ^ L
  <2>1. H + L = 3 * L /\ H + L <= Width + 1
    BY <1>1
  <2>2. 2 ^ (H + L) = 2 ^ H * 2 ^ L
    BY <1>1, <2>1, PowerOfSum
  <2>3. 2 ^ (3 * L) = 2 ^ (H + L)
    BY <2>1
  <2>4. QED
    BY <1>1, <2>2, <2>3, Powers
<1>3. d \in 0 .. 2 ^ H - 1 /\ ones \in 0 .. 2 ^ L - 1 /\ d \in Nat
      /\ 0 \in 0 .. 2 ^ L - 1
  BY <1>2 DEF Half
<1>4. wide = top * 2 ^ L + 0
  <2> DEFINE g == 2 ^ L
             h == 2 ^ H
  <2>1. wide = ones * (h * g) + d * g
    BY <1>2 DEF difficulty_64_to_128
  <2>2. g \in Nat /\ h \in Nat /\ ones \in Nat
    BY <1>2
  <2> HIDE DEF g, h, ones
  <2>3. (ones * h + d) * g + 0 = ones * (h * g) + d * g
    BY <1>3, <2>2
  <2>4. QED
    BY <2>1, <2>3 DEF g, h
<1>5. top \in 0 .. 2 ^ (H + L) - 1 /\ top \in Nat
  <2>1. top \in 0 .. 2 ^ (H + L) - 1
    BY <1>1, <1>3, JoinFits
  <2>2. QED
    BY <1>1, <1>2, <2>1
<1>6. m \in 0 .. 2 ^ H - 1 /\ m \in Nat
      /\ \A i \in 0 .. H - 1 : Bit(m, i) = Bit(d, H - 1 - i)
  BY <1>3, ReversesHalf DEF Half
<1> HIDE DEF wide, m, top, ones
<1>7. wide \in Word
  <2>1. L + (H + L) = Width /\ H + L \in Nat /\ L + (H + L) <= Width
    BY <1>1
  <2>2. top * 2 ^ L + 0 \in 0 .. 2 ^ (L + (H + L)) - 1
    BY <1>1, <1>3, <1>5, <2>1, JoinFits
  <2>3. QED
    BY <1>4, <2>1, <2>2 DEF Word
<1>8. inv \in Word
  <2>1. L + H <= Width
    BY <1>1
  <2>2. inv \in 0 .. 2 ^ (L + H) - 1
    BY <1>1, <1>3, <1>6, <2>1, JoinFits
  <2>3. 2 ^ (L + H) <= 2 ^ Width /\ 2 ^ (L + H) \in Nat \ {0} /\ 2 ^ Width \in Nat \ {0}
    <3>1. L + H \in Nat /\ Width \in Nat /\ Width <= Width + 1 /\ L + H <= Width
      BY <1>1
    <3>2. QED
      BY <3>1, PowersGrow
  <2> HIDE DEF inv
  <2>4. QED
    BY <2>2, <2>3 DEF Word
<1>9. reverse(wide) \in Word
      /\ \A i \in 0 .. Width - 1 : Bit(reverse(wide), i) = Bit(wide, Width - 1 - i)
  BY <1>7, ReversesWord
<1>10. ASSUME NEW i \in 0 .. Width - 1 PROVE Bit(reverse(wide), i) = Bit(inv, i)
  <2> DEFINE j == Width - 1 - i
  <2>1. i \in 0 .. Width /\ j \in 0 .. Width /\ i \in Nat /\ j \in Nat /\ ones \in Nat
    BY <1>1, <1>3
  <2> HIDE DEF j, L, H
  <2>2. Bit(inv, i) = IF i < L THEN Bit(ones, i) ELSE Bit(m, i - L)
    <3>1. L \in 0 .. Width /\ ones \in 0 .. 2 ^ L - 1 /\ m \in Nat /\ i \in 0 .. Width
      BY <1>1, <1>3, <1>6, <2>1
    <3>2. QED
      BY <3>1, BitOfJoin
  <2>3. Bit(wide, j) = IF j < L THEN Bit(0, j) ELSE Bit(top, j - L)
    <3>1. L \in 0 .. Width /\ 0 \in 0 .. 2 ^ L - 1 /\ top \in Nat /\ j \in 0 .. Width
      BY <1>1, <1>3, <1>5, <2>1
    <3>2. QED
      BY <1>4, <3>1, BitOfJoin
  <2>4. j >= L => Bit(top, j - L) = IF j - L < H THEN Bit(d, j - L) ELSE Bit(ones, j - L - H)
    <3> SUFFICES ASSUME j >= L
                 PROVE  Bit(top, j - L) =
                          IF j - L < H THEN Bit(d, j - L) ELSE Bit(ones, j - L - H)
      OBVIOUS
    <3>1. j - L \in 0 .. Width
      BY <1>1, <2>1
    <3>2. H \in 0 .. Width /\ d \in 0 .. 2 ^ H - 1 /\ ones \in Nat
      BY <1>1, <1>3, <2>1
    <3>3. Bit(ones * 2 ^ H + d, j - L) =
            IF j - L < H THEN Bit(d, j - L) ELSE Bit(ones, j - L - H)
      BY <3>1, <3>2, BitOfJoin
    <3>4. QED
      BY <3>3 DEF top
  <2>5. CASE i < L
    <3>1. ~(j < L) /\ j >= L /\ ~(j - L < H) /\ j - L - H \in 0 .. Width /\ j - L - H < L
      BY <1>1, <2>5 DEF j
    <3>2. Bit(ones, i) = 1 /\ Bit(ones, j - L - H) = 1
      <4>1. Bit(2 ^ L - 1, i) = 1 /\ Bit(2 ^ L - 1, j - L - H) = 1
        BY <1>1, <2>1, <2>5, <3>1, BitOfMask
      <4>2. QED
        BY <4>1 DEF ones
    <3>3. QED
      BY <1>9, <2>2, <2>3, <2>4, <2>5, <3>1, <3>2 DEF j
  <2>6. CASE i >= L /\ i < L + H
    <3>1. ~(j < L) /\ j >= L /\ j - L < H /\ i - L \in 0 .. H - 1 /\ j - L = H - 1 - (i - L)
          /\ ~(i < L)
      BY <1>1, <2>6 DEF j
    <3>2. Bit(m, i - L) = Bit(d, j - L)
      BY <1>6, <3>1
    <3>3. QED
      BY <1>9, <2>2, <2>3, <2>4, <3>1, <3>2 DEF j
  <2>7. CASE i >= L + H
    <3>1. j < L /\ ~(i < L) /\ i - L \in 0 .. Width /\ ~(i - L < H) /\ 0 \in 0 .. 2 ^ H - 1
          /\ i - L \in H .. Width - 1
      BY <1>1, <1>2, <2>7 DEF j
    <3>2. Bit(m, i - L) = 0
      <4>1. m % 2 ^ H = m
        BY <1>2, <1>6, Division
      <4>2. Bit(m % 2 ^ H, i - L) = 0
        <5>1. H \in 0 .. Width /\ m \in Nat /\ i - L \in 0 .. Width /\ ~(i - L < H)
          BY <1>1, <1>6, <3>1
        <5>2. QED
          BY <5>1, BitOfRemainder
      <4>3. QED
        BY <4>1, <4>2
    <3>3. Bit(0, j) = 0
      <4>1. 2 ^ j \in Nat \ {0}
        BY <2>1, Powers, Widths
      <4>2. 0 \div 2 ^ j = 0 /\ 0 % 2 = 0
        BY <4>1, Division
      <4>3. QED
        BY <4>2 DEF Bit
    <3>4. QED
      BY <1>9, <2>2, <2>3, <3>1, <3>2, <3>3 DEF j
  <2>8. QED
    BY <1>1, <2>1, <2>5, <2>6, <2>7
<1>11. reverse(wide) = inv
  BY <1>1, <1>8, <1>9, <1>10, BitsDetermine DEF Word
<1>12. wide \div 2 ^ L = top
  <2>1. (top * 2 ^ L + 0) \div 2 ^ L = top
    BY <1>1, <1>3, <1>5, BitOfJoin
  <2>2. QED
    BY <1>4, <2>1
<1>13. QED
  BY <1>7, <1>11, <1>12 DEF wide, top, ones, m

\* Ones put below a mask make a mask.
LEMMA WideMask ==
  ASSUME NEW m \in Half, IsMask(m)
  PROVE  IsMask(m * 2 ^ LhsBits + (2 ^ LhsBits - 1))
<1> DEFINE g == 2 ^ LhsBits
           M == m * g + (g - 1)
           N == (m + 1) * g + 0
<1>1. /\ LhsBits \in Nat /\ LhsBits \in 0 .. Width /\ HalfBits = 2 * LhsBits
      /\ Width = 4 * LhsBits /\ LhsBits > 0 /\ HalfBits \in Nat /\ Width \in Nat
      /\ Width \in 0 .. Width /\ Width <= Width + 1 /\ LhsBits + HalfBits <= Width
      /\ LhsBits + HalfBits < Width /\ LhsBits + HalfBits \in Nat /\ HalfBits < Width
  BY Widths
<1>2. /\ g \in Nat \ {0} /\ 2 ^ HalfBits \in Nat \ {0} /\ 2 ^ Width \in Nat \ {0}
      /\ 2 ^ (LhsBits + HalfBits) < 2 ^ Width /\ 2 ^ HalfBits < 2 ^ Width
      /\ 2 ^ (LhsBits + HalfBits) \in Nat
  BY <1>1, PowersGrow
<1>3. m \in 0 .. 2 ^ HalfBits - 1 /\ m \in Nat /\ m + 1 \in Nat
      /\ g - 1 \in 0 .. 2 ^ LhsBits - 1 /\ 0 \in 0 .. 2 ^ LhsBits - 1
  BY <1>2 DEF Half
<1>4. M \in 0 .. 2 ^ (LhsBits + HalfBits) - 1
  BY <1>1, <1>3, JoinFits
<1>5. N = M + 1 /\ N \in Nat /\ M \in Nat
  BY <1>2, <1>3
<1>6. N % 2 ^ Width = N /\ (m + 1) % 2 ^ Width = m + 1
  <2> HIDE DEF M, N
  <2>1. N < 2 ^ Width /\ m + 1 < 2 ^ Width
    BY <1>2, <1>3, <1>4, <1>5
  <2>2. QED
    BY <1>2, <1>3, <1>5, <2>1, Division
<1>7. \A i \in 0 .. Width - 1 : Bit(m, i) = 0 \/ Bit(m + 1, i) = 0
  <2>1. And(Width, m, m + 1) = 0
    BY <1>6 DEF IsMask
  <2>2. QED
    BY <1>1, <1>3, <2>1, AndIsZero
<1>8. ASSUME NEW i \in 0 .. Width - 1 PROVE Bit(M, i) = 0 \/ Bit(N, i) = 0
  <2>1. i \in 0 .. Width
    BY <1>1
  <2>2. Bit(M, i) = IF i < LhsBits THEN Bit(g - 1, i) ELSE Bit(m, i - LhsBits)
    <3>1. LhsBits \in 0 .. Width /\ g - 1 \in 0 .. 2 ^ LhsBits - 1 /\ m \in Nat
      BY <1>1, <1>3
    <3> HIDE DEF g
    <3>2. Bit(m * 2 ^ LhsBits + (g - 1), i) =
            IF i < LhsBits THEN Bit(g - 1, i) ELSE Bit(m, i - LhsBits)
      BY <2>1, <3>1, BitOfJoin
    <3>3. QED
      BY <3>2 DEF g
  <2>3. Bit(N, i) = IF i < LhsBits THEN Bit(0, i) ELSE Bit(m + 1, i - LhsBits)
    <3>1. LhsBits \in 0 .. Width /\ 0 \in 0 .. 2 ^ LhsBits - 1 /\ m + 1 \in Nat
      BY <1>1, <1>3
    <3>2. Bit((m + 1) * 2 ^ LhsBits + 0, i) =
            IF i < LhsBits THEN Bit(0, i) ELSE Bit(m + 1, i - LhsBits)
      BY <2>1, <3>1, BitOfJoin
    <3>3. QED
      BY <3>2
  <2>4. Bit(0, i) = 0
    <3>1. 2 ^ i \in Nat \ {0}
      BY <2>1, Powers, Widths
    <3>2. 0 \div 2 ^ i = 0 /\ 0 % 2 = 0
      BY <3>1, Division
    <3>3. QED
      BY <3>2 DEF Bit
  <2>5. ~(i < LhsBits) => i - LhsBits \in 0 .. Width - 1
    BY <1>1
  <2> HIDE DEF M, N
  <2>6. QED
    BY <1>7, <2>2, <2>3, <2>4, <2>5
<1> HIDE DEF M, N
<1>9. And(Width, M, N) = 0
  BY <1>1, <1>5, <1>8, AndIsZero
<1>10. IsMask(M)
  BY <1>5, <1>6, <1>9 DEF IsMask
<1>11. QED
  BY <1>10 DEF M

(***************************************************************************)
(* The quick test of search_impl is a filter: it never drops a sum that    *)
(* passes_sum accepts, and what difficulty_quick asserts of the inverse    *)
(* difficulties is true.                                                   *)
(***************************************************************************)
THEOREM QuickTestIsAFilter == Spec => []QuickDropsNothing
<1>1. ASSUME TypeOK, NEW D \in 1 .. Width - 1
      PROVE  /\ sum \in PassTable[D] => sum \in QuickTable[D]
             /\ IsMask(ReverseTable[DifficultyTable[D]])
  <2>1. /\ bit_difficulty(D) \in Word /\ reverse(bit_difficulty(D)) = 2 ^ D - 1
        /\ D \in 0 .. Width - 1 /\ D \in 0 .. Width /\ Width \in 0 .. Width
    BY DifficultyIs, Widths
  <2>2. ReverseTable[DifficultyTable[D]] = 2 ^ D - 1
    BY <1>1, <2>1, Tables
  <2>3. passes_sum(sum, bit_difficulty(D)) => sum % 2 ^ D = 0
    BY <1>1, Tables, PassesIs
  <2>4. sum \in Nat
    BY <1>1, Tables DEF Word
  <2>5. And(Width, sum, 2 ^ D - 1) = sum % 2 ^ D
    BY <2>1, <2>4, AndMask
  <2>6. passes_quick(sum, 2 ^ D - 1) <=> sum % 2 ^ D = 0
    BY <2>5 DEF passes_quick, difficulty_quick
  <2>7. IsMask(2 ^ D - 1)
    BY <2>1, MaskIs
  <2>8. QED
    BY <1>1, <2>1, <2>2, <2>3, <2>6, <2>7, Tables
<1>2. ASSUME TypeOK, NEW d \in Half, IsMask(reverse_64(d))
      PROVE  IsMask(ReverseTable[difficulty_64_to_128(d)])
  <2>1. reverse_64(d) \in Half
    BY ReversesHalf DEF Half
  <2>2. /\ difficulty_64_to_128(d) \in Word
        /\ reverse(difficulty_64_to_128(d)) = reverse_64(d) * 2 ^ LhsBits + (2 ^ LhsBits - 1)
    BY WideIs
  <2>3. QED
    BY <1>2, <2>1, <2>2, WideMask, Tables
<1>3. ASSUME TypeOK PROVE h1 % 2 ^ HalfBits \in Half
  <2>1. 2 ^ HalfBits \in Nat \ {0} /\ h1 \in Nat
    BY <1>3, Powers, Widths DEF TypeOK, Word
  <2>2. QED
    BY <2>1 DEF Half
<1>4. TypeOK => QuickDropsNothing
  BY <1>1, <1>2, <1>3 DEF QuickDropsNothing
<1>5. QED
  BY <1>4, WordsKept, PTL

(***************************************************************************)
(* The lookup is complete: the right preimage of a solution looks into the *)
(* very bucket its left one was stored in, in any slab with no more        *)
(* entries than 2^D.                                                       *)
(***************************************************************************)
THEOREM LookupIsComplete == Spec => []SolutionsShareABucket
<1>1. ASSUME TypeOK, NEW D \in 1 .. Width - 1, sum \in PassTable[D],
             NEW size \in Sizes, size <= 2 ^ D
      PROVE  FillBucket(size, h0) = ProbeBucket(size, h1)
  <2>1. PICK k \in 0 .. LhsBits : size = 2 ^ k
    BY DEF Sizes
  <2> DEFINE c == 2 ^ k
  <2>2. /\ k \in Nat /\ D \in Nat /\ k \in 0 .. Width /\ LhsBits < HalfBits /\ HalfBits < Width
        /\ Width \in Nat /\ HalfBits \in Nat /\ k <= HalfBits /\ k <= Width /\ D <= Width
        /\ HalfBits <= Width + 1 /\ Width <= Width + 1 /\ D <= Width + 1 /\ k <= Width + 1
    BY Widths
  <2>3. k <= D
    <3>1. ~(D < k)
      <4> SUFFICES ASSUME D < k PROVE FALSE
        OBVIOUS
      <4>1. 2 ^ D < 2 ^ k /\ 2 ^ D \in Nat /\ 2 ^ k \in Nat
        BY <2>2, PowersGrow
      <4>2. QED
        BY <1>1, <2>1, <4>1
    <3>2. QED
      BY <2>2, <3>1
  <2>4. /\ c \in Nat \ {0} /\ 2 ^ HalfBits = c * 2 ^ (HalfBits - k) /\ 2 ^ HalfBits \in Nat \ {0}
        /\ 2 ^ (HalfBits - k) \in Nat
    BY <2>2, PowersGrow
  <2>5. sum % 2 ^ D = 0 /\ sum \in Nat /\ h0 \in Nat /\ h1 \in Nat
    <3>1. sum % 2 ^ D = 0
      BY <1>1, Tables, PassesIs
    <3>2. QED
      BY <1>1, <3>1, Tables DEF TypeOK, Word
  <2> DEFINE a == Low(h0)
             b == Low(h1)
             z == 2 ^ HalfBits - b
  <2>6. a \in Nat /\ b \in Nat /\ b <= 2 ^ HalfBits /\ a % c = h0 % c /\ b % c = h1 % c
    <3>1. b < 2 ^ HalfBits /\ b \in Nat
      BY <2>4, <2>5, Division DEF Low
    <3>2. a \in Nat /\ a % c = h0 % c /\ b % c = h1 % c
      BY <2>2, <2>5, RemainderOfRemainder DEF Low
    <3>3. QED
      BY <2>4, <3>1, <3>2
  <2>7. (h0 + h1) % c = 0
    <3>1. h0 + h1 \in Nat /\ sum = (h0 + h1) % 2 ^ Width
      BY <2>5 DEF sum, Plus
    <3>2. sum % c = (h0 + h1) % c
      BY <2>2, <3>1, RemainderOfRemainder
    <3>3. (sum % 2 ^ D) % c = sum % c
      BY <2>2, <2>3, <2>5, RemainderOfRemainder
    <3>4. 0 % c = 0
      BY <2>4, Division
    <3>5. QED
      BY <2>5, <3>2, <3>3, <3>4
  <2> HIDE DEF a, b, c
  <2>8. (a + b) % c = 0
    <3>1. (a + b) % c = ((a % c) + (b % c)) % c
      BY <2>4, <2>6, RemaindersAdd
    <3>2. (h0 + h1) % c = ((h0 % c) + (h1 % c)) % c
      BY <2>4, <2>5, RemaindersAdd
    <3>3. QED
      BY <2>6, <2>7, <3>1, <3>2
  <2>9. 2 ^ HalfBits % c = 0
    <3>1. (c * 2 ^ (HalfBits - k) + 0) % c = 0 % c
      BY <2>4, RemainderOfSum
    <3>2. 0 % c = 0 /\ c * 2 ^ (HalfBits - k) + 0 = 2 ^ HalfBits
      BY <2>4, Division
    <3>3. QED
      BY <3>1, <3>2
  <2>10. z \in Nat /\ z % c = a % c
    <3>1. 2 ^ HalfBits \in Nat
      BY <2>4
    <3>2. z \in Nat
      BY <2>6, <3>1
    <3>3. (2 ^ HalfBits - b) % c = a % c
      <4> DEFINE n == 2 ^ HalfBits
      <4>1. c \in Nat \ {0} /\ n \in Nat /\ a \in Nat /\ b \in Nat /\ b <= n /\ n % c = 0
            /\ (a + b) % c = 0
        BY <2>4, <2>6, <2>8, <2>9, <3>1
      <4> HIDE DEF n
      <4>2. (n - b) % c = a % c
        BY <4>1, Opposite, ZenonT(60)
      <4>3. QED
        BY <4>2 DEF n
    <3>4. QED
      BY <3>2, <3>3
  <2> HIDE DEF z
  <2>11. (z % 2 ^ HalfBits) % c = z % c /\ z % 2 ^ HalfBits \in Nat
    BY <2>2, <2>10, RemainderOfRemainder DEF c
  <2>12. FillBucket(size, h0) = a % c
    <3>1. bucket(2 ^ k, a) = a % 2 ^ k
      BY <2>6, BucketIs
    <3>2. QED
      BY <2>1, <3>1 DEF FillBucket, a, c
  <2>13. ProbeBucket(size, h1) = (z % 2 ^ HalfBits) % c
    <3>1. bucket(2 ^ k, z % 2 ^ HalfBits) = (z % 2 ^ HalfBits) % 2 ^ k
      BY <2>11, BucketIs
    <3>2. ProbeBucket(size, h1) = bucket(2 ^ k, z % 2 ^ HalfBits)
      BY <2>1 DEF ProbeBucket, b, z
    <3>3. QED
      BY <3>1, <3>2 DEF c
  <2>14. QED
    BY <2>10, <2>11, <2>12, <2>13
<1>2. TypeOK => SolutionsShareABucket
  BY <1>1 DEF SolutionsShareABucket
<1>3. QED
  BY <1>2, WordsKept, PTL

-----------------------------------------------------------------------------
(***************************************************************************)
(* A 64-bit difficulty survives the conversion to 128 bits and back, and a *)
(* sum that passes the converted one reaches the original.                 *)
(***************************************************************************)
THEOREM SixtyFourBitsSurvive == Spec => []SixtyFourBitsAgree
<1> DEFINE L == LhsBits
           H == HalfBits
           g == 2 ^ L
           h == 2 ^ H
           ones == g - 1
<1>1. /\ L \in Nat /\ H \in Nat /\ L \in 0 .. Width + 1 /\ H \in 0 .. Width + 1
      /\ L + H <= Width /\ L \in 0 .. Width /\ H \in 0 .. Width /\ (L + H) + L = Width
      /\ Width \in Nat
  BY Widths
<1>2. /\ g \in Nat \ {0} /\ h \in Nat \ {0} /\ ones \in Nat /\ ones + 1 = g
      /\ 2 ^ (L + H) = g * h /\ 2 ^ Width = (g * h) * g
  <2>1. g \in Nat \ {0} /\ h \in Nat \ {0}
    BY <1>1, Powers
  <2>2. 2 ^ (L + H) = g * h
    BY <1>1, PowerOfSum
  <2>3. 2 ^ ((L + H) + L) = 2 ^ (L + H) * 2 ^ L
    <3>1. (L + H) \in Nat /\ L \in Nat /\ (L + H) + L <= Width + 1
      BY <1>1
    <3> HIDE DEF L, H
    <3>2. QED
      BY <3>1, PowerOfSum
  <2>4. QED
    BY <1>1, <2>1, <2>2, <2>3
<1>3. ASSUME NEW d \in Half, NEW reached \in Word
      PROVE  /\ difficulty_128_to_64(difficulty_64_to_128(d)) = d
             /\ reached > difficulty_64_to_128(d) => difficulty_128_to_64(reached) >= d
  <2> DEFINE wide == difficulty_64_to_128(d)
             top == ones * h + d
             t == reached \div g
             gh == g * h
             oh == ones * h
  <2>1. wide \in Word /\ wide \div g = top
    BY WideIs
  <2>2. d \in 0 .. h - 1 /\ d \in Nat /\ d < h /\ reached \in Nat /\ reached < gh * g
        /\ wide \in Nat
    BY <1>2, <2>1 DEF Half, Word
  <2>3. top % h = d
    <3> HIDE DEF g, ones, L, H
    <3>1. H \in 0 .. Width /\ d \in 0 .. 2 ^ H - 1 /\ ones \in Nat /\ 0 \in 0 .. Width
      BY <1>1, <1>2, <2>2
    <3>2. (ones * 2 ^ H + d) % 2 ^ H = d
      BY <3>1, BitOfJoin
    <3>3. QED
      BY <3>2
  <2>4. t \in Nat /\ reached = g * t + (reached % g) /\ reached % g \in Nat
    <3> HIDE DEF g
    <3>1. QED
      BY <1>2, <2>2, Division
  <2>5. gh = oh + h /\ gh \in Nat /\ oh \in Nat
    <3> HIDE DEF g, h, ones
    <3>1. QED
      BY <1>2
  <2>6. t < gh
    <3> HIDE DEF g, t, gh
    <3>1. g * t <= reached /\ g * t < g * gh
      BY <1>2, <2>2, <2>4, <2>5
    <3>2. QED
      BY <1>2, <2>4, <2>5, <3>1
  <2>7. ASSUME reached > wide PROVE t % h >= d
    <3>1. top <= t
      <4> HIDE DEF wide, g, top
      <4>1. wide <= reached
        BY <2>2, <2>7
      <4>2. QED
        BY <1>2, <2>1, <2>2, <4>1, QuotientsGrow
    <3> DEFINE e == t - oh
    <3>2. e \in 0 .. h - 1 /\ e >= d /\ t = oh + e
      <4> HIDE DEF oh, t, gh, h
      <4>1. oh + d <= t
        BY <3>1 DEF oh
      <4>2. QED
        BY <1>2, <2>2, <2>4, <2>5, <2>6, <4>1
    <3>3. t = h * ones + e
      <4> HIDE DEF e, t, h, ones, g
      <4>1. QED
        BY <1>2, <3>2 DEF oh
    <3> HIDE DEF e, t, h, ones, g
    <3>4. t \in Nat /\ h \in Nat \ {0} /\ ones \in Nat /\ e \in 0 .. h - 1
      BY <1>2, <2>4, <3>2
    <3>5. e = t % h
      BY <3>3, <3>4, DivisionUnique
    <3>6. QED
      BY <3>2, <3>5
  <2>8. QED
    BY <2>1, <2>3, <2>7 DEF difficulty_128_to_64, Low
<1>4. ASSUME TypeOK PROVE h1 % h \in Half /\ ReverseTable[Not(h0)] \in Word
  <2>1. h1 \in Nat
    BY <1>4 DEF TypeOK, Word
  <2>2. h1 % h \in Half
    <3> HIDE DEF h
    <3>1. h1 % h \in 0 .. h - 1
      BY <1>2, <2>1
    <3>2. QED
      BY <3>1 DEF Half, h
  <2>3. Not(h0) \in Word
    <3>1. 2 ^ Width \in Nat \ {0}
      BY Powers, Widths
    <3>2. QED
      BY <1>4, <3>1 DEF TypeOK, Word, Not
  <2>4. ReverseTable[Not(h0)] = reverse(Not(h0)) /\ reverse(Not(h0)) \in Word
    BY <1>4, <2>3, Tables, ReversesWord
  <2>5. QED
    BY <2>2, <2>4
<1>5. TypeOK => SixtyFourBitsAgree
  <2> SUFFICES ASSUME TypeOK PROVE SixtyFourBitsAgree
    OBVIOUS
  <2>1. h1 % 2 ^ HalfBits \in Half /\ ReverseTable[Not(h0)] \in Word
    BY <1>4
  <2>2. QED
    BY <1>3, <2>1 DEF SixtyFourBitsAgree
<1>6. QED
  BY <1>5, WordsKept, PTL

(***************************************************************************)
(* The preimages of one fill are 32-bit numbers at any difficulty, and, up *)
(* to the one that the largest slab loses, no fewer than the buckets.      *)
(***************************************************************************)
THEOREM FillsFitAndSuffice == Spec => []FillCountFits
<1>1. TypeOK => FillCountFits
  BY FillCountIs DEF FillCountFits
<1>2. QED
  BY <1>1, WordsKept, PTL

-----------------------------------------------------------------------------
(* Two limbs are a number.                                                 *)

\* A word has two limbs.
LEMMA ModulusIs ==
  /\ Modulus \in Nat \ {0} /\ Modulus >= 2 /\ 2 ^ Width = Modulus * Modulus
  /\ Half = 0 .. Modulus - 1 /\ Word = 0 .. Modulus * Modulus - 1
  /\ HalfBits \in Nat /\ HalfBits + HalfBits = Width /\ HalfBits >= 2 /\ HalfBits \in 0 .. Width
<1>1. HalfBits \in Nat /\ HalfBits + HalfBits = Width /\ HalfBits >= 2 /\ Width \in Nat
  BY Widths
<1>2. 2 ^ (HalfBits + HalfBits) = 2 ^ HalfBits * 2 ^ HalfBits
  BY <1>1, PowerOfSum
<1>3. 2 ^ 0 < 2 ^ HalfBits /\ 2 ^ 0 = 1 /\ 2 ^ HalfBits \in Nat \ {0}
  BY <1>1, PowersGrow, Powers
<1>4. QED
  BY <1>1, <1>2, <1>3 DEF Modulus, Half, Word

\* The limbs of a word, and the word of two limbs.
LEMMA LimbsAre ==
  ASSUME NEW v \in Word
  PROVE  /\ LimbsOf(v) \in Limbs /\ Value(LimbsOf(v)) = v
         /\ LimbsOf(v)[1] = v % Modulus /\ LimbsOf(v)[2] = v \div Modulus
<1> DEFINE M == Modulus
           q == v \div M
           r == v % M
<1>1. M \in Nat \ {0} /\ v \in Nat /\ v < M * M
  BY ModulusIs
<1>2. q \in Nat /\ r \in 0 .. M - 1 /\ v = M * q + r
  BY <1>1, Division
<1>3. q \in 0 .. M - 1
  <2> SUFFICES ASSUME q >= M PROVE FALSE
    BY <1>1, <1>2
  <2> HIDE DEF q, r, M
  <2>1. PICK k \in Nat : q = M + k
    BY <1>1, <1>2
  <2>2. M * q = M * M + M * k /\ M * k \in Nat
    BY <1>1, <2>1
  <2>3. QED
    BY <1>1, <1>2, <2>2
<1>4. r + q * M = v
  <2> HIDE DEF q, r, M
  <2>1. QED
    BY <1>1, <1>2
<1>5. QED
  BY <1>2, <1>3, <1>4, ModulusIs DEF LimbsOf, Limbs, Value

LEMMA ValueIs ==
  ASSUME NEW a \in Limbs
  PROVE  /\ Value(a) \in Word /\ LimbsOf(Value(a)) = a
         /\ a[1] \in 0 .. Modulus - 1 /\ a[2] \in 0 .. Modulus - 1 /\ a = <<a[1], a[2]>>
<1>1. a[1] \in 0 .. Modulus - 1 /\ a[2] \in 0 .. Modulus - 1 /\ a = <<a[1], a[2]>>
  BY ModulusIs DEF Limbs
<1>2. a[2] * 2 ^ HalfBits + a[1] \in 0 .. 2 ^ (HalfBits + HalfBits) - 1
  BY <1>1, ModulusIs, JoinFits DEF Modulus
<1>3. /\ (a[2] * 2 ^ HalfBits + a[1]) % 2 ^ HalfBits = a[1]
      /\ (a[2] * 2 ^ HalfBits + a[1]) \div 2 ^ HalfBits = a[2]
  <2>1. HalfBits \in 0 .. Width /\ a[1] \in 0 .. 2 ^ HalfBits - 1 /\ a[2] \in Nat /\ 0 \in 0 .. Width
    BY <1>1, ModulusIs DEF Modulus
  <2>2. QED
    BY <2>1, BitOfJoin
<1>4. Value(a) = a[2] * 2 ^ HalfBits + a[1]
  BY <1>1, ModulusIs DEF Value, Modulus
<1>5. QED
  BY <1>1, <1>2, <1>3, <1>4, ModulusIs DEF LimbsOf, Modulus, Word

\* Limbs are ordered as their numbers.
LEMMA LimbsCompare ==
  ASSUME NEW a \in Limbs, NEW b \in Limbs
  PROVE  /\ Value(a) < Value(b) <=> a[2] < b[2] \/ (a[2] = b[2] /\ a[1] < b[1])
         /\ Value(a) = Value(b) <=> a = b
         /\ Value(a) \in Nat /\ Value(b) \in Nat
<1> DEFINE M == Modulus
           p == a[1]
           q == a[2]
           r == b[1]
           s == b[2]
<1>1. /\ p \in 0 .. M - 1 /\ q \in 0 .. M - 1 /\ r \in 0 .. M - 1 /\ s \in 0 .. M - 1
      /\ M \in Nat \ {0} /\ Value(a) = p + q * M /\ Value(b) = r + s * M
      /\ a = <<p, q>> /\ b = <<r, s>>
  BY ValueIs, ModulusIs DEF Value
<1> HIDE DEF M, p, q, r, s
<1>2. q * M \in Nat /\ s * M \in Nat
  BY <1>1
<1>3. ASSUME q < s PROVE p + q * M < r + s * M
  <2>1. PICK k \in Nat : s = q + 1 + k
    BY <1>1, <1>3
  <2>2. s * M = q * M + M + k * M /\ k * M \in Nat
    BY <1>1, <2>1
  <2>3. QED
    BY <1>1, <1>2, <2>2
<1>4. ASSUME s < q PROVE r + s * M < p + q * M
  <2>1. PICK k \in Nat : q = s + 1 + k
    BY <1>1, <1>4
  <2>2. q * M = s * M + M + k * M /\ k * M \in Nat
    BY <1>1, <2>1
  <2>3. QED
    BY <1>1, <1>2, <2>2
<1>5. p + q * M < r + s * M <=> q < s \/ (q = s /\ p < r)
  BY <1>1, <1>2, <1>3, <1>4
<1>6. p + q * M = r + s * M <=> q = s /\ p = r
  BY <1>1, <1>2, <1>3, <1>4
<1>7. QED
  BY <1>1, <1>2, <1>5, <1>6 DEF p, q, r, s

\* All the comparisons are those of the numbers.
LEMMA ComparisonsAgree ==
  ASSUME NEW a \in Limbs, NEW b \in Limbs
  PROVE  /\ less(a, b) <=> Value(a) < Value(b)
         /\ less_equal(a, b) <=> Value(a) <= Value(b)
         /\ greater(a, b) <=> Value(a) > Value(b)
         /\ kernel_greater(a, b) <=> greater(a, b)
         /\ greater_equal(a, b) <=> Value(a) >= Value(b)
         /\ equal(a, b) <=> Value(a) = Value(b)
         /\ as_bool(a) <=> Value(a) # 0
<1>1. /\ a[1] \in Nat /\ a[2] \in Nat /\ b[1] \in Nat /\ b[2] \in Nat
      /\ a = <<a[1], a[2]>> /\ b = <<b[1], b[2]>>
  BY ValueIs, ModulusIs
<1>2. /\ Value(a) < Value(b) <=> a[2] < b[2] \/ (a[2] = b[2] /\ a[1] < b[1])
      /\ Value(b) < Value(a) <=> b[2] < a[2] \/ (b[2] = a[2] /\ b[1] < a[1])
      /\ Value(a) = Value(b) <=> a = b
      /\ Value(a) \in Nat /\ Value(b) \in Nat
  BY LimbsCompare
<1>3. a = b <=> a[1] = b[1] /\ a[2] = b[2]
  BY <1>1
<1>4. <<0, 0>> \in Limbs /\ Value(<<0, 0>>) = 0
  BY ModulusIs DEF Limbs, Value
<1>5. Value(a) = 0 <=> a = <<0, 0>>
  BY <1>4, LimbsCompare
<1>6. a = <<0, 0>> <=> a[1] = 0 /\ a[2] = 0
  BY <1>1
<1>7. as_bool(a) <=> Value(a) # 0
  BY <1>5, <1>6 DEF as_bool, equal
<1>8. less(a, b) <=> Value(a) < Value(b)
  BY <1>2 DEF less
<1>9. greater(a, b) <=> Value(a) > Value(b)
  <2>1. greater(a, b) <=> b[2] < a[2] \/ (b[2] = a[2] /\ b[1] < a[1])
    BY <1>1 DEF greater
  <2>2. QED
    BY <1>2, <2>1
<1>10. less_equal(a, b) <=> Value(a) <= Value(b)
  <2>1. less_equal(a, b) <=> ~(b[2] < a[2] \/ (b[2] = a[2] /\ b[1] < a[1]))
    BY <1>1 DEF less_equal
  <2>2. QED
    BY <1>2, <2>1
<1>11. greater_equal(a, b) <=> Value(a) >= Value(b)
  <2>1. greater_equal(a, b) <=> ~(a[2] < b[2] \/ (a[2] = b[2] /\ a[1] < b[1]))
    BY <1>1 DEF greater_equal
  <2>2. QED
    BY <1>2, <2>1
<1>12. kernel_greater(a, b) <=> greater(a, b)
  BY DEF kernel_greater, greater
<1>13. equal(a, b) <=> Value(a) = Value(b)
  BY <1>2, <1>3 DEF equal
<1>14. QED
  BY <1>7, <1>8, <1>9, <1>10, <1>11, <1>12, <1>13
-----------------------------------------------------------------------------
(* Addition and subtraction.                                               *)

\* What is below 0 by no more than the divisor.
LEMMA BelowZero ==
  ASSUME NEW h \in Nat \ {0}, NEW v \in Int, v < 0, v + h >= 0
  PROVE  v % h = v + h
<1>1. 0 - v \in 1 .. h /\ v = 0 - (0 - v)
  OBVIOUS
<1>2. (0 - (0 - v)) % h = h - (0 - v)
  BY <1>1, RemainderBelow
<1>3. QED
  BY <1>1, <1>2

\* The two limbs of a sum, the carry in the upper one.
LEMMA JoinLimbs ==
  ASSUME NEW low \in 0 .. Modulus - 1, NEW t \in Int, t + Modulus >= 0
  PROVE  /\ (low + t * Modulus) % 2 ^ Width = low + (t % Modulus) * Modulus
         /\ <<low, t % Modulus>> \in Limbs
         /\ Value(<<low, t % Modulus>>) = low + (t % Modulus) * Modulus
<1> DEFINE M == Modulus
           f == t % M
           K == M * M
<1>1. M \in Nat \ {0} /\ 2 ^ Width = K /\ Half = 0 .. M - 1 /\ low \in 0 .. M - 1
  BY ModulusIs
<1>2. f \in 0 .. M - 1
  BY <1>1, Division, BelowZero
<1>3. /\ <<low, f>> \in Limbs /\ Value(<<low, f>>) = low + f * M
      /\ low + f * M \in 0 .. K - 1
  <2>1. <<low, f>> \in Limbs
    BY <1>1, <1>2 DEF Limbs
  <2>2. Value(<<low, f>>) \in Word
    BY <2>1, ValueIs
  <2>3. Value(<<low, f>>) = low + f * M
    BY DEF Value
  <2>4. QED
    BY <1>1, <2>1, <2>2, <2>3 DEF Word
<1>4. (low + t * M) % K = low + f * M
  <2>1. K \in Nat \ {0}
    <3> HIDE DEF M
    <3>1. QED
      BY <1>1
  <2>2. CASE t >= 0
    <3> DEFINE e == t \div M
    <3>1. t \in Nat /\ e \in Nat /\ t = M * e + f
      BY <1>1, <2>2, Division
    <3>2. low + t * M = K * e + (low + f * M) /\ low + t * M \in Nat
      <4> HIDE DEF M, e, f
      <4>1. t * M = (M * e) * M + f * M
        BY <1>1, <1>2, <3>1
      <4>2. (M * e) * M = (M * M) * e
        BY <1>1, <3>1
      <4>3. t * M \in Nat /\ f * M \in Nat /\ (M * M) * e \in Nat /\ low \in Nat
        BY <1>1, <1>2, <3>1
      <4>4. t * M = (M * M) * e + f * M
        BY <4>1, <4>2
      <4>5. QED
        BY <4>3, <4>4
    <3> HIDE DEF M, K, e, f
    <3>3. QED
      BY <1>3, <2>1, <3>1, <3>2, DivisionUnique
  <2>3. CASE t < 0
    <3>1. f = t + M
      BY <1>1, <2>3, BelowZero
    <3>2. low + t * M = (low + f * M) - K /\ low + t * M \in Int
      <4> HIDE DEF M, f
      <4>1. t = f - M
        BY <1>1, <3>1
      <4>2. t * M = f * M - M * M
        BY <1>1, <1>2, <4>1
      <4>3. f * M \in Nat /\ M * M \in Nat
        BY <1>1, <1>2
      <4>4. QED
        BY <4>2, <4>3
    <3> HIDE DEF M, K, f
    <3>3. low + t * M < 0 /\ (low + t * M) + K >= 0 /\ (low + t * M) + K = low + f * M
      BY <1>3, <2>1, <3>2
    <3>4. QED
      BY <2>1, <3>2, <3>3, BelowZero
  <2>4. QED
    BY <2>2, <2>3
<1>5. QED
  BY <1>1, <1>3, <1>4

\* += carries, and so does the sum of the kernels.
LEMMA SumsAgree ==
  ASSUME NEW a \in Limbs, NEW b \in Limbs
  PROVE  /\ add(a, b) \in Limbs /\ Value(add(a, b)) = (Value(a) + Value(b)) % 2 ^ Width
         /\ kernel_sum(a, b) = add(a, b)
<1> DEFINE M == Modulus
           p == a[1]
           q == a[2]
           r == b[1]
           s == b[2]
           low == (p + r) % M
           c == Carry(low < p)
           t == q + s + c
<1>1. /\ p \in 0 .. M - 1 /\ q \in 0 .. M - 1 /\ r \in 0 .. M - 1 /\ s \in 0 .. M - 1
      /\ M \in Nat \ {0} /\ Value(a) = p + q * M /\ Value(b) = r + s * M
  BY ValueIs, ModulusIs DEF Value
<1>2. /\ low \in 0 .. M - 1 /\ c \in {0, 1} /\ p + r = low + c * M
      /\ low < p <=> low < r
  <2>1. CASE p + r < M
    <3>1. low = p + r
      <4>1. p + r \in Nat
        BY <1>1
      <4>2. QED
        BY <1>1, <2>1, <4>1, Division
    <3>2. QED
      BY <1>1, <2>1, <3>1 DEF Carry
  <2>2. CASE p + r >= M
    <3>1. low = (p + r) - M
      <4>1. p + r = M * 1 + ((p + r) - M) /\ (p + r) - M \in 0 .. M - 1
        BY <1>1, <2>2
      <4>2. QED
        BY <1>1, <2>2, <4>1, DivisionUnique
    <3>2. QED
      BY <1>1, <2>2, <3>1 DEF Carry
  <2>3. QED
    BY <1>1, <2>1, <2>2
<1>3. Value(a) + Value(b) = low + t * M /\ t \in Nat
  <2> HIDE DEF M, p, q, r, s, low, c
  <2>1. t * M = q * M + s * M + c * M /\ q * M \in Nat /\ s * M \in Nat /\ c * M \in Nat
    BY <1>1, <1>2
  <2>2. QED
    BY <1>1, <1>2, <2>1
<1>4. add(a, b) = <<low, t % M>>
  BY DEF add
<1>5. kernel_sum(a, b) = add(a, b)
  BY <1>2 DEF kernel_sum, add
<1> HIDE DEF M, p, q, r, s, low, c, t
<1>6. low \in 0 .. Modulus - 1 /\ t \in Int /\ t + Modulus >= 0
  BY <1>1, <1>2, <1>3 DEF M
<1>7. QED
  BY <1>3, <1>4, <1>5, <1>6, JoinLimbs DEF M

\* -= borrows.
LEMMA DifferencesAgree ==
  ASSUME NEW a \in Limbs, NEW b \in Limbs
  PROVE  /\ subtract(a, b) \in Limbs
         /\ Value(subtract(a, b)) = (Value(a) - Value(b)) % 2 ^ Width
         /\ Value(a) >= Value(b) => Value(subtract(a, b)) = Value(a) - Value(b)
<1> DEFINE M == Modulus
           p == a[1]
           q == a[2]
           r == b[1]
           s == b[2]
           low == (p - r) % M
           c == Carry(low > p)
           t == q - s - c
<1>1. /\ p \in 0 .. M - 1 /\ q \in 0 .. M - 1 /\ r \in 0 .. M - 1 /\ s \in 0 .. M - 1
      /\ M \in Nat \ {0} /\ Value(a) = p + q * M /\ Value(b) = r + s * M
  BY ValueIs, ModulusIs DEF Value
<1>2. low \in 0 .. M - 1 /\ c \in {0, 1} /\ p - r = low - c * M
  <2>1. CASE p >= r
    <3>1. low = p - r
      BY <1>1, <2>1, Division
    <3>2. QED
      BY <1>1, <2>1, <3>1 DEF Carry
  <2>2. CASE p < r
    <3>1. low = (p - r) + M
      BY <1>1, <2>2, BelowZero
    <3>2. QED
      BY <1>1, <2>2, <3>1 DEF Carry
  <2>3. QED
    BY <1>1, <2>1, <2>2
<1>3. Value(a) - Value(b) = low + t * M /\ t \in Int /\ t + M >= 0
  <2> HIDE DEF M, p, q, r, s, low, c
  <2>1. t * M = q * M - s * M - c * M /\ q * M \in Nat /\ s * M \in Nat /\ c * M \in Nat
    BY <1>1, <1>2
  <2>2. QED
    BY <1>1, <1>2, <2>1
<1>4. subtract(a, b) = <<low, t % M>>
  BY DEF subtract
<1> HIDE DEF M, p, q, r, s, low, c, t
<1>5. low \in 0 .. Modulus - 1 /\ t \in Int /\ t + Modulus >= 0
  BY <1>1, <1>2, <1>3 DEF M
<1>6. /\ subtract(a, b) \in Limbs
      /\ Value(subtract(a, b)) = (Value(a) - Value(b)) % 2 ^ Width
  BY <1>3, <1>4, <1>5, JoinLimbs DEF M
<1>7. ASSUME Value(a) >= Value(b) PROVE (Value(a) - Value(b)) % 2 ^ Width = Value(a) - Value(b)
  <2>1. Value(a) \in 0 .. 2 ^ Width - 1 /\ Value(b) \in 0 .. 2 ^ Width - 1
    BY ValueIs DEF Word
  <2>2. 2 ^ Width \in Nat \ {0}
    BY Powers, Widths
  <2>3. QED
    BY <1>7, <2>1, <2>2, Division
<1>8. QED
  BY <1>6, <1>7
-----------------------------------------------------------------------------
(* Shifts.                                                                 *)

\* A limb cut in two: the bits that stay and the bits that leave.
LEMMA ShiftedLimb ==
  ASSUME NEW l \in 0 .. Modulus - 1, NEW n \in Nat, n <= HalfBits
  PROVE  LET N == 2 ^ n
             R == 2 ^ (HalfBits - n)
         IN  /\ N \in Nat \ {0} /\ R \in Nat \ {0} /\ Modulus = N * R
             /\ Left(l, n) = (l % R) * N /\ l % R \in 0 .. R - 1
             /\ Right(l, HalfBits - n) = l \div R /\ l \div R \in 0 .. N - 1
             /\ l = R * (l \div R) + (l % R)
<1> DEFINE N == 2 ^ n
           R == 2 ^ (HalfBits - n)
           M == Modulus
           g == l \div R
           h == l % R
<1>1. /\ N \in Nat \ {0} /\ R \in Nat \ {0} /\ M = N * R /\ M \in Nat \ {0} /\ l \in 0 .. M - 1
  <2>1. HalfBits \in Nat /\ HalfBits <= Width + 1
    BY ModulusIs, Widths
  <2>2. 2 ^ HalfBits = N * R /\ N \in Nat \ {0} /\ R \in Nat \ {0}
    BY <2>1, PowersGrow
  <2>3. QED
    BY <2>2, ModulusIs DEF Modulus
<1>2. g \in Nat /\ h \in 0 .. R - 1 /\ l = R * g + h
  <2> HIDE DEF N, R, M
  <2>1. l \in Nat /\ R \in Nat \ {0}
    BY <1>1
  <2>2. g \in Nat /\ h \in Nat /\ h < R /\ l = R * g + h
    BY <2>1, Division
  <2>3. QED
    BY <2>1, <2>2
<1>3. g \in 0 .. N - 1
  <2> SUFFICES ASSUME g >= N PROVE FALSE
    BY <1>1, <1>2
  <2> HIDE DEF N, R, M, g, h
  <2>1. PICK k \in Nat : g = N + k
    BY <1>1, <1>2
  <2>2. R * g = N * R + R * k /\ R * k \in Nat
    BY <1>1, <2>1
  <2>3. QED
    BY <1>1, <1>2, <2>2
<1>4. (l * N) % M = h * N
  <2>1. l * N = M * g + h * N
    <3> HIDE DEF N, R, M, g, h
    <3>1. l * N = (R * g) * N + h * N
      BY <1>1, <1>2
    <3>2. (R * g) * N = (N * R) * g
      BY <1>1, <1>2
    <3>3. QED
      BY <1>1, <3>1, <3>2
  <2>2. h * N \in 0 .. M - 1 /\ l * N \in Nat
    <3> HIDE DEF N, R, M, g, h
    <3>1. PICK k \in Nat : R = h + 1 + k
      BY <1>1, <1>2
    <3>2. N * R = h * N + N + N * k /\ h * N \in Nat /\ N * k \in Nat /\ l * N \in Nat
      BY <1>1, <1>2, <3>1
    <3>3. QED
      BY <1>1, <3>2
  <2> HIDE DEF N, R, M, g, h
  <2>3. g \in Nat /\ M \in Nat \ {0}
    BY <1>1, <1>2
  <2>4. QED
    BY <2>1, <2>2, <2>3, DivisionUnique
<1>5. Left(l, n) = h * N /\ Right(l, HalfBits - n) = g
  BY <1>4 DEF Left, Right
<1>6. QED
  BY <1>1, <1>2, <1>3, <1>5

LEMMA NoBits ==
  ASSUME NEW i \in 0 .. Width
  PROVE  Bit(0, i) = 0
<1> DEFINE h == 2 ^ i
<1>1. h \in Nat \ {0} /\ 0 \in Nat /\ 0 < h
  BY Widths, Powers
<1> HIDE DEF h
<1>2. 0 \div h = 0
  BY <1>1, Division
<1>3. (0 \div h) % 2 = 0
  BY <1>2
<1>4. QED
  BY <1>3 DEF Bit, h

\* The bits of both parts are apart.
LEMMA ApartAdds ==
  ASSUME NEW n \in 0 .. HalfBits, NEW h \in Nat, NEW g \in 0 .. 2 ^ n - 1, g < Modulus
  PROVE  Or(h * 2 ^ n, g) = h * 2 ^ n + g /\ Or(g, h * 2 ^ n) = h * 2 ^ n + g
<1>1. /\ 2 ^ n \in Nat \ {0} /\ n \in 0 .. Width /\ HalfBits \in 0 .. Width
      /\ HalfBits \in Nat /\ 0 \in 0 .. 2 ^ n - 1 /\ g \in Nat /\ h * 2 ^ n \in Nat
      /\ 2 ^ HalfBits \in Nat /\ g \in 0 .. 2 ^ HalfBits - 1
  <2>1. n \in Nat /\ n <= Width + 1 /\ n \in 0 .. Width /\ n \in 0 .. Width + 1
    BY ModulusIs, Widths
  <2>2. 2 ^ n \in Nat \ {0}
    BY <2>1, Powers
  <2>3. h * 2 ^ n \in Nat
    BY <2>2
  <2>4. QED
    BY <2>1, <2>2, <2>3, ModulusIs DEF Modulus
<1>2. ASSUME NEW i \in 0 .. HalfBits - 1 PROVE Bit(h * 2 ^ n, i) = 0 \/ Bit(g, i) = 0
  <2>1. i \in 0 .. Width /\ i \in Nat /\ i < HalfBits
    BY <1>1, Widths
  <2>2. CASE i < n
    <3>1. Bit(h * 2 ^ n + 0, i) = Bit(0, i)
      <4>1. n \in 0 .. Width /\ 0 \in 0 .. 2 ^ n - 1 /\ h \in Nat /\ i \in 0 .. Width
        BY <1>1, <2>1
      <4>2. Bit(h * 2 ^ n + 0, i) = IF i < n THEN Bit(0, i) ELSE Bit(h, i - n)
        BY <4>1, BitOfJoin
      <4>3. QED
        BY <2>2, <4>2
    <3>2. Bit(0, i) = 0
      BY <2>1, NoBits
    <3>3. QED
      BY <1>1, <3>1, <3>2
  <2>3. CASE i >= n
    <3>1. g < 2 ^ n /\ n \in 0 .. HalfBits /\ i \in n .. HalfBits - 1
      BY <1>1, <2>3
    <3>2. QED
      BY <1>1, <3>1, SmallNumbers
  <2>4. QED
    BY <1>1, <2>1, <2>2, <2>3
<1>3. And(HalfBits, h * 2 ^ n, g) = 0 /\ And(HalfBits, g, h * 2 ^ n) = 0
  BY <1>1, <1>2, AndIsZero
<1>4. QED
  BY <1>1, <1>3 DEF Or

\* <<= is multiplication, for every shift by one bit at least.
LEMMA LeftShiftsAgree ==
  ASSUME NEW a \in Limbs, NEW n \in 1 .. Width - 1
  PROVE  shift_left(a, n) = {LimbsOf((Value(a) * 2 ^ n) % 2 ^ Width)}
<1> DEFINE M == Modulus
           K == M * M
           p == a[1]
           q == a[2]
           v == Value(a)
<1>1. /\ p \in 0 .. M - 1 /\ q \in 0 .. M - 1 /\ M \in Nat \ {0} /\ v = p + q * M
      /\ 2 ^ Width = K /\ K \in Nat \ {0} /\ v \in Nat
  <2>1. /\ p \in 0 .. M - 1 /\ q \in 0 .. M - 1 /\ M \in Nat \ {0} /\ v = p + q * M
        /\ 2 ^ Width = K
    BY ValueIs, ModulusIs DEF Value
  <2> HIDE DEF M, p, q, v
  <2>2. K \in Nat \ {0} /\ q * M \in Nat
    BY <2>1
  <2>3. QED
    BY <2>1, <2>2
<1>2. ASSUME NEW w \in Limbs, NEW e \in Nat, v * 2 ^ n = K * e + Value(w), v * 2 ^ n \in Nat
      PROVE  w = LimbsOf((v * 2 ^ n) % 2 ^ Width)
  <2>1. Value(w) \in 0 .. K - 1 /\ LimbsOf(Value(w)) = w
    BY <1>1, ValueIs DEF Word
  <2> HIDE DEF K, v
  <2>2. Value(w) = (v * 2 ^ n) % K
    BY <1>1, <1>2, <2>1, DivisionUnique
  <2>3. QED
    BY <1>1, <2>1, <2>2
<1>3. CASE n < HalfBits
  <2> DEFINE N == 2 ^ n
             R == 2 ^ (HalfBits - n)
             gp == p \div R
             hp == p % R
             gq == q \div R
             hq == q % R
             w == <<hp * N, hq * N + gp>>
  <2>1. n \in Nat /\ n <= HalfBits /\ n # 0 /\ n \in 0 .. HalfBits
    BY <1>3, ModulusIs
  <2>2. /\ N \in Nat \ {0} /\ R \in Nat \ {0} /\ M = N * R
        /\ Left(p, n) = hp * N /\ hp \in 0 .. R - 1
        /\ Right(p, HalfBits - n) = gp /\ gp \in 0 .. N - 1 /\ p = R * gp + hp
    BY <1>1, <2>1, ShiftedLimb
  <2>3. Left(q, n) = hq * N /\ hq \in 0 .. R - 1 /\ gq \in 0 .. N - 1 /\ q = R * gq + hq
    BY <1>1, <2>1, ShiftedLimb
  <2>4. gp < M /\ hp * N \in 0 .. M - 1 /\ hq * N + gp \in 0 .. M - 1
    <3> HIDE DEF N, R, gp, hp, gq, hq, M, p, q
    <3>1. PICK i \in Nat : R = hp + 1 + i
      BY <2>2
    <3>2. N * R = hp * N + N + N * i /\ hp * N \in Nat /\ N * i \in Nat
      BY <2>2, <3>1
    <3>3. PICK j \in Nat : R = hq + 1 + j
      BY <2>2, <2>3
    <3>4. N * R = hq * N + N + N * j /\ hq * N \in Nat /\ N * j \in Nat
      BY <2>2, <2>3, <3>3
    <3>5. QED
      BY <1>1, <2>2, <3>2, <3>4
  <2>5. Or(hq * N, gp) = hq * N + gp
    <3>1. hq \in Nat /\ gp \in 0 .. 2 ^ n - 1 /\ gp < Modulus
      BY <2>2, <2>3, <2>4
    <3>2. QED
      BY <2>1, <3>1, ApartAdds
  <2>6. shift_left(a, n) = {w}
    <3>1. SpilledUp(p, n) = {gp}
      BY <2>1, <2>2 DEF SpilledUp
    <3>2. shift_left(a, n) = {<<Left(p, n), Or(Left(q, n), s)>> : s \in SpilledUp(p, n)}
      BY <1>3 DEF shift_left
    <3>3. QED
      BY <2>2, <2>3, <2>5, <3>1, <3>2
  <2>7. w \in Limbs /\ Value(w) = hp * N + (hq * N + gp) * M
    BY <2>4, ModulusIs DEF Limbs, Value
  <2>8. v * N = K * gq + Value(w) /\ v * N \in Nat
    <3> HIDE DEF N, R, gp, hp, gq, hq, M, p, q, v
    <3>0. /\ hp \in Nat /\ hq \in Nat /\ gp \in Nat /\ gq \in Nat /\ N \in Nat /\ R \in Nat
          /\ M \in Nat /\ p \in Nat /\ q \in Nat /\ v \in Nat
      BY <1>1, <2>2, <2>3
    <3>1. p * N = M * gp + hp * N
      <4>1. p * N = (R * gp) * N + hp * N
        BY <2>2, <3>0
      <4>2. (R * gp) * N = (N * R) * gp
        BY <3>0
      <4>3. QED
        BY <2>2, <4>1, <4>2
    <3>2. q * N = M * gq + hq * N
      <4>1. q * N = (R * gq) * N + hq * N
        BY <2>3, <3>0
      <4>2. (R * gq) * N = (N * R) * gq
        BY <3>0
      <4>3. QED
        BY <2>2, <4>1, <4>2
    <3>3. v * N = p * N + (q * N) * M
      <4>1. v * N = p * N + (q * M) * N
        BY <1>1, <3>0
      <4>2. (q * M) * N = (q * N) * M
        BY <3>0
      <4>3. QED
        BY <4>1, <4>2
    <3>4. (q * N) * M = (M * M) * gq + (hq * N) * M
      <4>1. hq * N \in Nat /\ M * gq \in Nat
        BY <3>0
      <4>2. (q * N) * M = (M * gq) * M + (hq * N) * M
        BY <3>0, <3>2, <4>1
      <4>3. (M * gq) * M = (M * M) * gq
        BY <3>0
      <4>4. QED
        BY <4>2, <4>3
    <3>5. (hq * N + gp) * M = (hq * N) * M + M * gp
      <4>1. hq * N \in Nat
        BY <3>0
      <4>2. QED
        BY <3>0, <4>1
    <3>6. v * N \in Nat /\ M * gp \in Nat /\ hp * N \in Nat /\ (M * M) * gq \in Nat
          /\ (hq * N) * M \in Nat
      BY <3>0
    <3>7. QED
      BY <2>7, <3>1, <3>3, <3>4, <3>5, <3>6
  <2>9. gq \in Nat
    BY <2>3
  <2> HIDE DEF w, gq, v, K
  <2>10. w = LimbsOf((v * 2 ^ n) % 2 ^ Width)
    BY <1>2, <2>7, <2>8, <2>9
  <2>11. QED
    BY <2>6, <2>10 DEF v
<1>4. CASE n >= HalfBits
  <2> DEFINE m == n - HalfBits
             N == 2 ^ m
             f == (p * N) % M
             e == (p * N) \div M
             w == <<0, f>>
  <2>1. m \in Nat /\ n % HalfBits = m /\ 2 ^ n = N * M /\ N \in Nat \ {0}
    <3>1. HalfBits \in Nat \ {0} /\ m \in 0 .. HalfBits - 1 /\ n = HalfBits * 1 + m /\ n \in Nat
      BY <1>4, ModulusIs
    <3>2. n % HalfBits = m
      BY <3>1, DivisionUnique
    <3>3. m + HalfBits <= Width + 1 /\ m + HalfBits = n /\ m \in 0 .. Width + 1
      BY <3>1, ModulusIs
    <3>4. 2 ^ n = N * 2 ^ HalfBits
      BY <3>1, <3>3, PowerOfSum
    <3>5. QED
      BY <3>1, <3>2, <3>3, <3>4, Powers DEF Modulus
  <2>2. p * N \in Nat
    <3> HIDE DEF p, N
    <3>1. QED
      BY <1>1, <2>1
  <2>3. e \in Nat /\ f \in 0 .. M - 1 /\ p * N = M * e + f
    <3> DEFINE u == p * N
    <3>1. u \in Nat /\ M \in Nat \ {0}
      BY <1>1, <2>2
    <3> HIDE DEF u, M
    <3>2. u \div M \in Nat /\ u % M \in Nat /\ u % M < M /\ u = M * (u \div M) + (u % M)
      BY <3>1, Division
    <3>3. u % M \in 0 .. M - 1
      BY <3>1, <3>2
    <3>4. QED
      BY <3>2, <3>3 DEF u
  <2>4. shift_left(a, n) = {w}
    <3>1. Left(a[1], m) = f
      BY DEF Left
    <3>2. ~(n < HalfBits)
      BY <1>4, ModulusIs
    <3>3. QED
      BY <2>1, <3>1, <3>2 DEF shift_left
  <2>5. w \in Limbs /\ Value(w) = f * M
    <3> HIDE DEF M, f
    <3>1. f \in Nat /\ 0 \in 0 .. M - 1 /\ f * M \in Nat /\ f \in 0 .. M - 1
      BY <1>1, <2>3
    <3>2. w \in Limbs
      BY <3>1, ModulusIs DEF Limbs, M
    <3>3. Value(w) = f * M
      BY <3>1 DEF Value, M
    <3>4. QED
      BY <3>2, <3>3
  <2>6. v * 2 ^ n = K * (e + q * N) + Value(w) /\ v * 2 ^ n \in Nat /\ e + q * N \in Nat
    <3> HIDE DEF N, M, p, q, v, e, f
    <3>0. N \in Nat /\ M \in Nat /\ p \in Nat /\ q \in Nat /\ v \in Nat /\ e \in Nat /\ f \in Nat
      BY <1>1, <2>1, <2>3
    <3>1. v * 2 ^ n = (v * N) * M
      BY <2>1, <3>0
    <3>2. v * N = p * N + (q * N) * M
      <4>1. v * N = p * N + (q * M) * N
        BY <1>1, <3>0
      <4>2. (q * M) * N = (q * N) * M
        BY <3>0
      <4>3. QED
        BY <4>1, <4>2
    <3>3. q * N \in Nat
      BY <3>0
    <3>4. v * N = M * (e + q * N) + f
      BY <2>3, <3>0, <3>2, <3>3
    <3>5. (v * N) * M = (M * (e + q * N)) * M + f * M
      <4>1. M * (e + q * N) \in Nat
        BY <3>0, <3>3
      <4>2. QED
        BY <3>0, <3>4, <4>1
    <3>6. (M * (e + q * N)) * M = (M * M) * (e + q * N)
      BY <3>0, <3>3
    <3>7. (v * N) * M \in Nat /\ e + q * N \in Nat
      BY <3>0, <3>3
    <3>8. QED
      BY <2>5, <3>1, <3>5, <3>6, <3>7
  <2> DEFINE E == e + q * N
  <2>7. E \in Nat /\ v * 2 ^ n = K * E + Value(w)
    BY <2>6
  <2> HIDE DEF w, v, K, E
  <2>8. w = LimbsOf((v * 2 ^ n) % 2 ^ Width)
    BY <1>2, <2>5, <2>6, <2>7
  <2>9. QED
    BY <2>4, <2>8 DEF v
<1>5. QED
  BY <1>3, <1>4, ModulusIs
\* >>= is division.
LEMMA RightShiftsAgree ==
  ASSUME NEW a \in Limbs, NEW n \in 1 .. Width - 1
  PROVE  shift_right(a, n) = {LimbsOf(Value(a) \div 2 ^ n)}
<1> DEFINE M == Modulus
           p == a[1]
           q == a[2]
           v == Value(a)
<1>1. /\ p \in 0 .. M - 1 /\ q \in 0 .. M - 1 /\ M \in Nat \ {0} /\ v = p + q * M /\ v \in Nat
  <2>1. p \in 0 .. M - 1 /\ q \in 0 .. M - 1 /\ M \in Nat \ {0} /\ v = p + q * M
    BY ValueIs, ModulusIs DEF Value
  <2>2. v \in Nat
    BY LimbsCompare
  <2>3. QED
    BY <2>1, <2>2
<1>2. ASSUME NEW w \in Limbs, NEW h \in Nat \ {0}, NEW r \in 0 .. h - 1, v = h * Value(w) + r
      PROVE  w = LimbsOf(v \div h)
  <2>1. Value(w) \in Nat /\ LimbsOf(Value(w)) = w
    BY LimbsCompare, ValueIs
  <2> HIDE DEF v
  <2>2. Value(w) = v \div h
    BY <1>1, <1>2, <2>1, DivisionUnique
  <2>3. QED
    BY <2>1, <2>2
<1>3. CASE n < HalfBits
  <2> DEFINE k == HalfBits - n
             N == 2 ^ k
             R == 2 ^ n
             gp == p \div R
             hp == p % R
             gq == q \div R
             hq == q % R
             w == <<hq * N + gp, gq>>
  <2>1. /\ k \in Nat /\ k <= HalfBits /\ k # 0 /\ k \in 0 .. HalfBits /\ HalfBits - k = n
        /\ n \in Nat /\ n # 0
    BY <1>3, ModulusIs
  <2>2. /\ N \in Nat \ {0} /\ R \in Nat \ {0} /\ M = N * R /\ hp \in 0 .. R - 1
        /\ Right(p, n) = gp /\ gp \in 0 .. N - 1 /\ p = R * gp + hp
    <3> HIDE DEF k, p
    <3>1. p \in 0 .. Modulus - 1 /\ k \in Nat /\ k <= HalfBits /\ HalfBits - k = n
      BY <1>1, <2>1
    <3>2. QED
      BY <3>1, ShiftedLimb
  <2>3. /\ Left(q, k) = hq * N /\ hq \in 0 .. R - 1 /\ gq \in 0 .. N - 1 /\ q = R * gq + hq
        /\ Right(q, n) = gq
    <3> HIDE DEF k, q
    <3>1. q \in 0 .. Modulus - 1 /\ k \in Nat /\ k <= HalfBits /\ HalfBits - k = n
      BY <1>1, <2>1
    <3>2. QED
      BY <3>1, ShiftedLimb
  <2>4. gp < M /\ gq \in 0 .. M - 1 /\ hq * N + gp \in 0 .. M - 1
    <3> HIDE DEF N, R, gp, hp, gq, hq, M, p, q, k
    <3>1. N * R >= N
      BY <2>2
    <3>2. PICK j \in Nat : R = hq + 1 + j
      BY <2>2, <2>3
    <3>3. N * R = hq * N + N + N * j /\ hq * N \in Nat /\ N * j \in Nat
      BY <2>2, <2>3, <3>2
    <3>4. QED
      BY <1>1, <2>2, <2>3, <3>1, <3>3
  <2>5. Or(gp, hq * N) = hq * N + gp
    <3>1. hq \in Nat /\ gp \in 0 .. 2 ^ k - 1 /\ gp < Modulus
      BY <2>2, <2>3, <2>4
    <3>2. QED
      BY <2>1, <3>1, ApartAdds
  <2>6. shift_right(a, n) = {w}
    <3>1. SpilledDown(q, n) = {hq * N}
      BY <2>1, <2>3 DEF SpilledDown
    <3>2. shift_right(a, n) = {<<Or(Right(p, n), s), Right(q, n)>> : s \in SpilledDown(q, n)}
      BY <1>3 DEF shift_right
    <3>3. QED
      BY <2>2, <2>3, <2>5, <3>1, <3>2
  <2>7. w \in Limbs /\ Value(w) = (hq * N + gp) + gq * M
    BY <2>4, ModulusIs DEF Limbs, Value
  <2>8. v = R * Value(w) + hp
    <3> HIDE DEF N, R, gp, hp, gq, hq, M, p, q, v, k
    <3>0. /\ hp \in Nat /\ hq \in Nat /\ gp \in Nat /\ gq \in Nat /\ N \in Nat /\ R \in Nat
          /\ M \in Nat /\ p \in Nat /\ q \in Nat /\ v \in Nat
      BY <1>1, <2>2, <2>3
    <3>1. q * M = (R * gq) * M + hq * M
      BY <2>3, <3>0
    <3>2. (R * gq) * M = R * (gq * M)
      BY <3>0
    <3>3. hq * M = R * (hq * N)
      BY <2>2, <3>0
    <3>4. gq * M \in Nat /\ hq * N \in Nat /\ hq * M \in Nat
      BY <3>0
    <3>5. R * Value(w) = R * (hq * N) + R * gp + R * (gq * M)
      BY <2>7, <3>0, <3>4
    <3>6. R * (hq * N) \in Nat /\ R * gp \in Nat /\ R * (gq * M) \in Nat
      BY <3>0, <3>4
    <3>7. q * M = R * (gq * M) + R * (hq * N)
      BY <3>1, <3>2, <3>3
    <3>8. QED
      BY <1>1, <2>2, <3>0, <3>5, <3>6, <3>7
  <2> HIDE DEF w, v, hp
  <2>9. w = LimbsOf(v \div 2 ^ n)
    BY <1>2, <2>2, <2>7, <2>8
  <2>10. QED
    BY <2>6, <2>9 DEF v
<1>4. CASE n >= HalfBits
  <2> DEFINE m == n - HalfBits
             N == 2 ^ m
             f == q \div N
             e == q % N
             w == <<f, 0>>
             h == N * M
             r == e * M + p
  <2>1. m \in Nat /\ n % HalfBits = m /\ 2 ^ n = h /\ N \in Nat \ {0}
    <3>1. HalfBits \in Nat \ {0} /\ m \in 0 .. HalfBits - 1 /\ n = HalfBits * 1 + m /\ n \in Nat
      BY <1>4, ModulusIs
    <3>2. n % HalfBits = m
      BY <3>1, DivisionUnique
    <3>3. m + HalfBits <= Width + 1 /\ m + HalfBits = n /\ m \in 0 .. Width + 1
      BY <3>1, ModulusIs
    <3>4. 2 ^ n = N * 2 ^ HalfBits
      BY <3>1, <3>3, PowerOfSum
    <3>5. QED
      BY <3>1, <3>2, <3>3, <3>4, Powers DEF Modulus
  <2>2. f \in Nat /\ e \in 0 .. N - 1 /\ q = N * f + e /\ f \in 0 .. M - 1
    <3> HIDE DEF N, M, q
    <3>1. q \in Nat /\ N \in Nat \ {0}
      BY <1>1, <2>1
    <3>2. f \in Nat /\ e \in Nat /\ e < N /\ q = N * f + e
      BY <3>1, Division
    <3> HIDE DEF f, e
    <3>3. N * f >= f
      BY <3>1, <3>2
    <3>4. N * f \in Nat
      BY <3>1, <3>2
    <3>5. QED
      BY <1>1, <3>1, <3>2, <3>3, <3>4
  <2>3. shift_right(a, n) = {w}
    <3>1. Right(a[2], m) = f
      BY DEF Right
    <3>2. ~(n < HalfBits)
      BY <1>4, ModulusIs
    <3>3. QED
      BY <2>1, <3>1, <3>2 DEF shift_right
  <2>4. w \in Limbs /\ Value(w) = f
    <3> HIDE DEF M, f
    <3>1. f \in Nat /\ 0 \in 0 .. M - 1 /\ f \in 0 .. M - 1 /\ M \in Nat
      BY <1>1, <2>2
    <3>2. w \in Limbs
      BY <3>1, ModulusIs DEF Limbs, M
    <3>3. Value(w) = f
      BY <3>1 DEF Value, M
    <3>4. QED
      BY <3>2, <3>3
  <2>5. v = h * f + r /\ r \in 0 .. h - 1 /\ h \in Nat \ {0}
    <3> HIDE DEF N, M, p, q, v, e, f
    <3>0. N \in Nat /\ M \in Nat /\ p \in Nat /\ q \in Nat /\ v \in Nat /\ e \in Nat /\ f \in Nat
      BY <1>1, <2>1, <2>2
    <3>1. h \in Nat \ {0} /\ e * M \in Nat /\ r \in Nat
      BY <1>1, <2>1, <3>0
    <3>2. q * M = (N * f) * M + e * M
      BY <2>2, <3>0
    <3>3. (N * f) * M = h * f
      BY <3>0
    <3>4. h * f \in Nat
      BY <3>0, <3>1
    <3>5. PICK j \in Nat : N = e + 1 + j
      BY <2>2, <3>0
    <3>6. N * M = e * M + M + j * M /\ j * M \in Nat
      BY <3>0, <3>5
    <3>7. r < h
      BY <1>1, <3>0, <3>1, <3>6
    <3> HIDE DEF h
    <3>8. v = h * f + r
      BY <1>1, <3>0, <3>1, <3>2, <3>3, <3>4
    <3>9. QED
      BY <3>1, <3>7, <3>8
  <2> HIDE DEF w, v, h, r, f
  <2>6. w = LimbsOf(v \div h)
    BY <1>2, <2>4, <2>5
  <2>7. QED
    BY <2>1, <2>3, <2>6 DEF v
<1>5. QED
  BY <1>3, <1>4, ModulusIs-----------------------------------------------------------------------------
(* Reversal, complement and the tests of the kernels.                      *)

LEMMA ReversesAgree ==
  ASSUME NEW a \in Limbs
  PROVE  /\ limb_reverse(a) = LimbsOf(reverse(Value(a))) /\ limb_reverse(a) \in Limbs
         /\ Value(limb_reverse(a)) = reverse(Value(a))
<1>1. /\ a[1] = Value(a) % 2 ^ HalfBits /\ a[2] = Value(a) \div 2 ^ HalfBits
      /\ a[1] \in Nat /\ a[2] \in Nat
  <2>1. a = LimbsOf(Value(a)) /\ a[1] \in Nat /\ a[2] \in Nat
    BY ValueIs, ModulusIs
  <2>2. QED
    BY <2>1 DEF LimbsOf, Modulus
<1>2. reverse_64(a[1]) \in Half /\ reverse_64(a[2]) \in Half
  BY <1>1, ReversesHalf
<1>3. limb_reverse(a) = <<reverse_64(a[2]), reverse_64(a[1])>>
  BY DEF limb_reverse
<1>4. limb_reverse(a) \in Limbs
  BY <1>2, <1>3 DEF Limbs
<1>5. Value(limb_reverse(a)) = reverse_64(a[2]) + reverse_64(a[1]) * 2 ^ HalfBits
  BY <1>3 DEF Value, Modulus
<1>6. reverse(Value(a)) = reverse_64(a[1]) * 2 ^ HalfBits + reverse_64(a[2])
  BY <1>1 DEF reverse, Low
<1>7. reverse_64(a[1]) * 2 ^ HalfBits \in Nat
  <2> DEFINE r == reverse_64(a[1])
             h == 2 ^ HalfBits
  <2>1. r \in Nat /\ h \in Nat
    BY <1>2, WordSizes
  <2> HIDE DEF r, h
  <2>2. r * h \in Nat
    BY <2>1
  <2>3. QED
    BY <2>2 DEF r, h
<1>8. reverse_64(a[2]) \in Nat
  BY <1>2, WordSizes
<1>9. Value(limb_reverse(a)) = reverse(Value(a))
  BY <1>5, <1>6, <1>7, <1>8
<1>10. QED
  BY <1>4, <1>9, ValueIs

LEMMA ComplementsAgree ==
  ASSUME NEW a \in Limbs
  PROVE  complement(a) \in Limbs /\ Value(complement(a)) = Not(Value(a))
<1> DEFINE M == Modulus
           p == a[1]
           q == a[2]
<1>1. /\ p \in 0 .. M - 1 /\ q \in 0 .. M - 1 /\ M \in Nat \ {0}
      /\ Value(a) = p + q * M /\ 2 ^ Width = M * M
  BY ValueIs, ModulusIs DEF Value
<1>2. complement(a) = <<M - 1 - p, M - 1 - q>>
  BY DEF complement
<1>3. complement(a) \in Limbs
  <2> HIDE DEF M, p, q
  <2>1. M - 1 - p \in 0 .. M - 1 /\ M - 1 - q \in 0 .. M - 1
    BY <1>1
  <2>2. QED
    BY <1>2, <2>1, ModulusIs DEF Limbs, M
<1>4. Value(complement(a)) = (M - 1 - p) + (M - 1 - q) * M
  BY <1>2 DEF Value
<1>5. Not(Value(a)) = M * M - 1 - (p + q * M)
  BY <1>1 DEF Not
<1> HIDE DEF M, p, q
<1>6. (M - 1 - q) * M = M * M - M - q * M /\ q * M \in Nat /\ M * M \in Nat
  BY <1>1
<1>7. QED
  BY <1>1, <1>3, <1>4, <1>5, <1>6

\* The limbs of a word have no bit in common with those of another iff the
\* words have none.
LEMMA BothAgree ==
  ASSUME NEW v \in Word, NEW u \in Word
  PROVE  both(LimbsOf(v), LimbsOf(u)) = <<0, 0>> <=> And(Width, v, u) = 0
<1> DEFINE h == 2 ^ HalfBits
           vl == v % h
           vh == v \div h
           ul == u % h
           uh == u \div h
<1>1. /\ HalfBits \in Nat /\ HalfBits \in 0 .. Width /\ Width \in Nat /\ Width = HalfBits + HalfBits
      /\ v \in Nat /\ u \in Nat /\ h \in Nat \ {0} /\ Width \in 0 .. Width
  BY ModulusIs, Widths, WordSizes DEF Word
<1>2. vl \in Nat /\ vh \in Nat /\ ul \in Nat /\ uh \in Nat
  <2> HIDE DEF h
  <2>1. QED
    BY <1>1, Division
<1>3. ASSUME NEW i \in 0 .. HalfBits - 1
      PROVE  /\ Bit(vl, i) = Bit(v, i) /\ Bit(ul, i) = Bit(u, i)
             /\ Bit(vh, i) = Bit(v, HalfBits + i) /\ Bit(uh, i) = Bit(u, HalfBits + i)
  <2>1. i \in Nat /\ i \in 0 .. Width /\ i < HalfBits /\ HalfBits + i <= Width
    BY <1>1
  <2>2. Bit(vl, i) = Bit(v, i) /\ Bit(ul, i) = Bit(u, i)
    BY <1>1, <2>1, BitOfRemainder
  <2>3. Bit(vh, i) = Bit(v, HalfBits + i) /\ Bit(uh, i) = Bit(u, HalfBits + i)
    BY <1>1, <2>1, BitOfQuotient
  <2>4. QED
    BY <2>2, <2>3
<1> HIDE DEF vl, vh, ul, uh, h
<1>4. And(HalfBits, vl, ul) = 0 <=> \A i \in 0 .. HalfBits - 1 : Bit(v, i) = 0 \/ Bit(u, i) = 0
  <2>1. And(HalfBits, vl, ul) = 0 <=> \A i \in 0 .. HalfBits - 1 : Bit(vl, i) = 0 \/ Bit(ul, i) = 0
    BY <1>1, <1>2, AndIsZero
  <2>2. QED
    BY <1>3, <2>1
<1>5. And(HalfBits, vh, uh) = 0 <=>
        \A i \in 0 .. HalfBits - 1 : Bit(v, HalfBits + i) = 0 \/ Bit(u, HalfBits + i) = 0
  <2>1. And(HalfBits, vh, uh) = 0 <=> \A i \in 0 .. HalfBits - 1 : Bit(vh, i) = 0 \/ Bit(uh, i) = 0
    BY <1>1, <1>2, AndIsZero
  <2>2. QED
    BY <1>3, <2>1
<1>6. And(Width, v, u) = 0 <=> \A i \in 0 .. Width - 1 : Bit(v, i) = 0 \/ Bit(u, i) = 0
  BY <1>1, AndIsZero
<1>7. (\A i \in 0 .. Width - 1 : Bit(v, i) = 0 \/ Bit(u, i) = 0) <=>
        /\ \A i \in 0 .. HalfBits - 1 : Bit(v, i) = 0 \/ Bit(u, i) = 0
        /\ \A i \in 0 .. HalfBits - 1 : Bit(v, HalfBits + i) = 0 \/ Bit(u, HalfBits + i) = 0
  <2>1. \A i \in 0 .. HalfBits - 1 : i \in 0 .. Width - 1 /\ HalfBits + i \in 0 .. Width - 1
    BY <1>1
  <2>2. \A i \in 0 .. Width - 1 :
          i \in 0 .. HalfBits - 1 \/ (i - HalfBits \in 0 .. HalfBits - 1 /\ HalfBits + (i - HalfBits) = i)
    BY <1>1
  <2>3. QED
    BY <2>1, <2>2
<1>8. both(LimbsOf(v), LimbsOf(u)) = <<And(HalfBits, vl, ul), And(HalfBits, vh, uh)>>
  BY DEF both, LimbsOf, Modulus, vl, vh, ul, uh, h
<1>9. QED
  BY <1>4, <1>5, <1>6, <1>7, <1>8

\* The difficulty in two limbs is the difficulty.
LEMMA DifficultiesAgree ==
  ASSUME NEW D \in 1 .. Width - 1
  PROVE  limb_bit_difficulty(D) = {LimbsOf(bit_difficulty(D))}
<1> DEFINE one == <<1, 0>>
           power == LimbsOf(2 ^ D)
<1>1. one \in Limbs /\ Value(one) = 1
  <2>1. 1 \in Half /\ 0 \in Half /\ 0 * Modulus = 0
    BY ModulusIs
  <2>2. QED
    BY <2>1 DEF Limbs, Value
<1>2. 2 ^ D \in Word /\ 2 ^ D \in Nat \ {0} /\ 2 ^ Width \in Nat \ {0}
  <2>1. D \in Nat /\ Width \in Nat /\ D < Width /\ Width <= Width + 1 /\ D <= Width
    BY Widths
  <2>2. 2 ^ D < 2 ^ Width /\ 2 ^ D \in Nat \ {0} /\ 2 ^ Width \in Nat \ {0}
    BY <2>1, PowersGrow
  <2>3. QED
    BY <2>2 DEF Word
<1>3. shift_left(one, D) = {power}
  <2>1. (1 * 2 ^ D) % 2 ^ Width = 2 ^ D
    <3> DEFINE u == 2 ^ D
               K == 2 ^ Width
    <3>1. u \in Nat /\ K \in Nat \ {0} /\ u < K
      BY <1>2 DEF Word
    <3> HIDE DEF u, K
    <3>2. (1 * u) % K = u
      BY <3>1, Division
    <3>3. QED
      BY <3>2 DEF u, K
  <2>2. QED
    BY <1>1, <2>1, LeftShiftsAgree
<1>4. power \in Limbs /\ Value(power) = 2 ^ D
  BY <1>2, LimbsAre
<1>5. subtract(power, one) \in Limbs /\ Value(subtract(power, one)) = 2 ^ D - 1
  <2> HIDE DEF power, one
  <2>1. Value(power) >= Value(one)
    BY <1>1, <1>2, <1>4
  <2>2. QED
    BY <1>1, <1>4, <2>1, DifferencesAgree
<1>6. limb_reverse(subtract(power, one)) = LimbsOf(bit_difficulty(D))
  BY <1>5, ReversesAgree DEF bit_difficulty
<1>7. QED
  BY <1>3, <1>6 DEF limb_bit_difficulty

(***************************************************************************)
(* At every width the host without 128-bit integers, the host with them    *)
(* and the kernels agree on every difficulty and on every sum.             *)
(***************************************************************************)
THEOREM KernelsAgree == Spec => []LimbsAgree
<1>1. TypeOK => LimbsAgree
  <2> SUFFICES ASSUME TypeOK, NEW D \in 1 .. Width - 1
               PROVE  /\ limb_bit_difficulty(D) = {LimbsOf(DifficultyTable[D])}
                      /\ kernel_passes_sum(y, LimbsOf(DifficultyTable[D])) = (h1 \in PassTable[D])
                      /\ kernel_passes_quick(y, LimbsOf(ReverseTable[DifficultyTable[D]]))
                           = (h1 \in QuickTable[D])
    BY DEF LimbsAgree
  <2> DEFINE d == bit_difficulty(D)
  <2>1. /\ d \in Word /\ reverse(d) \in Word /\ h1 \in Word
        /\ DifficultyTable[D] = d /\ ReverseTable[d] = reverse(d)
        /\ h1 \in PassTable[D] <=> passes_sum(h1, d)
        /\ h1 \in QuickTable[D] <=> passes_quick(h1, reverse(d))
    BY Tables, DifficultyIs, ReversesWord DEF TypeOK
  <2> HIDE DEF d
  <2>2. limb_bit_difficulty(D) = {LimbsOf(d)}
    BY DifficultiesAgree DEF d
  <2>3. y \in Limbs /\ Value(y) = h1 /\ LimbsOf(d) \in Limbs /\ Value(LimbsOf(d)) = d
    BY <2>1, LimbsAre DEF y
  <2>4. kernel_passes_sum(y, LimbsOf(d)) <=> passes_sum(h1, d)
    <3> DEFINE r == limb_reverse(complement(y))
    <3>1. r \in Limbs /\ Value(r) = reverse(Not(h1))
      BY <2>3, ComplementsAgree, ReversesAgree
    <3> HIDE DEF r
    <3>2. kernel_greater(r, LimbsOf(d)) <=> Value(r) > d
      BY <2>3, <3>1, ComparisonsAgree
    <3>3. QED
      BY <3>1, <3>2 DEF kernel_passes_sum, passes_sum, difficulty, r
  <2>5. kernel_passes_quick(y, LimbsOf(reverse(d))) <=> passes_quick(h1, reverse(d))
    BY <2>1, BothAgree DEF kernel_passes_quick, passes_quick, difficulty_quick, y
  <2>6. kernel_passes_sum(y, LimbsOf(d)) \in BOOLEAN
    BY DEF kernel_passes_sum, kernel_greater
  <2>7. kernel_passes_quick(y, LimbsOf(reverse(d))) \in BOOLEAN
    BY DEF kernel_passes_quick
  <2>8. kernel_passes_sum(y, LimbsOf(d)) = (h1 \in PassTable[D])
    BY <2>1, <2>4, <2>6
  <2>9. kernel_passes_quick(y, LimbsOf(reverse(d))) = (h1 \in QuickTable[D])
    BY <2>1, <2>5, <2>7
  <2>10. QED
    BY <2>1, <2>2, <2>8, <2>9
<1>2. QED
  BY <1>1, WordsKept, PTL-----------------------------------------------------------------------------
(* The remainder.                                                          *)

\* One bit to the left, where it does not overflow, and one to the right.
LEMMA TwiceAndHalved ==
  ASSUME NEW a \in Limbs
  PROVE  /\ twice(a) \in Limbs
         /\ 2 * Value(a) < 2 ^ Width => Value(twice(a)) = 2 * Value(a)
         /\ halved(a) \in Limbs /\ Value(halved(a)) = Value(a) \div 2
<1>1. /\ 1 \in 1 .. Width - 1 /\ 2 ^ 1 = 2 /\ Value(a) \in Nat /\ Value(a) < 2 ^ Width
      /\ 2 ^ Width \in Nat \ {0}
  <2>1. 0 \in 0 .. Width /\ 1 \in 1 .. Width - 1
    BY Widths
  <2>2. 2 ^ (0 + 1) = 2 * 2 ^ 0 /\ 2 ^ 0 = 1
    BY <2>1, Powers
  <2>3. 2 ^ 1 = 2
    BY <2>2
  <2>4. Value(a) \in Word /\ 2 ^ Width \in Nat \ {0}
    BY ValueIs, Powers, Widths
  <2>5. QED
    BY <2>1, <2>3, <2>4 DEF Word
<1> DEFINE K == 2 ^ Width
           v == Value(a)
           t == (v * 2) % K
           h == v \div 2
<1>2. twice(a) = LimbsOf(t)
  <2>1. shift_left(a, 1) = {LimbsOf(t)}
    BY <1>1, LeftShiftsAgree
  <2>2. QED
    BY <2>1 DEF twice
<1>3. halved(a) = LimbsOf(h)
  <2>1. shift_right(a, 1) = {LimbsOf(h)}
    BY <1>1, RightShiftsAgree
  <2>2. QED
    BY <2>1 DEF halved
<1>4. v \in Nat /\ K \in Nat \ {0} /\ v < K /\ Word = 0 .. K - 1
  BY <1>1 DEF Word
<1>5. t \in Word /\ (2 * v < K => t = 2 * v) /\ h \in Word
  <2> HIDE DEF K, v
  <2>1. v * 2 \in Nat /\ v * 2 = 2 * v
    BY <1>4
  <2>2. t \in Nat /\ t < K /\ (v * 2 < K => t = v * 2)
    BY <1>4, <2>1, Division
  <2>3. h \in 0 .. v
    BY <1>4
  <2>4. QED
    BY <1>4, <2>1, <2>2, <2>3
<1> HIDE DEF t, h
<1>6. QED
  BY <1>2, <1>3, <1>5, LimbsAre DEF t, h
\* The divisor is doubled until it is more than half of the dividend: it never
\* overflows.
LEMMA AlignedIs ==
  ASSUME NEW a \in Limbs, NEW b \in Limbs, Value(b) # 0
  PROVE  /\ Aligned(a, b) \in Limbs /\ Value(a) < 2 * Value(Aligned(a, b))
         /\ \E j \in 0 .. Width : Value(Aligned(a, b)) = Value(b) * 2 ^ j
<1> DEFINE half == halved(a)
           X == Value(a)
           H == X \div 2
           double == CHOOSE f : f = [d \in Limbs |->
                       IF less_equal(d, half) THEN f[twice(d)] ELSE d]
           S == {n \in 0 .. Width : \A d \in Limbs :
                   Value(d) # 0 /\ Value(d) * 2 ^ n > H =>
                     /\ double[d] \in Limbs /\ Value(double[d]) > H
                     /\ \E j \in 0 .. n : Value(double[d]) = Value(d) * 2 ^ j}
<1>1. Aligned(a, b) = double[b]
  BY DEF Aligned
<1>2. half \in Limbs /\ Value(half) = H
  BY TwiceAndHalved
<1>3. \A d \in Limbs : twice(d) \in Limbs /\ Value(d) \in Nat /\ Value(d) < 2 ^ Width
  <2> SUFFICES ASSUME NEW d \in Limbs
               PROVE  twice(d) \in Limbs /\ Value(d) \in Nat /\ Value(d) < 2 ^ Width
    OBVIOUS
  <2>1. Value(d) \in 0 .. 2 ^ Width - 1 /\ 2 ^ Width \in Nat
    BY ValueIs, Powers, Widths DEF Word
  <2>2. QED
    BY <2>1, TwiceAndHalved
<1>4. double = [d \in Limbs |-> IF less_equal(d, half) THEN double[twice(d)] ELSE d]
  <2> DEFINE T == {d \in Limbs : ~less_equal(d, half)}
             step == [d \in Limbs |-> twice(d)]
             out == [d \in Limbs |-> d]
  <2>1. T \subseteq Limbs /\ \A p \in Limbs \ T : step[p] \in Limbs
    BY <1>3
  <2>2. PICK f : IsLoop(f, Limbs, T, step, out)
    <3> HIDE DEF T, step, out
    <3>1. QED
      BY <2>1, LoopExists
  <2>3. \A p \in Limbs : (IF p \in T THEN out[p] ELSE f[step[p]])
                           = (IF less_equal(p, half) THEN f[twice(p)] ELSE p)
    OBVIOUS
  <2>4. f = [d \in Limbs |-> IF less_equal(d, half) THEN f[twice(d)] ELSE d]
    <3> HIDE DEF T, step, out
    <3>1. QED
      BY <2>2, <2>3 DEF IsLoop
  <2>5. \E g : g = [d \in Limbs |-> IF less_equal(d, half) THEN g[twice(d)] ELSE d]
    BY <2>4
  <2>6. QED
    BY <2>5
<1> HIDE DEF double
<1>5. X \in Nat /\ H \in Nat /\ X < 2 ^ Width /\ 2 * H <= X /\ X < 2 * H + 2 /\ 2 ^ Width \in Nat
  <2>1. X \in Nat /\ X < 2 ^ Width /\ 2 ^ Width \in Nat
    BY <1>3, Powers, Widths
  <2>2. QED
    BY <2>1
<1> HIDE DEF half, X, H
<1>6. ASSUME NEW d \in Limbs
      PROVE  /\ Value(d) > H => double[d] = d
             /\ Value(d) <= H => double[d] = double[twice(d)] /\ Value(twice(d)) = 2 * Value(d)
  <2>1. less_equal(d, half) <=> Value(d) <= H
    BY <1>2, ComparisonsAgree
  <2>2. Value(d) <= H => 2 * Value(d) < 2 ^ Width
    BY <1>3, <1>5
  <2>3. Value(d) \in Nat
    BY <1>3
  <2>4. double[d] = IF less_equal(d, half) THEN double[twice(d)] ELSE d
    BY <1>4
  <2>5. QED
    BY <1>5, <2>1, <2>2, <2>3, <2>4, TwiceAndHalved
<1>7. 2 ^ 0 = 1 /\ \A n \in 0 .. Width : 2 ^ n \in Nat
  BY Powers, Widths
<1>8. 0 \in S
  <2>1. ASSUME NEW d \in Limbs, Value(d) * 2 ^ 0 > H
        PROVE  /\ double[d] \in Limbs /\ Value(double[d]) > H
               /\ \E j \in 0 .. 0 : Value(double[d]) = Value(d) * 2 ^ j
    <3>1. Value(d) * 2 ^ 0 = Value(d) /\ 0 \in 0 .. 0
      BY <1>3, <1>7
    <3>2. double[d] = d
      BY <1>6, <2>1, <3>1
    <3>3. QED
      BY <2>1, <3>1, <3>2
  <2>2. 0 \in 0 .. Width
    BY Widths
  <2>3. QED
    BY <2>1, <2>2
<1>9. ASSUME NEW n \in 0 .. Width - 1, n \in S PROVE n + 1 \in S
  <2>1. ASSUME NEW d \in Limbs, Value(d) # 0, Value(d) * 2 ^ (n + 1) > H
        PROVE  /\ double[d] \in Limbs /\ Value(double[d]) > H
               /\ \E j \in 0 .. n + 1 : Value(double[d]) = Value(d) * 2 ^ j
    <3>1. CASE Value(d) > H
      <4>1. Value(d) * 2 ^ 0 = Value(d) /\ 0 \in 0 .. n + 1
        BY <1>3, <1>7
      <4>2. QED
        BY <1>6, <3>1, <4>1
    <3>2. CASE Value(d) <= H
      <4> DEFINE e == twice(d)
                 v == Value(d)
      <4>1. e \in Limbs /\ Value(e) = 2 * v /\ double[d] = double[e] /\ v \in Nat
        BY <1>3, <1>6, <3>2
      <4>2. \A k \in 0 .. n : (2 * v) * 2 ^ k = v * 2 ^ (k + 1) /\ k + 1 \in 0 .. n + 1
        <5> SUFFICES ASSUME NEW k \in 0 .. n
                     PROVE  (2 * v) * 2 ^ k = v * 2 ^ (k + 1) /\ k + 1 \in 0 .. n + 1
          OBVIOUS
        <5>1. k \in 0 .. Width
          BY Widths
        <5>2. 2 ^ (k + 1) = 2 * 2 ^ k /\ 2 ^ k \in Nat
          BY <5>1, <1>7, Powers
        <5> HIDE DEF v
        <5> DEFINE u == 2 ^ k
        <5>3. u \in Nat
          BY <5>2
        <5> HIDE DEF u
        <5>4. (2 * v) * u = v * (2 * u)
          BY <4>1, <5>3
        <5>5. QED
          BY <5>2, <5>4 DEF u
      <4> HIDE DEF e, v
      <4>3. n \in 0 .. n /\ Value(e) * 2 ^ n > H /\ Value(e) # 0
        BY <2>1, <4>1, <4>2 DEF v
      <4>4. /\ double[e] \in Limbs /\ Value(double[e]) > H
            /\ \E j \in 0 .. n : Value(double[e]) = Value(e) * 2 ^ j
        BY <1>9, <4>1, <4>3
      <4>5. PICK j \in 0 .. n : Value(double[e]) = Value(e) * 2 ^ j
        BY <4>4
      <4>6. Value(double[d]) = Value(d) * 2 ^ (j + 1) /\ j + 1 \in 0 .. n + 1
        BY <4>1, <4>2, <4>5 DEF v
      <4>7. QED
        BY <4>1, <4>4, <4>6
    <3>3. QED
      BY <1>3, <1>5, <3>1, <3>2
  <2>2. n + 1 \in 0 .. Width
    BY Widths
  <2>3. QED
    BY <2>1, <2>2
<1> HIDE DEF S
<1>10. Width \in S
  <2>1. Width \in Nat
    BY Widths
  <2>2. 0 .. Width \subseteq S
    BY <1>8, <1>9, <2>1, UpTo
  <2>3. QED
    BY <2>1, <2>2
<1>11. Value(b) * 2 ^ Width > H
  <2> DEFINE v == Value(b)
             K == 2 ^ Width
  <2>1. v \in Nat \ {0} /\ K \in Nat /\ H < K
    BY <1>3, <1>5
  <2> HIDE DEF v, K
  <2>2. v * K >= K
    BY <2>1
  <2>3. v * K \in Nat
    BY <2>1
  <2>4. v * K > H
    BY <1>5, <2>1, <2>2, <2>3
  <2>5. QED
    BY <2>4 DEF v, K
<1>12. /\ double[b] \in Limbs /\ Value(double[b]) > H
       /\ \E j \in 0 .. Width : Value(double[b]) = Value(b) * 2 ^ j
  BY <1>10, <1>11 DEF S
<1>13. X < 2 * Value(double[b])
  BY <1>3, <1>5, <1>12
<1>14. QED
  BY <1>1, <1>12, <1>13 DEF X

\* %= is the remainder.
LEMMA RemaindersAgree ==
  ASSUME NEW a \in Limbs, NEW b \in Limbs, Value(b) # 0
  PROVE  modulo(a, b) \in Limbs /\ Value(modulo(a, b)) = Value(a) % Value(b)
<1> DEFINE next(p) == <<IF greater_equal(p[1], p[2]) THEN subtract(p[1], p[2]) ELSE p[1],
                        halved(p[2])>>
           reduce == CHOOSE f : f = [p \in Limbs \X Limbs |->
                       IF ~greater_equal(p[1], b) THEN p[1]
                       ELSE f[<<IF greater_equal(p[1], p[2])
                                THEN subtract(p[1], p[2]) ELSE p[1], halved(p[2])>>]]
           B == Value(b)
           S == {n \in 0 .. Width : \A u, c \in Limbs :
                   Value(c) = B * 2 ^ n /\ Value(u) < 2 * Value(c) =>
                     reduce[<<u, c>>] \in Limbs /\ Value(reduce[<<u, c>>]) = Value(u) % B}
<1>1. modulo(a, b) = reduce[<<a, Aligned(a, b)>>]
  BY DEF modulo
<1>2. reduce = [p \in Limbs \X Limbs |->
                  IF ~greater_equal(p[1], b) THEN p[1] ELSE reduce[next(p)]]
  <2> DEFINE Pairs == Limbs \X Limbs
             T == {p \in Pairs : ~greater_equal(p[1], b)}
             step == [p \in Pairs |-> next(p)]
             out == [p \in Pairs |-> p[1]]
  <2>1. T \subseteq Pairs /\ \A p \in Pairs \ T : step[p] \in Pairs
    <3> SUFFICES ASSUME NEW p \in Pairs PROVE next(p) \in Pairs
      OBVIOUS
    <3>1. p[1] \in Limbs /\ p[2] \in Limbs
      OBVIOUS
    <3>2. subtract(p[1], p[2]) \in Limbs /\ halved(p[2]) \in Limbs
      BY <3>1, DifferencesAgree, TwiceAndHalved
    <3>3. QED
      BY <3>1, <3>2
  <2>2. PICK f : IsLoop(f, Pairs, T, step, out)
    <3> HIDE DEF Pairs, T, step, out
    <3>1. QED
      BY <2>1, LoopExists
  <2>3. \A p \in Pairs : (IF p \in T THEN out[p] ELSE f[step[p]])
                           = (IF ~greater_equal(p[1], b) THEN p[1] ELSE f[next(p)])
    <3> HIDE DEF next
    <3>1. QED
      OBVIOUS
  <2>4. f = [p \in Pairs |-> IF ~greater_equal(p[1], b) THEN p[1] ELSE f[next(p)]]
    <3> HIDE DEF Pairs, T, step, out, next
    <3>1. QED
      BY <2>2, <2>3 DEF IsLoop
  <2>5. \E g : g = [p \in Limbs \X Limbs |->
                      IF ~greater_equal(p[1], b) THEN p[1] ELSE g[next(p)]]
    <3> HIDE DEF next
    <3>1. QED
      BY <2>4
  <2>6. QED
    BY <2>5
<1> HIDE DEF reduce
<1>3. ASSUME NEW u \in Limbs, NEW c \in Limbs
      PROVE  /\ Value(u) \in Nat /\ Value(c) \in Nat /\ B \in Nat \ {0}
             /\ Value(u) < B => reduce[<<u, c>>] = u
             /\ Value(u) >= B /\ Value(u) < Value(c) =>
                  reduce[<<u, c>>] = reduce[<<u, halved(c)>>]
             /\ Value(u) >= B /\ Value(u) >= Value(c) =>
                  reduce[<<u, c>>] = reduce[<<subtract(u, c), halved(c)>>]
  <2> DEFINE p == <<u, c>>
  <2>1. p \in Limbs \X Limbs /\ p[1] = u /\ p[2] = c
    OBVIOUS
  <2>2. reduce[p] = IF ~greater_equal(u, b) THEN u ELSE reduce[next(p)]
    <3> HIDE DEF p, next
    <3>1. QED
      BY <1>2, <2>1
  <2>3. next(p) = <<IF greater_equal(u, c) THEN subtract(u, c) ELSE u, halved(c)>>
    BY <2>1
  <2>4. /\ greater_equal(u, b) <=> Value(u) >= B
        /\ greater_equal(u, c) <=> Value(u) >= Value(c)
        /\ Value(u) \in Nat /\ Value(c) \in Nat /\ B \in Nat \ {0}
    BY ComparisonsAgree, LimbsCompare
  <2> HIDE DEF next, p, B
  <2>5. QED
    BY <2>2, <2>3, <2>4 DEF p
<1>4. B \in Nat \ {0}
  BY <1>3
<1>5. ASSUME NEW v \in Nat, v < B PROVE v % B = v
  <2> HIDE DEF B
  <2>1. QED
    BY <1>4, <1>5, Division
<1> HIDE DEF next, B
<1>6. 0 \in S
  <2>1. ASSUME NEW u \in Limbs, NEW c \in Limbs, Value(c) = B * 2 ^ 0, Value(u) < 2 * Value(c)
        PROVE  reduce[<<u, c>>] \in Limbs /\ Value(reduce[<<u, c>>]) = Value(u) % B
    <3>1. Value(c) = B
      BY <1>4, <2>1, Powers
    <3>2. CASE Value(u) < B
      BY <1>3, <1>5, <3>2
    <3>3. CASE Value(u) >= B
      <4> DEFINE w == subtract(u, c)
                 h == halved(c)
      <4>1. w \in Limbs /\ h \in Limbs /\ Value(w) = Value(u) - B
        BY <1>3, <3>1, <3>3, DifferencesAgree, TwiceAndHalved
      <4>2. reduce[<<u, c>>] = reduce[<<w, h>>]
        BY <1>3, <3>1, <3>3
      <4> HIDE DEF w, h
      <4>0. Value(w) \in Nat /\ Value(u) \in Nat
        BY <4>1, LimbsCompare
      <4>3. Value(w) < B /\ reduce[<<w, h>>] = w
        <5>1. Value(u) < 2 * B
          BY <2>1, <3>1
        <5>2. Value(w) < B
          BY <1>4, <4>0, <4>1, <5>1
        <5>3. QED
          BY <1>3, <4>1, <5>2
      <4>4. Value(u) = B * 1 + Value(w) /\ Value(u) \in Nat /\ Value(w) \in 0 .. B - 1
        BY <1>4, <4>0, <4>1, <4>3
      <4>5. Value(w) = Value(u) % B
        <5>1. 1 \in Nat
          OBVIOUS
        <5>2. QED
          BY <1>4, <4>4, <5>1, DivisionUnique
      <4>6. QED
        BY <4>1, <4>2, <4>3, <4>5
    <3>4. Value(u) < B \/ Value(u) >= B
      BY <1>4, LimbsCompare
    <3>5. QED
      BY <3>2, <3>3, <3>4
  <2>2. QED
    BY <2>1, Widths
<1>7. ASSUME NEW n \in 0 .. Width - 1, n \in S PROVE n + 1 \in S
  <2>1. n \in 0 .. Width /\ n + 1 \in 0 .. Width
    BY Widths
  <2>2. 2 ^ (n + 1) = 2 * 2 ^ n /\ 2 ^ n \in Nat
    BY <2>1, Widths, Powers
  <2>3. ASSUME NEW u \in Limbs, NEW c \in Limbs, Value(c) = B * 2 ^ (n + 1),
               Value(u) < 2 * Value(c)
        PROVE  reduce[<<u, c>>] \in Limbs /\ Value(reduce[<<u, c>>]) = Value(u) % B
    <3> DEFINE h == halved(c)
               k == 2 ^ n
               w == subtract(u, c)
    <3>1. Value(c) = B * (2 * k) /\ k \in Nat
      BY <2>2, <2>3
    <3>2. h \in Limbs /\ Value(h) = Value(c) \div 2
      BY TwiceAndHalved
    <3>3. Value(c) = 2 * (B * k) /\ B * k \in Nat /\ Value(c) \div 2 = B * k
      <4> HIDE DEF k
      <4>1. B * (2 * k) = 2 * (B * k) /\ B * k \in Nat
        BY <1>4, <3>1
      <4>2. \A m \in Nat : (2 * m) \div 2 = m
        OBVIOUS
      <4>3. QED
        BY <3>1, <4>1, <4>2
    <3>4. ASSUME NEW v \in Limbs, Value(v) < Value(c)
          PROVE  reduce[<<v, h>>] \in Limbs /\ Value(reduce[<<v, h>>]) = Value(v) % B
      <4>1. Value(h) = B * 2 ^ n /\ Value(v) < 2 * Value(h)
        BY <3>2, <3>3, <3>4
      <4>2. QED
        BY <1>7, <3>2, <4>1
    <3> HIDE DEF h, k
    <3>5. CASE Value(u) < B
      BY <1>3, <1>5, <3>5
    <3>6. CASE Value(u) >= B /\ Value(u) < Value(c)
      BY <1>3, <3>4, <3>6 DEF h
    <3>7. CASE Value(u) >= B /\ Value(u) >= Value(c)
      <4>1. w \in Limbs /\ Value(w) = Value(u) - Value(c)
        BY <3>7, DifferencesAgree
      <4>2. reduce[<<u, c>>] = reduce[<<w, h>>]
        BY <1>3, <3>7 DEF h
      <4> HIDE DEF w
      <4>0. Value(w) \in Nat /\ Value(u) \in Nat /\ Value(c) \in Nat
        BY <4>1, LimbsCompare
      <4>3. Value(w) < Value(c)
        BY <2>3, <4>0, <4>1
      <4>4. reduce[<<w, h>>] \in Limbs /\ Value(reduce[<<w, h>>]) = Value(w) % B
        BY <3>4, <4>1, <4>3
      <4>5. Value(u) = B * (2 * k) + Value(w) /\ 2 * k \in Nat
        BY <3>1, <4>0, <4>1
      <4>6. Value(u) % B = Value(w) % B
        <5> DEFINE m == 2 * k
                   r == Value(w)
        <5>1. m \in Nat /\ r \in Nat /\ Value(u) = B * m + r
          BY <4>0, <4>5
        <5> HIDE DEF m, r
        <5>2. (B * m + r) % B = r % B
          BY <1>4, <5>1, RemainderOfSum
        <5>3. QED
          BY <5>1, <5>2 DEF r
      <4>7. QED
        BY <4>2, <4>4, <4>6
    <3>8. Value(u) < B \/ (Value(u) >= B /\ (Value(u) < Value(c) \/ Value(u) >= Value(c)))
      BY <1>4, LimbsCompare
    <3>9. QED
      BY <3>5, <3>6, <3>7, <3>8
  <2>4. QED
    BY <2>1, <2>3
<1> HIDE DEF S
<1>8. 0 .. Width \subseteq S
  <2>1. Width \in Nat
    BY Widths
  <2>2. QED
    BY <1>6, <1>7, <2>1, UpTo
<1>9. PICK j \in 0 .. Width : Value(Aligned(a, b)) = B * 2 ^ j
  BY AlignedIs DEF B
<1>10. Aligned(a, b) \in Limbs /\ Value(a) < 2 * Value(Aligned(a, b)) /\ j \in S
  BY <1>8, AlignedIs
<1>11. QED
  BY <1>1, <1>9, <1>10 DEF S, B

(***************************************************************************)
(* The two limbs compute as one number of their joint width does, at every *)
(* width: sums, differences, comparisons, shifts and remainders.           *)
(***************************************************************************)
THEOREM LimbsCompute == Spec => []LimbsAreNumbers
<1>1. TypeOK => LimbsAreNumbers
  <2> SUFFICES ASSUME TypeOK PROVE LimbsAreNumbers
    OBVIOUS
  <2>1. x \in Limbs /\ y \in Limbs
    BY LimbsAre DEF x, y, TypeOK
  <2>2. /\ Value(add(x, y)) = Plus(Value(x), Value(y))
        /\ kernel_sum(x, y) = add(x, y)
        /\ Value(subtract(x, y)) = (Value(x) - Value(y)) % 2 ^ Width
    BY <2>1, SumsAgree, DifferencesAgree DEF Plus
  <2>3. /\ less(x, y) <=> Value(x) < Value(y)
        /\ less_equal(x, y) <=> Value(x) <= Value(y)
        /\ greater(x, y) <=> Value(x) > Value(y)
        /\ kernel_greater(x, y) <=> greater(x, y)
        /\ equal(x, y) <=> Value(x) = Value(y)
        /\ as_bool(x) <=> Value(x) # 0
        /\ as_bool(y) <=> Value(y) # 0
    BY <2>1, ComparisonsAgree
  <2>4. /\ less(x, y) \in BOOLEAN /\ less_equal(x, y) \in BOOLEAN /\ greater(x, y) \in BOOLEAN
        /\ kernel_greater(x, y) \in BOOLEAN /\ equal(x, y) \in BOOLEAN /\ as_bool(x) \in BOOLEAN
    BY DEF less, less_equal, greater, kernel_greater, equal, as_bool
  <2>5. /\ less(x, y) = (Value(x) < Value(y)) /\ less_equal(x, y) = (Value(x) <= Value(y))
        /\ greater(x, y) = (Value(x) > Value(y)) /\ kernel_greater(x, y) = greater(x, y)
        /\ equal(x, y) = (Value(x) = Value(y)) /\ as_bool(x) = (Value(x) # 0)
    BY <2>3, <2>4
  <2>6. \A n \in 1 .. Width - 1 :
          /\ shift_left(x, n) = {LimbsOf((Value(x) * 2 ^ n) % 2 ^ Width)}
          /\ shift_right(x, n) = {LimbsOf(Value(x) \div 2 ^ n)}
    BY <2>1, LeftShiftsAgree, RightShiftsAgree
  <2>7. as_bool(y) => Value(modulo(x, y)) = Value(x) % Value(y)
    BY <2>1, <2>3, RemaindersAgree
  <2>8. QED
    BY <2>2, <2>5, <2>6, <2>7 DEF LimbsAreNumbers
<1>2. QED
  BY <1>1, WordsKept, PTL
=============================================================================
