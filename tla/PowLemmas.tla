------------------------------- MODULE PowLemmas -------------------------------
(***************************************************************************)
(* Facts about natural numbers the proofs rest on, and lemmas about the    *)
(* operators of Pow, for every Scale: powers of two, the bits of a number, *)
(* masks, buckets and the reversal.                                        *)
(***************************************************************************)
EXTENDS Pow, WellFoundedInduction, TLAPS

-----------------------------------------------------------------------------
(* Natural numbers: least elements, induction and recursion up to a bound, *)
(* and loops.  Induction is over a set of numbers instead of a predicate.  *)

\* Every set of natural numbers that is not empty has a least element.
LEMMA LeastExists ==
  ASSUME NEW S, S \subseteq Nat, S # {}
  PROVE  \E m \in S : \A k \in S : m <= k
<1> DEFINE R == {ss \in Nat \X Nat : ss[1] < ss[2]}
<1>1. IsWellFoundedOn(R, Nat)
  BY NatLessThanWellFounded DEF OpToRel
<1>2. \A k, m \in Nat : k < m => <<k, m>> \in R
  OBVIOUS
<1> HIDE DEF R
<1>3. PICK m \in S : \A k \in S : ~(<<k, m>> \in R)
  BY <1>1, WFMin
<1>4. \A k \in S : m <= k
  <2> SUFFICES ASSUME NEW k \in S PROVE m <= k
    OBVIOUS
  <2>1. k \in Nat /\ m \in Nat /\ ~(k < m)
    BY <1>2, <1>3
  <2>2. QED
    BY <2>1
<1>5. QED
  BY <1>4

\* A set that holds 0 and, with each number below n, the next one holds 0 .. n.
LEMMA UpTo ==
  ASSUME NEW n \in Nat, NEW S, 0 \in S, \A k \in 0 .. n - 1 : k \in S => k + 1 \in S
  PROVE  0 .. n \subseteq S
<1> SUFFICES ASSUME (0 .. n) \ S # {} PROVE FALSE
  OBVIOUS
<1> DEFINE Missing == (0 .. n) \ S
<1>1. Missing \subseteq Nat /\ Missing # {}
  OBVIOUS
<1> HIDE DEF Missing
<1>2. PICK m \in Missing : \A k \in Missing : m <= k
  BY <1>1, LeastExists
<1>3. m \in 0 .. n /\ m \notin S /\ m # 0
  BY <1>2 DEF Missing
<1>4. m - 1 \in 0 .. n - 1 /\ m - 1 \notin Missing
  BY <1>2, <1>3
<1>5. m - 1 \in S
  BY <1>4 DEF Missing
<1>6. QED
  BY <1>3, <1>4, <1>5

\* A function up to n made from start step by step, and a step that stays in V.
Follows(f, n, start, step) ==
  f[0] = start /\ \A k \in 1 .. n : f[k] = step[<<k, f[k - 1]>>]
StaysIn(V, n, step) == \A k \in 1 .. n, v \in V : step[<<k, v>>] \in V

\* A function defined by recursion up to n exists, once each step stays in V.
LEMMA RecursionExists ==
  ASSUME NEW n \in Nat, NEW V, NEW start \in V, NEW step, StaysIn(V, n, step)
  PROVE  \E f \in [0 .. n -> V] : Follows(f, n, start, step)
<1> USE DEF Follows, StaysIn
<1> DEFINE Solves(f, m) == f[0] = start /\ \A k \in 1 .. m : f[k] = step[<<k, f[k - 1]>>]
           S == {m \in 0 .. n : \E f \in [0 .. m -> V] : Solves(f, m)}
<1>1. 0 \in S
  <2> DEFINE f == [k \in 0 .. 0 |-> start]
  <2>1. f \in [0 .. 0 -> V] /\ f[0] = start
    OBVIOUS
  <2> HIDE DEF f
  <2>2. 0 \in 0 .. n /\ 1 .. 0 = {}
    OBVIOUS
  <2>3. QED
    BY <2>1, <2>2
<1>2. ASSUME NEW m \in 0 .. n - 1, m \in S PROVE m + 1 \in S
  <2>1. PICK f \in [0 .. m -> V] : Solves(f, m)
    BY <1>2
  <2> DEFINE g == [k \in 0 .. m + 1 |-> IF k = m + 1 THEN step[<<k, f[m]>>] ELSE f[k]]
  <2>2. step[<<m + 1, f[m]>>] \in V
    BY <2>1
  <2>3. g \in [0 .. m + 1 -> V]
    BY <2>1, <2>2
  <2>4. Solves(g, m + 1)
    <3>1. g[0] = start
      BY <2>1
    <3>2. ASSUME NEW k \in 1 .. m + 1 PROVE g[k] = step[<<k, g[k - 1]>>]
      <4>1. CASE k = m + 1
        BY <4>1
      <4>2. CASE k # m + 1
        <5>1. k \in 1 .. m /\ k - 1 \in 0 .. m /\ k - 1 # m + 1 /\ k \in 0 .. m + 1
              /\ k - 1 \in 0 .. m + 1
          BY <4>2
        <5>2. g[k] = f[k] /\ g[k - 1] = f[k - 1]
          BY <5>1, <4>2
        <5>3. f[k] = step[<<k, f[k - 1]>>]
          BY <2>1, <5>1
        <5>4. QED
          BY <5>2, <5>3
      <4>3. QED
        BY <4>1, <4>2
    <3>3. QED
      BY <3>1, <3>2
  <2> HIDE DEF g, Solves
  <2>5. m + 1 \in 0 .. n
    OBVIOUS
  <2>6. QED
    BY <2>3, <2>4, <2>5
<1>3. n \in S
  <2> HIDE DEF S
  <2>1. 0 .. n \subseteq S
    BY <1>1, <1>2, UpTo
  <2>2. QED
    BY <2>1
<1>4. QED
  BY <1>3

\* f is what the loop that takes steps until it is in T returns.
IsLoop(f, S, T, step, out) == f = [p \in S |-> IF p \in T THEN out[p] ELSE f[step[p]]]

\* A loop is a function of what it begins with: of the state it ends in, and of
\* anything where it does not end.
LEMMA LoopExists ==
  ASSUME NEW S, NEW T, T \subseteq S, NEW step, NEW out,
         \A p \in S \ T : step[p] \in S
  PROVE  \E f : IsLoop(f, S, T, step, out)
<1> DEFINE Walks(s, n, p, e) == /\ s[0] = p /\ s[n] = e
                                /\ \A k \in 0 .. n - 1 : s[k] \notin T /\ s[k + 1] = step[s[k]]
           Ends(p) == {e \in T : \E n \in Nat : \E s \in [0 .. n -> S] : Walks(s, n, p, e)}
           f == [p \in S |-> out[CHOOSE e : e \in Ends(p)]]
<1>1. ASSUME NEW p \in T PROVE Ends(p) = {p}
  <2>1. p \in Ends(p)
    <3> DEFINE s == [k \in 0 .. 0 |-> p]
    <3>1. s \in [0 .. 0 -> S] /\ s[0] = p
      OBVIOUS
    <3> HIDE DEF s
    <3>2. Walks(s, 0, p, p)
      BY <3>1
    <3>3. 0 \in Nat
      OBVIOUS
    <3>4. QED
      BY <3>1, <3>2, <3>3
  <2>2. ASSUME NEW e \in Ends(p) PROVE e = p
    <3>0. PICK n \in Nat : \E s \in [0 .. n -> S] : Walks(s, n, p, e)
      OBVIOUS
    <3>1. PICK s \in [0 .. n -> S] : Walks(s, n, p, e)
      BY <3>0
    <3>2. n = 0
      BY <3>1
    <3>3. QED
      BY <3>1, <3>2
  <2>3. QED
    BY <2>1, <2>2
<1>2. ASSUME NEW p \in S \ T PROVE Ends(p) = Ends(step[p])
  <2>1. ASSUME NEW e \in Ends(p) PROVE e \in Ends(step[p])
    <3>0. PICK n \in Nat : \E s \in [0 .. n -> S] : Walks(s, n, p, e)
      OBVIOUS
    <3>1. PICK s \in [0 .. n -> S] : Walks(s, n, p, e)
      BY <3>0
    <3>2. n # 0 /\ n - 1 \in Nat
      <4>1. e \in T
        OBVIOUS
      <4>2. n # 0
        BY <3>1, <4>1
      <4>3. QED
        BY <4>2
    <3> DEFINE t == [k \in 0 .. n - 1 |-> s[k + 1]]
    <3>3. t \in [0 .. n - 1 -> S] /\ \A k \in 0 .. n - 1 : t[k] = s[k + 1]
      <4>1. \A k \in 0 .. n - 1 : k + 1 \in 0 .. n
        OBVIOUS
      <4>2. QED
        BY <4>1
    <3>4. Walks(t, n - 1, step[p], e)
      <4> HIDE DEF t
      <4>1. t[0] = step[p] /\ t[n - 1] = e
        BY <3>1, <3>2, <3>3
      <4>2. ASSUME NEW k \in 0 .. (n - 1) - 1 PROVE t[k] \notin T /\ t[k + 1] = step[t[k]]
        <5>1. k \in 0 .. n - 1 /\ k + 1 \in 0 .. n - 1
          BY <3>2
        <5>2. t[k] = s[k + 1] /\ t[k + 1] = s[k + 1 + 1]
          BY <3>3, <5>1
        <5>3. s[k + 1] \notin T /\ s[k + 1 + 1] = step[s[k + 1]]
          BY <3>1, <5>1
        <5>4. QED
          BY <5>2, <5>3
      <4>3. QED
        BY <4>1, <4>2
    <3> HIDE DEF t
    <3>5. QED
      BY <3>2, <3>3, <3>4
  <2>2. ASSUME NEW e \in Ends(step[p]) PROVE e \in Ends(p)
    <3>0. PICK n \in Nat : \E s \in [0 .. n -> S] : Walks(s, n, step[p], e)
      OBVIOUS
    <3>1. PICK s \in [0 .. n -> S] : Walks(s, n, step[p], e)
      BY <3>0
    <3> DEFINE t == [k \in 0 .. n + 1 |-> IF k = 0 THEN p ELSE s[k - 1]]
    <3>2. t \in [0 .. n + 1 -> S] /\ t[0] = p /\ \A k \in 1 .. n + 1 : t[k] = s[k - 1]
      <4>1. \A k \in 1 .. n + 1 : k - 1 \in 0 .. n
        OBVIOUS
      <4>2. QED
        BY <4>1
    <3>3. Walks(t, n + 1, p, e)
      <4> HIDE DEF t
      <4>1. t[0] = p /\ t[n + 1] = e
        BY <3>1, <3>2
      <4>2. ASSUME NEW k \in 0 .. (n + 1) - 1 PROVE t[k] \notin T /\ t[k + 1] = step[t[k]]
        <5>1. k = 0 \/ (k \in 1 .. n + 1 /\ k - 1 \in 0 .. n - 1 /\ (k - 1) + 1 = k)
          OBVIOUS
        <5>2. k + 1 \in 1 .. n + 1 /\ t[k + 1] = s[k]
          BY <3>2
        <5>3. CASE k = 0
          BY <3>1, <3>2, <5>2, <5>3
        <5>4. CASE k # 0
          <6>1. t[k] = s[k - 1] /\ s[k - 1] \notin T /\ s[k] = step[s[k - 1]]
            BY <3>1, <3>2, <5>1, <5>4
          <6>2. QED
            BY <5>2, <6>1
        <5>5. QED
          BY <5>3, <5>4
      <4>3. QED
        BY <4>1, <4>2
    <3> HIDE DEF t
    <3>4. n + 1 \in Nat
      OBVIOUS
    <3>5. QED
      BY <3>2, <3>3, <3>4
  <2>3. QED
    BY <2>1, <2>2
<1> HIDE DEF Ends
<1>3. ASSUME NEW p \in S PROVE f[p] = IF p \in T THEN out[p] ELSE f[step[p]]
  <2>1. CASE p \in T
    BY <1>1, <2>1
  <2>2. CASE p \notin T
    BY <1>2, <2>2
  <2>3. QED
    BY <2>1, <2>2
<1>4. f = [p \in S |-> f[p]]
  OBVIOUS
<1> HIDE DEF f
<1>5. IsLoop(f, S, T, step, out)
  BY <1>3, <1>4 DEF IsLoop
<1>6. QED
  BY <1>5

-----------------------------------------------------------------------------
(* Quotients and remainders.                                               *)

\* The two parts of a number.
LEMMA Division ==
  ASSUME NEW a \in Nat, NEW h \in Nat \ {0}
  PROVE  /\ a \div h \in Nat /\ a % h \in Nat /\ a % h < h
         /\ a = h * (a \div h) + (a % h)
         /\ a < h => a % h = a /\ a \div h = 0
<1>1. a \div h \in Nat
  BY SMTT(30)
<1>2. a % h \in Nat /\ a % h < h
  OBVIOUS
<1>3. a = h * (a \div h) + (a % h)
  BY Z3
<1>4. a < h => a % h = a /\ a \div h = 0
  BY SMTT(30)
<1>5. QED
  BY <1>1, <1>2, <1>3, <1>4

\* They are the only such parts.
LEMMA DivisionUnique ==
  ASSUME NEW a \in Nat, NEW h \in Nat \ {0}, NEW q \in Nat, NEW r \in 0 .. h - 1,
         a = h * q + r
  PROVE  q = a \div h /\ r = a % h
BY SMTT(60)

\* Just below 0, remainders count down from the divisor.
LEMMA RemainderBelow ==
  ASSUME NEW h \in Nat \ {0}, NEW k \in 1 .. h
  PROVE  (0 - k) % h = h - k
BY SMTT(60)

\* A larger number has no smaller a quotient.
LEMMA QuotientsGrow ==
  ASSUME NEW a \in Nat, NEW b \in Nat, NEW h \in Nat \ {0}, a <= b
  PROVE  a \div h <= b \div h
<1> DEFINE q == a \div h
           r == a % h
           p == b \div h
           t == b % h
<1>1. /\ q \in Nat /\ r \in Nat /\ a = h * q + r
      /\ p \in Nat /\ t \in Nat /\ t < h /\ b = h * p + t
  BY Division
<1> HIDE DEF q, r, p, t
<1>2. ~(p < q)
  <2> SUFFICES ASSUME p < q PROVE FALSE
    OBVIOUS
  <2>1. h * (p + 1) <= h * q /\ h * (p + 1) = h * p + h
    BY <1>1
  <2>2. QED
    BY <1>1, <2>1
<1>3. QED
  BY <1>1, <1>2 DEF q, p

\* Whole multiples do not matter to a remainder.
LEMMA RemainderOfSum ==
  ASSUME NEW a \in Nat, NEW q \in Nat, NEW h \in Nat \ {0}
  PROVE  (h * q + a) % h = a % h /\ (h * q + a) \div h = q + a \div h
<1>1. a \div h \in Nat /\ a % h \in 0 .. h - 1 /\ a = h * (a \div h) + (a % h)
  BY Division
<1>2. h * q + a = h * (q + a \div h) + (a % h)
  BY <1>1
<1>3. h * q + a \in Nat /\ q + a \div h \in Nat
  BY <1>1
<1>4. QED
  BY <1>1, <1>2, <1>3, DivisionUnique

\* A remainder of a sum is one of the remainders' sum.
LEMMA RemaindersAdd ==
  ASSUME NEW a \in Nat, NEW b \in Nat, NEW h \in Nat \ {0}
  PROVE  (a + b) % h = ((a % h) + (b % h)) % h
<1> DEFINE q == a \div h
           r == a % h
           p == b \div h
           t == b % h
<1>1. q \in Nat /\ r \in Nat /\ a = h * q + r /\ p \in Nat /\ t \in Nat /\ b = h * p + t
  BY Division
<1> HIDE DEF q, r, p, t
<1>2. a + b = h * (q + p) + (r + t)
  BY <1>1
<1>3. q + p \in Nat /\ r + t \in Nat
  BY <1>1
<1>4. (h * (q + p) + (r + t)) % h = (r + t) % h
  BY <1>3, RemainderOfSum
<1>5. QED
  BY <1>2, <1>4 DEF r, t

\* Of two numbers whose sum is a multiple of c, one has the remainder of the
\* other taken from a multiple of c.
LEMMA Opposite ==
  ASSUME NEW c \in Nat \ {0}, NEW n \in Nat, NEW a \in Nat, NEW b \in Nat,
         b <= n, n % c = 0, (a + b) % c = 0
  PROVE  (n - b) % c = a % c
<1> DEFINE q == n \div c
           p == (a + b) \div c
<1>1. q \in Nat /\ n = c * q + (n % c) /\ p \in Nat /\ a + b = c * p + ((a + b) % c)
  BY Division
<1> HIDE DEF q, p
<1>2. n = c * q /\ a + b = c * p /\ n - b \in Nat /\ c * p \in Nat /\ c * q \in Nat
  BY <1>1
<1>3. c * p + (n - b) = c * q + a
  <2> DEFINE u == c * p
             v == c * q
  <2>1. u \in Nat /\ v \in Nat /\ n = v /\ a + b = u
    BY <1>2
  <2> HIDE DEF u, v
  <2>2. u + (n - b) = v + a
    BY <2>1
  <2>3. QED
    BY <2>2 DEF u, v
<1>4. (c * p + (n - b)) % c = (n - b) % c /\ (c * q + a) % c = a % c
  BY <1>1, <1>2, RemainderOfSum
<1>5. QED
  BY <1>3, <1>4

-----------------------------------------------------------------------------
(* Powers of two.                                                          *)

\* The widths are numbers, proportional to that of a left preimage, which is
\* even.
LEMMA Widths ==
  /\ LhsBits \in Nat /\ 2 * (LhsBits \div 2) = LhsBits /\ LhsBits >= 2
  /\ HalfBits = 2 * LhsBits /\ Width = 4 * LhsBits
  /\ RhsBits = LhsBits + LhsBits \div 2 /\ RhsBits \in Nat
  /\ HalfBits \in Nat /\ Width \in Nat /\ RhsBits < HalfBits
  /\ 2 ^ (Scale + 1) = HalfBits /\ Scale + 1 < HalfBits /\ Scale < LhsBits
<1> DEFINE S == {k \in 0 .. Scale + 1 : 2 ^ k \in Nat /\ 2 ^ k > k}
<1>1. 0 \in S
  BY ScaleAssumption
<1>2. ASSUME NEW k \in 0 .. Scale, k \in S PROVE k + 1 \in S
  <2>1. 2 ^ (k + 1) = 2 * 2 ^ k
    BY PowersOfTwo
  <2>2. 2 ^ k \in Nat /\ 2 ^ k > k
    BY <1>2
  <2>3. 2 ^ (k + 1) \in Nat /\ 2 ^ (k + 1) > k + 1
    BY <2>1, <2>2
  <2>4. QED
    BY <2>3, ScaleAssumption
<1>3. 0 .. Scale + 1 \subseteq S
  <2>1. Scale + 1 \in Nat
    BY ScaleAssumption
  <2>2. \A k \in 0 .. (Scale + 1) - 1 : k \in S => k + 1 \in S
    BY <1>2, ScaleAssumption
  <2> HIDE DEF S
  <2>3. QED
    BY <1>1, <2>1, <2>2, UpTo
<1>4. /\ Scale + 1 \in 0 .. Scale + 1 /\ Scale \in 0 .. Scale + 1 /\ Scale - 1 \in 0 .. Scale + 1
      /\ Scale - 1 \in 0 .. Scale /\ Scale \in 0 .. Scale /\ (Scale - 1) + 1 = Scale
  BY ScaleAssumption
<1>5. /\ 2 ^ Scale = 2 * 2 ^ (Scale - 1) /\ 2 ^ (Scale + 1) = 2 * 2 ^ Scale
  BY <1>4, PowersOfTwo
<1>6. /\ 2 ^ Scale \in Nat /\ 2 ^ (Scale - 1) \in Nat /\ 2 ^ (Scale - 1) > Scale - 1
      /\ 2 ^ Scale > Scale /\ 2 ^ (Scale + 1) > Scale + 1
  BY <1>3, <1>4
<1>7. LhsBits \in Nat /\ 2 * (LhsBits \div 2) = LhsBits /\ LhsBits >= 2
  BY <1>5, <1>6, ScaleAssumption DEF LhsBits
<1>8. HalfBits = 2 * LhsBits /\ Width = 4 * LhsBits /\ RhsBits = LhsBits + LhsBits \div 2
  BY DEF HalfBits, Width, RhsBits
<1>9. 2 ^ (Scale + 1) = HalfBits /\ Scale + 1 < HalfBits /\ Scale < LhsBits
  BY <1>5, <1>6, <1>8 DEF LhsBits
<1> HIDE DEF S
<1>10. RhsBits \in Nat /\ HalfBits \in Nat /\ Width \in Nat /\ RhsBits < HalfBits
  BY <1>7, <1>8
<1>11. QED
  BY <1>7, <1>8, <1>9, <1>10

\* Powers of two are positive, and each is twice the one before.
LEMMA Powers ==
  /\ 2 ^ 0 = 1
  /\ \A n \in 0 .. Width + 1 : 2 ^ n \in Nat /\ 2 ^ n > 0
  /\ \A n \in 0 .. Width : 2 ^ (n + 1) = 2 * 2 ^ n
<1> DEFINE S == {n \in 0 .. Width + 1 : 2 ^ n \in Nat /\ 2 ^ n > 0}
<1>1. 0 \in S
  BY Widths
<1>2. ASSUME NEW n \in 0 .. (Width + 1) - 1, n \in S PROVE n + 1 \in S
  <2>1. n \in 0 .. Width /\ n + 1 \in 0 .. Width + 1
    BY Widths
  <2>2. 2 ^ (n + 1) = 2 * 2 ^ n
    BY <2>1, PowersOfTwo
  <2>3. 2 ^ n \in Nat /\ 2 ^ n > 0
    BY <1>2
  <2>4. QED
    BY <2>1, <2>2, <2>3
<1>3. 0 .. Width + 1 \subseteq S
  <2>1. Width + 1 \in Nat
    BY Widths
  <2> HIDE DEF S
  <2>2. QED
    BY <1>1, <1>2, <2>1, UpTo
<1>4. QED
  BY <1>3, PowersOfTwo

\* Exponents add up.
LEMMA PowerOfSum ==
  ASSUME NEW m \in Nat, NEW n \in Nat, m + n <= Width + 1
  PROVE  2 ^ (m + n) = 2 ^ m * 2 ^ n
<1> DEFINE S == {k \in 0 .. n : 2 ^ (m + k) = 2 ^ m * 2 ^ k}
<1>1. 0 \in S
  <2>1. m \in 0 .. Width + 1 /\ m + 0 = m /\ 0 \in 0 .. n
    BY Widths
  <2>2. 2 ^ m \in Nat
    BY <2>1, Powers
  <2>3. 2 ^ (m + 0) = 2 ^ m * 2 ^ 0
    BY <2>1, <2>2, Powers
  <2>4. QED
    BY <2>1, <2>3
<1>2. ASSUME NEW k \in 0 .. n - 1, k \in S PROVE k + 1 \in S
  <2>1. m \in 0 .. Width /\ k \in 0 .. Width /\ m + k \in 0 .. Width /\ k + 1 \in 0 .. n
        /\ m + (k + 1) = (m + k) + 1
    BY Widths
  <2>2. 2 ^ m \in Nat /\ 2 ^ k \in Nat /\ 2 ^ (k + 1) = 2 * 2 ^ k
        /\ 2 ^ ((m + k) + 1) = 2 * 2 ^ (m + k)
    BY <2>1, Widths, Powers
  <2>3. 2 ^ (m + k) = 2 ^ m * 2 ^ k
    BY <1>2
  <2>4. 2 * (2 ^ m * 2 ^ k) = 2 ^ m * (2 * 2 ^ k)
    BY <2>2
  <2>5. 2 ^ (m + (k + 1)) = 2 ^ m * 2 ^ (k + 1)
    BY <2>1, <2>2, <2>3, <2>4
  <2>6. QED
    BY <2>1, <2>5
<1>3. 0 .. n \subseteq S
  <2> HIDE DEF S
  <2>1. QED
    BY <1>1, <1>2, UpTo
<1>4. n \in S
  BY <1>3
<1>5. QED
  BY <1>4

\* And order the powers.
LEMMA PowersGrow ==
  ASSUME NEW m \in Nat, NEW n \in Nat, n <= Width + 1, m <= n
  PROVE  /\ 2 ^ m <= 2 ^ n /\ 2 ^ n = 2 ^ m * 2 ^ (n - m) /\ (m < n => 2 ^ m < 2 ^ n)
         /\ 2 ^ m \in Nat \ {0} /\ 2 ^ n \in Nat \ {0} /\ 2 ^ (n - m) \in Nat \ {0}
<1>1. /\ n - m \in Nat /\ m + (n - m) = n /\ m \in 0 .. Width + 1 /\ n - m \in 0 .. Width + 1
      /\ n \in 0 .. Width + 1
  BY Widths
<1>2. 2 ^ n = 2 ^ m * 2 ^ (n - m)
  BY <1>1, PowerOfSum
<1>3. 2 ^ m \in Nat \ {0} /\ 2 ^ (n - m) \in Nat \ {0} /\ 2 ^ n \in Nat \ {0}
  BY <1>1, Powers
<1>4. 2 ^ m <= 2 ^ m * 2 ^ (n - m)
  BY <1>3
<1>5. ASSUME m < n PROVE 2 ^ m < 2 ^ n
  <2>1. PICK k \in 0 .. Width : n - m = k + 1
    <3>1. (n - m) - 1 \in 0 .. Width /\ n - m = ((n - m) - 1) + 1
      BY <1>1, <1>5, Widths
    <3>2. QED
      BY <3>1
  <2>2. 2 ^ (n - m) = 2 * 2 ^ k /\ 2 ^ k \in Nat \ {0}
    BY <2>1, Widths, Powers
  <2>3. 2 ^ m < 2 ^ m * (2 * 2 ^ k)
    BY <1>3, <2>2
  <2>4. QED
    BY <1>2, <2>2, <2>3
<1>6. QED
  BY <1>2, <1>3, <1>4, <1>5

\* A power divides a higher one an even number of times.
LEMMA PowersDivide ==
  ASSUME NEW m \in Nat, NEW n \in Nat, n <= Width + 1, m < n
  PROVE  \E c \in Nat \ {0} : 2 ^ n = 2 ^ m * (2 * c)
<1>1. PICK k \in 0 .. Width : n - m = k + 1
  <2>1. (n - m) - 1 \in 0 .. Width /\ n - m = ((n - m) - 1) + 1
    BY Widths
  <2>2. QED
    BY <2>1
<1>2. 2 ^ (n - m) = 2 * 2 ^ k /\ 2 ^ k \in Nat \ {0}
  BY <1>1, Widths, Powers
<1>3. 2 ^ n = 2 ^ m * 2 ^ (n - m)
  BY PowersGrow
<1>4. QED
  BY <1>2, <1>3

\* The remainder by a power is that of the remainder by a higher one.
LEMMA RemainderOfRemainder ==
  ASSUME NEW m \in Nat, NEW n \in Nat, n <= Width + 1, m <= n, NEW x \in Nat
  PROVE  (x % 2 ^ n) % 2 ^ m = x % 2 ^ m /\ x % 2 ^ n \in Nat
<1> DEFINE c == 2 ^ m
           e == 2 ^ (n - m)
           h == 2 ^ n
           q == x \div h
           r == x % h
<1>1. c \in Nat \ {0} /\ e \in Nat \ {0} /\ h = c * e /\ h \in Nat \ {0}
  BY PowersGrow
<1> HIDE DEF c, e, h
<1>2. q \in Nat /\ r \in Nat /\ x = h * q + r
  BY <1>1, Division
<1> HIDE DEF q, r
<1>3. x = c * (e * q) + r /\ e * q \in Nat
  <2>1. (c * e) * q = c * (e * q)
    BY <1>1, <1>2
  <2>2. QED
    BY <1>1, <1>2, <2>1
<1>4. (c * (e * q) + r) % c = r % c
  BY <1>1, <1>2, <1>3, RemainderOfSum
<1>5. QED
  BY <1>2, <1>3, <1>4 DEF r, c, h

-----------------------------------------------------------------------------
(* Bits.                                                                   *)

\* A bit is 0 or 1, and the low i + 1 bits of a number are its low i bits and
\* bit i.
LEMMA BitSplits ==
  ASSUME NEW x \in Nat, NEW i \in 0 .. Width
  PROVE  /\ Bit(x, i) \in {0, 1}
         /\ x % 2 ^ (i + 1) = (x % 2 ^ i) + Bit(x, i) * 2 ^ i
         /\ x % 2 ^ i \in 0 .. 2 ^ i - 1 /\ 2 ^ i \in Nat \ {0}
<1> DEFINE h == 2 ^ i
           q == x \div h
           r == x % h
<1>1. h \in Nat \ {0} /\ 2 ^ (i + 1) = 2 * h
  BY Widths, Powers
<1> HIDE DEF h
<1>2. q \in Nat /\ r \in 0 .. h - 1 /\ x = h * q + r
  BY <1>1, Division
<1> HIDE DEF q, r
<1>3. q \div 2 \in Nat /\ q % 2 \in {0, 1} /\ q = 2 * (q \div 2) + (q % 2)
  BY <1>2
<1> DEFINE b == q % 2
           p == q \div 2
<1>4. b \in {0, 1} /\ p \in Nat /\ q = 2 * p + b
  BY <1>3
<1> HIDE DEF b, p
<1>5. x = (2 * h) * p + (b * h + r)
  <2>1. h * (2 * p + b) = (2 * h) * p + b * h
    BY <1>1, <1>4
  <2>2. b * h \in Nat /\ (2 * h) * p \in Nat
    BY <1>1, <1>4
  <2>3. QED
    BY <1>2, <1>4, <2>1, <2>2
<1>6. b * h + r \in 0 .. 2 * h - 1
  BY <1>1, <1>2, <1>4
<1>7. 2 * h \in Nat \ {0}
  BY <1>1
<1>8. b * h + r = x % (2 * h)
  BY <1>4, <1>5, <1>6, <1>7, DivisionUnique
<1>9. b = Bit(x, i)
  BY DEF b, q, h, Bit
<1>10. x % 2 ^ (i + 1) = r + b * h
  BY <1>1, <1>2, <1>4, <1>8
<1>11. QED
  BY <1>1, <1>2, <1>4, <1>9, <1>10 DEF r, h

\* A number of n bits is known by its bits.
LEMMA BitsDetermine ==
  ASSUME NEW n \in 0 .. Width, NEW x \in 0 .. 2 ^ n - 1, NEW y \in 0 .. 2 ^ n - 1,
         \A i \in 0 .. n - 1 : Bit(x, i) = Bit(y, i)
  PROVE  x = y
<1> DEFINE S == {k \in 0 .. n : x % 2 ^ k = y % 2 ^ k}
<1>0. x \in Nat /\ y \in Nat /\ n \in Nat /\ 2 ^ n \in Nat \ {0}
  BY Widths, Powers
<1>1. 0 \in S
  <2>1. x % 1 = 0 /\ y % 1 = 0 /\ 2 ^ 0 = 1
    BY <1>0, Powers
  <2>2. QED
    BY <2>1
<1>2. ASSUME NEW k \in 0 .. n - 1, k \in S PROVE k + 1 \in S
  <2>1. k \in 0 .. Width /\ k + 1 \in 0 .. n
    BY Widths
  <2>2. x % 2 ^ (k + 1) = (x % 2 ^ k) + Bit(x, k) * 2 ^ k
    BY <1>0, <2>1, BitSplits
  <2>3. y % 2 ^ (k + 1) = (y % 2 ^ k) + Bit(y, k) * 2 ^ k
    BY <1>0, <2>1, BitSplits
  <2>4. x % 2 ^ k = y % 2 ^ k
    BY <1>2
  <2>5. QED
    BY <2>1, <2>2, <2>3, <2>4
<1>3. n \in S
  <2> HIDE DEF S
  <2>1. 0 .. n \subseteq S
    BY <1>0, <1>1, <1>2, UpTo
  <2>2. QED
    BY <1>0, <2>1
<1>4. x % 2 ^ n = x /\ y % 2 ^ n = y
  BY <1>0, Division
<1>5. QED
  BY <1>3, <1>4

\* The bits a number gets when bit k is put on top of k bits.
LEMMA BitsOnTop ==
  ASSUME NEW k \in 0 .. Width, NEW z \in 0 .. 2 ^ k - 1, NEW b \in {0, 1}
  PROVE  /\ z + b * 2 ^ k \in 0 .. 2 ^ (k + 1) - 1
         /\ Bit(z + b * 2 ^ k, k) = b
         /\ \A i \in 0 .. k - 1 : Bit(z + b * 2 ^ k, i) = Bit(z, i)
<1> DEFINE h == 2 ^ k
           x == z + b * h
<1>1. h \in Nat \ {0} /\ 2 ^ (k + 1) = 2 * h
  BY Widths, Powers
<1>2. x \in 0 .. 2 ^ (k + 1) - 1
  BY <1>1
<1>3. Bit(x, k) = b
  <2>1. x = h * b + z /\ z \in 0 .. h - 1 /\ b \in Nat /\ x \in Nat
    BY <1>1, <1>2
  <2> HIDE DEF h, x
  <2>2. b = x \div h
    BY <1>1, <2>1, DivisionUnique
  <2>3. b % 2 = b
    OBVIOUS
  <2>4. QED
    BY <2>2, <2>3 DEF Bit, h
<1>4. ASSUME NEW i \in 0 .. k - 1 PROVE Bit(x, i) = Bit(z, i)
  <2>1. i \in Nat /\ k \in Nat /\ k <= Width + 1 /\ i < k
    BY Widths
  <2>2. PICK c \in Nat \ {0} : h = 2 ^ i * (2 * c)
    BY <2>1, PowersDivide
  <2> DEFINE g == 2 ^ i
             q == z \div g
  <2>3. g \in Nat \ {0} /\ z \in Nat
    BY <1>1, <2>1, PowersGrow
  <2> HIDE DEF g, h
  <2>4. q \in Nat
    BY <2>3, Division
  <2>5. x = g * (2 * (b * c)) + z
    <3>1. b * (g * (2 * c)) = g * (2 * (b * c)) /\ g * (2 * (b * c)) \in Nat
      BY <2>3
    <3>2. QED
      BY <2>2, <2>3, <3>1 DEF g
  <2>6. 2 * (b * c) \in Nat /\ b * c \in Nat
    OBVIOUS
  <2>7. x \div g = 2 * (b * c) + q
    <3>1. (g * (2 * (b * c)) + z) \div g = 2 * (b * c) + z \div g
      BY <2>3, <2>6, RemainderOfSum
    <3>2. QED
      BY <2>5, <3>1
  <2>8. (2 * (b * c) + q) % 2 = q % 2
    BY <2>4, <2>6, RemainderOfSum
  <2>9. QED
    BY <2>7, <2>8 DEF Bit, g
<1>5. QED
  BY <1>2, <1>3, <1>4

\* FromBits makes the number whose bits it is given.
LEMMA FromBitsIs ==
  ASSUME NEW n \in 0 .. Width, NEW b \in [0 .. n - 1 -> {0, 1}]
  PROVE  /\ FromBits(n, b) \in 0 .. 2 ^ n - 1
         /\ \A i \in 0 .. n - 1 : Bit(FromBits(n, b), i) = b[i]
<1> DEFINE below == CHOOSE f : f = [k \in 0 .. n |->
                      IF k = 0 THEN 0 ELSE f[k - 1] + b[k - 1] * 2 ^ (k - 1)]
           S == {k \in 0 .. n : /\ below[k] \in 0 .. 2 ^ k - 1
                                /\ \A i \in 0 .. k - 1 : Bit(below[k], i) = b[i]}
<1>0. n \in Nat
  BY Widths
<1>1. FromBits(n, b) = below[n]
  BY DEF FromBits
<1>2. below = [k \in 0 .. n |-> IF k = 0 THEN 0 ELSE below[k - 1] + b[k - 1] * 2 ^ (k - 1)]
  <2> DEFINE step == [p \in (1 .. n) \X Nat |-> p[2] + b[p[1] - 1] * 2 ^ (p[1] - 1)]
  <2>1. \A k \in 1 .. n, v \in Nat : step[<<k, v>>] = v + b[k - 1] * 2 ^ (k - 1)
    OBVIOUS
  <2>2. \A k \in 1 .. n, v \in Nat : step[<<k, v>>] \in Nat
    <3> SUFFICES ASSUME NEW k \in 1 .. n, NEW v \in Nat PROVE step[<<k, v>>] \in Nat
      OBVIOUS
    <3>1. k - 1 \in 0 .. Width + 1 /\ k - 1 \in 0 .. n - 1
      BY Widths
    <3>2. 2 ^ (k - 1) \in Nat /\ b[k - 1] \in {0, 1}
      BY <3>1, Powers
    <3>3. v + b[k - 1] * 2 ^ (k - 1) \in Nat
      BY <3>2
    <3> HIDE DEF step
    <3>4. QED
      BY <2>1, <3>3
  <2> HIDE DEF step
  <2>0. 0 \in Nat
    OBVIOUS
  <2>3. PICK f \in [0 .. n -> Nat] :
          f[0] = 0 /\ \A k \in 1 .. n : f[k] = step[<<k, f[k - 1]>>]
    <3>1. StaysIn(Nat, n, step)
      BY <2>2 DEF StaysIn
    <3>2. \E f \in [0 .. n -> Nat] : Follows(f, n, 0, step)
      BY <1>0, <2>0, <3>1, RecursionExists
    <3>3. QED
      BY <3>2 DEF Follows
  <2>4. f = [k \in 0 .. n |-> IF k = 0 THEN 0 ELSE f[k - 1] + b[k - 1] * 2 ^ (k - 1)]
    <3>1. \A k \in 1 .. n : f[k] = f[k - 1] + b[k - 1] * 2 ^ (k - 1)
      <4>1. \A k \in 1 .. n : f[k - 1] \in Nat
        OBVIOUS
      <4>2. QED
        BY <2>1, <2>3, <4>1
    <3>2. \A k \in 0 .. n : k = 0 \/ k \in 1 .. n
      OBVIOUS
    <3>3. QED
      BY <2>3, <3>1, <3>2
  <2>5. QED
    BY <2>4
<1> HIDE DEF below
<1>3. below[0] = 0 /\ \A k \in 0 .. n - 1 : below[k + 1] = below[k] + b[k] * 2 ^ k
  <2>1. 0 \in 0 .. n /\ \A k \in 0 .. n - 1 : k + 1 \in 0 .. n /\ k + 1 # 0 /\ (k + 1) - 1 = k
    BY <1>0
  <2>2. QED
    BY <1>2, <2>1
<1>4. 0 \in S
  <2>1. 2 ^ 0 = 1
    BY Powers
  <2>2. QED
    BY <1>0, <1>3, <2>1
<1>5. ASSUME NEW k \in 0 .. n - 1, k \in S PROVE k + 1 \in S
  <2>1. k \in 0 .. Width /\ k + 1 \in 0 .. n /\ b[k] \in {0, 1}
    BY Widths
  <2>2. below[k] \in 0 .. 2 ^ k - 1 /\ \A i \in 0 .. k - 1 : Bit(below[k], i) = b[i]
    BY <1>5
  <2>3. /\ below[k + 1] \in 0 .. 2 ^ (k + 1) - 1
        /\ Bit(below[k + 1], k) = b[k]
        /\ \A i \in 0 .. k - 1 : Bit(below[k + 1], i) = Bit(below[k], i)
    BY <1>3, <2>1, <2>2, BitsOnTop
  <2>4. \A i \in 0 .. (k + 1) - 1 : i = k \/ i \in 0 .. k - 1
    OBVIOUS
  <2>5. QED
    BY <2>1, <2>2, <2>3, <2>4
<1>6. n \in S
  <2> HIDE DEF S
  <2>1. 0 .. n \subseteq S
    BY <1>0, <1>4, <1>5, UpTo
  <2>2. QED
    BY <1>0, <2>1
<1>7. QED
  BY <1>1, <1>6

\* The bits of a number are those of its quotient by a power of two ...
LEMMA BitOfQuotient ==
  ASSUME NEW x \in Nat, NEW k \in Nat, NEW i \in Nat, k + i <= Width
  PROVE  Bit(x \div 2 ^ k, i) = Bit(x, k + i) /\ x \div 2 ^ k \in Nat
<1> DEFINE g == 2 ^ k
           h == 2 ^ i
           q == x \div g
           r == x % g
           p == q \div h
           t == q % h
<1>1. g \in Nat \ {0} /\ h \in Nat \ {0} /\ 2 ^ (k + i) = g * h
  <2>1. k \in 0 .. Width + 1 /\ i \in 0 .. Width + 1 /\ k + i <= Width + 1
    BY Widths
  <2>2. 2 ^ (k + i) = 2 ^ k * 2 ^ i
    BY <2>1, PowerOfSum
  <2>3. QED
    BY <2>1, <2>2, Powers
<1> HIDE DEF g, h
<1>2. q \in Nat /\ r \in 0 .. g - 1 /\ x = g * q + r
  BY <1>1, Division
<1> HIDE DEF q, r
<1>3. p \in Nat /\ t \in 0 .. h - 1 /\ q = h * p + t
  BY <1>1, <1>2, Division
<1> HIDE DEF p, t
<1>4. x = (g * h) * p + (g * t + r)
  <2>1. g * (h * p + t) = (g * h) * p + g * t
    BY <1>1, <1>3
  <2>2. (g * h) * p \in Nat /\ g * t \in Nat
    BY <1>1, <1>3
  <2>3. QED
    BY <1>2, <1>3, <2>1, <2>2
<1>5. g * t + r \in 0 .. g * h - 1
  <2>1. g * (t + 1) <= g * h
    BY <1>1, <1>3
  <2>2. g * (t + 1) = g * t + g /\ g * t \in Nat
    BY <1>1, <1>3
  <2>3. g * h \in Nat
    BY <1>1
  <2>4. QED
    BY <1>1, <1>2, <2>1, <2>2, <2>3
<1>6. g * h \in Nat \ {0}
  BY <1>1
<1>7. p = x \div (g * h)
  BY <1>3, <1>4, <1>5, <1>6, DivisionUnique
<1>8. QED
  BY <1>1, <1>2, <1>7 DEF Bit, p, q, g, h

\* ... and of its remainder by one.
LEMMA BitOfRemainder ==
  ASSUME NEW x \in Nat, NEW k \in 0 .. Width, NEW i \in 0 .. Width
  PROVE  Bit(x % 2 ^ k, i) = IF i < k THEN Bit(x, i) ELSE 0
<1>0. k \in Nat /\ i \in Nat /\ k <= Width + 1 /\ i <= Width + 1
  BY Widths
<1> DEFINE h == 2 ^ k
           g == 2 ^ i
           q == x \div h
           r == x % h
<1>1. h \in Nat \ {0} /\ g \in Nat \ {0}
  BY Widths, Powers
<1>2. i >= k => h <= g
  BY <1>0, PowersGrow
<1>3. i < k => \E c \in Nat \ {0} : h = g * (2 * c)
  BY <1>0, PowersDivide
<1> HIDE DEF h, g
<1>4. q \in Nat /\ r \in 0 .. h - 1 /\ x = h * q + r
  BY <1>1, Division
<1> HIDE DEF q, r
<1>5. CASE i < k
  <2>1. PICK c \in Nat \ {0} : h = g * (2 * c)
    BY <1>3, <1>5
  <2>2. x = g * (2 * (c * q)) + r
    <3>1. (g * (2 * c)) * q = g * (2 * (c * q)) /\ g * (2 * (c * q)) \in Nat
      BY <1>1, <1>4
    <3>2. QED
      BY <1>4, <2>1, <3>1
  <2>3. 2 * (c * q) \in Nat /\ c * q \in Nat /\ r \in Nat /\ r \div g \in Nat
    BY <1>1, <1>4, Division
  <2>4. x \div g = 2 * (c * q) + r \div g
    <3>1. (g * (2 * (c * q)) + r) \div g = 2 * (c * q) + r \div g
      BY <1>1, <2>3, RemainderOfSum
    <3>2. QED
      BY <2>2, <3>1
  <2>5. (2 * (c * q) + r \div g) % 2 = (r \div g) % 2
    BY <2>3, RemainderOfSum
  <2>6. QED
    BY <1>5, <2>4, <2>5 DEF Bit, r, g, h
<1>6. CASE i >= k
  <2>1. r \in Nat /\ r < g
    BY <1>1, <1>2, <1>4, <1>6
  <2>2. r \div g = 0
    BY <1>1, <2>1, Division
  <2>3. 0 % 2 = 0 /\ ~(i < k)
    BY <1>0, <1>6
  <2>4. QED
    BY <2>2, <2>3 DEF Bit, r, g, h
<1>7. QED
  BY <1>0, <1>5, <1>6

\* A number below 2^k has no bit from k on, and a number without them is
\* below 2^k.
LEMMA SmallNumbers ==
  ASSUME NEW n \in 0 .. Width, NEW k \in 0 .. n, NEW x \in 0 .. 2 ^ n - 1
  PROVE  x < 2 ^ k <=> \A i \in k .. n - 1 : Bit(x, i) = 0
<1>0. /\ x \in Nat /\ k \in 0 .. Width /\ 2 ^ k \in Nat \ {0} /\ 2 ^ n \in Nat \ {0} /\ n \in Nat
      /\ Width \in Nat
  BY Widths, Powers
<1>1. ASSUME x < 2 ^ k, NEW i \in k .. n - 1 PROVE Bit(x, i) = 0
  <2>1. i \in 0 .. Width /\ ~(i < k)
    BY <1>0
  <2>2. x % 2 ^ k = x
    BY <1>0, <1>1, Division
  <2>3. QED
    BY <1>0, <2>1, <2>2, BitOfRemainder
<1>2. ASSUME \A i \in k .. n - 1 : Bit(x, i) = 0 PROVE x < 2 ^ k
  <2>1. x % 2 ^ k \in 0 .. 2 ^ k - 1 /\ 2 ^ k <= 2 ^ n
    <3>1. x % 2 ^ k \in 0 .. 2 ^ k - 1
      BY <1>0
    <3>2. k \in Nat /\ n <= Width + 1 /\ k <= n
      BY <1>0
    <3>3. QED
      BY <1>0, <3>1, <3>2, PowersGrow
  <2>2. x % 2 ^ k \in 0 .. 2 ^ n - 1
    BY <1>0, <2>1
  <2>3. ASSUME NEW i \in 0 .. n - 1 PROVE Bit(x % 2 ^ k, i) = Bit(x, i)
    <3>1. i \in 0 .. Width /\ (~(i < k) => i \in k .. n - 1)
      BY <1>0
    <3>2. QED
      BY <1>0, <1>2, <3>1, BitOfRemainder
  <2>4. x % 2 ^ k = x
    BY <2>2, <2>3, BitsDetermine
  <2>5. QED
    BY <1>0, <2>1, <2>4
<1>3. QED
  BY <1>1, <1>2

\* The complement of a number of n bits has the other bits.
LEMMA BitOfComplement ==
  ASSUME NEW n \in 0 .. Width, NEW x \in 0 .. 2 ^ n - 1, NEW i \in 0 .. n - 1
  PROVE  Bit(2 ^ n - 1 - x, i) = 1 - Bit(x, i)
<1>0. i \in Nat /\ n \in Nat /\ n <= Width + 1 /\ i < n /\ x \in Nat
  BY Widths
<1> DEFINE h == 2 ^ n
           g == 2 ^ i
           q == x \div g
           r == x % g
           y == h - 1 - x
<1>1. h \in Nat \ {0} /\ g \in Nat \ {0}
  BY <1>0, PowersGrow
<1>2. PICK c \in Nat \ {0} : h = g * (2 * c)
  BY <1>0, PowersDivide
<1> HIDE DEF g
<1>3. q \in Nat /\ r \in 0 .. g - 1 /\ x = g * q + r
  BY <1>0, <1>1, Division
<1> HIDE DEF q, r
<1>4. y \in Nat /\ x < h
  BY <1>1
<1> HIDE DEF h, y
<1>5. q < 2 * c
  <2>1. g * q < g * (2 * c)
    BY <1>1, <1>2, <1>3, <1>4
  <2>2. q >= 2 * c => g * q >= g * (2 * c)
    BY <1>1, <1>3
  <2>3. g * q \in Nat /\ g * (2 * c) \in Nat /\ 2 * c \in Nat
    BY <1>1, <1>3
  <2>4. QED
    BY <1>3, <2>1, <2>2, <2>3
<1> DEFINE p == 2 * c - 1 - q
<1>6. p \in Nat
  BY <1>3, <1>5
<1>7. y = g * p + (g - 1 - r)
  <2>1. g * p = g * (2 * c) - g - g * q
    BY <1>1, <1>3
  <2>2. g * (2 * c) \in Nat /\ g * q \in Nat
    BY <1>1, <1>3
  <2> HIDE DEF p
  <2>3. QED
    BY <1>1, <1>2, <1>3, <2>1, <2>2 DEF y
<1>8. g - 1 - r \in 0 .. g - 1
  BY <1>1, <1>3
<1>9. p = y \div g
  <2> HIDE DEF p
  <2>1. QED
    BY <1>1, <1>4, <1>6, <1>7, <1>8, DivisionUnique
<1>10. p % 2 = 1 - (q % 2)
  BY <1>3, <1>5, <1>6
<1>11. QED
  BY <1>9, <1>10 DEF Bit, y, q, g, h

\* The bits of a mask.
LEMMA BitOfMask ==
  ASSUME NEW k \in 0 .. Width, NEW i \in 0 .. Width
  PROVE  Bit(2 ^ k - 1, i) = IF i < k THEN 1 ELSE 0
<1>0. k \in Nat /\ i \in Nat /\ 2 ^ k \in Nat \ {0} /\ 2 ^ i \in Nat \ {0}
  BY Widths, Powers
<1>1. CASE i < k
  <2>1. 0 \in 0 .. 2 ^ k - 1 /\ i \in 0 .. k - 1 /\ 2 ^ k - 1 - 0 = 2 ^ k - 1
    BY <1>0, <1>1
  <2>2. Bit(0, i) = 0
    <3>1. 0 \div 2 ^ i = 0 /\ 0 % 2 = 0
      BY <1>0, Division
    <3>2. QED
      BY <3>1 DEF Bit
  <2>3. Bit(2 ^ k - 1 - 0, i) = 1 - Bit(0, i)
    BY <2>1, BitOfComplement
  <2>4. QED
    BY <1>1, <2>1, <2>2, <2>3
<1>2. CASE ~(i < k)
  <2>1. (2 ^ k - 1) % 2 ^ k = 2 ^ k - 1 /\ 2 ^ k - 1 \in Nat
    BY <1>0, Division
  <2>2. Bit((2 ^ k - 1) % 2 ^ k, i) = 0
    BY <1>2, <2>1, BitOfRemainder
  <2>3. QED
    BY <1>2, <2>1, <2>2
<1>3. QED
  BY <1>1, <1>2

-----------------------------------------------------------------------------
(* The bitwise and.                                                        *)

\* A bit of the conjunction is set if it is set in both.
LEMMA BitOfAnd ==
  ASSUME NEW n \in 0 .. Width, NEW x \in Nat, NEW y \in Nat
  PROVE  /\ And(n, x, y) \in 0 .. 2 ^ n - 1
         /\ \A i \in 0 .. n - 1 : Bit(And(n, x, y), i) = Bit(x, i) * Bit(y, i)
<1> DEFINE b == [i \in 0 .. n - 1 |-> Bit(x, i) * Bit(y, i)]
<1>1. ASSUME NEW i \in 0 .. n - 1 PROVE Bit(x, i) * Bit(y, i) \in {0, 1}
  <2>1. i \in 0 .. Width
    BY Widths
  <2>2. Bit(x, i) \in {0, 1} /\ Bit(y, i) \in {0, 1}
    BY <2>1, BitSplits
  <2>3. QED
    BY <2>2
<1>2. b \in [0 .. n - 1 -> {0, 1}] /\ \A i \in 0 .. n - 1 : b[i] = Bit(x, i) * Bit(y, i)
  BY <1>1
<1>3. And(n, x, y) = FromBits(n, b)
  BY DEF And
<1> HIDE DEF b
<1>4. QED
  BY <1>2, <1>3, FromBitsIs

\* A mask of k bits leaves the remainder by 2^k.
LEMMA AndMask ==
  ASSUME NEW n \in 0 .. Width, NEW k \in 0 .. n, NEW x \in Nat
  PROVE  And(n, x, 2 ^ k - 1) = x % 2 ^ k
<1>1. n \in Nat /\ k \in 0 .. Width /\ k \in Nat /\ n <= Width + 1 /\ k <= n
  BY Widths
<1>2. 2 ^ k \in Nat \ {0} /\ 2 ^ k <= 2 ^ n /\ 2 ^ n \in Nat \ {0} /\ 2 ^ k - 1 \in Nat
  BY <1>1, PowersGrow
<1>3. x % 2 ^ k \in 0 .. 2 ^ n - 1
  BY <1>2
<1>4. /\ And(n, x, 2 ^ k - 1) \in 0 .. 2 ^ n - 1
      /\ \A i \in 0 .. n - 1 : Bit(And(n, x, 2 ^ k - 1), i) = Bit(x, i) * Bit(2 ^ k - 1, i)
  BY <1>2, BitOfAnd
<1>5. ASSUME NEW i \in 0 .. n - 1
      PROVE  Bit(And(n, x, 2 ^ k - 1), i) = Bit(x % 2 ^ k, i)
  <2>1. i \in 0 .. Width
    BY <1>1, Widths
  <2>2. Bit(2 ^ k - 1, i) = IF i < k THEN 1 ELSE 0
    BY <1>1, <2>1, BitOfMask
  <2>3. Bit(x % 2 ^ k, i) = IF i < k THEN Bit(x, i) ELSE 0
    BY <1>1, <2>1, BitOfRemainder
  <2>4. Bit(x, i) \in {0, 1}
    BY <2>1, BitSplits
  <2>5. QED
    BY <1>4, <2>2, <2>3, <2>4
<1>6. QED
  BY <1>3, <1>4, <1>5, BitsDetermine

\* Two numbers have no bit in common when their conjunction is 0.
LEMMA AndIsZero ==
  ASSUME NEW n \in 0 .. Width, NEW x \in Nat, NEW y \in Nat
  PROVE  And(n, x, y) = 0 <=> \A i \in 0 .. n - 1 : Bit(x, i) = 0 \/ Bit(y, i) = 0
<1>1. /\ And(n, x, y) \in 0 .. 2 ^ n - 1
      /\ \A i \in 0 .. n - 1 : Bit(And(n, x, y), i) = Bit(x, i) * Bit(y, i)
  BY BitOfAnd
<1>2. 0 \in 0 .. n /\ 2 ^ 0 = 1 /\ \A i \in 0 .. n - 1 : i \in 0 .. Width
  BY Widths, Powers
<1>3. And(n, x, y) < 1 <=> \A i \in 0 .. n - 1 : Bit(And(n, x, y), i) = 0
  BY <1>1, <1>2, SmallNumbers
<1>4. And(n, x, y) = 0 <=> And(n, x, y) < 1
  BY <1>1
<1>5. \A i \in 0 .. n - 1 : Bit(x, i) \in {0, 1} /\ Bit(y, i) \in {0, 1}
  BY <1>2, BitSplits
<1>6. QED
  BY <1>1, <1>3, <1>4, <1>5

-----------------------------------------------------------------------------
(* The slab.                                                               *)

\* bucket is the remainder by the number of entries: it is in the slab.
LEMMA BucketIs ==
  ASSUME NEW k \in 0 .. LhsBits, NEW item \in Nat
  PROVE  /\ bucket(2 ^ k, item) = item % 2 ^ k
         /\ 2 ^ k \in Nat \ {0} /\ item % 2 ^ k \in 0 .. 2 ^ k - 1
<1>1. HalfBits \in 0 .. Width /\ k \in 0 .. HalfBits /\ k \in 0 .. Width + 1
  BY Widths
<1>2. 2 ^ k \in Nat \ {0}
  BY <1>1, Powers
<1>3. bucket(2 ^ k, item) = item % 2 ^ k
  BY <1>1, AndMask DEF bucket
<1>4. QED
  BY <1>2, <1>3

\* Every item has its bucket in the slab.
LEMMA BucketsInSlab ==
  ASSUME NEW size \in Sizes, NEW item \in Nat
  PROVE  bucket(size, item) \in 0 .. size - 1 /\ size \in Nat \ {0}
<1>1. PICK k \in 0 .. LhsBits : size = 2 ^ k
  BY DEF Sizes
<1>2. QED
  BY <1>1, BucketIs

-----------------------------------------------------------------------------
(* The reversal.                                                           *)

\* The bit that a reversal of groups of s bits brings to place i.
Mirror(s, i) == s * (i \div s) + (s - 1 - (i % s))

\* A mirrored place is in the same group, and exchanging the halves of a group
\* of 2 s bits, each of them reversed, reverses it.
LEMMA MirrorGrows ==
  ASSUME NEW s \in Nat \ {0}, NEW i \in Nat
  PROVE  LET j == IF (i \div s) % 2 = 0 THEN i + s ELSE i - s
         IN  /\ j \in Nat /\ Mirror(s, j) = Mirror(2 * s, i)
             /\ j \div (2 * s) = i \div (2 * s)
<1> DEFINE q == i \div s
           r == i % s
           p == q \div 2
           j == IF (i \div s) % 2 = 0 THEN i + s ELSE i - s
<1>1. q \in Nat /\ r \in 0 .. s - 1 /\ i = s * q + r
  BY Division
<1>2. p \in Nat /\ q % 2 \in {0, 1} /\ q = 2 * p + (q % 2)
  <2> HIDE DEF q
  <2>1. QED
    BY <1>1
<1>3. j = IF q % 2 = 0 THEN i + s ELSE i - s
  OBVIOUS
<1> HIDE DEF q, r, p, j
<1>4. 2 * s \in Nat \ {0} /\ s * (2 * p) = (2 * s) * p /\ (2 * s) * p \in Nat
  BY <1>2
<1>5. CASE q % 2 = 0
  <2>1. i = (2 * s) * p + r /\ r \in 0 .. 2 * s - 1
    BY <1>1, <1>2, <1>4, <1>5
  <2>2. p = i \div (2 * s) /\ r = i % (2 * s)
    BY <1>2, <1>4, <2>1, DivisionUnique
  <2>3. j = s * (2 * p + 1) + r /\ j \in Nat /\ 2 * p + 1 \in Nat
    <3>1. s * (2 * p + 1) = s * (2 * p) + s
      BY <1>2
    <3>2. QED
      BY <1>2, <1>3, <1>4, <1>5, <2>1, <3>1
  <2>4. 2 * p + 1 = j \div s /\ r = j % s
    BY <1>1, <2>3, DivisionUnique
  <2>5. j = (2 * s) * p + (s + r) /\ s + r \in 0 .. 2 * s - 1
    BY <1>1, <1>3, <1>4, <1>5, <2>1
  <2>6. p = j \div (2 * s)
    BY <1>2, <1>4, <2>3, <2>5, DivisionUnique
  <2>7. s * (2 * p + 1) + (s - 1 - r) = (2 * s) * p + (2 * s - 1 - r)
    <3>1. s * (2 * p + 1) = s * (2 * p) + s
      BY <1>2
    <3>2. QED
      BY <1>1, <1>4, <3>1
  <2>8. QED
    BY <2>2, <2>3, <2>4, <2>6, <2>7 DEF Mirror, j, q
<1>6. CASE q % 2 = 1
  <2>1. i = (2 * s) * p + (s + r) /\ s + r \in 0 .. 2 * s - 1
    <3>1. s * (2 * p + 1) = s * (2 * p) + s
      BY <1>2
    <3>2. QED
      BY <1>1, <1>2, <1>4, <1>6, <3>1
  <2>2. p = i \div (2 * s) /\ s + r = i % (2 * s)
    BY <1>2, <1>4, <2>1, DivisionUnique
  <2>3. j = s * (2 * p) + r /\ j \in Nat /\ 2 * p \in Nat
    BY <1>1, <1>2, <1>3, <1>4, <1>6, <2>1
  <2>4. 2 * p = j \div s /\ r = j % s
    BY <1>1, <2>3, DivisionUnique
  <2>5. j = (2 * s) * p + r /\ r \in 0 .. 2 * s - 1
    BY <1>1, <1>4, <2>3
  <2>6. p = j \div (2 * s)
    BY <1>2, <1>4, <2>3, <2>5, DivisionUnique
  <2>7. s * (2 * p) + (s - 1 - r) = (2 * s) * p + (2 * s - 1 - (s + r))
    BY <1>1, <1>4
  <2>8. QED
    BY <2>2, <2>3, <2>4, <2>6, <2>7 DEF Mirror, j, q
<1>7. QED
  BY <1>2, <1>5, <1>6

\* A mirrored place stays below a multiple of the size of two groups.
LEMMA MirrorStays ==
  ASSUME NEW k \in 0 .. Scale, NEW i \in 0 .. HalfBits - 1
  PROVE  LET s == 2 ^ k
             j == IF (i \div s) % 2 = 0 THEN i + s ELSE i - s
         IN  /\ j \in 0 .. HalfBits - 1 /\ Mirror(s, j) = Mirror(2 * s, i)
             /\ s \in Nat \ {0} /\ 2 ^ (k + 1) = 2 * s
<1> DEFINE s == 2 ^ k
           j == IF (i \div s) % 2 = 0 THEN i + s ELSE i - s
           t == 2 * s
<1>1. k \in 0 .. Width /\ k \in 0 .. Width + 1 /\ k \in Nat /\ Scale + 1 \in Nat /\ Scale + 1 <= Width + 1 /\ i \in Nat
      /\ k + 1 \in Nat /\ k + 1 <= Scale + 1
  BY Widths, ScaleAssumption
<1>2. s \in Nat \ {0} /\ 2 ^ (k + 1) = t
  <2>1. 2 ^ k \in Nat /\ 2 ^ k > 0 /\ 2 ^ (k + 1) = 2 * 2 ^ k
    BY <1>1, Powers
  <2>2. QED
    BY <2>1
<1>3. j \in Nat /\ Mirror(s, j) = Mirror(2 * s, i) /\ j \div t = i \div t
  BY <1>1, <1>2, MirrorGrows
<1>4. PICK c \in Nat \ {0} : HalfBits = t * c
  <2>1. 2 ^ (Scale + 1) = 2 ^ (k + 1) * 2 ^ ((Scale + 1) - (k + 1))
        /\ 2 ^ ((Scale + 1) - (k + 1)) \in Nat \ {0}
    BY <1>1, PowersGrow
  <2>2. QED
    BY <1>2, <2>1, Widths
<1>5. j < t * c
  <2> DEFINE q == i \div t
  <2> HIDE DEF j, t
  <2>0. t \in Nat \ {0}
    BY <1>2 DEF t
  <2>1. /\ q \in Nat /\ i % t \in 0 .. t - 1 /\ i = t * q + (i % t)
        /\ j % t \in 0 .. t - 1 /\ j = t * q + (j % t)
    BY <1>1, <1>3, <2>0, Division
  <2> HIDE DEF q
  <2>2. q < c
    <3>1. t * q < t * c
      BY <1>4, <2>0, <2>1
    <3>2. q >= c => t * q >= t * c
      BY <2>0, <2>1
    <3>3. t * q \in Nat /\ t * c \in Nat
      BY <2>0, <2>1
    <3>4. QED
      BY <2>1, <3>1, <3>2, <3>3
  <2>3. t * (q + 1) <= t * c
    BY <2>0, <2>1, <2>2
  <2>4. t * (q + 1) = t * q + t /\ t * q \in Nat /\ t * c \in Nat
    BY <2>0, <2>1
  <2>5. QED
    BY <2>0, <2>1, <2>3, <2>4
<1>6. QED
  BY <1>2, <1>3, <1>4, <1>5, Widths

\* A line of reverse_64 moves bits.
LEMMA SwapMoves ==
  ASSUME NEW k \in 0 .. Scale, NEW x \in Nat
  PROVE  LET s == 2 ^ k
         IN  /\ Swap(x, s) \in Half
             /\ \A i \in 0 .. HalfBits - 1 :
                  Bit(Swap(x, s), i) = Bit(x, IF (i \div s) % 2 = 0 THEN i + s ELSE i - s)
<1> DEFINE s == 2 ^ k
           b == [i \in 0 .. HalfBits - 1 |-> Bit(x, IF (i \div s) % 2 = 0 THEN i + s ELSE i - s)]
<1>1. ASSUME NEW i \in 0 .. HalfBits - 1
      PROVE  Bit(x, IF (i \div s) % 2 = 0 THEN i + s ELSE i - s) \in {0, 1}
  <2> DEFINE j == IF (i \div s) % 2 = 0 THEN i + s ELSE i - s
  <2>1. j \in 0 .. HalfBits - 1
    BY MirrorStays
  <2> HIDE DEF j
  <2>2. j \in 0 .. Width
    BY <2>1, Widths
  <2>3. Bit(x, j) \in {0, 1}
    BY <2>2, BitSplits
  <2>4. QED
    BY <2>3 DEF j
<1>2. /\ b \in [0 .. HalfBits - 1 -> {0, 1}]
      /\ \A i \in 0 .. HalfBits - 1 :
           b[i] = Bit(x, IF (i \div s) % 2 = 0 THEN i + s ELSE i - s)
  BY <1>1
<1>3. Swap(x, s) = FromBits(HalfBits, b)
  BY DEF Swap
<1> HIDE DEF b, s
<1>4. HalfBits \in 0 .. Width
  BY Widths
<1>5. FromBits(HalfBits, b) \in 0 .. 2 ^ HalfBits - 1
      /\ \A i \in 0 .. HalfBits - 1 : Bit(FromBits(HalfBits, b), i) = b[i]
  BY <1>2, <1>4, FromBitsIs
<1>6. QED
  BY <1>2, <1>3, <1>5 DEF Half, s

\* reverse_64 reverses the bits of half a word.
LEMMA ReversesHalf ==
  ASSUME NEW x \in Nat
  PROVE  /\ reverse_64(x) \in Half
         /\ \A i \in 0 .. HalfBits - 1 : Bit(reverse_64(x), i) = Bit(x, HalfBits - 1 - i)
<1> DEFINE n == Scale + 1
           after == CHOOSE f : f = [k \in 0 .. n |->
                      IF k = 0 THEN x ELSE Swap(f[k - 1], 2 ^ (k - 1))]
           S == {k \in 0 .. n : /\ after[k] \in Nat /\ (k > 0 => after[k] \in Half)
                                /\ \A i \in 0 .. HalfBits - 1 :
                                     Bit(after[k], i) = Bit(x, Mirror(2 ^ k, i))}
<1>0. n \in Nat /\ n > 0 /\ HalfBits \in Nat /\ Scale \in Nat
  BY Widths, ScaleAssumption
<1>1. reverse_64(x) = after[n]
  BY DEF reverse_64
<1>2. \A k \in 0 .. Scale, v \in Nat : Swap(v, 2 ^ k) \in Half /\ Swap(v, 2 ^ k) \in Nat
  <2>1. Half \subseteq Nat
    BY DEF Half
  <2>2. QED
    BY <2>1, SwapMoves
<1>3. after = [k \in 0 .. n |-> IF k = 0 THEN x ELSE Swap(after[k - 1], 2 ^ (k - 1))]
  <2> DEFINE step == [p \in (1 .. n) \X Nat |-> Swap(p[2], 2 ^ (p[1] - 1))]
  <2>1. \A k \in 1 .. n, v \in Nat : step[<<k, v>>] = Swap(v, 2 ^ (k - 1))
    OBVIOUS
  <2>2. \A k \in 1 .. n, v \in Nat : step[<<k, v>>] \in Nat
    <3> HIDE DEF step
    <3>1. \A k \in 1 .. n : k - 1 \in 0 .. Scale
      BY <1>0
    <3>2. QED
      BY <1>2, <2>1, <3>1
  <2> HIDE DEF step, n
  <2>3. PICK f \in [0 .. n -> Nat] :
          f[0] = x /\ \A k \in 1 .. n : f[k] = step[<<k, f[k - 1]>>]
    <3>1. StaysIn(Nat, n, step)
      BY <2>2 DEF StaysIn
    <3>2. \E f \in [0 .. n -> Nat] : Follows(f, n, x, step)
      BY <1>0, <3>1, RecursionExists
    <3>3. QED
      BY <3>2 DEF Follows
  <2>4. f = [k \in 0 .. n |-> IF k = 0 THEN x ELSE Swap(f[k - 1], 2 ^ (k - 1))]
    <3>1. \A k \in 1 .. n : f[k] = Swap(f[k - 1], 2 ^ (k - 1))
      <4>1. \A k \in 1 .. n : f[k - 1] \in Nat
        BY <1>0
      <4>2. QED
        BY <2>1, <2>3, <4>1
    <3>2. \A k \in 0 .. n : k = 0 \/ k \in 1 .. n
      BY <1>0
    <3>3. QED
      BY <2>3, <3>1, <3>2
  <2>5. QED
    BY <2>4
<1> HIDE DEF after
<1>4. after[0] = x /\ \A k \in 0 .. Scale : after[k + 1] = Swap(after[k], 2 ^ k)
  <2>1. 0 \in 0 .. n /\ \A k \in 0 .. Scale : k + 1 \in 0 .. n /\ k + 1 # 0 /\ (k + 1) - 1 = k
    BY <1>0
  <2> HIDE DEF n
  <2>2. QED
    BY <1>3, <2>1
<1>5. 0 \in S
  <2>1. 2 ^ 0 = 1 /\ \A i \in 0 .. HalfBits - 1 : Mirror(1, i) = i
    BY <1>0, Powers DEF Mirror
  <2>2. QED
    BY <1>0, <1>4, <2>1
<1>6. ASSUME NEW k \in 0 .. n - 1, k \in S PROVE k + 1 \in S
  <2>1. k \in 0 .. Scale /\ k + 1 \in 0 .. n
    BY <1>0
  <2>2. /\ after[k] \in Nat
        /\ \A i \in 0 .. HalfBits - 1 : Bit(after[k], i) = Bit(x, Mirror(2 ^ k, i))
    BY <1>6
  <2>3. after[k + 1] = Swap(after[k], 2 ^ k) /\ after[k + 1] \in Half /\ after[k + 1] \in Nat
    BY <1>2, <1>4, <2>1, <2>2
  <2>4. ASSUME NEW i \in 0 .. HalfBits - 1
        PROVE  Bit(after[k + 1], i) = Bit(x, Mirror(2 ^ (k + 1), i))
    <3> DEFINE s == 2 ^ k
               j == IF (i \div s) % 2 = 0 THEN i + s ELSE i - s
    <3>1. j \in 0 .. HalfBits - 1 /\ Mirror(s, j) = Mirror(2 * s, i) /\ 2 ^ (k + 1) = 2 * s
      BY <2>1, MirrorStays
    <3>2. Bit(Swap(after[k], s), i) = Bit(after[k], j)
      BY <2>1, <2>2, SwapMoves
    <3> HIDE DEF j
    <3>3. Bit(after[k], j) = Bit(x, Mirror(s, j))
      BY <2>2, <3>1
    <3>4. QED
      BY <2>3, <3>1, <3>2, <3>3
  <2>5. QED
    BY <2>1, <2>3, <2>4
<1>7. n \in S
  <2>1. n \in 0 .. n
    BY <1>0
  <2> HIDE DEF S, n
  <2>2. 0 .. n \subseteq S
    BY <1>0, <1>5, <1>6, UpTo
  <2>3. QED
    BY <2>1, <2>2
<1>8. \A i \in 0 .. HalfBits - 1 : Mirror(HalfBits, i) = HalfBits - 1 - i
  <2> SUFFICES ASSUME NEW i \in 0 .. HalfBits - 1 PROVE Mirror(HalfBits, i) = HalfBits - 1 - i
    OBVIOUS
  <2>1. i \div HalfBits = 0 /\ i % HalfBits = i
    BY <1>0, Division
  <2>2. QED
    BY <1>0, <2>1 DEF Mirror
<1>9. QED
  BY <1>0, <1>1, <1>7, <1>8, Widths

\* The bits of two numbers put side by side.
LEMMA BitOfJoin ==
  ASSUME NEW k \in 0 .. Width, NEW low \in 0 .. 2 ^ k - 1, NEW high \in Nat,
         NEW i \in 0 .. Width
  PROVE  /\ Bit(high * 2 ^ k + low, i) = IF i < k THEN Bit(low, i) ELSE Bit(high, i - k)
         /\ high * 2 ^ k + low \in Nat
         /\ (high * 2 ^ k + low) % 2 ^ k = low /\ (high * 2 ^ k + low) \div 2 ^ k = high
<1> DEFINE h == 2 ^ k
           z == high * h + low
<1>1. h \in Nat \ {0} /\ k \in Nat /\ i \in Nat
  BY Widths, Powers
<1>2. z = h * high + low /\ z \in Nat /\ low \in 0 .. h - 1
  BY <1>1
<1> HIDE DEF z, h
<1>3. low = z % h /\ high = z \div h
  BY <1>1, <1>2, DivisionUnique
<1>4. CASE i < k
  <2>1. Bit(z % h, i) = Bit(z, i)
    BY <1>2, <1>4, BitOfRemainder DEF h
  <2>2. QED
    BY <1>2, <1>3, <1>4, <2>1 DEF z, h
<1>5. CASE ~(i < k)
  <2>1. i - k \in Nat /\ k + (i - k) = i /\ k + (i - k) <= Width
    BY <1>1, <1>5, Widths
  <2>2. Bit(z \div h, i - k) = Bit(z, k + (i - k))
    BY <1>2, <2>1, BitOfQuotient DEF h
  <2>3. QED
    BY <1>2, <1>3, <1>5, <2>1, <2>2 DEF z, h
<1>6. QED
  BY <1>4, <1>5

\* Two numbers put side by side fit in as many bits as they have together.
LEMMA JoinFits ==
  ASSUME NEW k \in Nat, NEW n \in Nat, k + n <= Width,
         NEW low \in 0 .. 2 ^ k - 1, NEW high \in 0 .. 2 ^ n - 1
  PROVE  high * 2 ^ k + low \in 0 .. 2 ^ (k + n) - 1
<1>1. 2 ^ (k + n) = 2 ^ k * 2 ^ n
  BY PowerOfSum, Widths
<1>2. k \in 0 .. Width + 1 /\ n \in 0 .. Width + 1
  BY Widths
<1>3. 2 ^ k \in Nat \ {0} /\ 2 ^ n \in Nat \ {0}
  BY <1>2, Powers
<1>4. (high + 1) * 2 ^ k <= 2 ^ n * 2 ^ k
  BY <1>3
<1>5. (high + 1) * 2 ^ k = high * 2 ^ k + 2 ^ k /\ high * 2 ^ k \in Nat
      /\ 2 ^ n * 2 ^ k = 2 ^ k * 2 ^ n /\ 2 ^ k * 2 ^ n \in Nat
  BY <1>3
<1>6. QED
  BY <1>1, <1>3, <1>4, <1>5

\* reverse reverses the bits of a word.
LEMMA ReversesWord ==
  ASSUME NEW x \in Word
  PROVE  /\ reverse(x) \in Word
         /\ \A i \in 0 .. Width - 1 : Bit(reverse(x), i) = Bit(x, Width - 1 - i)
<1> DEFINE H == HalfBits
           h == 2 ^ H
           low == reverse_64(Low(x))
           high == reverse_64(x \div h)
           r == low * h + high
<1>1. /\ H \in Nat /\ H \in 0 .. Width /\ H + H = Width /\ Width \in Nat /\ H + H <= Width
      /\ H \in 0 .. Width + 1 /\ Width \in 0 .. Width + 1
  BY Widths
<1>2. h \in Nat \ {0} /\ 2 ^ Width \in Nat \ {0} /\ x \in Nat
  BY <1>1, Powers DEF Word
<1>3. Low(x) \in Nat /\ x \div h \in Nat
  BY <1>2, Division DEF Low
<1>4. /\ low \in 0 .. 2 ^ H - 1 /\ high \in 0 .. 2 ^ H - 1
      /\ \A i \in 0 .. H - 1 : Bit(low, i) = Bit(Low(x), H - 1 - i)
      /\ \A i \in 0 .. H - 1 : Bit(high, i) = Bit(x \div h, H - 1 - i)
  BY <1>3, ReversesHalf DEF Half
<1>5. reverse(x) = r
  BY DEF reverse
<1> HIDE DEF r, low, high
<1>6. r \in Word
  <2>1. low * 2 ^ H + high \in 0 .. 2 ^ (H + H) - 1
    BY <1>1, <1>4, JoinFits
  <2>2. QED
    BY <1>1, <2>1 DEF r, Word
<1>7. ASSUME NEW i \in 0 .. Width - 1 PROVE Bit(r, i) = Bit(x, Width - 1 - i)
  <2>1. i \in 0 .. Width
    BY <1>1
  <2>2. low \in Nat
    BY <1>2, <1>4
  <2>3. Bit(r, i) = IF i < H THEN Bit(high, i) ELSE Bit(low, i - H)
    BY <1>1, <1>4, <2>1, <2>2, BitOfJoin DEF r
  <2>4. CASE i < H
    <3> DEFINE j == H - 1 - i
    <3>1. i \in 0 .. H - 1 /\ j \in Nat /\ H + j = Width - 1 - i /\ H + j <= Width
      BY <1>1, <2>4
    <3> HIDE DEF j
    <3>2. Bit(x \div h, j) = Bit(x, H + j)
      BY <1>1, <1>2, <3>1, BitOfQuotient
    <3>3. Bit(high, i) = Bit(x \div h, j)
      BY <1>4, <3>1 DEF j
    <3>4. QED
      BY <2>3, <2>4, <3>1, <3>2, <3>3
  <2>5. CASE ~(i < H)
    <3> DEFINE j == Width - 1 - i
    <3>1. i - H \in 0 .. H - 1 /\ j = H - 1 - (i - H) /\ j < H /\ j \in 0 .. Width
      BY <1>1, <2>5
    <3> HIDE DEF j
    <3>2. Bit(x % h, j) = Bit(x, j)
      BY <1>1, <1>2, <3>1, BitOfRemainder
    <3>3. Bit(low, i - H) = Bit(Low(x), j)
      BY <1>4, <3>1
    <3>4. QED
      BY <2>3, <2>5, <3>2, <3>3 DEF Low, j
  <2>6. QED
    BY <2>4, <2>5
<1>8. QED
  BY <1>5, <1>6, <1>7

\* To reverse twice changes nothing.
LEMMA ReversesBack ==
  ASSUME NEW x \in Word
  PROVE  reverse(reverse(x)) = x
<1>1. reverse(x) \in Word /\ reverse(reverse(x)) \in Word
  BY ReversesWord
<1>2. ASSUME NEW i \in 0 .. Width - 1 PROVE Bit(reverse(reverse(x)), i) = Bit(x, i)
  <2> DEFINE j == Width - 1 - i
  <2>1. j \in 0 .. Width - 1 /\ Width - 1 - j = i
    BY Widths
  <2> HIDE DEF j
  <2>2. Bit(reverse(x), j) = Bit(x, i)
    BY <2>1, ReversesWord
  <2>3. Bit(reverse(reverse(x)), i) = Bit(reverse(x), Width - 1 - i)
    BY <1>1, ReversesWord
  <2>4. QED
    BY <2>2, <2>3 DEF j
<1>3. Width \in 0 .. Width
  BY Widths
<1>4. QED
  BY <1>1, <1>2, <1>3, BitsDetermine DEF Word

-----------------------------------------------------------------------------
(* Difficulties.                                                           *)

\* The difficulty of D bits is D ones and then zeros; reversed, the mask of D
\* bits.
LEMMA DifficultyIs ==
  ASSUME NEW D \in 1 .. Width - 1
  PROVE  /\ bit_difficulty(D) = 2 ^ Width - 2 ^ (Width - D) /\ bit_difficulty(D) \in Word
         /\ reverse(bit_difficulty(D)) = 2 ^ D - 1 /\ 2 ^ D - 1 \in Word
<1> DEFINE k == Width - D
           m == 2 ^ k - 1
           d == 2 ^ Width - 1 - m
<1>1. /\ k \in Nat /\ k <= Width /\ k \in 0 .. Width /\ D \in Nat /\ D \in 0 .. Width
      /\ Width \in Nat /\ Width \in 0 .. Width /\ Width <= Width + 1 /\ D <= Width
  BY Widths
<1>2. 2 ^ k \in Nat \ {0} /\ 2 ^ D \in Nat \ {0} /\ 2 ^ k <= 2 ^ Width /\ 2 ^ D <= 2 ^ Width
      /\ 2 ^ Width \in Nat \ {0}
  BY <1>1, PowersGrow
<1>3. m \in 0 .. 2 ^ Width - 1 /\ d \in Word /\ 2 ^ D - 1 \in Word
      /\ d = 2 ^ Width - 2 ^ k
  BY <1>2 DEF Word
<1> DEFINE r == reverse(2 ^ D - 1)
<1>4. r \in Word /\ \A i \in 0 .. Width - 1 : Bit(r, i) = Bit(2 ^ D - 1, Width - 1 - i)
  BY <1>3, ReversesWord
<1> HIDE DEF r, m, d
<1>5. ASSUME NEW i \in 0 .. Width - 1 PROVE Bit(r, i) = Bit(d, i)
  <2>1. i \in 0 .. Width /\ Width - 1 - i \in 0 .. Width /\ (i < k <=> ~(Width - 1 - i < D))
    BY <1>1
  <2>2. Bit(d, i) = 1 - Bit(m, i)
    BY <1>1, <1>3, BitOfComplement DEF d
  <2>3. Bit(m, i) = IF i < k THEN 1 ELSE 0
    BY <1>1, <2>1, BitOfMask DEF m
  <2>4. Bit(2 ^ D - 1, Width - 1 - i) = IF Width - 1 - i < D THEN 1 ELSE 0
    BY <1>1, <2>1, BitOfMask
  <2>5. QED
    BY <1>4, <2>1, <2>2, <2>3, <2>4
<1>6. r = d
  BY <1>1, <1>3, <1>4, <1>5, BitsDetermine DEF Word
<1>7. reverse(r) = 2 ^ D - 1
  BY <1>3, ReversesBack DEF r
<1>8. QED
  BY <1>3, <1>6, <1>7 DEF r, bit_difficulty

\* The low D bits of a number are 0 when none of its bits below D is set.
LEMMA LowBitsZero ==
  ASSUME NEW s \in Word, NEW D \in 0 .. Width
  PROVE  s % 2 ^ D = 0 <=> \A i \in 0 .. D - 1 : Bit(s, i) = 0
<1>1. s \in Nat /\ 2 ^ D \in Nat \ {0} /\ 2 ^ D - 1 \in Nat /\ Width \in 0 .. Width
  BY Powers, Widths DEF Word
<1>2. And(Width, s, 2 ^ D - 1) = s % 2 ^ D
  BY <1>1, AndMask
<1>3. And(Width, s, 2 ^ D - 1) = 0
        <=> \A i \in 0 .. Width - 1 : Bit(s, i) = 0 \/ Bit(2 ^ D - 1, i) = 0
  BY <1>1, AndIsZero
<1>4. \A i \in 0 .. Width - 1 : Bit(2 ^ D - 1, i) = IF i < D THEN 1 ELSE 0
  BY BitOfMask, Widths
<1>5. \A i \in 0 .. D - 1 : i \in 0 .. Width - 1
  BY Widths
<1>6. \A i \in 0 .. Width - 1 : i < D => i \in 0 .. D - 1
  BY Widths
<1>7. QED
  BY <1>2, <1>3, <1>4, <1>5, <1>6

\* passes_sum asks that the low D bits of the sum be 0, and some other bit too.
LEMMA PassesIs ==
  ASSUME NEW s \in Word, NEW D \in 1 .. Width - 1
  PROVE  passes_sum(s, bit_difficulty(D)) <=> s % 2 ^ D = 0 /\ s # 2 ^ Width - 2 ^ D
<1> DEFINE k == Width - D
           d == bit_difficulty(D)
           r == reverse(Not(s))
<1>1. /\ k \in Nat /\ k \in 0 .. Width /\ D \in Nat /\ D \in 0 .. Width /\ Width \in Nat
      /\ Width \in 0 .. Width /\ Width \in 0 .. Width + 1 /\ k \in 0 .. Width + 1
  BY Widths
<1>2. 2 ^ k \in Nat \ {0} /\ 2 ^ D \in Nat \ {0} /\ 2 ^ Width \in Nat \ {0} /\ s \in Nat
  BY <1>1, Powers DEF Word
<1>3. d = 2 ^ Width - 2 ^ k /\ d \in Word /\ reverse(d) = 2 ^ D - 1
  BY DifficultyIs
<1>4. Not(s) \in Word
  BY <1>2 DEF Word, Not
<1>5. r \in Word /\ \A i \in 0 .. Width - 1 : Bit(r, i) = Bit(Not(s), Width - 1 - i)
  BY <1>4, ReversesWord
<1>6. reverse(r) = Not(s)
  BY <1>4, ReversesBack
<1> HIDE DEF r, d
<1>7. r = d <=> s = 2 ^ Width - 2 ^ D
  <2>1. r = d => Not(s) = 2 ^ D - 1
    BY <1>3, <1>6
  <2>2. Not(s) = 2 ^ D - 1 => r = d
    <3>1. reverse(reverse(d)) = d
      BY <1>3, ReversesBack
    <3>2. QED
      BY <1>3, <3>1 DEF r
  <2>3. Not(s) = 2 ^ D - 1 <=> s = 2 ^ Width - 2 ^ D
    BY <1>2 DEF Not
  <2>4. QED
    BY <2>1, <2>2, <2>3
<1> DEFINE c == 2 ^ Width - 1 - r
<1>8. c \in 0 .. 2 ^ Width - 1 /\ (r >= d <=> c < 2 ^ k)
  BY <1>2, <1>3, <1>5 DEF Word
<1>9. c < 2 ^ k <=> \A i \in k .. Width - 1 : Bit(c, i) = 0
  BY <1>1, <1>8, SmallNumbers
<1>10. \A i \in k .. Width - 1 : Bit(c, i) = Bit(s, Width - 1 - i)
  <2> SUFFICES ASSUME NEW i \in k .. Width - 1 PROVE Bit(c, i) = Bit(s, Width - 1 - i)
    OBVIOUS
  <2>1. i \in 0 .. Width - 1 /\ Width - 1 - i \in 0 .. Width - 1 /\ Width - 1 - i \in 0 .. Width
    BY <1>1
  <2>2. Bit(c, i) = 1 - Bit(r, i)
    BY <1>1, <1>5, <2>1, BitOfComplement DEF Word
  <2>3. Bit(Not(s), Width - 1 - i) = 1 - Bit(s, Width - 1 - i)
    BY <1>1, <2>1, BitOfComplement DEF Word, Not
  <2>4. Bit(s, Width - 1 - i) \in {0, 1}
    BY <1>2, <2>1, BitSplits
  <2> HIDE DEF c
  <2>5. QED
    BY <1>5, <2>1, <2>2, <2>3, <2>4
<1> HIDE DEF c
<1>11. (\A i \in k .. Width - 1 : Bit(c, i) = 0) <=> \A j \in 0 .. D - 1 : Bit(s, j) = 0
  <2>1. ASSUME \A i \in k .. Width - 1 : Bit(c, i) = 0, NEW j \in 0 .. D - 1
        PROVE  Bit(s, j) = 0
    <3>1. Width - 1 - j \in k .. Width - 1 /\ Width - 1 - (Width - 1 - j) = j
      BY <1>1
    <3>2. QED
      BY <1>10, <2>1, <3>1
  <2>2. ASSUME \A j \in 0 .. D - 1 : Bit(s, j) = 0, NEW i \in k .. Width - 1
        PROVE  Bit(c, i) = 0
    <3>1. Width - 1 - i \in 0 .. D - 1
      BY <1>1
    <3>2. QED
      BY <1>10, <2>2, <3>1
  <2>3. QED
    BY <2>1, <2>2
<1>12. r >= d <=> s % 2 ^ D = 0
  BY <1>1, <1>8, <1>9, <1>11, LowBitsZero
<1>13. passes_sum(s, d) <=> r >= d /\ r # d
  BY <1>3, <1>5 DEF passes_sum, difficulty, r, Word
<1>14. QED
  BY <1>7, <1>12, <1>13 DEF d

\* The sizes of the words the drivers compute with.
LEMMA WordSizes ==
  /\ 2 ^ LhsBits \in Nat \ {0} /\ 2 ^ HalfBits \in Nat \ {0} /\ 2 ^ LhsBits < 2 ^ HalfBits
  /\ 2 ^ RhsBits \in Nat \ {0}
  /\ Lhs = 0 .. 2 ^ LhsBits - 1 /\ Half = 0 .. 2 ^ HalfBits - 1 /\ Rhs = 0 .. 2 ^ RhsBits - 1
<1>1. /\ LhsBits \in Nat /\ HalfBits \in Nat /\ HalfBits <= Width + 1 /\ LhsBits < HalfBits
      /\ LhsBits <= HalfBits /\ RhsBits \in Nat /\ RhsBits <= HalfBits
  BY Widths
<1>2. QED
  BY <1>1, PowersGrow DEF Lhs, Half, Rhs

-----------------------------------------------------------------------------
(* The size of a fill.                                                     *)

\* 2^L leaves 1 when divided by 3: the mask of a left preimage is a multiple of 3.
LEMMA LeavesOne == 2 ^ LhsBits % 3 = 1
<1> DEFINE n == LhsBits \div 2
           S == {j \in 0 .. n : 2 ^ (2 * j) % 3 = 1}
<1>1. n \in Nat /\ 2 * n = LhsBits /\ 2 * n <= Width
  BY Widths
<1>2. 0 \in S
  <2>1. 2 ^ (2 * 0) = 1
    BY Powers
  <2>2. QED
    BY <1>1, <2>1
<1>3. ASSUME NEW j \in 0 .. n - 1, j \in S PROVE j + 1 \in S
  <2>1. /\ 2 * j \in 0 .. Width /\ 2 * j + 1 \in 0 .. Width /\ (2 * j + 1) + 1 = 2 * (j + 1)
        /\ j + 1 \in 0 .. n /\ 2 * j \in 0 .. Width + 1
    BY <1>1, Widths
  <2>2. 2 ^ (2 * j + 1) = 2 * 2 ^ (2 * j) /\ 2 ^ ((2 * j + 1) + 1) = 2 * 2 ^ (2 * j + 1)
        /\ 2 ^ (2 * j) \in Nat
    BY <2>1, Powers
  <2> DEFINE x == 2 ^ (2 * j)
  <2>3. x \in Nat /\ x % 3 = 1 /\ 2 ^ (2 * (j + 1)) = 4 * x
    BY <1>3, <2>1, <2>2
  <2>4. (4 * x) % 3 = 1
    <3> HIDE DEF x
    <3>1. QED
      BY <2>3
  <2>5. QED
    BY <2>1, <2>3, <2>4
<1> HIDE DEF S
<1>4. n \in S
  <2>1. 0 .. n \subseteq S
    BY <1>1, <1>2, <1>3, UpTo
  <2>2. QED
    BY <1>1, <2>1
<1>5. QED
  BY <1>1, <1>4 DEF S

\* A fill stores its slab's size, or three times that within the 32-bit
\* preimages, and no less than the size but for the largest slab.
LEMMA FillCountIs ==
  ASSUME NEW size \in Sizes \cup {0}, NEW inv
  PROVE  LET count == fill_count(size, inv)
         IN  /\ count \in Nat /\ count <= 2 ^ LhsBits
             /\ count >= size - (IF size = 2 ^ LhsBits THEN 1 ELSE 0)
<1> DEFINE all == 2 ^ LhsBits
           third == (all - 1) \div 3
           low == 3 * (IF size < third THEN size ELSE third)
<1>1. size \in Nat /\ all \in Nat \ {0} /\ size <= all
  <2>1. all \in Nat \ {0}
    BY Powers, Widths
  <2>2. CASE size = 0
    BY <2>1, <2>2
  <2>3. CASE size \in Sizes
    <3>1. PICK k \in 0 .. LhsBits : size = 2 ^ k
      BY <2>3 DEF Sizes
    <3>2. k \in Nat /\ LhsBits \in Nat /\ LhsBits <= Width + 1 /\ k <= LhsBits
      BY Widths
    <3>3. QED
      BY <3>1, <3>2, PowersGrow
  <2>4. QED
    BY <2>2, <2>3
<1>2. all % 3 = 1
  BY LeavesOne
<1> HIDE DEF all
<1>3. third \in Nat /\ 3 * third = all - 1
  BY <1>1, <1>2
<1> HIDE DEF third
<1>4. /\ low \in Nat /\ low <= all /\ low >= size - (IF size = all THEN 1 ELSE 0)
      /\ size >= size - (IF size = all THEN 1 ELSE 0)
  BY <1>1, <1>3
<1> HIDE DEF low
<1>5. fill_count(size, inv) \in {size, low}
  BY DEF fill_count, low, third, all
<1>6. QED
  BY <1>1, <1>4, <1>5 DEF all
=============================================================================
