--------------------------------- MODULE MCWords ---------------------------------
(***************************************************************************)
(* SipHash, OpenCLHash and Xoroshiro for TLC.  Two walks, chosen at the    *)
(* start: one doubles a number of calls of next, one hashes ever longer    *)
(* messages.                                                               *)
(***************************************************************************)
EXTENDS SipHash, OpenCLHash, Xoroshiro

CONSTANTS Threads,   \* workers that draw
          Longest    \* longest message, in bytes

VARIABLES
  walk,      \* "double" or "hash"
  exponent,  \* with calls = 2 ^ exponent ...
  leaps,     \* ... the states that the basis of the states leaps to
  rounds,    \* for each divisor, the state that a part of the period leads to
  message

vars == <<walk, exponent, leaps, rounds, message>>

\* A state is the sum of the states of one bit, and next is linear: what it
\* does to those decides what it does to all.
Places == 0 .. 127
OneBit(p) == IF p < 64 THEN <<{p}, {}>> ELSE <<{}, {p - 64}>>
PlacesOf(s) == TwoWords(s[1], s[2])

\* Which place of the sum of the leaps of some places is 1.
Sum(places) == {q \in Places : Cardinality({p \in places : q \in leaps[p]}) % 2 = 1}

Seed == PlacesOf(hash_state[0])

\* (2 ^ 128 - 1) \div f, as a sum of powers of 2, for f = 1 and for each prime
\* f that divides it: 3, 5, 17, 257, 65537, 641, 6700417, 274177 and
\* 67280421310721, whose product it is.
Every(period, part) == {b \in Places : b % period < part}
Quotients ==
  << Places, Every(2, 1), Every(4, 2), Every(8, 4), Every(16, 8), Every(32, 16),
     TwoWords(Literal(102, 15744, 65433, 49791), Literal(102, 15744, 65433, 49791)),
     TwoWords(Literal(0, 640, 65535, 64895), Literal(0, 640, 65535, 64895)),
     TwoWords(Literal(65535, 49871, 3683, 12031), Literal(0, 15664, 61852, 53504)),
     TwoWords(Literal(65535, 65535, 65531, 53503), Literal(0, 0, 4, 12032)) >>

\* The n bytes 00 01 02 ..., and the key 00 01 ... 0f.
Ascending(n) == [i \in 1 .. n |-> {b \in 0 .. 7 : ((i - 1) \div 2 ^ b) % 2 = 1}]
Key == <<U8TO64_LE(Ascending(8)), U8TO64_LE(SubSeq(Ascending(16), 9, 16))>>

Init ==
  /\ walk \in {"double", "hash"}
  /\ exponent = 0
  /\ leaps = IF walk = "double" THEN [p \in Places |-> PlacesOf(next(OneBit(p)))] ELSE <<>>
  /\ rounds = [f \in DOMAIN Quotients |-> Seed]
  /\ message = <<>>

\* Twice as many calls of next: the leap after the leap.  The quotients that
\* have this power of 2 take the leap.
Double ==
  /\ walk = "double" /\ exponent < 128
  /\ exponent' = exponent + 1
  /\ leaps' = [p \in Places |-> Sum(leaps[p])]
  /\ rounds' = [f \in DOMAIN rounds |->
                 IF exponent \in Quotients[f] THEN Sum(rounds[f]) ELSE rounds[f]]
  /\ UNCHANGED <<walk, message>>

\* The message of the published vectors: 00 01 02 ...
Lengthen ==
  /\ walk = "hash" /\ Len(message) < Longest
  /\ message' = Ascending(Len(message) + 1)
  /\ UNCHANGED <<walk, exponent, leaps, rounds>>

Next == Double \/ Lengthen

Spec == Init /\ [][Next]_vars

-----------------------------------------------------------------------------
\* The vectors of the authors of SipHash for that key and a message of n
\* bytes, with 16 and with 8 bytes of output.
Published ==
  [n \in {0, 1, 8, 15} |->
     CASE n = 0  -> << <<Literal(59048, 9658, 1151, 33187), Literal(37634, 21959, 5234, 63085)>>,
                       <<Literal(29295, 56135, 56590, 3633)>> >>
       [] n = 1  -> << <<Literal(17583, 39275, 55489, 34778), Literal(17916, 8859, 4441, 30260)>>,
                       <<Literal(29944, 14789, 37852, 26621)>> >>
       [] n = 8  -> << <<Literal(25077, 22626, 47785, 25147), Literal(46231, 5363, 25826, 33551)>>,
                       <<Literal(37877, 62841, 39571, 9314)>> >>
       [] n = 15 -> << <<Literal(4520, 45107, 39401, 37716), Literal(55747, 53143, 4076, 2174)>>,
                       <<Literal(41257, 51809, 18878, 17893)>> >>]

(***************************************************************************)
(* "Equivalent to 2^64 calls to next", and to 2^96                         *)
(* (src/include/nano_pow/xoroshiro128starstar.hpp, lines 42 and 66): jump  *)
(* and long_jump take every state where that many calls take it.           *)
(***************************************************************************)
JumpsAreFar ==
  \A p \in DOMAIN leaps :
    /\ exponent = 64 => PlacesOf(jump(OneBit(p))) = leaps[p]
    /\ exponent = 96 => PlacesOf(long_jump(OneBit(p))) = leaps[p]

(***************************************************************************)
(* "It can be used to generate 2^64 non-overlapping subsequences"          *)
(* (src/include/nano_pow/xoroshiro128starstar.hpp, lines 43 and 44): the   *)
(* stretches of 2^64 numbers from which the workers draw have none in      *)
(* common.  Each begins where the one before it ends, and they are short   *)
(* of a whole round, for the seed comes back after 2^128 - 1 calls and     *)
(* after no proper divisor of that many.                                   *)
(***************************************************************************)
StretchesAreApart ==
  /\ walk = "double" /\ exponent = 64 =>
       \A t \in 0 .. Threads - 1 : PlacesOf(prng(t)) = Sum(PlacesOf(hash_state[t]))
  /\ exponent = 128 =>
       \A f \in DOMAIN Quotients : rounds[f] = Seed <=> Quotients[f] = Places

(***************************************************************************)
(* The hash of the host is SipHash-2-4: it gives the published values, for *)
(* messages with and without bytes left over.                              *)
(***************************************************************************)
HashIsSipHash ==
  walk = "hash" /\ Len(message) \in DOMAIN Published =>
    /\ siphash(message, Key, 16) = Published[Len(message)][1]
    /\ siphash(message, Key, 8) = Published[Len(message)][2]

(***************************************************************************)
(* The hash in the kernels is that of the host, for messages of any length *)
(* and both lengths of output; so are the two functions made from it, for  *)
(* nonces with either top bit: what a kernel finds the host verifies.      *)
(***************************************************************************)
KernelHashesAlike ==
  LET item  == U8TO64_LE(SubSeq(message, 1, 8))
      nonce == <<U8TO64_LE(SubSeq(message, 4, 11)), U8TO64_LE(SubSeq(message, 10, 17))>>
  IN  /\ walk = "hash" =>
           \A outlen \in {8, 16} :
             kernel_siphash(message, Ascending(16), outlen) = siphash(message, Key, outlen)
      /\ Len(message) >= 17 =>
           \A n \in {lhs_nonce(nonce), rhs_nonce(nonce)} :
             /\ kernel_H0(n, item) = H0(n, item)
             /\ kernel_H1(n, item) = H1(n, item)
=============================================================================
