------------------------------ MODULE MCCppDriver ------------------------------
(***************************************************************************)
(* CppDriver for TLC, with sums of 8 bits: 4 left preimages, 8 right ones, *)
(* slabs of up to 4 entries.  At difficulty 2 the pairs that pass are      *)
(*   for nonce 1: (0, 5), whose left half looks like "no result", (1, 1);  *)
(*   for nonce 2: (2, 6), (3, 7), and (2, 0), whose right half does;       *)
(* (2, 5) passes only the quick test for nonce 2.  The two nonces have no  *)
(* half in common, and in a slab of 4 entries two left preimages of each   *)
(* nonce share a bucket.                                                   *)
(***************************************************************************)
EXTENDS CppDriver

MCH0(n, lhs) ==
  IF n = 1 THEN <<17, 34, 35, 51>>[lhs + 1] ELSE <<81, 65, 67, 82>>[lhs + 1]

MCH1(n, rhs) ==
  IF n = 1 THEN <<4, 30, 8, 12, 16, 47, 20, 24>>[rhs + 1]
           ELSE <<125, 4, 8, 12, 16, 185, 61, 46>>[rhs + 1]

MCDifficulties == {bit_difficulty(2)}
MCTwoDifficulties == {bit_difficulty(1), bit_difficulty(2)}
=============================================================================
