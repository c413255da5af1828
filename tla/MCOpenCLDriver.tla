----------------------------- MODULE MCOpenCLDriver -----------------------------
(***************************************************************************)
(* OpenCLDriver for TLC, with sums of 8 bits: 4 left preimages, 8 right    *)
(* ones.  At difficulty 2 the pairs that pass are                          *)
(*   for nonce 1: (0, 5), (1, 7);                                          *)
(*   for nonce 2: (2, 0), whose right half looks like "no result", (2, 2), *)
(*                (3, 3), and (2, 1) passes only the quick test.           *)
(* A slab of 4 entries is larger than a buffer may be, and is cut in four. *)
(***************************************************************************)
EXTENDS OpenCLDriver

MCH0(n, lhs) ==
  IF n = 1 THEN <<17, 34, 35, 51>>[lhs + 1] ELSE <<81, 65, 67, 82>>[lhs + 1]

MCH1(n, rhs) ==
  IF n = 1 THEN <<4, 8, 12, 16, 20, 47, 24, 30>>[rhs + 1]
           ELSE <<125, 185, 61, 46, 8, 12, 4, 16>>[rhs + 1]

MCGarbage == {<<3, 6>>}

MCDifficulties == {bit_difficulty(2)}
=============================================================================
