---------------------------- MODULE MCRegisterBank ----------------------------
(* The data path for TLC: a byte of two values, so a word has four and an  *)
(* int sixteen, and numbers on both sides of every limit.                  *)
EXTENDS RegisterBank

MCAddresses == 0 .. 4
MCValues == {-9, -8, -2, -1, 0, 1, 3, 4, 7, 8, 13, 15, 16}
=============================================================================
