---------------------------- MODULE MCJwksCache ----------------------------
(* An instance of JwksCache for TLC.                                        *)
EXTENDS JwksCache, TLC

CONSTANTS k1, k2

Interchangeable == Permutations(Keys)
===========================================================================
