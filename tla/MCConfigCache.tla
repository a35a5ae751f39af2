--------------------------- MODULE MCConfigCache ---------------------------
(* An instance of ConfigCache for TLC.                                      *)
EXTENDS ConfigCache, TLC

CONSTANTS p1, q1, q2, v1

\* The parameters of the client are interchangeable.
Interchangeable == Permutations(ClientKeys)
===========================================================================
