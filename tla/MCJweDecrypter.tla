--------------------------- MODULE MCJweDecrypter ---------------------------
(* An instance of JweDecrypter for TLC.                                      *)
EXTENDS JweDecrypter, TLC

CONSTANTS k1, k2

\* Keys are interchangeable.
Interchangeable == Permutations(KmsKeys)
===========================================================================
