---------------------------- MODULE MCSessionData ----------------------------
(* An instance of SessionData for TLC.                                      *)
EXTENDS SessionData, TLC

CONSTANTS k1, k2, v1, v2, u1, u2

\* Keys, values and invocations are interchangeable.
Interchangeable == Permutations(Keys) \cup Permutations(Values) \cup Permutations(Updates)
===========================================================================
