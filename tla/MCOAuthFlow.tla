---------------------------- MODULE MCOAuthFlow ----------------------------
(* Instances of OAuthFlow for TLC.                                          *)
EXTENDS OAuthFlow, TLC

CONSTANTS s1, s2, c1, c2, t1, t2, d1

\* Sessions, codes and tokens, and the invocations that draw them, are
\* interchangeable.
Interchangeable ==
  Permutations(Sessions) \cup Permutations(Codes) \cup Permutations(Tokens)
===========================================================================
