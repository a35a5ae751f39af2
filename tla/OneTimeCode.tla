---------------------------- MODULE OneTimeCode ----------------------------
(* What the API promises about authorization codes, with nothing said of    *)
(* requests, rows or clocks: a code has to be put on offer before it can    *)
(* buy anything, it buys one token each time it is on offer, and buying     *)
(* takes it off offer in the same step.                                     *)
(*                                                                          *)
(* With MaxOffers = 1 this is the one-time code of OAuth 2.0.  The code of  *)
(* the repository implements it with MaxOffers = MaxAttempts, since the SDK *)
(* may put the same code on offer again when it repeats a request.          *)
EXTENDS Naturals

CONSTANTS Codes, Tokens, None, MaxOffers

VARIABLES
  offers,   \* [Codes -> how often the code may have been put on offer]
  live,     \* the codes on offer
  bought    \* [Tokens -> the code that bought the token, or None]

Init ==
  /\ offers = [c \in Codes |-> 0]
  /\ live = {}
  /\ bought = [t \in Tokens |-> None]

\* The code is offered; it may take the place of another one, or be declined.
Offer(c) ==
  /\ offers[c] < MaxOffers
  /\ offers' = [offers EXCEPT ![c] = @ + 1]
  /\ live' \in SUBSET (live \cup {c})
  /\ UNCHANGED bought

Buy(t, c) ==
  /\ c \in live
  /\ bought[t] \in {None, c}
  /\ bought' = [bought EXCEPT ![t] = c]
  /\ live' = live \ {c}
  /\ UNCHANGED offers

\* Codes lapse with the rows that hold them.
Lapse ==
  /\ live' \in SUBSET live
  /\ UNCHANGED <<offers, bought>>

Next ==
  \/ \E c \in Codes : Offer(c)
  \/ \E t \in Tokens, c \in Codes : Buy(t, c)
  \/ Lapse

Spec == Init /\ [][Next]_<<offers, live, bought>>
===========================================================================
