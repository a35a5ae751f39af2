---------------------------- MODULE AccessToken ----------------------------
(* AccessTokenFn: exchanges an authorization code for a bearer token.       *)
(*                                                                          *)
(* The middleware chain and the handler make, in this order: a Query of the *)
(* index by the code of the request, a GetItem by the session id it found,  *)
(* the check of the two expiry dates, the verification of the client's JWT, *)
(* and a conditional UpdateItem that stores the token and removes the code. *)
(* Both reads may be stale, and what they returned may have changed by the  *)
(* time the update is applied: only its condition, evaluated on the current *)
(* row, stands between two exchanges of one code.                           *)
EXTENDS DynamoTables

VARIABLE
  exchange   \* [Tokens -> the invocation that may issue the token]

\* start is the arrival of the request, at the clock reading behind
\* :currentTime, sends how often the update has reached the table, and spent
\* whether it has ever been applied.
ExchangeInvocation ==
  [step: {"idle", "querying", "loading", "verifying", "writing",
          "issued", "refused", "failed"},
   code: Codes \cup {None},
   session: Sessions \cup {None},
   start: Nat,
   at: Nat,
   sends: Nat,
   spent: BOOLEAN]

ExchangeInFlight(t) ==
  exchange[t].step \in {"querying", "loading", "verifying", "writing"}

ExchangeInit ==
  exchange = [t \in Tokens |->
               [step |-> "idle", code |-> None, session |-> None,
                start |-> 0, at |-> 0, sends |-> 0, spent |-> FALSE]]

\* A well-formed token request for code c arrives.
StartExchange(t, c) ==
  /\ exchange[t].step = "idle"
  /\ exchange' = [exchange EXCEPT ![t].step = "querying", ![t].code = c, ![t].start = now]
  /\ UNCHANGED tableVars

\* SessionService.getSessionByAuthorizationCode: exactly one row or 403.
QuerySession(t) ==
  /\ exchange[t].step = "querying"
  /\ \E found \in QueryByCode(exchange[t].code) :
       \/ \E s \in Sessions :
            /\ found = {s}
            /\ exchange' = [exchange EXCEPT ![t].step = "loading", ![t].session = s]
       \/ /\ \A s \in Sessions : found # {s}
          /\ exchange' = [exchange EXCEPT ![t].step = "refused"]
  /\ UNCHANGED tableVars

\* A wrong check, for the mutants: the expiry of the code alone.
UnexpiredCode(item) == ~HasDateExpired(item.authorizationCodeExpiryDate)

\* SessionService.validateSessionAndAuthorizationCodeExpiry
Unexpired(item) ==
  /\ ~HasDateExpired(item.expiryDate)
  /\ ~HasDateExpired(item.authorizationCodeExpiryDate)

\* getSessionByIdMiddleware.  The row it reads need not carry the code: the
\* fields of the index entry and of the request override it in the event.
LoadSession(t) ==
  /\ exchange[t].step = "loading"
  /\ \E item \in GetItem(exchange[t].session) :
       exchange' = [exchange EXCEPT ![t].step =
                      IF item # NoItem /\ Unexpired(item) THEN "verifying" ELSE "refused"]
  /\ UNCHANGED tableVars

\* The redirect URI and the client assertion are right; the token is minted
\* and the clock read for the update.
AcceptAssertion(t) ==
  /\ exchange[t].step = "verifying"
  /\ exchange' = [exchange EXCEPT ![t].step = "writing", ![t].at = now]
  /\ UNCHANGED tableVars

\* One of them is wrong.
RejectAssertion(t) ==
  /\ exchange[t].step = "verifying"
  /\ exchange' = [exchange EXCEPT ![t].step = "refused"]
  /\ UNCHANGED tableVars

\* Wrong conditions, for the mutants: that the row has a code is not checked,
\* nor which; which code is not checked; its expiry is not checked.
ConsumeAnything(item, c, time) ==
  Before(time, Attributes(item).authorizationCodeExpiryDate)

ConsumeAnyCode(item, c, time) ==
  /\ Attributes(item).authorizationCode # None
  /\ Before(time, Attributes(item).authorizationCodeExpiryDate)

ConsumeAnyTime(item, c, time) ==
  /\ Attributes(item).authorizationCode # None
  /\ Attributes(item).authorizationCode = c

\* The condition of createAccessTokenCodeAndRemoveAuthCode.
ConsumeCondition(item, c, time) ==
  /\ Attributes(item).authorizationCode # None
  /\ Attributes(item).authorizationCode = c
  /\ Before(time, Attributes(item).authorizationCodeExpiryDate)

\* Wrong updates, for the mutants: the code stays; the two are swapped.
WithTokenAndCode(item, t) == [Attributes(item) EXCEPT !.accessToken = t]

WithTokenAsCode(item, t) == [Attributes(item) EXCEPT !.accessToken = None, !.authorizationCode = t]

\* Its update: authorizationCodeExpiryDate stays behind.
WithToken(item, t) == [Attributes(item) EXCEPT !.accessToken = t, !.authorizationCode = None]

\* One arrival of the update at the table, and what its sender goes on with.
ConsumeAuthCode(t) ==
  LET s == exchange[t].session
      sends == exchange[t].sends + 1
      holds == ConsumeCondition(table[s], exchange[t].code, exchange[t].at)
      answered(answer) ==
        \E step \in AfterSend(answer, sends) :
          exchange' = [exchange EXCEPT ![t].step = step, ![t].sends = sends,
                                       ![t].spent = @ \/ holds]
  IN /\ exchange[t].step = "writing"
     /\ \/ /\ holds
           /\ table' = [table EXCEPT ![s] = WithToken(table[s], t)]
           /\ answered("issued")
        \/ /\ ~holds
           /\ UNCHANGED table
           /\ answered("refused")
     /\ UNCHANGED <<now, replica, identity>>

\* Any other error (500), or the platform stops the invocation.
FailExchange(t) ==
  /\ ExchangeInFlight(t)
  /\ exchange' = [exchange EXCEPT ![t].step = "failed"]
  /\ UNCHANGED tableVars

ExchangeNext ==
  \E t \in Tokens :
    \/ QuerySession(t)
    \/ LoadSession(t)
    \/ AcceptAssertion(t)
    \/ RejectAssertion(t)
    \/ ConsumeAuthCode(t)
    \/ FailExchange(t)

ExchangeTypeOK == exchange \in [Tokens -> ExchangeInvocation]

\* An invocation that has run as long as the platform lets it.
ExchangeOverdue ==
  \E t \in Tokens : ExchangeInFlight(t) /\ now >= exchange[t].start + LambdaTimeout
===========================================================================
