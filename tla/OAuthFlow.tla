----------------------------- MODULE OAuthFlow -----------------------------
(* The whole API: the five functions that change a session, run against the *)
(* two tables, any number of invocations at a time, in any order.           *)
(*                                                                          *)
(* A client can name a session only after SessionFn has told it the id, and *)
(* a code only after AuthorizationFn has handed it out; it may use either   *)
(* as often and as late as it likes.                                        *)
EXTENDS SessionLambda, DeleteSession, CreateAuthCode, Authorization, AccessToken

vars == <<tableVars, session, deletion, create, handedOut, exchange>>

Init ==
  /\ TablesInit
  /\ SessionInit
  /\ DeletionInit
  /\ CreateInit
  /\ AuthorizationInit
  /\ ExchangeInit

---------------------------------------------------------------------------
(* The actions: each function's, with what the others keep.                 *)

SessionFn ==
  SessionNext /\ UNCHANGED <<deletion, create, handedOut, exchange>>

DeleteSessionFn ==
  /\ \/ \E d \in Deletions, s \in Known : StartDeletion(d, s)
     \/ DeletionNext
  /\ UNCHANGED <<session, create, handedOut, exchange>>

CreateAuthCodeFn ==
  /\ \/ \E c \in Codes, s \in Known : StartCreateAuthCode(c, s)
     \/ CreateNext
  /\ UNCHANGED <<session, deletion, handedOut, exchange>>

AuthorizationFn ==
  /\ \E s \in Known : Authorize(s)
  /\ UNCHANGED <<session, deletion, create, exchange>>

AccessTokenFn ==
  /\ \/ \E t \in Tokens, c \in handedOut : StartExchange(t, c)
     \/ ExchangeNext
  /\ UNCHANGED <<session, deletion, create, handedOut>>

Tables ==
  /\ \E s \in Sessions : Replicate(s) \/ ExpireItem(s) \/ ExpireIdentity(s)
  /\ UNCHANGED <<session, deletion, create, handedOut, exchange>>

\* Time passes, but no invocation outlives LambdaTimeout.
Tick ==
  /\ ~(SessionOverdue \/ DeletionOverdue \/ CreateOverdue \/ ExchangeOverdue)
  /\ AdvanceClock
  /\ UNCHANGED <<session, deletion, create, handedOut, exchange>>

Next ==
  \/ SessionFn
  \/ DeleteSessionFn
  \/ CreateAuthCodeFn
  \/ AuthorizationFn
  \/ AccessTokenFn
  \/ Tables
  \/ Tick

Spec == Init /\ [][Next]_vars

\* The platform stops every invocation in the end, time passes, and the TTL
\* process of DynamoDB removes every expired row of both tables in the end.
Fairness ==
  /\ WF_vars(Tick)
  /\ \A s \in Sessions :
       /\ WF_vars(SessionFn /\ FailSession(s))
       /\ WF_vars(Tables /\ ExpireItem(s))
       /\ WF_vars(Tables /\ ExpireIdentity(s))
  /\ \A d \in Deletions : WF_vars(DeleteSessionFn /\ FailDeletion(d))
  /\ \A c \in Codes : WF_vars(CreateAuthCodeFn /\ FailCreate(c))
  /\ \A t \in Tokens : WF_vars(AccessTokenFn /\ FailExchange(t))

FairSpec == Spec /\ Fairness

---------------------------------------------------------------------------
(* Type invariant.                                                          *)

\* Every variable has its type.
TypeOK ==
  /\ TablesTypeOK
  /\ SessionTypeOK
  /\ DeletionTypeOK
  /\ CreateTypeOK
  /\ AuthorizationTypeOK
  /\ ExchangeTypeOK

---------------------------------------------------------------------------
(* Codes and tokens.                                                        *)

\* The row of s holds code c.
Holds(s, c) == table[s] # NoItem /\ table[s].authorizationCode = c

LiveCodes == {c \in Codes : \E s \in Sessions : Holds(s, c)}

\* The invocations of AccessTokenFn whose update has consumed code c.
Buyers(c) == {t \in Tokens : exchange[t].spent /\ exchange[t].code = c}

\* A code buys at most one token for each time the request that creates it
\* reaches the table, and one fewer while it can still buy: however many
\* exchanges of it overlap, whatever stale reads they start from.
TokensPerCode ==
  \A c \in Codes :
    Cardinality(Buyers(c)) + (IF c \in LiveCodes THEN 1 ELSE 0) <= create[c].sends

\* Each row holds a code that was created for its session; an invocation that
\* has not begun has sent nothing and bought nothing; one that is waiting for
\* an answer has an attempt left, and one that has found a session keeps it.
CodeOrigin ==
  \A s \in Sessions, c \in Codes : Holds(s, c) => create[c].session = s

CreateProgress ==
  \A c \in Codes :
    /\ create[c].sends <= MaxAttempts
    /\ create[c].step = "idle" => create[c].sends = 0
    /\ create[c].step = "writing" => create[c].sends < MaxAttempts

ExchangeProgress ==
  \A t \in Tokens :
    /\ exchange[t].step = "idle" => ~exchange[t].spent
    /\ exchange[t].step \in {"loading", "verifying", "writing"}
         => exchange[t].session \in Sessions

FiniteBuyers == \A c \in Codes : IsFiniteSet(Buyers(c))

\* TokensPerCode made inductive: no code can be live before the request that
\* creates it is sent, nor in two rows, so each arrival of that request adds
\* at most one purchase and each purchase takes one away.
CodeLedger ==
  CodeOrigin /\ CreateProgress /\ ExchangeProgress /\ FiniteBuyers /\ TokensPerCode

\* What a row holds is its own: its code was created for this session and
\* carries the expiry computed with it; its token was bought with a code of
\* this session, by a request that arrived while the session was valid.
RowProvenance ==
  \A s \in Sessions : table[s] # NoItem =>
    /\ \A c \in Codes : table[s].authorizationCode = c =>
         /\ create[c].session = s
         /\ table[s].authorizationCodeExpiryDate = create[c].at + CodeTtl
    /\ \A t \in Tokens : table[s].accessToken = t =>
         /\ exchange[t].spent
         /\ create[exchange[t].code].session = s
         /\ exchange[t].start <= table[s].expiryDate

\* A token is stored before the code and the session expire, or at most one
\* LambdaTimeout after: the expiry checks are made on dates and clocks read
\* earlier in the invocation.
TokenStoredInTime ==
  \A s \in Sessions :
    /\ table[s] # NoItem
    /\ table'[s] # NoItem
    /\ table'[s].accessToken # table[s].accessToken
    => /\ now < table[s].authorizationCodeExpiryDate + LambdaTimeout
       /\ now <= table[s].expiryDate + LambdaTimeout

RedeemedInTime == [][TokenStoredInTime]_vars

\* A code that has not expired leaves its row only with the row, or by being
\* exchanged for the token that the row then carries; CreateAuthCodeFn never
\* replaces it, not even by a request that it repeats.
UnexpiredCodeLeavesForToken ==
  \A s \in Sessions, c \in Codes :
    /\ Holds(s, c)
    /\ now <= table[s].authorizationCodeExpiryDate
    /\ table'[s] # NoItem
    /\ table'[s].authorizationCode # c
    => /\ table'[s].authorizationCode = None
       /\ table'[s].accessToken \in Tokens
       /\ exchange[table'[s].accessToken].code = c

UnexpiredCodeKept == [][UnexpiredCodeLeavesForToken]_vars

\* The API implements the one-time code, with as many offers of a code as the
\* SDK sends one request.
Offers == [c \in Codes |-> create[c].sends]

Bought == [t \in Tokens |-> IF exchange[t].spent THEN exchange[t].code ELSE None]

Abstract == INSTANCE OneTimeCode WITH
  MaxOffers <- MaxAttempts,
  offers <- Offers,
  live <- LiveCodes,
  bought <- Bought

ImplementsOneTimeCode == Abstract!Spec

---------------------------------------------------------------------------
(* Sessions and personal data.                                              *)

\* Once a deletion has been confirmed both rows are gone and nothing that was
\* still running brings either back.
DeletedForGood ==
  \A d \in Deletions : deletion[d].step = "deleted" =>
    /\ table[deletion[d].session] = NoItem
    /\ identity[deletion[d].session] = None

\* While an open session has not expired, the personal data that came with it
\* is there: the two tables, written, expired and deleted apart, agree.
IdentityKeptWithSession ==
  \A s \in Known :
    /\ session[s].claims
    /\ table[s] # NoItem
    /\ now <= session[s].expiry
    => identity[s] # None

\* Whatever is written to a row, and however late: it has an expiryDate, and
\* that of the session is SessionTtl after its request arrived, that of the
\* identity at most one LambdaTimeout later.  A row without one is never removed.
RetentionBounded ==
  \A s \in Sessions :
    /\ table[s] # NoItem => table[s].expiryDate = session[s].start + SessionTtl
    /\ identity[s] # None => identity[s] <= session[s].start + SessionTtl + LambdaTimeout

\* Every row of both tables is gone in the end: those that a failed SessionFn
\* left behind, and those that other requests were writing to as it expired.
PersonalDataErased ==
  <>[](\A s \in Sessions : table[s] = NoItem /\ identity[s] = None)

---------------------------------------------------------------------------
(* Claims of the repository's tests that the code does not meet.            *)

\* A code that has been consumed cannot be consumed again.
SingleUse == \A c \in Codes : Cardinality(Buyers(c)) <= 1

\* When CreateAuthCodeFn answers 200, the code that it leaves in place is one
\* that AccessTokenFn would accept at that second.
UnchangedMeansRedeemable ==
  [][\A c \in Codes :
       create'[c].step = "unchanged" /\ create[c].step # "unchanged"
       => create[c].at < table[create[c].session].authorizationCodeExpiryDate]_vars

\* AuthorizationFn hands out no code of a session whose deletion has been
\* confirmed.
DeletedNeverAuthorized ==
  [][\A c \in handedOut' \ handedOut :
       ~\E d \in Deletions :
          deletion[d].step = "deleted" /\ deletion[d].session = create[c].session]_vars
===========================================================================
