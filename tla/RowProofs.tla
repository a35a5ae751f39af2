----------------------------- MODULE RowProofs -----------------------------
(* What the rows of OAuthFlow hold, and for how long: theorems for every    *)
(* set of sessions, codes, tokens and deletions, every TTL and timeout, and *)
(* every number of attempts.                                                *)
(*                                                                          *)
(* The first part says, once for each variable, how a step may change it;   *)
(* the invariants that follow rest on those lemmas and not on the actions.  *)
EXTENDS OAuthFlowProofs

(* How a step may change each variable.                                     *)

\* An invocation of SessionFn starts, or goes on with the dates it has; with
\* claims, it gets as far as the audit event only by putting the identity.
SessionMove(s) ==
  \/ session'[s] = session[s]
  \/ /\ session[s].step = "idle"
     /\ session'[s].step = "saving"
     /\ session'[s].start = now
     /\ session'[s].expiry = now + SessionTtl
  \/ /\ SessionInFlight(s)
     /\ session'[s].step # "idle"
     /\ session'[s].claims = session[s].claims
     /\ session'[s].start = session[s].start
     /\ session'[s].expiry = session[s].expiry
     /\ session'[s].step = "savingIdentity" =>
          \/ session[s].step = "saving" /\ session'[s].identityExpiry = now + SessionTtl
          \/ /\ session[s].step = "savingIdentity"
             /\ session'[s].identityExpiry = session[s].identityExpiry
     /\ session'[s].step \in {"auditing", "created"} /\ session[s].claims =>
          \/ session[s].step = "savingIdentity" /\ identity'[s] = session[s].identityExpiry
          \/ session[s].step = "auditing"

\* An invocation of CreateAuthCodeFn starts, or goes on with the session and
\* the clock reading it has.
CreateMove(c) ==
  \/ create'[c] = create[c]
  \/ /\ create[c].step = "idle"
     /\ create'[c].step # "idle"
     /\ create'[c].session \in Known
     /\ create'[c].at = now
  \/ /\ create[c].step = "writing"
     /\ create'[c].step # "idle"
     /\ create'[c].session = create[c].session
     /\ create'[c].at = create[c].at

\* The deletion starts with a known session, or goes on with the one it has;
\* it is confirmed in the step that takes both rows.
DeletionMove(d) ==
  \/ deletion'[d] = deletion[d]
  \/ /\ deletion[d].step = "idle"
     /\ deletion'[d].step = "reading"
     /\ deletion'[d].session \in Known
  \/ /\ DeletionInFlight(d)
     /\ deletion'[d].step # "idle"
     /\ deletion'[d].session = deletion[d].session
     /\ deletion'[d].step = "deleted" =>
          /\ table' = [table EXCEPT ![deletion[d].session] = NoItem]
          /\ identity' = [identity EXCEPT ![deletion[d].session] = None]

\* The update of exchange t is applied to the row of s.
Buys(t, s) ==
  /\ exchange[t].step = "writing"
  /\ exchange[t].session = s
  /\ ConsumeCondition(table[s], exchange[t].code, exchange[t].at)
  /\ table'[s] = WithToken(table[s], t)
  /\ exchange'[t].spent

\* An exchange starts, or goes on with the code and the start it has.
ExchangeMove(t) ==
  \/ exchange'[t] = exchange[t]
  \/ /\ exchange[t].step = "idle"
     /\ exchange'[t].step = "querying"
     /\ exchange'[t].start = now
     /\ exchange'[t].spent = exchange[t].spent
  \/ /\ ExchangeInFlight(t)
     /\ exchange'[t].step # "idle"
     /\ exchange'[t].code = exchange[t].code
     /\ exchange'[t].start = exchange[t].start
     /\ \/ exchange'[t].spent = exchange[t].spent
        \/ \E s \in Sessions : Buys(t, s)
     /\ exchange'[t].step = "verifying" =>
          /\ exchange[t].step = "loading"
          /\ exchange'[t].session = exchange[t].session
          /\ \E item \in GetItem(exchange[t].session) : item # NoItem /\ Unexpired(item)
     /\ exchange'[t].step = "writing" =>
          /\ exchange[t].step \in {"verifying", "writing"}
          /\ exchange'[t].session = exchange[t].session
          /\ exchange'[t].at = IF exchange[t].step = "verifying" THEN now ELSE exchange[t].at

\* The request of code c is applied to the row of s.
Stores(c, s) ==
  /\ create[c].step = "writing"
  /\ create[c].session = s
  /\ AuthCodeCondition(table[s], create[c].at)
  /\ table'[s] = WithAuthCode(table[s], c, create[c].at)

\* A row stays, goes, is put by the SessionFn that opens it, or is updated.
RowMove(s) ==
  \/ table'[s] \in {table[s], NoItem}
  \/ /\ session[s].step = "saving"
     /\ table'[s] = [expiryDate |-> session[s].expiry,
                     authorizationCode |-> None,
                     authorizationCodeExpiryDate |-> None,
                     accessToken |-> None]
  \/ \E c \in Codes : Stores(c, s)
  \/ \E t \in Tokens : Buys(t, s)

\* The identity of s stays, goes as it expires or with its row, or is put by
\* the SessionFn that opens s.
IdentityMove(s) ==
  \/ identity'[s] = identity[s]
  \/ identity'[s] = None /\ (Before(identity[s], now) \/ table'[s] = NoItem)
  \/ /\ session[s].step = "savingIdentity"
     /\ identity'[s] = session[s].identityExpiry

\* Time passes only while no invocation is overdue, and everything else rests.
ClockMove ==
  \/ now' = now
  \/ /\ now' = now + 1
     /\ UNCHANGED <<table, replica, identity, session, deletion, create, exchange>>
     /\ ~ExchangeOverdue
     /\ ~SessionOverdue

Moves ==
  /\ \A s \in Sessions :
       /\ SessionMove(s)
       /\ RowMove(s)
       /\ IdentityMove(s)
       /\ replica'[s] \in {replica[s], table[s]}
  /\ \A c \in Codes : CreateMove(c)
  /\ \A d \in Deletions : DeletionMove(d)
  /\ \A t \in Tokens : ExchangeMove(t)
  /\ ClockMove

LEMMA SessionMoves ==
  ASSUME TypeOK, SessionFn
  PROVE  Moves
  <1> USE DEF TypeOK, TablesTypeOK, SessionTypeOK, SessionInvocation, SessionMove, RowMove,
              IdentityMove, SessionInFlight
  <1>1. PICK r \in Sessions :
          \/ \E claims \in BOOLEAN : StartSession(r, claims)
          \/ SaveSession(r)
          \/ SavePersonIdentity(r)
          \/ SendAuditEvent(r)
          \/ FailSession(r)
    BY DEF SessionFn, SessionNext
  <1>2. /\ UNCHANGED <<now, replica>>
        /\ UNCHANGED <<deletion, create, exchange>>
    BY <1>1 DEF SessionFn, StartSession, SaveSession, SavePersonIdentity, SendAuditEvent,
                FailSession, tableVars
  <1>3. \A s \in Sessions : SessionMove(s) /\ RowMove(s) /\ IdentityMove(s)
    <2>1. CASE \E claims \in BOOLEAN : StartSession(r, claims)
      BY <2>1 DEF StartSession, SessionExpirationEpoch, tableVars
    <2>2. CASE SaveSession(r)
      <3>1. /\ session[r].step = "saving"
            /\ UNCHANGED identity
            /\ table' = [table EXCEPT ![r] =
                 [expiryDate |-> session[r].expiry, authorizationCode |-> None,
                  authorizationCodeExpiryDate |-> None, accessToken |-> None]]
        BY <2>2 DEF SaveSession
      <3>2. \A s \in Sessions : SessionMove(s)
        BY <2>2 DEF SaveSession, SessionExpirationEpoch
      <3> QED BY <3>1, <3>2
    <2>3. CASE SavePersonIdentity(r)
      BY <2>3 DEF SavePersonIdentity
    <2>4. CASE SendAuditEvent(r)
      BY <2>4 DEF SendAuditEvent, tableVars
    <2>5. CASE FailSession(r)
      BY <2>5 DEF FailSession, tableVars
    <2> QED BY <1>1, <2>1, <2>2, <2>3, <2>4, <2>5
  <1> QED BY <1>2, <1>3 DEF Moves, CreateMove, DeletionMove, ExchangeMove, ClockMove

LEMMA DeletionMoves ==
  ASSUME TypeOK, DeleteSessionFn
  PROVE  Moves
  <1> USE DEF TypeOK, TablesTypeOK, DeletionTypeOK, DeletionInvocation, DeletionMove, RowMove,
              IdentityMove, DeletionInFlight
  <1>1. /\ UNCHANGED <<now, replica>>
        /\ UNCHANGED <<session, create, exchange>>
    BY DEF DeleteSessionFn, DeletionNext, StartDeletion, ReadForDeletion, DeleteBoth,
           FailDeletion, tableVars
  <1> DEFINE moved == /\ \A s \in Sessions : RowMove(s) /\ IdentityMove(s)
                      /\ \A d \in Deletions : DeletionMove(d)
  <1>2. moved
    <2>1. CASE \E d \in Deletions, s \in Known : StartDeletion(d, s)
      BY <2>1 DEF StartDeletion, tableVars
    <2>2. ASSUME NEW d \in Deletions, ReadForDeletion(d) \/ FailDeletion(d)
          PROVE  moved
      BY <2>2 DEF ReadForDeletion, FailDeletion, tableVars
    <2>3. ASSUME NEW d \in Deletions, DeleteBoth(d)
          PROVE  moved
      <3> DEFINE s == deletion[d].session
      <3>1. PICK step \in {"deleted", "failed"} :
              /\ deletion[d].step = "writing"
              /\ deletion' = [deletion EXCEPT ![d].step = step]
              /\ table' = [table EXCEPT ![s] = NoItem]
              /\ identity' = [identity EXCEPT ![s] = None]
        BY <2>3 DEF DeleteBoth
      <3>2. \A r \in Sessions : RowMove(r) /\ IdentityMove(r)
        BY <3>1
      <3>3. \A e \in Deletions \ {d} : DeletionMove(e)
        BY <3>1
      <3>4. deletion'[d] = [deletion[d] EXCEPT !.step = step]
        BY <3>1
      <3>5. DeletionMove(d)
        BY <3>1, <3>4
      <3> QED BY <3>2, <3>3, <3>5
    <2> QED BY <2>1, <2>2, <2>3 DEF DeleteSessionFn, DeletionNext
  <1> QED BY <1>1, <1>2 DEF Moves, SessionMove, CreateMove, ExchangeMove, ClockMove

LEMMA CreateMoves ==
  ASSUME TypeOK, CreateAuthCodeFn
  PROVE  Moves
  <1> USE DEF TypeOK, TablesTypeOK, CreateTypeOK, CreateInvocation, CreateMove, RowMove
  <1>1. /\ UNCHANGED <<now, replica, identity>>
        /\ UNCHANGED <<session, deletion, exchange>>
    BY DEF CreateAuthCodeFn, CreateNext, StartCreateAuthCode, UpdateAuthCode, FailCreate,
           tableVars
  <1> DEFINE moved == /\ \A s \in Sessions : RowMove(s)
                      /\ \A c \in Codes : CreateMove(c)
  <1>2. moved
    <2>1. CASE \E c \in Codes, s \in Known : StartCreateAuthCode(c, s)
      BY <2>1 DEF StartCreateAuthCode, tableVars
    <2>2. ASSUME NEW c \in Codes, FailCreate(c)
          PROVE  moved
      BY <2>2 DEF FailCreate, CreateInFlight, tableVars
    <2>3. ASSUME NEW c \in Codes, UpdateAuthCode(c)
          PROVE  moved
      <3> DEFINE s == create[c].session
      <3>1. PICK step \in {"writing", "failed", "created", "notFound", "unchanged"},
                 sends \in Nat :
              create' = [create EXCEPT ![c].step = step, ![c].sends = sends]
        BY <2>3 DEF UpdateAuthCode, AfterSend
      <3>2. create[c].step = "writing"
        BY <2>3 DEF UpdateAuthCode
      <3>3. \A e \in Codes : CreateMove(e)
        BY <3>1, <3>2
      <3>4. ASSUME NEW r \in Sessions
            PROVE  RowMove(r)
        <4>1. \/ UNCHANGED table
              \/ /\ AuthCodeCondition(table[s], create[c].at)
                 /\ table' = [table EXCEPT ![s] = WithAuthCode(table[s], c, create[c].at)]
          BY <2>3 DEF UpdateAuthCode
        <4>2. CASE r = s
          BY <3>2, <4>1, <4>2 DEF Stores
        <4>3. CASE r # s
          BY <4>1, <4>3
        <4> QED BY <4>2, <4>3
      <3> QED BY <3>3, <3>4
    <2> QED BY <2>1, <2>2, <2>3 DEF CreateAuthCodeFn, CreateNext
  <1> QED BY <1>1, <1>2 DEF Moves, SessionMove, IdentityMove, DeletionMove, ExchangeMove,
                            ClockMove

LEMMA ExchangeMoves ==
  ASSUME TypeOK, CodeLedger, AccessTokenFn
  PROVE  Moves
  <1> USE DEF TypeOK, TablesTypeOK, ExchangeTypeOK, ExchangeInvocation, ExchangeMove, RowMove,
              ExchangeInFlight
  <1>1. /\ UNCHANGED <<now, replica, identity>>
        /\ UNCHANGED <<session, deletion, create>>
    BY DEF AccessTokenFn, ExchangeNext, StartExchange, QuerySession, LoadSession,
           AcceptAssertion, RejectAssertion, ConsumeAuthCode, FailExchange, tableVars
  <1> DEFINE moved == /\ \A s \in Sessions : RowMove(s)
                      /\ \A t \in Tokens : ExchangeMove(t)
  <1>2. moved
    <2>1. ASSUME NEW t \in Tokens, NEW c \in Codes, StartExchange(t, c)
          PROVE  moved
      BY <2>1 DEF StartExchange, tableVars
    <2>2. ASSUME NEW t \in Tokens, QuerySession(t)
          PROVE  moved
      <3>1. UNCHANGED table /\ exchange[t].step = "querying"
        BY <2>2 DEF QuerySession, tableVars
      <3>2. CASE exchange' = [exchange EXCEPT ![t].step = "refused"]
        BY <3>1, <3>2
      <3>3. ASSUME NEW s \in Sessions,
                   exchange' = [exchange EXCEPT ![t].step = "loading", ![t].session = s]
            PROVE  moved
        BY <3>1, <3>3
      <3> QED BY <2>2, <3>2, <3>3, QueryOutcome
    <2>3. ASSUME NEW t \in Tokens, LoadSession(t)
          PROVE  moved
      <3>1. /\ exchange[t].step = "loading"
            /\ UNCHANGED table
            /\ \E item \in GetItem(exchange[t].session) :
                 exchange' = [exchange EXCEPT ![t].step =
                   IF item # NoItem /\ Unexpired(item) THEN "verifying" ELSE "refused"]
        BY <2>3 DEF LoadSession, tableVars
      <3> QED BY <3>1
    <2>4. ASSUME NEW t \in Tokens, AcceptAssertion(t)
          PROVE  moved
      BY <2>4 DEF AcceptAssertion, tableVars
    <2>5. ASSUME NEW t \in Tokens, RejectAssertion(t) \/ FailExchange(t)
          PROVE  moved
      BY <2>5 DEF RejectAssertion, FailExchange, tableVars
    <2>6. ASSUME NEW t \in Tokens, ConsumeAuthCode(t)
          PROVE  moved
      <3> PICK s \in Sessions : s = exchange[t].session
        BY <2>6 DEF ConsumeAuthCode, CodeLedger, ExchangeProgress
      <3> DEFINE holds == ConsumeCondition(table[s], exchange[t].code, exchange[t].at)
      <3>1. \/ holds /\ table' = [table EXCEPT ![s] = WithToken(table[s], t)]
            \/ ~holds /\ UNCHANGED table
        BY <2>6 DEF ConsumeAuthCode
      <3>2. /\ exchange[t].step = "writing"
            /\ \A u \in Tokens \ {t} : exchange'[u] = exchange[u]
            /\ exchange'[t].step \in {"writing", "failed", "issued", "refused"}
            /\ exchange'[t].code = exchange[t].code
            /\ exchange'[t].session = exchange[t].session
            /\ exchange'[t].start = exchange[t].start
            /\ exchange'[t].at = exchange[t].at
            /\ exchange'[t].spent = (exchange[t].spent \/ holds)
        BY <2>6, ConsumeOutcome
      <3> HIDE DEF holds
      <3>3. holds => Buys(t, s)
        BY <3>1, <3>2 DEF Buys, holds
      <3>4. \A r \in Sessions : RowMove(r)
        BY <3>1, <3>3
      <3>5. (exchange'[t].spent = exchange[t].spent) \/ \E r \in Sessions : Buys(t, r)
        <4>1. exchange[t].spent \in BOOLEAN
          OBVIOUS
        <4> QED BY <3>2, <3>3, <4>1
      <3>6. ExchangeMove(t)
        BY <3>2, <3>5
      <3> QED BY <3>2, <3>4, <3>6
    <2> QED BY <2>1, <2>2, <2>3, <2>4, <2>5, <2>6
            DEF AccessTokenFn, ExchangeNext, AuthorizationTypeOK
  <1> QED BY <1>1, <1>2 DEF Moves, SessionMove, IdentityMove, CreateMove, DeletionMove,
                            ClockMove

\* Every step moves each variable in one of these ways.
LEMMA StepMoves ==
  ASSUME TypeOK, CodeLedger, [Next]_vars
  PROVE  Moves
  <1> USE DEF Moves, SessionMove, RowMove, IdentityMove, CreateMove, DeletionMove,
              ExchangeMove, ClockMove
  <1>1. CASE AuthorizationFn
    BY <1>1 DEF AuthorizationFn, Authorize, tableVars
  <1>2. CASE Tables
    BY <1>2 DEF Tables, Replicate, ExpireItem, ExpireIdentity, TypeOK, TablesTypeOK
  <1>3. CASE Tick
    BY <1>3 DEF Tick, AdvanceClock
  <1>4. CASE UNCHANGED vars
    BY <1>4 DEF vars, tableVars
  <1> QED BY <1>1, <1>2, <1>3, <1>4, SessionMoves, DeletionMoves, CreateMoves, ExchangeMoves
          DEF Next

\* The request that creates a code changes the code of a row and its expiry;
\* it finds a row, without a code or with one that had expired.
LEMMA StoredRow ==
  ASSUME TypeOK, NEW c \in Codes, NEW s \in Sessions, Stores(c, s)
  PROVE  /\ table[s] \in Item /\ table'[s] \in Item
         /\ table'[s].authorizationCode = c
         /\ table'[s].authorizationCodeExpiryDate = create[c].at + CodeTtl
         /\ table'[s].expiryDate = table[s].expiryDate
         /\ table'[s].accessToken = table[s].accessToken
         /\ \/ table[s].authorizationCode = None
            \/ Before(table[s].authorizationCodeExpiryDate, create[c].at)
  <1>1. table[s] \in Item
    BY DEF Stores, AuthCodeCondition, Attributes, Before, TypeOK, TablesTypeOK
  <1>2. table[s] # NoItem /\ Attributes(table[s]) = table[s]
    BY <1>1, NoItemAssumption DEF Attributes
  <1>3. create[c].at \in Nat /\ create[c].at + CodeTtl \in Nat
    BY ConstantTypes DEF TypeOK, CreateTypeOK, CreateInvocation
  <1>4. table'[s] = [table[s] EXCEPT !.authorizationCode = c,
                                     !.authorizationCodeExpiryDate = create[c].at + CodeTtl]
    BY <1>2 DEF Stores, WithAuthCode, AuthorizationCodeExpirationEpoch
  <1>5. table'[s] \in Item
    BY <1>1, <1>3, <1>4 DEF Item
  <1> QED BY <1>1, <1>2, <1>4, <1>5 DEF Stores, AuthCodeCondition, Item

\* The update of an exchange takes its code, not yet expired, out of a row and
\* puts its token in.
LEMMA BoughtRow ==
  ASSUME TypeOK, NEW t \in Tokens, NEW s \in Sessions, Buys(t, s)
  PROVE  /\ table[s] \in Item /\ table'[s] \in Item
         /\ exchange[t].code \in Codes
         /\ table[s].authorizationCode = exchange[t].code
         /\ Before(exchange[t].at, table[s].authorizationCodeExpiryDate)
         /\ table'[s].authorizationCode = None
         /\ table'[s].authorizationCodeExpiryDate = table[s].authorizationCodeExpiryDate
         /\ table'[s].expiryDate = table[s].expiryDate
         /\ table'[s].accessToken = t
  <1>1. table[s] \in Item
    BY DEF Buys, ConsumeCondition, Attributes, TypeOK, TablesTypeOK
  <1>2. Attributes(table[s]) = table[s]
    BY <1>1, NoItemAssumption DEF Attributes
  <1>3. table'[s] = [table[s] EXCEPT !.accessToken = t, !.authorizationCode = None]
    BY <1>2 DEF Buys, WithToken
  <1>4. table'[s] \in Item
    BY <1>1, <1>3 DEF Item
  <1>5. /\ exchange[t].code # None
        /\ table[s].authorizationCode = exchange[t].code
        /\ Before(exchange[t].at, table[s].authorizationCodeExpiryDate)
    BY <1>2 DEF Buys, ConsumeCondition
  <1> QED BY <1>1, <1>3, <1>4, <1>5 DEF TypeOK, ExchangeTypeOK, ExchangeInvocation, Item

---------------------------------------------------------------------------
(* The inductive invariant.                                                 *)

\* Clock readings lie in the past, and those of an invocation under way at
\* most one time limit back.
ClocksRead ==
  /\ \A s \in Sessions : session[s].step # "idle" =>
       /\ session[s].start <= now
       /\ session[s].expiry = session[s].start + SessionTtl
  /\ \A c \in Codes : create[c].at <= now
  /\ \A t \in Tokens : ExchangeInFlight(t) =>
       /\ exchange[t].start <= now
       /\ now <= exchange[t].start + LambdaTimeout
       /\ exchange[t].step = "writing" => exchange[t].start <= exchange[t].at

\* Whoever has been given a session has been given an open one.
OpenedBefore ==
  /\ \A c \in Codes : create[c].session \in Sessions =>
       create[c].step # "idle" /\ create[c].session \in Known
  /\ \A d \in Deletions : deletion[d].step # "idle" => deletion[d].session \in Known

\* item, if it is a row of s, has the expiry that SessionFn computed for s.
Dated(item, s) ==
  item # NoItem => session[s].step # "idle" /\ item.expiryDate = session[s].expiry

RowsDated == \A s \in Sessions : Dated(table[s], s) /\ Dated(replica[s], s)

\* An exchange past the expiry checks began before its session expired; one
\* that has bought something had a code to buy it with.
ExchangesValid ==
  \A t \in Tokens :
    /\ exchange[t].step \in {"verifying", "writing"} =>
         /\ session[exchange[t].session].step # "idle"
         /\ exchange[t].start <= session[exchange[t].session].expiry
    /\ exchange[t].spent => exchange[t].code \in Codes

\* The identity of a session does not expire before its row, and is there
\* from before the session is known, for as long as the row is there and valid.
IdentityLasts ==
  \A s \in Sessions :
    /\ session[s].step = "savingIdentity" => session[s].expiry <= session[s].identityExpiry
    /\ identity[s] # None => session[s].step # "idle" /\ session[s].expiry <= identity[s]
    /\ /\ session[s].step \in {"auditing", "created"}
       /\ session[s].claims
       /\ table[s] # NoItem
       /\ now <= session[s].expiry
       => identity[s] # None

\* An invocation of SessionFn under way began at most one time limit ago, so
\* the expiry it computes for the identity is at most that much later than the
\* session's.
IdentityDated ==
  \A s \in Sessions :
    /\ SessionInFlight(s) => now <= session[s].start + LambdaTimeout
    /\ session[s].step = "savingIdentity" =>
         session[s].identityExpiry <= session[s].start + SessionTtl + LambdaTimeout
    /\ identity[s] # None =>
         /\ session[s].step # "idle"
         /\ identity[s] <= session[s].start + SessionTtl + LambdaTimeout

RowInv ==
  /\ ClocksRead
  /\ OpenedBefore
  /\ RowsDated
  /\ ExchangesValid
  /\ RowProvenance
  /\ DeletedForGood
  /\ IdentityLasts
  /\ IdentityDated

LEMMA RowInit == Init => RowInv
  <1> SUFFICES ASSUME Init
               PROVE  RowInv
    OBVIOUS
  <1> USE DEF Init, TablesInit, SessionInit, DeletionInit, CreateInit, ExchangeInit
  <1>1. ClocksRead
    BY DEF ClocksRead, ExchangeInFlight
  <1>2. OpenedBefore
    BY NoneAssumption DEF OpenedBefore
  <1>3. RowsDated /\ RowProvenance
    BY DEF RowsDated, Dated, RowProvenance
  <1>4. ExchangesValid
    BY DEF ExchangesValid
  <1>5. DeletedForGood /\ IdentityLasts /\ IdentityDated
    BY DEF DeletedForGood, IdentityLasts, IdentityDated, SessionInFlight
  <1> QED BY <1>1, <1>2, <1>3, <1>4, <1>5 DEF RowInv

LEMMA ClocksReadStep ==
  ASSUME TypeOK, ClocksRead, Moves
  PROVE  ClocksRead'
  <1> USE ConstantTypes DEF TypeOK, TablesTypeOK
  <1>1. now' \in Nat /\ now <= now'
    BY DEF Moves, ClockMove
  <1>2. ASSUME NEW s \in Sessions, session'[s].step # "idle"
        PROVE  /\ session'[s].start <= now'
               /\ session'[s].expiry = session'[s].start + SessionTtl
    <2>1. session[s] \in SessionInvocation
      BY DEF SessionTypeOK
    <2>2. SessionMove(s)
      BY DEF Moves
    <2>3. session[s].step # "idle" => session[s].start <= now
                                      /\ session[s].expiry = session[s].start + SessionTtl
      BY DEF ClocksRead
    <2> QED BY <1>1, <1>2, <2>1, <2>2, <2>3
            DEF SessionMove, SessionInFlight, SessionInvocation
  <1>3. ASSUME NEW c \in Codes
        PROVE  create'[c].at <= now'
    <2>1. create[c] \in CreateInvocation /\ create[c].at <= now
      BY DEF CreateTypeOK, ClocksRead
    <2> QED BY <1>1, <2>1 DEF Moves, CreateMove, CreateInvocation
  <1>4. ASSUME NEW t \in Tokens, ExchangeInFlight(t)'
        PROVE  /\ exchange'[t].start <= now'
               /\ now' <= exchange'[t].start + LambdaTimeout
               /\ exchange'[t].step = "writing" => exchange'[t].start <= exchange'[t].at
    <2>1. exchange[t] \in ExchangeInvocation
      BY DEF ExchangeTypeOK
    <2>2. ExchangeInFlight(t) =>
            /\ exchange[t].start <= now
            /\ now <= exchange[t].start + LambdaTimeout
            /\ exchange[t].step = "writing" => exchange[t].start <= exchange[t].at
      BY DEF ClocksRead
    <2>3. CASE now' = now
      <3>1. ExchangeMove(t)
        BY DEF Moves
      <3>2. CASE exchange'[t] = exchange[t]
        BY <1>4, <2>2, <2>3, <3>2 DEF ExchangeInFlight
      <3>3. CASE exchange[t].step = "idle" /\ exchange'[t].step = "querying"
                 /\ exchange'[t].start = now
        BY <2>3, <3>3
      <3>4. CASE /\ ExchangeInFlight(t)
                 /\ exchange'[t].start = exchange[t].start
                 /\ exchange'[t].step = "writing" =>
                      /\ exchange[t].step \in {"verifying", "writing"}
                      /\ exchange'[t].at = IF exchange[t].step = "verifying"
                                           THEN now ELSE exchange[t].at
        BY <2>1, <2>2, <2>3, <3>4 DEF ExchangeInvocation
      <3> QED BY <3>1, <3>2, <3>3, <3>4 DEF ExchangeMove
    <2>4. CASE now' = now + 1 /\ UNCHANGED exchange /\ ~ExchangeOverdue
      <3>1. ExchangeInFlight(t)
        BY <1>4, <2>4 DEF ExchangeInFlight
      <3>2. now < exchange[t].start + LambdaTimeout
        BY <2>1, <2>4, <3>1 DEF ExchangeOverdue, ExchangeInvocation
      <3> QED BY <2>1, <2>2, <2>4, <3>1, <3>2 DEF ExchangeInvocation
    <2> QED BY <2>3, <2>4 DEF Moves, ClockMove
  <1> QED BY <1>2, <1>3, <1>4 DEF ClocksRead

\* A session that is known stays known, and one that has been begun, begun,
\* with the expiry it has.
LEMMA SessionsStay ==
  ASSUME Moves
  PROVE  /\ Known \subseteq Known'
         /\ \A s \in Sessions : session[s].step # "idle" =>
              session'[s].step # "idle" /\ session'[s].expiry = session[s].expiry
  BY DEF Moves, SessionMove, SessionInFlight, Known

LEMMA OpenedBeforeStep ==
  ASSUME TypeOK, OpenedBefore, Moves
  PROVE  OpenedBefore'
  <1>1. ASSUME NEW c \in Codes, create'[c].session \in Sessions
        PROVE  create'[c].step # "idle" /\ create'[c].session \in Known'
    BY <1>1, SessionsStay DEF OpenedBefore, Moves, CreateMove
  <1>2. ASSUME NEW d \in Deletions, deletion'[d].step # "idle"
        PROVE  deletion'[d].session \in Known'
    BY <1>2, SessionsStay DEF OpenedBefore, Moves, DeletionMove, DeletionInFlight
  <1> QED BY <1>1, <1>2 DEF OpenedBefore

LEMMA RowsDatedStep ==
  ASSUME TypeOK, RowsDated, Moves
  PROVE  RowsDated'
  <1> SUFFICES ASSUME NEW s \in Sessions
               PROVE  Dated(table[s], s)' /\ Dated(replica[s], s)'
    BY DEF RowsDated
  <1>1. Dated(table[s], s) /\ Dated(replica[s], s)
    BY DEF RowsDated
  <1>2. Dated(replica[s], s)'
    BY <1>1, SessionsStay DEF Dated, Moves
  <1>3. CASE table'[s] \in {table[s], NoItem}
    BY <1>1, <1>2, <1>3, SessionsStay DEF Dated
  <1>4. CASE session[s].step = "saving" /\ table'[s].expiryDate = session[s].expiry
    BY <1>2, <1>4, SessionsStay DEF Dated
  <1>5. CASE \E c \in Codes : Stores(c, s)
    BY <1>1, <1>2, <1>5, SessionsStay, StoredRow, NoItemAssumption DEF Dated
  <1>6. CASE \E t \in Tokens : Buys(t, s)
    BY <1>1, <1>2, <1>6, SessionsStay, BoughtRow, NoItemAssumption DEF Dated
  <1>7. RowMove(s)
    BY DEF Moves
  <1> QED BY <1>3, <1>4, <1>5, <1>6, <1>7 DEF RowMove

LEMMA ExchangesValidStep ==
  ASSUME TypeOK, CodeLedger, ClocksRead, RowsDated, ExchangesValid, Moves
  PROVE  ExchangesValid'
  <1> SUFFICES ASSUME NEW t \in Tokens
               PROVE  /\ exchange'[t].step \in {"verifying", "writing"} =>
                           /\ session'[exchange'[t].session].step # "idle"
                           /\ exchange'[t].start <= session'[exchange'[t].session].expiry
                      /\ exchange'[t].spent => exchange'[t].code \in Codes
    BY DEF ExchangesValid
  <1>1. ExchangeMove(t) /\ exchange[t] \in ExchangeInvocation
    BY DEF Moves, TypeOK, ExchangeTypeOK
  <1>2. exchange'[t].spent => exchange'[t].code \in Codes
    <2>1. exchange[t].spent => exchange[t].code \in Codes /\ exchange[t].step # "idle"
      BY DEF ExchangesValid, CodeLedger, ExchangeProgress
    <2> QED BY <1>1, <2>1, BoughtRow DEF ExchangeMove
  <1>3. ASSUME exchange'[t].step \in {"verifying", "writing"}
        PROVE  /\ session'[exchange'[t].session].step # "idle"
               /\ exchange'[t].start <= session'[exchange'[t].session].expiry
    <2>1. CASE /\ exchange[t].step \in {"verifying", "writing"}
               /\ exchange'[t].session = exchange[t].session
               /\ exchange'[t].start = exchange[t].start
      <3>1. exchange[t].session \in Sessions
        BY <2>1 DEF CodeLedger, ExchangeProgress
      <3> QED BY <2>1, <3>1, SessionsStay DEF ExchangesValid
    <2>2. CASE /\ exchange[t].step = "loading"
               /\ exchange'[t].session = exchange[t].session
               /\ exchange'[t].start = exchange[t].start
               /\ \E item \in GetItem(exchange[t].session) : item # NoItem /\ Unexpired(item)
      <3> PICK item \in GetItem(exchange[t].session) : item # NoItem /\ Unexpired(item)
        BY <2>2
      <3> PICK s \in Sessions : s = exchange[t].session
        BY <2>2 DEF CodeLedger, ExchangeProgress
      <3>1. item.expiryDate = session[s].expiry /\ session[s].step # "idle"
        BY DEF GetItem, RowsDated, Dated
      <3>2. session[s].expiry \in Nat /\ now \in Nat
        BY DEF TypeOK, TablesTypeOK, SessionTypeOK, SessionInvocation
      <3>3. now <= session[s].expiry
        BY <3>1, <3>2, NoneAssumption DEF Unexpired, HasDateExpired, Before
      <3>4. exchange[t].start <= now /\ exchange[t].start \in Nat
        BY <1>1, <2>2 DEF ClocksRead, ExchangeInFlight, ExchangeInvocation
      <3>5. exchange[t].start <= session[s].expiry
        BY <3>2, <3>3, <3>4
      <3> QED BY <2>2, <3>1, <3>5, SessionsStay
    <2>3. CASE exchange'[t] = exchange[t]
      BY <1>3, <2>1, <2>3
    <2>4. CASE exchange'[t].step = "verifying" /\ exchange'[t] # exchange[t]
      BY <1>1, <2>2, <2>4 DEF ExchangeMove
    <2>5. CASE exchange'[t].step = "writing" /\ exchange'[t] # exchange[t]
      BY <1>1, <2>1, <2>5 DEF ExchangeMove
    <2> QED BY <1>3, <2>3, <2>4, <2>5
  <1> QED BY <1>2, <1>3

\* A code and a token that a row holds keep what the row says of them.
LEMMA RowProvenanceStep ==
  ASSUME TypeOK, CodeLedger, ClocksRead, OpenedBefore, RowsDated, ExchangesValid,
         RowProvenance, Moves
  PROVE  RowProvenance'
  <1> SUFFICES ASSUME NEW s \in Sessions, table'[s] # NoItem
               PROVE  /\ \A c \in Codes : table'[s].authorizationCode = c =>
                           /\ create'[c].session = s
                           /\ table'[s].authorizationCodeExpiryDate = create'[c].at + CodeTtl
                      /\ \A t \in Tokens : table'[s].accessToken = t =>
                           /\ exchange'[t].spent
                           /\ create'[exchange'[t].code].session = s
                           /\ exchange'[t].start <= table'[s].expiryDate
    BY DEF RowProvenance
  <1>1. ASSUME NEW c \in Codes, create[c].session = s
        PROVE  create'[c].session = s /\ create'[c].at = create[c].at
    BY <1>1 DEF OpenedBefore, Moves, CreateMove
  <1>2. ASSUME NEW t \in Tokens, exchange[t].spent
        PROVE  /\ exchange'[t].spent
               /\ exchange'[t].code = exchange[t].code
               /\ exchange'[t].start = exchange[t].start
    <2>1. exchange[t].step # "idle"
      BY <1>2 DEF CodeLedger, ExchangeProgress
    <2> QED BY <1>2, <2>1 DEF Moves, ExchangeMove, Buys
  <1>3. ASSUME NEW c \in Codes, table[s] # NoItem, table[s].authorizationCode = c
        PROVE  /\ create'[c].session = s
               /\ table[s].authorizationCodeExpiryDate = create'[c].at + CodeTtl
    BY <1>1, <1>3 DEF RowProvenance
  <1>4. ASSUME NEW t \in Tokens, table[s] # NoItem, table[s].accessToken = t
        PROVE  /\ exchange'[t].spent
               /\ create'[exchange'[t].code].session = s
               /\ exchange'[t].start <= table[s].expiryDate
    <2>1. /\ exchange[t].spent
          /\ create[exchange[t].code].session = s
          /\ exchange[t].start <= table[s].expiryDate
      BY <1>4 DEF RowProvenance
    <2>2. exchange[t].code \in Codes
      BY <2>1 DEF ExchangesValid
    <2> QED BY <1>1, <1>2, <2>1, <2>2
  <1>5. CASE table'[s] \in {table[s], NoItem}
    BY <1>3, <1>4, <1>5
  <1>6. CASE table'[s] = [expiryDate |-> session[s].expiry, authorizationCode |-> None,
                          authorizationCodeExpiryDate |-> None, accessToken |-> None]
    BY <1>6, NoneAssumption
  <1>7. CASE \E c \in Codes : Stores(c, s)
    <2> PICK c \in Codes : Stores(c, s)
      BY <1>7
    <2>1. /\ table[s] # NoItem
          /\ table'[s].authorizationCode = c
          /\ table'[s].authorizationCodeExpiryDate = create[c].at + CodeTtl
          /\ table'[s].expiryDate = table[s].expiryDate
          /\ table'[s].accessToken = table[s].accessToken
      BY StoredRow, NoItemAssumption
    <2>2. create'[c].session = s /\ create'[c].at = create[c].at
      BY <1>1 DEF Stores
    <2> QED BY <1>4, <2>1, <2>2
  <1>8. CASE \E t \in Tokens : Buys(t, s)
    <2> PICK t \in Tokens : Buys(t, s)
      BY <1>8
    <2>1. /\ table[s] # NoItem
          /\ exchange[t].code \in Codes
          /\ table[s].authorizationCode = exchange[t].code
          /\ table'[s].authorizationCode = None
          /\ table'[s].expiryDate = table[s].expiryDate
          /\ table'[s].accessToken = t
      BY BoughtRow, NoItemAssumption
    <2>2. exchange'[t].spent /\ exchange[t].step = "writing" /\ exchange[t].session = s
      BY DEF Buys
    <2>3. exchange'[t].code = exchange[t].code /\ exchange'[t].start = exchange[t].start
      BY <2>2 DEF Moves, ExchangeMove
    <2>4. create'[exchange[t].code].session = s
      BY <1>3, <2>1
    <2>5. exchange[t].start <= table[s].expiryDate
      BY <2>1, <2>2 DEF ExchangesValid, RowsDated, Dated
    <2> QED BY <2>1, <2>2, <2>3, <2>4, <2>5, NoneAssumption
  <1>9. RowMove(s)
    BY DEF Moves
  <1> QED BY <1>5, <1>6, <1>7, <1>8, <1>9 DEF RowMove

\* What a known session no longer has does not come back.
LEMMA GoneStaysGone ==
  ASSUME TypeOK, Moves, NEW s \in Known
  PROVE  /\ table[s] = NoItem => table'[s] = NoItem
         /\ identity[s] = None => identity'[s] = None
  <1>1. s \in Sessions /\ session[s].step = "created"
    BY DEF Known
  <1>2. RowMove(s) /\ IdentityMove(s)
    BY <1>1 DEF Moves
  <1>3. ASSUME table[s] = NoItem
        PROVE  table'[s] = NoItem
    <2>1. \A c \in Codes : ~Stores(c, s)
      BY <1>1, <1>3, StoredRow, NoItemAssumption
    <2>2. \A t \in Tokens : ~Buys(t, s)
      BY <1>1, <1>3, BoughtRow, NoItemAssumption
    <2> QED BY <1>1, <1>2, <1>3, <2>1, <2>2 DEF RowMove
  <1>4. ASSUME identity[s] = None
        PROVE  identity'[s] = None
    BY <1>1, <1>2, <1>4 DEF IdentityMove
  <1> QED BY <1>3, <1>4

LEMMA DeletedForGoodStep ==
  ASSUME TypeOK, OpenedBefore, DeletedForGood, Moves
  PROVE  DeletedForGood'
  <1> SUFFICES ASSUME NEW d \in Deletions, deletion'[d].step = "deleted"
               PROVE  /\ table'[deletion'[d].session] = NoItem
                      /\ identity'[deletion'[d].session] = None
    BY DEF DeletedForGood
  <1>1. DeletionMove(d)
    BY DEF Moves
  <1>2. deletion[d].step # "idle"
    BY <1>1 DEF DeletionMove, DeletionInFlight
  <1> PICK s \in Known : s = deletion[d].session
    BY <1>2 DEF OpenedBefore
  <1>3. CASE deletion'[d] = deletion[d]
    BY <1>3, GoneStaysGone DEF DeletedForGood
  <1>4. CASE /\ deletion'[d].session = s
             /\ table' = [table EXCEPT ![s] = NoItem]
             /\ identity' = [identity EXCEPT ![s] = None]
    <2>1. s \in Sessions
      BY DEF Known
    <2>2. table'[s] = NoItem /\ identity'[s] = None
      BY <1>4, <2>1 DEF TypeOK, TablesTypeOK
    <2> QED BY <1>4, <2>2
  <1> QED BY <1>1, <1>2, <1>3, <1>4 DEF DeletionMove

LEMMA IdentityLastsStep ==
  ASSUME TypeOK, ClocksRead, IdentityLasts, Moves
  PROVE  IdentityLasts'
  <1> SUFFICES ASSUME NEW s \in Sessions
               PROVE  /\ session'[s].step = "savingIdentity"
                           => session'[s].expiry <= session'[s].identityExpiry
                      /\ identity'[s] # None
                           => session'[s].step # "idle" /\ session'[s].expiry <= identity'[s]
                      /\ /\ session'[s].step \in {"auditing", "created"}
                         /\ session'[s].claims
                         /\ table'[s] # NoItem
                         /\ now' <= session'[s].expiry
                         => identity'[s] # None
    BY DEF IdentityLasts
  <1>1. /\ session[s] \in SessionInvocation
        /\ now \in Nat /\ now' \in Nat /\ now <= now'
        /\ identity[s] \in Nat \cup {None}
    BY DEF TypeOK, TablesTypeOK, SessionTypeOK, Moves, ClockMove
  <1>2. SessionMove(s) /\ RowMove(s) /\ IdentityMove(s)
    BY DEF Moves
  <1>3. /\ session[s].step = "savingIdentity" => session[s].expiry <= session[s].identityExpiry
        /\ identity[s] # None => session[s].step # "idle" /\ session[s].expiry <= identity[s]
        /\ /\ session[s].step \in {"auditing", "created"}
           /\ session[s].claims
           /\ table[s] # NoItem
           /\ now <= session[s].expiry
           => identity[s] # None
    BY DEF IdentityLasts
  <1>4. ASSUME session'[s].step = "savingIdentity"
        PROVE  session'[s].expiry <= session'[s].identityExpiry
    <2>1. CASE session'[s] = session[s]
      BY <1>3, <1>4, <2>1
    <2>2. CASE /\ session[s].step = "saving"
               /\ session'[s].expiry = session[s].expiry
               /\ session'[s].identityExpiry = now + SessionTtl
      <3>1. session[s].start <= now /\ session[s].expiry = session[s].start + SessionTtl
        BY <2>2 DEF ClocksRead
      <3> QED BY <1>1, <2>2, <3>1, ConstantTypes DEF SessionInvocation
    <2> QED BY <1>2, <1>3, <1>4, <2>1, <2>2 DEF SessionMove
  <1>5. ASSUME identity'[s] # None
        PROVE  session'[s].step # "idle" /\ session'[s].expiry <= identity'[s]
    BY <1>2, <1>3, <1>5, SessionsStay DEF IdentityMove
  <1>6. ASSUME session'[s].step \in {"auditing", "created"}, session'[s].claims,
               table'[s] # NoItem, now' <= session'[s].expiry
        PROVE  identity'[s] # None
    <2>1. CASE session[s].step = "savingIdentity" /\ identity'[s] = session[s].identityExpiry
      BY <1>1, <2>1, NoneAssumption DEF SessionInvocation
    <2>2. CASE session[s].step \in {"auditing", "created"}
      <3>1. session'[s].expiry = session[s].expiry /\ session[s].claims
        BY <1>2, <1>6, <2>2 DEF SessionMove
      <3>2. table[s] # NoItem
        <4>1. CASE table'[s] = table[s]
          BY <1>6, <4>1
        <4>2. CASE \E c \in Codes : Stores(c, s)
          BY <4>2, StoredRow, NoItemAssumption
        <4>3. CASE \E t \in Tokens : Buys(t, s)
          BY <4>3, BoughtRow, NoItemAssumption
        <4> QED BY <1>2, <1>6, <2>2, <4>1, <4>2, <4>3 DEF RowMove
      <3>3. session[s].expiry \in Nat /\ now <= session[s].expiry
        BY <1>1, <1>6, <3>1 DEF SessionInvocation
      <3>4. identity[s] \in Nat /\ session[s].expiry <= identity[s]
        BY <1>1, <1>3, <2>2, <3>1, <3>2, <3>3
      <3>5. ~Before(identity[s], now)
        BY <1>1, <3>3, <3>4 DEF Before
      <3> QED BY <1>2, <1>6, <2>2, <3>4, <3>5, NoneAssumption DEF IdentityMove
    <2> QED BY <1>2, <1>6, <2>1, <2>2 DEF SessionMove
  <1> QED BY <1>4, <1>5, <1>6

LEMMA IdentityDatedStep ==
  ASSUME TypeOK, IdentityDated, Moves
  PROVE  IdentityDated'
  <1> SUFFICES ASSUME NEW s \in Sessions
               PROVE  /\ SessionInFlight(s)' => now' <= session'[s].start + LambdaTimeout
                      /\ session'[s].step = "savingIdentity" =>
                           session'[s].identityExpiry
                             <= session'[s].start + SessionTtl + LambdaTimeout
                      /\ identity'[s] # None =>
                           /\ session'[s].step # "idle"
                           /\ identity'[s] <= session'[s].start + SessionTtl + LambdaTimeout
    BY DEF IdentityDated
  <1>1. /\ session[s] \in SessionInvocation
        /\ now \in Nat
        /\ SessionTtl \in Nat /\ LambdaTimeout \in Nat
    BY ConstantTypes DEF TypeOK, TablesTypeOK, SessionTypeOK
  <1>2. SessionMove(s) /\ IdentityMove(s) /\ ClockMove
    BY DEF Moves
  <1>3. /\ SessionInFlight(s) => now <= session[s].start + LambdaTimeout
        /\ session[s].step = "savingIdentity" =>
             session[s].identityExpiry <= session[s].start + SessionTtl + LambdaTimeout
        /\ identity[s] # None =>
             /\ session[s].step # "idle"
             /\ identity[s] <= session[s].start + SessionTtl + LambdaTimeout
    BY DEF IdentityDated
  <1>4. session[s].step # "idle" =>
          session'[s].step # "idle" /\ session'[s].start = session[s].start
    BY <1>2 DEF SessionMove, SessionInFlight
  <1>5. ASSUME SessionInFlight(s)'
        PROVE  now' <= session'[s].start + LambdaTimeout
    <2>1. CASE now' = now
      <3>1. CASE SessionInFlight(s)
        BY <1>3, <1>4, <2>1, <3>1 DEF SessionInFlight
      <3>2. CASE session'[s].start = now
        BY <1>1, <2>1, <3>2
      <3> QED BY <1>2, <1>5, <3>1, <3>2 DEF SessionMove, SessionInFlight
    <2>2. CASE now' = now + 1 /\ session' = session /\ ~SessionOverdue
      <3>1. SessionInFlight(s)
        BY <1>5, <2>2 DEF SessionInFlight
      <3>2. ~(now >= session[s].start + LambdaTimeout) /\ session[s].start \in Nat
        BY <1>1, <2>2, <3>1 DEF SessionOverdue, SessionInvocation
      <3> QED BY <1>1, <2>2, <3>2
    <2> QED BY <1>2, <2>1, <2>2 DEF ClockMove
  <1>6. ASSUME session'[s].step = "savingIdentity"
        PROVE  session'[s].identityExpiry <= session'[s].start + SessionTtl + LambdaTimeout
    <2>1. CASE session'[s] = session[s]
      BY <1>3, <1>6, <2>1
    <2>2. CASE /\ session[s].step = "saving"
               /\ session'[s].start = session[s].start
               /\ session'[s].identityExpiry = now + SessionTtl
      <3>1. now <= session[s].start + LambdaTimeout /\ session[s].start \in Nat
        BY <1>1, <1>3, <2>2 DEF SessionInFlight, SessionInvocation
      <3> QED BY <1>1, <2>2, <3>1
    <2> QED BY <1>2, <1>3, <1>6, <2>1, <2>2 DEF SessionMove
  <1>7. ASSUME identity'[s] # None
        PROVE  /\ session'[s].step # "idle"
               /\ identity'[s] <= session'[s].start + SessionTtl + LambdaTimeout
    BY <1>2, <1>3, <1>4, <1>7 DEF IdentityMove
  <1> QED BY <1>5, <1>6, <1>7

\* Every step of the API keeps the invariant.
LEMMA RowStep == TypeOK /\ CodeLedger /\ RowInv /\ [Next]_vars => RowInv'
  <1> SUFFICES ASSUME TypeOK, CodeLedger, RowInv, [Next]_vars
               PROVE  RowInv'
    OBVIOUS
  <1>1. Moves
    BY StepMoves
  <1>2. ClocksRead' /\ OpenedBefore'
    BY <1>1, ClocksReadStep, OpenedBeforeStep DEF RowInv
  <1>3. RowsDated' /\ ExchangesValid'
    BY <1>1, RowsDatedStep, ExchangesValidStep DEF RowInv
  <1>4. RowProvenance' /\ DeletedForGood' /\ IdentityLasts' /\ IdentityDated'
    BY <1>1, RowProvenanceStep, DeletedForGoodStep, IdentityLastsStep, IdentityDatedStep
       DEF RowInv
  <1> QED BY <1>2, <1>3, <1>4 DEF RowInv

THEOREM RowInvCorrect == Spec => []RowInv
  BY RowInit, RowStep, TypeCorrect, LedgerCorrect, PTL DEF Spec

---------------------------------------------------------------------------
(* The theorems.                                                            *)

\* What a row holds is its own: nothing of one session ends up in the row of
\* another, whatever the index and the copies of the table answer.
THEOREM RowProvenanceCorrect == Spec => []RowProvenance
  <1>1. RowInv => RowProvenance
    BY DEF RowInv
  <1> QED BY <1>1, RowInvCorrect, PTL

\* A confirmed deletion is final, whatever was still under way.
THEOREM DeletedForGoodCorrect == Spec => []DeletedForGood
  <1>1. RowInv => DeletedForGood
    BY DEF RowInv
  <1> QED BY <1>1, RowInvCorrect, PTL

\* The identity of an open session is there as long as its row is valid.
THEOREM IdentityKeptWithSessionCorrect == Spec => []IdentityKeptWithSession
  <1>1. RowInv => IdentityKeptWithSession
    BY DEF RowInv, IdentityLasts, IdentityKeptWithSession, Known
  <1> QED BY <1>1, RowInvCorrect, PTL

\* Every row has a date on which it is to be removed, which no request, however
\* late or often repeated, takes away or puts off.
THEOREM RetentionBoundedCorrect == Spec => []RetentionBounded
  <1>1. RowInv => RetentionBounded
    BY DEF RowInv, ClocksRead, RowsDated, Dated, IdentityDated, RetentionBounded
  <1> QED BY <1>1, RowInvCorrect, PTL

LEMMA StoredInTime == TypeOK /\ CodeLedger /\ RowInv /\ [Next]_vars => TokenStoredInTime
  <1> SUFFICES ASSUME TypeOK, CodeLedger, RowInv, Moves, NEW s \in Sessions,
                      table[s] # NoItem, table'[s] # NoItem,
                      table'[s].accessToken # table[s].accessToken
               PROVE  /\ now < table[s].authorizationCodeExpiryDate + LambdaTimeout
                      /\ now <= table[s].expiryDate + LambdaTimeout
    BY StepMoves DEF TokenStoredInTime
  <1>1. table[s] \in Item /\ now \in Nat
    BY DEF TypeOK, TablesTypeOK
  <1>2. session[s].step # "saving" \/ table[s].accessToken = None
    <2>1. ASSUME NEW t \in Tokens, table[s].accessToken = t
          PROVE  session[s].step # "saving"
      <3>1. exchange[t].code \in Codes /\ create[exchange[t].code].session = s
        BY <2>1 DEF RowInv, RowProvenance, ExchangesValid
      <3> QED BY <3>1 DEF RowInv, OpenedBefore, Known
    <2> QED BY <1>1, <2>1 DEF Item
  <1>3. \E t \in Tokens : Buys(t, s)
    <2>1. RowMove(s)
      BY DEF Moves
    <2> QED BY <1>2, <2>1, StoredRow DEF RowMove
  <1> PICK t \in Tokens : Buys(t, s)
    BY <1>3
  <1>4. exchange[t] \in ExchangeInvocation /\ exchange[t].step = "writing"
        /\ exchange[t].session = s
    BY DEF TypeOK, ExchangeTypeOK, Buys
  <1>5. /\ now <= exchange[t].start + LambdaTimeout
        /\ exchange[t].start <= exchange[t].at
    BY <1>4 DEF RowInv, ClocksRead, ExchangeInFlight
  <1>6. /\ exchange[t].at < table[s].authorizationCodeExpiryDate
        /\ table[s].authorizationCodeExpiryDate \in Nat
    BY <1>1, BoughtRow DEF Before, Item
  <1>7. exchange[t].start <= table[s].expiryDate /\ table[s].expiryDate \in Nat
    <2>1. table[s].expiryDate = session[s].expiry /\ exchange[t].start <= session[s].expiry
      BY <1>4 DEF RowInv, RowsDated, Dated, ExchangesValid
    <2> QED BY <2>1 DEF TypeOK, SessionTypeOK, SessionInvocation
  <1> QED BY <1>1, <1>4, <1>5, <1>6, <1>7, ConstantTypes DEF ExchangeInvocation

\* A token is stored at most one time limit after the code and the session
\* expire, however stale what the exchange has read, however late a repetition.
THEOREM RedeemedInTimeCorrect == Spec => RedeemedInTime
  BY StoredInTime, TypeCorrect, LedgerCorrect, RowInvCorrect, PTL DEF Spec, RedeemedInTime

LEMMA LeavesForToken ==
  TypeOK /\ CodeLedger /\ RowInv /\ [Next]_vars => UnexpiredCodeLeavesForToken
  <1> SUFFICES ASSUME TypeOK, CodeLedger, RowInv, Moves, NEW s \in Sessions, NEW c \in Codes,
                      Holds(s, c), now <= table[s].authorizationCodeExpiryDate,
                      table'[s] # NoItem, table'[s].authorizationCode # c
               PROVE  /\ table'[s].authorizationCode = None
                      /\ table'[s].accessToken \in Tokens
                      /\ exchange[table'[s].accessToken].code = c
    BY StepMoves DEF UnexpiredCodeLeavesForToken
  <1>1. table[s] \in Item /\ now \in Nat /\ table[s].authorizationCode = c
    BY DEF TypeOK, TablesTypeOK, Holds
  <1>2. session[s].step = "created"
    BY DEF CodeLedger, CodeOrigin, RowInv, OpenedBefore, Known
  <1>3. \A d \in Codes : ~Stores(d, s)
    <2> SUFFICES ASSUME NEW d \in Codes, Stores(d, s)
                 PROVE  FALSE
      OBVIOUS
    <2>1. Before(table[s].authorizationCodeExpiryDate, create[d].at)
      BY <1>1, StoredRow, NoneAssumption
    <2>2. table[s].authorizationCodeExpiryDate < create[d].at
          /\ table[s].authorizationCodeExpiryDate \in Nat
      BY <1>1, <2>1 DEF Before, Item
    <2>3. create[d].at <= now /\ create[d].at \in Nat
      BY DEF RowInv, ClocksRead, TypeOK, CreateTypeOK, CreateInvocation
    <2> QED BY <1>1, <2>2, <2>3
  <1>4. \E t \in Tokens : Buys(t, s)
    <2>1. RowMove(s)
      BY DEF Moves
    <2> QED BY <1>1, <1>2, <1>3, <2>1 DEF RowMove
  <1> QED BY <1>1, <1>4, BoughtRow

\* An unexpired code is taken out of its row by no request for another code.
THEOREM UnexpiredCodeKeptCorrect == Spec => UnexpiredCodeKept
  BY LeavesForToken, TypeCorrect, LedgerCorrect, RowInvCorrect, PTL DEF Spec, UnexpiredCodeKept
===========================================================================
