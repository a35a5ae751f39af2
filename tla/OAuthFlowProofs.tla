-------------------------- MODULE OAuthFlowProofs --------------------------
(* Theorems about OAuthFlow, for every set of sessions, codes, tokens and   *)
(* deletions, every TTL and timeout, and every number of attempts.          *)
EXTENDS OAuthFlow, TLAPS, FiniteSetTheorems

(* Typing.                                                                  *)

\* The constants are numbers.
LEMMA ConstantTypes ==
  /\ SessionTtl \in Nat /\ CodeTtl \in Nat /\ LambdaTimeout \in Nat
  /\ MaxAttempts \in Nat /\ MaxAttempts > 0
  /\ LastArrival \in Nat /\ MaxTime \in Nat
  BY NumbersAssumption

\* An update of a row, or of a missing one, leaves a row.
LEMMA UpdatesType ==
  ASSUME NEW item \in Item \cup {NoItem}
  PROVE  /\ Attributes(item) \in Item
         /\ \A c \in Codes, time \in Nat : WithAuthCode(item, c, time) \in Item
         /\ \A t \in Tokens : WithToken(item, t) \in Item
  <1>1. Attributes(item) \in Item
    BY DEF Attributes, Item
  <1>2. \A c \in Codes, time \in Nat : WithAuthCode(item, c, time) \in Item
    <2> TAKE c \in Codes, time \in Nat
    <2>1. time + CodeTtl \in Nat
      BY ConstantTypes
    <2>2. \A row \in Item, e \in Nat :
            [row EXCEPT !.authorizationCode = c, !.authorizationCodeExpiryDate = e] \in Item
      BY DEF Item
    <2> QED BY <1>1, <2>1, <2>2 DEF WithAuthCode, AuthorizationCodeExpirationEpoch
  <1>3. \A t \in Tokens : WithToken(item, t) \in Item
    BY <1>1 DEF WithToken, Item
  <1> QED BY <1>1, <1>2, <1>3

LEMMA TypeInit == Init => TypeOK
  BY DEF Init, TypeOK, TablesInit, TablesTypeOK, SessionInit, SessionTypeOK,
         SessionInvocation, DeletionInit, DeletionTypeOK, DeletionInvocation,
         CreateInit, CreateTypeOK, CreateInvocation, AuthorizationInit,
         AuthorizationTypeOK, ExchangeInit, ExchangeTypeOK, ExchangeInvocation

\* The actions of SessionFn keep the types of what they change.
LEMMA SessionTypeStep ==
  ASSUME TablesTypeOK, SessionTypeOK, SessionNext
  PROVE  TablesTypeOK' /\ SessionTypeOK'
  <1> USE DEF TablesTypeOK, SessionTypeOK, SessionInvocation, tableVars
  <1> PICK s \in Sessions :
        \/ \E claims \in BOOLEAN : StartSession(s, claims)
        \/ SaveSession(s)
        \/ SavePersonIdentity(s)
        \/ SendAuditEvent(s)
        \/ FailSession(s)
    BY DEF SessionNext
  <1>1. CASE \E claims \in BOOLEAN : StartSession(s, claims)
    BY <1>1, ConstantTypes DEF StartSession, SessionExpirationEpoch
  <1>2. CASE SaveSession(s)
    <2>1. [expiryDate |-> session[s].expiry, authorizationCode |-> None,
           authorizationCodeExpiryDate |-> None, accessToken |-> None] \in Item
      BY DEF Item
    <2>2. now + SessionTtl \in Nat
      BY ConstantTypes
    <2>3. TablesTypeOK'
      BY <1>2, <2>1 DEF SaveSession
    <2>4. CASE UNCHANGED session
      BY <2>3, <2>4
    <2>5. CASE session' = [session EXCEPT ![s].step = "savingIdentity",
                                          ![s].identityExpiry = SessionExpirationEpoch]
      BY <2>2, <2>3, <2>5 DEF SessionExpirationEpoch
    <2>6. CASE session' = [session EXCEPT ![s].step = "auditing"]
      BY <2>3, <2>6
    <2> QED BY <1>2, <2>4, <2>5, <2>6 DEF SaveSession
  <1>3. CASE SavePersonIdentity(s)
    BY <1>3 DEF SavePersonIdentity
  <1>4. CASE SendAuditEvent(s)
    BY <1>4 DEF SendAuditEvent
  <1>5. CASE FailSession(s)
    BY <1>5 DEF FailSession
  <1> QED BY <1>1, <1>2, <1>3, <1>4, <1>5

\* The actions of DeleteSessionFn keep the types of what they change.
LEMMA DeletionTypeStep ==
  ASSUME TablesTypeOK, DeletionTypeOK,
         (\E d \in Deletions, s \in Sessions : StartDeletion(d, s)) \/ DeletionNext
  PROVE  TablesTypeOK' /\ DeletionTypeOK'
  <1> USE DEF TablesTypeOK, DeletionTypeOK, DeletionInvocation, tableVars
  <1>1. CASE \E d \in Deletions, s \in Sessions : StartDeletion(d, s)
    BY <1>1 DEF StartDeletion
  <1>2. CASE DeletionNext
    <2> PICK d \in Deletions : ReadForDeletion(d) \/ DeleteBoth(d) \/ FailDeletion(d)
      BY <1>2 DEF DeletionNext
    <2>1. CASE ReadForDeletion(d)
      BY <2>1 DEF ReadForDeletion
    <2>2. CASE DeleteBoth(d)
      BY <2>2 DEF DeleteBoth
    <2>3. CASE FailDeletion(d)
      BY <2>3 DEF FailDeletion
    <2> QED BY <2>1, <2>2, <2>3
  <1> QED BY <1>1, <1>2

\* The actions of CreateAuthCodeFn keep the types of what they change.
LEMMA CreateTypeStep ==
  ASSUME TablesTypeOK, CreateTypeOK,
         (\E c \in Codes, s \in Sessions : StartCreateAuthCode(c, s)) \/ CreateNext
  PROVE  TablesTypeOK' /\ CreateTypeOK'
  <1> USE DEF TablesTypeOK, CreateTypeOK, CreateInvocation, tableVars
  <1>1. CASE \E c \in Codes, s \in Sessions : StartCreateAuthCode(c, s)
    BY <1>1 DEF StartCreateAuthCode
  <1>2. CASE \E c \in Codes : FailCreate(c)
    BY <1>2 DEF FailCreate
  <1>3. ASSUME NEW c \in Codes, UpdateAuthCode(c)
        PROVE  TablesTypeOK' /\ CreateTypeOK'
    <2> DEFINE s == create[c].session
               sends == create[c].sends + 1
    <2>1. sends \in Nat /\ create[c].at \in Nat
      OBVIOUS
    <2>2. table' \in [Sessions -> Item \cup {NoItem}]
      <3>1. CASE UNCHANGED table
        BY <3>1
      <3>2. CASE table' = [table EXCEPT ![s] = WithAuthCode(table[s], c, create[c].at)]
        <4>1. CASE s \in Sessions
          BY <2>1, <3>2, <4>1, UpdatesType
        <4>2. CASE s \notin Sessions
          BY <3>2, <4>2
        <4> QED BY <4>1, <4>2
      <3> QED BY <1>3, <3>1, <3>2 DEF UpdateAuthCode
    <2>3. PICK step \in {"writing", "failed", "created", "notFound", "unchanged"} :
            create' = [create EXCEPT ![c].step = step, ![c].sends = sends]
      BY <1>3 DEF UpdateAuthCode, AfterSend
    <2>4. create' \in [Codes -> CreateInvocation]
      BY <2>1, <2>3
    <2> QED BY <1>3, <2>2, <2>4 DEF UpdateAuthCode
  <1> QED BY <1>1, <1>2, <1>3 DEF CreateNext

\* The query finds one session or refuses the exchange.
LEMMA QueryOutcome ==
  ASSUME NEW t \in Tokens, QuerySession(t)
  PROVE  \/ exchange' = [exchange EXCEPT ![t].step = "refused"]
         \/ \E s \in Sessions :
              exchange' = [exchange EXCEPT ![t].step = "loading", ![t].session = s]
  BY DEF QuerySession

\* The actions of AccessTokenFn keep the types of what they change.
LEMMA ExchangeTypeStep ==
  ASSUME TablesTypeOK, ExchangeTypeOK,
         (\E t \in Tokens, c \in Codes : StartExchange(t, c)) \/ ExchangeNext
  PROVE  TablesTypeOK' /\ ExchangeTypeOK'
  <1> USE DEF TablesTypeOK, ExchangeTypeOK, ExchangeInvocation, tableVars
  <1>1. CASE \E t \in Tokens, c \in Codes : StartExchange(t, c)
    <2> PICK t \in Tokens, c \in Codes : StartExchange(t, c)
      BY <1>1
    <2>1. exchange' = [exchange EXCEPT ![t] =
                         [exchange[t] EXCEPT !.step = "querying", !.code = c, !.start = now]]
      BY DEF StartExchange
    <2>2. [exchange[t] EXCEPT !.step = "querying", !.code = c, !.start = now]
            \in ExchangeInvocation
      OBVIOUS
    <2> QED BY <2>1, <2>2 DEF StartExchange
  <1>2. ASSUME NEW t \in Tokens, QuerySession(t)
        PROVE  TablesTypeOK' /\ ExchangeTypeOK'
    <2>1. exchange' \in [Tokens -> ExchangeInvocation]
      <3>1. CASE exchange' = [exchange EXCEPT ![t].step = "refused"]
        BY <3>1
      <3>2. ASSUME NEW s \in Sessions,
                   exchange' = [exchange EXCEPT ![t].step = "loading", ![t].session = s]
            PROVE  exchange' \in [Tokens -> ExchangeInvocation]
        BY <3>2
      <3> QED BY <1>2, <3>1, <3>2, QueryOutcome
    <2> QED BY <1>2, <2>1 DEF QuerySession
  <1>3. ASSUME NEW t \in Tokens, LoadSession(t)
        PROVE  TablesTypeOK' /\ ExchangeTypeOK'
    BY <1>3 DEF LoadSession
  <1>4. ASSUME NEW t \in Tokens, AcceptAssertion(t) \/ RejectAssertion(t)
        PROVE  TablesTypeOK' /\ ExchangeTypeOK'
    BY <1>4 DEF AcceptAssertion, RejectAssertion
  <1>5. ASSUME NEW t \in Tokens, FailExchange(t)
        PROVE  TablesTypeOK' /\ ExchangeTypeOK'
    BY <1>5 DEF FailExchange
  <1>6. ASSUME NEW t \in Tokens, ConsumeAuthCode(t)
        PROVE  TablesTypeOK' /\ ExchangeTypeOK'
    <2> DEFINE s == exchange[t].session
               sends == exchange[t].sends + 1
               holds == ConsumeCondition(table[s], exchange[t].code, exchange[t].at)
    <2>1. sends \in Nat /\ (exchange[t].spent \/ holds) \in BOOLEAN
      OBVIOUS
    <2>2. table' \in [Sessions -> Item \cup {NoItem}]
      <3>1. CASE UNCHANGED table
        BY <3>1
      <3>2. CASE table' = [table EXCEPT ![s] = WithToken(table[s], t)]
        <4>1. CASE s \in Sessions
          BY <3>2, <4>1, UpdatesType
        <4>2. CASE s \notin Sessions
          BY <3>2, <4>2
        <4> QED BY <4>1, <4>2
      <3> QED BY <1>6, <3>1, <3>2 DEF ConsumeAuthCode
    <2>3. PICK step \in {"writing", "failed", "issued", "refused"} :
            exchange' = [exchange EXCEPT ![t].step = step, ![t].sends = sends,
                                         ![t].spent = @ \/ holds]
      BY <1>6 DEF ConsumeAuthCode, AfterSend
    <2> HIDE DEF holds
    <2>4. exchange' \in [Tokens -> ExchangeInvocation]
      BY <2>1, <2>3
    <2> QED BY <1>6, <2>2, <2>4 DEF ConsumeAuthCode
  <1> QED BY <1>1, <1>2, <1>3, <1>4, <1>5, <1>6 DEF ExchangeNext

\* Every step of the API keeps every type.
LEMMA TypeStep == TypeOK /\ [Next]_vars => TypeOK'
  <1> SUFFICES ASSUME TypeOK, [Next]_vars
               PROVE  TypeOK'
    OBVIOUS
  <1> USE DEF TypeOK
  <1>1. CASE SessionFn
    <2>1. TablesTypeOK' /\ SessionTypeOK'
      BY <1>1, SessionTypeStep DEF SessionFn
    <2> QED BY <1>1, <2>1 DEF SessionFn, DeletionTypeOK, CreateTypeOK,
                              AuthorizationTypeOK, ExchangeTypeOK
  <1>2. CASE DeleteSessionFn
    <2>1. TablesTypeOK' /\ DeletionTypeOK'
      BY <1>2, DeletionTypeStep DEF DeleteSessionFn, Known
    <2> QED BY <1>2, <2>1 DEF DeleteSessionFn, SessionTypeOK, CreateTypeOK,
                              AuthorizationTypeOK, ExchangeTypeOK
  <1>3. CASE CreateAuthCodeFn
    <2>1. TablesTypeOK' /\ CreateTypeOK'
      BY <1>3, CreateTypeStep DEF CreateAuthCodeFn, Known
    <2> QED BY <1>3, <2>1 DEF CreateAuthCodeFn, SessionTypeOK, DeletionTypeOK,
                              AuthorizationTypeOK, ExchangeTypeOK
  <1>4. CASE AuthorizationFn
    <2>1. PICK s \in Sessions : Authorize(s)
      BY <1>4 DEF AuthorizationFn, Known
    <2>2. \A item \in GetItem(s) :
            Attributes(item).authorizationCode # None => item.authorizationCode \in Codes
      BY DEF GetItem, TablesTypeOK, Item, Attributes
    <2>3. AuthorizationTypeOK'
      BY <2>1, <2>2 DEF Authorize, AuthorizationTypeOK
    <2> QED BY <1>4, <2>1, <2>3 DEF AuthorizationFn, Authorize, tableVars, TablesTypeOK,
              SessionTypeOK, DeletionTypeOK, CreateTypeOK, ExchangeTypeOK
  <1>5. CASE AccessTokenFn
    <2>1. TablesTypeOK' /\ ExchangeTypeOK'
      BY <1>5, ExchangeTypeStep DEF AccessTokenFn, AuthorizationTypeOK
    <2> QED BY <1>5, <2>1 DEF AccessTokenFn, SessionTypeOK, DeletionTypeOK,
                              CreateTypeOK, AuthorizationTypeOK
  <1>6. CASE Tables
    <2>1. TablesTypeOK'
      BY <1>6 DEF Tables, Replicate, ExpireItem, ExpireIdentity, TablesTypeOK
    <2> QED BY <1>6, <2>1 DEF Tables, SessionTypeOK, DeletionTypeOK, CreateTypeOK,
                              AuthorizationTypeOK, ExchangeTypeOK
  <1>7. CASE Tick
    <2>1. TablesTypeOK'
      BY <1>7 DEF Tick, AdvanceClock, TablesTypeOK
    <2> QED BY <1>7, <2>1 DEF Tick, SessionTypeOK, DeletionTypeOK, CreateTypeOK,
                              AuthorizationTypeOK, ExchangeTypeOK
  <1>8. CASE UNCHANGED vars
    BY <1>8 DEF vars, tableVars, TablesTypeOK, SessionTypeOK, DeletionTypeOK,
                CreateTypeOK, AuthorizationTypeOK, ExchangeTypeOK
  <1> QED BY <1>1, <1>2, <1>3, <1>4, <1>5, <1>6, <1>7, <1>8 DEF Next

\* Every variable of the API has its type in every reachable state.
THEOREM TypeCorrect == Spec => []TypeOK
  BY TypeInit, TypeStep, PTL DEF Spec

---------------------------------------------------------------------------
(* The ledger of offers and purchases.                                      *)

\* TokensPerCode and FiniteBuyers survive a step that for every code either
\* changes nothing but that the code may lapse, or puts it on offer as its
\* request arrives, or sells it while it is on offer and takes it off.
LEMMA LedgerStep ==
  ASSUME TypeOK, FiniteBuyers, TokensPerCode,
         \A c \in Codes :
           \/ /\ Buyers(c)' = Buyers(c)
              /\ c \in LiveCodes' => c \in LiveCodes
              /\ create'[c].sends = create[c].sends
           \/ /\ Buyers(c)' = Buyers(c)
              /\ create'[c].sends = create[c].sends + 1
           \/ /\ \E t \in Tokens : Buyers(c)' = Buyers(c) \cup {t}
              /\ c \in LiveCodes /\ c \notin LiveCodes'
              /\ create'[c].sends = create[c].sends
  PROVE  FiniteBuyers' /\ TokensPerCode'
  <1> SUFFICES ASSUME NEW c \in Codes
               PROVE  /\ IsFiniteSet(Buyers(c)')
                      /\ Cardinality(Buyers(c)') + (IF c \in LiveCodes' THEN 1 ELSE 0)
                           <= create'[c].sends
    BY DEF FiniteBuyers, TokensPerCode
  <1>1. create[c].sends \in Nat
    BY DEF TypeOK, CreateTypeOK, CreateInvocation
  <1>2. IsFiniteSet(Buyers(c)) /\ Cardinality(Buyers(c)) \in Nat
    BY FS_CardinalityType DEF FiniteBuyers
  <1>3. Cardinality(Buyers(c)) + (IF c \in LiveCodes THEN 1 ELSE 0) <= create[c].sends
    BY DEF TokensPerCode
  <1>4. CASE /\ Buyers(c)' = Buyers(c)
             /\ c \in LiveCodes' => c \in LiveCodes
             /\ create'[c].sends = create[c].sends
    BY <1>1, <1>2, <1>3, <1>4
  <1>5. CASE /\ Buyers(c)' = Buyers(c)
             /\ create'[c].sends = create[c].sends + 1
    BY <1>1, <1>2, <1>3, <1>5
  <1>6. CASE /\ \E t \in Tokens : Buyers(c)' = Buyers(c) \cup {t}
             /\ c \in LiveCodes /\ c \notin LiveCodes'
             /\ create'[c].sends = create[c].sends
    <2> PICK t \in Tokens : Buyers(c)' = Buyers(c) \cup {t}
      BY <1>6
    <2> DEFINE B == Buyers(c)
               C == Cardinality(B)
               D == Cardinality(B \cup {t})
    <2>1. IsFiniteSet(B \cup {t}) /\ D = IF t \in B THEN C ELSE C + 1
      BY <1>2, FS_AddElement
    <2>2. C + 1 <= create[c].sends
      BY <1>3, <1>6
    <2> HIDE DEF B, C, D
    <2>3. C \in Nat
      BY <1>2 DEF B, C
    <2>4. D + 0 <= create[c].sends
      BY <1>1, <2>1, <2>2, <2>3
    <2>5. Buyers(c)' = B \cup {t} /\ c \notin LiveCodes'
      BY <1>6 DEF B
    <2>6. Cardinality(Buyers(c)') = D
      BY <2>5 DEF D
    <2> QED BY <1>6, <2>1, <2>4, <2>5, <2>6
  <1> QED BY <1>4, <1>5, <1>6

LEMMA LedgerInit == Init => CodeLedger
  <1> SUFFICES ASSUME Init
               PROVE  CodeLedger
    OBVIOUS
  <1>1. \A c \in Codes : Buyers(c) = {}
    BY DEF Init, ExchangeInit, Buyers
  <1>2. LiveCodes = {}
    BY DEF Init, TablesInit, LiveCodes, Holds
  <1>3. IsFiniteSet({}) /\ Cardinality({}) = 0
    BY FS_EmptySet
  <1>4. FiniteBuyers /\ TokensPerCode
    BY <1>1, <1>2, <1>3 DEF Init, CreateInit, FiniteBuyers, TokensPerCode
  <1>5. CodeOrigin /\ CreateProgress /\ ExchangeProgress
    BY ConstantTypes DEF Init, TablesInit, CreateInit, ExchangeInit, CodeOrigin, Holds,
                         CreateProgress, ExchangeProgress
  <1> QED BY <1>4, <1>5 DEF CodeLedger

\* An exchange step that buys nothing: what it had bought, if anything, it
\* still has.
ExchangesKept ==
  \A t \in Tokens :
    /\ exchange'[t].spent = exchange[t].spent
    /\ exchange[t].spent => exchange'[t].code = exchange[t].code

\* The ledger survives a step that creates and buys nothing: rows may lapse.
LEMMA LedgerLapse ==
  ASSUME TypeOK, CodeLedger, ExchangesKept, ExchangeProgress', UNCHANGED create,
         \A s \in Sessions, c \in Codes : Holds(s, c)' => Holds(s, c)
  PROVE  CodeLedger'
  <1>1. \A c \in Codes : Buyers(c)' = Buyers(c)
    BY DEF Buyers, ExchangesKept
  <1>2. LiveCodes' \subseteq LiveCodes
    BY DEF LiveCodes
  <1>3. \A c \in Codes : create'[c].sends = create[c].sends
    OBVIOUS
  <1>4. FiniteBuyers' /\ TokensPerCode'
    BY <1>1, <1>2, <1>3, LedgerStep DEF CodeLedger
  <1>5. CodeOrigin' /\ CreateProgress'
    BY DEF CodeLedger, CodeOrigin, CreateProgress
  <1> QED BY <1>4, <1>5 DEF CodeLedger

\* A new invocation of CreateAuthCodeFn: its code is nowhere yet.
LEMMA LedgerStartCreate ==
  ASSUME TypeOK, CodeLedger, NEW c \in Codes, NEW s \in Sessions,
         StartCreateAuthCode(c, s), UNCHANGED exchange
  PROVE  CodeLedger'
  <1> DEFINE started == [step |-> "writing", session |-> s, at |-> now, sends |-> 0]
  <1>1. /\ create[c].step = "idle" /\ UNCHANGED table
        /\ create' = [create EXCEPT ![c] = started]
    BY DEF StartCreateAuthCode, tableVars
  <1>2. create[c].sends = 0
    BY <1>1 DEF CodeLedger, CreateProgress
  <1>3. create'[c] = started /\ \A d \in Codes \ {c} : create'[d] = create[d]
    BY <1>1 DEF TypeOK, CreateTypeOK
  <1>4. \A d \in Codes : Buyers(d)' = Buyers(d)
    BY DEF Buyers
  <1>5. LiveCodes' = LiveCodes
    BY <1>1 DEF LiveCodes, Holds
  <1>6. \A d \in Codes : create'[d].sends = create[d].sends
    BY <1>2, <1>3
  <1>7. FiniteBuyers' /\ TokensPerCode'
    BY <1>4, <1>5, <1>6, LedgerStep DEF CodeLedger
  <1>8. c \notin LiveCodes
    <2>1. IsFiniteSet(Buyers(c)) /\ Cardinality(Buyers(c)) \in Nat
      BY FS_CardinalityType DEF CodeLedger, FiniteBuyers
    <2>2. Cardinality(Buyers(c)) + (IF c \in LiveCodes THEN 1 ELSE 0) <= 0
      BY <1>2 DEF CodeLedger, TokensPerCode
    <2> QED BY <2>1, <2>2
  <1>9. CodeOrigin'
    BY <1>1, <1>3, <1>8 DEF CodeLedger, CodeOrigin, Holds, LiveCodes
  <1>10. CreateProgress'
    BY <1>3, ConstantTypes DEF CodeLedger, CreateProgress
  <1>11. ExchangeProgress'
    BY DEF CodeLedger, ExchangeProgress
  <1> QED BY <1>7, <1>9, <1>10, <1>11 DEF CodeLedger

\* The only code that an arrival of the request for c can put in a row is c,
\* in the row of its session.
LEMMA UpdateHolds ==
  ASSUME TypeOK, NEW c \in Codes, UpdateAuthCode(c)
  PROVE  \A r \in Sessions, d \in Codes :
           Holds(r, d)' => Holds(r, d) \/ (d = c /\ r = create[c].session)
  <1> DEFINE s == create[c].session
  <1>1. CASE UNCHANGED table
    BY <1>1 DEF Holds
  <1>2. CASE table' = [table EXCEPT ![s] = WithAuthCode(table[s], c, create[c].at)]
    <2> SUFFICES ASSUME NEW r \in Sessions, NEW d \in Codes, Holds(r, d)'
                 PROVE  Holds(r, d) \/ (d = c /\ r = s)
      OBVIOUS
    <2>1. CASE r # s
      BY <1>2, <2>1 DEF Holds, TypeOK, TablesTypeOK
    <2>2. CASE r = s
      <3>1. table'[r] = WithAuthCode(table[s], c, create[c].at)
        BY <1>2, <2>2 DEF TypeOK, TablesTypeOK
      <3>2. Attributes(table[s]) \in Item
        BY <2>2, UpdatesType DEF TypeOK, TablesTypeOK
      <3>3. table'[r].authorizationCode = c
        BY <3>1, <3>2 DEF WithAuthCode, Item
      <3> QED BY <2>2, <3>3 DEF Holds
    <2> QED BY <2>1, <2>2
  <1> QED BY <1>1, <1>2 DEF UpdateAuthCode

\* One arrival of the request that creates code c: at most c becomes live, in
\* the row of its own session, and one send is counted.
LEMMA LedgerUpdate ==
  ASSUME TypeOK, CodeLedger, NEW c \in Codes, UpdateAuthCode(c), UNCHANGED exchange
  PROVE  CodeLedger'
  <1> DEFINE s == create[c].session
             sends == create[c].sends + 1
  <1>1. create[c].step = "writing" /\ create[c] \in CreateInvocation
    BY DEF UpdateAuthCode, TypeOK, CreateTypeOK
  <1>2. PICK step \in {"writing", "failed", "created", "notFound", "unchanged"} :
          /\ create' = [create EXCEPT ![c].step = step, ![c].sends = sends]
          /\ step = "writing" => sends < MaxAttempts
    BY DEF UpdateAuthCode, AfterSend
  <1>3. /\ create'[c].step = step /\ create'[c].sends = sends
        /\ create'[c].session = s
        /\ \A d \in Codes \ {c} : create'[d] = create[d]
    BY <1>1, <1>2 DEF TypeOK, CreateTypeOK, CreateInvocation
  <1>4. \A r \in Sessions, d \in Codes :
          Holds(r, d)' => Holds(r, d) \/ (d = c /\ r = s)
    BY UpdateHolds
  <1>5. \A d \in Codes : Buyers(d)' = Buyers(d)
    BY DEF Buyers
  <1>6. \A d \in Codes \ {c} : d \in LiveCodes' => d \in LiveCodes
    BY <1>4 DEF LiveCodes
  <1>7. FiniteBuyers' /\ TokensPerCode'
    <2>1. \A d \in Codes \ {c} : create'[d].sends = create[d].sends
      BY <1>3
    <2>2. create'[c].sends = create[c].sends + 1
      BY <1>3
    <2> QED BY <1>5, <1>6, <2>1, <2>2, LedgerStep DEF CodeLedger
  <1>8. CodeOrigin'
    BY <1>3, <1>4 DEF CodeLedger, CodeOrigin
  <1>9. CreateProgress'
    <2>1. create[c].sends \in Nat /\ create[c].sends < MaxAttempts
      BY <1>1 DEF CodeLedger, CreateProgress, CreateInvocation
    <2>2. sends <= MaxAttempts
      BY <2>1, ConstantTypes
    <2> QED BY <1>2, <1>3, <2>2 DEF CodeLedger, CreateProgress
  <1>10. ExchangeProgress'
    BY DEF CodeLedger, ExchangeProgress
  <1> QED BY <1>7, <1>8, <1>9, <1>10 DEF CodeLedger

\* A failed invocation of CreateAuthCodeFn sends nothing.
LEMMA LedgerFailCreate ==
  ASSUME TypeOK, CodeLedger, NEW c \in Codes, FailCreate(c), UNCHANGED exchange
  PROVE  CodeLedger'
  <1>1. /\ create' = [create EXCEPT ![c].step = "failed"]
        /\ UNCHANGED table
    BY DEF FailCreate, tableVars
  <1>2. /\ create'[c].step = "failed" /\ create'[c].sends = create[c].sends
        /\ create'[c].session = create[c].session
        /\ \A d \in Codes \ {c} : create'[d] = create[d]
    BY <1>1 DEF TypeOK, CreateTypeOK, CreateInvocation
  <1>3. \A d \in Codes : Buyers(d)' = Buyers(d)
    BY DEF Buyers
  <1>4. LiveCodes' = LiveCodes
    BY <1>1 DEF LiveCodes, Holds
  <1>5. \A d \in Codes : create'[d].sends = create[d].sends
    BY <1>2
  <1>6. FiniteBuyers' /\ TokensPerCode'
    BY <1>3, <1>4, <1>5, LedgerStep DEF CodeLedger
  <1>7. CodeOrigin' /\ CreateProgress' /\ ExchangeProgress'
    BY <1>1, <1>2 DEF CodeLedger, CodeOrigin, Holds, CreateProgress, ExchangeProgress
  <1> QED BY <1>6, <1>7 DEF CodeLedger

\* An update that is applied takes the code of its exchange out of the only
\* row that holds it, and touches no other code.
LEMMA ConsumeHolds ==
  ASSUME TypeOK, CodeOrigin, NEW t \in Tokens, NEW s \in Sessions,
         s = exchange[t].session,
         ConsumeCondition(table[s], exchange[t].code, exchange[t].at),
         ConsumeAuthCode(t)
  PROVE  /\ exchange[t].code \in LiveCodes
         /\ LiveCodes' = LiveCodes \ {exchange[t].code}
         /\ \A r \in Sessions, d \in Codes : Holds(r, d)' => Holds(r, d)
  <1> DEFINE c == exchange[t].code
  <1>1. table' = [table EXCEPT ![s] = WithToken(table[s], t)]
    BY DEF ConsumeAuthCode
  <1>2. table[s] # NoItem /\ table[s].authorizationCode = c /\ c # None
    BY DEF ConsumeCondition, Attributes
  <1>3. c \in Codes
    BY <1>2 DEF TypeOK, ExchangeTypeOK, ExchangeInvocation
  <1>4. Holds(s, c)
    BY <1>2 DEF Holds
  <1>5. table'[s] = WithToken(table[s], t) /\ \A r \in Sessions \ {s} : table'[r] = table[r]
    BY <1>1 DEF TypeOK, TablesTypeOK
  <1>6. \A d \in Codes : ~Holds(s, d)'
    <2>1. Attributes(table[s]) \in Item
      BY UpdatesType DEF TypeOK, TablesTypeOK
    <2>2. table'[s].authorizationCode = None
      BY <1>5, <2>1 DEF WithToken, Item
    <2> QED BY <2>2, NoneAssumption DEF Holds
  <1>7. \A r \in Sessions \ {s}, d \in Codes : Holds(r, d)' <=> Holds(r, d)
    BY <1>5 DEF Holds
  <1>8. \A d \in Codes : Holds(s, d) => d = c
    BY <1>2 DEF Holds
  <1>9. \A r \in Sessions \ {s} : ~Holds(r, c)
    BY <1>3, <1>4 DEF CodeOrigin
  <1>10. c \in LiveCodes /\ LiveCodes' = LiveCodes \ {c}
    BY <1>3, <1>4, <1>6, <1>7, <1>8, <1>9 DEF LiveCodes
  <1> QED BY <1>6, <1>7, <1>10

\* One arrival of the update of exchange t changes nothing else of the
\* exchanges than the progress of t, and that it has been applied.
LEMMA ConsumeOutcome ==
  ASSUME TypeOK, NEW t \in Tokens, ConsumeAuthCode(t)
  PROVE  /\ exchange[t].step = "writing"
         /\ \A u \in Tokens \ {t} : exchange'[u] = exchange[u]
         /\ exchange'[t].step \in {"writing", "failed", "issued", "refused"}
         /\ exchange'[t].code = exchange[t].code
         /\ exchange'[t].session = exchange[t].session
         /\ exchange'[t].start = exchange[t].start
         /\ exchange'[t].at = exchange[t].at
         /\ exchange'[t].spent =
              (exchange[t].spent
                 \/ ConsumeCondition(table[exchange[t].session], exchange[t].code, exchange[t].at))
  <1> DEFINE sends == exchange[t].sends + 1
             holds == ConsumeCondition(table[exchange[t].session], exchange[t].code,
                                       exchange[t].at)
  <1>1. exchange[t] \in ExchangeInvocation /\ exchange[t].step = "writing"
    BY DEF ConsumeAuthCode, TypeOK, ExchangeTypeOK
  <1>2. PICK step \in {"writing", "failed", "issued", "refused"} :
          exchange' = [exchange EXCEPT ![t].step = step, ![t].sends = sends,
                                       ![t].spent = @ \/ holds]
    BY DEF ConsumeAuthCode, AfterSend
  <1>3. exchange' = [exchange EXCEPT ![t] =
                       [exchange[t] EXCEPT !.step = step, !.sends = sends,
                                           !.spent = exchange[t].spent \/ holds]]
    BY <1>2
  <1>4. \A u \in Tokens \ {t} : exchange'[u] = exchange[u]
    BY <1>3 DEF TypeOK, ExchangeTypeOK
  <1>5. exchange'[t] = [exchange[t] EXCEPT !.step = step, !.sends = sends,
                                           !.spent = exchange[t].spent \/ holds]
    BY <1>3 DEF TypeOK, ExchangeTypeOK
  <1> HIDE DEF holds
  <1>6. /\ exchange'[t].step = step
        /\ exchange'[t].code = exchange[t].code
        /\ exchange'[t].session = exchange[t].session
        /\ exchange'[t].start = exchange[t].start
        /\ exchange'[t].at = exchange[t].at
        /\ exchange'[t].spent = (exchange[t].spent \/ holds)
    BY <1>1, <1>5 DEF ExchangeInvocation
  <1> QED BY <1>1, <1>4, <1>6 DEF holds

\* One arrival of the update of exchange t: if it is applied, the code of t
\* was in a row, was in no other, and is in none now.
LEMMA LedgerConsume ==
  ASSUME TypeOK, CodeLedger, NEW t \in Tokens, ConsumeAuthCode(t), UNCHANGED create
  PROVE  CodeLedger'
  <1>1. exchange[t] \in ExchangeInvocation /\ exchange[t].step = "writing"
    BY DEF ConsumeAuthCode, TypeOK, ExchangeTypeOK
  <1>2. PICK s \in Sessions, c \in Codes \cup {None} :
          s = exchange[t].session /\ c = exchange[t].code
    BY <1>1 DEF CodeLedger, ExchangeProgress, ExchangeInvocation
  <1> DEFINE holds == ConsumeCondition(table[s], c, exchange[t].at)
  <1>3. /\ \A u \in Tokens \ {t} : exchange'[u] = exchange[u]
        /\ exchange'[t].step # "idle"
        /\ exchange'[t].code = c
        /\ exchange'[t].session = s
        /\ exchange'[t].spent = (exchange[t].spent \/ holds)
    BY <1>2, ConsumeOutcome
  <1> HIDE DEF holds
  <1>4. ExchangeProgress'
    BY <1>2, <1>3 DEF CodeLedger, ExchangeProgress
  <1>5. CASE ~holds
    <2>1. UNCHANGED table
      BY <1>2, <1>5 DEF ConsumeAuthCode, holds
    <2>2. exchange'[t].spent = exchange[t].spent
      BY <1>1, <1>3, <1>5 DEF ExchangeInvocation
    <2>3. ExchangesKept
      BY <1>2, <1>3, <2>2 DEF ExchangesKept
    <2>4. \A r \in Sessions, d \in Codes : Holds(r, d)' => Holds(r, d)
      BY <2>1 DEF Holds
    <2> QED BY <1>4, <2>3, <2>4, LedgerLapse
  <1>6. CASE holds
    <2>1. /\ c \in LiveCodes /\ LiveCodes' = LiveCodes \ {c}
          /\ \A r \in Sessions, d \in Codes : Holds(r, d)' => Holds(r, d)
      BY <1>2, <1>6, ConsumeHolds DEF CodeLedger, holds
    <2>2. c \in Codes
      BY <2>1 DEF LiveCodes
    <2>3. Buyers(c)' = Buyers(c) \cup {t}
      BY <1>2, <1>3, <1>6 DEF Buyers
    <2>4. \A d \in Codes \ {c} : Buyers(d)' = Buyers(d)
      BY <1>2, <1>3 DEF Buyers
    <2>5. FiniteBuyers' /\ TokensPerCode'
      <3>1. \A d \in Codes \ {c} : d \in LiveCodes' => d \in LiveCodes
        BY <2>1
      <3>2. \A d \in Codes : create'[d].sends = create[d].sends
        OBVIOUS
      <3>3. \A d \in Codes :
              \/ /\ Buyers(d)' = Buyers(d)
                 /\ d \in LiveCodes' => d \in LiveCodes
                 /\ create'[d].sends = create[d].sends
              \/ /\ \E u \in Tokens : Buyers(d)' = Buyers(d) \cup {u}
                 /\ d \in LiveCodes /\ d \notin LiveCodes'
                 /\ create'[d].sends = create[d].sends
        <4> TAKE d \in Codes
        <4>1. CASE d = c
          BY <2>1, <2>3, <3>2, <4>1
        <4>2. CASE d # c
          BY <2>4, <3>1, <3>2, <4>2
        <4> QED BY <4>1, <4>2
      <3> QED BY <3>3, LedgerStep DEF CodeLedger
    <2>6. CodeOrigin'
      BY <2>1 DEF CodeLedger, CodeOrigin
    <2>7. CreateProgress'
      BY DEF CodeLedger, CreateProgress
    <2> QED BY <1>4, <2>5, <2>6, <2>7 DEF CodeLedger
  <1> QED BY <1>5, <1>6

\* What a step of exchange t that is not its update leaves as it was: the
\* other exchanges, and what this one has bought.
BuysNothing(t) ==
  /\ \A u \in Tokens \ {t} : exchange'[u] = exchange[u]
  /\ exchange'[t].spent = exchange[t].spent
  /\ exchange[t].spent => exchange'[t].code = exchange[t].code
  /\ exchange'[t].step # "idle"
  /\ exchange'[t].step \in {"loading", "verifying", "writing"}
       => exchange'[t].session \in Sessions

\* The steps of AccessTokenFn before its update buy nothing.
LEMMA ReadsBuyNothing ==
  ASSUME TypeOK, CodeLedger, NEW t \in Tokens,
         \/ \E c \in Codes : StartExchange(t, c)
         \/ QuerySession(t)
         \/ LoadSession(t)
         \/ AcceptAssertion(t)
         \/ RejectAssertion(t)
         \/ FailExchange(t)
  PROVE  BuysNothing(t) /\ UNCHANGED table
  <1>1. exchange[t] \in ExchangeInvocation
    BY DEF TypeOK, ExchangeTypeOK
  <1>2. BuysNothing(t)
    <2> USE DEF TypeOK, ExchangeTypeOK, ExchangeInvocation, BuysNothing
    <2>1. CASE \E c \in Codes : StartExchange(t, c)
      <3> PICK c \in Codes : StartExchange(t, c)
        BY <2>1
      <3>1. /\ exchange[t].step = "idle"
            /\ exchange' = [exchange EXCEPT ![t] =
                 [exchange[t] EXCEPT !.step = "querying", !.code = c, !.start = now]]
        BY DEF StartExchange
      <3>2. ~exchange[t].spent
        BY <3>1 DEF CodeLedger, ExchangeProgress
      <3>3. exchange'[t] = [exchange[t] EXCEPT !.step = "querying", !.code = c, !.start = now]
        BY <3>1
      <3> QED BY <1>1, <3>1, <3>2, <3>3
    <2>2. CASE QuerySession(t)
      <3>1. CASE exchange' = [exchange EXCEPT ![t].step = "refused"]
        BY <3>1
      <3>2. ASSUME NEW s \in Sessions,
                   exchange' = [exchange EXCEPT ![t].step = "loading", ![t].session = s]
            PROVE  BuysNothing(t)
        BY <3>2
      <3> QED BY <2>2, <3>1, <3>2, QueryOutcome
    <2>3. CASE LoadSession(t)
      <3>1. PICK step \in {"verifying", "refused"} :
              exchange' = [exchange EXCEPT ![t].step = step]
        BY <2>3 DEF LoadSession
      <3>2. exchange[t].session \in Sessions
        BY <2>3 DEF LoadSession, CodeLedger, ExchangeProgress
      <3> QED BY <3>1, <3>2
    <2>4. CASE AcceptAssertion(t)
      <3>1. exchange[t].session \in Sessions
        BY <2>4 DEF AcceptAssertion, CodeLedger, ExchangeProgress
      <3> QED BY <2>4, <3>1 DEF AcceptAssertion
    <2>5. CASE RejectAssertion(t)
      BY <2>5 DEF RejectAssertion
    <2>6. CASE FailExchange(t)
      BY <2>6 DEF FailExchange
    <2> QED BY <2>1, <2>2, <2>3, <2>4, <2>5, <2>6
  <1>3. UNCHANGED table
    BY DEF StartExchange, QuerySession, LoadSession, AcceptAssertion, RejectAssertion,
           FailExchange, tableVars
  <1> QED BY <1>2, <1>3

\* So they keep the ledger.
LEMMA LedgerRead ==
  ASSUME TypeOK, CodeLedger, NEW t \in Tokens, BuysNothing(t), UNCHANGED <<table, create>>
  PROVE  CodeLedger'
  <1>1. ExchangesKept
    BY DEF ExchangesKept, BuysNothing
  <1>2. ExchangeProgress'
    BY DEF CodeLedger, ExchangeProgress, BuysNothing
  <1>3. \A s \in Sessions, c \in Codes : Holds(s, c)' => Holds(s, c)
    BY DEF Holds
  <1> QED BY <1>1, <1>2, <1>3, LedgerLapse

\* Outside CreateAuthCodeFn and AccessTokenFn no code gets into a row.
LEMMA OthersLapse ==
  ASSUME TypeOK,
         \/ SessionFn \/ DeleteSessionFn \/ AuthorizationFn \/ Tables \/ Tick
         \/ UNCHANGED vars
  PROVE  \A s \in Sessions, c \in Codes : Holds(s, c)' => Holds(s, c)
  <1> SUFFICES ASSUME NEW s \in Sessions, NEW c \in Codes, Holds(s, c)'
               PROVE  Holds(s, c)
    OBVIOUS
  <1> USE DEF TypeOK, TablesTypeOK
  <1>1. CASE SessionFn
    <2>1. PICK r \in Sessions :
            \/ UNCHANGED table
            \/ table' = [table EXCEPT ![r] =
                           [expiryDate |-> session[r].expiry,
                            authorizationCode |-> None,
                            authorizationCodeExpiryDate |-> None,
                            accessToken |-> None]]
      BY <1>1 DEF SessionFn, SessionNext, StartSession, SaveSession, SavePersonIdentity,
                  SendAuditEvent, FailSession, tableVars
    <2> QED BY <2>1, NoneAssumption DEF Holds
  <1>2. CASE DeleteSessionFn
    BY <1>2 DEF DeleteSessionFn, DeletionNext, StartDeletion, ReadForDeletion, DeleteBoth,
                FailDeletion, tableVars, Holds
  <1>3. CASE Tables
    BY <1>3 DEF Tables, Replicate, ExpireItem, ExpireIdentity, Holds
  <1>4. CASE AuthorizationFn \/ Tick \/ UNCHANGED vars
    BY <1>4 DEF AuthorizationFn, Authorize, Tick, AdvanceClock, vars, tableVars, Holds
  <1> QED BY <1>1, <1>2, <1>3, <1>4

\* Every step of the API keeps the ledger.
LEMMA LedgerNext == TypeOK /\ CodeLedger /\ [Next]_vars => CodeLedger'
  <1> SUFFICES ASSUME TypeOK, CodeLedger, [Next]_vars
               PROVE  CodeLedger'
    OBVIOUS
  <1>1. ASSUME UNCHANGED <<create, exchange>>,
               \A s \in Sessions, c \in Codes : Holds(s, c)' => Holds(s, c)
        PROVE  CodeLedger'
    <2>1. ExchangesKept /\ ExchangeProgress'
      BY <1>1 DEF ExchangesKept, CodeLedger, ExchangeProgress
    <2> QED BY <1>1, <2>1, LedgerLapse
  <1>2. CASE CreateAuthCodeFn
    BY <1>2, LedgerStartCreate, LedgerUpdate, LedgerFailCreate
       DEF CreateAuthCodeFn, CreateNext, Known
  <1>3. CASE AccessTokenFn
    <2>1. UNCHANGED create
      BY <1>3 DEF AccessTokenFn
    <2>2. CASE \E t \in Tokens : ConsumeAuthCode(t)
      BY <2>1, <2>2, LedgerConsume
    <2>3. ASSUME NEW t \in Tokens,
                 \/ \E c \in Codes : StartExchange(t, c)
                 \/ QuerySession(t)
                 \/ LoadSession(t)
                 \/ AcceptAssertion(t)
                 \/ RejectAssertion(t)
                 \/ FailExchange(t)
          PROVE  CodeLedger'
      BY <2>1, <2>3, ReadsBuyNothing, LedgerRead
    <2> QED BY <1>3, <2>2, <2>3 DEF AccessTokenFn, ExchangeNext, TypeOK, AuthorizationTypeOK
  <1>4. CASE \/ SessionFn \/ DeleteSessionFn \/ AuthorizationFn \/ Tables \/ Tick
             \/ UNCHANGED vars
    <2>1. UNCHANGED <<create, exchange>>
      BY <1>4 DEF SessionFn, DeleteSessionFn, AuthorizationFn, Tables, Tick, vars
    <2> QED BY <1>1, <1>4, <2>1, OthersLapse
  <1> QED BY <1>2, <1>3, <1>4 DEF Next

\* The strengthened ledger holds in every reachable state.
THEOREM LedgerCorrect == Spec => []CodeLedger
  BY LedgerInit, LedgerNext, TypeCorrect, PTL DEF Spec

\* A code buys at most one token for each time the request that creates it
\* reaches the table, for any number of overlapping exchanges.
THEOREM TokensPerCodeCorrect == Spec => []TokensPerCode
  <1>1. CodeLedger => TokensPerCode
    BY DEF CodeLedger
  <1> QED BY <1>1, LedgerCorrect, PTL

\* Were the SDK to send each request once, the code would be one-time.
THEOREM SingleUseWithoutResend ==
  ASSUME MaxAttempts = 1
  PROVE  Spec => []SingleUse
  <1>1. TypeOK /\ CodeLedger => SingleUse
    <2> SUFFICES ASSUME TypeOK, CodeLedger, NEW c \in Codes
                 PROVE  Cardinality(Buyers(c)) <= 1
      BY DEF SingleUse
    <2>1. create[c].sends \in Nat /\ create[c].sends <= 1
      BY DEF TypeOK, CreateTypeOK, CreateInvocation, CodeLedger, CreateProgress
    <2>2. Cardinality(Buyers(c)) \in Nat
      BY FS_CardinalityType DEF CodeLedger, FiniteBuyers
    <2>3. Cardinality(Buyers(c)) + (IF c \in LiveCodes THEN 1 ELSE 0) <= create[c].sends
      BY DEF CodeLedger, TokensPerCode
    <2> QED BY <2>1, <2>2, <2>3
  <1> QED BY <1>1, TypeCorrect, LedgerCorrect, PTL
---------------------------------------------------------------------------
(* OAuthFlow implements OneTimeCode.                                        *)
(*                                                                          *)
(* An arrival of the request that creates a code is an offer, an update of  *)
(* an exchange that is applied is a purchase, and every other step is a     *)
(* lapse of the codes whose rows it removes, or changes nothing.            *)

LEMMA AbstractInit == Init => Abstract!Init
  <1> SUFFICES ASSUME Init
               PROVE  Abstract!Init
    OBVIOUS
  <1>1. LiveCodes = {}
    BY DEF Init, TablesInit, LiveCodes, Holds
  <1>2. Offers = [c \in Codes |-> 0]
    BY DEF Init, CreateInit, Offers
  <1>3. Bought = [t \in Tokens |-> None]
    BY DEF Init, ExchangeInit, Bought
  <1> QED BY <1>1, <1>2, <1>3 DEF Abstract!Init

\* A step that offers and buys nothing is a lapse.
LEMMA AbstractLapse ==
  ASSUME UNCHANGED <<Offers, Bought>>, LiveCodes' \subseteq LiveCodes
  PROVE  Abstract!Next
  BY DEF Abstract!Next, Abstract!Lapse

LEMMA CreateImplements ==
  ASSUME TypeOK, CodeLedger, CreateAuthCodeFn
  PROVE  Abstract!Next
  <1> USE DEF TypeOK, CreateTypeOK, CreateInvocation
  <1>1. Bought' = Bought
    BY DEF CreateAuthCodeFn, Bought
  <1>2. ASSUME NEW c \in Codes, NEW s \in Known, StartCreateAuthCode(c, s)
        PROVE  Abstract!Next
    <2>1. /\ UNCHANGED table
          /\ create[c].step = "idle"
          /\ create' = [create EXCEPT ![c] =
               [step |-> "writing", session |-> s, at |-> now, sends |-> 0]]
      BY <1>2 DEF StartCreateAuthCode, tableVars
    <2>2. create[c].sends = 0
      BY <2>1 DEF CodeLedger, CreateProgress
    <2>3. \A d \in Codes : create'[d].sends = create[d].sends
      BY <2>1, <2>2
    <2>4. Offers' = Offers
      BY <2>3 DEF Offers
    <2>5. LiveCodes' = LiveCodes
      BY <2>1 DEF LiveCodes, Holds
    <2> QED BY <1>1, <2>4, <2>5, AbstractLapse
  <1>3. ASSUME NEW c \in Codes, FailCreate(c)
        PROVE  Abstract!Next
    <2>1. /\ UNCHANGED table
          /\ create' = [create EXCEPT ![c].step = "failed"]
      BY <1>3 DEF FailCreate, tableVars
    <2>2. \A d \in Codes : create'[d].sends = create[d].sends
      BY <2>1
    <2>3. Offers' = Offers
      BY <2>2 DEF Offers
    <2>4. LiveCodes' = LiveCodes
      BY <2>1 DEF LiveCodes, Holds
    <2> QED BY <1>1, <2>3, <2>4, AbstractLapse
  <1>4. ASSUME NEW c \in Codes, UpdateAuthCode(c)
        PROVE  Abstract!Next
    <2>1. PICK step \in {"writing", "failed", "created", "notFound", "unchanged"} :
            create' = [create EXCEPT ![c].step = step, ![c].sends = create[c].sends + 1]
      BY <1>4 DEF UpdateAuthCode, AfterSend
    <2>2. create[c].sends < MaxAttempts
      BY <1>4 DEF UpdateAuthCode, CodeLedger, CreateProgress
    <2>3. /\ create'[c].sends = create[c].sends + 1
          /\ \A d \in Codes \ {c} : create'[d].sends = create[d].sends
      BY <2>1
    <2>4. Offers' = [Offers EXCEPT ![c] = Offers[c] + 1]
      BY <2>3 DEF Offers
    <2>5. Offers[c] < MaxAttempts
      BY <2>2 DEF Offers
    <2>6. LiveCodes' \subseteq LiveCodes \cup {c}
      BY <1>4, UpdateHolds DEF LiveCodes
    <2>7. Abstract!Offer(c)
      BY <1>1, <2>4, <2>5, <2>6 DEF Abstract!Offer
    <2> QED BY <2>7 DEF Abstract!Next
  <1> QED BY <1>2, <1>3, <1>4 DEF CreateAuthCodeFn, CreateNext

LEMMA ExchangeImplements ==
  ASSUME TypeOK, CodeLedger, AccessTokenFn
  PROVE  Abstract!Next
  <1>1. Offers' = Offers
    BY DEF AccessTokenFn, Offers
  <1>2. ASSUME NEW t \in Tokens, BuysNothing(t), UNCHANGED table
        PROVE  Abstract!Next
    <2>1. Bought' = Bought
      BY <1>2 DEF BuysNothing, Bought
    <2>2. LiveCodes' = LiveCodes
      BY <1>2 DEF LiveCodes, Holds
    <2> QED BY <1>1, <2>1, <2>2, AbstractLapse
  <1>3. ASSUME NEW t \in Tokens, ConsumeAuthCode(t)
        PROVE  Abstract!Next
    <2> PICK s \in Sessions : s = exchange[t].session
      BY <1>3, ConsumeOutcome DEF CodeLedger, ExchangeProgress
    <2> DEFINE c == exchange[t].code
               holds == ConsumeCondition(table[s], c, exchange[t].at)
    <2>1. /\ \A u \in Tokens \ {t} : exchange'[u] = exchange[u]
          /\ exchange'[t].code = c
          /\ exchange'[t].spent = (exchange[t].spent \/ holds)
      BY <1>3, ConsumeOutcome
    <2>2. CASE ~holds
      <3>1. UNCHANGED table
        BY <1>3, <2>2 DEF ConsumeAuthCode
      <3>2. exchange[t].spent \in BOOLEAN
        BY DEF TypeOK, ExchangeTypeOK, ExchangeInvocation
      <3> HIDE DEF holds
      <3>3. exchange'[t].spent = exchange[t].spent
        BY <2>1, <2>2, <3>2
      <3>4. Bought' = Bought
        BY <2>1, <3>3 DEF Bought
      <3>5. LiveCodes' = LiveCodes
        BY <3>1 DEF LiveCodes, Holds
      <3> QED BY <1>1, <3>4, <3>5, AbstractLapse
    <2>3. CASE holds
      <3>1. c \in LiveCodes /\ LiveCodes' = LiveCodes \ {c}
        BY <1>3, <2>3, ConsumeHolds DEF CodeLedger
      <3> HIDE DEF holds
      <3>2. exchange'[t].spent
        BY <2>1, <2>3
      <3>3. Bought' = [Bought EXCEPT ![t] = c]
        BY <2>1, <3>2 DEF Bought
      <3>4. Bought[t] \in {None, c}
        BY DEF Bought
      <3>5. c \in Codes
        BY <3>1 DEF LiveCodes
      <3>6. Abstract!Buy(t, c)
        BY <1>1, <3>1, <3>3, <3>4 DEF Abstract!Buy
      <3> QED BY <3>5, <3>6 DEF Abstract!Next
    <2> QED BY <2>2, <2>3
  <1>4. ASSUME NEW t \in Tokens,
               \/ \E c \in Codes : StartExchange(t, c)
               \/ QuerySession(t)
               \/ LoadSession(t)
               \/ AcceptAssertion(t)
               \/ RejectAssertion(t)
               \/ FailExchange(t)
        PROVE  Abstract!Next
    BY <1>2, <1>4, ReadsBuyNothing
  <1> QED BY <1>3, <1>4 DEF AccessTokenFn, ExchangeNext, TypeOK, AuthorizationTypeOK

\* Every step of the API is one of the abstract code, or leaves it as it is.
LEMMA StepImplements ==
  TypeOK /\ CodeLedger /\ [Next]_vars => [Abstract!Next]_<<Offers, LiveCodes, Bought>>
  <1> SUFFICES ASSUME TypeOK, CodeLedger, [Next]_vars
               PROVE  Abstract!Next
    OBVIOUS
  <1>1. CASE CreateAuthCodeFn
    BY <1>1, CreateImplements
  <1>2. CASE AccessTokenFn
    BY <1>2, ExchangeImplements
  <1>3. CASE \/ SessionFn \/ DeleteSessionFn \/ AuthorizationFn \/ Tables \/ Tick
             \/ UNCHANGED vars
    <2>1. UNCHANGED <<create, exchange>>
      BY <1>3 DEF SessionFn, DeleteSessionFn, AuthorizationFn, Tables, Tick, vars
    <2>2. LiveCodes' \subseteq LiveCodes
      BY <1>3, OthersLapse DEF LiveCodes
    <2>3. UNCHANGED <<Offers, Bought>>
      BY <2>1 DEF Offers, Bought
    <2> QED BY <2>2, <2>3, AbstractLapse
  <1> QED BY <1>1, <1>2, <1>3 DEF Next

\* The API implements the one-time code: whatever is offered is offered before
\* it buys anything, and each purchase takes its code off offer as it is made.
THEOREM ImplementsOneTimeCodeCorrect == Spec => ImplementsOneTimeCode
  BY AbstractInit, StepImplements, TypeCorrect, LedgerCorrect, PTL
     DEF Spec, ImplementsOneTimeCode, Abstract!Spec
===========================================================================
