--------------------------- MODULE DynamoTables ---------------------------
(* The two DynamoDB tables that the Lambda functions share, and the clock  *)
(* they all read.                                                           *)
(*                                                                          *)
(* The functions keep no state of their own between two requests: whatever  *)
(* one of them leaves for the next is a row of the session table or of the  *)
(* person-identity table.  DynamoDB itself is outside the repository; it is *)
(* modelled by what the requests the code sends ask of it:                  *)
(*   - an UpdateItem, PutItem or TransactWriteItems is atomic and is applied *)
(*     to the current rows;                                                 *)
(*   - a GetItem without ConsistentRead, and every Query of the index       *)
(*     authorizationCode-index, answers from a copy that may lag behind;    *)
(*   - a row whose expiryDate (the TTL attribute of both tables) has passed *)
(*     is removed at some later time, each table on its own.                *)
EXTENDS Naturals, FiniteSets

CONSTANTS
  Sessions,       \* session ids, one for each invocation of SessionFn
  Codes,          \* authorization codes, one for each invocation of CreateAuthCodeFn
  Tokens,         \* bearer tokens, one for each invocation of AccessTokenFn
  Deletions,      \* invocations of DeleteSessionFn
  None,           \* a missing attribute
  NoItem,         \* a missing row
  SessionTtl,     \* SESSION_TTL, in ticks
  CodeTtl,        \* AUTHORIZATION_CODE_TTL, in ticks
  LambdaTimeout,  \* how long the platform lets an invocation run, in ticks
  MaxAttempts,    \* how often the SDK sends one request before it gives up
  LastArrival,    \* bound: no invocation of SessionFn arrives after this time
  MaxTime         \* bound: the clock stops here

Item == [expiryDate: Nat \cup {None},
         authorizationCode: Codes \cup {None},
         authorizationCodeExpiryDate: Nat \cup {None},
         accessToken: Tokens \cup {None}]

ASSUME NumbersAssumption ==
  /\ {SessionTtl, CodeTtl, LambdaTimeout, LastArrival, MaxTime} \subseteq Nat
  /\ MaxAttempts \in Nat \ {0}

ASSUME NoneAssumption ==
  None \notin Nat \cup Codes \cup Tokens \cup Sessions

ASSUME NoItemAssumption == NoItem \notin Item   \* a model value

VARIABLES
  now,       \* epoch time, as msToSeconds(Date.now()) gives it to every Lambda
  table,     \* the session table
  replica,   \* a copy of it that lags: answers some of the reads
  identity   \* the person-identity table: the row's expiryDate, or None

tableVars == <<now, table, replica, identity>>

TablesInit ==
  /\ now = 0
  /\ table = [s \in Sessions |-> NoItem]
  /\ replica = [s \in Sessions |-> NoItem]
  /\ identity = [s \in Sessions |-> None]

---------------------------------------------------------------------------
(* What the code asks of a row.                                             *)

\* A comparison with a missing attribute is false, in a condition expression
\* as in hasDateExpired, where undefined < n is false.
Before(a, b) == a # None /\ b # None /\ a < b

\* The attributes a row holds, none for a missing row; an UpdateItem starts from
\* them, and creates the row.
Attributes(item) ==
  IF item = NoItem
  THEN [expiryDate |-> None, authorizationCode |-> None,
        authorizationCodeExpiryDate |-> None, accessToken |-> None]
  ELSE item

\* SessionService.hasDateExpired
HasDateExpired(date) == Before(date, now)

\* ConfigService.getSessionExpirationEpoch, getAuthorizationCodeExpirationEpoch
SessionExpirationEpoch == now + SessionTtl
AuthorizationCodeExpirationEpoch(time) == time + CodeTtl

\* The answers a GetItem for session s may get.
GetItem(s) == {table[s], replica[s]}

\* The rows that a copy of the table holds for code c.
RowsHolding(copy, c) ==
  {s \in Sessions : copy[s] # NoItem /\ copy[s].authorizationCode = c}

\* The answers a Query of authorizationCode-index for code c may get: the
\* index is one more copy of the rows that carry a code.
QueryByCode(c) == {RowsHolding(table, c), RowsHolding(replica, c)}

\* What the sender of a write that has been applied, or refused by its
\* condition, goes on with: the answer, or no answer (it is lost), after
\* which the SDK sends the same request once more, or gives up.
AfterSend(answer, sends) ==
  {answer, IF sends < MaxAttempts THEN "writing" ELSE "failed"}

---------------------------------------------------------------------------
(* What the tables do by themselves.                                        *)

Replicate(s) ==
  /\ replica[s] # table[s]
  /\ replica' = [replica EXCEPT ![s] = table[s]]
  /\ UNCHANGED <<now, table, identity>>

ExpireItem(s) ==
  /\ table[s] # NoItem
  /\ Before(table[s].expiryDate, now)
  /\ table' = [table EXCEPT ![s] = NoItem]
  /\ UNCHANGED <<now, replica, identity>>

ExpireIdentity(s) ==
  /\ Before(identity[s], now)
  /\ identity' = [identity EXCEPT ![s] = None]
  /\ UNCHANGED <<now, table, replica>>

AdvanceClock ==
  /\ now < MaxTime
  /\ now' = now + 1
  /\ UNCHANGED <<table, replica, identity>>

TablesTypeOK ==
  /\ now \in Nat
  /\ table \in [Sessions -> Item \cup {NoItem}]
  /\ replica \in [Sessions -> Item \cup {NoItem}]
  /\ identity \in [Sessions -> Nat \cup {None}]
===========================================================================
