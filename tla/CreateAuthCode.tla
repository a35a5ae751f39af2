-------------------------- MODULE CreateAuthCode --------------------------
(* CreateAuthCodeFn: gives a session an authorization code.                 *)
(*                                                                          *)
(* The handler draws a fresh random code, reads the clock, and sends one    *)
(* conditional UpdateItem.  201: the code is stored.  200: the condition    *)
(* refused because the row has a code already.  404: there is no row.       *)
(* The clock is read once, before the request: the SDK may send the request *)
(* again, later, with the same code and the same :now.                      *)
EXTENDS DynamoTables

VARIABLE
  create   \* [Codes -> the invocation that drew the code]

\* at is the clock reading behind :now and :authCodeExpiry; sends counts how
\* often the request has reached the table.
CreateInvocation ==
  [step: {"idle", "writing", "created", "unchanged", "notFound", "failed"},
   session: Sessions \cup {None},
   at: Nat,
   sends: Nat]

CreateInFlight(c) == create[c].step = "writing"

CreateInit ==
  create = [c \in Codes |-> [step |-> "idle", session |-> None, at |-> 0, sends |-> 0]]

\* generateAuthCode, getSessionId and the clock.
StartCreateAuthCode(c, s) ==
  /\ create[c].step = "idle"
  /\ create' = [create EXCEPT ![c] = [step |-> "writing", session |-> s, at |-> now, sends |-> 0]]
  /\ UNCHANGED tableVars

\* A wrong condition, for the mutants: a missing row has no code either.
AuthCodeConditionUpsert(item, time) ==
  \/ Attributes(item).authorizationCode = None
  \/ Before(Attributes(item).authorizationCodeExpiryDate, time)

\* The condition expression; AND binds tighter than OR.
AuthCodeCondition(item, time) ==
  \/ item # NoItem /\ Attributes(item).authorizationCode = None
  \/ Before(Attributes(item).authorizationCodeExpiryDate, time)

\* A wrong update, for the mutants: an expiry that is there is kept.
WithAuthCodeOldExpiry(item, c, time) ==
  [Attributes(item) EXCEPT
     !.authorizationCode = c,
     !.authorizationCodeExpiryDate =
       IF @ = None THEN AuthorizationCodeExpirationEpoch(time) ELSE @]

\* The update expression.
WithAuthCode(item, c, time) ==
  [Attributes(item) EXCEPT
     !.authorizationCode = c,
     !.authorizationCodeExpiryDate = AuthorizationCodeExpirationEpoch(time)]

\* One arrival of the UpdateItem at the table, and what its sender goes on
\* with.  A refusal carries the row that caused it (ALL_OLD), or none.
UpdateAuthCode(c) ==
  LET s == create[c].session
      sends == create[c].sends + 1
      answered(answer) ==
        \E step \in AfterSend(answer, sends) :
          create' = [create EXCEPT ![c].step = step, ![c].sends = sends]
  IN /\ create[c].step = "writing"
     /\ \/ /\ AuthCodeCondition(table[s], create[c].at)
           /\ table' = [table EXCEPT ![s] = WithAuthCode(table[s], c, create[c].at)]
           /\ answered("created")
        \/ /\ ~AuthCodeCondition(table[s], create[c].at)
           /\ UNCHANGED table
           /\ answered(IF table[s] = NoItem THEN "notFound" ELSE "unchanged")
     /\ UNCHANGED <<now, replica, identity>>

\* Any other error (500), or the platform stops the invocation.
FailCreate(c) ==
  /\ CreateInFlight(c)
  /\ create' = [create EXCEPT ![c].step = "failed"]
  /\ UNCHANGED tableVars

CreateNext == \E c \in Codes : UpdateAuthCode(c) \/ FailCreate(c)

CreateTypeOK == create \in [Codes -> CreateInvocation]

\* An invocation that has run as long as the platform lets it.
CreateOverdue == \E c \in Codes : CreateInFlight(c) /\ now >= create[c].at + LambdaTimeout
===========================================================================
