--------------------------- MODULE SessionLambda ---------------------------
(* SessionFn: opens a session.                                              *)
(*                                                                          *)
(* Once the request has been decrypted and its JWT validated, the handler   *)
(* writes the session row, then, if the JWT carries shared_claims, the      *)
(* person-identity row, then sends the START audit event, and only then     *)
(* tells the caller the session id.  The three calls are separate requests: *)
(* the invocation can fail between any two of them and nothing is undone.   *)
EXTENDS DynamoTables

VARIABLE
  session   \* [Sessions -> the invocation of SessionFn that opens it]

\* start is the time at which the invocation read the clock for the first
\* row; expiry and identityExpiry are the expiryDates it computed for the two.
SessionInvocation ==
  [step: {"idle", "saving", "savingIdentity", "auditing", "created", "failed"},
   claims: BOOLEAN,
   start: Nat,
   expiry: Nat,
   identityExpiry: Nat]

SessionInFlight(s) ==
  session[s].step \in {"saving", "savingIdentity", "auditing"}

SessionInit ==
  session = [s \in Sessions |->
              [step |-> "idle", claims |-> FALSE,
               start |-> 0, expiry |-> 0, identityExpiry |-> 0]]

\* A valid request arrives.  claims: it carries shared_claims.
StartSession(s, claims) ==
  /\ session[s].step = "idle"
  /\ now <= LastArrival
  /\ session' = [session EXCEPT ![s] =
                   [step |-> "saving", claims |-> claims,
                    start |-> now, expiry |-> SessionExpirationEpoch,
                    identityExpiry |-> 0]]
  /\ UNCHANGED tableVars

\* SessionService.saveSession.  The PutItem has no condition: when its answer
\* is lost the SDK puts the same row again.  When it arrives, and there are
\* claims, savePersonIdentity computes an expiryDate of its own.
SaveSession(s) ==
  /\ session[s].step = "saving"
  /\ table' = [table EXCEPT ![s] =
                 [expiryDate |-> session[s].expiry,
                  authorizationCode |-> None,
                  authorizationCodeExpiryDate |-> None,
                  accessToken |-> None]]
  /\ \/ UNCHANGED session
     \/ /\ session[s].claims
        /\ session' = [session EXCEPT ![s].step = "savingIdentity",
                                      ![s].identityExpiry = SessionExpirationEpoch]
     \/ /\ ~session[s].claims
        /\ session' = [session EXCEPT ![s].step = "auditing"]
  /\ UNCHANGED <<now, replica, identity>>

\* The PutItem of PersonIdentityService.savePersonIdentity.
SavePersonIdentity(s) ==
  /\ session[s].step = "savingIdentity"
  /\ identity' = [identity EXCEPT ![s] = session[s].identityExpiry]
  /\ \E step \in {"savingIdentity", "auditing"} :
       session' = [session EXCEPT ![s].step = step]
  /\ UNCHANGED <<now, table, replica>>

\* buildAndSendAuditEvent succeeds, and the caller gets 201 with the id.
SendAuditEvent(s) ==
  /\ session[s].step = "auditing"
  /\ session' = [session EXCEPT ![s].step = "created"]
  /\ UNCHANGED tableVars

\* A request of the handler fails for good, or the platform stops the
\* invocation: the caller gets an error and never learns the session id.
FailSession(s) ==
  /\ SessionInFlight(s)
  /\ session' = [session EXCEPT ![s].step = "failed"]
  /\ UNCHANGED tableVars

SessionNext ==
  \E s \in Sessions :
    \/ \E claims \in BOOLEAN : StartSession(s, claims)
    \/ SaveSession(s)
    \/ SavePersonIdentity(s)
    \/ SendAuditEvent(s)
    \/ FailSession(s)

SessionTypeOK == session \in [Sessions -> SessionInvocation]

\* The sessions whose ids the caller has been told.
Known == {s \in Sessions : session[s].step = "created"}

\* An invocation that has run as long as the platform lets it.
SessionOverdue == \E s \in Sessions : SessionInFlight(s) /\ now >= session[s].start + LambdaTimeout
===========================================================================
