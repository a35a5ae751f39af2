--------------------------- MODULE DeleteSession ---------------------------
(* DeleteSessionFn: removes a session from both tables.                     *)
(*                                                                          *)
(* SessionService.deleteSession reads the session row first, to answer 404  *)
(* when there is none, and then deletes both rows in one transaction.  The  *)
(* read may be stale, and the row may change or go between the two requests. *)
EXTENDS DynamoTables

VARIABLE
  deletion   \* [Deletions -> the invocation of DeleteSessionFn]

DeletionInvocation ==
  [step: {"idle", "reading", "writing", "deleted", "notFound", "failed"},
   session: Sessions \cup {None},
   start: Nat]

DeletionInFlight(d) == deletion[d].step \in {"reading", "writing"}

DeletionInit ==
  deletion = [d \in Deletions |-> [step |-> "idle", session |-> None, start |-> 0]]

StartDeletion(d, s) ==
  /\ deletion[d].step = "idle"
  /\ deletion' = [deletion EXCEPT ![d] = [step |-> "reading", session |-> s, start |-> now]]
  /\ UNCHANGED tableVars

\* getSession: a missing row makes the answer 404.
ReadForDeletion(d) ==
  /\ deletion[d].step = "reading"
  /\ \E item \in GetItem(deletion[d].session) :
       deletion' = [deletion EXCEPT ![d].step = IF item = NoItem THEN "notFound" ELSE "writing"]
  /\ UNCHANGED tableVars

\* Wrong variants of DeleteBoth, for the mutants: one that leaves the
\* person-identity row, and one that makes two requests, identity first.
DeleteSessionRow(d) ==
  /\ deletion[d].step = "writing"
  /\ table' = [table EXCEPT ![deletion[d].session] = NoItem]
  /\ \E step \in {"deleted", "failed"} : deletion' = [deletion EXCEPT ![d].step = step]
  /\ UNCHANGED <<now, replica, identity>>

DeleteOneByOne(d) ==
  /\ deletion[d].step = "writing"
  /\ identity' = [identity EXCEPT ![deletion[d].session] = None]
  /\ \/ /\ table' = [table EXCEPT ![deletion[d].session] = NoItem]
        /\ deletion' = [deletion EXCEPT ![d].step = "deleted"]
     \/ /\ UNCHANGED table
        /\ deletion' = [deletion EXCEPT ![d].step = "failed"]
  /\ UNCHANGED <<now, replica>>

\* The TransactWriteItems.  The SDK's client token makes a resend of it a
\* repetition of the same answer, so the answer arrives or is lost for good.
DeleteBoth(d) ==
  /\ deletion[d].step = "writing"
  /\ table' = [table EXCEPT ![deletion[d].session] = NoItem]
  /\ identity' = [identity EXCEPT ![deletion[d].session] = None]
  /\ \E step \in {"deleted", "failed"} : deletion' = [deletion EXCEPT ![d].step = step]
  /\ UNCHANGED <<now, replica>>

\* A request fails for good or the platform stops the invocation.
FailDeletion(d) ==
  /\ DeletionInFlight(d)
  /\ deletion' = [deletion EXCEPT ![d].step = "failed"]
  /\ UNCHANGED tableVars

DeletionNext ==
  \E d \in Deletions :
    \/ ReadForDeletion(d)
    \/ DeleteBoth(d)
    \/ FailDeletion(d)

DeletionTypeOK == deletion \in [Deletions -> DeletionInvocation]

\* An invocation that has run as long as the platform lets it.
DeletionOverdue ==
  \E d \in Deletions : DeletionInFlight(d) /\ now >= deletion[d].start + LambdaTimeout
===========================================================================
