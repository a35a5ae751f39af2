---------------------------- MODULE SessionData ----------------------------
(* UpdateSessionDataFn, which merges a JSON object into the sessionData     *)
(* attribute of a session row, and RetrieveSessionFn, which reads it.       *)
(*                                                                          *)
(* DynamoDB can only set a key inside a map that exists, so the handler     *)
(* sends two conditional updates: the first puts an empty map where there   *)
(* is no sessionData, the second sets or removes the keys of the request.   *)
(* Between the two the row may be changed by another invocation, or go, and *)
(* a retrieval, whose GetItem asks for no consistent read, may be answered  *)
(* from a copy that lags behind.                                            *)
(* Rows share nothing here, so the module describes one of them; the other  *)
(* attributes, which these updates leave alone, are those of OAuthFlow.     *)
EXTENDS Naturals

CONSTANTS
  Keys, Values,   \* of sessionData
  Updates,        \* invocations of UpdateSessionDataFn
  None,           \* no value: null in a request, a missing key in the row
  Untouched,      \* the request does not mention the key
  NoRow,          \* the session has been deleted or has expired
  NoData,         \* the row has no sessionData attribute
  MaxAttempts     \* how often the SDK sends one request before it gives up

Data == [Keys -> Values \cup {None}]
Patch == [Keys -> Values \cup {None, Untouched}]

ASSUME MaxAttemptsAssumption == MaxAttempts \in Nat \ {0}
ASSUME RowAssumption == NoRow \notin Data /\ NoData \notin Data /\ NoRow # NoData
ASSUME ValueAssumption == Untouched \notin Values \cup {None}

VARIABLES
  row,        \* NoRow, NoData or the sessionData of the row
  replica,    \* a copy of it that lags: answers some of the reads
  update,     \* [Updates -> the invocation of UpdateSessionDataFn]
  retrieved   \* the last answer of RetrieveSessionFn, NoRow if it is a refusal

vars == <<row, replica, update, retrieved>>

\* sends counts how often the second request has reached the table, merged
\* says whether it has ever been applied, and preceding has the invocations
\* that had ended when this one started.
UpdateInvocation ==
  [step: {"idle", "initialising", "writing", "updated", "notFound", "invalid", "failed"},
   patch: Patch,
   sends: Nat,
   merged: BOOLEAN,
   preceding: SUBSET Updates]

Ended(u) == update[u].step \in {"updated", "notFound", "invalid", "failed"}

EmptyPatch == [k \in Keys |-> Untouched]

Init ==
  /\ row = NoData
  /\ replica \in {NoRow, NoData}
  /\ update = [u \in Updates |->
                [step |-> "idle", patch |-> EmptyPatch, sends |-> 0, merged |-> FALSE,
                 preceding |-> {}]]
  /\ retrieved = NoRow

\* A request arrives whose body is a JSON object.
StartUpdate(u, patch) ==
  /\ update[u].step = "idle"
  /\ update' = [update EXCEPT ![u].step = "initialising", ![u].patch = patch,
                              ![u].preceding = {v \in Updates : Ended(v)}]
  /\ UNCHANGED <<row, replica, retrieved>>

\* Wrong variants, for the mutants: sessionData = {}, whatever was there; and
\* no first update at all.
Emptied(data) == [k \in Keys |-> None]

NotInitialised(data) == data

\* if_not_exists(sessionData, {})
Initialised(data) == IF data = NoData THEN [k \in Keys |-> None] ELSE data

\* A wrong variant, for the mutants: the first update has no condition.
InitialiseAnyRow(u) ==
  /\ update[u].step = "initialising"
  /\ row' = Initialised(IF row = NoRow THEN NoData ELSE row)
  /\ \/ UNCHANGED update
     \/ update' = [update EXCEPT ![u].step =
                     IF update[u].patch = EmptyPatch THEN "invalid" ELSE "writing"]
  /\ UNCHANGED <<replica, retrieved>>

\* The first update, on condition that the row exists, and, once it is
\* answered, buildUpdateExpression, which refuses an empty object.  A lost
\* answer leaves the invocation where it was: the SDK sends it again.
InitialiseData(u) ==
  /\ update[u].step = "initialising"
  /\ \/ /\ row = NoRow
        /\ update' = [update EXCEPT ![u].step = "notFound"]
        /\ UNCHANGED row
     \/ /\ row # NoRow
        /\ row' = Initialised(row)
        /\ \/ UNCHANGED update
           \/ update' = [update EXCEPT ![u].step =
                           IF update[u].patch = EmptyPatch THEN "invalid" ELSE "writing"]
  /\ UNCHANGED <<replica, retrieved>>

\* A wrong variant, for the mutants: keys that the request does not mention
\* are written too.
MergeAll(data, patch) == [k \in Keys |-> patch[k]]

\* Another: one clause of the expression is all that is left of it.
MergeOneKey(data, patch) ==
  LET last == CHOOSE k \in Keys : patch[k] # Untouched
  IN [data EXCEPT ![last] = patch[last]]

\* SET of the keys with a value and REMOVE of those with null.
Merge(data, patch) ==
  [k \in Keys |-> IF patch[k] = Untouched THEN data[k] ELSE patch[k]]

\* One arrival of the second update, on the same condition, answered or not.
\* Without the map DynamoDB refuses the document path, which is a 500.
MergePatch(u) ==
  LET sends == update[u].sends + 1
      resent == IF sends < MaxAttempts THEN "writing" ELSE "failed"
      answered(answer, merged) ==
        \E step \in {answer, resent} :
          update' = [update EXCEPT ![u].step = step, ![u].sends = sends,
                                   ![u].merged = @ \/ merged]
  IN /\ update[u].step = "writing"
     /\ \/ /\ row = NoRow
           /\ answered("notFound", FALSE)
           /\ UNCHANGED row
        \/ /\ row = NoData
           /\ answered("failed", FALSE)
           /\ UNCHANGED row
        \/ /\ row \notin {NoRow, NoData}
           /\ row' = Merge(row, update[u].patch)
           /\ answered("updated", TRUE)
     /\ UNCHANGED <<replica, retrieved>>

\* Any other error (500), or the platform stops the invocation.
FailUpdate(u) ==
  /\ update[u].step \in {"initialising", "writing"}
  /\ update' = [update EXCEPT ![u].step = "failed"]
  /\ UNCHANGED <<row, replica, retrieved>>

\* RetrieveSessionFn: getSessionByIdMiddleware, whose read may come from the
\* copy, and the handler, whose answer has the sessionData of the row as it is.
\* The attributes that it shows beside that never change.
Retrieve ==
  /\ retrieved' \in {row, replica}
  /\ UNCHANGED <<row, replica, update>>

\* DeleteSessionFn, or the expiry of the row.
DeleteRow ==
  /\ row # NoRow
  /\ row' = NoRow
  /\ UNCHANGED <<replica, update, retrieved>>

Replicate ==
  /\ replica' = row
  /\ UNCHANGED <<row, update, retrieved>>

Next ==
  \/ \E u \in Updates :
       \/ \E patch \in Patch : StartUpdate(u, patch)
       \/ InitialiseData(u)
       \/ MergePatch(u)
       \/ FailUpdate(u)
  \/ Retrieve
  \/ DeleteRow
  \/ Replicate

Spec == Init /\ [][Next]_vars

---------------------------------------------------------------------------
\* Every variable has its type.
TypeOK ==
  /\ {row, replica, retrieved} \subseteq Data \cup {NoRow, NoData}
  /\ update \in [Updates -> UpdateInvocation]

\* The update has been applied at least once and mentions key k.
Wrote(u, k) == update[u].merged /\ update[u].patch[k] # Untouched

\* Invocations that touch different keys do not undo each other's work, and of
\* those that touch the same key the last one wins if it started when the
\* others had ended, in whatever order their requests and the repetitions of
\* them arrive: only of two that overlap may either win.
PatchesMerge ==
  row \notin {NoRow, NoData} =>
    \A k \in Keys :
      /\ (\A u \in Updates : ~Wrote(u, k)) => row[k] = None
      /\ \A u \in Updates :
           /\ Wrote(u, k)
           /\ \A v \in Updates \ {u} : Wrote(v, k) => v \in update[u].preceding
           => row[k] = update[u].patch[k]

\* A retrieval, whichever copy answers it and however often the request is
\* repeated, shows all that an update has given or nothing of it, as far as no
\* other update mentions the same keys.
MergesSeenWhole ==
  retrieved \notin {NoRow, NoData} =>
    \A u \in Updates :
      LET own == {k \in Keys : Wrote(u, k) /\ \A v \in Updates \ {u} : ~Wrote(v, k)}
      IN \/ \A k \in own : retrieved[k] = update[u].patch[k]
         \/ \A k \in own : retrieved[k] = None

\* When the second request arrives, the map that its document paths go
\* through exists, or the whole row has gone.
DocumentPathExists ==
  \A u \in Updates : update[u].step = "writing" => row # NoData

\* No update brings a deleted session back.
DeletedStaysDeleted == [][row = NoRow => row' = NoRow]_vars

\* A row without the attribute is one whose document has no keys.
Document(data) == IF data = NoData THEN [k \in Keys |-> None] ELSE data

Calls ==
  [u \in Updates |->
    [state |-> IF update[u].step \in {"initialising", "writing"} THEN "pending"
               ELSE update[u].step,
     patch |-> update[u].patch,
     applied |-> update[u].merged]]

Abstract == INSTANCE MergedDocument WITH
  Gone <- NoRow,
  doc <- Document(row),
  copy <- Document(replica),
  call <- Calls,
  shown <- Document(retrieved)

\* The two conditional updates, either of them repeated, failing or overtaken
\* by a deletion, are one merge that takes effect at once: the map that the
\* first one puts in the row is not to be told from no map at all.
ImplementsMergedDocument == Abstract!Spec
===========================================================================
