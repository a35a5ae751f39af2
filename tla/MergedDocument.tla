--------------------------- MODULE MergedDocument ---------------------------
(* What UpdateSessionDataFn and RetrieveSessionFn promise about the          *)
(* sessionData of a session, with nothing said of conditions, document paths *)
(* or of how many updates it takes: each request is one merge, which takes   *)
(* effect whole and at once, between its arrival and its answer, once or, if *)
(* it is repeated, several times.  A document without keys is one that       *)
(* nothing has been written to; one that is gone is gone for good.           *)
CONSTANTS Keys, Values, Updates, None, Untouched, Gone

VARIABLES
  doc,    \* the document, or Gone
  copy,   \* what it was at some time
  call,   \* [Updates -> the request]
  shown   \* the last answer to a reader

Patch == [Keys -> Values \cup {None, Untouched}]

EmptyPatch == [k \in Keys |-> Untouched]

EmptyDoc == [k \in Keys |-> None]

Init ==
  /\ doc = EmptyDoc
  /\ copy \in {EmptyDoc, Gone}
  /\ call = [u \in Updates |-> [state |-> "idle", patch |-> EmptyPatch, applied |-> FALSE]]
  /\ shown = Gone

Call(u, patch) ==
  /\ call[u].state = "idle"
  /\ call' = [call EXCEPT ![u].state = "pending", ![u].patch = patch]
  /\ UNCHANGED <<doc, copy, shown>>

\* The merge takes effect; whether it does so once more is seen by its answer.
Apply(u) ==
  /\ call[u].state = "pending"
  /\ call[u].patch # EmptyPatch
  /\ doc # Gone
  /\ doc' = [k \in Keys |-> IF call[u].patch[k] = Untouched THEN doc[k] ELSE call[u].patch[k]]
  /\ \E state \in {"pending", "updated", "failed"} :
       call' = [call EXCEPT ![u].state = state, ![u].applied = TRUE]
  /\ UNCHANGED <<copy, shown>>

\* An answer other than that of a merge just applied.
Refuse(u) ==
  /\ call[u].state = "pending"
  /\ \E state \in {"notFound", "invalid", "failed"} :
       /\ state = "notFound" => doc = Gone
       /\ state = "invalid" => call[u].patch = EmptyPatch
       /\ call' = [call EXCEPT ![u].state = state]
  /\ UNCHANGED <<doc, copy, shown>>

Remove ==
  /\ doc' = Gone
  /\ UNCHANGED <<copy, call, shown>>

Copy ==
  /\ copy' = doc
  /\ UNCHANGED <<doc, call, shown>>

Show ==
  /\ shown' \in {doc, copy}
  /\ UNCHANGED <<doc, copy, call>>

Next ==
  \/ \E u \in Updates, patch \in Patch : Call(u, patch)
  \/ \E u \in Updates : Apply(u) \/ Refuse(u)
  \/ Remove
  \/ Copy
  \/ Show

Spec == Init /\ [][Next]_<<doc, copy, call, shown>>
=============================================================================
