------------------------- MODULE SessionDataProofs -------------------------
(* Proofs about SessionData, for any keys, values, number of invocations and *)
(* number of attempts.                                                       *)
EXTENDS SessionData, TLAPS

(* The merge of a map is a map.                                              *)
LEMMA MergeType ==
  ASSUME NEW data \in Data, NEW patch \in Patch
  PROVE  Merge(data, patch) \in Data
BY DEF Merge, Data, Patch

(* The first update leaves a map where there was a row.                      *)
LEMMA InitialisedType ==
  ASSUME NEW data \in Data \cup {NoData}
  PROVE  Initialised(data) \in Data
BY DEF Initialised, Data

\* What an invocation has applied, it has got past the first update for; and
\* what had ended when it started has ended.
Progress ==
  \A u \in Updates :
    /\ update[u].step \in {"idle", "initialising"} => ~update[u].merged
    /\ \A v \in update[u].preceding : Ended(v)

TypeInv == TypeOK /\ Progress

(* How one invocation moves: the others stay as they are.                    *)
LEMMA OneUpdate ==
  ASSUME TypeOK, NEW u \in Updates, NEW invocation \in UpdateInvocation,
         update' = [update EXCEPT ![u] = invocation]
  PROVE  /\ update' \in [Updates -> UpdateInvocation]
         /\ update'[u] = invocation
         /\ \A v \in Updates \ {u} : update'[v] = update[v]
BY DEF TypeOK

(* The first update changes the step of the invocation, nothing else of it.  *)
LEMMA InitialiseDataUpdate ==
  ASSUME TypeInv, NEW u \in Updates, InitialiseData(u)
  PROVE  /\ update[u].step = "initialising"
         /\ update' \in [Updates -> UpdateInvocation]
         /\ update'[u].step \in {"initialising", "notFound", "invalid", "writing"}
         /\ update'[u].patch = update[u].patch /\ update'[u].merged = update[u].merged
         /\ update'[u].preceding = update[u].preceding
         /\ update'[u].step = "writing" => row # NoRow /\ update[u].patch # EmptyPatch
         /\ update'[u].step = "notFound" => row = NoRow
         /\ update'[u].step = "invalid" => update[u].patch = EmptyPatch
         /\ \A v \in Updates \ {u} : update'[v] = update[v]
         /\ row' = IF row = NoRow THEN NoRow ELSE Initialised(row)
<1>1. update[u] \in UpdateInvocation
  BY DEF TypeInv, TypeOK
<1>2. PICK step \in {"initialising", "notFound", "invalid", "writing"} :
        /\ update' = [update EXCEPT ![u] = [update[u] EXCEPT !.step = step]]
        /\ step = "writing" => row # NoRow /\ update[u].patch # EmptyPatch
        /\ step = "notFound" => row = NoRow
        /\ step = "invalid" => update[u].patch = EmptyPatch
  BY <1>1 DEF InitialiseData, TypeInv, TypeOK, UpdateInvocation
<1>3. [update[u] EXCEPT !.step = step] \in UpdateInvocation
  BY <1>1 DEF UpdateInvocation
<1>4. /\ update' \in [Updates -> UpdateInvocation]
      /\ update'[u] = [update[u] EXCEPT !.step = step]
      /\ \A v \in Updates \ {u} : update'[v] = update[v]
  BY <1>2, <1>3, OneUpdate DEF TypeInv
<1>5. row' = IF row = NoRow THEN NoRow ELSE Initialised(row)
  BY DEF InitialiseData
<1>6. update[u].step = "initialising"
  BY DEF InitialiseData
<1> QED
  BY <1>1, <1>2, <1>4, <1>5, <1>6 DEF UpdateInvocation

(* The second update is applied to a map, or not at all.                     *)
LEMMA MergePatchUpdate ==
  ASSUME TypeInv, NEW u \in Updates, MergePatch(u)
  PROVE  /\ update[u].step = "writing"
         /\ update' \in [Updates -> UpdateInvocation]
         /\ update'[u].step \in {"updated", "notFound", "failed", "writing"}
         /\ update'[u].patch = update[u].patch
         /\ update'[u].preceding = update[u].preceding
         /\ \A v \in Updates \ {u} : update'[v] = update[v]
         /\ \/ /\ row \in {NoRow, NoData} /\ row' = row /\ update'[u].merged = update[u].merged
               /\ update'[u].step # "updated" /\ (update'[u].step = "notFound" => row = NoRow)
            \/ /\ row \in Data /\ row' = Merge(row, update[u].patch) /\ update'[u].merged
               /\ update'[u].step # "notFound"
<1>1. update[u] \in UpdateInvocation /\ row \in Data \cup {NoRow, NoData}
  BY DEF TypeInv, TypeOK
<1>2. PICK step \in {"updated", "notFound", "failed", "writing"}, merged \in BOOLEAN :
        /\ update' = [update EXCEPT ![u].step = step, ![u].sends = update[u].sends + 1,
                                    ![u].merged = merged]
        /\ \/ /\ row \in {NoRow, NoData} /\ row' = row /\ merged = update[u].merged
              /\ step # "updated" /\ (step = "notFound" => row = NoRow)
           \/ /\ row \in Data /\ row' = Merge(row, update[u].patch) /\ merged = TRUE
              /\ step # "notFound"
  <2>1. update[u].merged \in BOOLEAN
    BY <1>1 DEF UpdateInvocation
  <2>2. (update[u].merged \/ FALSE) = update[u].merged /\ (update[u].merged \/ TRUE) = TRUE
    BY <2>1
  <2> QED
    BY <1>1, <2>1, <2>2 DEF MergePatch
<1> DEFINE invocation == [update[u] EXCEPT !.step = step, !.sends = update[u].sends + 1,
                                           !.merged = merged]
<1>3. invocation \in UpdateInvocation
  <2>1. update[u].sends + 1 \in Nat
    BY <1>1 DEF UpdateInvocation
  <2> QED
    BY <1>1, <2>1 DEF UpdateInvocation
<1>4. update' = [update EXCEPT ![u] = invocation]
  BY <1>2
<1>5. /\ invocation.step = step /\ invocation.patch = update[u].patch
      /\ invocation.preceding = update[u].preceding /\ invocation.merged = merged
  BY <1>1 DEF UpdateInvocation
<1> HIDE DEF invocation
<1>6. /\ update' \in [Updates -> UpdateInvocation]
      /\ update'[u] = invocation
      /\ \A v \in Updates \ {u} : update'[v] = update[v]
  BY <1>3, <1>4, OneUpdate DEF TypeInv
<1>7. update[u].step = "writing"
  BY DEF MergePatch
<1>8. CASE /\ row \in {NoRow, NoData} /\ row' = row /\ merged = update[u].merged
           /\ step # "updated" /\ (step = "notFound" => row = NoRow)
  BY <1>5, <1>6, <1>7, <1>8
<1>9. CASE /\ row \in Data /\ row' = Merge(row, update[u].patch) /\ merged = TRUE
           /\ step # "notFound"
  BY <1>5, <1>6, <1>7, <1>9
<1> QED
  BY <1>2, <1>8, <1>9

(* TypeInv is inductive: initially.                                          *)
LEMMA TypeInit == Init => TypeInv
<1> SUFFICES ASSUME Init PROVE TypeInv
  OBVIOUS
<1>1. EmptyPatch \in Patch
  BY DEF EmptyPatch, Patch
<1>2. [step |-> "idle", patch |-> EmptyPatch, sends |-> 0, merged |-> FALSE, preceding |-> {}]
        \in UpdateInvocation
  BY <1>1 DEF UpdateInvocation
<1> QED
  BY <1>2 DEF Init, TypeInv, TypeOK, Progress

(* An invocation starts after those that have ended.                         *)
LEMMA StartUpdateUpdate ==
  ASSUME TypeInv, NEW u \in Updates, NEW patch \in Patch, StartUpdate(u, patch)
  PROVE  /\ update[u].step = "idle"
         /\ update' \in [Updates -> UpdateInvocation]
         /\ update'[u].step = "initialising" /\ update'[u].merged = update[u].merged
         /\ update'[u].patch = patch
         /\ update'[u].preceding = {v \in Updates : Ended(v)}
         /\ \A v \in Updates \ {u} : update'[v] = update[v]
         /\ UNCHANGED <<row, replica, retrieved>>
<1> DEFINE preceding == {v \in Updates : Ended(v)}
           invocation == [update[u] EXCEPT !.step = "initialising", !.patch = patch,
                                           !.preceding = preceding]
<1>1. update[u] \in UpdateInvocation /\ preceding \in SUBSET Updates
  BY DEF TypeInv, TypeOK
<1>2. update' = [update EXCEPT ![u] = invocation]
  BY DEF StartUpdate
<1> HIDE DEF preceding
<1>3. /\ invocation \in UpdateInvocation
      /\ invocation.step = "initialising" /\ invocation.merged = update[u].merged
      /\ invocation.patch = patch /\ invocation.preceding = preceding
  BY <1>1 DEF UpdateInvocation
<1> HIDE DEF invocation
<1>4. /\ update' \in [Updates -> UpdateInvocation] /\ update'[u] = invocation
      /\ \A v \in Updates \ {u} : update'[v] = update[v]
  BY <1>2, <1>3, OneUpdate DEF TypeInv
<1> QED
  BY <1>3, <1>4 DEF StartUpdate, preceding

(* A failure changes the step of the invocation, nothing else of it.         *)
LEMMA FailUpdateUpdate ==
  ASSUME TypeInv, NEW u \in Updates, FailUpdate(u)
  PROVE  /\ update[u].step \in {"initialising", "writing"}
         /\ update' \in [Updates -> UpdateInvocation]
         /\ update'[u].step = "failed"
         /\ update'[u].patch = update[u].patch /\ update'[u].merged = update[u].merged
         /\ update'[u].preceding = update[u].preceding
         /\ \A v \in Updates \ {u} : update'[v] = update[v]
         /\ UNCHANGED <<row, replica, retrieved>>
<1> DEFINE invocation == [update[u] EXCEPT !.step = "failed"]
<1>1. update[u] \in UpdateInvocation
  BY DEF TypeInv, TypeOK
<1>2. update' = [update EXCEPT ![u] = invocation]
  BY DEF FailUpdate
<1>3. /\ invocation \in UpdateInvocation
      /\ invocation.step = "failed" /\ invocation.merged = update[u].merged
      /\ invocation.patch = update[u].patch /\ invocation.preceding = update[u].preceding
  BY <1>1 DEF UpdateInvocation
<1> HIDE DEF invocation
<1>4. /\ update' \in [Updates -> UpdateInvocation] /\ update'[u] = invocation
      /\ \A v \in Updates \ {u} : update'[v] = update[v]
  BY <1>2, <1>3, OneUpdate DEF TypeInv
<1> QED
  BY <1>3, <1>4 DEF FailUpdate

(* Progress is kept by a step of one invocation that has not ended.          *)
LEMMA ProgressStep ==
  ASSUME TypeInv, NEW u \in Updates, ~Ended(u),
         \A v \in Updates \ {u} : update'[v] = update[v],
         update'[u].step \in {"idle", "initialising"} => ~update'[u].merged,
         update'[u].preceding \in {update[u].preceding, {v \in Updates : Ended(v)}}
  PROVE  Progress'
<1>1. \A v \in Updates : Ended(v) => Ended(v)'
  BY DEF Ended
<1>2. \A v \in Updates : update[v].preceding \subseteq Updates
  BY DEF TypeInv, TypeOK, UpdateInvocation
<1>3. ASSUME NEW v \in Updates, NEW w \in update'[v].preceding PROVE Ended(w)'
  BY <1>1, <1>2, <1>3 DEF TypeInv, Progress
<1>4. ASSUME NEW v \in Updates, update'[v].step \in {"idle", "initialising"}
      PROVE  ~update'[v].merged
  BY <1>4 DEF TypeInv, Progress
<1> QED
  BY <1>3, <1>4 DEF Progress

(* TypeInv is inductive: every step.                                         *)
LEMMA TypeStep == TypeInv /\ [Next]_vars => TypeInv'
<1> SUFFICES ASSUME TypeInv, [Next]_vars PROVE TypeInv'
  OBVIOUS
<1>1. ASSUME NEW u \in Updates, NEW patch \in Patch, StartUpdate(u, patch) PROVE TypeInv'
  <2>1. Progress'
    BY <1>1, StartUpdateUpdate, ProgressStep DEF Ended, TypeInv, Progress
  <2> QED
    BY <1>1, <2>1, StartUpdateUpdate DEF TypeInv, TypeOK
<1>2. ASSUME NEW u \in Updates, InitialiseData(u) PROVE TypeInv'
  <2>1. Progress'
    BY <1>2, InitialiseDataUpdate, ProgressStep DEF Ended, TypeInv, Progress
  <2>2. row' \in Data \cup {NoRow, NoData}
    BY <1>2, InitialiseDataUpdate, InitialisedType DEF TypeInv, TypeOK
  <2> QED
    BY <1>2, <2>1, <2>2, InitialiseDataUpdate DEF InitialiseData, TypeInv, TypeOK
<1>3. ASSUME NEW u \in Updates, MergePatch(u) PROVE TypeInv'
  <2>1. Progress'
    BY <1>3, MergePatchUpdate, ProgressStep DEF Ended
  <2>2. update[u].patch \in Patch
    BY DEF TypeInv, TypeOK, UpdateInvocation
  <2>3. row' \in Data \cup {NoRow, NoData}
    BY <1>3, <2>2, MergePatchUpdate, MergeType DEF TypeInv, TypeOK
  <2> QED
    BY <1>3, <2>1, <2>3, MergePatchUpdate DEF MergePatch, TypeInv, TypeOK
<1>4. ASSUME NEW u \in Updates, FailUpdate(u) PROVE TypeInv'
  <2>1. Progress'
    BY <1>4, FailUpdateUpdate, ProgressStep DEF Ended
  <2> QED
    BY <1>4, <2>1, FailUpdateUpdate DEF TypeInv, TypeOK
<1>5. CASE Retrieve
  BY <1>5 DEF Retrieve, TypeInv, TypeOK, Progress, Ended
<1>6. CASE DeleteRow
  BY <1>6 DEF DeleteRow, TypeInv, TypeOK, Progress, Ended
<1>7. CASE Replicate
  BY <1>7 DEF Replicate, TypeInv, TypeOK, Progress, Ended
<1>8. CASE UNCHANGED vars
  BY <1>8 DEF vars, TypeInv, TypeOK, Progress, Ended
<1> QED
  BY <1>1, <1>2, <1>3, <1>4, <1>5, <1>6, <1>7, <1>8 DEF Next

(* Every variable keeps its type.                                            *)
THEOREM TypeCorrect == Spec => []TypeOK
<1>1. TypeInv => TypeOK
  BY DEF TypeInv
<1> QED
  BY <1>1, TypeInit, TypeStep, PTL DEF Spec

---------------------------------------------------------------------------
(* Merges.                                                                  *)

\* u is the only invocation that has applied a change of key k.
Alone(u, k) == Wrote(u, k) /\ \A v \in Updates \ {u} : ~Wrote(v, k)

\* A copy of the row has nothing that no update has given, and of what only
\* one has given, all or nothing.
Whole(copy) ==
  copy \in Data =>
    /\ \A k \in Keys : (\A u \in Updates : ~Wrote(u, k)) => copy[k] = None
    /\ \A u \in Updates :
         \/ \A k \in Keys : Alone(u, k) => copy[k] = update[u].patch[k]
         \/ \A k \in Keys : Alone(u, k) => copy[k] = None

MergeInv ==
  /\ DocumentPathExists
  /\ row = NoData => \A u \in Updates : ~update[u].merged
  /\ PatchesMerge
  /\ Whole(replica)
  /\ Whole(retrieved)

(* The row itself is whole.                                                  *)
LEMMA RowWhole ==
  ASSUME TypeOK, PatchesMerge
  PROVE  Whole(row)
BY RowAssumption DEF Whole, PatchesMerge, Alone

\* A step after which the same keys have been written, to the same values.
SameWrites ==
  \A v \in Updates, k \in Keys :
    /\ Wrote(v, k)' = Wrote(v, k)
    /\ Wrote(v, k) => /\ update'[v].patch[k] = update[v].patch[k]
                      /\ update'[v].preceding = update[v].preceding

(* Such a step keeps the row and its copies as they should be.               *)
LEMMA SameWritesStep ==
  ASSUME TypeInv, MergeInv, SameWrites, row' = row,
         replica' \in {row, replica}, retrieved' \in {row, replica, retrieved}
  PROVE  PatchesMerge' /\ Whole(replica)' /\ Whole(retrieved)'
<1>1. PatchesMerge'
  BY DEF MergeInv, PatchesMerge, SameWrites
<1>2. \A u \in Updates, k \in Keys : Alone(u, k)' = Alone(u, k)
  BY DEF SameWrites, Alone
<1>3. ASSUME NEW copy, Whole(copy), NEW copy1, copy1 = copy
      PROVE  copy1 \in Data =>
               /\ \A k \in Keys : (\A u \in Updates : ~Wrote(u, k)') => copy1[k] = None
               /\ \A u \in Updates :
                    \/ \A k \in Keys : Alone(u, k)' => copy1[k] = update'[u].patch[k]
                    \/ \A k \in Keys : Alone(u, k)' => copy1[k] = None
  <2> SUFFICES ASSUME copy \in Data
               PROVE  /\ \A k \in Keys : (\A u \in Updates : ~Wrote(u, k)') => copy[k] = None
                      /\ \A u \in Updates :
                           \/ \A k \in Keys : Alone(u, k)' => copy[k] = update'[u].patch[k]
                           \/ \A k \in Keys : Alone(u, k)' => copy[k] = None
    BY <1>3
  <2>1. \A k \in Keys : (\A u \in Updates : ~Wrote(u, k)') => copy[k] = None
    BY <1>3 DEF Whole, SameWrites
  <2>2. \A u \in Updates, k \in Keys :
          Alone(u, k)' => Alone(u, k) /\ update'[u].patch[k] = update[u].patch[k]
    BY <1>2 DEF SameWrites, Alone
  <2> QED
    BY <1>3, <2>1, <2>2 DEF Whole
<1>4. Whole(row) /\ Whole(replica) /\ Whole(retrieved)
  BY RowWhole DEF TypeInv, MergeInv
<1>5. Whole(replica)'
  BY <1>3, <1>4 DEF Whole
<1>6. Whole(retrieved)'
  BY <1>3, <1>4 DEF Whole
<1> QED
  BY <1>1, <1>5, <1>6

(* An applied update leaves its own values in the row, and none of what it   *)
(* gives in a copy that was taken before, unless it is a repetition.         *)
LEMMA MergeStep ==
  ASSUME TypeInv, MergeInv, NEW u \in Updates, MergePatch(u), row \in Data
  PROVE  PatchesMerge' /\ Whole(replica)' /\ Whole(retrieved)'
<1>0. UNCHANGED <<replica, retrieved>> /\ ~Ended(u)
  BY DEF MergePatch, Ended
<1>1. /\ update'[u].patch = update[u].patch /\ update'[u].preceding = update[u].preceding
      /\ \A v \in Updates \ {u} : update'[v] = update[v]
      /\ row' = Merge(row, update[u].patch) /\ update'[u].merged
      /\ update[u].patch \in Patch
  BY MergePatchUpdate, RowAssumption DEF TypeInv, TypeOK, UpdateInvocation
<1>2. /\ \A k \in Keys : Wrote(u, k)' <=> update[u].patch[k] # Untouched
      /\ \A v \in Updates \ {u}, k \in Keys : Wrote(v, k)' <=> Wrote(v, k)
      /\ \A v \in Updates, k \in Keys : Wrote(v, k) => Wrote(v, k)'
      /\ \A v \in Updates : update'[v].patch = update[v].patch
                          /\ update'[v].preceding = update[v].preceding
  BY <1>1 DEF Wrote
<1>3. row \notin {NoRow, NoData}
  BY RowAssumption
<1>4. \A k \in Keys : row'[k] = IF update[u].patch[k] = Untouched THEN row[k]
                                ELSE update[u].patch[k]
  BY <1>1 DEF Merge
<1>5. PatchesMerge'
  <2>1. ASSUME NEW k \in Keys, \A v \in Updates : ~Wrote(v, k)' PROVE row'[k] = None
    BY <1>2, <1>3, <1>4, <2>1 DEF MergeInv, PatchesMerge
  <2>2. ASSUME NEW k \in Keys, NEW v \in Updates, Wrote(v, k)',
               \A w \in Updates \ {v} : Wrote(w, k)' => w \in update'[v].preceding
        PROVE  row'[k] = update'[v].patch[k]
    <3>1. CASE v = u
      BY <1>2, <1>4, <2>2, <3>1
    <3>2. CASE v # u
      <4>1. u \notin update[v].preceding
        BY <1>0 DEF TypeInv, Progress
      <4>2. update[u].patch[k] = Untouched
        BY <1>2, <2>2, <3>2, <4>1
      <4>3. row[k] = update[v].patch[k]
        BY <1>2, <1>3, <2>2, <3>2 DEF MergeInv, PatchesMerge
      <4> QED
        BY <1>2, <1>4, <4>2, <4>3
    <3> QED
      BY <3>1, <3>2
  <2> QED
    BY <2>1, <2>2 DEF PatchesMerge
<1>6. ASSUME NEW copy, Whole(copy), copy \in Data
      PROVE  /\ \A k \in Keys : (\A v \in Updates : ~Wrote(v, k)') => copy[k] = None
             /\ \A v \in Updates :
                  \/ \A k \in Keys : Alone(v, k)' => copy[k] = update'[v].patch[k]
                  \/ \A k \in Keys : Alone(v, k)' => copy[k] = None
  <2>1. \A k \in Keys : (\A v \in Updates : ~Wrote(v, k)') => copy[k] = None
    BY <1>2, <1>6 DEF Whole
  <2>2. ASSUME NEW v \in Updates \ {u}
        PROVE  \/ \A k \in Keys : Alone(v, k)' => copy[k] = update'[v].patch[k]
               \/ \A k \in Keys : Alone(v, k)' => copy[k] = None
    <3>1. \A k \in Keys : Alone(v, k)' => Alone(v, k)
      BY <1>2 DEF Alone
    <3> QED
      BY <1>2, <1>6, <3>1 DEF Whole
  <2>3. \/ \A k \in Keys : Alone(u, k)' => copy[k] = update'[u].patch[k]
        \/ \A k \in Keys : Alone(u, k)' => copy[k] = None
    <3>1. CASE update[u].merged
      <4>1. \A k \in Keys : Alone(u, k)' => Alone(u, k)
        BY <1>2, <3>1 DEF Alone, Wrote
      <4> QED
        BY <1>2, <1>6, <4>1 DEF Whole
    <3>2. CASE ~update[u].merged
      <4>1. \A k \in Keys : Alone(u, k)' => \A v \in Updates : ~Wrote(v, k)
        BY <1>2, <3>2 DEF Alone, Wrote
      <4> QED
        BY <1>6, <4>1 DEF Whole
    <3> QED
      BY <3>1, <3>2
  <2> QED
    BY <2>1, <2>2, <2>3
<1>7. Whole(replica)'
  BY <1>0, <1>6 DEF Whole, MergeInv
<1>8. Whole(retrieved)'
  BY <1>0, <1>6 DEF Whole, MergeInv
<1> QED
  BY <1>5, <1>7, <1>8

(* MergeInv is inductive: initially.                                         *)
LEMMA MergeInit == Init => MergeInv
BY RowAssumption DEF Init, MergeInv, DocumentPathExists, PatchesMerge, Whole

(* MergeInv is inductive: every step.                                        *)
LEMMA MergeInvStep == TypeInv /\ MergeInv /\ [Next]_vars => MergeInv'
<1> SUFFICES ASSUME TypeInv, MergeInv, [Next]_vars PROVE MergeInv'
  OBVIOUS
<1>1. ASSUME NEW u \in Updates, NEW patch \in Patch, StartUpdate(u, patch) PROVE MergeInv'
  <2>1. ~update[u].merged /\ ~update'[u].merged
    BY <1>1, StartUpdateUpdate DEF TypeInv, Progress
  <2>2. SameWrites
    BY <1>1, <2>1, StartUpdateUpdate DEF SameWrites, Wrote
  <2>3. PatchesMerge' /\ Whole(replica)' /\ Whole(retrieved)'
    BY <1>1, <2>2, SameWritesStep, StartUpdateUpdate
  <2> QED
    BY <1>1, <2>1, <2>3, StartUpdateUpdate DEF MergeInv, DocumentPathExists
<1>2. ASSUME NEW u \in Updates, InitialiseData(u) PROVE MergeInv'
  <2>1. SameWrites
    BY <1>2, InitialiseDataUpdate DEF SameWrites, Wrote
  <2>2. UNCHANGED <<replica, retrieved>>
    BY <1>2 DEF InitialiseData
  <2>3. CASE row = NoData
    <3>1. row' = [k \in Keys |-> None] /\ row' \in Data
      BY <1>2, <2>3, InitialiseDataUpdate, RowAssumption DEF Initialised, Data
    <3>2. \A v \in Updates, k \in Keys : ~Wrote(v, k)'
      BY <2>1, <2>3 DEF SameWrites, Wrote, MergeInv
    <3>3. PatchesMerge'
      BY <3>1, <3>2 DEF PatchesMerge
    <3>4. Whole(replica)' /\ Whole(retrieved)'
      BY <2>1, <2>2, <3>2 DEF Whole, MergeInv, SameWrites, Alone
    <3> QED
      BY <3>1, <3>3, <3>4, RowAssumption DEF MergeInv, DocumentPathExists
  <2>4. CASE row # NoData
    <3>1. row' = row
      BY <1>2, <2>4, InitialiseDataUpdate DEF Initialised
    <3>2. PatchesMerge' /\ Whole(replica)' /\ Whole(retrieved)'
      BY <2>1, <2>2, <3>1, SameWritesStep
    <3> QED
      BY <2>4, <3>1, <3>2 DEF MergeInv, DocumentPathExists
  <2> QED
    BY <2>3, <2>4
<1>3. ASSUME NEW u \in Updates, MergePatch(u) PROVE MergeInv'
  <2>1. row # NoData
    BY <1>3, MergePatchUpdate DEF MergeInv, DocumentPathExists
  <2>2. CASE row \in Data
    <3>1. row' \in Data
      BY <1>3, <2>2, MergePatchUpdate, MergeType, RowAssumption
         DEF TypeInv, TypeOK, UpdateInvocation
    <3> QED
      BY <1>3, <2>2, <3>1, MergeStep, RowAssumption DEF MergeInv, DocumentPathExists
  <2>3. CASE row = NoRow
    <3>1. row' = row /\ update'[u].merged = update[u].merged
      BY <1>3, <2>3, MergePatchUpdate, RowAssumption
    <3>2. UNCHANGED <<replica, retrieved>>
      BY <1>3 DEF MergePatch
    <3>3. /\ update'[u].patch = update[u].patch /\ update'[u].preceding = update[u].preceding
          /\ \A v \in Updates \ {u} : update'[v] = update[v]
      BY <1>3, MergePatchUpdate
    <3>4. SameWrites
      BY <3>1, <3>3 DEF SameWrites, Wrote
    <3> QED
      BY <2>3, <3>1, <3>2, <3>4, SameWritesStep, RowAssumption DEF MergeInv, DocumentPathExists
  <2> QED
    BY <2>1, <2>2, <2>3 DEF TypeInv, TypeOK
<1>4. ASSUME NEW u \in Updates, FailUpdate(u) PROVE MergeInv'
  <2>1. SameWrites
    BY <1>4, FailUpdateUpdate DEF SameWrites, Wrote
  <2>2. PatchesMerge' /\ Whole(replica)' /\ Whole(retrieved)'
    BY <1>4, <2>1, SameWritesStep, FailUpdateUpdate
  <2> QED
    BY <1>4, <2>2, FailUpdateUpdate DEF MergeInv, DocumentPathExists
<1>5. CASE Retrieve \/ Replicate \/ UNCHANGED vars
  <2>1. /\ update' = update /\ row' = row
        /\ replica' \in {row, replica} /\ retrieved' \in {row, replica, retrieved}
    BY <1>5 DEF Retrieve, Replicate, vars
  <2>2. SameWrites
    BY <2>1 DEF SameWrites, Wrote
  <2> QED
    BY <2>1, <2>2, SameWritesStep DEF MergeInv, DocumentPathExists
<1>6. CASE DeleteRow
  BY <1>6, RowAssumption DEF DeleteRow, MergeInv, DocumentPathExists, PatchesMerge, Whole,
     Alone, Wrote
<1> QED
  BY <1>1, <1>2, <1>3, <1>4, <1>5, <1>6 DEF Next

(* The map that a document path of the second update goes through is there.  *)
THEOREM DocumentPathExistsCorrect == Spec => []DocumentPathExists
<1>1. MergeInv => DocumentPathExists
  BY DEF MergeInv
<1> QED
  BY <1>1, TypeInit, TypeStep, MergeInit, MergeInvStep, PTL DEF Spec

(* Merges of different keys, and merges that do not overlap, lose nothing.   *)
THEOREM PatchesMergeCorrect == Spec => []PatchesMerge
<1>1. MergeInv => PatchesMerge
  BY DEF MergeInv
<1> QED
  BY <1>1, TypeInit, TypeStep, MergeInit, MergeInvStep, PTL DEF Spec

(* A retrieval never shows a part of what one update has given.              *)
THEOREM MergesSeenWholeCorrect == Spec => []MergesSeenWhole
<1>1. TypeOK /\ Whole(retrieved) => MergesSeenWhole
  BY DEF TypeOK, Whole, MergesSeenWhole, Alone
<1>2. TypeInv /\ MergeInv => MergesSeenWhole
  BY <1>1 DEF TypeInv, MergeInv
<1> QED
  BY <1>2, TypeInit, TypeStep, MergeInit, MergeInvStep, PTL DEF Spec

(* No update brings a deleted session back.                                  *)
THEOREM DeletedStaysDeletedCorrect == Spec => DeletedStaysDeleted
<1>1. TypeInv /\ [Next]_vars => [row = NoRow => row' = NoRow]_vars
  <2> SUFFICES ASSUME TypeInv, [Next]_vars, row = NoRow PROVE row' = NoRow
    OBVIOUS
  <2>1. ASSUME NEW u \in Updates, InitialiseData(u) PROVE row' = NoRow
    BY <2>1, InitialiseDataUpdate
  <2>2. ASSUME NEW u \in Updates, MergePatch(u) PROVE row' = NoRow
    BY <2>2, MergePatchUpdate, RowAssumption
  <2> QED
    BY <2>1, <2>2 DEF Next, StartUpdate, FailUpdate, Retrieve, DeleteRow, Replicate, vars
<1> QED
  BY <1>1, TypeInit, TypeStep, PTL DEF Spec, DeletedStaysDeleted

---------------------------------------------------------------------------
(* SessionData implements MergedDocument.                                   *)
(*                                                                          *)
(* Each arrival of the second update that is applied is the merge; the end  *)
(* of an invocation without one is a refusal; the first update, which only  *)
(* puts an empty map where there is none, is no step at all.                *)

\* What has got to its second update has something to write: a request with
\* an empty object is refused before.
WritesSomething ==
  \A u \in Updates : update[u].step = "writing" => update[u].patch # EmptyPatch

(* What is in the row, or gone with it.                                      *)
LEMMA DocumentGone ==
  ASSUME NEW data \in Data \cup {NoRow, NoData}
  PROVE  /\ Document(data) = NoRow <=> data = NoRow
         /\ data \in Data => Document(data) = data
         /\ data # NoRow => Document(Initialised(data)) = Document(data)
<1>1. [k \in Keys |-> None] \in Data
  BY DEF Data
<1> QED
  BY <1>1, RowAssumption DEF Document, Initialised

(* The abstract call of an invocation that has moved.                        *)
LEMMA CallMoved ==
  ASSUME TypeInv, NEW u \in Updates, update' \in [Updates -> UpdateInvocation],
         \A v \in Updates \ {u} : update'[v] = update[v]
  PROVE  Calls' = [Calls EXCEPT ![u] =
           [state |-> IF update'[u].step \in {"initialising", "writing"} THEN "pending"
                      ELSE update'[u].step,
            patch |-> update'[u].patch,
            applied |-> update'[u].merged]]
BY DEF Calls

(* Initially.                                                                *)
LEMMA AbstractInit == Init => Abstract!Init
<1> SUFFICES ASSUME Init PROVE Abstract!Init
  OBVIOUS
<1>1. Document(row) = Abstract!EmptyDoc
  BY DEF Init, Document, Abstract!EmptyDoc
<1>2. Document(replica) \in {Abstract!EmptyDoc, NoRow} /\ Document(retrieved) = NoRow
  BY RowAssumption DEF Init, Document, Abstract!EmptyDoc
<1>3. Calls = [u \in Updates |->
                [state |-> "idle", patch |-> Abstract!EmptyPatch, applied |-> FALSE]]
  BY DEF Init, Calls, EmptyPatch, Abstract!EmptyPatch
<1> QED
  BY <1>1, <1>2, <1>3 DEF Abstract!Init

(* WritesSomething is inductive.                                             *)
LEMMA WritesSomethingStep ==
  TypeInv /\ WritesSomething /\ [Next]_vars => WritesSomething'
<1> SUFFICES ASSUME TypeInv, WritesSomething, [Next]_vars PROVE WritesSomething'
  OBVIOUS
<1>1. EmptyPatch' = EmptyPatch
  BY DEF EmptyPatch
<1>2. ASSUME NEW u \in Updates, NEW patch \in Patch, StartUpdate(u, patch)
      PROVE  WritesSomething'
  BY <1>1, <1>2, StartUpdateUpdate DEF WritesSomething
<1>3. ASSUME NEW u \in Updates, InitialiseData(u) PROVE WritesSomething'
  BY <1>1, <1>3, InitialiseDataUpdate DEF WritesSomething
<1>4. ASSUME NEW u \in Updates, MergePatch(u) PROVE WritesSomething'
  <2>1. /\ update[u].step = "writing" /\ update'[u].patch = update[u].patch
        /\ \A v \in Updates \ {u} : update'[v] = update[v]
    BY <1>4, MergePatchUpdate
  <2> QED
    BY <1>1, <2>1 DEF WritesSomething
<1>5. ASSUME NEW u \in Updates, FailUpdate(u) PROVE WritesSomething'
  BY <1>1, <1>5, FailUpdateUpdate DEF WritesSomething
<1>6. CASE Retrieve \/ DeleteRow \/ Replicate \/ UNCHANGED vars
  BY <1>1, <1>6 DEF Retrieve, DeleteRow, Replicate, vars, WritesSomething
<1> QED
  BY <1>2, <1>3, <1>4, <1>5, <1>6 DEF Next

(* Every step is one of MergedDocument, or none.                             *)
LEMMA AbstractStep ==
  TypeInv /\ WritesSomething /\ [Next]_vars =>
    [Abstract!Next]_<<Document(row), Document(replica), Calls, Document(retrieved)>>
<1> DEFINE view == <<Document(row), Document(replica), Calls, Document(retrieved)>>
<1> SUFFICES ASSUME TypeInv, WritesSomething, [Next]_vars
             PROVE  Abstract!Next \/ UNCHANGED view
  OBVIOUS
<1>0. row \in Data \cup {NoRow, NoData}
  BY DEF TypeInv, TypeOK
<1>1. ASSUME NEW u \in Updates, NEW patch \in Patch, StartUpdate(u, patch)
      PROVE  Abstract!Call(u, patch) /\ patch \in Abstract!Patch
  <2>1. Calls[u].state = "idle" /\ Calls[u].applied = update[u].merged
    BY <1>1, StartUpdateUpdate DEF Calls
  <2>2. Calls' = [Calls EXCEPT ![u] =
                   [state |-> "pending", patch |-> patch, applied |-> update[u].merged]]
    BY <1>1, StartUpdateUpdate, CallMoved
  <2>3. Calls' = [Calls EXCEPT ![u].state = "pending", ![u].patch = patch]
    BY <2>2 DEF Calls
  <2>4. UNCHANGED <<Document(row), Document(replica), Document(retrieved)>>
    BY <1>1 DEF StartUpdate, Document
  <2> QED
    BY <2>1, <2>3, <2>4 DEF Abstract!Call, Abstract!Patch, Patch
\* An invocation that had not ended ends without a merge.
<1>2. ASSUME NEW u \in Updates, update[u].step \in {"initialising", "writing"},
             update' \in [Updates -> UpdateInvocation],
             \A v \in Updates \ {u} : update'[v] = update[v],
             update'[u].patch = update[u].patch, update'[u].merged = update[u].merged,
             update'[u].step \in {"notFound", "invalid", "failed"},
             update'[u].step = "notFound" => row = NoRow,
             update'[u].step = "invalid" => update[u].patch = EmptyPatch,
             Document(row)' = Document(row), UNCHANGED <<replica, retrieved>>
      PROVE  Abstract!Refuse(u)
  <2>1. Calls[u].state = "pending" /\ Calls[u].patch = update[u].patch
    BY <1>2 DEF Calls
  <2>2. Calls' = [Calls EXCEPT ![u] = [state |-> update'[u].step, patch |-> update[u].patch,
                                       applied |-> update[u].merged]]
    BY <1>2, CallMoved
  <2>3. Calls' = [Calls EXCEPT ![u].state = update'[u].step]
    BY <2>2 DEF Calls
  <2>4. /\ update'[u].step = "notFound" => Document(row) = NoRow
        /\ update'[u].step = "invalid" => Calls[u].patch = Abstract!EmptyPatch
    <3>1. update'[u].step = "notFound" => Document(row) = NoRow
      BY <1>0, <1>2, DocumentGone
    <3>2. Abstract!EmptyPatch = EmptyPatch
      BY DEF EmptyPatch, Abstract!EmptyPatch
    <3> QED
      BY <1>2, <2>1, <3>1, <3>2
  <2>5. UNCHANGED <<Document(row), Document(replica), Document(retrieved)>>
    BY <1>2 DEF Document
  <2> QED
    BY <1>2, <2>1, <2>3, <2>4, <2>5 DEF Abstract!Refuse
\* One that goes on, without a merge.
<1>3. ASSUME NEW u \in Updates, update[u].step \in {"initialising", "writing"},
             update' \in [Updates -> UpdateInvocation],
             \A v \in Updates \ {u} : update'[v] = update[v],
             update'[u].patch = update[u].patch, update'[u].merged = update[u].merged,
             update'[u].step \in {"initialising", "writing"},
             Document(row)' = Document(row), UNCHANGED <<replica, retrieved>>
      PROVE  UNCHANGED view
  <2>1. Calls' = [Calls EXCEPT ![u] = [state |-> "pending", patch |-> update[u].patch,
                                       applied |-> update[u].merged]]
    BY <1>3, CallMoved
  <2>2. Calls[u] = [state |-> "pending", patch |-> update[u].patch,
                    applied |-> update[u].merged]
    BY <1>3 DEF Calls
  <2>3. Calls' = Calls
    BY <2>1, <2>2 DEF Calls
  <2> QED
    BY <1>3, <2>3 DEF Document
<1>4. ASSUME NEW u \in Updates, InitialiseData(u)
      PROVE  Abstract!Refuse(u) \/ UNCHANGED view
  <2>1. Document(row)' = Document(row)
    BY <1>0, <1>4, InitialiseDataUpdate, DocumentGone DEF Document
  <2>2. UNCHANGED <<replica, retrieved>>
    BY <1>4 DEF InitialiseData
  <2>3. CASE update'[u].step \in {"notFound", "invalid"}
    BY <1>2, <1>4, <2>1, <2>2, <2>3, InitialiseDataUpdate
  <2>4. CASE update'[u].step \in {"initialising", "writing"}
    BY <1>3, <1>4, <2>1, <2>2, <2>4, InitialiseDataUpdate
  <2> QED
    BY <1>4, <2>3, <2>4, InitialiseDataUpdate
<1>5. ASSUME NEW u \in Updates, MergePatch(u)
      PROVE  Abstract!Apply(u) \/ Abstract!Refuse(u) \/ UNCHANGED view
  <2>1. UNCHANGED <<replica, retrieved>>
    BY <1>5 DEF MergePatch
  <2>2. /\ update[u].step = "writing" /\ update' \in [Updates -> UpdateInvocation]
        /\ update'[u].step \in {"updated", "notFound", "failed", "writing"}
        /\ update'[u].patch = update[u].patch
        /\ \A v \in Updates \ {u} : update'[v] = update[v]
    BY <1>5, MergePatchUpdate
  <2>3. CASE row \in Data
    <3>1. row' = Merge(row, update[u].patch) /\ update'[u].merged
          /\ update'[u].step # "notFound"
      BY <1>5, <2>3, MergePatchUpdate, RowAssumption
    <3>2. Calls[u].state = "pending" /\ Calls[u].patch = update[u].patch
      BY <2>2 DEF Calls
    <3>3. Calls[u].patch # Abstract!EmptyPatch
      BY <2>2, <3>2 DEF WritesSomething, EmptyPatch, Abstract!EmptyPatch
    <3>4. PICK state \in {"pending", "updated", "failed"} :
            state = IF update'[u].step \in {"initialising", "writing"} THEN "pending"
                    ELSE update'[u].step
      BY <2>2, <3>1
    <3>5. update'[u].merged = TRUE
      BY <2>2, <3>1 DEF UpdateInvocation
    <3>6. Calls' = [Calls EXCEPT ![u] = [state |-> state, patch |-> update[u].patch,
                                         applied |-> TRUE]]
      BY <2>2, <3>4, <3>5, CallMoved
    <3>7. Calls' = [Calls EXCEPT ![u].state = state, ![u].applied = TRUE]
      BY <3>6 DEF Calls
    <3>8. Document(row) = row /\ Document(row) # NoRow
      BY <1>0, <2>3, DocumentGone, RowAssumption
    <3>9. row' \in Data
      BY <2>2, <2>3, <3>1, MergeType DEF TypeInv, TypeOK, UpdateInvocation
    <3>10. Document(row)' = Merge(row, update[u].patch)
      BY <3>1, <3>9, RowAssumption DEF Document
    <3>11. Document(row)' = [k \in Keys |-> IF Calls[u].patch[k] = Untouched
                                            THEN Document(row)[k] ELSE Calls[u].patch[k]]
      BY <3>2, <3>8, <3>10 DEF Merge
    <3>12. UNCHANGED <<Document(replica), Document(retrieved)>>
      BY <2>1 DEF Document
    <3> QED
      BY <3>2, <3>3, <3>4, <3>7, <3>8, <3>11, <3>12 DEF Abstract!Apply
  <2>4. CASE row \in {NoRow, NoData}
    <3>1. /\ row' = row /\ update'[u].merged = update[u].merged
          /\ update'[u].step # "updated" /\ (update'[u].step = "notFound" => row = NoRow)
      BY <1>5, <2>4, MergePatchUpdate, RowAssumption
    <3>2. Document(row)' = Document(row)
      BY <3>1 DEF Document
    <3>3. CASE update'[u].step \in {"notFound", "failed"}
      BY <1>2, <2>1, <2>2, <3>1, <3>2, <3>3
    <3>4. CASE update'[u].step = "writing"
      BY <1>3, <2>1, <2>2, <3>1, <3>2, <3>4
    <3> QED
      BY <2>2, <3>1, <3>3, <3>4
  <2> QED
    BY <1>0, <2>3, <2>4
<1>6. ASSUME NEW u \in Updates, FailUpdate(u) PROVE Abstract!Refuse(u)
  <2>1. Document(row)' = Document(row)
    BY <1>6 DEF FailUpdate, Document
  <2> QED
    BY <1>2, <1>6, <2>1, FailUpdateUpdate
<1>7. CASE Retrieve
  <2>1. UNCHANGED <<Document(row), Document(replica), Calls>>
    BY <1>7 DEF Retrieve, Document, Calls
  <2>2. Document(retrieved)' \in {Document(row), Document(replica)}
    BY <1>7 DEF Retrieve, Document
  <2> QED
    BY <2>1, <2>2 DEF Abstract!Next, Abstract!Show
<1>8. CASE DeleteRow
  <2>1. Document(row)' = NoRow
    BY <1>8, RowAssumption DEF DeleteRow, Document
  <2>2. UNCHANGED <<Document(replica), Calls, Document(retrieved)>>
    BY <1>8 DEF DeleteRow, Document, Calls
  <2> QED
    BY <2>1, <2>2 DEF Abstract!Next, Abstract!Remove
<1>9. CASE Replicate
  <2>1. Document(replica)' = Document(row)
    BY <1>9 DEF Replicate, Document
  <2>2. UNCHANGED <<Document(row), Calls, Document(retrieved)>>
    BY <1>9 DEF Replicate, Document, Calls
  <2> QED
    BY <2>1, <2>2 DEF Abstract!Next, Abstract!Copy
<1>10. CASE UNCHANGED vars
  BY <1>10 DEF vars, Document, Calls
<1> HIDE DEF view
<1> QED
  BY <1>1, <1>4, <1>5, <1>6, <1>7, <1>8, <1>9, <1>10 DEF Next, Abstract!Next

(* The two conditional updates are one merge that takes effect at once.      *)
THEOREM ImplementsMergedDocumentCorrect == Spec => ImplementsMergedDocument
<1>1. Init => WritesSomething
  BY DEF Init, WritesSomething
<1> QED
  BY <1>1, AbstractInit, AbstractStep, TypeInit, TypeStep, WritesSomethingStep, PTL
     DEF Spec, ImplementsMergedDocument, Abstract!Spec
===========================================================================
