------------------------- MODULE JweDecrypterProofs -------------------------
(* Proofs about JweDecrypter, for any set of keys.                           *)
EXTENDS JweDecrypter, TLAPS

(* The aliases are tried from the newest to the oldest: an alias and its     *)
(* position in DecryptionKeyAliases determine each other.                    *)
LEMMA AliasesByAge ==
  /\ Len(DecryptionKeyAliases) = 3
  /\ \A a \in Aliases : Ages[a] \in 1..3 /\ DecryptionKeyAliases[Ages[a]] = a
  /\ \A p \in 1..3 : DecryptionKeyAliases[p] \in Aliases /\ Ages[DecryptionKeyAliases[p]] = p
<1>1. Aliases = {"active", "inactive", "previous"}
  BY DEF Aliases, Ages
<1>2. Len(DecryptionKeyAliases) = 3
  BY DEF DecryptionKeyAliases
<1>3. \A p \in 1..3 : p = 1 \/ p = 2 \/ p = 3
  OBVIOUS
<1> QED
  BY <1>1, <1>2, <1>3 DEF DecryptionKeyAliases, Ages

(* A turn of the loop stays within the list.                                 *)
LEMMA NextPositionInList ==
  ASSUME request.position \in 1..3
  PROVE  NextPosition \in 1..3
BY AliasesByAge DEF NextPosition, MoreAliases

(* Every variable keeps its type.                                            *)
THEOREM TypeCorrect == Spec => []TypeOK
<1>1. Init => TypeOK
  <2> SUFFICES ASSUME Init PROVE TypeOK
    OBVIOUS
  <2>0. PICK key \in KmsKeys :
          request = [step |-> "idle", key |-> key, genuine |-> TRUE, position |-> 1,
                     disturbed |-> FALSE, holders |-> {}]
    BY DEF Init
  <2>1. request \in Request
    BY <2>0, AliasesByAge DEF Request
  <2> QED
    BY <2>1 DEF Init, TypeOK
<1>2. TypeOK /\ [Next]_vars => TypeOK'
  <2> SUFFICES ASSUME TypeOK, [Next]_vars PROVE TypeOK'
    OBVIOUS
  <2> USE DEF TypeOK
  <2>0. /\ request.position \in 1..3
        /\ Request = [step: {"idle", "scanning", "legacy", "unwrapped", "decrypted", "Error",
                             "JweDecrypterError"},
                      key: KmsKeys, genuine: BOOLEAN, position: 1..3, disturbed: BOOLEAN,
                      holders: SUBSET Aliases]
    BY AliasesByAge DEF Request
  <2>1. ASSUME NEW key \in KmsKeys, NEW genuine \in BOOLEAN, StartRequest(key, genuine)
        PROVE  TypeOK'
    <3>1. request' \in Request
      BY <2>1, <2>0 DEF StartRequest
    <3> QED
      BY <2>1, <3>1 DEF StartRequest
  <2>2. CASE TryAlias
    <3>1. ASSUME NEW disturbed \in BOOLEAN, TryNext(disturbed)
          PROVE  request' \in Request
      BY <2>0, <3>1, NextPositionInList DEF TryNext, AfterLastAlias
    <3>2. ASSUME Unwrapped PROVE request' \in Request
      BY <2>0, <3>2 DEF Unwrapped
    <3>3. (request.disturbed \/ Holds(DecryptionKeyAliases[request.position])) \in BOOLEAN
      BY <2>0
    <3>4. request' \in Request
      BY <2>2, <3>1, <3>2, <3>3 DEF TryAlias
    <3> QED
      BY <2>2, <3>4 DEF TryAlias
  <2>3. CASE TryLegacyKey
    <3>1. request' \in Request
      BY <2>3, <2>0 DEF TryLegacyKey, Unwrapped
    <3> QED
      BY <2>3, <3>1 DEF TryLegacyKey, KeptKeyId
  <2>4. CASE GcmDecrypt
    <3>1. request' \in Request
      BY <2>4, <2>0 DEF GcmDecrypt
    <3> QED
      BY <2>4, <3>1 DEF GcmDecrypt
  <2>5. CASE EndProcess
    <3>1. request' \in Request
      BY <2>5, <2>0 DEF EndProcess
    <3> QED
      BY <2>5, <3>1 DEF EndProcess
  <2>6. ASSUME NEW a \in Aliases, NEW key \in KmsKeys \cup {None}, UpdateAlias(a, key)
        PROVE  TypeOK'
    <3>1. request' \in Request
      BY <2>6, <2>0 DEF UpdateAlias
    <3> QED
      BY <2>6, <3>1 DEF UpdateAlias
  <2>7. ASSUME NEW key \in KmsKeys, PutParameter(key)
        PROVE  TypeOK'
    BY <2>7 DEF PutParameter
  <2>8. CASE UNCHANGED vars
    BY <2>8 DEF vars
  <2> QED
    BY <2>1, <2>2, <2>3, <2>4, <2>5, <2>6, <2>7, <2>8 DEF Next
<1> QED
  BY <1>1, <1>2, PTL DEF Spec
---------------------------------------------------------------------------
(* The scan of the aliases.                                                 *)

\* holders is a set of aliases that do point at the key.
HoldersHold == \A a \in request.holders : Holds(a)

\* While the scan goes on undisturbed, no holder is behind it.
HoldersAhead ==
  request.step = "scanning" /\ ~request.disturbed
  => \A a \in request.holders : Ages[a] >= request.position

ScanInv == HoldersHold /\ HoldersAhead /\ NoKeyOverlooked

(* A turn of the loop leaves the holders ahead, none of them after the last. *)
LEMMA ScanStep ==
  ASSUME TypeOK, ScanInv, TryAlias
  PROVE  ScanInv'
<1> DEFINE a == DecryptionKeyAliases[request.position]
<1>1. request \in Request /\ request.position \in 1..3 /\ a \in Aliases
      /\ Ages[a] = request.position
  BY AliasesByAge DEF TypeOK, Request
<1>2. CASE Unwrapped
  BY <1>1, <1>2 DEF TryAlias, Unwrapped, ScanInv, HoldersHold, HoldersAhead, NoKeyOverlooked,
     Holds, Request
<1>3. CASE TryNext(request.disturbed \/ Holds(a))
  <2> DEFINE over == ~MoreAliases
  <2>1. /\ request'.holders = request.holders /\ request'.key = request.key
        /\ request'.disturbed = (request.disturbed \/ Holds(a))
        /\ request'.position = NextPosition
        /\ request'.step = IF MoreAliases THEN "scanning" ELSE AfterLastAlias
        /\ alias' = alias
    BY <1>1, <1>3 DEF TryNext, TryAlias, Request
  <2>2. HoldersHold'
    BY <2>1 DEF ScanInv, HoldersHold, Holds
  <2>3. ASSUME ~request'.disturbed, NEW b \in request.holders
        PROVE  Ages[b] > request.position
    <3>1. ~Holds(a) /\ ~request.disturbed
      BY <2>1, <2>3
    <3>2. Holds(b) /\ Ages[b] >= request.position /\ b \in Aliases
      BY <3>1, <1>1 DEF ScanInv, HoldersHold, HoldersAhead, TryAlias, Request
    <3>3. Ages[b] # request.position
      BY <3>1, <3>2, <1>1, AliasesByAge
    <3> QED
      BY <3>2, <3>3, <1>1, AliasesByAge
  <2>4. CASE MoreAliases
    <3>1. request'.step = "scanning" /\ request'.position = request.position + 1
      BY <2>1, <2>4 DEF NextPosition
    <3>2. \A b \in request.holders : b \in Aliases
      BY <1>1 DEF Request
    <3>3. HoldersAhead'
      BY <2>1, <2>3, <3>1, <3>2, <1>1, AliasesByAge DEF HoldersAhead
    <3> QED
      BY <2>2, <3>1, <3>3 DEF ScanInv, NoKeyOverlooked
  <2>5. CASE ~MoreAliases
    <3>1. request'.step # "scanning"
      BY <2>1, <2>5 DEF AfterLastAlias
    <3>2. ASSUME ~request'.disturbed PROVE request.holders = {}
      <4>1. request.position = 3
        BY <1>1, <2>5, AliasesByAge DEF MoreAliases
      <4>2. \A b \in request.holders : b \in Aliases
        BY <1>1 DEF Request
      <4> QED
        BY <4>1, <4>2, <2>3, <3>2, AliasesByAge
    <3> QED
      BY <2>1, <2>2, <3>1, <3>2 DEF ScanInv, HoldersAhead, NoKeyOverlooked
  <2> QED
    BY <2>4, <2>5
<1> QED
  BY <1>2, <1>3 DEF TryAlias

(* An alias that is moved joins the holders only behind one of them.         *)
LEMMA AliasStep ==
  ASSUME TypeOK, ScanInv, NEW a \in Aliases, NEW key \in KmsKeys \cup {None},
         UpdateAlias(a, key)
  PROVE  ScanInv'
<1>1. request \in Request /\ request.position \in 1..3 /\ alias \in [Aliases -> KmsKeys \cup {None}]
  BY AliasesByAge DEF TypeOK, Request
<1>2. /\ request'.step = request.step /\ request'.key = request.key
      /\ request'.genuine = request.genuine /\ request'.disturbed = request.disturbed
      /\ request'.position = request.position /\ flags' = flags
      /\ alias' = [alias EXCEPT ![a] = key]
  BY <1>1 DEF UpdateAlias, Request
<1>3. CASE key # request.key
  <2>1. request'.holders = request.holders \ {a}
    BY <1>1, <1>3 DEF UpdateAlias, Request
  <2> QED
    BY <1>1, <1>2, <2>1 DEF ScanInv, HoldersHold, HoldersAhead, NoKeyOverlooked, Holds, Request
<1>4. CASE key = request.key /\ ~HandedOn(a)
  <2>1. request'.holders = request.holders
    BY <1>1, <1>4 DEF UpdateAlias, Request
  <2> QED
    BY <1>1, <1>2, <1>4, <2>1 DEF ScanInv, HoldersHold, HoldersAhead, NoKeyOverlooked, Holds,
       Request
<1>5. CASE key = request.key /\ HandedOn(a)
  <2>1. request'.holders = request.holders \cup {a}
    BY <1>1, <1>5 DEF UpdateAlias, Request
  <2>2. PICK from \in request.holders : Ages[from] <= Ages[a]
    BY <1>5 DEF HandedOn
  <2>3. HoldersHold'
    BY <1>1, <1>2, <1>5, <2>1 DEF ScanInv, HoldersHold, Holds, Request
  <2>4. HoldersAhead'
    <3>1. from \in Aliases
      BY <1>1 DEF Request
    <3> QED
      BY <1>1, <1>2, <2>1, <2>2, <3>1, AliasesByAge DEF ScanInv, HoldersAhead
  <2>5. NoKeyOverlooked'
    BY <1>2, <2>2 DEF ScanInv, NoKeyOverlooked
  <2> QED
    BY <2>3, <2>4, <2>5 DEF ScanInv
<1> QED
  BY <1>3, <1>4, <1>5

(* Keys handed on from newer to older aliases are found, whatever their      *)
(* number and however often the aliases are moved while the scan goes on.    *)
THEOREM NoKeyOverlookedCorrect == Spec => []NoKeyOverlooked
<1>1. Init => ScanInv
  <2> SUFFICES ASSUME Init PROVE ScanInv
    OBVIOUS
  <2>1. request.step = "idle" /\ request.holders = {}
    BY DEF Init
  <2> QED
    BY <2>1 DEF ScanInv, HoldersHold, HoldersAhead, NoKeyOverlooked
<1>2. TypeOK /\ ScanInv /\ [Next]_vars => ScanInv'
  <2> SUFFICES ASSUME TypeOK, ScanInv, [Next]_vars PROVE ScanInv'
    OBVIOUS
  <2>0. request \in Request
    BY DEF TypeOK
  <2> USE DEF ScanInv, HoldersHold, HoldersAhead, NoKeyOverlooked, Holds
  <2>1. ASSUME NEW key \in KmsKeys, NEW genuine \in BOOLEAN, StartRequest(key, genuine)
        PROVE  ScanInv'
    BY <2>1, <2>0, AliasesByAge DEF StartRequest, Request
  <2>2. CASE TryAlias
    BY <2>2, ScanStep
  <2>3. CASE TryLegacyKey
    BY <2>3, <2>0 DEF TryLegacyKey, Unwrapped, Request
  <2>4. CASE GcmDecrypt
    BY <2>4, <2>0 DEF GcmDecrypt, Request
  <2>5. CASE EndProcess
    BY <2>5, <2>0 DEF EndProcess, Request
  <2>6. ASSUME NEW a \in Aliases, NEW key \in KmsKeys \cup {None}, UpdateAlias(a, key)
        PROVE  ScanInv'
    BY <2>6, AliasStep
  <2>7. ASSUME NEW key \in KmsKeys, PutParameter(key)
        PROVE  ScanInv'
    BY <2>7 DEF PutParameter
  <2>8. CASE UNCHANGED vars
    BY <2>8 DEF vars
  <2> QED
    BY <2>1, <2>2, <2>3, <2>4, <2>5, <2>6, <2>7, <2>8 DEF Next
<1>3. ScanInv => NoKeyOverlooked
  BY DEF ScanInv
<1> QED
  BY <1>1, <1>2, <1>3, TypeCorrect, PTL DEF Spec

---------------------------------------------------------------------------
(* The legacy key.                                                          *)

\* What the process knows is an id it has been configured with.
KnownIdsConfigured == {configEntry, kmsEncryptionKeyId} \subseteq configured \cup {None}

\* A request is where the flags have sent it, and an id is there if the
\* request may come to need one.
LegacyKeyAtHand ==
  /\ request.step = "scanning" => flags.keyRotation
  /\ request.step = "legacy" => RequireDecryptionKeyId
  /\ request.step \in {"scanning", "legacy"} /\ RequireDecryptionKeyId => configEntry # None

LegacyInv == KnownIdsConfigured /\ LegacyKeyAtHand /\ LegacyKeyHonoured

(* A request encrypted with the legacy key is refused only by a process that *)
(* has been configured with another one, whatever the feature flags.         *)
THEOREM LegacyKeyHonouredCorrect == Spec => []LegacyKeyHonoured
<1>1. Init => LegacyInv
  <2> SUFFICES ASSUME Init PROVE LegacyInv
    OBVIOUS
  <2>1. request.step = "idle"
    BY DEF Init
  <2> QED
    BY <2>1 DEF Init, LegacyInv, KnownIdsConfigured, LegacyKeyAtHand, LegacyKeyHonoured
<1>2. TypeOK /\ LegacyInv /\ [Next]_vars => LegacyInv'
  <2> SUFFICES ASSUME TypeOK, LegacyInv, [Next]_vars PROVE LegacyInv'
    OBVIOUS
  <2>0. request \in Request /\ parameter \in KmsKeys
    BY DEF TypeOK
  <2> USE DEF LegacyInv, KnownIdsConfigured, LegacyKeyAtHand, LegacyKeyHonoured,
          RequireDecryptionKeyId
  <2>1. ASSUME NEW key \in KmsKeys, NEW genuine \in BOOLEAN, StartRequest(key, genuine)
        PROVE  LegacyInv'
    BY <2>1, <2>0, NoneAssumption DEF StartRequest
  <2>2. CASE TryAlias
    BY <2>2, <2>0 DEF TryAlias, TryNext, Unwrapped, AfterLastAlias, Request
  <2>3. CASE TryLegacyKey
    <3>1. KeptKeyId \in configured \cup {None} /\ KeptKeyId # None
      BY <2>3 DEF TryLegacyKey, KeptKeyId
    <3>2. KnownIdsConfigured'
      BY <2>3, <3>1 DEF TryLegacyKey
    <3>3. request'.step \in {"unwrapped", "Error"} /\ request'.key = request.key
      BY <2>3, <2>0 DEF TryLegacyKey, Unwrapped, Request
    <3>4. request'.step = "Error" /\ ~request'.disturbed => KeptKeyId # request.key
      BY <2>3, <2>0 DEF TryLegacyKey, Unwrapped, Request
    <3> QED
      BY <2>3, <3>1, <3>2, <3>3, <3>4 DEF TryLegacyKey
  <2>4. CASE GcmDecrypt
    BY <2>4, <2>0 DEF GcmDecrypt, Request
  <2>5. CASE EndProcess
    BY <2>5, <2>0 DEF EndProcess, Request
  <2>6. ASSUME NEW a \in Aliases, NEW key \in KmsKeys \cup {None}, UpdateAlias(a, key)
        PROVE  LegacyInv'
    <3>1. /\ request'.step = request.step /\ request'.key = request.key
          /\ request'.genuine = request.genuine /\ request'.disturbed = request.disturbed
      BY <2>6, <2>0 DEF UpdateAlias, Request
    <3> QED
      BY <2>6, <3>1 DEF UpdateAlias
  <2>7. ASSUME NEW key \in KmsKeys, PutParameter(key)
        PROVE  LegacyInv'
    BY <2>7 DEF PutParameter
  <2>8. CASE UNCHANGED vars
    BY <2>8 DEF vars
  <2> QED
    BY <2>1, <2>2, <2>3, <2>4, <2>5, <2>6, <2>7, <2>8 DEF Next
<1>3. LegacyInv => LegacyKeyHonoured
  BY DEF LegacyInv
<1> QED
  BY <1>1, <1>2, <1>3, TypeCorrect, PTL DEF Spec
===========================================================================
