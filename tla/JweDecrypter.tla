---------------------------- MODULE JweDecrypter ----------------------------
(* JweDecrypter: the first step of SessionFn, which opens the encrypted      *)
(* request of a client.                                                      *)
(*                                                                           *)
(* KMS holds the private keys and unwraps the content key of the request.    *)
(* With key rotation the three aliases are tried in turn, by a request to    *)
(* KMS each, and whatever goes wrong with one leads to the next; without it, *)
(* or as a last resort, the legacy key is used, whose id is a parameter that *)
(* the decrypter reads once in the life of its process.                      *)
(*                                                                           *)
(* The aliases are moved by whoever rotates the keys, outside the            *)
(* repository, at any time.  A key is handed on when an older alias is       *)
(* pointed at it before the one that holds it is pointed elsewhere.          *)
EXTENDS Naturals, Sequences

CONSTANTS
  KmsKeys,
  None        \* no key: an alias or a parameter that is not there

ASSUME NoneAssumption == None \notin KmsKeys

\* The states of a key, from the newest to the oldest, as the aliases name them.
Ages == [active |-> 1, inactive |-> 2, previous |-> 3]
Aliases == DOMAIN Ages

\* A wrong variant, for the mutants: the oldest first.
OldestFirst == <<"previous", "inactive", "active">>

DecryptionKeyAliases == <<"active", "inactive", "previous">>

VARIABLES
  flags,              \* the feature flags of the deployment
  alias,              \* [Aliases -> the key it points at, or None]
  parameter,          \* the id of the legacy key in the parameter store
  configEntry,        \* what ConfigService has of it, or None
  kmsEncryptionKeyId, \* what the decrypter has kept of it, or None
  configured,         \* the ids that were in force as requests reached this process
  request             \* the request that the process serves, or served last

vars == <<flags, alias, parameter, configEntry, kmsEncryptionKeyId, configured, request>>

\* key wraps the content key; genuine: the content has not been altered.
\* position is that of the alias to try next.  disturbed: KMS has failed on
\* a key that it has.  holders are the aliases that have held the key since
\* the request arrived, or have been handed it by one that did.
Request ==
  [step: {"idle", "scanning", "legacy", "unwrapped", "decrypted", "Error", "JweDecrypterError"},
   key: KmsKeys,
   genuine: BOOLEAN,
   position: 1..Len(DecryptionKeyAliases),
   disturbed: BOOLEAN,
   holders: SUBSET Aliases]

Init ==
  /\ flags \in [keyRotation: BOOLEAN, legacyKeyFallback: BOOLEAN]
  /\ alias \in [Aliases -> KmsKeys \cup {None}]
  /\ parameter \in KmsKeys
  /\ configEntry = None
  /\ kmsEncryptionKeyId = None
  /\ configured = {}
  /\ request \in [step: {"idle"}, key: KmsKeys, genuine: {TRUE}, position: {1},
                  disturbed: {FALSE}, holders: {{}}]

InFlight == request.step \in {"scanning", "legacy", "unwrapped"}

\* A wrong variant, for the mutants: the fallback is forgotten.
RequiredWithoutRotation == ~flags.keyRotation

\* requireDecryptionKeyId
RequireDecryptionKeyId == ~flags.keyRotation \/ flags.legacyKeyFallback

\* A request arrives and the configuration is read, then decryptJwe parses it
\* and fetchKey chooses a way.
StartRequest(key, genuine) ==
  /\ ~InFlight
  /\ configured' = configured \cup {parameter}
  /\ configEntry' = IF RequireDecryptionKeyId THEN parameter ELSE configEntry
  /\ request' = [step |-> IF flags.keyRotation THEN "scanning" ELSE "legacy",
                 key |-> key, genuine |-> genuine, position |-> 1, disturbed |-> FALSE,
                 holders |-> {a \in Aliases : alias[a] = key}]
  /\ UNCHANGED <<flags, alias, parameter, kmsEncryptionKeyId>>

---------------------------------------------------------------------------
(* fetchKeyUsingAlias and fetchKeyUsingKeyId.                               *)

Holds(a) == alias[a] = request.key

Unwrapped == request' = [request EXCEPT !.step = "unwrapped"]

MoreAliases == request.position < Len(DecryptionKeyAliases)

\* A wrong variant, for the mutants: the loop runs off the list.
PositionPastLast == request.position + 1

NextPosition == IF MoreAliases THEN request.position + 1 ELSE request.position

\* What follows the last alias: the legacy key, if there is that fallback.
AfterLastAlias == IF flags.legacyKeyFallback THEN "legacy" ELSE "Error"

TryNext(disturbed) ==
  request' = [request EXCEPT !.step = IF MoreAliases THEN "scanning" ELSE AfterLastAlias,
                             !.position = NextPosition,
                             !.disturbed = disturbed]

\* One turn of the loop: any error of KMS is taken for the wrong key.
TryAlias ==
  LET a == DecryptionKeyAliases[request.position]
  IN /\ request.step = "scanning"
     /\ \/ Holds(a) /\ Unwrapped
        \/ TryNext(request.disturbed \/ Holds(a))
     /\ UNCHANGED <<flags, alias, parameter, configEntry, kmsEncryptionKeyId, configured>>

\* The key id that getEncryptionKeyId gave first.
KeptKeyId == IF kmsEncryptionKeyId = None THEN configEntry ELSE kmsEncryptionKeyId

\* Without an id getConfigEntry throws, and KMS is not asked.
TryLegacyKey ==
  /\ request.step = "legacy"
  /\ kmsEncryptionKeyId' = KeptKeyId
  /\ \/ KeptKeyId = request.key /\ Unwrapped
     \/ request' = [request EXCEPT !.step = "Error", !.disturbed = @ \/ KeptKeyId = request.key]
  /\ UNCHANGED <<flags, alias, parameter, configEntry, configured>>

\* gcmDecrypt.  An altered header is no JSON, which is another Error.
GcmDecrypt ==
  /\ request.step = "unwrapped"
  /\ \/ request.genuine /\ request' = [request EXCEPT !.step = "decrypted"]
     \/ /\ ~request.genuine
        /\ \E error \in {"Error", "JweDecrypterError"} : request' = [request EXCEPT !.step = error]
  /\ UNCHANGED <<flags, alias, parameter, configEntry, kmsEncryptionKeyId, configured>>

---------------------------------------------------------------------------
(* The surroundings.                                                        *)

\* The platform ends the process, which may be that of another deployment.
EndProcess ==
  /\ request' = [request EXCEPT !.step = "idle"]
  /\ flags' \in [keyRotation: BOOLEAN, legacyKeyFallback: BOOLEAN]
  /\ configEntry' = None
  /\ kmsEncryptionKeyId' = None
  /\ configured' = {}
  /\ UNCHANGED <<alias, parameter>>

\* The alias to is handed the key by one that is no older.
HandedOn(to) == \E from \in request.holders : Ages[from] <= Ages[to]

UpdateAlias(a, key) ==
  /\ alias' = [alias EXCEPT ![a] = key]
  /\ request' = [request EXCEPT !.holders =
                   IF key = request.key
                   THEN IF HandedOn(a) THEN @ \cup {a} ELSE @
                   ELSE @ \ {a}]
  /\ UNCHANGED <<flags, parameter, configEntry, kmsEncryptionKeyId, configured>>

PutParameter(key) ==
  /\ parameter' = key
  /\ UNCHANGED <<flags, alias, configEntry, kmsEncryptionKeyId, configured, request>>

Next ==
  \/ \E key \in KmsKeys, genuine \in BOOLEAN : StartRequest(key, genuine)
  \/ TryAlias
  \/ TryLegacyKey
  \/ GcmDecrypt
  \/ EndProcess
  \/ \E a \in Aliases, key \in KmsKeys \cup {None} : UpdateAlias(a, key)
  \/ \E key \in KmsKeys : PutParameter(key)

Spec == Init /\ [][Next]_vars

---------------------------------------------------------------------------
\* Every variable has its type.
TypeOK ==
  /\ flags \in [keyRotation: BOOLEAN, legacyKeyFallback: BOOLEAN]
  /\ alias \in [Aliases -> KmsKeys \cup {None}]
  /\ parameter \in KmsKeys
  /\ configEntry \in KmsKeys \cup {None}
  /\ kmsEncryptionKeyId \in KmsKeys \cup {None}
  /\ configured \subseteq KmsKeys
  /\ request \in Request

\* While the keys are handed on from newer to older aliases, the scan finds
\* the key of the request: it gives up only if an alias let go of the key
\* without handing it on, no alias held it, or KMS failed.
NoKeyOverlooked ==
  /\ flags.keyRotation
  /\ request.step \in {"legacy", "Error"}
  /\ request.genuine
  /\ ~request.disturbed
  => request.holders = {}

\* Wherever the legacy key may be used, a request encrypted with it is
\* refused only by a process that has been configured with another one: the
\* id is asked for when it may be needed, and kept is an id that was in force.
LegacyKeyHonoured ==
  /\ ~flags.keyRotation \/ flags.legacyKeyFallback
  /\ request.step = "Error"
  /\ request.genuine
  /\ ~request.disturbed
  => configured # {request.key}
===========================================================================
