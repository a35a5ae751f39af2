----------------------------- MODULE JwksCache -----------------------------
(* JwtVerifier: checks JWTs against the keys that a client publishes.       *)
(*                                                                          *)
(* The keys are fetched from the client's JWKS endpoint and kept in a       *)
(* module-level object, for as long as the process of the Lambda function   *)
(* lives, until the max-age of the answer has passed; any verification that *)
(* fails, whatever the reason, throws the kept keys away.  A process serves *)
(* one request at a time.  The module describes one process and one         *)
(* endpoint; processes share nothing, and endpoints have separate entries.  *)
(*                                                                          *)
(* The client is outside the repository: it may publish a key, and withdraw *)
(* it for good, at any time.                                                *)
EXTENDS Integers

CONSTANTS
  Keys,           \* the client's signing keys
  None,           \* a key that has not been withdrawn
  NoEntry,        \* nothing is kept for the endpoint
  MaxAge,         \* the max-age of the endpoint's answers, in ticks
  LambdaTimeout,  \* how long the platform lets an invocation run, in ticks
  MaxTime         \* bound: the clock stops here

ASSUME NumbersAssumption == {MaxAge, LambdaTimeout, MaxTime} \subseteq Nat
ASSUME NoneAssumption == None \notin Nat

Entry == [jwks: SUBSET Keys, expiry: Int]
ASSUME NoEntryAssumption == NoEntry \notin Entry

VARIABLES
  now,          \* Date.now()
  published,    \* the keys at the endpoint
  withdrawnAt,  \* [Keys -> when the key was withdrawn, or None]
  cachedJWKS,   \* the process's entry for the endpoint
  request,      \* the verification that the process is running, or ran last
  strikes       \* [Keys -> how often a JWT was refused though its key was published]

vars == <<now, published, withdrawnAt, cachedJWKS, request, strikes>>

\* key signed the JWT; jwks are the keys to check it with; valid says that
\* the key was published when the JWT arrived, at start.
Verification ==
  [step: {"idle", "fetching", "storing", "checking", "accepted"},
   key: Keys, jwks: SUBSET Keys, start: Nat, valid: BOOLEAN]

InFlight == request.step \in {"fetching", "storing", "checking"}

Init ==
  /\ now = 0
  /\ published \in SUBSET Keys
  /\ withdrawnAt = [k \in Keys |-> None]
  /\ cachedJWKS = NoEntry
  /\ request \in [step: {"idle"}, key: Keys, jwks: {{}}, start: {0}, valid: {FALSE}]
  /\ strikes = [k \in Keys |-> 0]

\* A wrong variant, for the mutants: an entry never goes stale.
EntryExists(entry, time) == entry # NoEntry

\* Whether the entry may be used.
EntryIsFresh(entry, time) == entry # NoEntry /\ entry.expiry >= time

\* A wrong variant, for the mutants: no default for the max-age.
NoDefaultMaxAge(time, hasMaxAge) == IF hasMaxAge THEN time + MaxAge ELSE None

\* parseCacheControlHeader: without a max-age, the entry is stale at once.
ParseCacheControlHeader(time, hasMaxAge) == IF hasMaxAge THEN time + MaxAge ELSE time - 1

\* A JWT signed with key k is to be verified.
StartVerify(k) ==
  /\ ~InFlight
  /\ request' = [step |-> IF EntryIsFresh(cachedJWKS, now) THEN "checking" ELSE "fetching",
                 key |-> k,
                 jwks |-> IF EntryIsFresh(cachedJWKS, now) THEN cachedJWKS.jwks ELSE {},
                 start |-> now,
                 valid |-> k \in published]
  /\ UNCHANGED <<now, published, withdrawnAt, cachedJWKS, strikes>>

\* The endpoint answers with the keys it has.
Fetch ==
  /\ request.step = "fetching"
  /\ request' = [request EXCEPT !.step = "storing", !.jwks = published]
  /\ UNCHANGED <<now, published, withdrawnAt, cachedJWKS, strikes>>

\* The answer has arrived, with or without a max-age, and is kept.
StoreJWKS(hasMaxAge) ==
  /\ request.step = "storing"
  /\ cachedJWKS' = [jwks |-> request.jwks, expiry |-> ParseCacheControlHeader(now, hasMaxAge)]
  /\ request' = [request EXCEPT !.step = "checking"]
  /\ UNCHANGED <<now, published, withdrawnAt, strikes>>

\* The signature and the claims are right.
Accept ==
  /\ request.step = "checking"
  /\ request.key \in request.jwks
  /\ request' = [request EXCEPT !.step = "accepted"]
  /\ UNCHANGED <<now, published, withdrawnAt, cachedJWKS, strikes>>

\* A wrong variant of clearJWKSCacheForCurrentEndpoint, for the mutants.
KeepJWKSCache == UNCHANGED cachedJWKS

ClearJWKSCacheForCurrentEndpoint == cachedJWKS' = NoEntry

\* No key fits the signature.
RefuseSignature ==
  /\ request.step = "checking"
  /\ request.key \notin request.jwks
  /\ request' = [request EXCEPT !.step = "idle"]
  /\ ClearJWKSCacheForCurrentEndpoint
  /\ strikes' = IF request.valid /\ request.key \in published
                THEN [strikes EXCEPT ![request.key] = @ + 1]
                ELSE strikes
  /\ UNCHANGED <<now, published, withdrawnAt>>

\* The endpoint cannot be reached or answers with an error, or a claim is
\* wrong or missing.
FailVerify ==
  /\ InFlight
  /\ request' = [request EXCEPT !.step = "idle"]
  /\ ClearJWKSCacheForCurrentEndpoint
  /\ UNCHANGED <<now, published, withdrawnAt, strikes>>

\* The platform ends the process, or stops the invocation and so ends it; the
\* next JWT finds a new one.
EndProcess ==
  /\ request' = [request EXCEPT !.step = "idle"]
  /\ cachedJWKS' = NoEntry
  /\ UNCHANGED <<now, published, withdrawnAt, strikes>>

Publish(k) ==
  /\ k \notin published
  /\ withdrawnAt[k] = None
  /\ published' = published \cup {k}
  /\ UNCHANGED <<now, withdrawnAt, cachedJWKS, request, strikes>>

Withdraw(k) ==
  /\ k \in published
  /\ published' = published \ {k}
  /\ withdrawnAt' = [withdrawnAt EXCEPT ![k] = now]
  /\ UNCHANGED <<now, cachedJWKS, request, strikes>>

\* Time passes, but no invocation outlives LambdaTimeout.
Tick ==
  /\ now < MaxTime
  /\ InFlight => now < request.start + LambdaTimeout
  /\ now' = now + 1
  /\ UNCHANGED <<published, withdrawnAt, cachedJWKS, request, strikes>>

Next ==
  \/ \E k \in Keys : StartVerify(k) \/ Publish(k) \/ Withdraw(k)
  \/ Fetch
  \/ \E hasMaxAge \in BOOLEAN : StoreJWKS(hasMaxAge)
  \/ Accept
  \/ RefuseSignature
  \/ FailVerify
  \/ EndProcess
  \/ Tick

Spec == Init /\ [][Next]_vars

---------------------------------------------------------------------------
\* Every variable has its type.
TypeOK ==
  /\ now \in Nat
  /\ published \subseteq Keys
  /\ withdrawnAt \in [Keys -> Nat \cup {None}]
  /\ cachedJWKS \in Entry \cup {NoEntry}
  /\ request \in Verification
  /\ strikes \in [Keys -> Nat]

\* The caching costs a key that the client publishes at most one refused JWT
\* over the whole life of the processes that follow one another: the refusal
\* throws away the stale keys, and all that are kept from then on include it.
OneStrikePerKey == \A k \in Keys : strikes[k] <= 1

\* A key stops working soon after it is withdrawn: the last JWT accepted with
\* it arrived within the max-age plus the time an invocation may take.
WithdrawnKeysLapse ==
  request.step = "accepted" /\ withdrawnAt[request.key] # None
  => request.start <= withdrawnAt[request.key] + LambdaTimeout + MaxAge
===========================================================================
