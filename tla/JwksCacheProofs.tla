-------------------------- MODULE JwksCacheProofs --------------------------
(* Proofs about JwksCache.                                                  *)
EXTENDS JwksCache, TLAPS

LEMMA TypeInit == Init => TypeOK
  <1> SUFFICES ASSUME Init PROVE TypeOK
    OBVIOUS
  <1>1. request \in Verification
    <2>1. request \in [step: {"idle"}, key: Keys, jwks: {{}}, start: {0}, valid: {FALSE}]
      BY DEF Init
    <2>2. {} \in SUBSET Keys /\ 0 \in Nat
      OBVIOUS
    <2> QED BY <2>1, <2>2 DEF Verification
  <1> QED BY <1>1 DEF Init, TypeOK

LEMMA TypeStep == TypeOK /\ [Next]_vars => TypeOK'
  <1> SUFFICES ASSUME TypeOK, [Next]_vars PROVE TypeOK'
    OBVIOUS
  <1> USE DEF TypeOK
  <1>1. /\ now \in Int
        /\ \A hasMaxAge \in BOOLEAN : ParseCacheControlHeader(now, hasMaxAge) \in Int
    BY NumbersAssumption DEF ParseCacheControlHeader
  <1>2. ASSUME NEW k \in Keys, StartVerify(k) PROVE TypeOK'
    <2>1. cachedJWKS # NoEntry => cachedJWKS.jwks \in SUBSET Keys
      BY DEF Entry
    <2>2. request' \in Verification
      BY <1>2, <2>1 DEF StartVerify, Verification, EntryIsFresh
    <2> QED BY <1>2, <2>2 DEF StartVerify
  <1>3. ASSUME NEW k \in Keys, Publish(k) \/ Withdraw(k) PROVE TypeOK'
    BY <1>3 DEF Publish, Withdraw
  <1>4. CASE Fetch
    BY <1>4 DEF Fetch, Verification
  <1>5. ASSUME NEW hasMaxAge \in BOOLEAN, StoreJWKS(hasMaxAge) PROVE TypeOK'
    BY <1>1, <1>5 DEF StoreJWKS, Verification, Entry
  <1>6. CASE Accept
    BY <1>6 DEF Accept, Verification
  <1>7. CASE RefuseSignature
    BY <1>7 DEF RefuseSignature, ClearJWKSCacheForCurrentEndpoint, Verification
  <1>8. CASE FailVerify
    BY <1>8 DEF FailVerify, ClearJWKSCacheForCurrentEndpoint, Verification
  <1>9. CASE EndProcess
    BY <1>9 DEF EndProcess, Verification
  <1>10. CASE Tick
    BY <1>10 DEF Tick
  <1>11. CASE UNCHANGED vars
    BY <1>11 DEF vars
  <1> QED BY <1>2, <1>3, <1>4, <1>5, <1>6, <1>7, <1>8, <1>9, <1>10, <1>11 DEF Next

\* Type correctness of the cache, for any keys, max-age and timeout.
THEOREM TypeCorrect == Spec => []TypeOK
  BY TypeInit, TypeStep, PTL DEF Spec

---------------------------------------------------------------------------
(* A published key is refused at most once.                                 *)

\* Once a published key has been refused, the stale keys are gone: whatever
\* is kept or about to be used or kept includes it, as long as it is
\* published.  A key that has been withdrawn is never published again.
StruckKeysKept ==
  \A k \in Keys : strikes[k] # 0 =>
    /\ strikes[k] = 1
    /\ k \in published \/ withdrawnAt[k] # None
    /\ k \in published =>
         /\ cachedJWKS # NoEntry => k \in cachedJWKS.jwks
         /\ request.step \in {"storing", "checking"} => k \in request.jwks

LEMMA StruckKeysStep == TypeOK /\ StruckKeysKept /\ [Next]_vars => StruckKeysKept'
  <1> SUFFICES ASSUME TypeOK, StruckKeysKept, [Next]_vars PROVE StruckKeysKept'
    OBVIOUS
  <1> USE DEF TypeOK, StruckKeysKept, Verification
  <1>1. ASSUME NEW k \in Keys, StartVerify(k) PROVE StruckKeysKept'
    BY <1>1 DEF StartVerify, EntryIsFresh
  <1>2. ASSUME NEW k \in Keys, Publish(k) PROVE StruckKeysKept'
    BY <1>2 DEF Publish
  <1>3. ASSUME NEW k \in Keys, Withdraw(k) PROVE StruckKeysKept'
    BY <1>3, NoneAssumption DEF Withdraw
  <1>4. CASE Fetch
    BY <1>4 DEF Fetch
  <1>5. ASSUME NEW hasMaxAge \in BOOLEAN, StoreJWKS(hasMaxAge) PROVE StruckKeysKept'
    BY <1>5 DEF StoreJWKS
  <1>6. CASE Accept
    BY <1>6 DEF Accept
  <1>7. CASE RefuseSignature
    BY <1>7 DEF RefuseSignature, ClearJWKSCacheForCurrentEndpoint
  <1>8. CASE FailVerify \/ EndProcess
    BY <1>8 DEF FailVerify, EndProcess, ClearJWKSCacheForCurrentEndpoint
  <1>9. CASE Tick \/ UNCHANGED vars
    BY <1>9 DEF Tick, vars
  <1> QED BY <1>1, <1>2, <1>3, <1>4, <1>5, <1>6, <1>7, <1>8, <1>9 DEF Next

\* However often keys rotate and processes end, the cache makes the API refuse
\* a published key at most once.
THEOREM OneStrikePerKeyCorrect == Spec => []OneStrikePerKey
  <1>1. Init => StruckKeysKept
    <2> SUFFICES ASSUME Init, NEW k \in Keys PROVE strikes[k] = 0
      BY DEF StruckKeysKept
    <2> QED BY DEF Init
  <1>2. TypeOK /\ StruckKeysKept => OneStrikePerKey
    <2> SUFFICES ASSUME TypeOK, StruckKeysKept, NEW k \in Keys PROVE strikes[k] <= 1
      BY DEF OneStrikePerKey
    <2>1. strikes[k] \in {0, 1}
      BY DEF TypeOK, StruckKeysKept
    <2> QED BY <2>1
  <1> QED BY <1>1, <1>2, TypeCorrect, StruckKeysStep, PTL DEF Spec

---------------------------------------------------------------------------
(* A withdrawn key lapses.                                                  *)

\* What is kept is at most MaxAge from stale, and no request is older than
\* the platform allows.
AgesBounded ==
  /\ cachedJWKS # NoEntry => cachedJWKS.expiry <= now + MaxAge
  /\ request.start <= now
  /\ InFlight => now <= request.start + LambdaTimeout

\* A withdrawn key that is still kept, or still about to be kept or used, was
\* fetched before it was withdrawn.
WithdrawnKeysDated ==
  \A k \in Keys :
    /\ k \in published => withdrawnAt[k] = None
    /\ withdrawnAt[k] # None =>
         /\ cachedJWKS # NoEntry /\ k \in cachedJWKS.jwks
              => cachedJWKS.expiry <= withdrawnAt[k] + LambdaTimeout + MaxAge
         /\ request.step = "storing" /\ k \in request.jwks
              => request.start <= withdrawnAt[k]
         /\ request.step = "checking" /\ k \in request.jwks
              => request.start <= withdrawnAt[k] + LambdaTimeout + MaxAge
         /\ request.step = "accepted" /\ k = request.key
              => request.start <= withdrawnAt[k] + LambdaTimeout + MaxAge

LEMMA AgesStep == TypeOK /\ AgesBounded /\ [Next]_vars => AgesBounded'
  <1> SUFFICES ASSUME TypeOK, AgesBounded, [Next]_vars PROVE AgesBounded'
    OBVIOUS
  <1> USE NumbersAssumption DEF TypeOK, AgesBounded, InFlight, Verification, Entry
  <1>1. ASSUME NEW k \in Keys, StartVerify(k) PROVE AgesBounded'
    BY <1>1 DEF StartVerify
  <1>2. ASSUME NEW k \in Keys, Publish(k) \/ Withdraw(k) PROVE AgesBounded'
    BY <1>2 DEF Publish, Withdraw
  <1>3. CASE Fetch
    BY <1>3 DEF Fetch
  <1>4. ASSUME NEW hasMaxAge \in BOOLEAN, StoreJWKS(hasMaxAge) PROVE AgesBounded'
    BY <1>4 DEF StoreJWKS, ParseCacheControlHeader
  <1>5. CASE Accept
    BY <1>5 DEF Accept
  <1>6. CASE RefuseSignature \/ FailVerify \/ EndProcess
    BY <1>6 DEF RefuseSignature, FailVerify, EndProcess, ClearJWKSCacheForCurrentEndpoint
  <1>7. CASE Tick
    BY <1>7 DEF Tick
  <1>8. CASE UNCHANGED vars
    BY <1>8 DEF vars
  <1> QED BY <1>1, <1>2, <1>3, <1>4, <1>5, <1>6, <1>7, <1>8 DEF Next

LEMMA WithdrawnKeysStep ==
  TypeOK /\ AgesBounded /\ WithdrawnKeysDated /\ [Next]_vars => WithdrawnKeysDated'
  <1> SUFFICES ASSUME TypeOK, AgesBounded, WithdrawnKeysDated, [Next]_vars
               PROVE  WithdrawnKeysDated'
    OBVIOUS
  <1> USE NumbersAssumption, NoneAssumption
      DEF TypeOK, AgesBounded, WithdrawnKeysDated, InFlight, Verification, Entry
  <1>1. ASSUME NEW k \in Keys, StartVerify(k) PROVE WithdrawnKeysDated'
    BY <1>1 DEF StartVerify, EntryIsFresh
  <1>2. ASSUME NEW k \in Keys, Publish(k) PROVE WithdrawnKeysDated'
    BY <1>2 DEF Publish
  <1>3. ASSUME NEW k \in Keys, Withdraw(k) PROVE WithdrawnKeysDated'
    BY <1>3 DEF Withdraw
  <1>4. CASE Fetch
    BY <1>4 DEF Fetch
  <1>5. ASSUME NEW hasMaxAge \in BOOLEAN, StoreJWKS(hasMaxAge) PROVE WithdrawnKeysDated'
    BY <1>5 DEF StoreJWKS, ParseCacheControlHeader
  <1>6. CASE Accept
    BY <1>6 DEF Accept
  <1>7. CASE RefuseSignature \/ FailVerify \/ EndProcess
    BY <1>7 DEF RefuseSignature, FailVerify, EndProcess, ClearJWKSCacheForCurrentEndpoint
  <1>8. CASE Tick \/ UNCHANGED vars
    BY <1>8 DEF Tick, vars
  <1> QED BY <1>1, <1>2, <1>3, <1>4, <1>5, <1>6, <1>7, <1>8 DEF Next

\* No JWT is accepted that arrived more than LambdaTimeout + MaxAge after the
\* client withdrew the key that signed it.
THEOREM WithdrawnKeysLapseCorrect == Spec => []WithdrawnKeysLapse
  <1>1. Init => AgesBounded /\ WithdrawnKeysDated
    BY NumbersAssumption, NoneAssumption DEF Init, AgesBounded, WithdrawnKeysDated, InFlight
  <1>2. TypeOK /\ WithdrawnKeysDated => WithdrawnKeysLapse
    BY DEF TypeOK, Verification, WithdrawnKeysDated, WithdrawnKeysLapse
  <1> QED BY <1>1, <1>2, TypeCorrect, AgesStep, WithdrawnKeysStep, PTL DEF Spec
===========================================================================
