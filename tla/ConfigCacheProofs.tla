------------------------- MODULE ConfigCacheProofs -------------------------
(* Proofs about ConfigCache, for any parameters, values, times to live and   *)
(* time limit.                                                               *)
EXTENDS ConfigCache, TLAPS

(* An answer of the store has one of three shapes.                           *)
LEMMA Answers ==
  request.answers \in UNION {[keys -> Values \cup {None}] : keys \in {{}, CommonKeys, ClientKeys}}
  <=> \/ request.answers \in [{} -> Values \cup {None}]
      \/ request.answers \in [CommonKeys -> Values \cup {None}]
      \/ request.answers \in [ClientKeys -> Values \cup {None}]
OBVIOUS

\* What a read has been answered is about the parameters it asked for, and
\* a request is served with a value for each common parameter.
AnswersAsAsked ==
  /\ request.step = "commonAnswered" =>
       /\ request.answers \in [CommonKeys -> Values \cup {None}]
       /\ request.fetched \subseteq CommonKeys
  /\ request.step = "clientAnswered" =>
       /\ request.answers \in [ClientKeys -> Values \cup {None}]
       /\ request.fetched \subseteq ClientKeys
  /\ request.step \in {"client", "clientAnswered", "serving"} =>
       configEntries \in [CommonKeys -> Values]

TypeInv == TypeOK /\ AnswersAsAsked

(* An answer with a value for every parameter is a function to values.       *)
LEMMA FoundAnswers ==
  ASSUME NEW keys, request.answers \in [keys -> Values \cup {None}], AllFound(request.answers)
  PROVE  request.answers \in [keys -> Values]
BY DEF AllFound

(* What the provider keeps of an answer are values with their expiry.        *)
LEMMA KeptAnswers ==
  ASSUME TypeInv, request.step \in {"commonAnswered", "clientAnswered"}, KeepAnswers
  PROVE  ssmCache' \in [Keys -> CacheEntry \cup {None}]
<1>1. now + ParameterTtl \in Nat
  BY NumbersAssumption DEF TypeInv, TypeOK
<1>2. ASSUME NEW p \in Keys
      PROVE  (IF p \in request.fetched /\ request.answers[p] # None
              THEN [value |-> request.answers[p], expiry |-> now + ParameterTtl]
              ELSE ssmCache[p]) \in CacheEntry \cup {None}
  <2>1. CASE p \in request.fetched /\ request.answers[p] # None
    <3>1. request.answers[p] \in Values
      BY <2>1 DEF TypeInv, AnswersAsAsked
    <3> QED
      BY <1>1, <2>1, <3>1 DEF CacheEntry
  <2>2. CASE ~(p \in request.fetched /\ request.answers[p] # None)
    BY <2>2 DEF TypeInv, TypeOK
  <2> QED
    BY <2>1, <2>2
<1> QED
  BY <1>2 DEF KeepAnswers

(* A parameter that stops being in force now is the only one that does.      *)
LEMMA RetiredStep ==
  ASSUME TypeOK, NEW p \in Keys, retiredAt' = Retired(p)
  PROVE  /\ retiredAt' \in [Keys -> [Values -> Nat \cup {None}]]
         /\ \A q \in Keys, v \in Values : retiredAt'[q][v] \in {retiredAt[q][v], now}
         /\ \A q \in Keys, v \in Values :
              retiredAt'[q][v] # retiredAt[q][v] => q = p /\ v = store[p]
<1>1. CASE store[p] = None
  BY <1>1 DEF Retired, TypeOK
<1>2. CASE store[p] # None
  BY <1>2 DEF Retired, TypeOK
<1> QED
  BY <1>1, <1>2

(* A read is answered about what it asked for.                               *)
LEMMA AskType ==
  ASSUME TypeInv, NEW keys \in {CommonKeys, ClientKeys},
         NEW next \in {"commonAnswered", "clientAnswered"}, Ask(keys, next)
  PROVE  /\ request' \in Request
         /\ request'.step = next
         /\ request'.answers \in [keys -> Values \cup {None}]
         /\ request'.fetched \subseteq keys
<1> DEFINE answer(p) == IF Kept(ssmCache[p], now) THEN ssmCache[p].value ELSE store[p]
           answers == [p \in keys |-> answer(p)]
           fetched == {p \in keys : ~Kept(ssmCache[p], now)}
<1>1. keys \subseteq Keys
  BY DEF Keys
<1>2. ASSUME NEW p \in keys PROVE answer(p) \in Values \cup {None}
  BY <1>1 DEF TypeInv, TypeOK, Kept, CacheEntry
<1>3. answers \in [keys -> Values \cup {None}]
  BY <1>2
<1>4. request' = [request EXCEPT !.step = next, !.answers = answers, !.fetched = fetched]
  BY DEF Ask
<1>5. answers \in UNION {[ks -> Values \cup {None}] : ks \in {{}, CommonKeys, ClientKeys}}
  BY <1>3
<1>6. fetched \in SUBSET Keys
  BY <1>1
<1>7. request \in Request
  BY DEF TypeInv, TypeOK
<1> HIDE DEF answers, fetched
<1>8. /\ request'.step = next /\ request'.answers = answers /\ request'.fetched = fetched
      /\ request' \in Request
  BY <1>4, <1>5, <1>6, <1>7 DEF Request
<1> QED
  BY <1>8, <1>3 DEF fetched

(* TypeInv is inductive: initially.                                          *)
LEMMA TypeInit == Init => TypeInv
<1> SUFFICES ASSUME Init PROVE TypeInv
  OBVIOUS
<1>1. NoAnswers \in [{} -> Values \cup {None}]
  BY DEF NoAnswers
<1>2. request \in Request
  BY <1>1 DEF Init, Request
<1> QED
  BY <1>2 DEF Init, TypeInv, TypeOK, AnswersAsAsked

(* TypeInv is inductive: every step.                                         *)
LEMMA TypeStep == TypeInv /\ [Next]_vars => TypeInv'
<1> SUFFICES ASSUME TypeInv, [Next]_vars PROVE TypeInv'
  OBVIOUS
<1>0. /\ request \in Request /\ now \in Nat
      /\ ssmCache \in [Keys -> CacheEntry \cup {None}]
      /\ store \in [Keys -> Values \cup {None}]
  BY DEF TypeInv, TypeOK
<1> USE DEF TypeInv, AnswersAsAsked, external
<1>1. CASE StartRequest
  <2>1. request' \in Request /\ request'.step = "common"
    BY <1>0, <1>1 DEF StartRequest, Request
  <2> QED
    BY <1>1, <2>1 DEF StartRequest, TypeOK
<1>2. CASE AskCommon
  <2>1. Ask(CommonKeys, "commonAnswered")
    BY <1>2 DEF AskCommon
  <2> QED
    BY <1>2, <2>1, AskType DEF AskCommon, TypeOK
<1>3. CASE ReceiveCommon
  <2>1. request.answers \in [CommonKeys -> Values \cup {None}]
    BY <1>3 DEF ReceiveCommon
  <2>2. ssmCache' \in [Keys -> CacheEntry \cup {None}]
    BY <1>3, KeptAnswers DEF ReceiveCommon
  <2>3. /\ request' \in Request
        /\ request'.step \in {"client", "serving", "idle"}
        /\ request'.step \in {"client", "serving"} =>
             AllFound(request.answers) /\ configEntries' = request.answers
        /\ configEntries' \in {configEntries, request.answers}
        /\ configEntries' # configEntries =>
             AllFound(request.answers) /\ configEntries' = request.answers
    BY <1>0, <1>3 DEF ReceiveCommon, Request
  <2>4. AllFound(request.answers) => request.answers \in [CommonKeys -> Values]
    BY <2>1, FoundAnswers
  <2> QED
    BY <1>3, <2>2, <2>3, <2>4 DEF ReceiveCommon, TypeOK
<1>4. CASE AskClient
  <2>1. Ask(ClientKeys, "clientAnswered")
    BY <1>4 DEF AskClient
  <2> QED
    BY <1>4, <2>1, AskType DEF AskClient, TypeOK
<1>5. CASE ReceiveClient
  <2>1. request.answers \in [ClientKeys -> Values \cup {None}] /\ request.start \in Nat
    BY <1>0, <1>5 DEF ReceiveClient, Request
  <2>2. ssmCache' \in [Keys -> CacheEntry \cup {None}]
    BY <1>5, KeptAnswers DEF ReceiveClient
  <2>3. request' \in Request /\ request'.step \in {"serving", "idle"}
    BY <1>0, <1>5 DEF ReceiveClient, Request
  <2>4. AllFound(request.answers) => request.answers \in [ClientKeys -> Values]
    BY <2>1, FoundAnswers
  <2>5. clientConfig' \in ClientConfig \cup {None}
    BY <1>5, <2>1, <2>4 DEF ReceiveClient, ClientConfig, TypeOK
  <2> QED
    BY <1>5, <2>2, <2>3, <2>5 DEF ReceiveClient, TypeOK
<1>6. CASE EndRequest
  <2>1. request' \in Request /\ request'.step = "idle"
    BY <1>0, <1>6 DEF EndRequest, Request
  <2> QED
    BY <1>6, <2>1 DEF EndRequest, TypeOK
<1>7. CASE EndProcess
  <2>1. request' \in Request /\ request'.step = "idle"
    BY <1>0, <1>7 DEF EndProcess, Request
  <2> QED
    BY <1>7, <2>1 DEF EndProcess, TypeOK
<1>8. ASSUME NEW p \in Keys, NEW v \in Values, Put(p, v) PROVE TypeInv'
  <2>1. retiredAt' \in [Keys -> [Values -> Nat \cup {None}]]
    BY <1>8, RetiredStep DEF Put
  <2>2. store' \in [Keys -> Values \cup {None}]
    BY <1>0, <1>8 DEF Put
  <2> QED
    BY <1>8, <2>1, <2>2 DEF Put, TypeOK
<1>9. ASSUME NEW p \in Keys, Remove(p) PROVE TypeInv'
  <2>1. retiredAt' \in [Keys -> [Values -> Nat \cup {None}]]
    BY <1>9, RetiredStep DEF Remove
  <2>2. store' \in [Keys -> Values \cup {None}]
    BY <1>0, <1>9 DEF Remove
  <2> QED
    BY <1>9, <2>1, <2>2 DEF Remove, TypeOK
<1>10. CASE Tick
  BY <1>0, <1>10 DEF Tick, TypeOK
<1>11. CASE UNCHANGED vars
  BY <1>11 DEF vars, TypeOK
<1> QED
  BY <1>1, <1>2, <1>3, <1>4, <1>5, <1>6, <1>7, <1>8, <1>9, <1>10, <1>11 DEF Next

(* Every variable keeps its type, and a request is served only with a value  *)
(* for each parameter it needs.                                              *)
THEOREM TypeCorrect == Spec => []TypeOK
<1>1. TypeInv => TypeOK
  BY DEF TypeInv
<1> QED
  BY <1>1, TypeInit, TypeStep, PTL DEF Spec

---------------------------------------------------------------------------
(* Recency.                                                                 *)

\* A value in force has not been retired.
InForceNow == \A p \in Keys : store[p] # None => retiredAt[p][store[p]] = None

\* A request arrived in the past, and is still within its time.
InTime ==
  /\ request.start <= now
  /\ InFlight => now <= request.start + LambdaTimeout

\* What the provider keeps was in force not long before it expires.
EntriesRecent ==
  \A p \in Keys : ssmCache[p] # None =>
    /\ ssmCache[p].expiry <= now + ParameterTtl
    /\ InForceSince(p, ssmCache[p].value, ssmCache[p].expiry)

\* What a request has been answered was in force not long before it arrived;
\* what came from the store, since it arrived.
AnswersRecent ==
  request.step \in {"commonAnswered", "clientAnswered"} =>
    \A p \in DOMAIN request.answers : request.answers[p] # None =>
      /\ InForceSince(p, request.answers[p], request.start)
      /\ p \in request.fetched /\ retiredAt[p][request.answers[p]] # None =>
           request.start <= retiredAt[p][request.answers[p]]

\* The request that loaded the configuration of the client is not of the future.
LoadedInThePast == clientConfig # None => clientConfig.loadedBy <= now

RecentInv ==
  /\ InForceNow
  /\ InTime
  /\ EntriesRecent
  /\ AnswersRecent
  /\ LoadedInThePast
  /\ CommonEntriesRecent
  /\ ClientConfigRecentWhenLoaded

(* What is answered to a read is in force, or is kept and not yet expired.   *)
LEMMA AskRecent ==
  ASSUME TypeInv, RecentInv, InFlight, NEW keys \in {CommonKeys, ClientKeys},
         NEW next \in {"commonAnswered", "clientAnswered"}, Ask(keys, next),
         UNCHANGED external
  PROVE  AnswersRecent' /\ request'.start = request.start
<1>1. keys \subseteq Keys
  BY DEF Keys
<1>2. request \in Request /\ request.start \in Nat /\ now \in Nat
      /\ ParameterTtl \in Nat /\ LambdaTimeout \in Nat
  BY NumbersAssumption DEF TypeInv, TypeOK, Request
<1>3. /\ request'.start = request.start
      /\ request'.answers =
           [p \in keys |-> IF Kept(ssmCache[p], now) THEN ssmCache[p].value ELSE store[p]]
      /\ request'.fetched = {p \in keys : ~Kept(ssmCache[p], now)}
  BY <1>2 DEF Ask, Request
<1>4. ASSUME NEW p \in keys, request'.answers[p] # None
      PROVE  /\ InForceSince(p, request'.answers[p], request.start)
             /\ p \in request'.fetched /\ retiredAt[p][request'.answers[p]] # None =>
                  request.start <= retiredAt[p][request'.answers[p]]
  <2>1. CASE Kept(ssmCache[p], now)
    <3>1. ssmCache[p] \in CacheEntry /\ ssmCache[p].value \in Values
          /\ ssmCache[p].expiry \in Nat /\ now <= ssmCache[p].expiry
      BY <1>1, <1>2, <2>1 DEF Kept, TypeInv, TypeOK, CacheEntry
    <3>2. retiredAt[p][ssmCache[p].value] \in Nat \cup {None}
      BY <1>1, <3>1 DEF TypeInv, TypeOK
    <3>3. InForceSince(p, ssmCache[p].value, ssmCache[p].expiry)
      BY <1>1, <2>1 DEF RecentInv, EntriesRecent, Kept
    <3>4. InForceSince(p, ssmCache[p].value, request.start)
      BY <1>2, <3>1, <3>2, <3>3 DEF InForceSince, RecentInv, InTime
    <3> QED
      BY <1>3, <2>1, <3>4
  <2>2. CASE ~Kept(ssmCache[p], now)
    <3>1. request'.answers[p] = store[p]
      BY <1>3, <2>2
    <3> QED
      BY <1>1, <1>4, <3>1 DEF RecentInv, InForceNow, InForceSince
  <2> QED
    BY <2>1, <2>2
<1>5. DOMAIN request'.answers = keys
  BY <1>3
<1> QED
  BY <1>3, <1>4, <1>5 DEF AnswersRecent, InForceSince, external

(* What the provider keeps of an answer expires ParameterTtl from now.       *)
LEMMA KeepRecent ==
  ASSUME TypeInv, RecentInv, request.step \in {"commonAnswered", "clientAnswered"},
         KeepAnswers, UNCHANGED external
  PROVE  EntriesRecent'
<1>1. request \in Request /\ request.start \in Nat /\ now \in Nat
      /\ ParameterTtl \in Nat /\ LambdaTimeout \in Nat
      /\ now <= request.start + LambdaTimeout
  BY NumbersAssumption DEF TypeInv, TypeOK, Request, RecentInv, InTime, InFlight
<1>2. ASSUME NEW p \in Keys, ssmCache'[p] # None
      PROVE  /\ ssmCache'[p].expiry <= now + ParameterTtl
             /\ InForceSince(p, ssmCache'[p].value, ssmCache'[p].expiry)
  <2>1. CASE p \in request.fetched /\ request.answers[p] # None
    <3>1. ssmCache'[p] = [value |-> request.answers[p], expiry |-> now + ParameterTtl]
      BY <2>1 DEF KeepAnswers
    <3>2. p \in DOMAIN request.answers /\ request.answers[p] \in Values
      BY <2>1 DEF TypeInv, AnswersAsAsked
    <3>3. retiredAt[p][request.answers[p]] \in Nat \cup {None}
      BY <3>2 DEF TypeInv, TypeOK
    <3>4. retiredAt[p][request.answers[p]] # None =>
            request.start <= retiredAt[p][request.answers[p]]
      BY <2>1, <3>2 DEF RecentInv, AnswersRecent
    <3>5. InForceSince(p, request.answers[p], now + ParameterTtl)
      BY <1>1, <3>3, <3>4 DEF InForceSince
    <3> QED
      BY <1>1, <3>1, <3>5
  <2>2. CASE ~(p \in request.fetched /\ request.answers[p] # None)
    <3>1. ssmCache'[p] = ssmCache[p]
      BY <2>2 DEF KeepAnswers
    <3> QED
      BY <1>2, <3>1 DEF RecentInv, EntriesRecent
  <2> QED
    BY <2>1, <2>2
<1> QED
  BY <1>2 DEF EntriesRecent, InForceSince, external

(* A value that is retired now was in force until now: no bound is missed.   *)
LEMMA RetireRecent ==
  ASSUME TypeInv, NEW p \in Keys, retiredAt' = Retired(p),
         NEW q \in Keys, NEW v \in Values, NEW time \in Nat,
         InForceSince(q, v, time), time <= now + ParameterTtl + LambdaTimeout
  PROVE  retiredAt'[q][v] # None => time <= retiredAt'[q][v] + ParameterTtl + LambdaTimeout
BY RetiredStep DEF InForceSince, TypeInv

(* A change of the store leaves every bound that has been met.               *)
LEMMA StoreStep ==
  ASSUME TypeInv, RecentInv, NEW p \in Keys, retiredAt' = Retired(p),
         UNCHANGED <<now, ssmCache, configEntries, clientConfig, request>>, InForceNow'
  PROVE  RecentInv'
<1>1. /\ request \in Request /\ request.start \in Nat /\ now \in Nat /\ request.start <= now
      /\ ParameterTtl \in Nat /\ LambdaTimeout \in Nat
  BY NumbersAssumption DEF TypeInv, TypeOK, Request, RecentInv, InTime
<1>2. InTime' /\ LoadedInThePast'
  BY DEF RecentInv, InTime, InFlight, LoadedInThePast
<1>3. ASSUME NEW q \in Keys, NEW v \in Values, NEW time \in Nat, InForceSince(q, v, time),
             time <= now + ParameterTtl + LambdaTimeout
      PROVE  InForceSince(q, v, time)'
  BY <1>3, RetireRecent DEF InForceSince
<1>4. EntriesRecent'
  <2>1. ASSUME NEW q \in Keys, ssmCache[q] # None
        PROVE  /\ ssmCache[q].expiry <= now + ParameterTtl
               /\ InForceSince(q, ssmCache[q].value, ssmCache[q].expiry)'
    <3>1. ssmCache[q].value \in Values /\ ssmCache[q].expiry \in Nat
          /\ ssmCache[q].expiry <= now + ParameterTtl
          /\ InForceSince(q, ssmCache[q].value, ssmCache[q].expiry)
      BY <2>1 DEF TypeInv, TypeOK, CacheEntry, RecentInv, EntriesRecent
    <3>2. ssmCache[q].expiry <= now + ParameterTtl + LambdaTimeout
      BY <1>1, <3>1
    <3> QED
      BY <1>3, <3>1, <3>2
  <2> QED
    BY <2>1 DEF EntriesRecent, InForceSince
<1>5. AnswersRecent'
  <2>1. ASSUME request.step \in {"commonAnswered", "clientAnswered"},
               NEW q \in DOMAIN request.answers, request.answers[q] # None
        PROVE  /\ InForceSince(q, request.answers[q], request.start)'
               /\ q \in request.fetched /\ retiredAt'[q][request.answers[q]] # None =>
                    request.start <= retiredAt'[q][request.answers[q]]
    <3>1. q \in Keys /\ request.answers[q] \in Values
      BY <2>1 DEF TypeInv, AnswersAsAsked, Keys
    <3>2. /\ InForceSince(q, request.answers[q], request.start)
          /\ q \in request.fetched /\ retiredAt[q][request.answers[q]] # None =>
               request.start <= retiredAt[q][request.answers[q]]
      BY <2>1 DEF RecentInv, AnswersRecent
    <3>3. request.start <= now + ParameterTtl + LambdaTimeout
      BY <1>1
    <3>4. InForceSince(q, request.answers[q], request.start)'
      BY <1>1, <1>3, <3>1, <3>2, <3>3
    <3>5. retiredAt'[q][request.answers[q]] \in {retiredAt[q][request.answers[q]], now}
      BY <3>1, RetiredStep DEF TypeInv
    <3> QED
      BY <1>1, <3>2, <3>4, <3>5
  <2> QED
    BY <2>1 DEF AnswersRecent, InForceSince
<1>6. CommonEntriesRecent'
  <2>1. ASSUME request.step \in {"client", "clientAnswered", "serving"}, NEW q \in CommonKeys
        PROVE  InForceSince(q, configEntries[q], request.start)'
    <3>1. q \in Keys /\ configEntries[q] \in Values
      BY <2>1 DEF TypeInv, AnswersAsAsked, Keys
    <3>2. InForceSince(q, configEntries[q], request.start)
      BY <2>1 DEF RecentInv, CommonEntriesRecent
    <3> QED
      BY <1>1, <1>3, <3>1, <3>2
  <2> QED
    BY <2>1 DEF CommonEntriesRecent, InForceSince
<1>7. ClientConfigRecentWhenLoaded'
  <2>1. ASSUME clientConfig # None, NEW q \in ClientKeys
        PROVE  InForceSince(q, clientConfig.entries[q], clientConfig.loadedBy)'
    <3>1. q \in Keys /\ clientConfig.entries[q] \in Values /\ clientConfig.loadedBy \in Nat
      BY <2>1 DEF TypeInv, TypeOK, ClientConfig, Keys
    <3>2. InForceSince(q, clientConfig.entries[q], clientConfig.loadedBy)
          /\ clientConfig.loadedBy <= now
      BY <2>1 DEF RecentInv, ClientConfigRecentWhenLoaded, LoadedInThePast
    <3> QED
      BY <1>1, <1>3, <3>1, <3>2
  <2> QED
    BY <2>1 DEF ClientConfigRecentWhenLoaded, InForceSince
<1> QED
  BY <1>2, <1>4, <1>5, <1>6, <1>7 DEF RecentInv

(* RecentInv is inductive: initially.                                        *)
LEMMA RecentInit == Init => RecentInv
<1> SUFFICES ASSUME Init PROVE RecentInv
  OBVIOUS
<1>1. \A p \in Keys : ssmCache[p] = None
  BY DEF Init
<1>2. InForceNow
  BY DEF Init, InForceNow
<1> QED
  BY <1>1, <1>2 DEF Init, RecentInv, InTime, InFlight, EntriesRecent, AnswersRecent,
     LoadedInThePast, CommonEntriesRecent, ClientConfigRecentWhenLoaded

(* RecentInv is inductive: every step.                                       *)
LEMMA RecentStep == TypeInv /\ RecentInv /\ [Next]_vars => RecentInv'
<1> SUFFICES ASSUME TypeInv, RecentInv, [Next]_vars PROVE RecentInv'
  OBVIOUS
<1>0. /\ request \in Request /\ request.start \in Nat /\ now \in Nat
      /\ ParameterTtl \in Nat /\ LambdaTimeout \in Nat
  BY NumbersAssumption DEF TypeInv, TypeOK, Request
<1> USE DEF external
<1>1. CASE StartRequest
  <2>1. request'.step = "common" /\ request'.start = now
    BY <1>0, <1>1 DEF StartRequest, Request
  <2> QED
    BY <1>0, <1>1, <2>1 DEF StartRequest, RecentInv, InForceNow, InTime, EntriesRecent,
       AnswersRecent, LoadedInThePast, CommonEntriesRecent, ClientConfigRecentWhenLoaded,
       InForceSince
<1>2. CASE AskCommon
  <2>1. request'.step = "commonAnswered" /\ InFlight
    BY <1>0, <1>2 DEF AskCommon, Ask, Request, InFlight
  <2>2. AnswersRecent' /\ request'.start = request.start
    BY <1>2, <2>1, AskRecent DEF AskCommon
  <2> QED
    BY <1>2, <2>1, <2>2 DEF AskCommon, RecentInv, InForceNow, InTime, EntriesRecent, InFlight,
       LoadedInThePast, CommonEntriesRecent, ClientConfigRecentWhenLoaded, InForceSince
<1>3. CASE ReceiveCommon
  <2>1. EntriesRecent'
    BY <1>3, KeepRecent DEF ReceiveCommon
  <2>2. /\ request'.start = request.start
        /\ request'.step \in {"client", "serving", "idle"}
        /\ request'.step \in {"client", "serving"} => configEntries' = request.answers
                                                    /\ AllFound(request.answers)
    BY <1>0, <1>3 DEF ReceiveCommon, Request
  <2>3. CommonEntriesRecent'
    <3>1. DOMAIN request.answers = CommonKeys
      BY <1>3 DEF ReceiveCommon, TypeInv, AnswersAsAsked
    <3> QED
      BY <1>3, <2>2, <3>1 DEF ReceiveCommon, RecentInv, AnswersRecent, AllFound,
         CommonEntriesRecent, InForceSince
  <2> QED
    BY <1>3, <2>1, <2>2, <2>3 DEF ReceiveCommon, RecentInv, InForceNow, InTime, InFlight,
       AnswersRecent, LoadedInThePast, ClientConfigRecentWhenLoaded, InForceSince
<1>4. CASE AskClient
  <2>1. request'.step = "clientAnswered" /\ InFlight
    BY <1>0, <1>4 DEF AskClient, Ask, Request, InFlight
  <2>2. AnswersRecent' /\ request'.start = request.start
    BY <1>4, <2>1, AskRecent DEF AskClient
  <2> QED
    BY <1>4, <2>1, <2>2 DEF AskClient, RecentInv, InForceNow, InTime, EntriesRecent, InFlight,
       LoadedInThePast, CommonEntriesRecent, ClientConfigRecentWhenLoaded, InForceSince
<1>5. CASE ReceiveClient
  <2>1. EntriesRecent'
    BY <1>5, KeepRecent DEF ReceiveClient
  <2>2. /\ request'.start = request.start
        /\ request'.step \in {"serving", "idle"}
    BY <1>0, <1>5 DEF ReceiveClient, Request
  <2>3. CommonEntriesRecent'
    BY <1>5, <2>2 DEF ReceiveClient, RecentInv, CommonEntriesRecent, InForceSince
  <2>4. CASE clientConfig' = clientConfig
    BY <1>5, <2>1, <2>2, <2>3, <2>4 DEF ReceiveClient, RecentInv, InForceNow, InTime, InFlight,
       AnswersRecent, LoadedInThePast, ClientConfigRecentWhenLoaded, InForceSince
  <2>5. CASE AllFound(request.answers)
             /\ clientConfig' = [entries |-> request.answers, loadedBy |-> request.start]
    <3>1. DOMAIN request.answers = ClientKeys
      BY <1>5 DEF ReceiveClient, TypeInv, AnswersAsAsked
    <3>2. ClientConfigRecentWhenLoaded' /\ LoadedInThePast'
      BY <1>5, <2>5, <3>1 DEF ReceiveClient, RecentInv, InTime, AnswersRecent, AllFound,
         ClientConfigRecentWhenLoaded, LoadedInThePast, InForceSince
    <3> QED
      BY <1>5, <2>1, <2>2, <2>3, <3>2 DEF ReceiveClient, RecentInv, InForceNow, InTime, InFlight,
         AnswersRecent
  <2> QED
    BY <1>5, <2>4, <2>5 DEF ReceiveClient
<1>6. CASE EndRequest
  <2>1. request'.step = "idle" /\ request'.start = request.start
    BY <1>0, <1>6 DEF EndRequest, Request
  <2> QED
    BY <1>6, <2>1 DEF EndRequest, RecentInv, InForceNow, InTime, InFlight, EntriesRecent,
       AnswersRecent, LoadedInThePast, CommonEntriesRecent, ClientConfigRecentWhenLoaded,
       InForceSince
<1>7. CASE EndProcess
  <2>1. request'.step = "idle" /\ request'.start = request.start
    BY <1>0, <1>7 DEF EndProcess, Request
  <2>2. EntriesRecent'
    BY <1>7 DEF EndProcess, EntriesRecent
  <2> QED
    BY <1>7, <2>1, <2>2 DEF EndProcess, RecentInv, InForceNow, InTime, InFlight,
       AnswersRecent, LoadedInThePast, CommonEntriesRecent, ClientConfigRecentWhenLoaded
<1>8. ASSUME NEW p \in Keys, NEW v \in Values, Put(p, v) PROVE RecentInv'
  <2>1. InForceNow'
    BY <1>8, RetiredStep DEF Put, InForceNow, RecentInv, TypeInv, TypeOK
  <2> QED
    BY <1>8, <2>1, StoreStep DEF Put
<1>9. ASSUME NEW p \in Keys, Remove(p) PROVE RecentInv'
  <2>1. InForceNow'
    BY <1>9, RetiredStep DEF Remove, InForceNow, RecentInv, TypeInv, TypeOK
  <2> QED
    BY <1>9, <2>1, StoreStep DEF Remove
<1>10. CASE Tick
  <2>1. InTime'
    BY <1>0, <1>10 DEF Tick, RecentInv, InTime, InFlight
  <2>2. EntriesRecent'
    <3>1. \A p \in Keys : ssmCache[p] # None => ssmCache[p].expiry \in Nat
      BY DEF TypeInv, TypeOK, CacheEntry
    <3> QED
      BY <1>0, <1>10, <3>1 DEF Tick, RecentInv, EntriesRecent, InForceSince
  <2>3. LoadedInThePast'
    <3>1. clientConfig # None => clientConfig.loadedBy \in Nat
      BY DEF TypeInv, TypeOK, ClientConfig
    <3> QED
      BY <1>0, <1>10, <3>1 DEF Tick, RecentInv, LoadedInThePast
  <2> QED
    BY <1>10, <2>1, <2>2, <2>3 DEF Tick, RecentInv, InForceNow, AnswersRecent,
       CommonEntriesRecent, ClientConfigRecentWhenLoaded, InForceSince
<1>11. CASE UNCHANGED vars
  BY <1>11 DEF vars, RecentInv, InForceNow, InTime, InFlight, EntriesRecent, AnswersRecent,
     LoadedInThePast, CommonEntriesRecent, ClientConfigRecentWhenLoaded, InForceSince
<1> QED
  BY <1>1, <1>2, <1>3, <1>4, <1>5, <1>6, <1>7, <1>8, <1>9, <1>10, <1>11 DEF Next

(* No request is served with common parameters that were retired more than   *)
(* ParameterTtl + LambdaTimeout before it arrived.                           *)
THEOREM CommonEntriesRecentCorrect == Spec => []CommonEntriesRecent
<1>1. RecentInv => CommonEntriesRecent
  BY DEF RecentInv
<1> QED
  BY <1>1, TypeInit, TypeStep, RecentInit, RecentStep, PTL DEF Spec

(* No configuration of a client was, when it was loaded, older than that.    *)
THEOREM ClientConfigRecentWhenLoadedCorrect == Spec => []ClientConfigRecentWhenLoaded
<1>1. RecentInv => ClientConfigRecentWhenLoaded
  BY DEF RecentInv
<1> QED
  BY <1>1, TypeInit, TypeStep, RecentInit, RecentStep, PTL DEF Spec
===========================================================================
