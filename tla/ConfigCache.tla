---------------------------- MODULE ConfigCache ----------------------------
(* ConfigService: the parameters that a process reads from the SSM parameter *)
(* store, and the two caches they pass through.                             *)
(*                                                                          *)
(* Every request reads the common parameters again; the SSM provider keeps  *)
(* each parameter it has read for ParameterTtl.  The parameters of a client *)
(* are read by the first request of that client and kept by ConfigService   *)
(* for as long as the process lives.  A read that misses a parameter fails  *)
(* the request, but what it did find stays in the provider's cache.         *)
(*                                                                          *)
(* A process serves one request at a time.  The module describes one        *)
(* process and one client.  The parameter store and the provider are        *)
(* outside the repository; a parameter may be put, replaced or removed at   *)
(* any time.                                                                *)
EXTENDS Naturals

CONSTANTS
  CommonKeys,     \* parameters that every request reads
  ClientKeys,     \* parameters of the client
  Values,         \* of parameters; each is in force at most once
  None,           \* no value: a missing parameter, an empty cache, a value in force
  ParameterTtl,   \* PARAMETER_TTL, in ticks
  LambdaTimeout,  \* how long the platform lets an invocation run, in ticks
  MaxTime         \* bound: the clock stops here

Keys == CommonKeys \cup ClientKeys

ASSUME NumbersAssumption == {ParameterTtl, LambdaTimeout, MaxTime} \subseteq Nat

CacheEntry == [value: Values, expiry: Nat]
ClientConfig == [entries: [ClientKeys -> Values], loadedBy: Nat]

ASSUME NoneAssumption ==
  None \notin Nat \cup Values \cup CacheEntry \cup ClientConfig \cup [CommonKeys -> Values]

VARIABLES
  now,
  store,          \* [Keys -> the value in the parameter store, or None]
  retiredAt,      \* [Keys -> [Values -> when it stopped being in force, or None]]
  ssmCache,       \* [Keys -> what the SSM provider keeps, or None]
  configEntries,  \* the common parameters, or None
  clientConfig,   \* those of the client and the arrival of the request that loaded them, or None
  request         \* the request that the process serves, or served last

vars == <<now, store, retiredAt, ssmCache, configEntries, clientConfig, request>>

external == <<now, store, retiredAt>>

\* keys are those the read asks for, answers what it has been answered and
\* fetched those that came from the parameter store.
Request ==
  [step: {"idle", "common", "commonAnswered", "client", "clientAnswered", "serving"},
   answers: UNION {[keys -> Values \cup {None}] : keys \in {{}, CommonKeys, ClientKeys}},
   fetched: SUBSET Keys,
   start: Nat]

NoAnswers == [p \in {} |-> None]

Init ==
  /\ now = 0
  /\ store \in [Keys -> Values \cup {None}]
  /\ retiredAt = [p \in Keys |-> [v \in Values |-> None]]
  /\ ssmCache = [p \in Keys |-> None]
  /\ configEntries = None
  /\ clientConfig = None
  /\ request = [step |-> "idle", answers |-> NoAnswers, fetched |-> {}, start |-> 0]

InFlight == request.step # "idle"

StartRequest ==
  /\ ~InFlight
  /\ request' = [request EXCEPT !.step = "common", !.start = now]
  /\ UNCHANGED <<external, ssmCache, configEntries, clientConfig>>

---------------------------------------------------------------------------
(* getSSMParameters: a request to the store for the parameters that are not *)
(* kept, and what is done with the answer.                                  *)

\* A wrong variant, for the mutants: what is kept never goes stale.
EverKept(entry, time) == entry # None

Kept(entry, time) == entry # None /\ entry.expiry >= time

\* The provider's answer from its cache and the store, at the time the store
\* answers.
Ask(keys, next) ==
  request' = [request EXCEPT
    !.step = next,
    !.answers = [p \in keys |-> IF Kept(ssmCache[p], now) THEN ssmCache[p].value ELSE store[p]],
    !.fetched = {p \in keys : ~Kept(ssmCache[p], now)}]

\* The provider keeps what the store has answered, parameter by parameter.
KeepAnswers ==
  ssmCache' = [p \in Keys |->
    IF p \in request.fetched /\ request.answers[p] # None
    THEN [value |-> request.answers[p], expiry |-> now + ParameterTtl]
    ELSE ssmCache[p]]

\* A wrong variant, for the mutants: a read succeeds whatever is missing.
NoneNeeded(answers) == TRUE

\* A read with a missing parameter throws.
AllFound(answers) == \A p \in DOMAIN answers : answers[p] # None

AskCommon ==
  /\ request.step = "common"
  /\ Ask(CommonKeys, "commonAnswered")
  /\ UNCHANGED <<external, ssmCache, configEntries, clientConfig>>

\* ConfigService.init, then hasClientConfig.
ReceiveCommon ==
  /\ request.step = "commonAnswered"
  /\ KeepAnswers
  /\ \/ /\ AllFound(request.answers)
        /\ configEntries' = request.answers
        /\ request' = [request EXCEPT !.step = IF clientConfig = None THEN "client" ELSE "serving"]
     \/ /\ ~AllFound(request.answers)
        /\ request' = [request EXCEPT !.step = "idle"]
        /\ UNCHANGED configEntries
  /\ UNCHANGED <<external, clientConfig>>

AskClient ==
  /\ request.step = "client"
  /\ Ask(ClientKeys, "clientAnswered")
  /\ UNCHANGED <<external, ssmCache, configEntries, clientConfig>>

\* ConfigService.initClientConfig
ReceiveClient ==
  /\ request.step = "clientAnswered"
  /\ KeepAnswers
  /\ \/ /\ AllFound(request.answers)
        /\ clientConfig' = [entries |-> request.answers, loadedBy |-> request.start]
        /\ request' = [request EXCEPT !.step = "serving"]
     \/ /\ ~AllFound(request.answers)
        /\ request' = [request EXCEPT !.step = "idle"]
        /\ UNCHANGED clientConfig
  /\ UNCHANGED <<external, configEntries>>

\* The request has been answered, or has failed for some other reason.
EndRequest ==
  /\ InFlight
  /\ request' = [request EXCEPT !.step = "idle"]
  /\ UNCHANGED <<external, ssmCache, configEntries, clientConfig>>

\* The platform ends the process; the next request finds a new one.
EndProcess ==
  /\ request' = [request EXCEPT !.step = "idle"]
  /\ ssmCache' = [p \in Keys |-> None]
  /\ configEntries' = None
  /\ clientConfig' = None
  /\ UNCHANGED external

---------------------------------------------------------------------------
(* The parameter store.                                                     *)

Retired(p) ==
  IF store[p] = None THEN retiredAt ELSE [retiredAt EXCEPT ![p][store[p]] = now]

Put(p, v) ==
  /\ v # store[p]
  /\ retiredAt[p][v] = None
  /\ store' = [store EXCEPT ![p] = v]
  /\ retiredAt' = Retired(p)
  /\ UNCHANGED <<now, ssmCache, configEntries, clientConfig, request>>

Remove(p) ==
  /\ store[p] # None
  /\ store' = [store EXCEPT ![p] = None]
  /\ retiredAt' = Retired(p)
  /\ UNCHANGED <<now, ssmCache, configEntries, clientConfig, request>>

\* Time passes, but no invocation outlives LambdaTimeout.
Tick ==
  /\ now < MaxTime
  /\ InFlight => now < request.start + LambdaTimeout
  /\ now' = now + 1
  /\ UNCHANGED <<store, retiredAt, ssmCache, configEntries, clientConfig, request>>

Next ==
  \/ StartRequest
  \/ AskCommon
  \/ ReceiveCommon
  \/ AskClient
  \/ ReceiveClient
  \/ EndRequest
  \/ EndProcess
  \/ \E p \in Keys : (\E v \in Values : Put(p, v)) \/ Remove(p)
  \/ Tick

Spec == Init /\ [][Next]_vars

---------------------------------------------------------------------------
\* Every variable has its type; in particular a request is served only with
\* a value for each of the parameters that were asked for.
TypeOK ==
  /\ now \in Nat
  /\ store \in [Keys -> Values \cup {None}]
  /\ retiredAt \in [Keys -> [Values -> Nat \cup {None}]]
  /\ ssmCache \in [Keys -> CacheEntry \cup {None}]
  /\ configEntries \in [CommonKeys -> Values] \cup {None}
  /\ clientConfig \in ClientConfig \cup {None}
  /\ request \in Request

\* Value v of parameter p was in force at some time since the given one.
InForceSince(p, v, time) ==
  retiredAt[p][v] # None => time <= retiredAt[p][v] + ParameterTtl + LambdaTimeout

\* A request is served with common parameters that were in force at most
\* ParameterTtl + LambdaTimeout before it arrived, although each may have
\* been read by another request, and stored after it changed.
CommonEntriesRecent ==
  request.step \in {"client", "clientAnswered", "serving"}
  => \A p \in CommonKeys : InForceSince(p, configEntries[p], request.start)

\* The configuration of a client, which is kept for good, is no older than
\* that for the request that loads it, even if a failed read before it left some of the
\* parameters in the provider's cache.
ClientConfigRecentWhenLoaded ==
  clientConfig # None
  => \A p \in ClientKeys : InForceSince(p, clientConfig.entries[p], clientConfig.loadedBy)
===========================================================================
