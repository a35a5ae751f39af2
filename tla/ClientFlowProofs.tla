-------------------------- MODULE ClientFlowProofs --------------------------
(* Proofs about ClientFlow, for any clients, redirect URIs, JWTs and        *)
(* payloads.                                                                *)
EXTENDS ClientFlow, PersonIdentityProofs

---------------------------------------------------------------------------
(* The inductive invariant.                                                 *)

\* The configuration is that of the client; only its redirect URI may be an
\* older one, if it has ever been changed.
Proper(client, config) ==
  /\ config.issuer = client
  /\ config.jwksEndpoint = client
  /\ client \notin moved => config.redirectUri = store[client].redirectUri

\* What the parameter store holds and what the processes have kept is proper.
ConfigsProper ==
  \A client \in Clients :
    /\ store[client] \in ClientConfig /\ Proper(client, store[client])
    /\ \A f \in Functions : kept[f][client] # None => Proper(client, kept[f][client])

\* Which requests are under way: there is no session until one has been opened,
\* and none is opened while there is one; a JWT that is validated is validated
\* with a configuration.
OpeningInv ==
  /\ DOMAIN opening = {"step", "clientId", "jwt", "jwks", "answer"}
  /\ opening.answer # 201 => row = None /\ replica = None /\ exchange.step = "idle"
  /\ opening.step # "idle" =>
       opening.answer = None /\ opening.clientId \in Clients /\ opening.jwt \in SessionJwt
  /\ opening.step = "validating" => kept["SessionFn"][opening.clientId] # None

\* What a reader has seen is of the session whose row there is, if there is one.
OfSession(entry) ==
  /\ DOMAIN entry = {"clientId", "redirectUri", "authorizationCode"}
  /\ entry.clientId \in Clients
  /\ row # None => row.clientId = entry.clientId

\* A request has the entry it was given and the configuration for that; one that
\* is to be stored has been checked with a configuration.
ExchangeInv ==
  /\ DOMAIN exchange = {"step", "payload", "item", "answer"}
  /\ exchange.step \in {"idle", "querying", "configuring", "loading", "validating", "writing"}
  /\ exchange.step # "idle" =>
       exchange.payload \in RequestPayload /\ ValidPayload(exchange.payload)
  /\ exchange.step \in {"configuring", "loading", "validating", "writing"} =>
       /\ OfSession(exchange.item)
       /\ exchange.item.authorizationCode = exchange.payload.code
  /\ exchange.step \in {"loading", "validating", "writing"} =>
       kept["AccessTokenFn"][exchange.item.clientId] # None
  /\ exchange.step = "writing" =>
       /\ exchange.payload.client_assertion.signer = exchange.item.clientId
       /\ exchange.payload.client_assertion.issuer = exchange.item.clientId
       /\ exchange.payload.client_assertion.subject = exchange.item.clientId
       /\ exchange.item.clientId \notin moved =>
            exchange.payload.redirectUri = store[exchange.item.clientId].redirectUri

ReplicaInv == replica # None => OfSession(replica)

\* The row has its attributes, its redirect URI is that of its client unless
\* the client has been given another one, and it belongs to its client.
RowInv ==
  row # None =>
    /\ DOMAIN row = {"clientId", "redirectUri", "vtr", "storageAccessToken", "addresses",
                     "authorizationCode", "jwt", "token"}
    /\ row.clientId \in Clients
    /\ row.clientId \notin moved => row.redirectUri = store[row.clientId].redirectUri

FlowInv ==
  /\ ipvClaimsRequired \in BOOLEAN
  /\ store \in [Clients -> ClientConfig]
  /\ kept \in [Functions -> [Clients -> ClientConfig \cup {None}]]
  /\ moved \subseteq Clients
  /\ due \in BOOLEAN
  /\ ConfigsProper
  /\ OpeningInv
  /\ ExchangeInv
  /\ ReplicaInv
  /\ RowInv
  /\ SessionOfItsClient
  /\ RedirectUrisAgree

LEMMA FlowInit == Init => FlowInv
<1> SUFFICES ASSUME Init PROVE FlowInv
  OBVIOUS
<1>1. PICK uris \in [Clients -> Uris] :
        store = [c \in Clients |-> [issuer |-> c, jwksEndpoint |-> c, redirectUri |-> uris[c]]]
  BY DEF Init
<1>2. store \in [Clients -> ClientConfig]
  BY <1>1 DEF ClientConfig
<1>3. \A c \in Clients : Proper(c, store[c])
  BY <1>1 DEF Proper
<1>4. kept \in [Functions -> [Clients -> ClientConfig \cup {None}]]
      /\ \A f \in Functions, c \in Clients : kept[f][c] = None
  BY DEF Init
<1>5. /\ opening.step = "idle" /\ exchange.step = "idle" /\ row = None /\ replica = None
      /\ DOMAIN opening = {"step", "clientId", "jwt", "jwks", "answer"}
      /\ DOMAIN exchange = {"step", "payload", "item", "answer"}
      /\ due \in BOOLEAN
  BY DEF Init, Opened, Exchanged
<1> QED
  BY <1>2, <1>3, <1>4, <1>5 DEF Init, FlowInv, ConfigsProper, OpeningInv, ExchangeInv,
     ReplicaInv, RowInv, SessionOfItsClient, RedirectUrisAgree

---------------------------------------------------------------------------
(* What is merged: the row of a session, and the body of a token request.   *)

LEMMA EventBodyFields ==
  ASSUME NEW entry, OfSession(entry), NEW payload \in RequestPayload
  PROVE  LET body == EventBody(entry, payload)
         IN /\ body.code = payload.code
            /\ body.redirectUri = payload.redirectUri
            /\ body.client_assertion = payload.client_assertion
            /\ body.clientId = entry.clientId
            /\ body.authorizationCode = entry.authorizationCode
<1>1. DOMAIN payload = {"code", "redirectUri", "client_assertion", "types"}
  BY DEF RequestPayload
<1> QED
  BY <1>1 DEF EventBody, OfSession, Spread

\* A token request without an error is one with the redirect URI of the
\* configuration, and with an assertion of the client.
LEMMA NoTokenRequestError ==
  ASSUME NEW entry, OfSession(entry), NEW payload \in RequestPayload, NEW config, NEW jwks,
         TokenRequestError(EventBody(entry, payload), config, jwks) = None
  PROVE  /\ payload.redirectUri = config.redirectUri
         /\ VerifiedAssertion(payload.client_assertion, entry.clientId, config)
<1>1. None \notin {"InvalidAccessTokenError", "InvalidRequestError", "JOSEError"}
  BY NoneAssumption DEF BaseErrors
<1> QED
  BY <1>1, EventBodyFields DEF TokenRequestError, RecordError

\* The row of a valid session request.
LEMMA NewRow ==
  ASSUME NEW jwt \in SessionJwt, NEW addresses,
         NEW new, new = Spread(SessionRequestSummary(jwt),
                      [authorizationCode |-> None, jwt |-> jwt, token |-> None,
                       addresses |-> addresses])
  PROVE  /\ DOMAIN new = {"clientId", "redirectUri", "vtr", "storageAccessToken", "addresses",
                          "authorizationCode", "jwt", "token"}
         /\ new.clientId = jwt.clientId
         /\ new.redirectUri = jwt.redirectUri
         /\ new.vtr = (jwt.vtr # "absent")
         /\ new.storageAccessToken = (jwt.storageAccessToken = "valid")
         /\ new.jwt = jwt
         /\ new.token = None
         /\ new.authorizationCode = None
         /\ new.addresses = addresses
<1> DEFINE summary == SessionRequestSummary(jwt)
<1>1. /\ DOMAIN summary = {"clientId", "redirectUri", "vtr", "storageAccessToken"}
      /\ summary.clientId = jwt.clientId
      /\ summary.redirectUri = jwt.redirectUri
      /\ summary.vtr = (jwt.vtr # "absent")
      /\ summary.storageAccessToken = (jwt.storageAccessToken = "valid")
  BY DEF SessionRequestSummary, StorageAccessToken
<1> QED
  BY <1>1 DEF Spread

\* The statuses of errors, and those that are not the caller's.
LEMMA ErrorStatus == \A error : ErrorPayload(error) \in 400..599
<1> SUFFICES ASSUME NEW error, error \in DOMAIN BaseErrors PROVE BaseErrors[error] \in 400..599
  BY DEF ErrorPayload
<1> QED
  BY DEF BaseErrors

LEMMA Statuses ==
  /\ ~BlamesCaller(200) /\ ~BlamesCaller(201)
  /\ ~BlamesCaller(ErrorPayload("Error")) /\ ~BlamesCaller(ErrorPayload("JOSEError"))
  /\ None # 201
  /\ \A error : ErrorPayload(error) # 201
<1>1. /\ ~BlamesCaller(200) /\ ~BlamesCaller(201)
      /\ ~BlamesCaller(ErrorPayload("Error")) /\ ~BlamesCaller(ErrorPayload("JOSEError"))
  BY DEF BlamesCaller, ErrorPayload, BaseErrors
<1>2. None # 201
  BY NoneAssumption
<1>3. \A error : ErrorPayload(error) # 201
  BY ErrorStatus
<1> QED
  BY <1>1, <1>2, <1>3
---------------------------------------------------------------------------
(* The steps of SessionFn.                                                  *)

LEMMA StartSessionStep ==
  ASSUME FlowInv, NEW client \in Clients, NEW jwt \in SessionJwts, NEW jwks \in BOOLEAN,
         StartSession(client, jwt, jwks)
  PROVE  FlowInv'
<1>1. jwt \in SessionJwt
  BY RequestsAssumption
<1>2. row = None /\ replica = None /\ exchange.step = "idle"
  BY DEF StartSession, FlowInv, OpeningInv
<1>3. OpeningInv'
  BY <1>1, <1>2 DEF FlowInv, OpeningInv, StartSession, session, NextStep, Functions
<1> QED
  BY <1>3 DEF StartSession, session, FlowInv, ConfigsProper, ExchangeInv, ReplicaInv, OfSession,
     RowInv, Proper, SessionOfItsClient, RedirectUrisAgree

LEMMA KeepStep ==
  ASSUME FlowInv, NEW f \in Functions, NEW client \in Clients, KeepClientConfig(f, client),
         UNCHANGED <<store, moved>>
  PROVE  /\ kept' \in [Functions -> [Clients -> ClientConfig \cup {None}]]
         /\ ConfigsProper'
         /\ kept'[f][client] # None
         /\ \A g \in Functions, c \in Clients : kept[g][c] # None => kept'[g][c] # None
<1>1. store[client] \in ClientConfig /\ kept' = [kept EXCEPT ![f][client] = store[client]]
  BY DEF FlowInv, ConfigsProper, KeepClientConfig
<1>2. store[client] # None
  BY <1>1, NoneAssumption
<1>3. kept' \in [Functions -> [Clients -> ClientConfig \cup {None}]]
  BY <1>1 DEF FlowInv
<1>4. ConfigsProper'
  BY <1>1 DEF FlowInv, ConfigsProper, Proper
<1> QED
  BY <1>1, <1>2, <1>3, <1>4 DEF FlowInv

LEMMA InitSessionClientConfigStep ==
  ASSUME FlowInv, InitSessionClientConfig
  PROVE  FlowInv'
<1>1. opening.clientId \in Clients /\ "SessionFn" \in Functions /\ "AccessTokenFn" \in Functions
  BY DEF InitSessionClientConfig, FlowInv, OpeningInv, Functions
<1>2. /\ kept' \in [Functions -> [Clients -> ClientConfig \cup {None}]]
      /\ ConfigsProper'
      /\ kept'["SessionFn"][opening.clientId] # None
      /\ \A c \in Clients : kept["AccessTokenFn"][c] # None => kept'["AccessTokenFn"][c] # None
  BY <1>1, KeepStep DEF InitSessionClientConfig
<1>3. OpeningInv'
  BY <1>1, <1>2 DEF InitSessionClientConfig, session, FlowInv, OpeningInv
<1>4. ExchangeInv'
  BY <1>2 DEF InitSessionClientConfig, session, FlowInv, ExchangeInv, OfSession
<1> QED
  BY <1>2, <1>3, <1>4 DEF InitSessionClientConfig, session, FlowInv, ReplicaInv, OfSession, RowInv,
     SessionOfItsClient, RedirectUrisAgree

LEMMA ValidateJwtStep ==
  ASSUME FlowInv, ValidateJwt
  PROVE  FlowInv'
<1> DEFINE config == kept["SessionFn"][opening.clientId]
<1>1. /\ row = None /\ replica = None /\ exchange.step = "idle"
      /\ opening.clientId \in Clients
      /\ opening.jwt \in SessionJwt
      /\ config # None
  BY Statuses DEF ValidateJwt, FlowInv, OpeningInv
<1>2. Proper(opening.clientId, config)
  BY <1>1 DEF FlowInv, ConfigsProper, Functions
<1>3. ConfigsProper' /\ ExchangeInv' /\ ReplicaInv'
  BY <1>1 DEF ValidateJwt, FlowInv, ConfigsProper, Proper, ExchangeInv, ReplicaInv
<1>4. OpeningInv'
  BY <1>1, Statuses DEF ValidateJwt, Opened, OpeningInv
<1>5. CASE row' = row
  BY <1>1, <1>3, <1>4, <1>5 DEF ValidateJwt, FlowInv, RowInv, SessionOfItsClient, RedirectUrisAgree
<1>6. CASE row' # row
  <2>1. /\ ValidJwt(opening.jwt, opening.clientId, config, ipvClaimsRequired)
        /\ row' = Spread(SessionRequestSummary(opening.jwt),
                         [authorizationCode |-> None, jwt |-> opening.jwt, token |-> None,
                          addresses |-> Addresses(opening.jwt.drivingPermits, <<Claimed>>)])
    BY <1>6 DEF ValidateJwt
  <2>2. /\ DOMAIN row' = {"clientId", "redirectUri", "vtr", "storageAccessToken", "addresses",
                          "authorizationCode", "jwt", "token"}
        /\ row'.clientId = opening.jwt.clientId
        /\ row'.redirectUri = opening.jwt.redirectUri
        /\ row'.vtr = (opening.jwt.vtr # "absent")
        /\ row'.storageAccessToken = (opening.jwt.storageAccessToken = "valid")
        /\ row'.jwt = opening.jwt
        /\ row'.token = None
    BY <1>1, <2>1, NewRow
  <2>3. /\ opening.jwt.signer = opening.clientId
        /\ opening.jwt.issuer = opening.clientId
        /\ opening.jwt.clientId = opening.clientId
        /\ opening.jwt.redirectUri = config.redirectUri
    BY <1>2, <2>1 DEF ValidJwt, VerifiedSignature, Proper
  <2>4. ipvClaimsRequired => row'.vtr /\ row'.storageAccessToken
    BY <1>1, <2>1, <2>2 DEF ValidJwt, ValidClaims, ValidIpvClaim, SessionJwt, Claim
  <2>5. RowInv'
    BY <1>1, <1>2, <2>2, <2>3 DEF RowInv, Proper, ValidateJwt
  <2>6. SessionOfItsClient' /\ RedirectUrisAgree'
    BY <1>1, <2>2, <2>3, <2>4 DEF SessionOfItsClient, RedirectUrisAgree, ValidateJwt
  <2> QED
    BY <1>3, <1>4, <2>5, <2>6 DEF FlowInv, ValidateJwt
<1> QED
  BY <1>5, <1>6

LEMMA FailSessionStep ==
  ASSUME FlowInv, FailSession
  PROVE  FlowInv'
<1>1. OpeningInv'
  BY Statuses DEF FailSession, session, Opened, FlowInv, OpeningInv
<1> QED
  BY <1>1 DEF FailSession, session, FlowInv, ConfigsProper, ExchangeInv, ReplicaInv, OfSession, RowInv,
     Proper, SessionOfItsClient, RedirectUrisAgree
---------------------------------------------------------------------------
(* The steps of AccessTokenFn: those that only change the request, and the   *)
(* two others.                                                               *)

LEMMA ExchangeStep ==
  ASSUME FlowInv, ExchangeInv', opening.answer = 201,
         UNCHANGED <<ipvClaimsRequired, store, kept, opening, session, moved>>
  PROVE  FlowInv'
<1>1. OpeningInv'
  BY DEF session, FlowInv, OpeningInv
<1> QED
  BY <1>1 DEF session, FlowInv, ConfigsProper, ReplicaInv, OfSession, RowInv, Proper,
     SessionOfItsClient, RedirectUrisAgree

\* A request is under way only when a session has been opened.
LEMMA SessionKnown ==
  ASSUME FlowInv, exchange.step # "idle"
  PROVE  /\ opening.answer = 201
         /\ exchange.payload \in RequestPayload /\ ValidPayload(exchange.payload)
BY DEF FlowInv, OpeningInv, ExchangeInv

LEMMA ExchangedInv ==
  ASSUME NEW status, exchange' = Exchanged(status)
  PROVE  ExchangeInv'
BY DEF Exchanged, ExchangeInv

LEMMA StartExchangeStep ==
  ASSUME FlowInv, NEW payload \in Payloads, StartExchange(payload)
  PROVE  FlowInv'
<1>1. payload \in RequestPayload
  BY RequestsAssumption
<1>2. ExchangeInv'
  <2>1. CASE ValidPayload(payload)
    BY <1>1, <2>1 DEF StartExchange, ExchangeInv
  <2>2. CASE ~ValidPayload(payload)
    BY <2>2, ExchangedInv DEF StartExchange
  <2> QED
    BY <2>1, <2>2
<1> QED
  BY <1>2, ExchangeStep DEF StartExchange

\* What a reader can be answered with.
LEMMA ReadOfSession ==
  ASSUME FlowInv, NEW entry \in {EntryOf(row), replica}, entry # None
  PROVE  OfSession(entry)
<1>1. CASE entry = replica
  BY <1>1 DEF FlowInv, ReplicaInv
<1>2. CASE entry = EntryOf(row)
  BY <1>2 DEF EntryOf, FlowInv, RowInv, OfSession
<1> QED
  BY <1>1, <1>2

LEMMA QuerySessionStep ==
  ASSUME FlowInv, QuerySession
  PROVE  FlowInv'
<1>1. opening.answer = 201 /\ exchange.payload \in RequestPayload /\ ValidPayload(exchange.payload)
  BY SessionKnown DEF QuerySession
<1>2. PICK item \in {EntryOf(row), replica} :
        exchange' = IF item # None /\ item.authorizationCode = exchange.payload.code
                    THEN [exchange EXCEPT !.item = item,
                            !.step = NextStep("AccessTokenFn", item.clientId, "loading")]
                    ELSE Exchanged(ErrorPayload("InvalidAccessTokenError"))
  BY DEF QuerySession
<1>3. CASE item # None /\ item.authorizationCode = exchange.payload.code
  <2> DEFINE next == NextStep("AccessTokenFn", item.clientId, "loading")
  <2>1. OfSession(item)
    BY <1>3, ReadOfSession
  <2>2. OfSession(item)'
    BY <2>1 DEF OfSession, QuerySession, session
  <2>3. exchange' = [exchange EXCEPT !.item = item, !.step = next]
    BY <1>2, <1>3
  <2>4. next \in {"configuring", "loading"}
        /\ (next = "loading" => kept["AccessTokenFn"][item.clientId] # None)
    BY DEF NextStep
  <2> HIDE DEF next
  <2>5. /\ DOMAIN exchange' = {"step", "payload", "item", "answer"}
        /\ exchange'.step = next
        /\ exchange'.item = item
        /\ exchange'.payload = exchange.payload
    BY <2>3 DEF FlowInv, ExchangeInv
  <2>6. ExchangeInv'
    BY <1>1, <1>3, <2>2, <2>4, <2>5 DEF ExchangeInv, QuerySession
  <2> QED
    BY <1>1, <2>6, ExchangeStep DEF QuerySession
<1>4. CASE ~(item # None /\ item.authorizationCode = exchange.payload.code)
  <2>1. ExchangeInv'
    BY <1>2, <1>4, ExchangedInv
  <2> QED
    BY <1>1, <2>1, ExchangeStep DEF QuerySession
<1> QED
  BY <1>3, <1>4

LEMMA InitExchangeClientConfigStep ==
  ASSUME FlowInv, InitExchangeClientConfig
  PROVE  FlowInv'
<1> DEFINE client == exchange.item.clientId
<1>1. /\ client \in Clients /\ "AccessTokenFn" \in Functions /\ "SessionFn" \in Functions
      /\ opening.answer = 201
  BY SessionKnown DEF InitExchangeClientConfig, FlowInv, ExchangeInv, OfSession, Functions
<1>2. /\ kept' \in [Functions -> [Clients -> ClientConfig \cup {None}]]
      /\ ConfigsProper'
      /\ kept'["AccessTokenFn"][client] # None
      /\ \A c \in Clients : kept["SessionFn"][c] # None => kept'["SessionFn"][c] # None
  BY <1>1, KeepStep DEF InitExchangeClientConfig
<1>3. /\ DOMAIN exchange' = {"step", "payload", "item", "answer"}
      /\ exchange'.step = "loading"
      /\ exchange'.item = exchange.item
      /\ exchange'.payload = exchange.payload
  BY DEF InitExchangeClientConfig, FlowInv, ExchangeInv
<1>4. ExchangeInv'
  BY <1>2, <1>3 DEF InitExchangeClientConfig, session, FlowInv, ExchangeInv, OfSession
<1>5. OpeningInv'
  BY <1>1, <1>2 DEF InitExchangeClientConfig, session, FlowInv, OpeningInv
<1> QED
  BY <1>2, <1>4, <1>5 DEF InitExchangeClientConfig, session, FlowInv, ReplicaInv, OfSession, RowInv,
     SessionOfItsClient, RedirectUrisAgree

LEMMA LoadSessionStep ==
  ASSUME FlowInv, LoadSession
  PROVE  FlowInv'
<1>1. opening.answer = 201
  BY SessionKnown DEF LoadSession
<1>2. PICK error : exchange' = IF error = None THEN [exchange EXCEPT !.step = "validating"]
                               ELSE Exchanged(ErrorPayload(error))
  BY DEF LoadSession
<1>3. ExchangeInv'
  <2>1. CASE error = None
    BY <1>2, <2>1 DEF LoadSession, session, FlowInv, ExchangeInv, OfSession
  <2>2. CASE error # None
    BY <1>2, <2>2, ExchangedInv
  <2> QED
    BY <2>1, <2>2
<1> QED
  BY <1>1, <1>3, ExchangeStep DEF LoadSession

LEMMA ValidateRequestStep ==
  ASSUME FlowInv, NEW jwks \in BOOLEAN, ValidateRequest(jwks)
  PROVE  FlowInv'
<1> DEFINE client == exchange.item.clientId
           config == kept["AccessTokenFn"][client]
           error == TokenRequestError(EventBody(exchange.item, exchange.payload), config, jwks)
<1>1. opening.answer = 201 /\ exchange.payload \in RequestPayload
  BY SessionKnown DEF ValidateRequest
<1>2. ExchangeInv'
  <2>1. CASE error = None
    <3>1. OfSession(exchange.item) /\ config # None
      BY DEF ValidateRequest, FlowInv, ExchangeInv
    <3>2. Proper(client, config)
      BY <3>1 DEF OfSession, FlowInv, ConfigsProper, Functions
    <3>3. /\ exchange.payload.redirectUri = config.redirectUri
          /\ VerifiedAssertion(exchange.payload.client_assertion, client, config)
      BY <1>1, <2>1, <3>1, NoTokenRequestError
    <3>4. /\ exchange.payload.client_assertion.signer = client
          /\ exchange.payload.client_assertion.issuer = client
          /\ exchange.payload.client_assertion.subject = client
          /\ client \notin moved => exchange.payload.redirectUri = store[client].redirectUri
      BY <3>2, <3>3 DEF Proper, VerifiedAssertion
    <3>5. exchange' = [exchange EXCEPT !.step = "writing"]
      BY <2>1 DEF ValidateRequest
    <3>6. /\ DOMAIN exchange' = {"step", "payload", "item", "answer"}
          /\ exchange'.step = "writing"
          /\ exchange'.item = exchange.item
          /\ exchange'.payload = exchange.payload
      BY <3>5 DEF FlowInv, ExchangeInv
    <3> QED
      BY <3>4, <3>6 DEF ValidateRequest, session, FlowInv, ExchangeInv, OfSession
  <2>2. CASE error # None
    <3>1. exchange' = Exchanged(ErrorPayload(error))
      BY <2>2 DEF ValidateRequest
    <3> HIDE DEF error
    <3> QED
      BY <3>1, ExchangedInv
  <2> QED
    BY <2>1, <2>2
<1> QED
  BY <1>1, <1>2, ExchangeStep DEF ValidateRequest

LEMMA ConsumeAuthCodeStep ==
  ASSUME FlowInv, ConsumeAuthCode
  PROVE  FlowInv'
<1> DEFINE client == exchange.item.clientId
<1>1. /\ opening.answer = 201
      /\ OfSession(exchange.item)
      /\ exchange.payload.client_assertion.signer = client
      /\ exchange.payload.client_assertion.issuer = client
      /\ exchange.payload.client_assertion.subject = client
      /\ client \notin moved => exchange.payload.redirectUri = store[client].redirectUri
  BY SessionKnown DEF ConsumeAuthCode, FlowInv, ExchangeInv
<1>2. /\ row # None /\ row' # None => row'.clientId = row.clientId
      /\ row = None => row' = None
  BY DEF ConsumeAuthCode, FlowInv, RowInv
<1>3. OpeningInv' /\ ConfigsProper' /\ ReplicaInv'
  BY <1>1, <1>2 DEF ConsumeAuthCode, FlowInv, OpeningInv, ConfigsProper, Proper, ReplicaInv, OfSession
<1>4. ExchangeInv'
  <2>1. CASE exchange' = exchange
    BY <1>2, <2>1 DEF ConsumeAuthCode, FlowInv, ExchangeInv, OfSession
  <2>2. CASE exchange' # exchange
    BY <2>2, ExchangedInv DEF ConsumeAuthCode
  <2> QED
    BY <2>1, <2>2
<1>5. CASE row' = row
  BY <1>3, <1>4, <1>5 DEF ConsumeAuthCode, FlowInv, RowInv, SessionOfItsClient, RedirectUrisAgree
<1>6. CASE row' # row
  <2>1. row # None /\ row' = [row EXCEPT !.authorizationCode = None, !.token = exchange.payload]
    BY <1>6 DEF ConsumeAuthCode
  <2>2. row.clientId = client
    BY <1>1, <2>1 DEF OfSession
  <2>3. /\ DOMAIN row' = DOMAIN row
        /\ row'.clientId = row.clientId
        /\ row'.redirectUri = row.redirectUri
        /\ row'.vtr = row.vtr
        /\ row'.storageAccessToken = row.storageAccessToken
        /\ row'.jwt = row.jwt
        /\ row'.token = exchange.payload
    BY <2>1 DEF FlowInv, RowInv
  <2>4. RowInv'
    BY <2>1, <2>3 DEF FlowInv, RowInv, ConsumeAuthCode
  <2>5. SessionOfItsClient'
    BY <1>1, <2>1, <2>2, <2>3 DEF FlowInv, SessionOfItsClient, ConsumeAuthCode
  <2>6. RedirectUrisAgree'
    BY <1>1, <2>1, <2>2, <2>3 DEF FlowInv, RowInv, RedirectUrisAgree, ConsumeAuthCode
  <2> QED
    BY <1>3, <1>4, <2>4, <2>5, <2>6 DEF FlowInv, ConsumeAuthCode
<1> QED
  BY <1>5, <1>6

LEMMA FailExchangeStep ==
  ASSUME FlowInv, FailExchange
  PROVE  FlowInv'
<1>1. opening.answer = 201
  BY SessionKnown DEF FailExchange
<1>2. ExchangeInv'
  BY ExchangedInv DEF FailExchange
<1> QED
  BY <1>1, <1>2, ExchangeStep DEF FailExchange

---------------------------------------------------------------------------
(* The surroundings, and the theorems.                                      *)

LEMMA CreateAuthCodeStep ==
  ASSUME FlowInv, NEW code \in Codes, CreateAuthCode(code)
  PROVE  FlowInv'
<1>1. row # None /\ row' = [row EXCEPT !.authorizationCode = code]
  BY DEF CreateAuthCode
<1>2. /\ DOMAIN row' = DOMAIN row
      /\ row'.clientId = row.clientId
      /\ row'.redirectUri = row.redirectUri
      /\ row'.vtr = row.vtr
      /\ row'.storageAccessToken = row.storageAccessToken
      /\ row'.jwt = row.jwt
      /\ row'.token = row.token
  BY <1>1 DEF FlowInv, RowInv
<1>3. OpeningInv' /\ ConfigsProper' /\ ReplicaInv'
  BY <1>1, <1>2 DEF CreateAuthCode, FlowInv, OpeningInv, ConfigsProper, Proper, ReplicaInv, OfSession
<1>4. ExchangeInv'
  BY <1>1, <1>2 DEF CreateAuthCode, FlowInv, ExchangeInv, OfSession
<1>5. RowInv' /\ SessionOfItsClient' /\ RedirectUrisAgree'
  BY <1>1, <1>2 DEF CreateAuthCode, FlowInv, RowInv, SessionOfItsClient, RedirectUrisAgree
<1> QED
  BY <1>3, <1>4, <1>5 DEF CreateAuthCode, FlowInv

LEMMA RemoveSessionStep ==
  ASSUME FlowInv, RemoveSession
  PROVE  FlowInv'
<1>1. row # None /\ row' = None
  BY DEF RemoveSession
<1>2. /\ moved' \subseteq moved
      /\ \A c \in Clients, f \in Functions : kept[f][c] # None /\ c \in moved => c \in moved'
  BY DEF RemoveSession, Held, FlowInv
<1>3. /\ \A c \in Clients : store[c] \in ClientConfig /\ Proper(c, store[c])
      /\ \A f \in Functions, c \in Clients : kept[f][c] # None => Proper(c, kept[f][c])
  BY DEF FlowInv, ConfigsProper
<1>4. ConfigsProper'
  BY <1>2, <1>3 DEF RemoveSession, ConfigsProper, Proper
<1>5. OpeningInv' /\ ReplicaInv'
  BY <1>1 DEF RemoveSession, FlowInv, OpeningInv, ReplicaInv, OfSession
<1>6. ExchangeInv'
  <2>1. exchange.step = "writing" /\ exchange.item.clientId \in moved
        => exchange.item.clientId \in moved'
    BY <1>2 DEF FlowInv, ExchangeInv, OfSession, Functions
  <2> QED
    BY <1>1, <2>1 DEF RemoveSession, FlowInv, ExchangeInv, OfSession
<1>7. RowInv' /\ SessionOfItsClient' /\ RedirectUrisAgree'
  BY <1>1 DEF RowInv, SessionOfItsClient, RedirectUrisAgree
<1> QED
  BY <1>2, <1>4, <1>5, <1>6, <1>7 DEF RemoveSession, FlowInv

LEMMA ReplicateStep ==
  ASSUME FlowInv, Replicate
  PROVE  FlowInv'
<1>1. row = None => replica' = None
  BY DEF Replicate, EntryOf
<1>2. ReplicaInv'
  BY <1>1 DEF Replicate, EntryOf, FlowInv, RowInv, ReplicaInv, OfSession
<1>3. OpeningInv'
  BY <1>1 DEF Replicate, FlowInv, OpeningInv
<1> QED
  BY <1>2, <1>3 DEF Replicate, FlowInv, ConfigsProper, ExchangeInv, OfSession, RowInv, Proper,
     SessionOfItsClient, RedirectUrisAgree

LEMMA ExpireStep ==
  ASSUME FlowInv, Expire
  PROVE  FlowInv'
BY DEF Expire, FlowInv, ConfigsProper, OpeningInv, ExchangeInv, ReplicaInv, OfSession, RowInv, Proper,
   SessionOfItsClient, RedirectUrisAgree

LEMMA EndProcessStep ==
  ASSUME FlowInv, NEW f \in Functions, EndProcess(f)
  PROVE  FlowInv'
<1>1. /\ kept' \in [Functions -> [Clients -> ClientConfig \cup {None}]]
      /\ \A g \in Functions, c \in Clients : kept'[g][c] # None => kept'[g][c] = kept[g][c]
      /\ \A c \in Clients : opening.step # "idle" => kept'["SessionFn"][c] = kept["SessionFn"][c]
      /\ \A c \in Clients : exchange.step # "idle" =>
           kept'["AccessTokenFn"][c] = kept["AccessTokenFn"][c]
  BY DEF EndProcess, FlowInv, Functions
<1>2. /\ moved' \subseteq moved
      /\ \A c \in Clients, g \in Functions : kept'[g][c] # None /\ c \in moved => c \in moved'
      /\ row # None /\ row.clientId \in moved => row.clientId \in moved'
  BY DEF EndProcess, session, Held, FlowInv
<1>3. /\ \A c \in Clients : store[c] \in ClientConfig /\ Proper(c, store[c])
      /\ \A g \in Functions, c \in Clients : kept[g][c] # None => Proper(c, kept[g][c])
  BY DEF FlowInv, ConfigsProper
<1>4. ConfigsProper'
  BY <1>1, <1>2, <1>3 DEF EndProcess, ConfigsProper, Proper
<1>5. OpeningInv' /\ ReplicaInv'
  BY <1>1 DEF EndProcess, session, FlowInv, OpeningInv, ReplicaInv, OfSession
<1>6. ExchangeInv'
  <2>1. exchange.step = "writing" /\ exchange.item.clientId \in moved
        => exchange.item.clientId \in moved'
    BY <1>1, <1>2 DEF FlowInv, ExchangeInv, OfSession, Functions
  <2> QED
    BY <1>1, <2>1 DEF EndProcess, session, FlowInv, ExchangeInv, OfSession
<1>7. RowInv' /\ SessionOfItsClient' /\ RedirectUrisAgree'
  BY <1>2 DEF EndProcess, session, FlowInv, RowInv, SessionOfItsClient, RedirectUrisAgree
<1> QED
  BY <1>1, <1>2, <1>4, <1>5, <1>6, <1>7 DEF EndProcess, session, FlowInv

LEMMA PutRedirectUriStep ==
  ASSUME FlowInv, NEW client \in Clients, NEW uri \in Uris, PutRedirectUri(client, uri)
  PROVE  FlowInv'
<1>1. /\ store' \in [Clients -> ClientConfig]
      /\ moved \subseteq moved' /\ moved' \subseteq Clients
      /\ \A c \in Clients : store'[c].issuer = store[c].issuer
                           /\ store'[c].jwksEndpoint = store[c].jwksEndpoint
      /\ \A c \in Clients : Held(c) /\ c \notin moved' => store'[c] = store[c]
  BY DEF PutRedirectUri, FlowInv, ClientConfig
<1>2. \A config : \A c \in Clients : Held(c) /\ Proper(c, config) =>
        /\ config.issuer = c /\ config.jwksEndpoint = c
        /\ c \notin moved' => config.redirectUri = store'[c].redirectUri
  BY <1>1 DEF Proper
<1>3. /\ \A c \in Clients : store[c] \in ClientConfig /\ Proper(c, store[c])
      /\ \A f \in Functions, c \in Clients : kept[f][c] # None => Held(c) /\ Proper(c, kept[f][c])
  BY DEF FlowInv, ConfigsProper, Held
<1>4. ConfigsProper'
  BY <1>1, <1>2, <1>3 DEF PutRedirectUri, ConfigsProper, Proper
<1>5. OpeningInv' /\ ReplicaInv'
  BY DEF PutRedirectUri, session, FlowInv, OpeningInv, ReplicaInv, OfSession
<1>6. ExchangeInv'
  <2>1. exchange.step = "writing" =>
          exchange.item.clientId \in Clients /\ Held(exchange.item.clientId)
    BY DEF FlowInv, ExchangeInv, OfSession, Functions, Held
  <2> QED
    BY <1>1, <2>1 DEF PutRedirectUri, session, FlowInv, ExchangeInv, OfSession
<1>7. RowInv'
  <2>1. row # None => row.clientId \in Clients /\ Held(row.clientId)
    BY DEF FlowInv, RowInv, Held
  <2> QED
    BY <1>1, <2>1 DEF PutRedirectUri, session, FlowInv, RowInv
<1>8. SessionOfItsClient' /\ RedirectUrisAgree'
  BY <1>1 DEF PutRedirectUri, session, FlowInv, SessionOfItsClient, RedirectUrisAgree
<1> QED
  BY <1>1, <1>4, <1>5, <1>6, <1>7, <1>8 DEF PutRedirectUri, session, FlowInv

LEMMA FlowStep == FlowInv /\ [Next]_vars => FlowInv'
<1> SUFFICES ASSUME FlowInv, [Next]_vars PROVE FlowInv'
  OBVIOUS
<1>1. CASE UNCHANGED vars
  BY <1>1 DEF vars, FlowInv, ConfigsProper, OpeningInv, ExchangeInv, ReplicaInv, OfSession, RowInv,
     Proper, SessionOfItsClient, RedirectUrisAgree
<1>2. CASE Next
  BY <1>2, StartSessionStep, InitSessionClientConfigStep, ValidateJwtStep, FailSessionStep,
     StartExchangeStep, QuerySessionStep, InitExchangeClientConfigStep, LoadSessionStep,
     ValidateRequestStep, ConsumeAuthCodeStep, FailExchangeStep, CreateAuthCodeStep,
     RemoveSessionStep, ReplicateStep, ExpireStep, EndProcessStep, PutRedirectUriStep
     DEF Next
<1> QED
  BY <1>1, <1>2

LEMMA FlowCorrect == Spec => []FlowInv
BY FlowInit, FlowStep, PTL DEF Spec

(* A session, and the token bought with it, is the client's whose keys have  *)
(* signed for it, whatever client a request names.                           *)
THEOREM SessionOfItsClientCorrect == Spec => []SessionOfItsClient
<1>1. FlowInv => SessionOfItsClient
  BY DEF FlowInv
<1> QED
  BY <1>1, FlowCorrect, PTL

(* A token is bought with the redirect URI of its session, though no line    *)
(* compares the two, unless the client has been given another one while a    *)
(* process, or the row, still had the old one.                               *)
THEOREM RedirectUrisAgreeCorrect == Spec => []RedirectUrisAgree
<1>1. FlowInv => RedirectUrisAgree
  BY DEF FlowInv
<1> QED
  BY <1>1, FlowCorrect, PTL

---------------------------------------------------------------------------
(* Types, and the addresses of the row.                                     *)

\* The invariant of these: besides its type, a request that is under way has
\* one of the JWTs or payloads that are sent.
RecordInv ==
  /\ opening \in Opening
  /\ exchange \in Exchange
  /\ row \in Row \cup {None}
  /\ replica \in Entry \cup {None}
  /\ opening.step # "idle" => opening.jwt \in SessionJwts
  /\ exchange.step # "idle" => exchange.payload \in Payloads
  /\ AddressesAsMeant

LEMMA OpenedType ==
  /\ Opened(None) \in Opening /\ Opened(201) \in Opening
  /\ \A error : Opened(ErrorPayload(error)) \in Opening
  /\ \A status : Opened(status).step = "idle"
BY ErrorStatus DEF Opened, Opening

LEMMA ExchangedType ==
  /\ Exchanged(None) \in Exchange /\ Exchanged(200) \in Exchange
  /\ \A error : Exchanged(ErrorPayload(error)) \in Exchange
  /\ \A status : Exchanged(status).step = "idle"
BY ErrorStatus DEF Exchanged, Exchange

\* A step of a request that goes no further, or ends, with the payload it has.
LEMMA ExchangeRecord ==
  ASSUME RecordInv, exchange' \in Exchange,
         exchange'.step # "idle" => exchange'.payload \in Payloads,
         UNCHANGED <<opening, row, replica>>
  PROVE  RecordInv'
BY DEF RecordInv, AddressesAsMeant

LEMMA EntryType ==
  ASSUME RecordInv
  PROVE  /\ EntryOf(row) \in Entry \cup {None}
         /\ row # None => EntryOf(row) # None
<1>1. CASE row = None
  BY <1>1 DEF EntryOf
<1>2. CASE row # None
  <2>1. EntryOf(row) \in Entry
    BY <1>2 DEF EntryOf, Entry, RecordInv, Row
  <2> QED
    BY <2>1, NoneAssumption
<1> QED
  BY <1>1, <1>2

LEMMA NewRowType ==
  ASSUME NEW jwt \in SessionJwts, NEW addresses \in Seq(Text) \cup {<<Claimed>>},
         NEW new, new = Spread(SessionRequestSummary(jwt),
                      [authorizationCode |-> None, jwt |-> jwt, token |-> None,
                       addresses |-> addresses])
  PROVE  new \in Row
<1>1. jwt \in SessionJwt
  BY RequestsAssumption
<1> DEFINE fields == {"clientId", "redirectUri", "vtr", "storageAccessToken", "addresses",
                      "authorizationCode", "jwt", "token"}
<1>2. /\ DOMAIN new = fields
      /\ new.clientId \in Clients
      /\ new.redirectUri \in Uris
      /\ new.vtr \in BOOLEAN
      /\ new.storageAccessToken \in BOOLEAN
      /\ new.jwt = jwt
      /\ new.token = None
      /\ new.authorizationCode = None
      /\ new.addresses = addresses
  <2>1. /\ DOMAIN new = fields
        /\ new.clientId = jwt.clientId
        /\ new.redirectUri = jwt.redirectUri
        /\ new.vtr = (jwt.vtr # "absent")
        /\ new.storageAccessToken = (jwt.storageAccessToken = "valid")
        /\ new.jwt = jwt
        /\ new.token = None
        /\ new.authorizationCode = None
        /\ new.addresses = addresses
    BY <1>1, NewRow
  <2>2. jwt.clientId \in Clients /\ jwt.redirectUri \in Uris
    BY <1>1 DEF SessionJwt
  <2>3. new.vtr \in BOOLEAN /\ new.storageAccessToken \in BOOLEAN
    BY <2>1, Zenon
  <2> QED
    BY <2>1, <2>2, <2>3
<1>3. new = [field \in fields |-> new[field]]
  BY <1>2 DEF Spread
<1> QED
  BY <1>2, <1>3 DEF Row

LEMMA RecordInit == Init => RecordInv
BY OpenedType, ExchangedType DEF Init, RecordInv, AddressesAsMeant

LEMMA ValidateJwtRecord ==
  ASSUME FlowInv, RecordInv, ValidateJwt
  PROVE  RecordInv'
<1> DEFINE jwt == opening.jwt
<1>1. opening'.step = "idle" /\ opening' \in Opening /\ UNCHANGED <<exchange, replica>>
  BY OpenedType DEF ValidateJwt
<1>2. jwt \in SessionJwts /\ jwt \in SessionJwt /\ jwt.drivingPermits \in Seq(DrivingPermit)
  <2>1. jwt \in SessionJwts
    BY DEF ValidateJwt, RecordInv
  <2>2. jwt \in SessionJwt
    BY <2>1, RequestsAssumption
  <2>3. jwt.drivingPermits \in DrivingPermits
    BY <2>2 DEF SessionJwt
  <2> QED
    BY <2>1, <2>2, <2>3, RequestsAssumption
<1>3. CASE row' = row
  BY <1>1, <1>3 DEF RecordInv, AddressesAsMeant
<1>4. CASE row' # row
  <2> DEFINE addresses == Addresses(jwt.drivingPermits, <<Claimed>>)
  <2>1. row' = Spread(SessionRequestSummary(jwt),
                      [authorizationCode |-> None, jwt |-> jwt, token |-> None,
                       addresses |-> addresses])
    BY <1>4 DEF ValidateJwt
  <2>2. addresses \in Seq(Text) \cup {<<Claimed>>}
    BY <1>2, AddressesType
  <2>3. AddressesOf(jwt.drivingPermits, <<Claimed>>, addresses)
    BY <1>2, AddressesMeant
  <2> HIDE DEF addresses
  <2>4. row' \in Row
    BY <1>2, <2>1, <2>2, NewRowType
  <2>5. row'.jwt = jwt /\ row'.addresses = addresses
    BY <1>2, <2>1, NewRow
  <2>6. AddressesAsMeant'
    BY <2>3, <2>5 DEF AddressesAsMeant
  <2> QED
    BY <1>1, <2>4, <2>6 DEF RecordInv
<1> QED
  BY <1>3, <1>4

LEMMA QuerySessionRecord ==
  ASSUME FlowInv, RecordInv, QuerySession
  PROVE  RecordInv'
<1>1. exchange \in Exchange /\ exchange.payload \in Payloads
  BY DEF QuerySession, RecordInv
<1>2. PICK item \in {EntryOf(row), replica} :
        exchange' = IF item # None /\ item.authorizationCode = exchange.payload.code
                    THEN [exchange EXCEPT !.item = item,
                            !.step = NextStep("AccessTokenFn", item.clientId, "loading")]
                    ELSE Exchanged(ErrorPayload("InvalidAccessTokenError"))
  BY DEF QuerySession
<1>3. item \in Entry \cup {None}
  BY EntryType DEF RecordInv
<1>4. CASE item # None /\ item.authorizationCode = exchange.payload.code
  <2> DEFINE next == NextStep("AccessTokenFn", item.clientId, "loading")
  <2>1. next \in {"configuring", "loading"}
    BY DEF NextStep
  <2>2. exchange' = [exchange EXCEPT !.item = item, !.step = next]
    BY <1>2, <1>4
  <2> HIDE DEF next
  <2>3. exchange' = [step |-> next, payload |-> exchange.payload, item |-> item,
                     answer |-> exchange.answer]
    BY <1>1, <2>2 DEF Exchange
  <2>4. /\ exchange.payload \in Payloads \cup {None}
        /\ exchange.answer \in {None, 200} \cup 400..599
    BY <1>1 DEF Exchange
  <2>5. exchange' \in Exchange /\ exchange'.payload = exchange.payload
    BY <1>3, <2>1, <2>3, <2>4 DEF Exchange
  <2> QED
    BY <1>1, <2>5, ExchangeRecord DEF QuerySession, session
<1>5. CASE ~(item # None /\ item.authorizationCode = exchange.payload.code)
  <2>1. exchange' = Exchanged(ErrorPayload("InvalidAccessTokenError"))
    BY <1>2, <1>5
  <2> QED
    BY <2>1, ExchangedType, ExchangeRecord DEF QuerySession, session
<1> QED
  BY <1>4, <1>5

LEMMA LoadSessionRecord ==
  ASSUME FlowInv, RecordInv, LoadSession
  PROVE  RecordInv'
<1>1. exchange \in Exchange /\ exchange.payload \in Payloads
  BY DEF LoadSession, RecordInv
<1>2. PICK error : exchange' = IF error = None THEN [exchange EXCEPT !.step = "validating"]
                               ELSE Exchanged(ErrorPayload(error))
  BY DEF LoadSession
<1>3. CASE error = None
  <2>1. exchange' \in Exchange /\ exchange'.payload = exchange.payload
    BY <1>1, <1>2, <1>3 DEF Exchange
  <2> QED
    BY <1>1, <2>1, ExchangeRecord DEF LoadSession, session
<1>4. CASE error # None
  BY <1>2, <1>4, ExchangedType, ExchangeRecord DEF LoadSession, session
<1> QED
  BY <1>3, <1>4

LEMMA ValidateRequestRecord ==
  ASSUME FlowInv, RecordInv, NEW jwks \in BOOLEAN, ValidateRequest(jwks)
  PROVE  RecordInv'
<1>1. exchange \in Exchange /\ exchange.payload \in Payloads
  BY DEF ValidateRequest, RecordInv
<1>2. PICK error : exchange' = IF error = None THEN [exchange EXCEPT !.step = "writing"]
                               ELSE Exchanged(ErrorPayload(error))
  BY DEF ValidateRequest
<1>3. CASE error = None
  <2>1. exchange' \in Exchange /\ exchange'.payload = exchange.payload
    BY <1>1, <1>2, <1>3 DEF Exchange
  <2> QED
    BY <1>1, <2>1, ExchangeRecord DEF ValidateRequest, session
<1>4. CASE error # None
  BY <1>2, <1>4, ExchangedType, ExchangeRecord DEF ValidateRequest, session
<1> QED
  BY <1>3, <1>4

LEMMA ConsumeAuthCodeRecord ==
  ASSUME FlowInv, RecordInv, ConsumeAuthCode
  PROVE  RecordInv'
<1>1. /\ exchange' \in Exchange
      /\ exchange'.step # "idle" => exchange'.payload \in Payloads
      /\ UNCHANGED <<opening, replica>>
  BY ExchangedType DEF ConsumeAuthCode, RecordInv
<1>2. CASE row' = row
  BY <1>1, <1>2, ExchangeRecord
<1>3. CASE row' # row
  <2>1. row # None /\ row' = [row EXCEPT !.authorizationCode = None, !.token = exchange.payload]
    BY <1>3 DEF ConsumeAuthCode
  <2>2. row \in Row /\ exchange.payload \in Payloads
    BY <2>1 DEF ConsumeAuthCode, RecordInv
  <2>3. row' \in Row
    BY <2>1, <2>2 DEF Row
  <2>4. row'.jwt = row.jwt /\ row'.addresses = row.addresses
    BY <2>1, <2>2 DEF Row
  <2>5. AddressesAsMeant'
    BY <2>1, <2>4 DEF RecordInv, AddressesAsMeant
  <2> QED
    BY <1>1, <2>3, <2>5 DEF RecordInv
<1> QED
  BY <1>2, <1>3

LEMMA CreateAuthCodeRecord ==
  ASSUME FlowInv, RecordInv, NEW code \in Codes, CreateAuthCode(code)
  PROVE  RecordInv'
<1>1. row # None /\ row \in Row /\ row' = [row EXCEPT !.authorizationCode = code]
  BY DEF CreateAuthCode, RecordInv
<1>2. row' \in Row /\ row'.jwt = row.jwt /\ row'.addresses = row.addresses
  BY <1>1 DEF Row
<1>3. AddressesAsMeant'
  BY <1>1, <1>2 DEF RecordInv, AddressesAsMeant
<1> QED
  BY <1>2, <1>3 DEF CreateAuthCode, RecordInv

LEMMA RecordStep == FlowInv /\ RecordInv /\ [Next]_vars => RecordInv'
<1> SUFFICES ASSUME FlowInv, RecordInv, [Next]_vars PROVE RecordInv'
  OBVIOUS
<1>1. CASE UNCHANGED vars
  BY <1>1 DEF vars, session, RecordInv, AddressesAsMeant
<1>2. ASSUME NEW client \in Clients, NEW jwt \in SessionJwts, NEW jwks \in BOOLEAN,
             StartSession(client, jwt, jwks)
      PROVE  RecordInv'
  BY <1>2 DEF StartSession, session, NextStep, RecordInv, AddressesAsMeant, Opening
<1>3. CASE InitSessionClientConfig
  BY <1>3 DEF InitSessionClientConfig, session, RecordInv, AddressesAsMeant, Opening
<1>4. CASE FailSession
  BY <1>4, OpenedType DEF FailSession, session, RecordInv, AddressesAsMeant
<1>5. ASSUME NEW payload \in Payloads, StartExchange(payload)
      PROVE  RecordInv'
  <2>1. CASE ValidPayload(payload)
    BY <1>5, <2>1 DEF StartExchange, session, RecordInv, AddressesAsMeant, Exchange
  <2>2. CASE ~ValidPayload(payload)
    BY <1>5, <2>2, ExchangedType DEF StartExchange, session, RecordInv, AddressesAsMeant
  <2> QED
    BY <2>1, <2>2
<1>6. CASE InitExchangeClientConfig
  BY <1>6 DEF InitExchangeClientConfig, session, RecordInv, AddressesAsMeant, Exchange
<1>7. CASE FailExchange
  BY <1>7, ExchangedType DEF FailExchange, session, RecordInv, AddressesAsMeant
<1>8. CASE RemoveSession
  BY <1>8 DEF RemoveSession, RecordInv, AddressesAsMeant
<1>9. CASE Replicate
  BY <1>9, EntryType DEF Replicate, RecordInv, AddressesAsMeant
<1>10. CASE Expire
  BY <1>10 DEF Expire, RecordInv, AddressesAsMeant
<1>11. ASSUME NEW f \in Functions, EndProcess(f)
       PROVE  RecordInv'
  BY <1>11 DEF EndProcess, session, RecordInv, AddressesAsMeant
<1>12. ASSUME NEW client \in Clients, NEW uri \in Uris, PutRedirectUri(client, uri)
       PROVE  RecordInv'
  BY <1>12 DEF PutRedirectUri, session, RecordInv, AddressesAsMeant
<1> QED
  BY <1>1, <1>2, <1>3, <1>4, <1>5, <1>6, <1>7, <1>8, <1>9, <1>10, <1>11, <1>12,
     ValidateJwtRecord, QuerySessionRecord, LoadSessionRecord, ValidateRequestRecord,
     ConsumeAuthCodeRecord, CreateAuthCodeRecord DEF Next

LEMMA RecordCorrect == Spec => []RecordInv
BY FlowCorrect, RecordInit, RecordStep, PTL DEF Spec

(* Every variable has its type.                                             *)
THEOREM TypeCorrect == Spec => []TypeOK
<1>1. FlowInv /\ RecordInv => TypeOK
  BY DEF FlowInv, RecordInv, TypeOK
<1> QED
  BY <1>1, FlowCorrect, RecordCorrect, PTL

(* Whatever driving permits a JWT shares, however long their addresses and   *)
(* however badly some are written, the row has the postal codes of those     *)
(* that are well written, exactly as meant and in their order, and what the  *)
(* JWT claims remains only if there is no such permit.                       *)
THEOREM AddressesAsMeantCorrect == Spec => []AddressesAsMeant
<1>1. RecordInv => AddressesAsMeant
  BY DEF RecordInv
<1> QED
  BY <1>1, RecordCorrect, PTL
---------------------------------------------------------------------------
(* Blame.                                                                   *)

LEMMA OpeningBlame ==
  ASSUME FlowInv, Next, opening.step # "idle", opening'.step = "idle",
         BlamesCaller(opening'.answer)
  PROVE  OpeningReason
<1>1. opening' # opening
  OBVIOUS
<1>2. ValidateJwt \/ FailSession
  BY <1>1 DEF Next, StartSession, InitSessionClientConfig, StartExchange, QuerySession,
     InitExchangeClientConfig, LoadSession, ValidateRequest, ConsumeAuthCode, FailExchange,
     CreateAuthCode, RemoveSession, Replicate, Expire, EndProcess, PutRedirectUri,
     FlowInv, OpeningInv
<1>3. CASE FailSession
  BY <1>3, Statuses DEF FailSession, Opened
<1>4. CASE ValidateJwt
  BY <1>4, Statuses DEF ValidateJwt, Opened, OpeningReason
<1> QED
  BY <1>2, <1>3, <1>4

\* An entry that is not there is a row that is not there, or a lag.
LEMMA NoEntry ==
  ASSUME RecordInv, NEW item \in {EntryOf(row), replica}, item = None
  PROVE  row = None \/ replica # EntryOf(row)
BY EntryType

LEMMA QuerySessionBlame ==
  ASSUME FlowInv, RecordInv, QuerySession, exchange'.step = "idle"
  PROVE  ExchangeReason
<1>1. PICK item \in {EntryOf(row), replica} :
        exchange' = IF item # None /\ item.authorizationCode = exchange.payload.code
                    THEN [exchange EXCEPT !.item = item,
                            !.step = NextStep("AccessTokenFn", item.clientId, "loading")]
                    ELSE Exchanged(ErrorPayload("InvalidAccessTokenError"))
  BY DEF QuerySession
<1>2. item = None \/ item.authorizationCode # exchange.payload.code
  <2>1. DOMAIN exchange = {"step", "payload", "item", "answer"}
    BY DEF FlowInv, ExchangeInv
  <2> QED
    BY <1>1, <2>1 DEF NextStep
<1>3. exchange.step \in {"querying", "loading"}
  BY DEF QuerySession
<1>4. CASE replica # EntryOf(row)
  BY <1>3, <1>4 DEF ExchangeReason
<1>5. CASE replica = EntryOf(row) /\ row # None
  <2>1. item = EntryOf(row) /\ item # None
    BY <1>5, EntryType
  <2>2. item.authorizationCode = row.authorizationCode
    BY <1>5, <2>1 DEF EntryOf
  <2> QED
    BY <1>2, <2>1, <2>2 DEF ExchangeReason, Redeemable
<1>6. CASE row = None
  BY <1>6 DEF ExchangeReason, Redeemable
<1> QED
  BY <1>4, <1>5, <1>6

LEMMA LoadSessionBlame ==
  ASSUME FlowInv, RecordInv, LoadSession, exchange'.step = "idle"
  PROVE  ExchangeReason
<1>1. PICK item \in {EntryOf(row), replica} : \E error \in LoadErrors(item) :
        exchange' = IF error = None THEN [exchange EXCEPT !.step = "validating"]
                    ELSE Exchanged(ErrorPayload(error))
  BY DEF LoadSession
<1>2. PICK error \in LoadErrors(item) :
        exchange' = IF error = None THEN [exchange EXCEPT !.step = "validating"]
                    ELSE Exchanged(ErrorPayload(error))
  BY <1>1
<1>3. error # None
  <2>1. DOMAIN exchange = {"step", "payload", "item", "answer"}
    BY DEF FlowInv, ExchangeInv
  <2> QED
    BY <1>2, <2>1
<1>4. item = None \/ due
  BY <1>3 DEF LoadErrors
<1>5. exchange.step \in {"querying", "loading"}
  BY DEF LoadSession
<1> QED
  BY <1>4, <1>5, NoEntry DEF ExchangeReason, Redeemable

\* What is left of a request to be refused for, once its code has been found, is
\* its redirect URI.
LEMMA ValidateRequestBlame ==
  ASSUME FlowInv, NEW jwks \in BOOLEAN, ValidateRequest(jwks), exchange'.step = "idle",
         BlamesCaller(exchange'.answer)
  PROVE  ExchangeReason
<1> DEFINE client == exchange.item.clientId
           config == kept["AccessTokenFn"][client]
           body == EventBody(exchange.item, exchange.payload)
           error == TokenRequestError(body, config, jwks)
<1>1. /\ exchange.step = "validating"
      /\ exchange.payload \in RequestPayload
      /\ OfSession(exchange.item)
      /\ exchange.item.authorizationCode = exchange.payload.code
      /\ DOMAIN exchange = {"step", "payload", "item", "answer"}
  BY DEF ValidateRequest, FlowInv, ExchangeInv
<1>2. error # None /\ BlamesCaller(ErrorPayload(error))
  <2>1. exchange' = IF error = None THEN [exchange EXCEPT !.step = "writing"]
                    ELSE Exchanged(ErrorPayload(error))
    BY DEF ValidateRequest
  <2> HIDE DEF error
  <2>2. error # None
    BY <1>1, <2>1
  <2> QED
    BY <2>1, <2>2 DEF Exchanged
<1>3. config.redirectUri # exchange.payload.redirectUri
  <2> SUFFICES ASSUME config.redirectUri = exchange.payload.redirectUri PROVE FALSE
    OBVIOUS
  <2>1. error = "JOSEError"
    BY <1>1, <1>2, EventBodyFields DEF TokenRequestError, RecordError
  <2> QED
    BY <1>2, <2>1, Statuses
<1>4. \/ exchange.payload.redirectUri # store[client].redirectUri
      \/ kept["AccessTokenFn"][client] # store[client]
  BY <1>3
<1> QED
  BY <1>1, <1>4 DEF ExchangeReason

LEMMA ConsumeAuthCodeBlame ==
  ASSUME FlowInv, ConsumeAuthCode, exchange'.step = "idle", BlamesCaller(exchange'.answer)
  PROVE  ExchangeReason
<1>1. exchange.item.authorizationCode = exchange.payload.code
  BY DEF ConsumeAuthCode, FlowInv, ExchangeInv
<1>2. \/ exchange' = Exchanged(200)
      \/ ~(row # None /\ row.authorizationCode = exchange.item.authorizationCode)
      \/ due
  BY DEF ConsumeAuthCode
<1>3. exchange' # Exchanged(200)
  BY Statuses DEF Exchanged
<1> QED
  BY <1>1, <1>2, <1>3 DEF ExchangeReason, Redeemable

LEMMA ExchangeBlame ==
  ASSUME FlowInv, RecordInv, Next, exchange.step # "idle", exchange'.step = "idle",
         BlamesCaller(exchange'.answer)
  PROVE  ExchangeReason
<1>1. exchange' # exchange
  OBVIOUS
<1>2. \/ QuerySession \/ LoadSession \/ ConsumeAuthCode \/ FailExchange
      \/ \E jwks \in BOOLEAN : ValidateRequest(jwks)
  BY <1>1 DEF Next, StartSession, InitSessionClientConfig, ValidateJwt, FailSession,
     StartExchange, InitExchangeClientConfig, CreateAuthCode, RemoveSession, Replicate, Expire,
     EndProcess, PutRedirectUri, FlowInv, ExchangeInv
<1>3. CASE FailExchange
  BY <1>3, Statuses DEF FailExchange, Exchanged
<1> QED
  BY <1>2, <1>3, QuerySessionBlame, LoadSessionBlame, ValidateRequestBlame, ConsumeAuthCodeBlame

(* A request that is under way is blamed on its caller only for a reason.    *)
(* At SessionFn: the client's keys cannot be had, the JWT is not what the    *)
(* parameter store asks for, or the process has kept an older configuration. *)
(* At AccessTokenFn: the code does not buy a token as the session is, be it  *)
(* gone, replaced, used, by this very request too, or come to a date; while  *)
(* the session is read, the index or a copy of the table lags behind; or,    *)
(* while the request is checked, its redirect URI is not the one in the      *)
(* parameter store, or the process has kept an older one.                    *)
THEOREM BlameHasReasonCorrect == Spec => BlameHasReason
<1> DEFINE Reasons ==
      /\ opening.step # "idle" /\ opening'.step = "idle" /\ BlamesCaller(opening'.answer)
           => OpeningReason
      /\ exchange.step # "idle" /\ exchange'.step = "idle" /\ BlamesCaller(exchange'.answer)
           => ExchangeReason
<1>1. FlowInv /\ RecordInv /\ [Next]_vars => [Reasons]_vars
  BY OpeningBlame, ExchangeBlame
<1> QED
  BY <1>1, FlowCorrect, RecordCorrect, PTL DEF Spec, BlameHasReason
===========================================================================
