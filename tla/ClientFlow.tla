----------------------------- MODULE ClientFlow -----------------------------
(* A client opens a session and buys a token: the checks of SessionFn and of *)
(* AccessTokenFn, each made by a warm process with the configuration of the  *)
(* client that the process has kept since its first request for it.          *)
(*                                                                           *)
(* The two processes need not have kept the same: a client may be given      *)
(* another redirect URI at any time, and only what a process has not loaded  *)
(* yet is the new one.  Nor need a read show the session as it is: the index *)
(* and the copies of the table lag behind, the answer to a write may be lost *)
(* and the write sent again, and the session may expire or be deleted.  What *)
(* the provider's cache adds to the age of a configuration is in             *)
(* ConfigCache; dates, and races for a code, are in OAuthFlow.  The module   *)
(* describes one session.                                                    *)
EXTENDS TokenRequest, PersonIdentity, Errors

CONSTANTS
  SessionJwts,  \* the JWTs that are sent
  Payloads      \* the payloads of the token requests that are sent

ASSUME RequestsAssumption ==
  /\ DrivingPermits \subseteq Seq(DrivingPermit)
  /\ SessionJwts \subseteq SessionJwt
  /\ Payloads \subseteq RequestPayload

Functions == {"SessionFn", "AccessTokenFn"}

\* The address that every JWT claims for the person.
Claimed == <<"claimed">>

VARIABLES
  ipvClaimsRequired, \* the deployment asks for the claims of an IPV request
  store,             \* [Clients -> the configuration in the parameter store]
  kept,              \* [Functions -> [Clients -> what the process has kept, or None]]
  opening,           \* the request that the process of SessionFn serves
  row,               \* the session, or None
  replica,           \* what the index and the copies of the table show of it, or None
  due,               \* the session or its code has come to its expiry date
  exchange,          \* the request that the process of AccessTokenFn serves
  moved              \* the clients whose configuration has changed since it was read

session == <<row, replica, due>>
vars == <<ipvClaimsRequired, store, kept, opening, row, replica, due, exchange, moved>>

\* jwt and token are what the session and its token were given for.
Row ==
  [clientId: Clients, redirectUri: Uris, vtr: BOOLEAN, storageAccessToken: BOOLEAN,
   addresses: Seq(Text) \cup {<<Claimed>>},
   authorizationCode: Codes \cup {None}, jwt: SessionJwts, token: Payloads \cup {None}]

\* What the index projects of a row, which is all that a check looks at.
Entry == [clientId: Clients, redirectUri: Uris, authorizationCode: Codes \cup {None}]

ASSUME NoneAssumption ==
  /\ None \notin Nat \cup Codes \cup Uris \cup Clients \cup DOMAIN BaseErrors \cup {"JOSEError"}
  /\ None \notin ClientConfig \cup Entry

EntryOf(item) ==
  IF item = None THEN None
  ELSE [clientId |-> item.clientId, redirectUri |-> item.redirectUri,
        authorizationCode |-> item.authorizationCode]

\* jwks says whether the keys at the JWKS endpoint can be had.
Opening ==
  [step: {"idle", "configuring", "validating"}, clientId: Clients \cup {None},
   jwt: SessionJwts \cup {None}, jwks: BOOLEAN, answer: {None, 201} \cup 400..599]

\* item is the entry that the index has answered with.
Exchange ==
  [step: {"idle", "querying", "configuring", "loading", "validating", "writing"},
   payload: Payloads \cup {None}, item: Entry \cup {None}, answer: {None, 200} \cup 400..599]

Opened(status) ==
  [step |-> "idle", clientId |-> None, jwt |-> None, jwks |-> FALSE, answer |-> status]
Exchanged(status) ==
  [step |-> "idle", payload |-> None, item |-> None, answer |-> status]

Init ==
  /\ ipvClaimsRequired \in BOOLEAN
  /\ \E uris \in [Clients -> Uris] :
       store = [c \in Clients |-> [issuer |-> c, jwksEndpoint |-> c, redirectUri |-> uris[c]]]
  /\ kept = [f \in Functions |-> [c \in Clients |-> None]]
  /\ opening = Opened(None)
  /\ row = None /\ replica = None /\ due = FALSE
  /\ exchange = Exchanged(None)
  /\ moved = {}

---------------------------------------------------------------------------
(* initialiseClientConfigMiddleware of a function.                          *)

NextStep(f, client, next) == IF kept[f][client] = None THEN "configuring" ELSE next

KeepClientConfig(f, client) == kept' = [kept EXCEPT ![f][client] = store[client]]

---------------------------------------------------------------------------
(* SessionFn, from the decrypted request on.                                *)

StartSession(clientId, jwt, jwks) ==
  /\ opening.step = "idle" /\ opening.answer # 201
  /\ opening' = [step |-> NextStep("SessionFn", clientId, "validating"), clientId |-> clientId,
                 jwt |-> jwt, jwks |-> jwks, answer |-> None]
  /\ UNCHANGED <<ipvClaimsRequired, store, kept, session, exchange, moved>>

InitSessionClientConfig ==
  /\ opening.step = "configuring"
  /\ KeepClientConfig("SessionFn", opening.clientId)
  /\ opening' = [opening EXCEPT !.step = "validating"]
  /\ UNCHANGED <<ipvClaimsRequired, store, session, exchange, moved>>

\* validateJwtMiddleware, and the handler up to its answer; addresses are those
\* of the person-identity row.  Keys that cannot be had are a fault of the JWT.
ValidateJwt ==
  LET jwt == opening.jwt
      config == kept["SessionFn"][opening.clientId]
      valid == opening.jwks /\ ValidJwt(jwt, opening.clientId, config, ipvClaimsRequired)
      summary == SessionRequestSummary(jwt)
  IN /\ opening.step = "validating"
     /\ \/ /\ valid
           /\ row' = Spread(summary,
                            [authorizationCode |-> None, jwt |-> jwt, token |-> None,
                             addresses |-> Addresses(jwt.drivingPermits, <<Claimed>>)])
           /\ opening' = Opened(201)
        \/ /\ ~valid
           /\ opening' = Opened(ErrorPayload("SessionValidationError"))
           /\ UNCHANGED row
     /\ UNCHANGED <<ipvClaimsRequired, store, kept, replica, due, exchange, moved>>

\* A parameter cannot be read, or a request of the handler fails.
FailSession ==
  /\ opening.step # "idle"
  /\ opening' = Opened(ErrorPayload("Error"))
  /\ UNCHANGED <<ipvClaimsRequired, store, kept, session, exchange, moved>>

---------------------------------------------------------------------------
(* AccessTokenFn.                                                           *)

StartExchange(payload) ==
  /\ exchange.step = "idle" /\ opening.answer = 201
  /\ exchange' = IF ValidPayload(payload)
                 THEN [step |-> "querying", payload |-> payload, item |-> None, answer |-> None]
                 ELSE Exchanged(ErrorPayload("InvalidRequestError"))
  /\ UNCHANGED <<ipvClaimsRequired, store, kept, opening, session, moved>>

\* getSessionByAuthCodeMiddleware: the index has an entry for the code, or not.
QuerySession ==
  /\ exchange.step = "querying"
  /\ \E item \in {EntryOf(row), replica} :
       exchange' = IF item # None /\ item.authorizationCode = exchange.payload.code
                   THEN [exchange EXCEPT !.item = item,
                           !.step = NextStep("AccessTokenFn", item.clientId, "loading")]
                   ELSE Exchanged(ErrorPayload("InvalidAccessTokenError"))
  /\ UNCHANGED <<ipvClaimsRequired, store, kept, opening, session, moved>>

InitExchangeClientConfig ==
  /\ exchange.step = "configuring"
  /\ KeepClientConfig("AccessTokenFn", exchange.item.clientId)
  /\ exchange' = [exchange EXCEPT !.step = "loading"]
  /\ UNCHANGED <<ipvClaimsRequired, store, opening, session, moved>>

\* What the row that has been read is refused with, or None: when a date has
\* come, either of them may have passed by the clock, or none as yet.
LoadErrors(item) ==
  IF item = None THEN {"SessionNotFoundError"}
  ELSE {None} \cup IF due THEN {"SessionExpiredError", "AuthorizationCodeExpiredError"} ELSE {}

\* getSessionByIdMiddleware.  The entry of the index stays on top of the row.
LoadSession ==
  /\ exchange.step = "loading"
  /\ \E item \in {EntryOf(row), replica} : \E error \in LoadErrors(item) :
       exchange' = IF error = None THEN [exchange EXCEPT !.step = "validating"]
                   ELSE Exchanged(ErrorPayload(error))
  /\ UNCHANGED <<ipvClaimsRequired, store, kept, opening, session, moved>>

\* What the handler refuses the request with, or None.
TokenRequestError(body, config, jwks) ==
  LET error == RecordError(body, config.redirectUri)
      verified == jwks /\ VerifiedAssertion(body.client_assertion, body.clientId, config)
  IN IF error = None /\ ~verified THEN "JOSEError" ELSE error

\* AccessTokenLambda.handler, up to its update.
ValidateRequest(jwks) ==
  LET config == kept["AccessTokenFn"][exchange.item.clientId]
      error == TokenRequestError(EventBody(exchange.item, exchange.payload), config, jwks)
  IN /\ exchange.step = "validating"
     /\ exchange' = IF error = None THEN [exchange EXCEPT !.step = "writing"]
                    ELSE Exchanged(ErrorPayload(error))
     /\ UNCHANGED <<ipvClaimsRequired, store, kept, opening, session, moved>>

\* createAccessTokenCodeAndRemoveAuthCode: one arrival of the update.  Its
\* answer may be lost, after which the SDK sends it again.
ConsumeAuthCode ==
  LET holds == row # None /\ row.authorizationCode = exchange.item.authorizationCode
      answered(status) == exchange' \in {Exchanged(status), exchange}
  IN /\ exchange.step = "writing"
     /\ \/ /\ holds
           /\ row' = [row EXCEPT !.authorizationCode = None, !.token = exchange.payload]
           /\ answered(200)
        \/ /\ ~holds \/ due
           /\ UNCHANGED row
           /\ answered(ErrorPayload("InvalidAccessTokenError"))
     /\ UNCHANGED <<ipvClaimsRequired, store, kept, opening, replica, due, moved>>

FailExchange ==
  /\ exchange.step # "idle"
  /\ exchange' = Exchanged(ErrorPayload("Error"))
  /\ UNCHANGED <<ipvClaimsRequired, store, kept, opening, session, moved>>

---------------------------------------------------------------------------
(* The surroundings.                                                        *)

\* What the other functions do to the session: CreateAuthCodeFn gives it a
\* code, if it has none or an expired one, and possibly one it had, by sending
\* the update again; DeleteSessionFn, or the TTL, takes the row away.
CreateAuthCode(code) ==
  /\ row # None
  /\ row.authorizationCode = None \/ due
  /\ row' = [row EXCEPT !.authorizationCode = code]
  /\ UNCHANGED <<ipvClaimsRequired, store, kept, opening, replica, due, exchange, moved>>

\* Something is still there that was read from the configuration of the client.
Held(client) ==
  \/ \E f \in Functions : kept[f][client] # None
  \/ row # None /\ row.clientId = client

RemoveSession ==
  /\ row # None
  /\ row' = None
  /\ UNCHANGED <<ipvClaimsRequired, store, kept, opening, replica, due, exchange>>
  /\ moved' = {client \in moved : Held(client)'}

Replicate ==
  /\ replica # EntryOf(row)
  /\ replica' = EntryOf(row)
  /\ UNCHANGED <<ipvClaimsRequired, store, kept, opening, row, due, exchange, moved>>

\* The session, or its code, comes to its expiry date.
Expire ==
  /\ row # None /\ ~due
  /\ due' = TRUE
  /\ UNCHANGED <<ipvClaimsRequired, store, kept, opening, row, replica, exchange, moved>>

\* Between two requests, the platform ends a process.
EndProcess(f) ==
  /\ IF f = "SessionFn" THEN opening.step = "idle" ELSE exchange.step = "idle"
  /\ kept' = [kept EXCEPT ![f] = [c \in Clients |-> None]]
  /\ UNCHANGED <<ipvClaimsRequired, store, opening, session, exchange>>
  /\ moved' = {client \in moved : Held(client)'}

PutRedirectUri(client, uri) ==
  /\ uri # store[client].redirectUri
  /\ store' = [store EXCEPT ![client].redirectUri = uri]
  /\ moved' = IF Held(client) THEN moved \cup {client} ELSE moved
  /\ UNCHANGED <<ipvClaimsRequired, kept, opening, session, exchange>>

Next ==
  \/ \E client \in Clients, jwt \in SessionJwts, jwks \in BOOLEAN : StartSession(client, jwt, jwks)
  \/ InitSessionClientConfig
  \/ ValidateJwt
  \/ FailSession
  \/ \E payload \in Payloads : StartExchange(payload)
  \/ QuerySession
  \/ InitExchangeClientConfig
  \/ LoadSession
  \/ \E jwks \in BOOLEAN : ValidateRequest(jwks)
  \/ ConsumeAuthCode
  \/ FailExchange
  \/ \E code \in Codes : CreateAuthCode(code)
  \/ RemoveSession
  \/ Replicate
  \/ Expire
  \/ \E f \in Functions : EndProcess(f)
  \/ \E client \in Clients, uri \in Uris : PutRedirectUri(client, uri)

Spec == Init /\ [][Next]_vars

---------------------------------------------------------------------------
\* Every variable has its type.
TypeOK ==
  /\ ipvClaimsRequired \in BOOLEAN
  /\ store \in [Clients -> ClientConfig]
  /\ kept \in [Functions -> [Clients -> ClientConfig \cup {None}]]
  /\ opening \in Opening
  /\ row \in Row \cup {None}
  /\ replica \in Entry \cup {None}
  /\ due \in BOOLEAN
  /\ exchange \in Exchange
  /\ moved \subseteq Clients

\* Whatever client a request names, a session is the client's whose keys have
\* signed its JWT, and so is its token; an IPV session has both of its claims.
SessionOfItsClient ==
  row # None =>
    /\ row.clientId = row.jwt.signer
    /\ row.clientId = row.jwt.issuer
    /\ ipvClaimsRequired => row.vtr /\ row.storageAccessToken
    /\ row.token # None =>
         /\ row.clientId = row.token.client_assertion.signer
         /\ row.clientId = row.token.client_assertion.issuer
         /\ row.clientId = row.token.client_assertion.subject

\* The addresses of a person are the postal codes of their driving permits, in
\* their order, and exactly as meant where the address is well written, of
\* which nothing is kept but the code; or those that the request claims, if no
\* permit has such a code.
AddressesAsMeant ==
  row # None => AddressesOf(row.jwt.drivingPermits, <<Claimed>>, row.addresses)

\* The redirect URI that a token is bought with is that of its session, which
\* no line of the code compares it with, unless the client was given another
\* one while a process, or the row, still had the old one: both equal one
\* configuration, kept by two processes.
RedirectUrisAgree ==
  row # None /\ row.token # None /\ row.token.redirectUri # row.redirectUri
  => row.clientId \in moved

\* What SessionFn may answer with a 4xx for: the keys cannot be had, the JWT is
\* not what the parameter store asks for, or the process has kept something else.
OpeningReason ==
  LET client == opening.clientId
  IN \/ ~opening.jwks
     \/ ~ValidJwt(opening.jwt, client, store[client], ipvClaimsRequired)
     \/ kept["SessionFn"][client] # store[client]

\* The code of the request buys a token as the session is now.
Redeemable ==
  /\ row # None
  /\ row.authorizationCode = exchange.payload.code
  /\ ~due

\* What AccessTokenFn may: the code does not buy a token, be it that this very
\* request has bought one with it already; a read is stale; or the redirect
\* URI is not the one in the parameter store, or not the one kept.
ExchangeReason ==
  LET client == exchange.item.clientId
  IN \/ ~Redeemable
     \/ exchange.step \in {"querying", "loading"} /\ replica # EntryOf(row)
     \/ /\ exchange.step = "validating"
        /\ \/ exchange.payload.redirectUri # store[client].redirectUri
           \/ kept["AccessTokenFn"][client] # store[client]

\* A request that is under way is blamed on its caller for one of these reasons
\* only, and for each at the step at which it can arise: no other failure gets a
\* 4xx, neither an assertion of AccessTokenFn that does not verify nor keys that
\* it cannot have, and what is past the reads is no longer refused for a lag.
BlameHasReason ==
  [][/\ opening.step # "idle" /\ opening'.step = "idle" /\ BlamesCaller(opening'.answer)
        => OpeningReason
     /\ exchange.step # "idle" /\ exchange'.step = "idle" /\ BlamesCaller(exchange'.answer)
        => ExchangeReason]_vars
===========================================================================
