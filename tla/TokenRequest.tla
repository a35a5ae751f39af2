---------------------------- MODULE TokenRequest ----------------------------
(* AccessTokenRequestValidator, and the middlewares that put together what   *)
(* it looks at: the row that the index has for the code, overridden by the   *)
(* parameters of the request.                                                *)
EXTENDS SessionRequest

CONSTANTS Codes, None

\* sound: the algorithm and the audience are right, neither exp nor jti is
\* missing, and the JWT is used in its time.
ClientAssertion == [signer: Clients, issuer: Clients, subject: Clients, sound: BOOLEAN]

\* types: grant_type and client_assertion_type have the only values allowed.
RequestPayload ==
  [code: Codes \cup {None}, redirectUri: Uris \cup {None},
   client_assertion: ClientAssertion \cup {None}, types: BOOLEAN]

\* validatePayload, whose InvalidRequestErrors are all alike.
ValidPayload(payload) ==
  /\ None \notin {payload.code, payload.redirectUri, payload.client_assertion}
  /\ payload.types

\* { ...first, ...second }
Spread(first, second) ==
  [f \in DOMAIN first \cup DOMAIN second |-> IF f \in DOMAIN second THEN second[f] ELSE first[f]]

\* A wrong variant, for the mutants: the row overrides the request.
RowFirst(sessionItem, requestPayload) == Spread(requestPayload, sessionItem)

\* The redirectUri of the result is that of the request.
EventBody(sessionItem, requestPayload) == Spread(sessionItem, requestPayload)

\* validateTokenRequestToRecord: the error it throws, or None.
RecordError(body, expectedRedirectUri) ==
  IF body.code # body.authorizationCode THEN "InvalidAccessTokenError"
  ELSE IF expectedRedirectUri # body.redirectUri THEN "InvalidRequestError"
  ELSE None

\* verifyJwtSignature.  It never resolves to nothing: it throws the error of
\* the library, which is no InvalidRequestError.
VerifiedAssertion(jwt, clientId, config) ==
  /\ jwt.signer = config.jwksEndpoint
  /\ jwt.subject = clientId
  /\ jwt.issuer = clientId
  /\ jwt.sound
===========================================================================
