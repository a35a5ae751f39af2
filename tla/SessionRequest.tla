--------------------------- MODULE SessionRequest ---------------------------
(* SessionRequestValidator: whether the decrypted JWT of a session request   *)
(* is that of the client the request names, and what of it the row keeps.    *)
(*                                                                           *)
(* An issuer and a JWKS endpoint stand for the client they belong to, and a  *)
(* signer for the client whose published key verifies the signature.         *)
CONSTANTS
  Clients, Uris,
  DrivingPermits   \* the sequences of driving permits that JWTs share

\* What a process knows of a client.
ClientConfig == [issuer: Clients, jwksEndpoint: Clients, redirectUri: Uris]

Claim == {"absent", "valid", "invalid"}

\* sound: the algorithm and the audience are right, none of exp, sub, nbf and
\* state is missing, and the JWT is used in its time.
SessionJwt ==
  [signer: Clients, issuer: Clients, sound: BOOLEAN,
   clientId: Clients, redirectUri: Uris,
   evidenceRequested: Claim, vtr: Claim, storageAccessToken: Claim,
   drivingPermits: DrivingPermits]

\* verifyJwtSignature
VerifiedSignature(jwt, config) ==
  /\ jwt.signer = config.jwksEndpoint
  /\ jwt.issuer = config.issuer
  /\ jwt.sound

\* validateIpvClaim: a schema applies to a claim that is there.
ValidIpvClaim(claim, ipvClaimsRequired) ==
  /\ claim # "invalid"
  /\ claim = "absent" => ~ipvClaimsRequired

ValidClaims(jwt, ipvClaimsRequired) ==
  /\ jwt.evidenceRequested # "invalid"
  /\ ValidIpvClaim(jwt.vtr, ipvClaimsRequired)
  /\ ValidIpvClaim(jwt.storageAccessToken, ipvClaimsRequired)

\* A wrong variant, for the mutants: the JWT may name another client.
ValidJwtOfSomeone(jwt, clientId, config, ipvClaimsRequired) ==
  /\ VerifiedSignature(jwt, config)
  /\ ValidClaims(jwt, ipvClaimsRequired)
  /\ config.redirectUri = jwt.redirectUri

\* validateJwt: all that it finds wrong is a SessionValidationError.
ValidJwt(jwt, clientId, config, ipvClaimsRequired) ==
  /\ VerifiedSignature(jwt, config)
  /\ ValidClaims(jwt, ipvClaimsRequired)
  /\ jwt.clientId = clientId
  /\ config.redirectUri = jwt.redirectUri

\* getStorageAccessToken: whether there is a token, by the schema applied
\* again, which takes a claim that fails it for a missing one.
StorageAccessToken(jwt) == jwt.storageAccessToken = "valid"

\* A wrong variant, for the mutants: the storage access token is forgotten.
SummaryWithoutToken(jwt) ==
  [clientId |-> jwt.clientId, redirectUri |-> jwt.redirectUri, vtr |-> jwt.vtr # "absent"]

\* createSessionRequestSummary: what the row keeps of it.
SessionRequestSummary(jwt) ==
  [clientId |-> jwt.clientId, redirectUri |-> jwt.redirectUri,
   vtr |-> jwt.vtr # "absent", storageAccessToken |-> StorageAccessToken(jwt)]
===========================================================================
