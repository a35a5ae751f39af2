------------------------------- MODULE Errors -------------------------------
(* The status that an error is answered with: a BaseError by its own, and    *)
(* any other error, of a library or of AWS as a rule, by 500.                *)
EXTENDS Naturals

BaseErrors ==
  [InvalidAccessTokenError |-> 403, InvalidRequestError |-> 400, InvalidPayloadError |-> 400,
   ServerError |-> 500, JweDecrypterError |-> 403, GenericServerError |-> 500,
   JwtSignatureValidationError |-> 403, SessionNotFoundError |-> 400,
   SessionValidationError |-> 400, AuthorizationCodeExpiredError |-> 403,
   SessionExpiredError |-> 403, AccessDeniedError |-> 403]

\* A wrong variant, for the mutants: an unforeseen error is the caller's.
ErrorPayloadBlaming(error) == IF error \in DOMAIN BaseErrors THEN BaseErrors[error] ELSE 400

\* errorPayload
ErrorPayload(error) == IF error \in DOMAIN BaseErrors THEN BaseErrors[error] ELSE 500

\* The statuses that put the blame on the caller.
BlamesCaller(status) == status \in 400..499
===========================================================================
