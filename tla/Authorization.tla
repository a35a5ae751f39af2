--------------------------- MODULE Authorization ---------------------------
(* AuthorizationFn: hands the session's authorization code to the caller.   *)
(*                                                                          *)
(* One GetItem, by session id, and an answer made from the row it returns:  *)
(* no row, 400; a row without a code, 403 access_denied; a row with a code, *)
(* 200 with the code.  Neither the session's expiry nor the code's is       *)
(* looked at, and the row may be a stale copy.                              *)
EXTENDS DynamoTables

VARIABLE
  handedOut   \* the codes that some 200 answer has carried

AuthorizationInit == handedOut = {}

\* getSessionByIdMiddleware, and the answer made from the row.
Authorize(s) ==
  /\ \E item \in GetItem(s) :
       \/ /\ Attributes(item).authorizationCode = None
          /\ UNCHANGED handedOut
       \/ /\ Attributes(item).authorizationCode # None
          /\ handedOut' = handedOut \cup {item.authorizationCode}
  /\ UNCHANGED tableVars

AuthorizationTypeOK == handedOut \subseteq Codes
=============================================================================
