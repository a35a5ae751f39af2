# A TLA+ model of the OAuth Lambda functions

These modules model the Lambda functions under `src/lambdas/src` that a
credential issuer (CRI) uses to open a session, hand out an authorization code
and exchange it for a bearer token. TLC checks them on small instances, and
TLAPS proves all of their invariants and action properties, and the two
refinements, for every value of the constants.

## 1. The system

The functions keep no state of their own between two requests, apart from
caches in a warm process. What one request leaves for the next is a row of one
of two DynamoDB tables: the **session table** and the **person-identity
table**. Both have a TTL on `expiryDate`.

| Component | Code | State | Operations |
|---|---|---|---|
| Session table | `infrastructure/template.yaml` `SessionTable`, `services/session-service.ts` | one row a session: `expiryDate`, `authorizationCode`, `authorizationCodeExpiryDate`, `accessToken`, `sessionData`, ... and an index by code | conditional updates, stale reads, index query, expiry |
| Person-identity table | `PersonIdentityTable`, `services/person-identity-service.ts` | one row a session that came with shared claims | put, delete, expiry |
| SessionFn | `handlers/session-handler.ts` | - | decrypt, validate, put session, put identity, send audit event, answer 201 |
| CreateAuthCodeFn | `handlers/create-auth-code-handler.ts` | - | one conditional update; 201, 200 or 404 |
| AuthorizationFn | `handlers/authorization-handler.ts` | - | one read; 200 with the code, 403 or 400 |
| AccessTokenFn | `handlers/access-token-handler.ts` and four middlewares | - | query by code, read by id, check expiries, verify JWT, conditional update |
| DeleteSessionFn | `handlers/delete-session-handler.ts` | - | read, transaction over both tables |
| UpdateSessionDataFn | `handlers/update-session-data-handler.ts` | - | two conditional updates of `sessionData` |
| RetrieveSessionFn | `handlers/retrieve-session-handler.ts` | - | one read, which may be stale |
| JWT verification | `common/security/jwt-verifier.ts` | the JWKS cache of the process | fetch, keep, throw away, verify |
| Configuration | `common/config/config-service.ts`, two middlewares | configuration kept by the process | load once, look up |
| JWE decryption | `services/security/jwe-decrypter.ts` | the id of the legacy key, kept by the process | try three key aliases, then a legacy key |
| Request validation | `services/session-request-validator.ts`, `services/token-request-validator.ts` | - | checks of a session and of a token request |
| Shared claims | `services/person-identity-service.ts` | - | extract postal codes, copy the rest |
| Errors | `common/utils/errors.ts` | - | the status of each error |

**How they interact.** Through rows only. The caller opens a session and gets
its id (SessionFn); another part of the CRI asks for a code once the user is
through (CreateAuthCodeFn); the caller fetches the code (AuthorizationFn) and
exchanges it (AccessTokenFn). Any number of invocations run at a time. Inside a
function the middlewares hand an event on: `event.body` of AccessTokenFn is the
row with the parameters of the request spread over it.

**What is hard.**
- Every function makes several requests, and anything may happen between two of
  them. What it decided on may be stale: `GetCommand` does not ask for a
  consistent read, and an index never gives one. Only the condition of the last
  write is evaluated on the current row.
- The AWS SDK sends a request again when its answer is lost. An update that has
  been applied may be applied again, later, with the clock reading of its first
  attempt.
- The clock is read before a request is sent; dates are compared with `<` in one
  place and `>` in another, and a missing date makes a comparison false.
- SessionFn writes both rows in separate requests and undoes nothing.
- A warm process keeps JWKS keys, client configuration and a key id that their
  owner may change in the meantime, and two functions keep their own.
- The three key aliases are tried one after the other while a rotation moves them.
- TTL removes the rows of each table on its own, at some time after they expire.

`PROJECT.json` lists each of these under `hazards`, at the line where it bites.

**What makes each part correct.**
- *Codes and tokens*: a code buys at most one token; it does so before it and
  its session expire; a code that has not expired is not replaced; nothing of
  one session ends up in the row of another.
- *Deletion and expiry*: a confirmed deletion is final; the identity lasts as
  long as its session; no write puts the end of a row off; all personal data is
  erased in the end.
- *Session data*: merges of different keys do not undo each other, of two merges
  of one key the later wins, a retrieval never shows part of a merge; the document
  path of the second update exists; the two updates amount to one.
- *Configuration*: what is kept, for some time or for good, is complete and was recent.
- *JWKS cache*: a rotation of keys costs little, and a withdrawn key lapses.
- *Decryption*: a key that is handed on from newer to older aliases is found; the
  legacy key works wherever it may be used.
- *Validation*: a session and its token belong to the client whose key signed for
  them; both name one redirect URI; a request that is blamed on its caller is blamed for a
  reason that can be named.
- *Addresses*: what is cut out of an address is its postal code.

## 2. The modules

| Module | Models | State |
|---|---|---|
| `DynamoTables` | both tables, stale copies, TTL, the clock | `now`, `table`, `replica`, `identity` |
| `SessionLambda` | SessionFn, what it writes | `session`: one invocation for each session id |
| `CreateAuthCode` | CreateAuthCodeFn | `create`: one invocation for each code |
| `Authorization` | AuthorizationFn | `handedOut` |
| `AccessToken` | AccessTokenFn, what it reads and writes | `exchange`: one invocation for each token |
| `DeleteSession` | DeleteSessionFn | `deletion`: a number of invocations |
| `OAuthFlow` | the five functions over the tables, and the properties | all of the above |
| `OneTimeCode` | what the API promises about codes (abstract) | `offers`, `live`, `bought` |
| `SessionData` | UpdateSessionDataFn and RetrieveSessionFn over one row | `row`, `replica`, `update`, `retrieved` |
| `MergedDocument` | what the two promise about session data (abstract) | `doc`, `copy`, `call`, `shown` |
| `JwksCache` | `JwtVerifier` and its cache | `cachedJWKS`, `request`, the client's keys |
| `ConfigCache` | `ConfigService` and the SSM provider's cache | `configEntries`, `clientConfig`, `ssmCache`, `request`, the parameter store |
| `JweDecrypter` | `JweDecrypter` and the feature flags around it | `request`, `kmsEncryptionKeyId`, `configEntry`, the aliases, the parameter |
| `SessionRequest`, `TokenRequest` | the checks of both validators, what the row keeps of a JWT, the spread body | none: operators |
| `PersonIdentity` | postal codes, with `AddressesOf` as reference | none: operators |
| `Errors` | `errors.ts` | none: operators |
| `ClientFlow` | SessionFn and AccessTokenFn of two warm processes, over the four above | `kept`, `opening`, `row`, `replica`, `due`, `exchange`, the parameter store |
| `OAuthFlowProofs`, `RowProofs` | proofs about `OAuthFlow` | |
| `JwksCacheProofs`, `ConfigCacheProofs`, `JweDecrypterProofs`, `SessionDataProofs`, `PersonIdentityProofs`, `ClientFlowProofs` | proofs about the module each is named after | |
| `MC...` | constants and symmetry for TLC | |

Each component module has one action for each request the handler makes, with
the decision it makes on the answer, and one `Fail` action for the `catch` of
the handler, any error that ends the invocation and the time limit of the
platform. `OAuthFlow` adds what the others keep, and who may know what: a
session id is used only after SessionFn has told it, a code only after
AuthorizationFn has handed it out.

`OAuthFlow` and `ClientFlow` look at the same two functions from two sides. The
first has any number of sessions, invocations and dates, and leaves open whether a
JWT is accepted. The second says exactly what is accepted, by which configuration,
and what the answer is, for one session that is opened once and one invocation of each
function at a time. Its reads lag and its update is lost and repeated as in the first,
in fewer variables: what the index and the copies show is an entry with the attributes
that a check looks at, the SDK repeats an update without a count, and `due` stands
for the dates: once one has come, a check may find it passed, or not. Of the other
functions it has the effect on the row (`CreateAuthCode`, `RemoveSession`).

Correspondence that is not one to one:
- **Reads.** `GetItem(s)` is the current row or the one of `replica`, a copy
  that catches up one row at a time (`Replicate`). One copy stands for replicas
  and index alike; a reader may use either version at each read, so two reads of
  one invocation may go back in time.
- **Requests.** An update reaches the table, and then its answer arrives or is
  lost (`AfterSend`). When it is lost the SDK sends the same request again, up to
  `MaxAttempts` times, or gives up. `sends` counts the arrivals. The first
  `PutItem`s of SessionFn and the first update of a merge are repeated without a
  count: they put the same. `TransactWriteItems` carries a client token, which makes
  repeating it harmless. A request reaches the table before its invocation ends.
- **Random values.** Codes, tokens and session ids are drawn fresh, so each is
  the identity of the invocation that draws it.
- **JWTs** in `ClientFlow` are records: who signed, which claims they carry, and
  whether each claim that has a schema is absent, valid or not. `signer` is the owner of
  the key; the JWKS endpoint of a client serves its keys. `jwks` is whether they can be
  had when a signature is checked; how that depends on the cache is `JwksCache`.
- **Texts** of addresses are sequences over a few characters, cut as
  `extractPostalCode` cuts them. `NonEmpty` is both `filter`s around it, by a recursive
  function: `SelectSeq` is defined by a `RECURSIVE` operator, which cannot be proved about.
- **Time** is in ticks. `now` may advance between any two steps, as long as no
  invocation is older than `LambdaTimeout` (`Timeout: 30` in the template).
- **History.** These are not read by the code's own decisions: `spent` in an
  exchange (its update has been applied), `handedOut`, except that it limits what a
  client can know; `merged` and `preceding` in an update of session data; `withdrawnAt`
  and `strikes` in `JwksCache`; `holders`, `disturbed` and `configured` in `JweDecrypter`;
  in `ClientFlow`, `jwt` and `token` of the row, and `moved`: the clients whose configuration
  has changed while a process, or the row, still had something of the old one.

Operators whose comment says "for the mutants" are wrong variants of the
definition that follows them. No specification uses them; each shows that a
property fails when the code is wrong in that way.

## 3. What TLC checks

| Run | Instance | Question |
|---|---|---|
| `race` | 1 session, 1 code, 2 tokens, 2 attempts | two exchanges of one code, stale reads, lost answers, expiry |
| `replace` | 1 session, 2 codes, 1 token, 2 attempts | two requests for a code and an exchange |
| `sessions` | 2 sessions, 2 codes, 1 token, 1 attempt | do sessions stay apart |
| `deletion` | 1 session, 1 code, 1 token, 1 deletion, 2 attempts, fair | a deletion against writes under way; is everything erased in the end |
| `session_data` | 1 row, 2 keys, 2 values, 2 merges, 2 attempts | merges against each other, a deletion and retrievals |
| `jwks_cache` | 2 keys, max-age 2, time limit 1 | rotation of keys against the cache |
| `config` | 1 common parameter, 2 of a client, 1 value | what a request is served with, and what a process keeps for good |
| `decryption` | 2 keys, all flags | moves of the aliases and of the legacy key against a decryption |
| `clients` | 2 clients, 2 redirect URIs, 1 code, up to 3 permits | wrong requests, and right ones against changes of configuration, lagging reads, lost answers, expiry and deletion; addresses well and badly written |

What they show:
- **TokensPerCode, CodeLedger**: a code buys at most as many tokens as the
  request that creates it reaches the table, and one fewer while it is live.
- **ImplementsOneTimeCode**: the API refines `OneTimeCode`: a purchase takes the
  code off offer in the same step.
- **RowProvenance**: the code of a row was created for that session, with the
  expiry computed with it; its token was bought with a code of that session by a
  request that arrived while the session was valid.
- **RedeemedInTime**: a token is stored before the code and the session expire,
  or at most one time limit after.
- **UnexpiredCodeKept**: a code leaves its row before it expires only with the row
  or for the token it bought.
- **DeletedForGood, IdentityKeptWithSession, PersonalDataErased**: see section 1.
- **RetentionBounded**: whatever is written to a session's row later, its `expiryDate` stays
  the one computed when the session was opened, and that of the identity is at most one time
  limit later. A row that an update had created, or whose date it had taken away, would stay for
  good; the mutant drops `attribute_exists(sessionId)`.
- **PatchesMerge**: merges of different keys keep each other's work; of merges of
  one key, the last wins if it started when the others had ended, in whatever order
  repetitions arrive. **MergesSeenWhole**: a retrieval shows all of a merge or
  nothing of it, from whichever copy. **DocumentPathExists, DeletedStaysDeleted**.
- **ImplementsMergedDocument**: `SessionData` refines `MergedDocument`, in which a request
  is one merge that takes effect between its arrival and its answer, once for each time it is
  sent. `Document` maps a row without `sessionData` and one with an empty map to the same
  document, so that the first update is no step at all: also that of a request with an empty
  object, which is refused after it has written.
- **OneStrikePerKey**: a published key is refused at most once. **WithdrawnKeysLapse**:
  a JWT is accepted with a withdrawn key only if it arrived within the max-age and one
  time limit of the withdrawal.
- **CommonEntriesRecent**, **ClientConfigRecentWhenLoaded**: the parameters a request is
  served with, and those that a process keeps for a client, were in force at most
  `ParameterTtl + LambdaTimeout` before the request that read them arrived. They need
  not have been in force together: a failed read may leave one of them in the cache of the
  provider, and the next read combines it with newer ones.
- **NoKeyOverlooked**: as long as an alias is pointed away from a key only after an
  older one has been pointed at it, the scan finds the key, however the moves fall between
  its requests; it gives up only on a key that no alias held or handed on, or that KMS failed
  on. The order of `DecryptionKeyAliases`, from new to old, is what makes this hold: the
  mutant reverses it. **LegacyKeyHonoured**: under each combination of the flags, a
  request with the legacy key is refused only by a process that has been configured
  with another one. The decrypter keeps the first id it is given, although the configuration
  is read again: `configured # {request.key}` is as much as can be said.
- **SessionOfItsClient**: whichever client the outer request names, the session belongs to
  the client whose keys signed the JWT, and the token to the one whose keys signed the
  assertion; an IPV session has both claims where the deployment asks for them.
- **RedirectUrisAgree**: the handler compares the redirect URI of the request with the
  configuration, and never that of the row, over which it has been spread. Both still agree,
  since both have equalled a configuration of the client, unless the client has been given
  another URI while a process or the row still had the old one. Once the last of them is gone the
  client is no longer in `moved`, and the two have to agree again.
- **BlameHasReason**: which failures may be answered with a 4xx, and at which step. `SessionFn`:
  the JWT is not what the parameter store asks for; the process has kept an older
  configuration; the client's keys cannot be had, which it reports as a fault of the request.
  `AccessTokenFn`: the code does not buy a token as the session is now (the row is gone, the
  code was replaced or used, a date has come); the index or a copy lags, at the query and at the
  read by id; the redirect URI is not the one in the parameter store, or not the one kept, when
  it is checked. Any other failure is a 5xx: of AWS, of the parameter store, and, at
  `AccessTokenFn`, of the verification of the assertion, keys that cannot be had included. So a
  caller who is right can get a 4xx, and the property says when: it does not say that they
  are few, but each of the reasons is needed, as the run fails without any one of them. Several are
  not the caller's doing: the keys, an older configuration, a lag (403, or 400 from the read
  by id), and a purchase by this very request, whose answer was lost and whose update was sent
  again (403). After a date has come nothing is said of a token request; when each date counts
  is `OAuthFlow`'s subject. Requests that end before a session request is decrypted, or
  a token request is complete, are left out.
- **AddressesAsMeant**: the addresses of a row against the reference: each is that of a permit,
  in the order of the permits; the code of a permit whose address is `WellWritten` (the code
  alone, or after a comma or a space, or, if it has six characters and more precedes, after both)
  is among them, and is that code exactly; claimed addresses remain only if no code is well written.

**Bounds.** `SessionTtl = 2`, `CodeTtl = 1` and `LambdaTimeout = 1` keep the order
of the real values (a code lives shorter than its session) while each can run out
in the middle of an invocation. `MaxTime = 3` (4 in `deletion`, 5 in the caches) lets a session
opened at time 0 expire with an invocation begun before under way: it has to
exceed `LastArrival + LambdaTimeout + SessionTtl` in `deletion`, where a row must
be able to expire before the clock stops. `sessions` has `MaxTime = 1`: what it asks
about is mixing sessions and not expiry beyond that of a code. Two attempts are
enough for a repetition to follow whatever happened since the first. Two
exchanges, two merges, two keys, two clients and two parameters are the fewest that interfere. One
value is enough in `config`: a value is put once and removed, never put again
(`Put` needs `retiredAt = None`), so that each stands for one version of a parameter, and the
combination of a part with the absence of another is what goes wrong there; the proofs
cover any number. In `clients`, session JWTs are the genuine ones of both clients with any
one field replaced, token requests have any URI and an assertion with any signer, issuer and
subject, or none: a check that is dropped lets one of them through. An assertion that is not sound
is not among them, since it fares as one whose keys cannot be had. Symmetry is used
in runs without liveness only; deadlock is not checked where the instance comes to
an end (every invocation has finished and the clock has stopped), and is checked in
`jwks_cache`, `config`, `decryption` and `clients`, where requests keep coming.

**Fairness** (`FairSpec`, for `deletion`): time passes; the platform ends every
invocation; the TTL process removes every expired row. No step of a handler is fair:
an invocation may fail at any point. The first is a fact about clocks, the second
the `Timeout` of the template, the third what DynamoDB documents for TTL.

### Claims of the tests that do not hold

Three runs expect a violation.
- `single_use`: a consumed code cannot be consumed again. When the answer to the
  update that creates a code is lost, and the code is exchanged before the SDK sends
  the update again, its condition finds a row without a code and puts the same code
  back. It can then be exchanged again until it expires.
- `unchanged`: a code left in place by a 200 can be redeemed. In the second in which it
  expires it is not: one condition has `authorizationCodeExpiryDate < :now`, the other
  `authorizationCodeExpiryDate>:currentTime`.
- `deleted`: a deleted session is not authorized. A stale read may still hand out its code.
  (For the same reason a request for authorization right after a 201 may be answered with
  `access_denied`.)

Two more were met while modelling and are not runs, since they are the outcome of one
expression:
- A bad client assertion is answered with 500. `JwtVerifier.verify` throws what the JOSE library
  throws and never resolves to nothing, so the check for an empty payload in
  `token-request-validator.ts:68` is never reached;
  `tests/unit/handlers/access-token-handler.test.ts:364` mocks an `InvalidRequestError` from the
  validator and expects 400.
- `validateTokenRequestToRecord` is given the spread body, in which the request's
  `redirectUri` has replaced the record's. `RedirectUrisAgree` shows what is left of the comparison.

## 4. What is proved

`tlapm` checks eight modules. The assumptions are the `ASSUME`s of the modules: numbers are
natural numbers, at least one attempt is made, values like `None`, `NoItem` and `NoEntry` are
not values they could be mistaken for, and in `ClientFlow` what is sent has its type. The
theorems hold for any sets of sessions, codes, tokens, keys, values, clients and
invocations, and any lifetimes.

**`OAuthFlowProofs`** - types, and the ledger of codes.
- `TypeCorrect`: `Spec => []TypeOK`.
- `LedgerCorrect`, `TokensPerCodeCorrect`: `Spec => []CodeLedger` and from it
  `[]TokensPerCode`. `TokensPerCode` is not inductive. A step of `UpdateAuthCode`
  makes a code live: that no other row holds it already needs `CodeOrigin`; that it
  has an attempt left needs `CreateProgress`. A step of `ConsumeAuthCode` adds a buyer:
  that the code stops being live with it needs `CodeOrigin` again, that the exchange has
  a session `ExchangeProgress`, and the count `FiniteBuyers`. `LedgerLapse` covers the
  steps that only take codes out of rows.
- `SingleUseWithoutResend`: if `MaxAttempts = 1`, `Spec => []SingleUse`. The repetition
  by the SDK is all that breaks single use; no interleaving or stale read does.
- `ImplementsOneTimeCodeCorrect`: `Spec => Abstract!Spec`. An arrival of the creating request
  maps to `Offer`, an applied update of an exchange to `Buy`, every other step to `Lapse`. `Buy`
  takes exactly one code off offer because of `CodeOrigin`.

**`RowProofs`** - what a row holds and for how long. Its first part (`Moves`, `StepMoves`) says
once for each variable how a step may change it; the invariant rests on that and not on the
actions. `RowInv` is the conjunction of `ClocksRead` (readings lie in the past, those of
an invocation under way at most one time limit back), `OpenedBefore` (who has been given a session
has been given an open one), `RowsDated` (rows and stale copies carry the expiry that
SessionFn computed), `ExchangesValid` (an exchange past the expiry checks began before its
session expired), `IdentityLasts` (the identity expires no sooner than its row), `IdentityDated`
(nor more than a time limit later), `RowProvenance` and `DeletedForGood`. From it:
- `RowProvenanceCorrect`, `DeletedForGoodCorrect`, `IdentityKeptWithSessionCorrect`;
- `RetentionBoundedCorrect`: by `RowsDated` for the session's row, by `IdentityDated` for the
  identity, whose expiry is computed from a second reading of the clock: SessionFn
  is still within its time limit then, which the clock does not pass (`SessionOverdue`);
- `RedeemedInTimeCorrect`: `start <= at < ` the code's expiry by the condition of the
  update, `start <= ` the session's by the pre-check, and `now <= start + LambdaTimeout`;
- `UnexpiredCodeKeptCorrect`: a request that replaces a code has read the clock after its
  expiry, and readings lie in the past.

**`JwksCacheProofs`** - `TypeCorrect`, `OneStrikePerKeyCorrect`, `WithdrawnKeysLapseCorrect`.
The second needs `StruckKeysKept`: once a published key has been refused, everything
kept or about to be kept includes it. The third needs `AgesBounded` and
`WithdrawnKeysDated`, which date what is kept by the withdrawal of each key.

**`ConfigCacheProofs`** - `TypeCorrect` (with `AnswersAsAsked`: an answer under way covers what was
asked), and `CommonEntriesRecentCorrect`, `ClientConfigRecentWhenLoadedCorrect` from `RecentInv`:
`InForceNow`, `InTime`, `EntriesRecent` for the cache of the provider, `AnswersRecent` for an
answer that has not arrived yet, `LoadedInThePast`.

**`JweDecrypterProofs`** - `TypeCorrect`, `NoKeyOverlookedCorrect` from `ScanInv`, whose
`HoldersAhead` says that every holder of an undisturbed key is at or after the position of the scan;
`LegacyKeyHonouredCorrect` from `LegacyInv`: ids that are kept were configured
(`KnownIdsConfigured`), and one is at hand when it is used (`LegacyKeyAtHand`).

**`SessionDataProofs`** - `TypeCorrect`, `PatchesMergeCorrect`, `MergesSeenWholeCorrect`,
`DocumentPathExistsCorrect`, `DeletedStaysDeletedCorrect`. `MergeInv` adds `Whole`: of row, copy and
last retrieval each shows every merge wholly or not at all. `ImplementsMergedDocumentCorrect`:
`Spec => Abstract!Spec`. An applied second update maps to `Apply`; the end of an invocation without
one to `Refuse`; the first update, and a second one that is lost before it is applied, to no step.
`Apply` needs `WritesSomething`: what has got to its second update is not an empty object.

**`PersonIdentityProofs`** - `AddressesMeant`: `Addresses` satisfies its reference for any number
of permits and addresses of any length. `Trim` is described by the first and the last character
that is not a space (`TrimToCode`), `Suffix` and `WithoutComma` by what they leave of the end
(`DropToCode`), and so `ExtractWellWritten`. What `NonEmpty` selects (`NonEmptySelects`) is
a statement about a recursive function for every length of its argument, and the induction
theorems of the library take a predicate, which the provers cannot instantiate. `Induction` takes a
set of numbers in its place, from `LeastNumber`, which is proved from the
well-foundedness of intervals; the predicate becomes the set of the numbers that satisfy it.

**`ClientFlowProofs`** - `SessionOfItsClientCorrect`, `RedirectUrisAgreeCorrect`,
from `FlowInv`: what is kept is a configuration of that client, and the one in force unless it has
moved (`ConfigsProper`); a request that is past a middleware has its configuration, and an entry of
the session whose row there is, with the code of the request (`OpeningInv`, `ExchangeInv`,
`OfSession`); what the index and the copies show is of that session (`ReplicaInv`); and `RowInv`
for what the row was opened with.
`TypeCorrect` and `AddressesAsMeantCorrect` from `RecordInv`, for all that the row and its token
record, with `FlowInv` and `AddressesMeant`. `BlameHasReasonCorrect` has one lemma for each step
that can refuse a request: at the check, for instance, `ExchangeInv` has the code of the entry equal
that of the request, so what is left to refuse is the redirect URI, with a 4xx, and the assertion,
with a 5xx.

**Only model-checked**: `PersonalDataErased`, as liveness under fairness is beyond the provers;
and the three violations, which are counterexamples.

## 5. What is not modelled

- Attributes that no decision depends on (`accessTokenExpiryDate` among them), the text
  of answers, headers, logging and metrics.
- Of the mapping of shared claims everything but the addresses: it copies fields.
- What an address is worth that is not well written. Where the rest of the address is followed
  by a space alone and a code of six characters, by a comma right before such a code, by a code of
  five, or by no code at all, `extractPostalCode` returns something else than a postal code, and
  `tests/unit/services/person-identity-service.test.ts:179` expects that for the first of them
  (`"Y BT11AB"`). `AddressesAsMeant` says of such an address that it keeps its place in
  the order, or is left out, and that it takes nothing from the others; the instance has such addresses.
- `SessionService.createAuthorizationCode`, `ConfigService.getCriIdentifierParameters` and
  `JwtVerifier.clearJWKSCacheForAllEndpoints`, which nothing calls.
- The reader of bearer tokens, which is not in this repository.
- Construction of AWS clients, and the JWT signing helper.
- A request that reaches the table after its invocation has ended.
- AWS itself beyond what section 2 says of it; the template and the integration tests.

## 6. Plan

1. Done: the tables and the five functions, their composition, the abstract one-time
   code; session data with retrieval; the JWKS cache; the configuration; decryption;
   validation, errors and addresses, composed in `ClientFlow`; the proofs of section 4.
2. Done since: the types of `ClientFlow` and the addresses, proved over texts and permits of any
   length; the retention of rows; the merge of session data as one abstract step.
3. Left: an abstract specification of what a cache of configuration or keys promises, and its
   refinement; a composition of `ClientFlow` with `JwksCache`, in place of the choice `jwks`;
   requests that arrive late.
