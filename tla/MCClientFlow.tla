---------------------------- MODULE MCClientFlow ----------------------------
(* An instance of ClientFlow for TLC.                                        *)
EXTENDS ClientFlow, TLC

CONSTANTS a, b, u1, u2, c1

Before == {<<>>, <<Comma>>, <<"x", Comma>>, <<"x", Space>>, <<"x", Comma, Space>>}

\* A permit with a code whose first half has n characters.
Permit(before, n) ==
  LET code == [i \in 1..n |-> "A"] \o <<Space>> \o <<"9", "A", "A">>
  IN [code |-> code, fullAddress |-> before \o code]

NoAddress == [code |-> <<>>, fullAddress |-> <<>>]

\* An address without a code, of which nothing is left.
Blank == [code |-> <<>>, fullAddress |-> [i \in 1..7 |-> Space]]

\* Codes of each length, after each of the texts; two of the lists have an
\* address without a code in between, and one has nothing else.
Permits ==
  {<<>>, <<Blank>>}
  \cup {<<Permit(before, 2), Permit(before, 3), Permit(before, 4)>> :
           before \in Before \ {<<>>, <<Comma>>}}
  \cup {<<Permit(<<>>, 2), NoAddress, Permit(<<>>, 3), Permit(<<>>, 4)>>,
        <<Permit(<<Comma>>, 2), Blank, Permit(<<Comma>>, 3), Permit(<<Comma>>, 4)>>}

\* The JWTs of the clients as they should be.
Genuine ==
  {[signer |-> client, issuer |-> client, sound |-> TRUE, clientId |-> client,
    redirectUri |-> uri, evidenceRequested |-> "absent", vtr |-> "valid",
    storageAccessToken |-> "valid", drivingPermits |-> <<>>] : client \in Clients, uri \in Uris}

\* Each of them, with any one of its fields replaced.
Sent ==
  UNION {
    {[jwt EXCEPT !.signer = client] : client \in Clients}
    \cup {[jwt EXCEPT !.issuer = client] : client \in Clients}
    \cup {[jwt EXCEPT !.sound = FALSE]}
    \cup {[jwt EXCEPT !.clientId = client] : client \in Clients}
    \cup {[jwt EXCEPT !.evidenceRequested = claim] : claim \in Claim}
    \cup {[jwt EXCEPT !.vtr = claim] : claim \in Claim}
    \cup {[jwt EXCEPT !.storageAccessToken = claim] : claim \in Claim}
    \cup {[jwt EXCEPT !.drivingPermits = permits] : permits \in Permits}
  : jwt \in Genuine}

\* Token requests with any redirect URI, for whatever clients the signature,
\* the issuer and the subject of the assertion are those of.  One that is not
\* sound fares as if the keys could not be had.
Bought ==
  LET complete ==
        [code: Codes, redirectUri: Uris, types: {TRUE},
         client_assertion: [signer: Clients, issuer: Clients, subject: Clients, sound: {TRUE}]]
      withoutAssertion ==
        [code: Codes, redirectUri: Uris, types: {TRUE}, client_assertion: {None}]
  IN complete \cup withoutAssertion

\* Clients and redirect URIs are interchangeable.
Interchangeable == Permutations(Clients) \cup Permutations(Uris)
===========================================================================
