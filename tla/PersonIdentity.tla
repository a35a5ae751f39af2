--------------------------- MODULE PersonIdentity ---------------------------
(* PersonIdentityService: the addresses of the person-identity row, which    *)
(* are the postal codes found at the end of the full addresses of driving    *)
(* permits, or, if none is found, the addresses of the request.              *)
(*                                                                           *)
(* A text is a sequence of characters; case is left out.                     *)
EXTENDS Naturals, Sequences, FiniteSetsExt

Comma == ","
Space == " "

Text == Seq({"A", "9", "x", Comma, Space})

\* A wrong variant, for the mutants: spaces stay.
Untrimmed(text) == text

Trim(text) ==
  LET printed == {i \in DOMAIN text : text[i] # Space}
  IN IF printed = {} THEN <<>> ELSE SubSeq(text, Min(printed), Max(printed))

\* The longest postal code and one character in front of it.
Suffix(text) == IF Len(text) >= 8 THEN SubSeq(text, Len(text) - 7, Len(text)) ELSE text

WithoutComma(text) == IF Head(text) = Comma THEN Tail(text) ELSE text

ExtractPostalCode(fullAddress) ==
  IF Len(fullAddress) <= 6 THEN fullAddress ELSE Trim(WithoutComma(Suffix(fullAddress)))

\* The texts that are not empty: SelectSeq, written out for the proofs.
NonEmpty(texts) ==
  LET found[n \in 0..Len(texts)] ==
        IF n = 0 THEN <<>>
        ELSE IF texts[n] = <<>> THEN found[n - 1] ELSE Append(found[n - 1], texts[n])
  IN found[Len(texts)]

\* extractAddressPostalCodeFromDrivingPermitFullAddress
PostalCodesOfPermits(permits) ==
  LET written == NonEmpty([i \in DOMAIN permits |-> permits[i].fullAddress])
  IN NonEmpty([i \in DOMAIN written |-> ExtractPostalCode(written[i])])

\* The addresses of createPersonIdentityItem.
Addresses(permits, claimed) ==
  IF PostalCodesOfPermits(permits) # <<>> THEN PostalCodesOfPermits(permits) ELSE claimed

---------------------------------------------------------------------------
(* The reference.                                                           *)

PostalCode ==
  {code \in Seq({"A", "9", Space}) :
     Len(code) \in 6..8 /\ code[1] # Space /\ code[Len(code)] # Space}

\* A driving permit, by the postal code that is meant, if any, and the full
\* address that is written.
DrivingPermit == [code: PostalCode \cup {<<>>}, fullAddress: Text]

\* The address ends with the code.  What is before the code ends with a comma
\* or a space, and with both if it is longer and the code has six characters.
WellWritten(permit) ==
  LET address == permit.fullAddress
      before == Len(address) - Len(permit.code)
  IN /\ permit.code = <<>> => address = <<>>
     /\ before >= 0 /\ SubSeq(address, before + 1, Len(address)) = permit.code
     /\ before > 0 => address[before] \in {Comma, Space}
     /\ before > 1 /\ Len(permit.code) = 6
        => address[before - 1] = Comma /\ address[before] = Space

\* Each address is that of a permit, in their order; every code that is well
\* written is among them, and is exactly what is meant.
AsMeant(addresses, permits) ==
  \E source \in [DOMAIN addresses -> DOMAIN permits] :
    /\ \A k, l \in DOMAIN addresses : k < l => source[k] < source[l]
    /\ \A i \in DOMAIN permits :
         WellWritten(permits[i]) /\ permits[i].code # <<>>
         => \E k \in DOMAIN addresses : source[k] = i
    /\ \A k \in DOMAIN addresses :
         /\ addresses[k] # <<>>
         /\ WellWritten(permits[source[k]]) => addresses[k] = permits[source[k]].code

\* Only where no code is well written may the claimed addresses remain.
AddressesOf(permits, claimed, addresses) ==
  \/ addresses # <<>> /\ AsMeant(addresses, permits)
  \/ /\ addresses = claimed
     /\ \A i \in DOMAIN permits : WellWritten(permits[i]) => permits[i].code = <<>>
===========================================================================
