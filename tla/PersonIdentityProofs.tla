------------------------ MODULE PersonIdentityProofs ------------------------
(* Proofs about PersonIdentity, for sequences of any length: what is left of *)
(* a full address, and what the row's addresses are.                         *)
(*                                                                           *)
(* The induction that they need is the principle of the least number, proved *)
(* here for sets, since the library's is stated for operators.               *)
EXTENDS PersonIdentity, FiniteSetTheorems, SequenceTheorems, WellFoundedInduction, TLAPS

---------------------------------------------------------------------------
(* Least and greatest numbers.                                              *)

\* The intervals from 0 to the numbers of T are well ordered by inclusion.
LEMMA LeastNumber ==
  ASSUME NEW T \in SUBSET Nat, T # {}
  PROVE  \E n \in T : \A m \in T : n <= m
<1> DEFINE intervals == {0..n : n \in T}
<1>1. \A n \in T : IsFiniteSet(0..n)
  BY FS_Interval
<1>2. intervals \subseteq FiniteSubsetsOf(Nat) /\ intervals # {}
  <2>1. \A n \in T : 0..n \in SUBSET Nat
    OBVIOUS
  <2>2. \A n \in T : 0..n \in FiniteSubsetsOf(Nat)
    BY <1>1, <2>1, Zenon DEF FiniteSubsetsOf
  <2> QED
    BY <2>2, Zenon
<1>3. PICK least \in intervals :
        \A other \in intervals : <<other, least>> \notin StrictSubsetOrdering(Nat)
  <2> HIDE DEF intervals
  <2> QED
    BY <1>2, FS_StrictSubsetOrderingWellFounded, WFMin
<1>4. PICK n \in T : least = 0..n
  OBVIOUS
<1>5. ASSUME NEW m \in T, m < n
      PROVE  FALSE
  <2>1. 0..m \in intervals /\ 0..m \in SUBSET Nat /\ 0..n \in SUBSET Nat
    OBVIOUS
  <2>2. 0..m \subseteq 0..n /\ n \in 0..n /\ n \notin 0..m
    BY <1>5
  <2>3. <<0..m, 0..n>> \in StrictSubsetOrdering(Nat)
    BY <2>1, <2>2, Zenon DEF StrictSubsetOrdering
  <2> QED
    BY <1>3, <1>4, <2>1, <2>3
<1> QED
  BY <1>5

LEMMA Induction ==
  ASSUME NEW P, 0 \in P, \A n \in Nat : n \in P => n + 1 \in P
  PROVE  Nat \subseteq P
<1> SUFFICES ASSUME Nat \ P # {} PROVE FALSE
  OBVIOUS
<1>1. PICK n \in Nat \ P : \A m \in Nat \ P : n <= m
  BY LeastNumber
<1>2. n - 1 \in Nat /\ n - 1 \in P
  BY <1>1
<1> QED
  BY <1>2

LEMMA MinOfNumbers ==
  ASSUME NEW T \in SUBSET Nat, T # {}
  PROVE  Min(T) \in T /\ \A m \in T : Min(T) <= m
BY LeastNumber DEF Min

LEMMA MaxOfNumbers ==
  ASSUME NEW n \in Nat, NEW T \in SUBSET (0..n), T # {}
  PROVE  Max(T) \in T /\ \A m \in T : m <= Max(T)
<1> DEFINE distances == {n - m : m \in T}
<1>1. PICK d \in distances : \A e \in distances : d <= e
  <2>1. distances \in SUBSET Nat
    <3> SUFFICES ASSUME NEW m \in T PROVE n - m \in Nat
      BY Zenon
    <3>1. m \in 0..n
      OBVIOUS
    <3> QED
      BY <3>1
  <2>2. distances # {}
    BY Zenon
  <2> HIDE DEF distances
  <2> QED
    BY <2>1, <2>2, LeastNumber
<1>2. PICK greatest \in T : d = n - greatest
  OBVIOUS
<1>3. ASSUME NEW m \in T
      PROVE  m <= greatest
  <2>1. n - m \in distances
    BY Zenon
  <2>2. n - greatest <= n - m
    BY <1>1, <1>2, <2>1
  <2>3. m \in 0..n /\ greatest \in 0..n
    OBVIOUS
  <2> QED
    BY <2>2, <2>3
<1> QED
  BY <1>3 DEF Max

---------------------------------------------------------------------------
(* NonEmpty.                                                                *)

\* f has for each number up to n the texts found so far.
Counts(f, texts, n) ==
  f = [i \in 0..n |->
         IF i = 0 THEN <<>>
         ELSE IF texts[i] = <<>> THEN f[i - 1] ELSE Append(f[i - 1], texts[i])]

\* found has those of the first n texts that are not empty, in their order.
Selects(found, texts, n) ==
  \E source \in [1..Len(found) -> 1..n] :
    /\ \A k, l \in 1..Len(found) : k < l => source[k] < source[l]
    /\ \A i \in 1..n : texts[i] # <<>> => \E k \in 1..Len(found) : source[k] = i
    /\ \A k \in 1..Len(found) : found[k] = texts[source[k]] /\ found[k] # <<>>

(* The recursion of NonEmpty defines a function.                            *)
LEMMA CountsExists ==
  ASSUME NEW texts
  PROVE  \A n \in Nat : \E f : Counts(f, texts, n)
<1> DEFINE P == {n \in Nat : \E f : Counts(f, texts, n)}
<1>1. 0 \in P
  <2>1. Counts([i \in 0..0 |-> <<>>], texts, 0)
    BY DEF Counts
  <2> QED
    BY <2>1
<1>2. ASSUME NEW n \in Nat, n \in P
      PROVE  n + 1 \in P
  <2>1. PICK f : Counts(f, texts, n)
    BY <1>2
  <2> DEFINE last == IF texts[n + 1] = <<>> THEN f[n] ELSE Append(f[n], texts[n + 1])
             g == [i \in 0..(n + 1) |-> IF i = n + 1 THEN last ELSE f[i]]
  <2>2. \A i \in 0..n : g[i] = f[i]
    OBVIOUS
  <2>3. g[n + 1] = last
    OBVIOUS
  <2>4. Counts(g, texts, n + 1)
    <3> DEFINE h == [i \in 0..(n + 1) |->
                       IF i = 0 THEN <<>>
                       ELSE IF texts[i] = <<>> THEN g[i - 1] ELSE Append(g[i - 1], texts[i])]
    <3>1. ASSUME NEW i \in 0..(n + 1)
          PROVE  h[i] = g[i]
      <4>1. CASE i = n + 1
        BY <2>2, <2>3, <4>1
      <4>2. CASE i # n + 1
        <5>1. i \in 0..n /\ (i # 0 => i - 1 \in 0..n)
          BY <4>2
        <5>2. f[i] = IF i = 0 THEN <<>>
                     ELSE IF texts[i] = <<>> THEN f[i - 1] ELSE Append(f[i - 1], texts[i])
          BY <2>1, <5>1 DEF Counts
        <5> QED
          BY <2>2, <5>1, <5>2
      <4> QED
        BY <4>1, <4>2
    <3>2. g = h
      BY <3>1
    <3> QED
      BY <3>2, Zenon DEF Counts
  <2> QED
    BY <2>4
<1> HIDE DEF P
<1>3. Nat \subseteq P
  BY <1>1, <1>2, Induction
<1> QED
  BY <1>3 DEF P

(* What the recursion gives at each number.                                 *)
LEMMA CountsSelects ==
  ASSUME NEW S, NEW texts \in Seq(S), NEW f, Counts(f, texts, Len(texts))
  PROVE  \A n \in 0..Len(texts) : f[n] \in Seq(S) /\ Selects(f[n], texts, n)
<1> DEFINE P == {n \in Nat : n <= Len(texts) => f[n] \in Seq(S) /\ Selects(f[n], texts, n)}
<1>1. Len(texts) \in Nat
  BY LenProperties
<1>2. 0 \in P
  <2>1. f[0] = <<>>
    BY <1>1 DEF Counts
  <2>2. Len(<<>>) = 0 /\ 1..0 = {}
    OBVIOUS
  <2>3. Selects(<<>>, texts, 0)
    <3> DEFINE source == [k \in 1..0 |-> 0]
    <3>1. source \in [1..0 -> 1..0]
      BY <2>2
    <3> QED
      BY <2>2, <3>1 DEF Selects
  <2> QED
    BY <2>1, <2>3, EmptySeq
<1>3. ASSUME NEW n \in Nat, n \in P
      PROVE  n + 1 \in P
  <2> SUFFICES ASSUME n + 1 <= Len(texts)
               PROVE  f[n + 1] \in Seq(S) /\ Selects(f[n + 1], texts, n + 1)
    OBVIOUS
  <2>1. f[n] \in Seq(S) /\ Selects(f[n], texts, n)
    BY <1>1, <1>3
  <2>2. f[n + 1] = IF texts[n + 1] = <<>> THEN f[n] ELSE Append(f[n], texts[n + 1])
    <3>1. n + 1 \in 0..Len(texts) /\ n + 1 # 0 /\ (n + 1) - 1 = n
      BY <1>1
    <3> QED
      BY <3>1 DEF Counts
  <2>3. PICK source \in [1..Len(f[n]) -> 1..n] :
          /\ \A k, l \in 1..Len(f[n]) : k < l => source[k] < source[l]
          /\ \A i \in 1..n : texts[i] # <<>> => \E k \in 1..Len(f[n]) : source[k] = i
          /\ \A k \in 1..Len(f[n]) : f[n][k] = texts[source[k]] /\ f[n][k] # <<>>
    BY <2>1 DEF Selects
  <2>4. CASE texts[n + 1] = <<>>
    <3>1. f[n + 1] = f[n]
      BY <2>2, <2>4
    <3>2. source \in [1..Len(f[n]) -> 1..(n + 1)]
      OBVIOUS
    <3>3. \A i \in 1..(n + 1) : texts[i] # <<>> => i \in 1..n
      BY <2>4
    <3>4. Selects(f[n], texts, n + 1)
      BY <2>3, <3>2, <3>3 DEF Selects
    <3> QED
      BY <2>1, <3>1, <3>4
  <2>5. CASE texts[n + 1] # <<>>
    <3> DEFINE m == Len(f[n])
               found == Append(f[n], texts[n + 1])
               longer == [k \in 1..Len(found) |-> IF k = Len(found) THEN n + 1 ELSE source[k]]
    <3>1. m \in Nat
      BY <2>1, LenProperties
    <3>2. texts[n + 1] \in S
      BY <1>1, ElementOfSeq
    <3>3. /\ found \in Seq(S)
          /\ Len(found) = m + 1
          /\ \A k \in 1..m : found[k] = f[n][k]
          /\ found[m + 1] = texts[n + 1]
      BY <2>1, <3>2, AppendProperties
    <3> HIDE DEF m, found
    <3>4. \A k \in 1..Len(found) : k \in 1..m \/ k = Len(found)
      BY <3>1, <3>3
    <3>5. ASSUME NEW k \in 1..m
          PROVE  k \in 1..Len(found) /\ source[k] \in 1..n /\ longer[k] = source[k]
      <4>1. k \in 1..Len(found) /\ k # Len(found)
        BY <3>1, <3>3
      <4>2. source[k] \in 1..n
        BY <2>3 DEF m
      <4> QED
        BY <4>1, <4>2
    <3>6. Len(found) \in 1..Len(found) /\ longer[Len(found)] = n + 1
      BY <3>1, <3>3
    <3>7. longer = [k \in 1..Len(found) |-> longer[k]]
      BY Zenon
    <3> HIDE DEF longer
    <3>8. longer \in [1..Len(found) -> 1..(n + 1)]
      <4>1. \A k \in 1..Len(found) : longer[k] \in 1..(n + 1)
        BY <3>4, <3>5, <3>6
      <4> QED
        BY <3>7, <4>1
    <3>9. ASSUME NEW k \in 1..Len(found), NEW l \in 1..Len(found), k < l
          PROVE  longer[k] < longer[l]
      <4>1. k \in 1..m
        BY <3>1, <3>3, <3>9
      <4>2. CASE l \in 1..m
        BY <2>3, <3>5, <3>9, <4>1, <4>2 DEF m
      <4>3. CASE l = Len(found)
        BY <3>5, <3>6, <4>1, <4>3
      <4> QED
        BY <3>4, <4>2, <4>3
    <3>10. ASSUME NEW i \in 1..(n + 1), texts[i] # <<>>
           PROVE  \E k \in 1..Len(found) : longer[k] = i
      <4>1. CASE i = n + 1
        BY <3>6, <4>1
      <4>2. CASE i # n + 1
        <5>1. PICK k \in 1..m : source[k] = i
          BY <2>3, <3>10, <4>2 DEF m
        <5>2. k \in 1..Len(found) /\ longer[k] = i
          BY <3>5, <5>1
        <5> QED
          BY <5>2
      <4> QED
        BY <4>1, <4>2
    <3>11. ASSUME NEW k \in 1..Len(found)
           PROVE  found[k] = texts[longer[k]] /\ found[k] # <<>>
      <4>1. CASE k \in 1..m
        BY <2>3, <3>3, <3>5, <4>1 DEF m
      <4>2. CASE k = Len(found)
        BY <2>5, <3>3, <3>6, <4>2
      <4> QED
        BY <3>4, <4>1, <4>2
    <3>12. Selects(found, texts, n + 1)
      BY <3>8, <3>9, <3>10, <3>11, Zenon DEF Selects
    <3> QED
      BY <2>2, <2>5, <3>3, <3>12 DEF found
  <2> QED
    BY <2>4, <2>5
<1> HIDE DEF P
<1>4. Nat \subseteq P
  BY <1>2, <1>3, Induction
<1> QED
  BY <1>1, <1>4 DEF P

LEMMA NonEmptySelects ==
  ASSUME NEW S, NEW texts \in Seq(S)
  PROVE  NonEmpty(texts) \in Seq(S) /\ Selects(NonEmpty(texts), texts, Len(texts))
<1> DEFINE f == CHOOSE g : Counts(g, texts, Len(texts))
<1>1. Len(texts) \in Nat
  BY LenProperties
<1>2. Counts(f, texts, Len(texts))
  BY <1>1, CountsExists, Zenon
<1>3. NonEmpty(texts) = f[Len(texts)]
  BY Zenon DEF NonEmpty, Counts
<1> HIDE DEF f
<1> QED
  BY <1>1, <1>2, <1>3, CountsSelects

---------------------------------------------------------------------------
(* What is cut out of a full address.                                       *)

LEMMA TrimType ==
  ASSUME NEW text \in Text
  PROVE  Trim(text) \in Text
<1> DEFINE printed == {i \in DOMAIN text : text[i] # Space}
<1>1. Len(text) \in Nat /\ DOMAIN text = 1..Len(text)
  BY LenProperties DEF Text
<1>2. CASE printed = {}
  BY <1>2, EmptySeq DEF Trim, Text
<1>3. CASE printed # {}
  <2>1. printed \in SUBSET Nat /\ printed \in SUBSET (0..Len(text))
    BY <1>1
  <2>2. Min(printed) \in printed /\ Max(printed) \in printed
    <3> HIDE DEF printed
    <3> QED
      BY <1>1, <1>3, <2>1, MinOfNumbers, MaxOfNumbers
  <2>3. \A i \in Min(printed)..Max(printed) : text[i] \in {"A", "9", "x", Comma, Space}
    BY <1>1, <2>2, ElementOfSeq DEF Text
  <2>4. Min(printed) \in Int /\ Max(printed) \in Int
    BY <1>1, <2>2
  <2>5. Trim(text) = SubSeq(text, Min(printed), Max(printed))
    BY <1>3 DEF Trim
  <2> HIDE DEF printed
  <2> QED
    BY <2>3, <2>4, <2>5, SubSeqProperties DEF Text
<1> QED
  BY <1>2, <1>3

LEMMA PostalCodeProperties ==
  ASSUME NEW code \in PostalCode
  PROVE  /\ code \in Text
         /\ Len(code) \in 6..8
         /\ code[1] \notin {Space, Comma} /\ code[Len(code)] # Space
<1>1. code \in Seq({"A", "9", Space}) /\ Len(code) \in 6..8
  BY DEF PostalCode
<1>2. code[1] \in {"A", "9", Space}
  BY <1>1, ElementOfSeq
<1> QED
  BY <1>1, <1>2, SeqMonotonic DEF PostalCode, Text, Comma, Space

(* A space in front of a postal code is trimmed away, the code is not.      *)
LEMMA TrimToCode ==
  ASSUME NEW text \in Text, NEW code \in PostalCode, NEW n \in {0, 1},
         Len(text) = n + Len(code),
         \A j \in 1..Len(code) : text[n + j] = code[j],
         n = 1 => text[1] = Space
  PROVE  Trim(text) = code
<1> DEFINE printed == {i \in DOMAIN text : text[i] # Space}
           size == Len(code)
<1>1. /\ size \in 6..8
      /\ code[1] # Space /\ code[size] # Space
      /\ code \in Text
  BY PostalCodeProperties
<1>2. DOMAIN text = 1..(n + size)
  BY LenProperties DEF Text
<1>3. n + 1 \in printed /\ n + size \in printed
  BY <1>1, <1>2
<1>4. \A i \in printed : n + 1 <= i /\ i <= n + size
  BY <1>1, <1>2
<1>5. printed \in SUBSET Nat /\ printed \in SUBSET (0..(n + size)) /\ n + size \in Nat
  BY <1>1, <1>2
<1>6. Min(printed) = n + 1 /\ Max(printed) = n + size
  <2> HIDE DEF printed
  <2>1. Min(printed) \in printed /\ Min(printed) <= n + 1
    BY <1>3, <1>5, MinOfNumbers
  <2>2. Max(printed) \in printed /\ n + size <= Max(printed)
    BY <1>3, <1>5, MaxOfNumbers
  <2>3. Min(printed) \in Nat /\ n + 1 <= Min(printed)
    BY <1>4, <1>5, <2>1
  <2>4. Max(printed) \in Nat /\ Max(printed) <= n + size
    BY <1>4, <1>5, <2>2
  <2>5. size \in Nat
    BY <1>1
  <2> QED
    BY <2>1, <2>2, <2>3, <2>4, <2>5
<1>7. Trim(text) = SubSeq(text, n + 1, n + size)
  BY <1>3, <1>6 DEF Trim
<1>8. \A i \in (n + 1)..(n + size) : text[i] \in {"A", "9", "x", Comma, Space}
  BY <1>1, <1>2, ElementOfSeq DEF Text
<1> HIDE DEF size
<1>9. /\ Trim(text) \in Text
      /\ Len(Trim(text)) = size
      /\ \A j \in 1..size : Trim(text)[j] = text[n + j]
  <2>1. n + 1 \in Int /\ n + size \in Int /\ n + 1 <= n + size /\ (n + size) - (n + 1) + 1 = size
    BY <1>1
  <2>2. /\ SubSeq(text, n + 1, n + size) \in Text
        /\ Len(SubSeq(text, n + 1, n + size)) = size
        /\ \A j \in 1..size : SubSeq(text, n + 1, n + size)[j] = text[(n + 1) + j - 1]
    BY <1>8, <2>1, SubSeqProperties DEF Text
  <2>3. \A j \in 1..size : (n + 1) + j - 1 = n + j
    BY <1>1
  <2> QED
    BY <1>7, <2>2, <2>3
<1> QED
  BY <1>1, <1>9, SeqEqual DEF size, Text

LEMMA WithoutCommaProperties ==
  ASSUME NEW text \in Text, text # <<>>
  PROVE  /\ WithoutComma(text) \in Text
         /\ text[1] # Comma => WithoutComma(text) = text
         /\ text[1] = Comma => /\ Len(WithoutComma(text)) = Len(text) - 1
                              /\ \A i \in 1..(Len(text) - 1) : WithoutComma(text)[i] = text[i + 1]
<1>1. Head(text) = text[1]
  BY DEF Text
<1> QED
  BY <1>1, HeadTailProperties DEF WithoutComma, Text

LEMMA SuffixProperties ==
  ASSUME NEW text \in Text, NEW size \in Nat, Len(text) = size, size >= 7
  PROVE  /\ Suffix(text) \in Text
         /\ \E kept \in {7, 8} :
              /\ Len(Suffix(text)) = kept /\ kept <= size /\ (kept = 7 => size = 7)
              /\ \A i \in 1..kept : Suffix(text)[i] = text[(size - kept) + i]
<1>1. DOMAIN text = 1..size
  BY LenProperties DEF Text
<1>2. CASE size = 7
  <2>1. Suffix(text) = text
    BY <1>2 DEF Suffix
  <2>2. \A i \in 1..7 : (size - 7) + i = i
    BY <1>2
  <2>3. Len(Suffix(text)) = 7 /\ \A i \in 1..7 : Suffix(text)[i] = text[(size - 7) + i]
    BY <1>2, <2>1, <2>2
  <2> QED
    BY <1>2, <2>1, <2>3
<1>3. CASE size # 7
  <2> DEFINE first == size - 7
             suffix == SubSeq(text, first, size)
  <2>1. first \in Int /\ size \in Int /\ first >= 1 /\ size >= 8 /\ first <= size
    BY <1>3
  <2>2. \A i \in first..size : text[i] \in {"A", "9", "x", Comma, Space}
    BY <1>1, <2>1, ElementOfSeq DEF Text
  <2>3. Suffix(text) = suffix
    BY <2>1 DEF Suffix
  <2>4. /\ size - first + 1 = 8
        /\ \A i \in 1..8 : first + i - 1 = (size - 8) + i
    BY <1>3
  <2> HIDE DEF first
  <2>5. suffix \in Text
    BY <2>1, <2>2, SubSeqProperties DEF Text
  <2>6. Len(suffix) = size - first + 1
    BY <2>1, <2>2, SubSeqProperties
  <2>7. \A i \in 1..(size - first + 1) : suffix[i] = text[first + i - 1]
    BY <2>1, <2>2, SubSeqProperties
  <2> HIDE DEF suffix
  <2>8. \A i \in 1..8 : suffix[i] = text[(size - 8) + i]
    BY <2>4, <2>7
  <2>9. Len(suffix) = 8
    BY <2>4, <2>6
  <2> QED
    BY <2>1, <2>3, <2>5, <2>8, <2>9
<1> QED
  BY <1>2, <1>3

LEMMA ExtractType ==
  ASSUME NEW address \in Text
  PROVE  ExtractPostalCode(address) \in Text
<1>1. PICK size \in Nat : size = Len(address)
  BY LenProperties DEF Text
<1>2. CASE size <= 6
  BY <1>1, <1>2 DEF ExtractPostalCode
<1>3. CASE ~(size <= 6)
  <2>1. size >= 7
    BY <1>3
  <2>2. Suffix(address) \in Text /\ \E kept \in {7, 8} : Len(Suffix(address)) = kept
    BY <1>1, <2>1, SuffixProperties
  <2>3. Suffix(address) # <<>>
    BY <2>2
  <2>4. WithoutComma(Suffix(address)) \in Text
    BY <2>2, <2>3, WithoutCommaProperties
  <2>5. ExtractPostalCode(address) = Trim(WithoutComma(Suffix(address)))
    BY <1>1, <1>3 DEF ExtractPostalCode
  <2> QED
    BY <2>4, <2>5, TrimType
<1> QED
  BY <1>2, <1>3

(* What is in front of a code is dropped: a comma, a space, or both.        *)
LEMMA DropToCode ==
  ASSUME NEW suffix \in Text, NEW code \in PostalCode, NEW size \in 6..8, size = Len(code),
         NEW n \in {0, 1, 2}, Len(suffix) = n + size,
         \A j \in 1..size : suffix[n + j] = code[j],
         n = 1 => suffix[1] \in {Comma, Space},
         n = 2 => suffix[1] = Comma /\ suffix[2] = Space
  PROVE  Trim(WithoutComma(suffix)) = code
<1>1. code[1] \notin {Space, Comma} /\ 1 \in 1..size
  BY PostalCodeProperties
<1>2. suffix # <<>>
  <2>1. n + size # 0
    OBVIOUS
  <2> QED
    BY <2>1
<1>3. CASE n = 0 \/ (n = 1 /\ suffix[1] = Space)
  <2>1. n = 0 => suffix[0 + 1] = code[1]
    BY <1>1
  <2>2. suffix[1] # Comma
    <3>1. CASE n = 0
      <4>1. 0 + 1 = 1
        OBVIOUS
      <4> QED
        BY <1>1, <2>1, <3>1, <4>1
    <3>2. CASE n # 0
      BY <1>3, <3>2 DEF Comma, Space
    <3> QED
      BY <3>1, <3>2
  <2>3. WithoutComma(suffix) = suffix
    BY <1>2, <2>2, WithoutCommaProperties
  <2> QED
    BY <1>3, <2>3, TrimToCode
<1>4. CASE (n = 1 /\ suffix[1] = Comma) \/ n = 2
  <2> DEFINE tail == WithoutComma(suffix)
  <2>1. PICK m \in {0, 1} : n = m + 1
    BY <1>4
  <2>2. (n + size) - 1 = m + size
    BY <2>1
  <2>3. tail \in Text /\ Len(tail) = m + size
        /\ \A i \in 1..(m + size) : tail[i] = suffix[i + 1]
    BY <1>2, <1>4, <2>2, WithoutCommaProperties
  <2> HIDE DEF tail
  <2>4. ASSUME NEW j \in 1..size
        PROVE  tail[m + j] = code[j]
    <3>1. m + j \in 1..(m + size) /\ (m + j) + 1 = n + j
      BY <2>1
    <3> QED
      BY <2>3, <3>1
  <2>5. m = 1 => tail[1] = Space
    <3>1. 1 \in 1..(m + size) /\ 1 + 1 = 2
      OBVIOUS
    <3>2. tail[1] = suffix[2]
      BY <2>3, <3>1
    <3> QED
      BY <2>1, <3>2
  <2>6. Trim(tail) = code
    BY <2>3, <2>4, <2>5, TrimToCode
  <2> QED
    BY <2>6 DEF tail
<1>5. CASE n = 0 \/ n = 1 \/ n = 2
  BY <1>3, <1>4, <1>5
<1> QED
  BY <1>5

LEMMA ExtractCode ==
  ASSUME NEW address \in Text, NEW code \in PostalCode, NEW before \in Nat,
         NEW size \in 6..8, size = Len(code), Len(address) = before + size,
         \A j \in 1..size : address[before + j] = code[j],
         before > 0 => address[before] \in {Comma, Space},
         before > 1 /\ size = 6
         => address[before - 1] = Comma /\ address[before] = Space
  PROVE  ExtractPostalCode(address) = code
<1>1. CASE before + size <= 6
  <2>1. before = 0 /\ before + size = size /\ \A j \in 1..size : before + j = j
    BY <1>1
  <2>2. Len(address) = Len(code) /\ \A j \in 1..Len(code) : address[j] = code[j]
    BY <2>1
  <2>3. address = code
    BY <2>2, PostalCodeProperties, SeqEqual DEF Text
  <2> QED
    BY <1>1, <2>3 DEF ExtractPostalCode
<1>2. CASE ~(before + size <= 6)
  <2> DEFINE suffix == Suffix(address)
  <2>1. before + size >= 7 /\ before + size \in Nat
    BY <1>2
  <2>2. PICK kept \in {7, 8} :
          /\ suffix \in Text
          /\ Len(suffix) = kept /\ kept <= before + size
          /\ kept = 7 => before + size = 7
          /\ \A i \in 1..kept : suffix[i] = address[((before + size) - kept) + i]
    BY <2>1, SuffixProperties
  <2>3. ExtractPostalCode(address) = Trim(WithoutComma(suffix))
    BY <1>2 DEF ExtractPostalCode
  <2> HIDE DEF suffix
  <2>4. PICK n \in {0, 1, 2} : n = kept - size /\ n <= before
    <3>1. kept <= before + size /\ (kept = 7 => before + size = 7)
      BY <2>2
    <3>2. CASE kept = 7
      BY <3>1, <3>2
    <3>3. CASE kept = 8
      <4>1. 8 - size \in {0, 1, 2} /\ 8 - size <= before
        <5>1. size = 6 \/ size = 7 \/ size = 8
          OBVIOUS
        <5>2. 8 <= before + size
          BY <3>1, <3>3
        <5>3. CASE size = 6
          BY <5>2, <5>3
        <5>4. CASE size = 7
          BY <5>2, <5>4
        <5>5. CASE size = 8
          BY <5>2, <5>5
        <5> QED
          BY <5>1, <5>3, <5>4, <5>5
      <4> QED
        BY <3>3, <4>1
    <3> QED
      BY <3>2, <3>3
  <2>5. kept = n + size /\ (n = 2 => size = 6) /\ (before + size) - kept = before - n
    BY <2>4
  <2>6. \A i \in 1..(n + size) : suffix[i] = address[(before - n) + i]
    BY <2>2, <2>5
  <2>7. ASSUME NEW j \in 1..size
        PROVE  suffix[n + j] = code[j]
    <3>1. n + j \in 1..(n + size) /\ (before - n) + (n + j) = before + j
      OBVIOUS
    <3> QED
      BY <2>6, <3>1
  <2>8. n = 1 => suffix[1] \in {Comma, Space}
    <3>1. n = 1 => 1 \in 1..(n + size) /\ (before - n) + 1 = before /\ before > 0
      BY <2>4
    <3> QED
      BY <2>6, <3>1
  <2>9. n = 2 => suffix[1] = Comma /\ suffix[2] = Space
    <3>1. n = 2 => /\ 1 \in 1..(n + size) /\ 2 \in 1..(n + size)
                   /\ (before - n) + 1 = before - 1 /\ (before - n) + 2 = before
                   /\ before > 1 /\ size = 6
      BY <2>4, <2>5
    <3> QED
      BY <2>6, <3>1
  <2>10. Len(suffix) = n + size
    BY <2>2, <2>5
  <2>11. Trim(WithoutComma(suffix)) = code
    BY <2>2, <2>7, <2>8, <2>9, <2>10, DropToCode
  <2> QED
    BY <2>3, <2>11
<1> QED
  BY <1>1, <1>2

(* Of a well-written address, the code that is meant is extracted.          *)
LEMMA ExtractWellWritten ==
  ASSUME NEW permit \in DrivingPermit, WellWritten(permit), permit.code # <<>>
  PROVE  ExtractPostalCode(permit.fullAddress) = permit.code
<1>1. permit.code \in PostalCode /\ permit.fullAddress \in Text
  BY DEF DrivingPermit
<1>2. PICK address \in Text : address = permit.fullAddress
  BY <1>1
<1>3. PICK code \in PostalCode : code = permit.code
  BY <1>1
<1>4. PICK size \in 6..8 : size = Len(code)
  BY PostalCodeProperties
<1>5. PICK long \in Nat : long = Len(address) /\ DOMAIN address = 1..long
  BY LenProperties DEF Text
<1>6. PICK before \in Int : before = long - size
  OBVIOUS
<1>7. /\ before >= 0 /\ SubSeq(address, before + 1, long) = code
      /\ before > 0 => address[before] \in {Comma, Space}
      /\ before > 1 /\ size = 6
         => address[before - 1] = Comma /\ address[before] = Space
  BY <1>2, <1>3, <1>4, <1>5, <1>6 DEF WellWritten
<1>8. /\ before \in Nat /\ long = before + size
      /\ before + 1 \in Int /\ long \in Int /\ before + 1 <= long
      /\ long - (before + 1) + 1 = size
      /\ \A j \in 1..size : (before + 1) + j - 1 = before + j
  <2>1. before >= 0
    BY <1>7
  <2>2. size \in Int /\ before \in Nat /\ long = before + size
    BY <1>6, <2>1
  <2>3. before + 1 <= long /\ long - (before + 1) + 1 = size
    BY <2>2
  <2>4. \A j \in 1..size : (before + 1) + j - 1 = before + j
    BY <2>2
  <2> QED
    BY <2>2, <2>3, <2>4
<1>9. \A i \in (before + 1)..long : address[i] \in {"A", "9", "x", Comma, Space}
  BY <1>5, <1>8, ElementOfSeq DEF Text
<1>10. \A j \in 1..size : address[before + j] = code[j]
  <2>1. \A j \in 1..(long - (before + 1) + 1) : code[j] = address[(before + 1) + j - 1]
    BY <1>7, <1>8, <1>9, SubSeqProperties
  <2> QED
    BY <1>8, <2>1
<1>11. Len(address) = before + size
  BY <1>5, <1>8
<1>12. ExtractPostalCode(address) = code
  BY <1>4, <1>7, <1>8, <1>10, <1>11, ExtractCode
<1> QED
  BY <1>2, <1>3, <1>12

---------------------------------------------------------------------------
(* The addresses of the row.                                                *)

LEMMA SequenceOf ==
  ASSUME NEW S, NEW n \in Nat, NEW f, f = [i \in 1..n |-> f[i]], \A i \in 1..n : f[i] \in S
  PROVE  f \in Seq(S) /\ Len(f) = n
<1>1. f \in [1..n -> S]
  OBVIOUS
<1> QED
  BY <1>1, SeqDef, LenProperties

(* What PostalCodesOfPermits selects, by the permit that each comes from.   *)
LEMMA PostalCodesSelect ==
  ASSUME NEW permits \in Seq(DrivingPermit)
  PROVE  LET codes == PostalCodesOfPermits(permits)
         IN /\ codes \in Seq(Text)
            /\ \E source \in [1..Len(codes) -> 1..Len(permits)] :
                 /\ \A k, l \in 1..Len(codes) : k < l => source[k] < source[l]
                 /\ \A i \in 1..Len(permits) :
                      permits[i].fullAddress # <<>> /\ ExtractPostalCode(permits[i].fullAddress) # <<>>
                      => \E k \in 1..Len(codes) : source[k] = i
                 /\ \A k \in 1..Len(codes) :
                      /\ permits[source[k]].fullAddress # <<>>
                      /\ codes[k] = ExtractPostalCode(permits[source[k]].fullAddress)
                      /\ codes[k] # <<>>
<1> DEFINE addresses == [i \in DOMAIN permits |-> permits[i].fullAddress]
           written == NonEmpty(addresses)
           extracts == [i \in DOMAIN written |-> ExtractPostalCode(written[i])]
           codes == NonEmpty(extracts)
<1>1. PICK p \in Nat : Len(permits) = p /\ DOMAIN permits = 1..p
  BY LenProperties
<1>2. PostalCodesOfPermits(permits) = codes
  BY DEF PostalCodesOfPermits
<1>3. addresses \in Seq(Text) /\ Len(addresses) = p
      /\ \A i \in 1..p : addresses[i] = permits[i].fullAddress
  <2>1. addresses = [i \in 1..p |-> addresses[i]]
    BY <1>1
  <2>2. \A i \in 1..p : addresses[i] = permits[i].fullAddress /\ permits[i] \in DrivingPermit
    BY <1>1, ElementOfSeq
  <2> HIDE DEF addresses
  <2>3. \A i \in 1..p : addresses[i] \in Text
    BY <2>2 DEF DrivingPermit
  <2> QED
    BY <2>1, <2>2, <2>3, SequenceOf
<1> HIDE DEF addresses
<1>4. written \in Seq(Text) /\ Selects(written, addresses, p)
  BY <1>3, NonEmptySelects
<1>5. PICK w \in Nat : Len(written) = w /\ DOMAIN written = 1..w
  BY <1>4, LenProperties
<1> HIDE DEF written
<1>6. extracts \in Seq(Text) /\ Len(extracts) = w
      /\ \A i \in 1..w : extracts[i] = ExtractPostalCode(written[i])
  <2>1. extracts = [i \in 1..w |-> extracts[i]]
    BY <1>5
  <2>2. \A i \in 1..w : extracts[i] = ExtractPostalCode(written[i]) /\ written[i] \in Text
    BY <1>4, <1>5, ElementOfSeq
  <2> HIDE DEF extracts
  <2>3. \A i \in 1..w : extracts[i] \in Text
    BY <2>2, ExtractType
  <2> QED
    BY <2>1, <2>2, <2>3, SequenceOf
<1> HIDE DEF extracts
<1>7. codes \in Seq(Text) /\ Selects(codes, extracts, w)
  BY <1>6, NonEmptySelects
<1>8. PICK c \in Nat : Len(codes) = c
  BY <1>7, LenProperties
<1> HIDE DEF codes
<1>9. PICK first \in [1..w -> 1..p] :
        /\ \A k, l \in 1..w : k < l => first[k] < first[l]
        /\ \A i \in 1..p : addresses[i] # <<>> => \E k \in 1..w : first[k] = i
        /\ \A k \in 1..w : written[k] = addresses[first[k]] /\ written[k] # <<>>
  BY <1>4, <1>5, Zenon DEF Selects
<1>10. PICK second \in [1..c -> 1..w] :
        /\ \A k, l \in 1..c : k < l => second[k] < second[l]
        /\ \A i \in 1..w : extracts[i] # <<>> => \E k \in 1..c : second[k] = i
        /\ \A k \in 1..c : codes[k] = extracts[second[k]] /\ codes[k] # <<>>
  BY <1>7, <1>8, Zenon DEF Selects
<1> DEFINE source == [k \in 1..c |-> first[second[k]]]
<1>11. \A k \in 1..c : second[k] \in 1..w /\ source[k] = first[second[k]] /\ source[k] \in 1..p
  BY <1>9, <1>10
<1>12. source \in [1..c -> 1..p]
  BY <1>11
<1> HIDE DEF source
<1>13. \A k, l \in 1..c : k < l => source[k] < source[l]
  BY <1>9, <1>10, <1>11
<1>14. ASSUME NEW i \in 1..p,
              permits[i].fullAddress # <<>>, ExtractPostalCode(permits[i].fullAddress) # <<>>
       PROVE  \E k \in 1..c : source[k] = i
  <2>1. PICK j \in 1..w : first[j] = i
    BY <1>3, <1>9, <1>14
  <2>2. extracts[j] # <<>>
    BY <1>3, <1>6, <1>9, <1>14, <2>1
  <2>3. PICK k \in 1..c : second[k] = j
    BY <1>10, <2>2
  <2> QED
    BY <1>11, <2>1, <2>3
<1>15. ASSUME NEW k \in 1..c
       PROVE  /\ permits[source[k]].fullAddress # <<>>
              /\ codes[k] = ExtractPostalCode(permits[source[k]].fullAddress)
              /\ codes[k] # <<>>
  <2>1. PICK j \in 1..w : j = second[k]
    BY <1>11
  <2>2. codes[k] = extracts[j] /\ codes[k] # <<>>
    BY <1>10, <2>1
  <2>3. PICK i \in 1..p : i = first[j] /\ i = source[k]
    BY <1>11, <2>1
  <2>4. written[j] = permits[i].fullAddress /\ written[j] # <<>>
    BY <1>3, <1>9, <2>3
  <2>5. extracts[j] = ExtractPostalCode(written[j])
    BY <1>6
  <2> QED
    BY <2>2, <2>3, <2>4, <2>5
<1> QED
  BY <1>1, <1>2, <1>7, <1>8, <1>12, <1>13, <1>14, <1>15

LEMMA AddressesType ==
  ASSUME NEW permits \in Seq(DrivingPermit), NEW claimed
  PROVE  Addresses(permits, claimed) \in Seq(Text) \cup {claimed}
BY PostalCodesSelect DEF Addresses

(* The addresses of a row are as the permits mean them, and those that the   *)
(* request claims remain only where no permit has a well-written code.       *)
THEOREM AddressesMeant ==
  ASSUME NEW permits \in Seq(DrivingPermit), NEW claimed
  PROVE  AddressesOf(permits, claimed, Addresses(permits, claimed))
<1>1. PICK codes \in Seq(Text) : codes = PostalCodesOfPermits(permits)
  BY PostalCodesSelect
<1>2. PICK c \in Nat : Len(codes) = c /\ DOMAIN codes = 1..c
  BY LenProperties
<1>3. PICK p \in Nat : Len(permits) = p /\ DOMAIN permits = 1..p
  BY LenProperties
<1>4. PICK source \in [1..c -> 1..p] :
        /\ \A k, l \in 1..c : k < l => source[k] < source[l]
        /\ \A i \in 1..p :
             permits[i].fullAddress # <<>> /\ ExtractPostalCode(permits[i].fullAddress) # <<>>
             => \E k \in 1..c : source[k] = i
        /\ \A k \in 1..c :
             /\ permits[source[k]].fullAddress # <<>>
             /\ codes[k] = ExtractPostalCode(permits[source[k]].fullAddress)
             /\ codes[k] # <<>>
  BY <1>1, <1>2, <1>3, PostalCodesSelect
<1>5. \A i \in 1..p : permits[i] \in DrivingPermit
  BY <1>3, ElementOfSeq
<1>6. ASSUME NEW i \in 1..p, WellWritten(permits[i]), permits[i].code # <<>>
      PROVE  \E k \in 1..c : source[k] = i
  <2>1. ExtractPostalCode(permits[i].fullAddress) = permits[i].code
    BY <1>5, <1>6, ExtractWellWritten
  <2>2. permits[i].fullAddress # <<>>
    <3>1. ExtractPostalCode(<<>>) = <<>>
      BY DEF ExtractPostalCode
    <3> QED
      BY <1>6, <2>1, <3>1
  <2> QED
    BY <1>4, <1>6, <2>1, <2>2
<1>7. ASSUME NEW k \in 1..c, WellWritten(permits[source[k]])
      PROVE  codes[k] = permits[source[k]].code
  <2>1. source[k] \in 1..p /\ permits[source[k]].fullAddress # <<>>
    BY <1>4
  <2>2. permits[source[k]].code # <<>>
    BY <1>7, <2>1, Zenon DEF WellWritten
  <2> QED
    BY <1>4, <1>5, <1>7, <2>1, <2>2, ExtractWellWritten
<1>8. CASE codes # <<>>
  <2>1. /\ source \in [DOMAIN codes -> DOMAIN permits]
        /\ \A k, l \in DOMAIN codes : k < l => source[k] < source[l]
        /\ \A k \in DOMAIN codes : codes[k] # <<>>
    BY <1>2, <1>3, <1>4
  <2>2. \A i \in DOMAIN permits :
          WellWritten(permits[i]) /\ permits[i].code # <<>>
          => \E k \in DOMAIN codes : source[k] = i
    BY <1>2, <1>3, <1>6
  <2>3. \A k \in DOMAIN codes :
          WellWritten(permits[source[k]]) => codes[k] = permits[source[k]].code
    BY <1>2, <1>7
  <2>4. AsMeant(codes, permits)
    BY <2>1, <2>2, <2>3, Zenon DEF AsMeant
  <2> QED
    BY <1>1, <1>8, <2>4 DEF AddressesOf, Addresses
<1>9. CASE codes = <<>>
  <2>1. c = 0
    BY <1>2, <1>9
  <2>2. \A i \in 1..p : WellWritten(permits[i]) => permits[i].code = <<>>
    BY <1>6, <2>1
  <2> QED
    BY <1>1, <1>3, <1>9, <2>2 DEF AddressesOf, Addresses
<1> QED
  BY <1>8, <1>9
===========================================================================
