--------------------------- MODULE TagOrderProofs ---------------------------
(***************************************************************************)
(* The promises of the tag order (NewestFirst), for tags of any bytes.     *)
(*                                                                         *)
(* naturalCompare's loop compares token by token, a run of digits being    *)
(* one token (LoopDefined, LoopRound).  Tokens are in a total preorder, so *)
(* texts are (NaturalSigns, NaturalTransitive), and with the ties broken   *)
(* sortTags has a total order (TagCompareIsOrder).  So insertions commute  *)
(* (InsertedCommutes), which makes the sorted list independent of the      *)
(* order of the list before (SortForgetsOrder).  Digits compare as the     *)
(* numbers they say (DigitsCompare), hence versions as lists of numbers    *)
(* (VersionCompare), and texts without digits as text (WordyCompare).      *)
(***************************************************************************)
EXTENDS TagOrder, PagesProofs

Bytes == 0 .. 255
Texts == Seq(Bytes)
Signs == {-1, 0, 1}

-----------------------------------------------------------------------------
(* Lists of numbers, in lexical order.                                     *)

\* Natural numbers have a least one, and Min finds it.
LEMMA LeastNumber ==
    ASSUME NEW S \in SUBSET Nat, S # {}
    PROVE  Min(S) \in S /\ \A t \in S : Min(S) <= t
<1>1. PICK m \in S : \A k \in S : ~(<<k, m>> \in OpToRel(<, Nat))
  BY NatLessThanWellFounded, WFMin
<1>2. \A k \in S : ~(k < m)
  BY <1>1 DEF OpToRel
<1>3. \E x \in S : \A y \in S : x <= y
  BY <1>2
<1> QED
  BY <1>3 DEF Min

LEMMA MinIs ==
    ASSUME NEW S \in SUBSET Nat, NEW m \in S, \A t \in S : m <= t
    PROVE  Min(S) = m
<1>1. Min(S) \in S /\ Min(S) <= m
  BY LeastNumber
<1>2. m <= Min(S) /\ m \in Nat /\ Min(S) \in Nat
  BY <1>1
<1> QED
  BY <1>1, <1>2

\* A text is a list of numbers.
LEMMA TextsAreNumbers == \A s \in Texts : s \in Seq(Nat)
<1>1. Bytes \subseteq Nat
  BY DEF Bytes
<1> QED
  BY <1>1, SeqMonotonic DEF Texts

\* What is at p: after the end, less than any number.
At(s, p) == IF p \in DOMAIN s THEN s[p] ELSE -1

\* The first place where s and t differ.
DifferAt(s, t, p) == At(s, p) # At(t, p) /\ \A q \in 1 .. p - 1 : At(s, q) = At(t, q)

\* Compare decides at the first place where two lists differ ...
LEMMA CompareAt ==
    ASSUME NEW s \in Seq(Nat), NEW t \in Seq(Nat), NEW p \in Nat \ {0}, DifferAt(s, t, p)
    PROVE  Compare(s, t) = Sign(At(s, p), At(t, p))
<1> DEFINE differ == {i \in DOMAIN s \cap DOMAIN t : s[i] # t[i]}
<1>1. /\ DOMAIN s = 1 .. Len(s) /\ DOMAIN t = 1 .. Len(t) /\ Len(s) \in Nat /\ Len(t) \in Nat
      /\ \A q \in DOMAIN s : s[q] \in Nat
      /\ \A q \in DOMAIN t : t[q] \in Nat
  BY LenProperties, ElementOfSeq
<1>2. Compare(s, t) = IF differ = {} THEN Sign(Len(s), Len(t)) ELSE Sign(s[Min(differ)], t[Min(differ)])
  BY DEF Compare
<1>3. \A q \in 1 .. p - 1 : At(s, q) = At(t, q)
  BY DEF DifferAt
<1>4. At(s, p) # At(t, p)
  BY DEF DifferAt
<1>5. CASE p \in DOMAIN s \cap DOMAIN t
  <2>1. At(s, p) = s[p] /\ At(t, p) = t[p]
    BY <1>5 DEF At
  <2>2. p \in differ /\ \A q \in differ : q \in Nat /\ p <= q
    <3>1. p \in differ
      BY <1>4, <1>5, <2>1
    <3>2. ASSUME NEW q \in differ, ~(p <= q) PROVE FALSE
      <4>1. q \in 1 .. p - 1 /\ q \in DOMAIN s /\ q \in DOMAIN t /\ s[q] # t[q]
        BY <1>1, <3>2
      <4> QED
        BY <1>3, <4>1 DEF At
    <3> QED
      BY <1>1, <3>1, <3>2
  <2>3. Min(differ) = p
    <3>1. differ \in SUBSET Nat
      BY <2>2
    <3> HIDE DEF differ
    <3> QED BY <2>2, <3>1, MinIs
  <2> QED
    BY <1>2, <2>1, <2>2, <2>3
<1>6. CASE p \notin DOMAIN s \cap DOMAIN t
  <2>1. p - 1 <= Len(s) /\ p - 1 <= Len(t)
    <3>1. ASSUME Len(s) < p - 1 PROVE FALSE
      <4>1. \A q \in 1 .. p - 1 : q \in DOMAIN s <=> q \in DOMAIN t
        BY <1>1, <1>3 DEF At
      <4>2. p \notin DOMAIN s /\ p - 1 \in 1 .. p - 1 /\ p - 1 \notin DOMAIN s
        BY <1>1, <3>1
      <4>3. p \notin DOMAIN t
        BY <1>1, <4>1, <4>2
      <4> QED
        BY <1>4, <4>2, <4>3 DEF At
    <3>2. ASSUME Len(t) < p - 1 PROVE FALSE
      <4>1. \A q \in 1 .. p - 1 : q \in DOMAIN s <=> q \in DOMAIN t
        BY <1>1, <1>3 DEF At
      <4>2. p \notin DOMAIN t /\ p - 1 \in 1 .. p - 1 /\ p - 1 \notin DOMAIN t
        BY <1>1, <3>2
      <4>3. p \notin DOMAIN s
        BY <1>1, <4>1, <4>2
      <4> QED
        BY <1>4, <4>2, <4>3 DEF At
    <3> QED
      BY <1>1, <3>1, <3>2
  <2>2. differ = {}
    <3> SUFFICES ASSUME NEW q \in differ PROVE FALSE
      OBVIOUS
    <3>1. q \in DOMAIN s /\ q \in DOMAIN t /\ s[q] # t[q]
      OBVIOUS
    <3>2. q \in 1 .. p - 1
      BY <1>1, <1>6, <2>1, <3>1
    <3> QED
      BY <1>3, <3>1, <3>2 DEF At
  <2>3. \/ Len(s) = p - 1 /\ p <= Len(t)
        \/ Len(t) = p - 1 /\ p <= Len(s)
    <3>1. p \in DOMAIN s \/ p \in DOMAIN t
      BY <1>4 DEF At
    <3> QED
      BY <1>1, <1>6, <2>1, <3>1
  <2>4. CASE Len(s) = p - 1 /\ p <= Len(t)
    <3>1. At(s, p) = -1 /\ At(t, p) = t[p] /\ t[p] \in Nat
      BY <1>1, <2>4 DEF At
    <3> QED
      BY <1>1, <1>2, <2>2, <2>4, <3>1 DEF Sign
  <2>5. CASE Len(t) = p - 1 /\ p <= Len(s)
    <3>1. At(t, p) = -1 /\ At(s, p) = s[p] /\ s[p] \in Nat
      BY <1>1, <2>5 DEF At
    <3> QED
      BY <1>1, <1>2, <2>2, <2>5, <3>1 DEF Sign
  <2> QED
    BY <2>3, <2>4, <2>5
<1> QED
  BY <1>5, <1>6

\* ... and different lists do differ somewhere.
LEMMA DifferSomewhere ==
    ASSUME NEW s \in Seq(Nat), NEW t \in Seq(Nat), s # t
    PROVE  \E p \in Nat \ {0} : DifferAt(s, t, p)
<1> DEFINE differ == {p \in 1 .. Len(s) + Len(t) : At(s, p) # At(t, p)}
<1>1. /\ DOMAIN s = 1 .. Len(s) /\ DOMAIN t = 1 .. Len(t) /\ Len(s) \in Nat /\ Len(t) \in Nat
      /\ \A q \in DOMAIN s : s[q] \in Nat
      /\ \A q \in DOMAIN t : t[q] \in Nat
  BY LenProperties, ElementOfSeq
<1>2. differ # {}
  <2> SUFFICES ASSUME differ = {} PROVE FALSE
    OBVIOUS
  <2>1. \A p \in 1 .. Len(s) + Len(t) : At(s, p) = At(t, p)
    OBVIOUS
  <2>2. \A p \in 1 .. Len(s) + Len(t) : p \in DOMAIN s <=> p \in DOMAIN t
    BY <1>1, <2>1 DEF At
  <2>3. Len(s) = Len(t)
    <3>1. \A p \in 1 .. Len(s) + Len(t) : p <= Len(s) <=> p <= Len(t)
      BY <1>1, <2>2
    <3>2. Len(s) \in Nat /\ Len(t) \in Nat
      BY <1>1
    <3>3. ~(Len(s) < Len(t))
      <4> SUFFICES ASSUME Len(s) < Len(t) PROVE FALSE
        OBVIOUS
      <4>1. Len(t) \in 1 .. Len(s) + Len(t)
        BY <3>2
      <4> QED
        BY <3>1, <3>2, <4>1
    <3>4. ~(Len(t) < Len(s))
      <4> SUFFICES ASSUME Len(t) < Len(s) PROVE FALSE
        OBVIOUS
      <4>1. Len(s) \in 1 .. Len(s) + Len(t)
        BY <3>2
      <4> QED
        BY <3>1, <3>2, <4>1
    <3> QED
      BY <3>2, <3>3, <3>4
  <2>4. \A p \in 1 .. Len(s) : s[p] = t[p]
    BY <1>1, <2>1, <2>3 DEF At
  <2> QED
    BY <2>3, <2>4, SeqEqual
<1>3. differ \in SUBSET Nat
  BY <1>1
<1>4. Min(differ) \in differ /\ \A q \in differ : Min(differ) <= q
  <2> HIDE DEF differ
  <2> QED BY <1>2, <1>3, LeastNumber
<1>5. \A q \in 1 .. Min(differ) - 1 : At(s, q) = At(t, q)
  <2> SUFFICES ASSUME NEW q \in 1 .. Min(differ) - 1, At(s, q) # At(t, q) PROVE FALSE
    OBVIOUS
  <2>1. q \in differ
    BY <1>1, <1>4
  <2>2. Min(differ) <= q /\ Min(differ) \in Nat
    BY <1>3, <1>4, <2>1
  <2> QED
    BY <2>2
<1>6. Min(differ) \in Nat \ {0} /\ At(s, Min(differ)) # At(t, Min(differ))
  BY <1>1, <1>4
<1> QED
  BY <1>5, <1>6 DEF DifferAt

\* Equal lists compare equal.
LEMMA CompareSame ==
    ASSUME NEW s, Len(s) \in Int
    PROVE  Compare(s, s) = 0
BY DEF Compare, Sign

\* Something before, the same, or behind.
LEMMA AtNumbers ==
    ASSUME NEW s \in Seq(Nat), NEW p
    PROVE  At(s, p) \in Int
BY ElementOfSeq, LenProperties DEF At

\* The lexical order is total.
LEMMA CompareSigns ==
    ASSUME NEW s \in Seq(Nat), NEW t \in Seq(Nat)
    PROVE  /\ Compare(s, t) \in Signs
           /\ Compare(t, s) = -Compare(s, t)
           /\ Compare(s, t) = 0 <=> s = t
<1>1. CASE s = t
  BY <1>1, CompareSame, LenProperties DEF Signs
<1>2. CASE s # t
  <2>1. PICK p \in Nat \ {0} : DifferAt(s, t, p)
    BY <1>2, DifferSomewhere
  <2>2. DifferAt(t, s, p) /\ At(s, p) # At(t, p)
    BY <2>1 DEF DifferAt
  <2>3. Compare(s, t) = Sign(At(s, p), At(t, p)) /\ Compare(t, s) = Sign(At(t, p), At(s, p))
    BY <2>1, <2>2, CompareAt
  <2>4. At(s, p) \in Int /\ At(t, p) \in Int
    BY AtNumbers
  <2> QED
    BY <1>2, <2>2, <2>3, <2>4 DEF Sign, Signs
<1> QED
  BY <1>1, <1>2

LEMMA CompareTransitive ==
    ASSUME NEW s \in Seq(Nat), NEW t \in Seq(Nat), NEW u \in Seq(Nat),
           Compare(s, t) <= 0, Compare(t, u) <= 0
    PROVE  Compare(s, u) <= 0
<1>1. CASE s = t \/ t = u
  BY <1>1
<1>2. CASE s # t /\ t # u
  <2>1. PICK p \in Nat \ {0} : DifferAt(s, t, p)
    BY <1>2, DifferSomewhere
  <2>2. PICK q \in Nat \ {0} : DifferAt(t, u, q)
    BY <1>2, DifferSomewhere
  <2>3. At(s, p) < At(t, p) /\ At(t, q) < At(u, q)
    <3>1. Sign(At(s, p), At(t, p)) <= 0 /\ Sign(At(t, q), At(u, q)) <= 0
      BY <2>1, <2>2, CompareAt
    <3>2. At(s, p) \in Int /\ At(t, p) \in Int /\ At(t, q) \in Int /\ At(u, q) \in Int
      BY AtNumbers
    <3>3. At(s, p) # At(t, p) /\ At(t, q) # At(u, q)
      BY <2>1, <2>2 DEF DifferAt
    <3> QED
      BY <3>1, <3>2, <3>3 DEF Sign
  <2> DEFINE m == IF p <= q THEN p ELSE q
  <2>4. m \in Nat \ {0} /\ m <= p /\ m <= q /\ (m = p \/ m = q)
    OBVIOUS
  <2>5. \A r \in 1 .. m - 1 : At(s, r) = At(u, r)
    BY <2>1, <2>2, <2>4 DEF DifferAt
  <2>6. At(s, m) < At(u, m)
    <3>1. At(s, m) \in Int /\ At(t, m) \in Int /\ At(u, m) \in Int
      BY AtNumbers
    <3>2. m < p => At(s, m) = At(t, m)
      BY <2>1, <2>4 DEF DifferAt
    <3>3. m < q => At(t, m) = At(u, m)
      BY <2>2, <2>4 DEF DifferAt
    <3> QED
      BY <2>3, <2>4, <3>1, <3>2, <3>3
  <2>7. At(s, m) \in Int /\ At(u, m) \in Int
    BY AtNumbers
  <2>8. DifferAt(s, u, m)
    BY <2>5, <2>6, <2>7 DEF DifferAt
  <2>9. Compare(s, u) = Sign(At(s, m), At(u, m))
    <3> HIDE DEF m
    <3> QED BY <2>4, <2>8, CompareAt
  <2> QED
    BY <2>6, <2>7, <2>9 DEF Sign
<1> QED
  BY <1>1, <1>2

-----------------------------------------------------------------------------
(* Tokens: a run of digits, or one other byte.                             *)

\* What is left of a run of digits without its leading zeros.
LEMMA TrimmedIs ==
    ASSUME NEW s \in Seq(Nat)
    PROVE  /\ Trimmed(s) \in Seq(Nat) /\ Len(Trimmed(s)) \in Nat
           /\ \/ Trimmed(s) = <<>> /\ \A k \in DOMAIN s : s[k] = Zero
              \/ \E z \in DOMAIN s : /\ Trimmed(s) = SubSeq(s, z, Len(s)) /\ s[z] # Zero
                                     /\ \A k \in 1 .. z - 1 : s[k] = Zero
<1> DEFINE others == {k \in DOMAIN s : s[k] # Zero}
<1>1. DOMAIN s = 1 .. Len(s) /\ Len(s) \in Nat
  BY LenProperties
<1>2. Trimmed(s) = IF others = {} THEN <<>> ELSE SubSeq(s, Min(others), Len(s))
  BY DEF Trimmed
<1>3. CASE others = {}
  <2>1. Trimmed(s) = <<>> /\ \A k \in DOMAIN s : s[k] = Zero
    BY <1>2, <1>3
  <2>2. Trimmed(s) \in Seq(Nat)
    BY <2>1, EmptySeq
  <2> QED
    BY <2>1, <2>2, LenProperties
<1>4. CASE others # {}
  <2>1. others \in SUBSET Nat
    BY <1>1
  <2>2. Min(others) \in others /\ \A k \in others : Min(others) <= k
    <3> HIDE DEF others
    <3> QED BY <1>4, <2>1, LeastNumber
  <2>3. Min(others) \in DOMAIN s /\ s[Min(others)] # Zero
    BY <2>2
  <2>4. \A k \in 1 .. Min(others) - 1 : s[k] = Zero
    <3> SUFFICES ASSUME NEW k \in 1 .. Min(others) - 1, s[k] # Zero PROVE FALSE
      OBVIOUS
    <3>1. k \in others
      BY <1>1, <2>3
    <3>2. Min(others) <= k /\ Min(others) \in Nat
      BY <2>1, <2>2, <3>1
    <3> QED
      BY <3>2
  <2>5. Trimmed(s) = SubSeq(s, Min(others), Len(s))
    BY <1>2, <1>4
  <2>6. Trimmed(s) \in Seq(Nat)
    <3>1. Min(others) \in 1 .. Len(s) + 1 /\ Len(s) \in Min(others) - 1 .. Len(s)
      BY <1>1, <2>3
    <3> HIDE DEF others
    <3> QED BY <2>5, <3>1, SubSeqProperties
  <2>7. Len(Trimmed(s)) \in Nat
    BY <2>6, LenProperties
  <2> QED
    BY <2>3, <2>4, <2>5, <2>6, <2>7
<1> QED
  BY <1>3, <1>4

\* Runs of digits are preordered: they may differ in leading zeros.
LEMMA DigitsSigns ==
    ASSUME NEW m \in Seq(Nat), NEW n \in Seq(Nat)
    PROVE  CompareDigits(m, n) \in Signs /\ CompareDigits(n, m) = -CompareDigits(m, n)
<1>1. /\ Trimmed(m) \in Seq(Nat) /\ Len(Trimmed(m)) \in Nat
      /\ Trimmed(n) \in Seq(Nat) /\ Len(Trimmed(n)) \in Nat
  BY TrimmedIs
<1>2. /\ Compare(Trimmed(m), Trimmed(n)) \in Signs
      /\ Compare(Trimmed(n), Trimmed(m)) = -Compare(Trimmed(m), Trimmed(n))
  BY <1>1, CompareSigns
<1> QED
  BY <1>1, <1>2 DEF CompareDigits, Sign, Signs

LEMMA DigitsTransitive ==
    ASSUME NEW m \in Seq(Nat), NEW n \in Seq(Nat), NEW o \in Seq(Nat),
           CompareDigits(m, n) <= 0, CompareDigits(n, o) <= 0
    PROVE  CompareDigits(m, o) <= 0
<1>1. /\ Trimmed(m) \in Seq(Nat) /\ Len(Trimmed(m)) \in Nat
      /\ Trimmed(n) \in Seq(Nat) /\ Len(Trimmed(n)) \in Nat
      /\ Trimmed(o) \in Seq(Nat) /\ Len(Trimmed(o)) \in Nat
  BY TrimmedIs
<1>2. Len(Trimmed(m)) <= Len(Trimmed(n)) /\ Len(Trimmed(n)) <= Len(Trimmed(o))
  BY <1>1 DEF CompareDigits, Sign
<1>3. CASE Len(Trimmed(m)) < Len(Trimmed(o))
  BY <1>1, <1>3 DEF CompareDigits, Sign
<1>4. CASE Len(Trimmed(m)) = Len(Trimmed(o))
  <2>1. Len(Trimmed(m)) = Len(Trimmed(n)) /\ Len(Trimmed(n)) = Len(Trimmed(o))
    BY <1>1, <1>2, <1>4
  <2>2. Compare(Trimmed(m), Trimmed(n)) <= 0 /\ Compare(Trimmed(n), Trimmed(o)) <= 0
    BY <2>1 DEF CompareDigits
  <2>3. Compare(Trimmed(m), Trimmed(o)) <= 0
    BY <1>1, <2>2, CompareTransitive
  <2> QED
    BY <1>4, <2>3 DEF CompareDigits
<1> QED
  BY <1>1, <1>2, <1>3, <1>4

\* A run of digits that begins at i ends behind it, at the end or at another byte.
LEMMA DigitsEndIs ==
    ASSUME NEW s \in Texts, NEW i \in 1 .. Len(s)
    PROVE  /\ DigitsEnd(s, i) \in i .. Len(s) + 1
           /\ DigitsEnd(s, i) <= Len(s) => ~IsASCIIDigit(s[DigitsEnd(s, i)])
           /\ \A k \in i .. DigitsEnd(s, i) - 1 : IsASCIIDigit(s[k])
           /\ IsASCIIDigit(s[i]) => DigitsEnd(s, i) > i
<1> DEFINE ends == {k \in i .. Len(s) + 1 : k > Len(s) \/ ~IsASCIIDigit(s[k])}
<1>1. Len(s) \in Nat
  BY LenProperties DEF Texts
<1>2. ends \in SUBSET Nat /\ Len(s) + 1 \in ends
  BY <1>1
<1>3. DigitsEnd(s, i) = Min(ends)
  BY DEF DigitsEnd
<1>4. Min(ends) \in ends /\ \A k \in ends : Min(ends) <= k
  <2> HIDE DEF ends
  <2> QED BY <1>2, LeastNumber
<1>5. \A k \in i .. Min(ends) - 1 : IsASCIIDigit(s[k])
  <2> SUFFICES ASSUME NEW k \in i .. Min(ends) - 1, ~IsASCIIDigit(s[k]) PROVE FALSE
    OBVIOUS
  <2>1. k \in ends
    BY <1>1, <1>4
  <2>2. Min(ends) <= k /\ Min(ends) \in Nat
    BY <1>2, <1>4, <2>1
  <2> QED
    BY <2>2
<1>6. Min(ends) \in i .. Len(s) + 1 /\ (Min(ends) > Len(s) \/ ~IsASCIIDigit(s[Min(ends)]))
  BY <1>4
<1>7. DigitsEnd(s, i) \in i .. Len(s) + 1 /\ (DigitsEnd(s, i) > Len(s) \/ ~IsASCIIDigit(s[DigitsEnd(s, i)]))
  BY <1>3, <1>6
<1>8. \A k \in i .. DigitsEnd(s, i) - 1 : IsASCIIDigit(s[k])
  BY <1>3, <1>5
<1>9. IsASCIIDigit(s[i]) => DigitsEnd(s, i) # i
  BY <1>1, <1>7
<1> QED
  BY <1>1, <1>7, <1>8, <1>9

\* The run of digits of s that begins at i.
Run(s, i) == SubSeq(s, i, DigitsEnd(s, i) - 1)

\* What naturalCompare makes of the tokens at i of a and at j of b, and where
\* the token at i ends.
TokenCompare(a, i, b, j) ==
    IF IsASCIIDigit(a[i]) /\ IsASCIIDigit(b[j]) THEN CompareDigits(Run(a, i), Run(b, j))
    ELSE Sign(a[i], b[j])

TokenEnd(s, i) == IF IsASCIIDigit(s[i]) THEN DigitsEnd(s, i) ELSE i + 1

LEMMA TokenEnds ==
    ASSUME NEW s \in Texts, NEW i \in 1 .. Len(s)
    PROVE  TokenEnd(s, i) \in i + 1 .. Len(s) + 1
BY DigitsEndIs, LenProperties DEF TokenEnd, Texts

\* What compares is numbers.
LEMMA RunIsNumbers ==
    ASSUME NEW s \in Texts, NEW i \in 1 .. Len(s)
    PROVE  s[i] \in Nat /\ Run(s, i) \in Seq(Nat)
<1>1. s \in Seq(Nat) /\ Len(s) \in Nat /\ DOMAIN s = 1 .. Len(s)
  BY TextsAreNumbers, LenProperties
<1>2. DigitsEnd(s, i) \in i .. Len(s) + 1
  BY DigitsEndIs
<1>3. i \in 1 .. Len(s) + 1 /\ DigitsEnd(s, i) - 1 \in i - 1 .. Len(s)
  BY <1>1, <1>2
<1>4. Run(s, i) \in Seq(Nat)
  BY <1>1, <1>3, SubSeqProperties DEF Run
<1> QED
  BY <1>1, <1>4, ElementOfSeq

LEMMA TokenSigns ==
    ASSUME NEW a \in Texts, NEW b \in Texts, NEW i \in 1 .. Len(a), NEW j \in 1 .. Len(b)
    PROVE  TokenCompare(a, i, b, j) \in Signs /\ TokenCompare(b, j, a, i) = -TokenCompare(a, i, b, j)
<1>1. a[i] \in Nat /\ b[j] \in Nat /\ Run(a, i) \in Seq(Nat) /\ Run(b, j) \in Seq(Nat)
  BY RunIsNumbers
<1>2. /\ CompareDigits(Run(a, i), Run(b, j)) \in Signs
      /\ CompareDigits(Run(b, j), Run(a, i)) = -CompareDigits(Run(a, i), Run(b, j))
  BY <1>1, DigitsSigns
<1> QED
  BY <1>1, <1>2 DEF TokenCompare, Sign, Signs

LEMMA TokenTransitive ==
    ASSUME NEW a \in Texts, NEW b \in Texts, NEW c \in Texts,
           NEW i \in 1 .. Len(a), NEW j \in 1 .. Len(b), NEW k \in 1 .. Len(c),
           TokenCompare(a, i, b, j) <= 0, TokenCompare(b, j, c, k) <= 0
    PROVE  TokenCompare(a, i, c, k) <= 0
<1>1. /\ a[i] \in Nat /\ b[j] \in Nat /\ c[k] \in Nat
      /\ Run(a, i) \in Seq(Nat) /\ Run(b, j) \in Seq(Nat) /\ Run(c, k) \in Seq(Nat)
  BY RunIsNumbers
<1>2. CASE IsASCIIDigit(a[i]) /\ IsASCIIDigit(b[j]) /\ IsASCIIDigit(c[k])
  BY <1>1, <1>2, DigitsTransitive DEF TokenCompare
<1> DEFINE x == a[i]
           y == b[j]
           z == c[k]
<1>5. /\ ~(IsASCIIDigit(x) /\ IsASCIIDigit(y)) => x <= y
      /\ ~(IsASCIIDigit(y) /\ IsASCIIDigit(z)) => y <= z
  BY <1>1, SMTT(30) DEF TokenCompare, Sign
<1>6. ~(IsASCIIDigit(x) /\ IsASCIIDigit(z)) => TokenCompare(a, i, c, k) = Sign(x, z)
  BY DEF TokenCompare
<1>7. x \in Nat /\ y \in Nat /\ z \in Nat
  BY <1>1
<1> HIDE DEF x, y, z
<1>3. CASE IsASCIIDigit(x) /\ ~IsASCIIDigit(y) /\ IsASCIIDigit(z)
  BY <1>3, <1>5, <1>7 DEF IsASCIIDigit
<1>4. CASE ~(IsASCIIDigit(x) /\ IsASCIIDigit(z))
  <2>1. x <= z
    BY <1>4, <1>5, <1>7 DEF IsASCIIDigit
  <2> QED
    BY <1>4, <1>6, <1>7, <2>1 DEF Sign
<1> QED
  BY <1>2, <1>3, <1>4 DEF x, y, z

\* A token that is less than one that is no more than a third is less than it.
LEMMA TokenStrict ==
    ASSUME NEW a \in Texts, NEW b \in Texts, NEW c \in Texts,
           NEW i \in 1 .. Len(a), NEW j \in 1 .. Len(b), NEW k \in 1 .. Len(c),
           TokenCompare(a, i, b, j) <= 0, TokenCompare(b, j, c, k) <= 0
    PROVE  TokenCompare(a, i, c, k) = 0 <=>
               TokenCompare(a, i, b, j) = 0 /\ TokenCompare(b, j, c, k) = 0
<1>1. /\ TokenCompare(a, i, b, j) \in Signs /\ TokenCompare(b, j, a, i) = -TokenCompare(a, i, b, j)
      /\ TokenCompare(b, j, c, k) \in Signs /\ TokenCompare(c, k, b, j) = -TokenCompare(b, j, c, k)
      /\ TokenCompare(a, i, c, k) \in Signs /\ TokenCompare(c, k, a, i) = -TokenCompare(a, i, c, k)
  BY TokenSigns
<1>2. ASSUME TokenCompare(a, i, c, k) = 0
      PROVE  TokenCompare(a, i, b, j) = 0 /\ TokenCompare(b, j, c, k) = 0
  <2>1. TokenCompare(c, k, a, i) <= 0
    BY <1>1, <1>2
  <2>2. TokenCompare(b, j, a, i) <= 0 /\ TokenCompare(c, k, b, j) <= 0
    BY <2>1, TokenTransitive
  <2> QED
    BY <1>1, <2>2 DEF Signs
<1>3. ASSUME TokenCompare(a, i, b, j) = 0, TokenCompare(b, j, c, k) = 0
      PROVE  TokenCompare(a, i, c, k) = 0
  <2>1. TokenCompare(b, j, a, i) <= 0 /\ TokenCompare(c, k, b, j) <= 0
    BY <1>1, <1>3
  <2>2. TokenCompare(c, k, a, i) <= 0 /\ TokenCompare(a, i, c, k) <= 0
    BY <2>1, TokenTransitive
  <2> QED
    BY <1>1, <2>2 DEF Signs
<1> QED
  BY <1>2, <1>3

-----------------------------------------------------------------------------
(* The loop of naturalCompare, token by token.                             *)

\* What holds of a place when it holds of every later one holds of all.
LEMMA Backwards ==
    ASSUME NEW n \in Nat, NEW P, \A i \in 1 .. n : (\A k \in i + 1 .. n : k \in P) => i \in P
    PROVE  1 .. n \subseteq P
<1> SUFFICES ASSUME NEW g \in 1 .. n, g \notin P PROVE FALSE
  OBVIOUS
<1> DEFINE gaps == {m \in 0 .. n - 1 : n - m \notin P}
<1>1. gaps \in SUBSET Nat /\ n - g \in gaps
  OBVIOUS
<1>2. Min(gaps) \in gaps /\ \A m \in gaps : Min(gaps) <= m
  <2> HIDE DEF gaps
  <2> QED BY <1>1, LeastNumber
<1> DEFINE i == n - Min(gaps)
<1>3. Min(gaps) \in 0 .. n - 1 /\ i \in 1 .. n /\ i \notin P
  BY <1>2
<1>4. \A k \in i + 1 .. n : k \in P
  <2> SUFFICES ASSUME NEW k \in i + 1 .. n, k \notin P PROVE FALSE
    OBVIOUS
  <2>1. n - k \in gaps
    BY <1>3
  <2>2. Min(gaps) <= n - k
    BY <1>2, <2>1
  <2> QED
    BY <1>3, <2>2
<1> QED
  BY <1>3, <1>4

\* f says how a from i on compares with b from j on.
IsLoop(a, b, f) ==
    \A i \in 1 .. Len(a) + 1, j \in 1 .. Len(b) + 1 :
        /\ f[<<i, j>>] \in Signs
        /\ f[<<i, j>>] = IF i > Len(a) \/ j > Len(b) THEN Sign(Len(a) - i, Len(b) - j)
                     ELSE IF TokenCompare(a, i, b, j) # 0 THEN TokenCompare(a, i, b, j)
                     ELSE f[<<TokenEnd(a, i), TokenEnd(b, j)>>]

\* The loop is well defined.
LEMMA LoopDefined ==
    ASSUME NEW a \in Texts, NEW b \in Texts
    PROVE  \E f : IsLoop(a, b, f) /\ NaturalCompare(a, b) = f[<<1, 1>>]
<1> DEFINE I == 1 .. Len(a) + 1
           J == 1 .. Len(b) + 1
           Round(f, i, j) ==
               IF i > Len(a) \/ j > Len(b) THEN Sign(Len(a) - i, Len(b) - j)
               ELSE IF TokenCompare(a, i, b, j) # 0 THEN TokenCompare(a, i, b, j)
               ELSE f[<<TokenEnd(a, i), TokenEnd(b, j)>>]
           N == {n \in Nat : \E f \in [I \X J -> Signs] :
                    \A i \in I, j \in J : i > Len(a) + 1 - n => f[<<i, j>>] = Round(f, i, j)}
<1>1. Len(a) \in Nat /\ Len(b) \in Nat
  BY LenProperties DEF Texts
<1>2. ASSUME NEW i \in I, NEW j \in J, ~(i > Len(a) \/ j > Len(b))
      PROVE  /\ TokenCompare(a, i, b, j) \in Signs
             /\ TokenEnd(a, i) \in I /\ TokenEnd(b, j) \in J /\ TokenEnd(a, i) > i
  <2>1. i \in 1 .. Len(a) /\ j \in 1 .. Len(b)
    BY <1>1, <1>2
  <2> QED
    BY <1>1, <2>1, TokenSigns, TokenEnds
<1>3. ASSUME NEW f \in [I \X J -> Signs], NEW i \in I, NEW j \in J PROVE Round(f, i, j) \in Signs
  <2>1. CASE i > Len(a) \/ j > Len(b)
    BY <1>1, <2>1 DEF Sign, Signs
  <2>2. CASE ~(i > Len(a) \/ j > Len(b))
    <3>1. f[<<TokenEnd(a, i), TokenEnd(b, j)>>] \in Signs
      <4> HIDE DEF I, J
      <4> QED BY <1>2, <2>2
    <3> QED
      BY <1>2, <2>2, <3>1
  <2> QED
    BY <2>1, <2>2
<1>4. 0 \in N
  <2> DEFINE f == [p \in I \X J |-> 0]
  <2>1. f \in [I \X J -> Signs]
    BY DEF Signs
  <2>2. \A i \in I : ~(i > Len(a) + 1 - 0)
    BY <1>1
  <2> QED
    BY <2>1, <2>2
<1>5. ASSUME NEW n \in Nat, n \in N PROVE n + 1 \in N
  <2>1. PICK f \in [I \X J -> Signs] : \A i \in I, j \in J : i > Len(a) + 1 - n => f[<<i, j>>] = Round(f, i, j)
    BY <1>5
  <2> DEFINE g == [at \in I \X J |-> IF at[1] > Len(a) - n THEN Round(f, at[1], at[2]) ELSE f[at]]
  <2>2. g \in [I \X J -> Signs]
    <3>1. \A i \in I, j \in J : f[<<i, j>>] \in Signs /\ Round(f, i, j) \in Signs
      BY <1>3
    <3> HIDE DEF I, J, Round
    <3> QED BY <3>1
  <2>3. \A i \in I, j \in J : g[<<i, j>>] = IF i > Len(a) - n THEN Round(f, i, j) ELSE f[<<i, j>>]
    <3> HIDE DEF I, J, Round
    <3> QED OBVIOUS
  <2> HIDE DEF g
  <2>4. ASSUME NEW i \in I, NEW j \in J, i > Len(a) - n PROVE g[<<i, j>>] = Round(g, i, j)
    <3>1. g[<<i, j>>] = Round(f, i, j)
      <4> HIDE DEF I, J, Round
      <4> QED BY <2>3, <2>4
    <3>2. CASE i > Len(a) \/ j > Len(b)
      BY <3>1, <3>2
    <3>3. CASE ~(i > Len(a) \/ j > Len(b))
      <4>1. TokenEnd(a, i) \in I /\ TokenEnd(b, j) \in J /\ TokenEnd(a, i) > i
        BY <1>2, <3>3
      <4>2. TokenEnd(a, i) > Len(a) + 1 - n /\ TokenEnd(a, i) > Len(a) - n
        BY <1>1, <2>4, <4>1
      <4> DEFINE x == TokenEnd(a, i)
                 y == TokenEnd(b, j)
      <4>3. g[<<x, y>>] = f[<<x, y>>]
        <5>1. g[<<x, y>>] = Round(f, x, y) /\ f[<<x, y>>] = Round(f, x, y)
          <6> HIDE DEF I, J, Round, x, y
          <6> QED BY <2>1, <2>3, <4>1, <4>2 DEF x, y
        <5> QED
          BY <5>1
      <4> QED
        BY <3>1, <3>3, <4>3
    <3> QED
      BY <3>2, <3>3
  <2>5. \A i \in I, j \in J : i > Len(a) + 1 - (n + 1) => g[<<i, j>>] = Round(g, i, j)
    BY <1>1, <2>4
  <2> QED
    BY <2>2, <2>5
<1>6. Len(a) + 1 \in N
  <2> HIDE DEF N
  <2>1. Nat \subseteq N
    BY <1>4, <1>5, SetInduction
  <2> QED
    BY <1>1, <2>1
<1>7. PICK f \in [I \X J -> Signs] : \A i \in I, j \in J : f[<<i, j>>] = Round(f, i, j)
  <2>1. PICK f \in [I \X J -> Signs] :
            \A i \in I, j \in J : i > Len(a) + 1 - (Len(a) + 1) => f[<<i, j>>] = Round(f, i, j)
    BY <1>6
  <2>2. \A i \in I : i > Len(a) + 1 - (Len(a) + 1)
    BY <1>1
  <2> QED
    BY <2>1, <2>2
<1> DEFINE Code(g, i, j) ==
               LET c == CompareDigits(SubSeq(a, i, DigitsEnd(a, i) - 1),
                                      SubSeq(b, j, DigitsEnd(b, j) - 1))
               IN  IF i > Len(a) \/ j > Len(b) THEN Sign(Len(a) - i, Len(b) - j)
                   ELSE IF IsASCIIDigit(a[i]) /\ IsASCIIDigit(b[j])
                   THEN IF c # 0 THEN c ELSE g[<<DigitsEnd(a, i), DigitsEnd(b, j)>>]
                   ELSE IF a[i] # b[j] THEN Sign(a[i], b[j]) ELSE g[<<i + 1, j + 1>>]
           Loops(g) == g = [at \in I \X J |-> Code(g, at[1], at[2])]
           from == CHOOSE g : Loops(g)
<1>8. NaturalCompare(a, b) = from[<<1, 1>>]
  BY DEF NaturalCompare
<1>9. ASSUME NEW g, NEW i \in I, NEW j \in J PROVE Code(g, i, j) = Round(g, i, j)
  <2>1. CASE i > Len(a) \/ j > Len(b)
    BY <2>1
  <2>2. CASE ~(i > Len(a) \/ j > Len(b))
    <3>1. i \in 1 .. Len(a) /\ j \in 1 .. Len(b)
      BY <1>1, <2>2
    <3>2. a[i] \in Nat /\ b[j] \in Nat
      BY <3>1, RunIsNumbers
    <3>3. CASE IsASCIIDigit(a[i]) /\ IsASCIIDigit(b[j])
      BY <2>2, <3>3 DEF TokenCompare, TokenEnd, Run
    <3>4. CASE ~(IsASCIIDigit(a[i]) /\ IsASCIIDigit(b[j])) /\ a[i] # b[j]
      BY <2>2, <3>2, <3>4 DEF TokenCompare, Sign
    <3>5. CASE ~(IsASCIIDigit(a[i]) /\ IsASCIIDigit(b[j])) /\ a[i] = b[j]
      <4>1. TokenCompare(a, i, b, j) = 0 /\ TokenEnd(a, i) = i + 1 /\ TokenEnd(b, j) = j + 1
        BY <3>2, <3>5 DEF TokenCompare, TokenEnd, Sign
      <4> QED
        BY <2>2, <3>5, <4>1
    <3> QED
      BY <3>3, <3>4, <3>5
  <2> QED
    BY <2>1, <2>2
<1>10. Loops(f)
  <2>1. \A i \in I, j \in J : f[<<i, j>>] = Code(f, i, j)
    <3>1. \A i \in I, j \in J : Code(f, i, j) = Round(f, i, j)
      BY <1>9, ZenonT(30)
    <3> HIDE DEF I, J, Code, Round
    <3> QED BY <1>7, <3>1
  <2> HIDE DEF I, J, Code
  <2>2. \A at \in I \X J : f[at] = Code(f, at[1], at[2])
    BY <2>1
  <2> QED
    BY <2>2
<1>11. Loops(from)
  <2> HIDE DEF Loops
  <2> QED BY <1>10
<1> HIDE DEF from
<1>12. \A i \in I, j \in J : from[<<i, j>>] = Round(from, i, j)
  <2>1. \A i \in I, j \in J : Code(from, i, j) = Round(from, i, j)
    BY <1>9, ZenonT(30)
  <2> HIDE DEF I, J, Code, Round, from
  <2> QED BY <1>11, <2>1
<1>13. \A i \in I, j \in J : from[<<i, j>>] \in Signs
  <2> DEFINE P == {i \in I : \A j \in J : from[<<i, j>>] \in Signs}
  <2>1. ASSUME NEW i \in I, \A k \in i + 1 .. Len(a) + 1 : k \in P PROVE i \in P
    <3> SUFFICES ASSUME NEW j \in J PROVE from[<<i, j>>] \in Signs
      OBVIOUS
    <3>1. CASE i > Len(a) \/ j > Len(b)
      <4>1. from[<<i, j>>] = Sign(Len(a) - i, Len(b) - j)
        BY <1>12, <3>1
      <4> QED
        BY <1>1, <4>1 DEF Sign, Signs
    <3>2. CASE ~(i > Len(a) \/ j > Len(b))
      <4>1. /\ TokenCompare(a, i, b, j) \in Signs
            /\ TokenEnd(a, i) \in I /\ TokenEnd(b, j) \in J /\ TokenEnd(a, i) > i
        BY <1>2, <3>2
      <4>2. TokenEnd(a, i) \in P
        BY <1>1, <2>1, <4>1
      <4>3. from[<<TokenEnd(a, i), TokenEnd(b, j)>>] \in Signs
        BY <4>1, <4>2
      <4> QED
        BY <1>12, <3>2, <4>1, <4>3
    <3> QED
      BY <3>1, <3>2
  <2>2. I \subseteq P
    <3>1. Len(a) + 1 \in Nat
      BY <1>1
    <3> HIDE DEF P
    <3> QED BY <2>1, <3>1, Backwards
  <2> QED
    BY <2>2
<1>14. IsLoop(a, b, from)
  BY <1>12, <1>13 DEF IsLoop
<1> QED
  BY <1>8, <1>14

\* What a round of the loop does.
LEMMA LoopRound ==
    ASSUME NEW a \in Texts, NEW b \in Texts, NEW f, IsLoop(a, b, f),
           NEW i \in 1 .. Len(a), NEW j \in 1 .. Len(b)
    PROVE  /\ TokenCompare(a, i, b, j) # 0 => f[<<i, j>>] = TokenCompare(a, i, b, j)
           /\ TokenCompare(a, i, b, j) = 0 => f[<<i, j>>] = f[<<TokenEnd(a, i), TokenEnd(b, j)>>]
           /\ TokenEnd(a, i) \in i + 1 .. Len(a) + 1
           /\ TokenEnd(b, j) \in j + 1 .. Len(b) + 1
<1>1. Len(a) \in Nat /\ Len(b) \in Nat
  BY LenProperties DEF Texts
<1>2. i \in 1 .. Len(a) + 1 /\ j \in 1 .. Len(b) + 1 /\ ~(i > Len(a) \/ j > Len(b))
  BY <1>1
<1> QED
  BY <1>2, TokenEnds DEF IsLoop

\* The text that ends first is less.
LEMMA LoopEnd ==
    ASSUME NEW a \in Texts, NEW b \in Texts, NEW f, IsLoop(a, b, f),
           NEW i \in 1 .. Len(a) + 1, NEW j \in 1 .. Len(b) + 1, i = Len(a) + 1 \/ j = Len(b) + 1
    PROVE  f[<<i, j>>] = IF i # Len(a) + 1 THEN 1 ELSE IF j # Len(b) + 1 THEN -1 ELSE 0
<1>1. Len(a) \in Nat /\ Len(b) \in Nat
  BY LenProperties DEF Texts
<1>2. f[<<i, j>>] = Sign(Len(a) - i, Len(b) - j)
  <2>1. i > Len(a) \/ j > Len(b)
    BY <1>1
  <2> QED
    BY <2>1 DEF IsLoop
<1> QED
  BY <1>1, <1>2 DEF Sign

\* Natural comparison is a preorder.
LEMMA NaturalSigns ==
    ASSUME NEW a \in Texts, NEW b \in Texts
    PROVE  NaturalCompare(a, b) \in Signs /\ NaturalCompare(b, a) = -NaturalCompare(a, b)
<1>1. Len(a) \in Nat /\ Len(b) \in Nat
  BY LenProperties DEF Texts
<1>2. PICK f : IsLoop(a, b, f) /\ NaturalCompare(a, b) = f[<<1, 1>>]
  BY LoopDefined
<1>3. PICK g : IsLoop(b, a, g) /\ NaturalCompare(b, a) = g[<<1, 1>>]
  BY LoopDefined
<1> DEFINE P == {i \in 1 .. Len(a) + 1 : \A j \in 1 .. Len(b) + 1 : g[<<j, i>>] = -f[<<i, j>>]}
<1>4. ASSUME NEW i \in 1 .. Len(a) + 1, \A k \in i + 1 .. Len(a) + 1 : k \in P PROVE i \in P
  <2> SUFFICES ASSUME NEW j \in 1 .. Len(b) + 1 PROVE g[<<j, i>>] = -f[<<i, j>>]
    OBVIOUS
  <2>1. CASE i = Len(a) + 1 \/ j = Len(b) + 1
    BY <1>2, <1>3, <2>1, LoopEnd
  <2>2. CASE ~(i = Len(a) + 1 \/ j = Len(b) + 1)
    <3>1. i \in 1 .. Len(a) /\ j \in 1 .. Len(b)
      BY <1>1, <2>2
    <3> DEFINE x == TokenEnd(a, i)
               y == TokenEnd(b, j)
    <3>2. /\ TokenCompare(a, i, b, j) # 0 => f[<<i, j>>] = TokenCompare(a, i, b, j)
          /\ TokenCompare(a, i, b, j) = 0 => f[<<i, j>>] = f[<<x, y>>]
          /\ x \in i + 1 .. Len(a) + 1 /\ y \in j + 1 .. Len(b) + 1
      BY <1>2, <3>1, LoopRound
    <3>3. /\ TokenCompare(b, j, a, i) # 0 => g[<<j, i>>] = TokenCompare(b, j, a, i)
          /\ TokenCompare(b, j, a, i) = 0 => g[<<j, i>>] = g[<<y, x>>]
      BY <1>3, <3>1, LoopRound
    <3>4. TokenCompare(a, i, b, j) \in Signs /\ TokenCompare(b, j, a, i) = -TokenCompare(a, i, b, j)
      BY <3>1, TokenSigns
    <3> HIDE DEF x, y
    <3>5. g[<<y, x>>] = -f[<<x, y>>]
      BY <1>1, <1>4, <3>2
    <3> QED
      BY <3>2, <3>3, <3>4, <3>5 DEF Signs
  <2> QED
    BY <2>1, <2>2
<1>5. 1 .. Len(a) + 1 \subseteq P
  <2>1. Len(a) + 1 \in Nat
    BY <1>1
  <2> HIDE DEF P
  <2> QED BY <1>4, <2>1, Backwards
<1>6. g[<<1, 1>>] = -f[<<1, 1>>] /\ f[<<1, 1>>] \in Signs
  <2>1. 1 \in 1 .. Len(a) + 1 /\ 1 \in 1 .. Len(b) + 1
    BY <1>1
  <2> QED
    BY <1>2, <1>5, <2>1 DEF IsLoop
<1> QED
  BY <1>2, <1>3, <1>6

LEMMA NaturalTransitive ==
    ASSUME NEW a \in Texts, NEW b \in Texts, NEW c \in Texts,
           NaturalCompare(a, b) <= 0, NaturalCompare(b, c) <= 0
    PROVE  NaturalCompare(a, c) <= 0
<1>1. Len(a) \in Nat /\ Len(b) \in Nat /\ Len(c) \in Nat
  BY LenProperties DEF Texts
<1>2. PICK f : IsLoop(a, b, f) /\ NaturalCompare(a, b) = f[<<1, 1>>]
  BY LoopDefined
<1>3. PICK g : IsLoop(b, c, g) /\ NaturalCompare(b, c) = g[<<1, 1>>]
  BY LoopDefined
<1>4. PICK h : IsLoop(a, c, h) /\ NaturalCompare(a, c) = h[<<1, 1>>]
  BY LoopDefined
<1> DEFINE P == {i \in 1 .. Len(a) + 1 : \A j \in 1 .. Len(b) + 1, k \in 1 .. Len(c) + 1 :
                    f[<<i, j>>] <= 0 /\ g[<<j, k>>] <= 0 => h[<<i, k>>] <= 0}
<1>5. ASSUME NEW i \in 1 .. Len(a) + 1, \A m \in i + 1 .. Len(a) + 1 : m \in P PROVE i \in P
  <2> SUFFICES ASSUME NEW j \in 1 .. Len(b) + 1, NEW k \in 1 .. Len(c) + 1,
                      f[<<i, j>>] <= 0, g[<<j, k>>] <= 0
               PROVE  h[<<i, k>>] <= 0
    OBVIOUS
  <2>1. CASE i = Len(a) + 1
    BY <1>4, <2>1, LoopEnd
  <2>2. CASE i # Len(a) + 1
    <3>1. j # Len(b) + 1
      BY <1>2, <2>2, LoopEnd
    <3>2. k # Len(c) + 1
      BY <1>3, <3>1, LoopEnd
    <3>3. i \in 1 .. Len(a) /\ j \in 1 .. Len(b) /\ k \in 1 .. Len(c)
      BY <1>1, <2>2, <3>1, <3>2
    <3> DEFINE x == TokenEnd(a, i)
               y == TokenEnd(b, j)
               z == TokenEnd(c, k)
               ab == TokenCompare(a, i, b, j)
               bc == TokenCompare(b, j, c, k)
               ac == TokenCompare(a, i, c, k)
    <3>4. /\ ab # 0 => f[<<i, j>>] = ab
          /\ ab = 0 => f[<<i, j>>] = f[<<x, y>>]
          /\ x \in i + 1 .. Len(a) + 1 /\ y \in j + 1 .. Len(b) + 1
      BY <1>2, <3>3, LoopRound
    <3>5. /\ bc # 0 => g[<<j, k>>] = bc
          /\ bc = 0 => g[<<j, k>>] = g[<<y, z>>]
          /\ z \in k + 1 .. Len(c) + 1
      BY <1>3, <3>3, LoopRound
    <3>6. /\ ac # 0 => h[<<i, k>>] = ac
          /\ ac = 0 => h[<<i, k>>] = h[<<x, z>>]
      BY <1>4, <3>3, LoopRound
    <3>7. ab <= 0 /\ bc <= 0
      BY <3>4, <3>5
    <3>8. ac <= 0 /\ (ac = 0 => ab = 0 /\ bc = 0)
      BY <3>3, <3>7, TokenTransitive, TokenStrict
    <3> HIDE DEF x, y, z, ab, bc, ac
    <3>9. f[<<x, y>>] <= 0 /\ g[<<y, z>>] <= 0 => h[<<x, z>>] <= 0
      BY <1>1, <1>5, <3>4, <3>5
    <3> QED
      BY <3>4, <3>5, <3>6, <3>8, <3>9
  <2> QED
    BY <2>1, <2>2
<1>6. 1 .. Len(a) + 1 \subseteq P
  <2>1. Len(a) + 1 \in Nat
    BY <1>1
  <2> HIDE DEF P
  <2> QED BY <1>5, <2>1, Backwards
<1> QED
  BY <1>1, <1>2, <1>3, <1>4, <1>6

-----------------------------------------------------------------------------
(* Tags.                                                                   *)

\* The order of two tags none of which is "latest".
TextCompare(a, b) == IF NaturalCompare(a, b) # 0 THEN -NaturalCompare(a, b) ELSE Compare(b, a)

LEMMA TextSigns ==
    ASSUME NEW a \in Texts, NEW b \in Texts
    PROVE  /\ TextCompare(a, b) \in Signs
           /\ TextCompare(b, a) = -TextCompare(a, b)
           /\ TextCompare(a, b) = 0 => a = b
<1>1. NaturalCompare(a, b) \in Signs /\ NaturalCompare(b, a) = -NaturalCompare(a, b)
  BY NaturalSigns
<1>2. Compare(b, a) \in Signs /\ Compare(a, b) = -Compare(b, a) /\ (Compare(b, a) = 0 <=> b = a)
  BY TextsAreNumbers, CompareSigns
<1> QED
  BY <1>1, <1>2 DEF TextCompare, Signs

LEMMA TextTransitive ==
    ASSUME NEW a \in Texts, NEW b \in Texts, NEW c \in Texts,
           TextCompare(a, b) <= 0, TextCompare(b, c) <= 0
    PROVE  TextCompare(a, c) <= 0
<1>1. /\ NaturalCompare(a, b) \in Signs /\ NaturalCompare(b, a) = -NaturalCompare(a, b)
      /\ NaturalCompare(b, c) \in Signs /\ NaturalCompare(c, b) = -NaturalCompare(b, c)
      /\ NaturalCompare(a, c) \in Signs /\ NaturalCompare(c, a) = -NaturalCompare(a, c)
  BY NaturalSigns
<1>2. NaturalCompare(b, a) <= 0 /\ NaturalCompare(c, b) <= 0
  BY <1>1 DEF TextCompare, Signs
<1>3. NaturalCompare(c, a) <= 0
  BY <1>2, NaturalTransitive
<1>4. CASE NaturalCompare(c, a) = 0
  <2>1. NaturalCompare(a, c) <= 0
    BY <1>1, <1>4 DEF Signs
  <2>2. NaturalCompare(a, b) <= 0 /\ NaturalCompare(b, c) <= 0
    BY <1>2, <2>1, NaturalTransitive
  <2>3. NaturalCompare(a, b) = 0 /\ NaturalCompare(b, c) = 0 /\ NaturalCompare(a, c) = 0
    BY <1>1, <1>2, <1>4, <2>2 DEF Signs
  <2>4. Compare(b, a) <= 0 /\ Compare(c, b) <= 0
    BY <2>3 DEF TextCompare
  <2>5. Compare(c, a) <= 0
    BY <2>4, TextsAreNumbers, CompareTransitive
  <2> QED
    BY <2>3, <2>5 DEF TextCompare
<1>5. CASE NaturalCompare(c, a) # 0
  BY <1>1, <1>3, <1>5 DEF TextCompare, Signs
<1> QED
  BY <1>4, <1>5

LEMMA LatestIsText == Latest \in Texts
<1>1. 97 .. 122 \subseteq Bytes
  BY DEF Bytes
<1> QED
  BY <1>1, TagsAssumption, SeqMonotonic DEF Texts

\* sortTags orders tags by a total order.
LEMMA TagSigns ==
    ASSUME NEW a \in Texts, NEW b \in Texts
    PROVE  /\ TagCompare(a, b) \in Signs
           /\ TagCompare(b, a) = -TagCompare(a, b)
           /\ TagCompare(a, b) = 0 <=> a = b
<1>1. /\ TextCompare(a, b) \in Signs /\ TextCompare(b, a) = -TextCompare(a, b)
      /\ TextCompare(a, b) = 0 => a = b
  BY TextSigns
<1>2. a # b /\ a # Latest /\ b # Latest =>
          TagCompare(a, b) = TextCompare(a, b) /\ TagCompare(b, a) = TextCompare(b, a)
  BY DEF TagCompare, TextCompare
<1>3. ~(a # b /\ a # Latest /\ b # Latest) =>
          /\ TagCompare(a, b) = IF a = b THEN 0 ELSE IF a = Latest THEN -1 ELSE 1
          /\ TagCompare(b, a) = IF a = b THEN 0 ELSE IF b = Latest THEN -1 ELSE 1
  BY DEF TagCompare
<1> QED
  BY <1>1, <1>2, <1>3 DEF Signs

LEMMA TagTransitive ==
    ASSUME NEW a \in Texts, NEW b \in Texts, NEW c \in Texts,
           TagCompare(a, b) <= 0, TagCompare(b, c) <= 0
    PROVE  TagCompare(a, c) <= 0
<1>1. CASE a = b \/ b = c
  BY <1>1
<1>2. CASE a # b /\ b # c /\ (a = Latest \/ b = Latest \/ c = Latest)
  BY <1>2 DEF TagCompare
<1>3. CASE a # b /\ b # c /\ a # Latest /\ b # Latest /\ c # Latest
  <2>1. TextCompare(a, b) <= 0 /\ TextCompare(b, c) <= 0
    BY <1>3 DEF TagCompare, TextCompare
  <2>2. TextCompare(a, c) <= 0
    BY <2>1, TextTransitive
  <2> QED
    BY <1>3, <2>2 DEF TagCompare, TextCompare
<1> QED
  BY <1>1, <1>2, <1>3

\* The comparator of sortTags is a total order of all texts: of two different
\* tags one comes first whichever is asked about first, and never in a circle
\* (client.go:1087-1101).
THEOREM TagCompareIsOrder ==
    /\ \A a, b \in Texts : /\ TagCompare(a, b) \in Signs /\ TagCompare(b, a) = -TagCompare(a, b)
                          /\ TagCompare(a, b) = 0 <=> a = b
    /\ \A a, b, c \in Texts : TagCompare(a, b) <= 0 /\ TagCompare(b, c) <= 0 => TagCompare(a, c) <= 0
BY TagSigns, TagTransitive

-----------------------------------------------------------------------------
(* Insertion.                                                              *)

TagList(s) == s \in Seq(Texts)

\* A list that sortTags has sorted.
InOrder(s) == \A i, j \in 1 .. Len(s) : i < j => TagCompare(s[i], s[j]) <= 0

\* Where Inserted puts t: behind the first p.
Stay(s, t) == Max({0} \cup {k \in DOMAIN s : TagCompare(t, s[k]) >= 0})

\* r is s with t behind the first p.
IsInsertion(r, s, p, t) ==
    /\ TagList(r) /\ Len(r) = Len(s) + 1 /\ p \in 0 .. Len(s)
    /\ \A k \in 1 .. Len(s) + 1 :
           r[k] = IF k <= p THEN s[k] ELSE IF k = p + 1 THEN t ELSE s[k - 1]

LEMMA ListParts ==
    ASSUME NEW s, TagList(s)
    PROVE  Len(s) \in Nat /\ DOMAIN s = 1 .. Len(s) /\ \A k \in 1 .. Len(s) : s[k] \in Texts
BY LenProperties, ElementOfSeq DEF TagList

\* Inserting keeps the rest as it is ...
LEMMA InsertedAt ==
    ASSUME NEW s, TagList(s), NEW t \in Texts
    PROVE  IsInsertion(Inserted(s, t), s, Stay(s, t), t)
<1> DEFINE before == {0} \cup {k \in DOMAIN s : TagCompare(t, s[k]) >= 0}
           p == Stay(s, t)
<1>1. Len(s) \in Nat /\ DOMAIN s = 1 .. Len(s) /\ \A k \in 1 .. Len(s) : s[k] \in Texts
  BY ListParts
<1>2. before \in SUBSET (0 .. Len(s)) /\ before # {}
  BY <1>1
<1>3. p \in before
  <2>1. IsFiniteSet(0 .. Len(s))
    BY <1>1, FS_Interval
  <2>2. IsFiniteSet(before) /\ before \in SUBSET Int
    BY <1>1, <1>2, <2>1, FS_Subset
  <2>3. Max(before) \in before
    <3> HIDE DEF before
    <3> QED BY <1>2, <2>2, MaxIsGreatest
  <2> QED
    BY <2>3 DEF Stay
<1>4. p \in 0 .. Len(s)
  BY <1>2, <1>3
<1> DEFINE left == SubSeq(s, 1, p)
           right == SubSeq(s, p + 1, Len(s))
<1>5. Inserted(s, t) = left \o <<t>> \o right
  <2> DEFINE q == p + 1
  <2>1. Inserted(s, t) = InsertAt(s, q, t)
    BY DEF Inserted, Stay
  <2>2. q - 1 = p /\ right = SubSeq(s, q, Len(s))
    BY <1>4
  <2> HIDE DEF p, q, left, right
  <2>3. \A i : InsertAt(s, i, t) = SubSeq(s, 1, i - 1) \o <<t>> \o SubSeq(s, i, Len(s))
    BY DEF InsertAt
  <2>4. Inserted(s, t) = SubSeq(s, 1, p) \o <<t>> \o right
    BY <2>1, <2>2, <2>3
  <2> QED
    BY <2>4 DEF left
<1> HIDE DEF p, before
<1>6. left \in Seq(Texts) /\ Len(left) = p /\ \A k \in 1 .. p : left[k] = s[k]
  <2>1. 1 \in 1 .. Len(s) + 1 /\ p \in 1 - 1 .. Len(s)
    BY <1>1, <1>4
  <2>2. left \in Seq(Texts) /\ Len(left) = p - 1 + 1 /\ \A k \in 1 .. p - 1 + 1 : left[k] = s[1 + k - 1]
    BY <2>1, SubSeqProperties DEF TagList
  <2> QED
    BY <1>4, <2>2
<1>7. right \in Seq(Texts) /\ Len(right) = Len(s) - p /\ \A k \in 1 .. Len(s) - p : right[k] = s[p + k]
  <2>1. p + 1 \in 1 .. Len(s) + 1 /\ Len(s) \in p + 1 - 1 .. Len(s)
    BY <1>1, <1>4
  <2>2. /\ right \in Seq(Texts) /\ Len(right) = IF p + 1 <= Len(s) THEN Len(s) - (p + 1) + 1 ELSE 0
        /\ \A k \in 1 .. Len(s) - (p + 1) + 1 : right[k] = s[p + 1 + k - 1]
    <3>1. \A i \in p + 1 .. Len(s) : s[i] \in Texts
      BY <1>1, <1>4
    <3>2. p + 1 \in Int /\ Len(s) \in Int
      BY <1>1, <1>4
    <3> QED
      BY <3>1, <3>2, SubSeqProperties
  <2>3. Len(s) - (p + 1) + 1 = Len(s) - p /\ \A k \in 1 .. Len(s) - p : p + 1 + k - 1 = p + k
    BY <1>1, <1>4
  <2>4. Len(right) = Len(s) - p
    <3> HIDE DEF right
    <3>1. CASE p + 1 <= Len(s)
      BY <2>2, <2>3, <3>1
    <3>2. CASE ~(p + 1 <= Len(s))
      <4>1. Len(s) - p = 0
        <5>1. p \in Int /\ Len(s) \in Int /\ p <= Len(s)
          BY <1>1, <1>4
        <5> QED
          BY <3>2, <5>1
      <4> QED
        BY <2>2, <3>2, <4>1
    <3> QED BY <3>1, <3>2
  <2>5. ASSUME NEW k \in 1 .. Len(s) - p PROVE right[k] = s[p + k]
    <3> HIDE DEF right
    <3> QED BY <2>2, <2>3
  <2> QED
    BY <2>2, <2>4, <2>5
<1> HIDE DEF left, right
<1> DEFINE front == left \o <<t>>
<1>8. <<t>> \in Seq(Texts) /\ Len(<<t>>) = 1 /\ <<t>>[1] = t
  OBVIOUS
<1>9. /\ front \in Seq(Texts) /\ Len(front) = p + 1
      /\ \A k \in 1 .. p + 1 : front[k] = IF k <= p THEN s[k] ELSE t
  <2>1. /\ front \in Seq(Texts) /\ Len(front) = p + 1
        /\ \A k \in 1 .. p + 1 : front[k] = IF k <= p THEN left[k] ELSE <<t>>[k - p]
    BY <1>6, <1>8, ConcatProperties
  <2>2. \A k \in 1 .. p + 1 : ~(k <= p) => k - p = 1
    BY <1>4
  <2> QED
    BY <1>4, <1>6, <1>8, <2>1, <2>2
<1>14. Inserted(s, t) = front \o right
  BY <1>5
<1> HIDE DEF front
<1> DEFINE r == Inserted(s, t)
<1> HIDE DEF r
<1>15. /\ r \in Seq(Texts) /\ Len(r) = Len(front) + Len(right)
       /\ \A k \in 1 .. Len(front) + Len(right) :
              r[k] = IF k <= Len(front) THEN front[k] ELSE right[k - Len(front)]
  <2>1. r = front \o right
    BY <1>14 DEF r
  <2> QED
    BY <1>7, <1>9, <2>1, ConcatProperties
<1>11. Len(front) + Len(right) = Len(s) + 1 /\ Len(front) = p + 1
  BY <1>1, <1>4, <1>7, <1>9
<1>10. /\ r \in Seq(Texts) /\ Len(r) = Len(s) + 1
       /\ \A k \in 1 .. Len(s) + 1 : r[k] = IF k <= p + 1 THEN front[k] ELSE right[k - (p + 1)]
  BY <1>11, <1>15
<1>12. ASSUME NEW k \in 1 .. Len(s) + 1
       PROVE  r[k] = IF k <= p THEN s[k] ELSE IF k = p + 1 THEN t ELSE s[k - 1]
  <2>1. r[k] = IF k <= p + 1 THEN front[k] ELSE right[k - (p + 1)]
    BY <1>1, <1>4, <1>10
  <2>2. CASE k <= p + 1
    BY <1>1, <1>4, <1>9, <2>1, <2>2
  <2>3. CASE ~(k <= p + 1)
    <3>1. k - (p + 1) \in 1 .. Len(s) - p /\ p + (k - (p + 1)) = k - 1
      BY <1>1, <1>4, <2>3
    <3>2. right[k - (p + 1)] = s[k - 1]
      BY <1>7, <3>1
    <3> QED
      BY <1>4, <2>1, <2>3, <3>2
  <2> QED
    BY <2>2, <2>3
<1>13. IsInsertion(r, s, p, t)
  BY <1>4, <1>10, <1>12 DEF IsInsertion, TagList
<1> QED
  BY <1>13 DEF p, r

\* ... and puts the tag behind those that are not greater.
LEMMA StayIs ==
    ASSUME NEW s, TagList(s), InOrder(s), NEW t \in Texts
    PROVE  /\ Stay(s, t) \in 0 .. Len(s)
           /\ \A k \in 1 .. Len(s) : k <= Stay(s, t) <=> TagCompare(t, s[k]) >= 0
<1> DEFINE before == {0} \cup {k \in DOMAIN s : TagCompare(t, s[k]) >= 0}
           p == Stay(s, t)
<1>1. Len(s) \in Nat /\ DOMAIN s = 1 .. Len(s) /\ \A k \in 1 .. Len(s) : s[k] \in Texts
  BY ListParts
<1>2. before \in SUBSET (0 .. Len(s)) /\ before # {}
  BY <1>1
<1>3. p \in before /\ \A k \in before : k <= p
  <2>1. IsFiniteSet(0 .. Len(s))
    BY <1>1, FS_Interval
  <2>2. IsFiniteSet(before) /\ before \in SUBSET Int
    BY <1>1, <1>2, <2>1, FS_Subset
  <2>3. Max(before) \in before /\ \A k \in before : k <= Max(before)
    <3> HIDE DEF before
    <3> QED BY <1>2, <2>2, MaxIsGreatest
  <2> QED
    BY <2>3 DEF Stay
<1>4. p \in 0 .. Len(s)
  BY <1>2, <1>3
<1> HIDE DEF p
<1>5. ASSUME NEW k \in 1 .. Len(s) PROVE k <= p <=> TagCompare(t, s[k]) >= 0
  <2>1. ASSUME TagCompare(t, s[k]) >= 0 PROVE k <= p
    BY <1>1, <1>3, <2>1
  <2>2. ASSUME k <= p PROVE TagCompare(t, s[k]) >= 0
    <3>1. p \in 1 .. Len(s)
      BY <1>1, <1>4, <2>2
    <3>2. TagCompare(t, s[p]) >= 0
      BY <1>3, <3>1
    <3>3. TagCompare(s[k], s[p]) <= 0
      <4>1. CASE k = p
        BY <1>1, <3>1, <4>1, TagSigns
      <4>2. CASE k < p
        BY <3>1, <4>2 DEF InOrder
      <4> QED
        BY <1>4, <2>2, <4>1, <4>2
    <3>4. TagCompare(s[p], t) <= 0
      BY <1>1, <3>1, <3>2, TagSigns DEF Signs
    <3>5. TagCompare(s[k], t) <= 0
      BY <1>1, <3>1, <3>3, <3>4, TagTransitive
    <3> QED
      BY <1>1, <3>5, TagSigns DEF Signs
  <2> QED
    BY <2>1, <2>2
<1> QED
  BY <1>4, <1>5 DEF p

\* Insertion keeps a list in order.
LEMMA InsertedInOrder ==
    ASSUME NEW s, TagList(s), InOrder(s), NEW t \in Texts
    PROVE  TagList(Inserted(s, t)) /\ InOrder(Inserted(s, t))
<1> DEFINE r == Inserted(s, t)
           p == Stay(s, t)
           n == Len(s)
<1>1. n \in Nat /\ \A k \in 1 .. n : s[k] \in Texts
  BY ListParts
<1>2. /\ p \in 0 .. n
      /\ \A k \in 1 .. n : k <= p <=> TagCompare(t, s[k]) >= 0
  BY StayIs
<1>3. /\ TagList(r) /\ Len(r) = n + 1
      /\ \A k \in 1 .. n + 1 : r[k] = IF k <= p THEN s[k] ELSE IF k = p + 1 THEN t ELSE s[k - 1]
  BY InsertedAt DEF IsInsertion
<1> HIDE DEF r, p, n
<1>4. \A k \in 1 .. n : k <= p => TagCompare(s[k], t) <= 0
  BY <1>1, <1>2, TagSigns DEF Signs
<1>5. \A k \in 1 .. n : ~(k <= p) => TagCompare(t, s[k]) <= 0
  BY <1>1, <1>2, TagSigns DEF Signs
<1>6. \A i, j \in 1 .. n : i < j => TagCompare(s[i], s[j]) <= 0
  BY DEF InOrder, n
<1>7. ASSUME NEW i \in 1 .. n + 1, NEW j \in 1 .. n + 1, i < j PROVE TagCompare(r[i], r[j]) <= 0
  <2>1. CASE j <= p
    <3>1. r[i] = s[i] /\ r[j] = s[j] /\ i \in 1 .. n /\ j \in 1 .. n
      BY <1>1, <1>2, <1>3, <1>7, <2>1
    <3> QED
      BY <1>6, <1>7, <3>1
  <2>2. CASE i <= p /\ j = p + 1
    <3>1. r[i] = s[i] /\ r[j] = t /\ i \in 1 .. n
      BY <1>1, <1>2, <1>3, <1>7, <2>2
    <3> QED
      BY <1>4, <2>2, <3>1
  <2>3. CASE i <= p /\ j > p + 1
    <3>1. r[i] = s[i] /\ r[j] = s[j - 1] /\ i \in 1 .. n /\ j - 1 \in 1 .. n /\ i < j - 1
      BY <1>1, <1>2, <1>3, <1>7, <2>3
    <3> QED
      BY <1>6, <3>1
  <2>4. CASE i = p + 1
    <3>1. r[i] = t /\ r[j] = s[j - 1] /\ j - 1 \in 1 .. n /\ ~(j - 1 <= p)
      BY <1>1, <1>2, <1>3, <1>7, <2>4
    <3> QED
      BY <1>5, <3>1
  <2>5. CASE i > p + 1
    <3>1. r[i] = s[i - 1] /\ r[j] = s[j - 1] /\ i - 1 \in 1 .. n /\ j - 1 \in 1 .. n /\ i - 1 < j - 1
      BY <1>1, <1>2, <1>3, <1>7, <2>5
    <3> QED
      BY <1>6, <3>1
  <2> QED
    BY <1>2, <1>7, <2>1, <2>2, <2>3, <2>4, <2>5
<1>8. InOrder(r)
  BY <1>3, <1>7 DEF InOrder
<1> QED
  BY <1>3, <1>8 DEF r

\* Of two tags, it does not matter which is inserted first.
LEMMA InsertedBefore ==
    ASSUME NEW s, TagList(s), InOrder(s), NEW t \in Texts, NEW u \in Texts, TagCompare(t, u) < 0
    PROVE  Inserted(Inserted(s, t), u) = Inserted(Inserted(s, u), t)
<1> DEFINE n == Len(s)
           p == Stay(s, t)
           q == Stay(s, u)
           r == Inserted(s, t)
           v == Inserted(s, u)
           P == Stay(r, u)
           Q == Stay(v, t)
           x == Inserted(r, u)
           y == Inserted(v, t)
<1>1. n \in Nat /\ \A k \in 1 .. n : s[k] \in Texts
  BY ListParts
<1>2. p \in 0 .. n /\ \A k \in 1 .. n : k <= p <=> TagCompare(t, s[k]) >= 0
  BY StayIs
<1>3. q \in 0 .. n /\ \A k \in 1 .. n : k <= q <=> TagCompare(u, s[k]) >= 0
  BY StayIs
<1>4. TagList(r) /\ InOrder(r) /\ TagList(v) /\ InOrder(v)
  BY InsertedInOrder
<1>5. /\ Len(r) = n + 1
      /\ \A k \in 1 .. n + 1 : r[k] = IF k <= p THEN s[k] ELSE IF k = p + 1 THEN t ELSE s[k - 1]
  BY InsertedAt DEF IsInsertion
<1>6. /\ Len(v) = n + 1
      /\ \A k \in 1 .. n + 1 : v[k] = IF k <= q THEN s[k] ELSE IF k = q + 1 THEN u ELSE s[k - 1]
  BY InsertedAt DEF IsInsertion
<1> HIDE DEF n, p, q, r, v
<1>7. P \in 0 .. n + 1 /\ \A k \in 1 .. n + 1 : k <= P <=> TagCompare(u, r[k]) >= 0
  BY <1>4, <1>5, StayIs
<1>8. Q \in 0 .. n + 1 /\ \A k \in 1 .. n + 1 : k <= Q <=> TagCompare(t, v[k]) >= 0
  BY <1>4, <1>6, StayIs
<1>9. /\ TagList(x) /\ Len(x) = n + 1 + 1
      /\ \A k \in 1 .. n + 1 + 1 : x[k] = IF k <= P THEN r[k] ELSE IF k = P + 1 THEN u ELSE r[k - 1]
  BY <1>4, <1>5, InsertedAt DEF IsInsertion
<1>10. /\ TagList(y) /\ Len(y) = n + 1 + 1
       /\ \A k \in 1 .. n + 1 + 1 : y[k] = IF k <= Q THEN v[k] ELSE IF k = Q + 1 THEN t ELSE v[k - 1]
  BY <1>4, <1>6, InsertedAt DEF IsInsertion
<1> HIDE DEF P, Q, x, y
<1>11. TagCompare(u, t) \in Signs /\ TagCompare(u, t) >= 0 /\ TagCompare(t, u) <= 0
  BY TagSigns DEF Signs
<1>12. \A k \in 1 .. n : k <= p => k <= q
  <2> SUFFICES ASSUME NEW k \in 1 .. n, k <= p PROVE k <= q
    OBVIOUS
  <2>1. TagCompare(s[k], t) <= 0
    BY <1>1, <1>2, TagSigns DEF Signs
  <2>2. TagCompare(s[k], u) <= 0
    BY <1>1, <1>11, <2>1, TagTransitive
  <2>3. TagCompare(u, s[k]) >= 0
    BY <1>1, <2>2, TagSigns DEF Signs
  <2> QED
    BY <1>3, <2>3
<1>13. p <= q
  BY <1>1, <1>2, <1>3, <1>12
<1>14. P = q + 1
  <2>1. q + 1 <= P
    <3>1. r[q + 1] = IF q = p THEN t ELSE s[q]
      BY <1>1, <1>2, <1>3, <1>5, <1>13
    <3>2. TagCompare(u, r[q + 1]) >= 0
      <4>1. CASE q = p
        BY <1>11, <3>1, <4>1
      <4>2. CASE q # p
        <5>1. q \in 1 .. n
          BY <1>1, <1>2, <1>3, <1>13, <4>2
        <5>2. TagCompare(u, s[q]) >= 0
          BY <1>3, <5>1
        <5> QED
          BY <3>1, <4>2, <5>2
      <4> QED
        BY <4>1, <4>2
    <3>3. q + 1 \in 1 .. n + 1
      BY <1>1, <1>3
    <3> QED
      BY <1>7, <3>2, <3>3
  <2>2. ~(q + 2 <= P)
    <3> SUFFICES ASSUME q + 2 <= P PROVE FALSE
      OBVIOUS
    <3>1. q + 2 \in 1 .. n + 1 /\ q + 1 \in 1 .. n
      BY <1>1, <1>3, <1>7
    <3>2. r[q + 2] = s[q + 1]
      <4> DEFINE k == q + 2
      <4>2. k \in 1 .. n + 1 /\ ~(k <= p) /\ k # p + 1 /\ k - 1 = q + 1
        BY <1>1, <1>2, <1>3, <1>13, <3>1
      <4> HIDE DEF k
      <4>3. r[k] = s[k - 1]
        BY <1>5, <4>2
      <4> QED
        BY <4>2, <4>3 DEF k
    <3>3. TagCompare(u, s[q + 1]) >= 0
      BY <1>7, <3>1, <3>2
    <3>4. q + 1 <= q
      BY <1>3, <3>1, <3>3
    <3> QED
      BY <1>3, <3>4
  <2> QED
    BY <1>3, <1>7, <2>1, <2>2
<1>15. Q = p
  <2>1. p <= Q
    <3>1. CASE p = 0
      BY <1>8, <3>1
    <3>2. CASE p # 0
      <4>1. p \in 1 .. n /\ p \in 1 .. n + 1
        BY <1>1, <1>2, <3>2
      <4>2. v[p] = s[p]
        BY <1>6, <1>13, <4>1
      <4>3. p <= p
        BY <1>2
      <4>4. TagCompare(t, v[p]) >= 0
        BY <1>2, <4>1, <4>2, <4>3
      <4> QED
        BY <1>8, <4>1, <4>4
    <3> QED
      BY <3>1, <3>2
  <2>2. ~(p + 1 <= Q)
    <3> SUFFICES ASSUME p + 1 <= Q PROVE FALSE
      OBVIOUS
    <3>1. p + 1 \in 1 .. n + 1
      BY <1>1, <1>2
    <3>2. TagCompare(t, v[p + 1]) >= 0
      BY <1>8, <3>1
    <3>3. CASE p = q
      <4>1. v[p + 1] = u
        BY <1>3, <1>6, <3>1, <3>3
      <4> QED
        BY <3>2, <4>1, TagSigns DEF Signs
    <3>4. CASE p # q
      <4>1. p + 1 \in 1 .. n /\ v[p + 1] = s[p + 1]
        BY <1>1, <1>2, <1>3, <1>6, <1>13, <3>1, <3>4
      <4>2. p + 1 <= p
        BY <1>2, <3>2, <4>1
      <4> QED
        BY <1>2, <4>2
    <3> QED
      BY <3>3, <3>4
  <2> QED
    BY <1>2, <1>8, <2>1, <2>2
<1>16. ASSUME NEW k \in 1 .. n + 1 + 1 PROVE x[k] = y[k]
  <2>1. x[k] = IF k <= q + 1 THEN r[k] ELSE IF k = q + 2 THEN u ELSE r[k - 1]
    BY <1>3, <1>9, <1>14
  <2>2. y[k] = IF k <= p THEN v[k] ELSE IF k = p + 1 THEN t ELSE v[k - 1]
    BY <1>10, <1>15
  <2>3. CASE k <= p
    <3>1. k \in 1 .. n + 1 /\ k <= q + 1 /\ k <= q
      BY <1>1, <1>2, <1>3, <1>13, <2>3
    <3> QED
      BY <1>5, <1>6, <2>1, <2>2, <2>3, <3>1
  <2>4. CASE k = p + 1
    <3>1. k \in 1 .. n + 1 /\ k <= q + 1 /\ ~(k <= p)
      BY <1>1, <1>2, <1>3, <1>13, <2>4
    <3> QED
      BY <1>5, <2>1, <2>2, <2>4, <3>1
  <2>5. CASE k > p + 1 /\ k <= q + 1
    <3>1. k \in 1 .. n + 1 /\ k - 1 \in 1 .. n + 1 /\ k - 1 <= q /\ ~(k <= p) /\ k # p + 1
      BY <1>1, <1>2, <1>3, <1>13, <2>5
    <3>2. r[k] = s[k - 1] /\ v[k - 1] = s[k - 1]
      BY <1>5, <1>6, <3>1
    <3> QED
      BY <2>1, <2>2, <2>5, <3>1, <3>2
  <2>6. CASE k = q + 2
    <3>1. k - 1 \in 1 .. n + 1 /\ k - 1 = q + 1 /\ ~(k - 1 <= q) /\ ~(k <= q + 1) /\ ~(k <= p) /\ k # p + 1
      BY <1>1, <1>2, <1>3, <1>13, <2>6
    <3>2. v[k - 1] = u
      BY <1>6, <3>1
    <3> QED
      BY <2>1, <2>2, <2>6, <3>1, <3>2
  <2>7. CASE k > q + 2
    <3>1. /\ k - 1 \in 1 .. n + 1 /\ ~(k - 1 <= q) /\ k - 1 # q + 1 /\ ~(k - 1 <= p) /\ k - 1 # p + 1
          /\ ~(k <= q + 1) /\ k # q + 2 /\ ~(k <= p) /\ k # p + 1
      BY <1>1, <1>2, <1>3, <1>13, <2>7
    <3>2. r[k - 1] = s[k - 1 - 1] /\ v[k - 1] = s[k - 1 - 1]
      BY <1>5, <1>6, <3>1
    <3> QED
      BY <2>1, <2>2, <3>1, <3>2
  <2> QED
    BY <1>2, <1>3, <1>13, <2>3, <2>4, <2>5, <2>6, <2>7
<1>17. x = y
  BY <1>9, <1>10, <1>16, SeqEqual DEF TagList
<1> QED
  BY <1>17 DEF x, y, r, v

LEMMA InsertedCommutes ==
    ASSUME NEW s, TagList(s), InOrder(s), NEW t \in Texts, NEW u \in Texts
    PROVE  Inserted(Inserted(s, t), u) = Inserted(Inserted(s, u), t)
<1>1. TagCompare(t, u) \in Signs /\ TagCompare(u, t) = -TagCompare(t, u) /\ (TagCompare(t, u) = 0 => t = u)
  BY TagSigns
<1>2. CASE TagCompare(t, u) < 0
  BY <1>2, InsertedBefore
<1>3. CASE TagCompare(u, t) < 0
  BY <1>3, InsertedBefore
<1>4. CASE t = u
  BY <1>4
<1> QED
  BY <1>1, <1>2, <1>3, <1>4 DEF Signs

-----------------------------------------------------------------------------
(* Sorting, tag by tag.                                                    *)

\* The first k places without the last of them.
LEMMA IntervalPeels ==
    ASSUME NEW k \in Nat \ {0}
    PROVE  Max(1 .. k) = k /\ (1 .. k) \ {k} = 1 .. k - 1 /\ 1 .. k # {}
<1> DEFINE S == 1 .. k
<1>1. k \in S /\ \A t \in S : k >= t /\ t \in Int
  OBVIOUS
<1>2. Max(S) = k
  <2> HIDE DEF S
  <2>1. \E x \in S : \A y \in S : x >= y
    BY <1>1
  <2>2. Max(S) \in S /\ \A y \in S : Max(S) >= y
    BY <2>1 DEF Max
  <2>3. Max(S) >= k /\ k >= Max(S) /\ Max(S) \in Int /\ k \in Int
    BY <1>1, <2>2
  <2> HIDE DEF Max
  <2> QED
    BY <2>3
<1> QED
  BY <1>1, <1>2

\* g is what Inserted makes of the tags, one after the other.
IsSort(g, ts) ==
    /\ g[0] = <<>>
    /\ \A k \in 1 .. Len(ts) : g[k] = Inserted(g[k - 1], ts[k])
    /\ SortTags(ts) = g[Len(ts)]

LEMMA SortSteps ==
    ASSUME NEW s, TagList(s)
    PROVE  \E g : IsSort(g, s)
<1> DEFINE S == DOMAIN s
           V == Seq(Texts)
           pick == [T \in SUBSET S |-> Max(T)]
           F == [p \in V \X S |-> Inserted(p[1], s[p[2]])]
           Folds(f) == f = [T \in SUBSET S |-> IF T = {} THEN <<>> ELSE Inserted(f[T \ {Max(T)}], s[Max(T)])]
           fold == CHOOSE f : Folds(f)
<1>1. Len(s) \in Nat /\ S = 1 .. Len(s) /\ \A k \in S : s[k] \in Texts
  BY ListParts
<1>2. IsFiniteSet(S) /\ S \in SUBSET Int
  BY <1>1, FS_Interval
<1>3. \A T \in SUBSET S : T # {} => Max(T) \in T
  BY <1>2, FS_Subset, MaxIsGreatest
<1>4. Picks(pick, S)
  BY <1>3 DEF Picks
<1>5. F \in [V \X S -> V]
  <2>1. \A v \in V, i \in S : Inserted(v, s[i]) \in V
    BY <1>1, InsertedAt DEF IsInsertion, TagList
  <2> QED
    BY <2>1
<1>6. PICK f \in [SUBSET S -> V] : IsFold(f, S, pick, <<>>, F)
  <2>1. <<>> \in V
    BY EmptySeq
  <2> HIDE DEF S, V, pick, F
  <2> QED BY <1>2, <1>4, <1>5, <2>1, FoldDefined
<1>7. Folds(f)
  <2>1. ASSUME NEW T \in SUBSET S
        PROVE  f[T] = IF T = {} THEN <<>> ELSE Inserted(f[T \ {Max(T)}], s[Max(T)])
    <3>1. T # {} => Max(T) \in S /\ T \ {Max(T)} \in SUBSET S
      BY <1>3
    <3>2. T # {} => f[T \ {Max(T)}] \in V
      BY <1>6, <3>1
    <3>3. f[T] = IF T = {} THEN <<>> ELSE F[<<f[T \ {Max(T)}], Max(T)>>]
      BY <1>6 DEF IsFold
    <3> HIDE DEF V, S
    <3> QED
      BY <3>1, <3>2, <3>3
  <2> QED
    BY <1>6, <2>1
<1>8. Folds(fold)
  BY <1>7
<1>9. SortTags(s) = fold[S]
  BY DEF SortTags, FoldLeft, MapThenFoldSet
<1> HIDE DEF fold
<1>10. fold[{}] = <<>> /\ \A T \in SUBSET S : T # {} => fold[T] = Inserted(fold[T \ {Max(T)}], s[Max(T)])
  BY <1>8
<1> DEFINE g == [k \in 0 .. Len(s) |-> fold[1 .. k]]
<1>11. g[0] = <<>>
  <2>1. 1 .. 0 = {} /\ 0 \in 0 .. Len(s)
    BY <1>1
  <2> QED
    BY <1>10, <2>1
<1>12. ASSUME NEW k \in 1 .. Len(s) PROVE g[k] = Inserted(g[k - 1], s[k])
  <2>1. k \in 0 .. Len(s) /\ k - 1 \in 0 .. Len(s) /\ 1 .. k \in SUBSET S /\ k \in Nat \ {0}
    BY <1>1
  <2>2. Max(1 .. k) = k /\ (1 .. k) \ {k} = 1 .. k - 1 /\ 1 .. k # {}
    BY <2>1, IntervalPeels
  <2>3. fold[1 .. k] = Inserted(fold[1 .. k - 1], s[k])
    BY <1>10, <2>1, <2>2
  <2> QED
    BY <2>1, <2>3
<1>13. SortTags(s) = g[Len(s)]
  BY <1>1, <1>9
<1>14. IsSort(g, s)
  <2> HIDE DEF g
  <2> QED BY <1>11, <1>12, <1>13 DEF IsSort
<1> QED
  BY <1>14

\* What a list of tags is after some of them: sorted.
LEMMA SortKeepsOrder ==
    ASSUME NEW s, TagList(s), NEW g, IsSort(g, s), NEW k \in 0 .. Len(s)
    PROVE  TagList(g[k]) /\ InOrder(g[k]) /\ Len(g[k]) = k
<1> DEFINE P == {n \in Nat : n <= Len(s) => TagList(g[n]) /\ InOrder(g[n]) /\ Len(g[n]) = n}
<1>1. Len(s) \in Nat /\ \A i \in 1 .. Len(s) : s[i] \in Texts
  BY ListParts
<1>2. 0 \in P
  <2>1. g[0] = <<>>
    BY DEF IsSort
  <2>2. TagList(<<>>) /\ Len(<<>>) = 0
    BY EmptySeq DEF TagList
  <2>3. InOrder(<<>>)
    BY <2>2 DEF InOrder
  <2> QED
    BY <2>1, <2>2, <2>3
<1>3. ASSUME NEW n \in Nat, n \in P PROVE n + 1 \in P
  <2> SUFFICES ASSUME n + 1 <= Len(s) PROVE TagList(g[n + 1]) /\ InOrder(g[n + 1]) /\ Len(g[n + 1]) = n + 1
    OBVIOUS
  <2>1. TagList(g[n]) /\ InOrder(g[n]) /\ Len(g[n]) = n
    BY <1>1, <1>3
  <2>2. n + 1 \in 1 .. Len(s)
    BY <1>1
  <2>3. g[n + 1] = Inserted(g[n], s[n + 1])
    <3>1. n + 1 - 1 = n
      OBVIOUS
    <3> QED
      BY <2>2, <3>1 DEF IsSort
  <2>4. s[n + 1] \in Texts
    BY <1>1, <2>2
  <2>5. TagList(g[n + 1]) /\ InOrder(g[n + 1])
    BY <2>1, <2>3, <2>4, InsertedInOrder
  <2>6. Len(g[n + 1]) = n + 1
    BY <2>1, <2>3, <2>4, InsertedAt DEF IsInsertion
  <2> QED
    BY <2>5, <2>6
<1>4. Nat \subseteq P
  <2> HIDE DEF P
  <2> QED BY <1>2, <1>3, SetInduction
<1> QED
  BY <1>1, <1>4

\* A list is sorted ...
LEMMA SortedInOrder ==
    ASSUME NEW s, TagList(s)
    PROVE  TagList(SortTags(s)) /\ InOrder(SortTags(s)) /\ Len(SortTags(s)) = Len(s)
<1>1. PICK g : IsSort(g, s)
  BY SortSteps
<1>2. Len(s) \in 0 .. Len(s)
  BY ListParts
<1>3. TagList(g[Len(s)]) /\ InOrder(g[Len(s)]) /\ Len(g[Len(s)]) = Len(s)
  BY <1>1, <1>2, SortKeepsOrder
<1> QED
  BY <1>1, <1>3 DEF IsSort

\* ... and has the tags it had before, each as often as before: p is where they
\* go.
Moves(p, s, r) ==
    /\ p \in [1 .. Len(s) -> 1 .. Len(s)] /\ Len(r) = Len(s)
    /\ \A x, y \in 1 .. Len(s) : p[x] = p[y] => x = y
    /\ \A x \in 1 .. Len(s) : r[p[x]] = s[x]

LEMMA SortKeepsTags ==
    ASSUME NEW s, TagList(s)
    PROVE  \E p : Moves(p, s, SortTags(s))
<1>1. PICK g : IsSort(g, s)
  BY SortSteps
<1>2. Len(s) \in Nat /\ \A i \in 1 .. Len(s) : s[i] \in Texts
  BY ListParts
<1> DEFINE Placed(p, n) == /\ p \in [1 .. n -> 1 .. n]
                           /\ \A x, y \in 1 .. n : p[x] = p[y] => x = y
                           /\ \A x \in 1 .. n : g[n][p[x]] = s[x]
           P == {n \in Nat : n <= Len(s) => \E p : Placed(p, n)}
<1>3. 0 \in P
  <2>1. 1 .. 0 = {}
    OBVIOUS
  <2>2. Placed([x \in 1 .. 0 |-> x], 0)
    BY <2>1
  <2> QED
    BY <2>2
<1>4. ASSUME NEW n \in Nat, n \in P PROVE n + 1 \in P
  <2> SUFFICES ASSUME n + 1 <= Len(s) PROVE \E p : Placed(p, n + 1)
    OBVIOUS
  <2>1. PICK p : Placed(p, n)
    BY <1>2, <1>4
  <2>2. n \in 0 .. Len(s) /\ n + 1 \in 1 .. Len(s) /\ n + 1 - 1 = n
    BY <1>2
  <2>3. TagList(g[n]) /\ InOrder(g[n]) /\ Len(g[n]) = n /\ s[n + 1] \in Texts
    BY <1>1, <1>2, <2>2, SortKeepsOrder
  <2>4. g[n + 1] = Inserted(g[n], s[n + 1])
    BY <1>1, <2>2 DEF IsSort
  <2>5. PICK m : IsInsertion(g[n + 1], g[n], m, s[n + 1])
    BY <2>3, <2>4, InsertedAt
  <2>6. /\ m \in 0 .. n
        /\ \A k \in 1 .. n + 1 :
              g[n + 1][k] = IF k <= m THEN g[n][k] ELSE IF k = m + 1 THEN s[n + 1] ELSE g[n][k - 1]
    BY <2>3, <2>5 DEF IsInsertion
  <2> DEFINE Place(x) == IF x = n + 1 THEN m + 1 ELSE IF p[x] <= m THEN p[x] ELSE p[x] + 1
             q == [x \in 1 .. n + 1 |-> Place(x)]
  <2>7. ASSUME NEW x \in 1 .. n + 1, x # n + 1 PROVE x \in 1 .. n /\ p[x] \in 1 .. n /\ g[n][p[x]] = s[x]
    BY <2>1, <2>7
  <2>8. ASSUME NEW x \in 1 .. n + 1 PROVE Place(x) \in 1 .. n + 1
    BY <2>6, <2>7, <2>8
  <2>9. ASSUME NEW x \in 1 .. n + 1, NEW y \in 1 .. n + 1, Place(x) = Place(y) PROVE x = y
    <3>1. x = n + 1 \/ y = n + 1 => x = y
      BY <2>6, <2>7, <2>9
    <3>2. x # n + 1 /\ y # n + 1 => p[x] = p[y]
      BY <2>6, <2>7, <2>9
    <3> QED
      BY <2>1, <2>7, <3>1, <3>2
  <2>10. ASSUME NEW x \in 1 .. n + 1 PROVE g[n + 1][Place(x)] = s[x]
    <3>1. CASE x = n + 1
      BY <2>6, <3>1
    <3>2. CASE x # n + 1 /\ p[x] <= m
      BY <2>6, <2>7, <2>8, <3>2
    <3>3. CASE x # n + 1 /\ ~(p[x] <= m)
      <4> DEFINE k == p[x] + 1
      <4>1. k \in 1 .. n + 1 /\ ~(k <= m) /\ k # m + 1 /\ k - 1 = p[x] /\ Place(x) = k
        BY <2>6, <2>7, <3>3
      <4> HIDE DEF k, Place
      <4> QED
        BY <2>6, <2>7, <3>3, <4>1
    <3> QED
      BY <3>1, <3>2, <3>3
  <2> HIDE DEF Place
  <2>11. Placed(q, n + 1)
    BY <2>8, <2>9, <2>10
  <2> QED
    BY <2>11
<1>5. Nat \subseteq P
  <2> HIDE DEF P
  <2> QED BY <1>3, <1>4, SetInduction
<1>6. PICK p : Placed(p, Len(s))
  <2>1. Len(s) \in P /\ Len(s) <= Len(s)
    <3> HIDE DEF P
    <3> QED BY <1>2, <1>5
  <2> HIDE DEF Placed
  <2> QED BY <2>1
<1>7. Len(SortTags(s)) = Len(s) /\ SortTags(s) = g[Len(s)]
  BY <1>1, SortedInOrder DEF IsSort
<1>8. Moves(p, s, SortTags(s))
  BY <1>6, <1>7 DEF Moves
<1> QED
  BY <1>8

\* ... and the same when two neighbours change places before.
LEMMA SortForgetsOrder ==
    ASSUME NEW s, TagList(s), NEW i \in 1 .. Len(s) - 1
    PROVE  SortTags([s EXCEPT ![i] = s[i + 1], ![i + 1] = s[i]]) = SortTags(s)
<1> DEFINE r == [s EXCEPT ![i] = s[i + 1], ![i + 1] = s[i]]
<1>1. Len(s) \in Nat /\ DOMAIN s = 1 .. Len(s) /\ \A k \in 1 .. Len(s) : s[k] \in Texts
  BY ListParts
<1>2. i \in 1 .. Len(s) /\ i + 1 \in 1 .. Len(s) /\ s[i] \in Texts /\ s[i + 1] \in Texts
  BY <1>1
<1>3. /\ TagList(r) /\ Len(r) = Len(s)
      /\ \A k \in 1 .. Len(s) : r[k] = IF k = i THEN s[i + 1] ELSE IF k = i + 1 THEN s[i] ELSE s[k]
  <2> DEFINE q == [s EXCEPT ![i] = s[i + 1]]
  <2>1. /\ q \in Seq(Texts) /\ Len(q) = Len(s)
        /\ \A k \in 1 .. Len(s) : q[k] = IF k = i THEN s[i + 1] ELSE s[k]
    BY <1>2, ExceptSeq DEF TagList
  <2>2. r = [q EXCEPT ![i + 1] = s[i]]
    OBVIOUS
  <2> HIDE DEF q, r
  <2>4. i + 1 \in 1 .. Len(q)
    BY <1>2, <2>1
  <2> DEFINE j == i + 1
             e == s[i]
  <2>5. r = [q EXCEPT ![j] = e] /\ j \in 1 .. Len(q) /\ e \in Texts
    BY <1>2, <2>2, <2>4
  <2> HIDE DEF j, e
  <2>6. /\ r \in Seq(Texts) /\ Len(r) = Len(q)
        /\ \A k \in 1 .. Len(q) : r[k] = IF k = j THEN e ELSE q[k]
    BY <2>1, <2>5, ExceptSeq
  <2>3. /\ r \in Seq(Texts) /\ Len(r) = Len(q)
        /\ \A k \in 1 .. Len(q) : r[k] = IF k = i + 1 THEN s[i] ELSE q[k]
    BY <2>6 DEF j, e
  <2> HIDE DEF r
  <2> QED
    BY <1>2, <2>1, <2>3 DEF TagList
<1> HIDE DEF r
<1>4. PICK g : IsSort(g, s)
  BY SortSteps
<1>5. PICK h : IsSort(h, r)
  BY <1>3, SortSteps
<1>6. \A k \in 1 .. Len(s) : g[k] = Inserted(g[k - 1], s[k]) /\ h[k] = Inserted(h[k - 1], r[k])
  BY <1>3, <1>4, <1>5 DEF IsSort
<1> DEFINE P == {n \in Nat : n <= i - 1 => g[n] = h[n]}
           Q == {n \in Nat : n >= i + 1 /\ n <= Len(s) => g[n] = h[n]}
<1>7. Nat \subseteq P
  <2>1. 0 \in P
    BY <1>4, <1>5 DEF IsSort
  <2>2. ASSUME NEW n \in Nat, n \in P PROVE n + 1 \in P
    <3> SUFFICES ASSUME n + 1 <= i - 1 PROVE g[n + 1] = h[n + 1]
      OBVIOUS
    <3>1. n + 1 \in 1 .. Len(s) /\ n + 1 - 1 = n /\ n + 1 # i /\ n + 1 # i + 1 /\ n <= i - 1
      BY <1>1
    <3>2. g[n] = h[n]
      BY <2>2, <3>1
    <3>3. r[n + 1] = s[n + 1]
      BY <1>3, <3>1
    <3>4. g[n + 1] = Inserted(g[n], s[n + 1]) /\ h[n + 1] = Inserted(h[n], r[n + 1])
      BY <1>6, <3>1
    <3> QED
      BY <3>2, <3>3, <3>4
  <2> HIDE DEF P
  <2> QED BY <2>1, <2>2, SetInduction
<1>8. g[i + 1] = h[i + 1]
  <2>1. i - 1 \in Nat /\ i - 1 \in 0 .. Len(s) /\ i + 1 - 1 = i
    BY <1>1
  <2>2. g[i - 1] = h[i - 1]
    BY <1>7, <2>1
  <2>3. g[i] = Inserted(g[i - 1], s[i]) /\ h[i] = Inserted(h[i - 1], r[i])
    BY <1>2, <1>6
  <2>4. g[i + 1] = Inserted(g[i], s[i + 1]) /\ h[i + 1] = Inserted(h[i], r[i + 1])
    BY <1>2, <1>6, <2>1
  <2>5. r[i] = s[i + 1] /\ r[i + 1] = s[i]
    BY <1>2, <1>3
  <2>6. TagList(g[i - 1]) /\ InOrder(g[i - 1])
    BY <1>4, <2>1, SortKeepsOrder
  <2>7. Inserted(Inserted(g[i - 1], s[i]), s[i + 1]) = Inserted(Inserted(g[i - 1], s[i + 1]), s[i])
    BY <1>2, <2>6, InsertedCommutes
  <2> QED
    BY <2>2, <2>3, <2>4, <2>5, <2>7
<1>9. Nat \subseteq Q
  <2>1. 0 \in Q
    OBVIOUS
  <2>2. ASSUME NEW n \in Nat, n \in Q PROVE n + 1 \in Q
    <3> SUFFICES ASSUME n + 1 >= i + 1, n + 1 <= Len(s) PROVE g[n + 1] = h[n + 1]
      OBVIOUS
    <3>1. CASE n = i
      BY <1>8, <3>1
    <3>2. CASE n # i
      <4>1. n + 1 \in 1 .. Len(s) /\ n + 1 - 1 = n /\ n + 1 # i /\ n + 1 # i + 1 /\ n >= i + 1 /\ n <= Len(s)
        BY <1>1, <3>2
      <4>2. g[n] = h[n]
        BY <2>2, <4>1
      <4>3. r[n + 1] = s[n + 1]
        BY <1>3, <4>1
      <4>4. g[n + 1] = Inserted(g[n], s[n + 1]) /\ h[n + 1] = Inserted(h[n], r[n + 1])
        BY <1>6, <4>1
      <4> QED
        BY <4>2, <4>3, <4>4
    <3> QED
      BY <3>1, <3>2
  <2> HIDE DEF Q
  <2> QED BY <2>1, <2>2, SetInduction
<1>10. g[Len(s)] = h[Len(s)]
  BY <1>1, <1>2, <1>9
<1>11. SortTags(r) = SortTags(s)
  BY <1>3, <1>4, <1>5, <1>10 DEF IsSort
<1> QED
  BY <1>11 DEF r

-----------------------------------------------------------------------------
(* Tags without digits.                                                    *)

\* Without digits, natural comparison is lexical.
LEMMA WordyCompare ==
    ASSUME NEW a \in Texts, NEW b \in Texts, Wordy(a), Wordy(b)
    PROVE  NaturalCompare(a, b) = Compare(a, b)
<1>1. /\ a \in Seq(Nat) /\ b \in Seq(Nat) /\ Len(a) \in Nat /\ Len(b) \in Nat
      /\ DOMAIN a = 1 .. Len(a) /\ DOMAIN b = 1 .. Len(b)
  BY TextsAreNumbers, LenProperties
<1>2. PICK f : IsLoop(a, b, f) /\ NaturalCompare(a, b) = f[<<1, 1>>]
  BY LoopDefined
<1> DEFINE Same(i) == i <= Len(b) + 1 /\ \A q \in 1 .. i - 1 : At(a, q) = At(b, q)
           P == {i \in 1 .. Len(a) + 1 : Same(i) => f[<<i, i>>] = Compare(a, b)}
<1>3. ASSUME NEW i \in 1 .. Len(a) + 1, \A k \in i + 1 .. Len(a) + 1 : k \in P PROVE i \in P
  <2> SUFFICES ASSUME Same(i) PROVE f[<<i, i>>] = Compare(a, b)
    OBVIOUS
  <2>1. i \in 1 .. Len(b) + 1
    BY <1>1
  <2>2. At(a, i) # At(b, i) => Compare(a, b) = Sign(At(a, i), At(b, i))
    <3>1. At(a, i) # At(b, i) => DifferAt(a, b, i)
      BY DEF DifferAt
    <3> QED
      BY <1>1, <3>1, CompareAt
  <2>3. /\ At(a, i) = IF i # Len(a) + 1 THEN a[i] ELSE -1
        /\ At(b, i) = IF i # Len(b) + 1 THEN b[i] ELSE -1
    BY <1>1, <2>1 DEF At
  <2>4. (i # Len(a) + 1 => a[i] \in Nat) /\ (i # Len(b) + 1 => b[i] \in Nat)
    BY <1>1, <2>1, ElementOfSeq
  <2>5. CASE i = Len(a) + 1 /\ i = Len(b) + 1
    <3>1. Len(a) = Len(b)
      <4>1. Len(a) \in Int /\ Len(b) \in Int /\ Len(a) + 1 = Len(b) + 1
        BY <1>1, <2>5
      <4> QED
        BY <4>1
    <3>2. \A q \in 1 .. Len(a) : a[q] = b[q]
      BY <1>1, <2>5, <3>1 DEF At
    <3>3. a = b
      BY <1>1, <3>1, <3>2, SeqEqual
    <3>4. Compare(a, b) = 0
      BY <1>1, <3>3, CompareSame
    <3>5. f[<<i, i>>] = 0
      BY <1>2, <2>1, <2>5, LoopEnd
    <3> QED
      BY <3>4, <3>5
  <2>6. CASE i = Len(a) + 1 /\ i # Len(b) + 1
    <3>1. f[<<i, i>>] = -1
      BY <1>2, <2>1, <2>6, LoopEnd
    <3>2. Sign(At(a, i), At(b, i)) = -1 /\ At(a, i) # At(b, i)
      BY <2>3, <2>4, <2>6 DEF Sign
    <3> QED
      BY <2>2, <3>1, <3>2
  <2>7. CASE i # Len(a) + 1 /\ i = Len(b) + 1
    <3>1. f[<<i, i>>] = 1
      BY <1>2, <2>1, <2>7, LoopEnd
    <3>2. Sign(At(a, i), At(b, i)) = 1 /\ At(a, i) # At(b, i)
      BY <2>3, <2>4, <2>7 DEF Sign
    <3> QED
      BY <2>2, <3>1, <3>2
  <2>8. CASE i # Len(a) + 1 /\ i # Len(b) + 1
    <3>1. i \in 1 .. Len(a) /\ i \in 1 .. Len(b)
      BY <1>1, <2>1, <2>8
    <3>2. ~IsASCIIDigit(a[i]) /\ ~IsASCIIDigit(b[i])
      BY <1>1, <3>1 DEF Wordy
    <3>3. /\ TokenCompare(a, i, b, i) = Sign(a[i], b[i])
          /\ TokenEnd(a, i) = i + 1 /\ TokenEnd(b, i) = i + 1
      BY <3>2 DEF TokenCompare, TokenEnd
    <3>4. /\ Sign(a[i], b[i]) # 0 => f[<<i, i>>] = Sign(a[i], b[i])
          /\ Sign(a[i], b[i]) = 0 => f[<<i, i>>] = f[<<i + 1, i + 1>>]
      BY <1>2, <3>1, <3>3, LoopRound
    <3>5. CASE a[i] = b[i]
      <4>1. Sign(a[i], b[i]) = 0
        BY <2>4, <2>8, <3>5 DEF Sign
      <4>2. i + 1 \in i + 1 .. Len(a) + 1 /\ i + 1 <= Len(b) + 1
        BY <1>1, <3>1
      <4>3. At(a, i) = At(b, i)
        BY <2>3, <2>8, <3>5
      <4>4. \A q \in 1 .. i + 1 - 1 : q \in 1 .. i - 1 \/ q = i
        OBVIOUS
      <4>5. Same(i + 1)
        BY <4>2, <4>3, <4>4
      <4>6. f[<<i + 1, i + 1>>] = Compare(a, b)
        BY <1>3, <4>2, <4>5
      <4> QED
        BY <3>4, <4>1, <4>6
    <3>6. CASE a[i] # b[i]
      <4>1. Sign(a[i], b[i]) # 0
        BY <2>4, <2>8, <3>6 DEF Sign
      <4> QED
        BY <2>2, <2>3, <2>8, <3>4, <3>6, <4>1
    <3> QED
      BY <3>5, <3>6
  <2> QED
    BY <2>5, <2>6, <2>7, <2>8
<1>4. 1 .. Len(a) + 1 \subseteq P
  <2>1. Len(a) + 1 \in Nat
    BY <1>1
  <2> HIDE DEF P
  <2> QED BY <1>3, <2>1, Backwards
<1>5. 1 \in 1 .. Len(a) + 1 /\ 1 <= Len(b) + 1
  BY <1>1
<1>6. Same(1)
  BY <1>5
<1>7. f[<<1, 1>>] = Compare(a, b)
  <2> HIDE DEF Same
  <2> QED BY <1>4, <1>5, <1>6
<1> QED
  BY <1>2, <1>7

-----------------------------------------------------------------------------
(* Numbers, from their digits.                                             *)

\* x[k] is the value of the first k digits.
IsValue(x, digits) ==
    /\ digits \in Seq(Nat) /\ \A k \in 1 .. Len(digits) : IsASCIIDigit(digits[k])
    /\ x[0] = 0
    /\ \A k \in 1 .. Len(digits) : x[k] = 10 * x[k - 1] + (digits[k] - Zero)

LEMMA NextValue ==
    ASSUME NEW s, NEW x, IsValue(x, s), NEW i \in Nat, i + 1 <= Len(s)
    PROVE  \E d \in 0 .. 9 : x[i + 1] = 10 * x[i] + d /\ s[i + 1] = d + Zero
<1>1. Len(s) \in Nat
  BY LenProperties DEF IsValue
<1>2. i + 1 \in 1 .. Len(s) /\ (i + 1) - 1 = i
  BY <1>1
<1> DEFINE k == i + 1
<1>3. k \in 1 .. Len(s) /\ x[k - 1] = x[i]
  BY <1>2
<1> HIDE DEF k
<1>4. x[k] = 10 * x[k - 1] + (s[k] - Zero) /\ IsASCIIDigit(s[k])
  BY <1>3 DEF IsValue
<1>5. s[k] \in 48 .. 57
  BY <1>4 DEF IsASCIIDigit
<1>6. s[k] - Zero \in 0 .. 9 /\ s[k] = (s[k] - Zero) + Zero
  BY <1>5 DEF Zero
<1>7. \E d \in 0 .. 9 : x[k] = 10 * x[i] + d /\ s[k] = d + Zero
  BY <1>3, <1>4, <1>6
<1> QED
  BY <1>7 DEF k

LEMMA ValueIsNumber ==
    ASSUME NEW s, NEW x, IsValue(x, s), NEW k \in 0 .. Len(s)
    PROVE  x[k] \in Nat
<1>1. Len(s) \in Nat
  BY LenProperties DEF IsValue
<1> DEFINE P == {n \in Nat : n <= Len(s) => x[n] \in Nat}
<1>2. 0 \in P
  BY DEF IsValue
<1>3. ASSUME NEW n \in Nat, n \in P PROVE n + 1 \in P
  <2> SUFFICES ASSUME n + 1 <= Len(s) PROVE x[n + 1] \in Nat
    OBVIOUS
  <2>1. x[n] \in Nat
    BY <1>1, <1>3
  <2>2. PICK d \in 0 .. 9 : x[n + 1] = 10 * x[n] + d
    BY NextValue
  <2> QED
    BY <2>1, <2>2
<1>4. Nat \subseteq P
  <2> HIDE DEF P
  <2> QED BY <1>2, <1>3, SetInduction
<1> QED
  BY <1>1, <1>4

\* What is less stays less, however many digits follow.
LEMMA StaysLess ==
    ASSUME NEW s, NEW x, IsValue(x, s), NEW t, NEW y, IsValue(y, t),
           NEW k \in 0 .. Len(s), NEW l \in 0 .. Len(t), x[k] < y[l],
           NEW m \in Nat, k + m <= Len(s), l + m <= Len(t)
    PROVE  x[k + m] < y[l + m]
<1>1. Len(s) \in Nat /\ Len(t) \in Nat
  BY LenProperties DEF IsValue
<1> DEFINE P == {n \in Nat : n <= m => x[k + n] < y[l + n]}
<1>2. 0 \in P
  <2>1. k + 0 = k /\ l + 0 = l
    BY <1>1
  <2> QED
    BY <2>1
<1>3. ASSUME NEW n \in Nat, n \in P PROVE n + 1 \in P
  <2> SUFFICES ASSUME n + 1 <= m PROVE x[k + (n + 1)] < y[l + (n + 1)]
    OBVIOUS
  <2> DEFINE i == k + n
             j == l + n
  <2>1. k + (n + 1) = i + 1 /\ l + (n + 1) = j + 1 /\ i \in 0 .. Len(s) /\ j \in 0 .. Len(t)
    BY <1>1
  <2>2. i \in Nat /\ i + 1 <= Len(s) /\ j \in Nat /\ j + 1 <= Len(t)
    BY <1>1
  <2>3. x[i] < y[j]
    BY <1>3
  <2> HIDE DEF i, j
  <2>4. PICK d \in 0 .. 9 : x[i + 1] = 10 * x[i] + d
    BY <2>2, NextValue
  <2>5. PICK e \in 0 .. 9 : y[j + 1] = 10 * y[j] + e
    BY <2>2, NextValue
  <2>6. x[i] \in Nat /\ y[j] \in Nat
    BY <2>1, ValueIsNumber
  <2>8. \A u, w \in Nat : u < w => 10 * u + d < 10 * w + e
    OBVIOUS
  <2>7. x[i + 1] < y[j + 1]
    BY <2>3, <2>4, <2>5, <2>6, <2>8
  <2> QED
    BY <2>1, <2>7
<1>4. Nat \subseteq P
  <2> HIDE DEF P
  <2> QED BY <1>2, <1>3, SetInduction
<1> QED
  BY <1>4

\* Digits that are the same, so far, have the same value, so far.
LEMMA SameValue ==
    ASSUME NEW s, NEW x, IsValue(x, s), NEW t, NEW y, IsValue(y, t),
           NEW p \in Nat, p <= Len(s), p <= Len(t), \A k \in 1 .. p : s[k] = t[k]
    PROVE  x[p] = y[p]
<1> DEFINE P == {n \in Nat : n <= p => x[n] = y[n]}
<1>1. Len(s) \in Nat /\ Len(t) \in Nat
  BY LenProperties DEF IsValue
<1>2. 0 \in P
  BY DEF IsValue
<1>3. ASSUME NEW n \in Nat, n \in P PROVE n + 1 \in P
  <2> SUFFICES ASSUME n + 1 <= p PROVE x[n + 1] = y[n + 1]
    OBVIOUS
  <2>1. n + 1 <= Len(s) /\ n + 1 <= Len(t) /\ n + 1 \in 1 .. p
    BY <1>1
  <2>2. PICK d \in 0 .. 9 : x[n + 1] = 10 * x[n] + d /\ s[n + 1] = d + Zero
    BY <2>1, NextValue, SMTT(30)
  <2>3. PICK e \in 0 .. 9 : y[n + 1] = 10 * y[n] + e /\ t[n + 1] = e + Zero
    BY <2>1, NextValue, SMTT(30)
  <2>4. s[n + 1] = t[n + 1]
    BY <2>1
  <2>5. d = e
    BY <2>2, <2>3, <2>4 DEF Zero
  <2>6. x[n] = y[n]
    BY <1>3
  <2> QED
    BY <2>2, <2>3, <2>5, <2>6
<1>4. Nat \subseteq P
  <2> HIDE DEF P
  <2> QED BY <1>2, <1>3, SetInduction
<1> QED
  BY <1>4

\* Leading zeros are worth nothing ...
LEMMA ZerosAreNothing ==
    ASSUME NEW s, NEW x, IsValue(x, s), NEW p \in Nat, p <= Len(s), \A k \in 1 .. p : s[k] = Zero
    PROVE  x[p] = 0
<1> DEFINE P == {n \in Nat : n <= p => x[n] = 0}
<1>1. Len(s) \in Nat
  BY LenProperties DEF IsValue
<1>2. 0 \in P
  BY DEF IsValue
<1>3. ASSUME NEW n \in Nat, n \in P PROVE n + 1 \in P
  <2> SUFFICES ASSUME n + 1 <= p PROVE x[n + 1] = 0
    OBVIOUS
  <2>1. n + 1 <= Len(s) /\ n + 1 \in 1 .. p
    BY <1>1
  <2>2. PICK d \in 0 .. 9 : x[n + 1] = 10 * x[n] + d /\ s[n + 1] = d + Zero
    BY <2>1, NextValue, SMTT(30)
  <2>3. s[n + 1] = Zero
    BY <2>1
  <2>4. d = 0
    BY <2>2, <2>3 DEF Zero
  <2>5. x[n] = 0
    BY <1>3
  <2> QED
    BY <2>2, <2>4, <2>5
<1>4. Nat \subseteq P
  <2> HIDE DEF P
  <2> QED BY <1>2, <1>3, SetInduction
<1> QED
  BY <1>4

\* ... so that trimming them keeps the value.
LEMMA TrimKeepsValue ==
    ASSUME NEW s, NEW x, IsValue(x, s)
    PROVE  \E y : /\ IsValue(y, Trimmed(s)) /\ y[Len(Trimmed(s))] = x[Len(s)]
                  /\ Len(Trimmed(s)) > 0 => Trimmed(s)[1] # Zero
<1>1. s \in Seq(Nat) /\ Len(s) \in Nat /\ DOMAIN s = 1 .. Len(s)
  BY LenProperties DEF IsValue
<1>2. /\ Trimmed(s) \in Seq(Nat) /\ Len(Trimmed(s)) \in Nat
      /\ \/ Trimmed(s) = <<>> /\ \A k \in DOMAIN s : s[k] = Zero
         \/ \E z \in DOMAIN s : /\ Trimmed(s) = SubSeq(s, z, Len(s)) /\ s[z] # Zero
                                /\ \A k \in 1 .. z - 1 : s[k] = Zero
  BY <1>1, TrimmedIs
<1>3. CASE Trimmed(s) = <<>> /\ \A k \in DOMAIN s : s[k] = Zero
  <2>1. x[Len(s)] = 0
    BY <1>1, <1>3, ZerosAreNothing
  <2>2. Len(Trimmed(s)) = 0
    BY <1>3
  <2> DEFINE y == [k \in {0} |-> 0]
  <2>3. y[0] = 0
    OBVIOUS
  <2> HIDE DEF y
  <2>4. IsValue(y, Trimmed(s))
    BY <1>2, <2>2, <2>3 DEF IsValue
  <2> QED
    BY <2>1, <2>2, <2>3, <2>4
<1>4. CASE \E z \in DOMAIN s : /\ Trimmed(s) = SubSeq(s, z, Len(s)) /\ s[z] # Zero
                               /\ \A k \in 1 .. z - 1 : s[k] = Zero
  <2>1. PICK z \in DOMAIN s : /\ Trimmed(s) = SubSeq(s, z, Len(s)) /\ s[z] # Zero
                              /\ \A k \in 1 .. z - 1 : s[k] = Zero
    BY <1>4
  <2> DEFINE u == Trimmed(s)
             y == [k \in 0 .. Len(s) |-> x[z - 1 + k]]
             n == Len(s) - z + 1
  <2>2. z \in 1 .. Len(s) /\ n \in 1 .. Len(s) /\ z - 1 \in 0 .. Len(s)
    BY <1>1
  <2>3. Len(u) = n /\ \A k \in 1 .. n : u[k] = s[z + k - 1]
    <3>1. \A k \in z .. Len(s) : s[k] \in Nat
      BY <1>1, <2>2, ElementOfSeq
    <3>2. z <= Len(s) /\ z \in Int /\ Len(s) \in Int
      BY <1>1, <2>2
    <3> DEFINE w == SubSeq(s, z, Len(s))
    <3>3. /\ Len(w) = IF z <= Len(s) THEN Len(s) - z + 1 ELSE 0
          /\ \A k \in 1 .. Len(s) - z + 1 : w[k] = s[z + k - 1]
      BY <3>1, <3>2, SubSeqProperties
    <3>4. u = w
      BY <2>1
    <3> HIDE DEF u, w
    <3> QED
      BY <3>2, <3>3, <3>4
  <2>4. x[z - 1] = 0
    <3> DEFINE p == z - 1
    <3>1. p \in Nat /\ p <= Len(s) /\ \A k \in 1 .. p : s[k] = Zero
      BY <1>1, <2>1, <2>2
    <3> HIDE DEF p
    <3>2. x[p] = 0
      BY <3>1, ZerosAreNothing
    <3> QED
      BY <3>2 DEF p
  <2>5. y[0] = 0
    <3>1. z - 1 + 0 = z - 1 /\ 0 \in 0 .. Len(s)
      BY <1>1, <2>2
    <3> QED
      BY <2>4, <3>1
  <2>6. ASSUME NEW k \in 1 .. n
        PROVE  y[k] = 10 * y[k - 1] + (u[k] - Zero) /\ IsASCIIDigit(u[k])
    <3> DEFINE i == z + k - 1
    <3>1. i \in 1 .. Len(s) /\ k \in 0 .. Len(s) /\ k - 1 \in 0 .. Len(s) /\ z - 1 + k = i /\ z - 1 + (k - 1) = i - 1
      BY <1>1, <2>2, SMTT(30)
    <3>2. y[k] = x[i] /\ y[k - 1] = x[i - 1]
      BY <3>1
    <3>3. u[k] = s[i]
      BY <2>3
    <3> HIDE DEF i, y, u
    <3>4. x[i] = 10 * x[i - 1] + (s[i] - Zero) /\ IsASCIIDigit(s[i])
      BY <3>1 DEF IsValue
    <3> QED
      BY <3>2, <3>3, <3>4
  <2>7. y[n] = x[Len(s)]
    <3>1. n \in 0 .. Len(s) /\ z - 1 + n = Len(s)
      BY <1>1, <2>2
    <3> QED
      BY <3>1
  <2>8. u[1] # Zero
    <3>1. 1 \in 1 .. n /\ z + 1 - 1 = z
      BY <2>2
    <3>2. u[1] = s[z]
      BY <2>3, <3>1
    <3> QED
      BY <2>1, <3>2
  <2>9. IsValue(y, u)
    <3>1. u \in Seq(Nat)
      BY <1>2
    <3> HIDE DEF y, u, n
    <3> QED
      BY <2>3, <2>5, <2>6, <3>1 DEF IsValue
  <2>10. y[Len(u)] = x[Len(s)] /\ (Len(u) > 0 => u[1] # Zero)
    <3> HIDE DEF y, u, n
    <3> QED BY <2>3, <2>7, <2>8
  <2> QED
    BY <2>9, <2>10
<1> QED
  BY <1>2, <1>3, <1>4

\* Of two numbers with as many digits, the first digit that differs decides ...
LEMMA FirstDigitDecides ==
    ASSUME NEW s, NEW x, IsValue(x, s), NEW t, NEW y, IsValue(y, t), Len(s) = Len(t),
           NEW p \in 1 .. Len(s), s[p] < t[p], \A k \in 1 .. p - 1 : s[k] = t[k]
    PROVE  x[Len(s)] < y[Len(t)]
<1>1. Len(s) \in Nat /\ Len(t) \in Nat
  BY LenProperties DEF IsValue
<1> DEFINE q == p - 1
<1>2. q \in Nat /\ q + 1 = p /\ q <= Len(s) /\ q <= Len(t) /\ q + 1 <= Len(s) /\ q + 1 <= Len(t)
  BY <1>1
<1>3. \A k \in 1 .. q : s[k] = t[k]
  OBVIOUS
<1> HIDE DEF q
<1>4. x[q] = y[q]
  BY <1>2, <1>3, SameValue
<1>5. PICK d \in 0 .. 9 : x[q + 1] = 10 * x[q] + d /\ s[q + 1] = d + Zero
  BY <1>2, NextValue, SMTT(30)
<1>6. PICK e \in 0 .. 9 : y[q + 1] = 10 * y[q] + e /\ t[q + 1] = e + Zero
  BY <1>2, NextValue, SMTT(30)
<1>7. d < e
  BY <1>2, <1>5, <1>6 DEF Zero
<1>8. x[q] \in Nat
  BY <1>1, <1>2, ValueIsNumber
<1>9. x[p] < y[p]
  BY <1>2, <1>4, <1>5, <1>6, <1>7, <1>8
<1> DEFINE m == Len(s) - p
<1>10. m \in Nat /\ p + m = Len(s) /\ p \in 0 .. Len(s) /\ p \in 0 .. Len(t) /\ p + m = Len(t)
  BY <1>1
<1>11. p + m <= Len(s) /\ p + m <= Len(t)
  BY <1>1, <1>10
<1> HIDE DEF m
<1>12. x[p + m] < y[p + m]
  BY <1>9, <1>10, <1>11, StaysLess
<1> QED
  BY <1>10, <1>12

\* ... and a number with fewer digits is less than one that begins with no zero.
LEMMA FewerDigitsAreLess ==
    ASSUME NEW s, NEW x, IsValue(x, s), NEW t, NEW y, IsValue(y, t),
           Len(s) < Len(t), t[1] # Zero
    PROVE  x[Len(s)] < y[Len(t)]
<1>1. Len(s) \in Nat /\ Len(t) \in Nat
  BY LenProperties DEF IsValue
<1> DEFINE P == {n \in Nat : n + 1 <= Len(t) => 0 < y[n + 1]}
<1>2. 0 \in P
  <2>1. y[0] = 0 /\ 0 + 1 <= Len(t) /\ 0 + 1 = 1
    BY <1>1 DEF IsValue
  <2>2. PICK e \in 0 .. 9 : y[0 + 1] = 10 * y[0] + e /\ t[0 + 1] = e + Zero
    BY <2>1, NextValue, SMTT(30)
  <2>3. e # 0
    BY <2>1, <2>2 DEF Zero
  <2> QED
    BY <2>1, <2>2, <2>3
<1>3. ASSUME NEW n \in Nat, n \in P PROVE n + 1 \in P
  <2> SUFFICES ASSUME n + 1 + 1 <= Len(t) PROVE 0 < y[n + 1 + 1]
    OBVIOUS
  <2>1. n + 1 <= Len(t) /\ n + 1 \in 0 .. Len(t)
    BY <1>1
  <2>2. 0 < y[n + 1]
    BY <1>3, <2>1
  <2>3. PICK e \in 0 .. 9 : y[n + 1 + 1] = 10 * y[n + 1] + e
    BY NextValue
  <2>4. y[n + 1] \in Nat
    BY <2>1, ValueIsNumber
  <2> QED
    BY <2>2, <2>3, <2>4
<1>4. Nat \subseteq P
  <2> HIDE DEF P
  <2> QED BY <1>2, <1>3, SetInduction
<1> DEFINE l == Len(t) - Len(s)
           m == Len(s)
<1>5. 0 < y[l]
  <2> DEFINE n == l - 1
  <2>1. n \in Nat /\ n + 1 = l /\ n + 1 <= Len(t)
    BY <1>1
  <2> HIDE DEF n, l
  <2>2. 0 < y[n + 1]
    BY <1>4, <2>1
  <2> QED
    BY <2>1, <2>2
<1>6. /\ 0 \in 0 .. Len(s) /\ l \in 0 .. Len(t) /\ m \in Nat
      /\ 0 + m = Len(s) /\ l + m = Len(t) /\ 0 + m <= Len(s) /\ l + m <= Len(t)
  BY <1>1
<1>7. x[0] < y[l]
  <2>1. x[0] = 0
    BY DEF IsValue
  <2> QED
    BY <1>5, <2>1
<1> HIDE DEF l, m
<1>8. x[0 + m] < y[l + m]
  BY <1>6, <1>7, StaysLess
<1> QED
  BY <1>6, <1>8

LEMMA SameLengthCompare ==
    ASSUME NEW s, NEW x, IsValue(x, s), NEW t, NEW y, IsValue(y, t), Len(s) = Len(t)
    PROVE  Compare(s, t) = Sign(x[Len(s)], y[Len(t)])
<1>1. /\ s \in Seq(Nat) /\ t \in Seq(Nat) /\ Len(s) \in Nat /\ Len(t) \in Nat
      /\ DOMAIN s = 1 .. Len(s) /\ DOMAIN t = 1 .. Len(t)
  BY LenProperties DEF IsValue
<1>2. x[Len(s)] \in Nat /\ y[Len(t)] \in Nat
  BY <1>1, ValueIsNumber
<1>3. CASE s = t
  <2>1. x[Len(s)] = y[Len(t)]
    BY <1>1, <1>3, SameValue
  <2>2. Compare(s, t) = 0
    BY <1>1, <1>3, CompareSame
  <2> QED
    BY <1>2, <2>1, <2>2 DEF Sign
<1>4. CASE s # t
  <2>1. PICK p \in Nat \ {0} : DifferAt(s, t, p)
    BY <1>1, <1>4, DifferSomewhere
  <2>2. p \in 1 .. Len(s)
    BY <1>1, <2>1 DEF DifferAt, At
  <2>3. At(s, p) = s[p] /\ At(t, p) = t[p] /\ s[p] # t[p] /\ s[p] \in Nat /\ t[p] \in Nat
    <3>1. At(s, p) = s[p] /\ At(t, p) = t[p]
      BY <1>1, <2>2 DEF At
    <3> QED
      BY <1>1, <2>1, <2>2, <3>1, ElementOfSeq DEF DifferAt
  <2>4. \A k \in 1 .. p - 1 : s[k] = t[k]
    BY <1>1, <2>1, <2>2 DEF DifferAt, At
  <2>5. Compare(s, t) = Sign(s[p], t[p])
    BY <1>1, <2>1, <2>3, CompareAt
  <2>6. CASE s[p] < t[p]
    <3>1. x[Len(s)] < y[Len(t)]
      BY <2>2, <2>4, <2>6, FirstDigitDecides
    <3> QED
      BY <1>2, <2>3, <2>5, <2>6, <3>1 DEF Sign
  <2>7. CASE t[p] < s[p]
    <3>1. y[Len(t)] < x[Len(s)]
      <4>1. p \in 1 .. Len(t) /\ \A k \in 1 .. p - 1 : t[k] = s[k]
        BY <2>2, <2>4
      <4> QED
        BY <2>7, <4>1, FirstDigitDecides
    <3> QED
      BY <1>2, <2>3, <2>5, <2>7, <3>1 DEF Sign
  <2> QED
    BY <2>3, <2>6, <2>7
<1> QED
  BY <1>3, <1>4

\* CompareDigits compares the numbers that the digits say.
LEMMA DigitsCompare ==
    ASSUME NEW s, NEW x, IsValue(x, s), NEW t, NEW y, IsValue(y, t)
    PROVE  CompareDigits(s, t) = Sign(x[Len(s)], y[Len(t)])
<1> DEFINE u == Trimmed(s)
           w == Trimmed(t)
<1>1. PICK a : IsValue(a, u) /\ a[Len(u)] = x[Len(s)] /\ (Len(u) > 0 => u[1] # Zero)
  BY TrimKeepsValue
<1>2. PICK b : IsValue(b, w) /\ b[Len(w)] = y[Len(t)] /\ (Len(w) > 0 => w[1] # Zero)
  BY TrimKeepsValue
<1>3. CompareDigits(s, t) = IF Len(u) # Len(w) THEN Sign(Len(u), Len(w)) ELSE Compare(u, w)
  BY DEF CompareDigits
<1> HIDE DEF u, w
<1>4. Len(u) \in Nat /\ Len(w) \in Nat
  BY <1>1, <1>2, LenProperties DEF IsValue
<1>5. a[Len(u)] \in Nat /\ b[Len(w)] \in Nat
  BY <1>1, <1>2, <1>4, ValueIsNumber
<1>6. CASE Len(u) = Len(w)
  <2>1. Compare(u, w) = Sign(a[Len(u)], b[Len(w)])
    BY <1>1, <1>2, <1>6, SameLengthCompare
  <2> QED
    BY <1>1, <1>2, <1>3, <1>6, <2>1
<1>7. CASE Len(u) < Len(w)
  <2>1. a[Len(u)] < b[Len(w)]
    BY <1>1, <1>2, <1>4, <1>7, FewerDigitsAreLess
  <2> QED
    BY <1>1, <1>2, <1>3, <1>4, <1>5, <1>7, <2>1 DEF Sign
<1>8. CASE Len(w) < Len(u)
  <2>1. b[Len(w)] < a[Len(u)]
    BY <1>1, <1>2, <1>4, <1>8, FewerDigitsAreLess
  <2> QED
    BY <1>1, <1>2, <1>3, <1>4, <1>5, <1>8, <2>1 DEF Sign
<1> QED
  BY <1>4, <1>6, <1>7, <1>8

-----------------------------------------------------------------------------
(* Versions, byte by byte.                                                 *)

\* A list of numbers, the last of which is being read.
Reading(v) == v \in Seq(Nat) /\ Len(v) \in Nat \ {0}

\* A digit changes the last number, a dot begins another.
LEMMA ReadDigit ==
    ASSUME NEW v, Reading(v), NEW b, IsASCIIDigit(b)
    PROVE  /\ Reading(ReadByte(v, b)) /\ Len(ReadByte(v, b)) = Len(v)
           /\ \A m \in 1 .. Len(v) - 1 : ReadByte(v, b)[m] = v[m]
           /\ ReadByte(v, b)[Len(v)] = 10 * v[Len(v)] + (b - Zero)
<1> DEFINE l == Len(v)
           e == 10 * v[l] + (b - Zero)
           r == [v EXCEPT ![l] = e]
<1>1. ReadByte(v, b) = r
  BY DEF ReadByte, IsASCIIDigit
<1>2. l \in Nat \ {0} /\ l \in 1 .. Len(v) /\ v \in Seq(Nat)
  BY DEF Reading
<1>3. v[l] \in Nat
  BY <1>2, ElementOfSeq
<1>4. e \in Nat
  BY <1>3 DEF IsASCIIDigit, Zero
<1> HIDE DEF e
<1>5. /\ r \in Seq(Nat) /\ Len(r) = Len(v)
      /\ \A m \in 1 .. Len(v) : r[m] = IF m = l THEN e ELSE v[m]
  <2> HIDE DEF l
  <2> QED BY <1>2, <1>4, ExceptSeq
<1> HIDE DEF r
<1>6. r[l] = e /\ \A m \in 1 .. Len(v) - 1 : r[m] = v[m]
  BY <1>2, <1>5
<1> QED
  BY <1>1, <1>2, <1>5, <1>6 DEF Reading, e

LEMMA ReadDot ==
    ASSUME NEW v, Reading(v)
    PROVE  /\ Reading(ReadByte(v, 46)) /\ Len(ReadByte(v, 46)) = Len(v) + 1
           /\ \A m \in 1 .. Len(v) : ReadByte(v, 46)[m] = v[m]
           /\ ReadByte(v, 46)[Len(v) + 1] = 0
<1>1. ReadByte(v, 46) = Append(v, 0)
  BY DEF ReadByte
<1>2. v \in Seq(Nat) /\ 0 \in Nat /\ Len(v) \in Nat
  BY DEF Reading
<1>3. /\ Append(v, 0) \in Seq(Nat) /\ Len(Append(v, 0)) = Len(v) + 1
      /\ \A m \in 1 .. Len(v) : Append(v, 0)[m] = v[m]
      /\ Append(v, 0)[Len(v) + 1] = 0
  BY <1>2, AppendProperties
<1> QED
  BY <1>1, <1>2, <1>3, SMTT(30) DEF Reading

LEMMA ReadOn ==
    ASSUME NEW v, Reading(v), NEW b, IsASCIIDigit(b) \/ b = 46
    PROVE  /\ Reading(ReadByte(v, b)) /\ Len(v) <= Len(ReadByte(v, b))
           /\ \A m \in 1 .. Len(v) - 1 : ReadByte(v, b)[m] = v[m]
<1>1. Len(v) \in Nat
  BY DEF Reading
<1>2. CASE IsASCIIDigit(b)
  BY <1>1, <1>2, ReadDigit
<1>3. CASE b = 46
  <2>1. Reading(ReadByte(v, 46)) /\ Len(ReadByte(v, 46)) = Len(v) + 1
    BY ReadDot
  <2>2. \A m \in 1 .. Len(v) : ReadByte(v, 46)[m] = v[m]
    BY ReadDot
  <2>3. 1 .. Len(v) - 1 \subseteq 1 .. Len(v) /\ Len(v) <= Len(v) + 1
    BY <1>1
  <2> QED
    BY <1>3, <2>1, <2>2, <2>3
<1> QED
  BY <1>2, <1>3

\* g is what Version reads of the tag, byte by byte.
IsRead(g, tag) ==
    /\ g[0] = <<0>>
    /\ \A k \in 1 .. Len(tag) : g[k] = ReadByte(g[k - 1], tag[k])
    /\ Version(tag) = g[Len(tag)]

LEMMA VersionBytes ==
    ASSUME NEW a \in Texts, IsVersion(a)
    PROVE  /\ Len(a) \in Nat \ {0} /\ DOMAIN a = 1 .. Len(a)
           /\ \A k \in 1 .. Len(a) : IsASCIIDigit(a[k]) \/ a[k] = 46
           /\ \A k \in 1 .. Len(a) : a[k] = 46 =>
                 /\ k \in 2 .. Len(a) - 1
                 /\ IsASCIIDigit(a[k - 1]) /\ IsASCIIDigit(a[k + 1])
<1>1. Len(a) \in Nat /\ DOMAIN a = 1 .. Len(a) /\ a # <<>>
  BY LenProperties DEF Texts, IsVersion
<1>2. Len(a) # 0
  <2> SUFFICES ASSUME Len(a) = 0 PROVE FALSE
    OBVIOUS
  <2>1. a \in Seq(Bytes) /\ <<>> \in Seq(Bytes) /\ Len(<<>>) = 0 /\ \A i \in 1 .. Len(a) : a[i] = <<>>[i]
    BY EmptySeq DEF Texts
  <2>2. a = <<>>
    BY <2>1, SeqEqual
  <2> QED
    BY <1>1, <2>2
<1> QED
  BY <1>1, <1>2 DEF IsVersion

LEMMA ReadSteps ==
    ASSUME NEW a \in Texts, IsVersion(a)
    PROVE  \E g : IsRead(g, a)
<1> DEFINE S == DOMAIN a
           V == {v \in Seq(Nat) : Len(v) \in Nat \ {0}}
           pick == [T \in SUBSET S |-> Max(T)]
           F == [p \in V \X S |-> ReadByte(p[1], a[p[2]])]
           Folds(f) == f = [T \in SUBSET S |-> IF T = {} THEN <<0>> ELSE ReadByte(f[T \ {Max(T)}], a[Max(T)])]
           fold == CHOOSE f : Folds(f)
<1>1. Len(a) \in Nat /\ S = 1 .. Len(a) /\ \A k \in S : IsASCIIDigit(a[k]) \/ a[k] = 46
  BY VersionBytes
<1>2. IsFiniteSet(S) /\ S \in SUBSET Int
  BY <1>1, FS_Interval
<1>3. \A T \in SUBSET S : T # {} => Max(T) \in T
  BY <1>2, FS_Subset, MaxIsGreatest
<1>4. Picks(pick, S)
  BY <1>3 DEF Picks
<1>5. F \in [V \X S -> V]
  <2>1. ASSUME NEW v \in V, NEW i \in S PROVE ReadByte(v, a[i]) \in V
    <3>1. Reading(v)
      BY DEF Reading
    <3>2. Reading(ReadByte(v, a[i]))
      BY <1>1, <3>1, ReadDigit, ReadDot
    <3> QED
      BY <3>2 DEF Reading
  <2> QED
    BY <2>1
<1>6. PICK f \in [SUBSET S -> V] : IsFold(f, S, pick, <<0>>, F)
  <2>1. <<0>> \in V
    OBVIOUS
  <2> HIDE DEF S, V, pick, F
  <2> QED BY <1>2, <1>4, <1>5, <2>1, FoldDefined
<1>7. Folds(f)
  <2>1. ASSUME NEW T \in SUBSET S
        PROVE  f[T] = IF T = {} THEN <<0>> ELSE ReadByte(f[T \ {Max(T)}], a[Max(T)])
    <3>1. T # {} => Max(T) \in S /\ T \ {Max(T)} \in SUBSET S
      BY <1>3
    <3>2. T # {} => f[T \ {Max(T)}] \in V
      BY <1>6, <3>1
    <3>3. f[T] = IF T = {} THEN <<0>> ELSE F[<<f[T \ {Max(T)}], Max(T)>>]
      BY <1>6 DEF IsFold
    <3> HIDE DEF V, S
    <3> QED
      BY <3>1, <3>2, <3>3
  <2> QED
    BY <1>6, <2>1
<1>8. Folds(fold)
  BY <1>7
<1>9. Version(a) = fold[S]
  BY DEF Version, FoldLeft, MapThenFoldSet
<1> HIDE DEF fold
<1>10. fold[{}] = <<0>> /\ \A T \in SUBSET S : T # {} => fold[T] = ReadByte(fold[T \ {Max(T)}], a[Max(T)])
  BY <1>8
<1> DEFINE g == [k \in 0 .. Len(a) |-> fold[1 .. k]]
<1>11. g[0] = <<0>>
  <2>1. 1 .. 0 = {} /\ 0 \in 0 .. Len(a)
    BY <1>1
  <2> QED
    BY <1>10, <2>1
<1>12. ASSUME NEW k \in 1 .. Len(a) PROVE g[k] = ReadByte(g[k - 1], a[k])
  <2>1. k \in 0 .. Len(a) /\ k - 1 \in 0 .. Len(a) /\ 1 .. k \in SUBSET S /\ k \in Nat \ {0}
    BY <1>1
  <2>2. Max(1 .. k) = k /\ (1 .. k) \ {k} = 1 .. k - 1 /\ 1 .. k # {}
    BY <2>1, IntervalPeels
  <2>3. fold[1 .. k] = ReadByte(fold[1 .. k - 1], a[k])
    BY <1>10, <2>1, <2>2
  <2> QED
    BY <2>1, <2>3
<1>13. Version(a) = g[Len(a)]
  BY <1>1, <1>9
<1>14. IsRead(g, a)
  <2> HIDE DEF g
  <2> QED BY <1>11, <1>12, <1>13 DEF IsRead
<1> QED
  BY <1>14

\* Reading a version only adds numbers, and changes but the last.
LEMMA ReadKeeps ==
    ASSUME NEW a \in Texts, IsVersion(a), NEW g, IsRead(g, a), NEW k \in 0 .. Len(a)
    PROVE  /\ Reading(g[k])
           /\ \A l \in k .. Len(a) :
                 /\ Len(g[k]) <= Len(g[l])
                 /\ \A m \in 1 .. Len(g[k]) - 1 : g[l][m] = g[k][m]
<1>1. Len(a) \in Nat /\ \A i \in 1 .. Len(a) : IsASCIIDigit(a[i]) \/ a[i] = 46
  BY VersionBytes
<1>2. ASSUME NEW n \in Nat, n + 1 <= Len(a)
      PROVE  g[n + 1] = ReadByte(g[n], a[n + 1]) /\ (IsASCIIDigit(a[n + 1]) \/ a[n + 1] = 46)
  <2> DEFINE i == n + 1
  <2>1. i \in 1 .. Len(a) /\ i - 1 = n
    BY <1>1, <1>2
  <2> HIDE DEF i
  <2>2. g[i] = ReadByte(g[n], a[i]) /\ (IsASCIIDigit(a[i]) \/ a[i] = 46)
    BY <1>1, <2>1 DEF IsRead
  <2> QED
    BY <2>2 DEF i
<1> DEFINE P == {n \in Nat : n <= Len(a) => Reading(g[n])}
<1>3. Nat \subseteq P
  <2>1. 0 \in P
    <3>1. <<0>> \in Seq(Nat) /\ Len(<<0>>) = 1
      OBVIOUS
    <3>2. Reading(<<0>>)
      BY <3>1 DEF Reading
    <3> QED
      BY <3>2 DEF IsRead
  <2>2. ASSUME NEW n \in Nat, n \in P PROVE n + 1 \in P
    <3> SUFFICES ASSUME n + 1 <= Len(a) PROVE Reading(g[n + 1])
      OBVIOUS
    <3>1. Reading(g[n])
      BY <1>1, <2>2
    <3>2. g[n + 1] = ReadByte(g[n], a[n + 1]) /\ (IsASCIIDigit(a[n + 1]) \/ a[n + 1] = 46)
      BY <1>2
    <3> QED
      BY <3>1, <3>2, ReadDigit, ReadDot
  <2> HIDE DEF P
  <2> QED BY <2>1, <2>2, SetInduction
<1>4. Reading(g[k])
  BY <1>1, <1>3
<1> DEFINE Kept(l) == Len(g[k]) <= Len(g[l]) /\ \A m \in 1 .. Len(g[k]) - 1 : g[l][m] = g[k][m]
           Q == {n \in Nat : n >= k /\ n <= Len(a) => Kept(n)}
<1>5. Nat \subseteq Q
  <2>1. 0 \in Q
    <3> SUFFICES ASSUME 0 >= k PROVE Kept(0)
      OBVIOUS
    <3>1. k = 0
      BY <1>1
    <3> QED
      BY <1>4, <3>1 DEF Reading
  <2>2. ASSUME NEW n \in Nat, n \in Q PROVE n + 1 \in Q
    <3> SUFFICES ASSUME n + 1 >= k, n + 1 <= Len(a) PROVE Kept(n + 1)
      OBVIOUS
    <3>1. CASE n + 1 = k
      BY <1>4, <3>1 DEF Reading
    <3>2. CASE n + 1 # k
      <4>1. Kept(n)
        BY <1>1, <2>2, <3>2
      <4>2. Reading(g[n])
        BY <1>1, <1>3
      <4>3. g[n + 1] = ReadByte(g[n], a[n + 1]) /\ (IsASCIIDigit(a[n + 1]) \/ a[n + 1] = 46)
        BY <1>2
      <4>4. Len(g[n]) <= Len(g[n + 1]) /\ \A m \in 1 .. Len(g[n]) - 1 : g[n + 1][m] = g[n][m]
        BY <4>2, <4>3, ReadOn
      <4>5. Reading(g[n + 1])
        <5>1. n + 1 \in P
          BY <1>3
        <5> QED
          BY <5>1
      <4>6. \A m \in 1 .. Len(g[k]) - 1 : m \in 1 .. Len(g[n]) - 1
        BY <1>4, <4>1, <4>2 DEF Reading
      <4>7. Len(g[k]) \in Nat /\ Len(g[n]) \in Nat /\ Len(g[n + 1]) \in Nat
        BY <1>4, <4>2, <4>5 DEF Reading
      <4>8. Len(g[k]) <= Len(g[n + 1])
        BY <4>1, <4>4, <4>7
      <4>9. ASSUME NEW m \in 1 .. Len(g[k]) - 1 PROVE g[n + 1][m] = g[k][m]
        BY <4>1, <4>4, <4>6
      <4> QED
        BY <4>8, <4>9
    <3> QED
      BY <3>1, <3>2
  <2> HIDE DEF Q
  <2> QED BY <2>1, <2>2, SetInduction
<1>6. ASSUME NEW l \in k .. Len(a) PROVE Kept(l)
  <2>1. l \in Nat /\ l >= k /\ l <= Len(a)
    BY <1>1
  <2> HIDE DEF Kept
  <2> QED BY <1>5, <2>1
<1> QED
  BY <1>4, <1>6

\* Reading a run of digits, from a last number of nothing, makes the last
\* number the value of the run.
LEMMA ReadRun ==
    ASSUME NEW a \in Texts, IsVersion(a), NEW g, IsRead(g, a),
           NEW i \in 1 .. Len(a), IsASCIIDigit(a[i]), g[i - 1][Len(g[i - 1])] = 0
    PROVE  LET e == DigitsEnd(a, i)
           IN  /\ e \in i + 1 .. Len(a) + 1
               /\ Len(g[e - 1]) = Len(g[i - 1])
               /\ \E x : IsValue(x, Run(a, i)) /\ x[Len(Run(a, i))] = g[e - 1][Len(g[i - 1])]
<1> DEFINE e == DigitsEnd(a, i)
           d == i - 1
           l == Len(g[d])
           s == Run(a, i)
           n == e - i
           x == [k \in 0 .. n |-> g[d + k][l]]
<1>1. Len(a) \in Nat /\ i \in Nat /\ d \in Nat /\ d \in 0 .. Len(a) /\ i = d + 1
  BY VersionBytes
<1>2. e \in i + 1 .. Len(a) + 1 /\ \A k \in i .. e - 1 : IsASCIIDigit(a[k])
  BY <1>1, DigitsEndIs
<1>3. n \in Nat /\ e \in Nat /\ d + n = e - 1 /\ d + n <= Len(a)
  BY <1>1, <1>2
<1>4. /\ s \in Seq(Nat) /\ Len(s) = n
      /\ \A k \in 1 .. n : s[k] = a[d + k]
  <2>1. a \in Seq(Nat) /\ s \in Seq(Nat)
    BY TextsAreNumbers, RunIsNumbers
  <2>2. i \in 1 .. Len(a) + 1 /\ e - 1 \in i - 1 .. Len(a) /\ s = SubSeq(a, i, e - 1)
    BY <1>1, <1>2 DEF Run
  <2>3. Len(s) = IF i <= e - 1 THEN e - 1 - i + 1 ELSE 0
    <3> HIDE DEF e, s, d
    <3> QED BY <2>1, <2>2, SubSeqProperties
  <2>4. \A k \in 1 .. e - 1 - i + 1 : s[k] = a[i + k - 1]
    <3> HIDE DEF e, s, d
    <3> QED BY <2>1, <2>2, SubSeqProperties
  <2>5. e - 1 - i + 1 = n
    BY <1>1, <1>3
  <2>6. ASSUME NEW k \in 1 .. n PROVE i + k - 1 = d + k
    BY <1>1, <1>3
  <2> HIDE DEF e, s, d, n
  <2>7. Len(s) = n
    BY <2>2, <2>3, <2>5, <1>1, <1>2, <1>3
  <2> QED
    BY <2>1, <2>4, <2>5, <2>6, <2>7
<1>5. ASSUME NEW k \in Nat, k + 1 <= n
      PROVE  /\ IsASCIIDigit(a[d + (k + 1)]) /\ g[d + (k + 1)] = ReadByte(g[d + k], a[d + (k + 1)])
             /\ Reading(g[d + k])
  <2> DEFINE p == d + (k + 1)
             q == d + k
  <2>1. p \in 1 .. Len(a) /\ p - 1 = q /\ p \in i .. e - 1 /\ q \in 0 .. Len(a)
    BY <1>1, <1>3, <1>5
  <2> HIDE DEF p, q, d, n, e
  <2>2. IsASCIIDigit(a[p]) /\ g[p] = ReadByte(g[q], a[p]) /\ Reading(g[q])
    BY <1>2, <2>1, ReadKeeps DEF IsRead
  <2> QED
    BY <2>2 DEF p, q
<1>6. Reading(g[d])
  BY <1>1, ReadKeeps
<1>7. \A k \in Nat : k <= n => Len(g[d + k]) = l
  <2> DEFINE P == {k \in Nat : k <= n => Len(g[d + k]) = l}
  <2>1. 0 \in P
    <3>1. d + 0 = d
      BY <1>1
    <3> HIDE DEF d
    <3> QED BY <3>1
  <2>2. ASSUME NEW k \in Nat, k \in P PROVE k + 1 \in P
    <3> SUFFICES ASSUME k + 1 <= n PROVE Len(g[d + (k + 1)]) = l
      OBVIOUS
    <3>1. k <= n
      BY <1>3
    <3> HIDE DEF d, n, l
    <3>2. Len(g[d + k]) = l
      BY <2>2, <3>1
    <3> QED
      BY <1>5, <3>2, ReadDigit
  <2>3. Nat \subseteq P
    <3> HIDE DEF P
    <3> QED BY <2>1, <2>2, SetInduction
  <2> QED
    BY <2>3
<1>8. IsValue(x, s)
  <2>1. x[0] = 0
    <3>1. d + 0 = d /\ 0 \in 0 .. n
      BY <1>1, <1>3
    <3>2. g[d][l] = 0
      OBVIOUS
    <3> HIDE DEF d, n, l
    <3> QED BY <3>1, <3>2
  <2>2. ASSUME NEW k \in 1 .. n PROVE x[k] = 10 * x[k - 1] + (s[k] - Zero) /\ IsASCIIDigit(s[k])
    <3> DEFINE h == k - 1
    <3>1. h \in Nat /\ h + 1 = k /\ h <= n /\ k <= n /\ k \in 0 .. n /\ h \in 0 .. n
      BY <1>3
    <3> HIDE DEF h, d, n, l, s
    <3>2. /\ IsASCIIDigit(a[d + k]) /\ g[d + k] = ReadByte(g[d + h], a[d + k])
          /\ Reading(g[d + h])
      BY <1>5, <3>1
    <3>3. Len(g[d + h]) = l
      BY <1>7, <3>1
    <3>4. g[d + k][l] = 10 * g[d + h][l] + (a[d + k] - Zero)
      BY <3>2, <3>3, ReadDigit
    <3>5. x[k] = g[d + k][l] /\ x[h] = g[d + h][l]
      BY <3>1
    <3>6. s[k] = a[d + k]
      BY <1>4
    <3>7. x[k] = 10 * x[h] + (s[k] - Zero) /\ IsASCIIDigit(s[k])
      <4> HIDE DEF x
      <4> QED BY <3>2, <3>4, <3>5, <3>6
    <3> QED
      BY <3>7 DEF h
  <2> HIDE DEF x, n, s
  <2> QED BY <1>4, <2>1, <2>2 DEF IsValue
<1>9. x[Len(s)] = g[e - 1][l] /\ Len(g[e - 1]) = l
  <2>1. n \in 0 .. n /\ n <= n
    BY <1>3
  <2> HIDE DEF d, n, l, s, e
  <2> QED BY <1>3, <1>4, <1>7, <2>1
<1> HIDE DEF x, s, e, n
<1>10. \E y : IsValue(y, s) /\ y[Len(s)] = g[e - 1][l]
  BY <1>8, <1>9
<1> QED
  BY <1>2, <1>9, <1>10 DEF e, s

\* A part of a version begins at i, where g has read numbers and a new zero.
PartAt(a, g, i) ==
    i \in 1 .. Len(a) /\ IsASCIIDigit(a[i]) /\ g[i - 1][Len(g[i - 1])] = 0

\* What is read at a part, which ends before e, is said by the version v at l,
\* and after the part comes the end of the tag, or a dot and another part.
PartSays(a, g, i, e, l, v) ==
    /\ Reading(v) /\ l \in 1 .. Len(v) /\ e \in i + 1 .. Len(a) + 1
    /\ \E x : IsValue(x, Run(a, i)) /\ x[Len(Run(a, i))] = v[l]
    /\ \A m \in 1 .. l - 1 : v[m] = g[i - 1][m]
    /\ e = Len(a) + 1 => Len(v) = l
    /\ e # Len(a) + 1 =>
          /\ a[e] = 46 /\ e \in 1 .. Len(a) /\ PartAt(a, g, e + 1)
          /\ Len(g[e]) = l + 1 /\ l + 1 <= Len(v)
          /\ \A m \in 1 .. l : g[e][m] = v[m]

LEMMA PartRead ==
    ASSUME NEW a \in Texts, IsVersion(a), NEW g, IsRead(g, a), NEW i, PartAt(a, g, i),
           NEW e, e = DigitsEnd(a, i), NEW l, l = Len(g[i - 1]), NEW v, v = Version(a)
    PROVE  PartSays(a, g, i, e, l, v)
<1>1. Len(a) \in Nat /\ i \in 1 .. Len(a) /\ i \in Nat /\ i - 1 \in 0 .. Len(a)
  BY VersionBytes DEF PartAt
<1>2. e \in i + 1 .. Len(a) + 1 /\ Len(g[e - 1]) = l
  BY ReadRun DEF PartAt
<1>3. PICK x : IsValue(x, Run(a, i)) /\ x[Len(Run(a, i))] = g[e - 1][l]
  BY ReadRun DEF PartAt
<1>4. e \in Nat /\ e - 1 \in 0 .. Len(a) /\ e - 1 \in i - 1 .. Len(a) /\ Len(a) \in 0 .. Len(a)
  BY <1>1, <1>2
<1>5. Reading(g[i - 1]) /\ Reading(g[e - 1]) /\ Reading(g[Len(a)]) /\ v = g[Len(a)]
  BY <1>1, <1>4, ReadKeeps DEF IsRead
<1>6. l \in Nat \ {0} /\ Len(v) \in Nat
  BY <1>5 DEF Reading
<1>7. Len(a) \in i - 1 .. Len(a) /\ Len(a) \in e - 1 .. Len(a)
  BY <1>1, <1>4
<1>8. l <= Len(v) /\ \A m \in 1 .. l - 1 : v[m] = g[i - 1][m]
  BY <1>1, <1>5, <1>7, ReadKeeps
<1>9. CASE e = Len(a) + 1
  <2>1. e - 1 = Len(a)
    BY <1>1, <1>9
  <2>2. g[e - 1] = v
    BY <1>5, <2>1
  <2> QED
    BY <1>2, <1>3, <1>5, <1>6, <1>8, <1>9, <2>2 DEF PartSays
<1>10. CASE e # Len(a) + 1
  <2>1. e \in 1 .. Len(a) /\ e <= Len(a) /\ e \in 0 .. Len(a) /\ Len(a) \in e .. Len(a)
    BY <1>1, <1>2, <1>4, <1>10
  <2>2. ~IsASCIIDigit(a[e])
    BY <1>1, <2>1, DigitsEndIs
  <2>3. a[e] = 46
    BY <2>1, <2>2, VersionBytes
  <2>4. e \in 2 .. Len(a) - 1 /\ IsASCIIDigit(a[e + 1])
    BY <2>1, <2>3, VersionBytes
  <2>5. g[e] = ReadByte(g[e - 1], 46)
    BY <2>1, <2>3 DEF IsRead
  <2>6. Len(g[e]) = l + 1 /\ g[e][l + 1] = 0 /\ \A m \in 1 .. l : g[e][m] = g[e - 1][m]
    <3> DEFINE w == g[e - 1]
    <3>1. Reading(w) /\ Len(w) = l /\ g[e] = ReadByte(w, 46)
      BY <1>2, <1>5, <2>5
    <3> HIDE DEF w
    <3>2. Len(g[e]) = Len(w) + 1 /\ g[e][Len(w) + 1] = 0 /\ \A m \in 1 .. Len(w) : g[e][m] = w[m]
      BY <3>1, ReadDot
    <3>3. Len(g[e]) = l + 1 /\ g[e][l + 1] = 0 /\ \A m \in 1 .. l : g[e][m] = w[m]
      BY <3>1, <3>2
    <3> QED
      BY <3>3 DEF w
  <2>7. Len(g[e]) <= Len(v) /\ \A m \in 1 .. Len(g[e]) - 1 : v[m] = g[e][m]
    BY <1>5, <2>1, ReadKeeps
  <2>8. Len(g[e]) - 1 = l
    BY <1>6, <2>6
  <2>9. l + 1 <= Len(v) /\ \A m \in 1 .. l : v[m] = g[e][m]
    BY <2>6, <2>7, <2>8
  <2>10. l \in 1 .. l
    BY <1>6
  <2>11. v[l] = g[e - 1][l]
    BY <2>6, <2>9, <2>10
  <2>12. PartAt(a, g, e + 1)
    <3>1. e + 1 \in 1 .. Len(a) /\ e + 1 - 1 = e
      BY <1>1, <1>4, <2>4
    <3>2. g[e + 1 - 1] = g[e]
      BY <1>4
    <3> QED
      BY <2>4, <2>6, <3>1, <3>2 DEF PartAt
  <2>13. l \in 1 .. Len(v)
    BY <1>6, <1>8
  <2>14. \E y : IsValue(y, Run(a, i)) /\ y[Len(Run(a, i))] = v[l]
    BY <1>3, <2>11
  <2> QED
    BY <1>2, <1>5, <1>8, <1>10, <2>1, <2>3, <2>6, <2>9, <2>12, <2>13, <2>14 DEF PartSays
<1> QED
  BY <1>9, <1>10

\* At two parts whose versions agree up to them, the loop decides as the
\* versions compare, or goes on to two such parts.
AtParts(a, g, i, b, h, j) ==
    /\ PartAt(a, g, i) /\ PartAt(b, h, j) /\ Len(g[i - 1]) = Len(h[j - 1])
    /\ \A m \in 1 .. Len(g[i - 1]) - 1 : g[i - 1][m] = h[j - 1][m]

GoesOn(a, g, i, b, h, j, f) ==
    \E p \in i + 1 .. Len(a), q \in j + 1 .. Len(b) :
        f[<<i, j>>] = f[<<p, q>>] /\ AtParts(a, g, p, b, h, q)

LEMMA PartsCompare ==
    ASSUME NEW a \in Texts, IsVersion(a), NEW g, IsRead(g, a), NEW i,
           NEW b \in Texts, IsVersion(b), NEW h, IsRead(h, b), NEW j,
           AtParts(a, g, i, b, h, j), NEW f, IsLoop(a, b, f)
    PROVE  f[<<i, j>>] = Compare(Version(a), Version(b)) \/ GoesOn(a, g, i, b, h, j, f)
<1> DEFINE e == DigitsEnd(a, i)
           d == DigitsEnd(b, j)
           l == Len(g[i - 1])
           v == Version(a)
           w == Version(b)
<1>1. PartAt(a, g, i) /\ PartAt(b, h, j) /\ l = Len(h[j - 1]) /\ \A m \in 1 .. l - 1 : g[i - 1][m] = h[j - 1][m]
  BY DEF AtParts
<1>2. i \in 1 .. Len(a) /\ j \in 1 .. Len(b) /\ IsASCIIDigit(a[i]) /\ IsASCIIDigit(b[j])
  BY <1>1 DEF PartAt
<1>3. Len(a) \in Nat /\ Len(b) \in Nat
  BY VersionBytes
<1> HIDE DEF v, w, l, e, d
<1>4. PartSays(a, g, i, e, l, v)
  BY <1>1, PartRead DEF e, l, v
<1>5. PartSays(b, h, j, d, l, w)
  BY <1>1, PartRead DEF d, w
<1>6. TokenCompare(a, i, b, j) = Sign(v[l], w[l])
  <2>1. PICK x : IsValue(x, Run(a, i)) /\ x[Len(Run(a, i))] = v[l]
    BY <1>4 DEF PartSays
  <2>2. PICK y : IsValue(y, Run(b, j)) /\ y[Len(Run(b, j))] = w[l]
    BY <1>5 DEF PartSays
  <2>3. CompareDigits(Run(a, i), Run(b, j)) = Sign(v[l], w[l])
    BY <2>1, <2>2, DigitsCompare
  <2> QED
    BY <1>2, <2>3 DEF TokenCompare
<1>7. /\ TokenCompare(a, i, b, j) # 0 => f[<<i, j>>] = TokenCompare(a, i, b, j)
      /\ TokenCompare(a, i, b, j) = 0 => f[<<i, j>>] = f[<<e, d>>]
  <2>1. TokenEnd(a, i) = e /\ TokenEnd(b, j) = d
    BY <1>2 DEF TokenEnd, e, d
  <2> QED
    BY <1>2, <2>1, LoopRound
<1>8. v \in Seq(Nat) /\ w \in Seq(Nat) /\ Len(v) \in Nat /\ Len(w) \in Nat /\ l \in Nat \ {0}
  BY <1>4, <1>5 DEF Reading, PartSays
<1>9. DOMAIN v = 1 .. Len(v) /\ DOMAIN w = 1 .. Len(w)
  BY <1>8, LenProperties
<1>10. v[l] \in Nat /\ w[l] \in Nat
  BY <1>4, <1>5, <1>8, ElementOfSeq DEF PartSays
<1>11. \A m \in 1 .. l - 1 : v[m] = w[m] /\ m \in 1 .. Len(v) /\ m \in 1 .. Len(w)
  <2>1. ASSUME NEW m \in 1 .. l - 1 PROVE m \in 1 .. Len(v) /\ m \in 1 .. Len(w)
    BY <1>4, <1>5, <1>8, SMTT(30) DEF PartSays
  <2>2. ASSUME NEW m \in 1 .. l - 1 PROVE v[m] = w[m]
    <3>1. v[m] = g[i - 1][m]
      BY <1>4 DEF PartSays
    <3>2. w[m] = h[j - 1][m]
      BY <1>5 DEF PartSays
    <3> QED
      BY <1>1, <3>1, <3>2
  <2> QED
    BY <2>1, <2>2
<1>12. CASE v[l] # w[l]
  <2>1. At(v, l) = v[l] /\ At(w, l) = w[l] /\ \A m \in 1 .. l - 1 : At(v, m) = At(w, m)
    BY <1>4, <1>5, <1>9, <1>11 DEF At, PartSays
  <2>2. Compare(v, w) = Sign(v[l], w[l])
    <3>1. DifferAt(v, w, l)
      BY <1>12, <2>1 DEF DifferAt
    <3> QED
      BY <1>8, <2>1, <3>1, CompareAt
  <2>3. Sign(v[l], w[l]) # 0
    BY <1>10, <1>12 DEF Sign
  <2> QED
    BY <1>6, <1>7, <2>2, <2>3 DEF v, w
<1>13. CASE v[l] = w[l]
  <2>1. f[<<i, j>>] = f[<<e, d>>]
    BY <1>6, <1>7, <1>10, <1>13 DEF Sign
  <2>2. \A m \in 1 .. l : v[m] = w[m] /\ m \in 1 .. Len(v) /\ m \in 1 .. Len(w)
    <3> SUFFICES ASSUME NEW m \in 1 .. l PROVE v[m] = w[m] /\ m \in 1 .. Len(v) /\ m \in 1 .. Len(w)
      OBVIOUS
    <3>1. CASE m = l
      BY <1>4, <1>5, <1>13, <3>1 DEF PartSays
    <3>2. CASE m # l
      <4>1. m \in 1 .. l - 1
        BY <1>8, <3>2
      <4> QED
        BY <1>11, <4>1
    <3> QED
      BY <3>1, <3>2
  <2>3. \A m \in 1 .. l : At(v, m) = At(w, m)
    BY <1>9, <2>2 DEF At
  <2>4. e \in 1 .. Len(a) + 1 /\ d \in 1 .. Len(b) + 1
    BY <1>2, <1>3, <1>4, <1>5 DEF PartSays
  <2>5. CASE e = Len(a) + 1 /\ d = Len(b) + 1
    <3>1. f[<<e, d>>] = 0
      BY <2>4, <2>5, LoopEnd
    <3>2. v = w
      <4>1. Len(v) = Len(w) /\ Len(v) = l
        BY <1>4, <1>5, <2>5 DEF PartSays
      <4> QED
        BY <1>8, <2>2, <4>1, SeqEqual
    <3>3. Compare(v, w) = 0
      BY <1>8, <3>2, CompareSame
    <3> QED
      BY <2>1, <3>1, <3>3 DEF v, w
  <2>6. CASE e = Len(a) + 1 /\ d # Len(b) + 1
    <3>1. f[<<e, d>>] = -1
      BY <2>4, <2>6, LoopEnd
    <3>2. l + 1 \in 1 .. Len(w) /\ l + 1 \notin 1 .. Len(v)
      BY <1>4, <1>5, <1>8, <2>6 DEF PartSays
    <3>3. At(v, l + 1) = -1 /\ At(w, l + 1) = w[l + 1] /\ w[l + 1] \in Nat
      BY <1>8, <1>9, <3>2, ElementOfSeq DEF At
    <3>4. Compare(v, w) = -1
      <4>1. DifferAt(v, w, l + 1)
        <5> DEFINE p == l + 1
        <5>1. \A m \in 1 .. p - 1 : m \in 1 .. l
          BY <1>8
        <5>2. At(v, p) # At(w, p)
          BY <3>3
        <5> HIDE DEF p
        <5>3. DifferAt(v, w, p)
          BY <2>3, <5>1, <5>2 DEF DifferAt
        <5> QED
          BY <5>3 DEF p
      <4>2. Compare(v, w) = Sign(At(v, l + 1), At(w, l + 1))
        BY <1>8, <4>1, CompareAt
      <4> QED
        BY <3>3, <4>2 DEF Sign
    <3> QED
      BY <2>1, <3>1, <3>4 DEF v, w
  <2>7. CASE e # Len(a) + 1 /\ d = Len(b) + 1
    <3>1. f[<<e, d>>] = 1
      BY <2>4, <2>7, LoopEnd
    <3>2. l + 1 \in 1 .. Len(v) /\ l + 1 \notin 1 .. Len(w)
      BY <1>4, <1>5, <1>8, <2>7 DEF PartSays
    <3>3. At(w, l + 1) = -1 /\ At(v, l + 1) = v[l + 1] /\ v[l + 1] \in Nat
      BY <1>8, <1>9, <3>2, ElementOfSeq DEF At
    <3>4. Compare(v, w) = 1
      <4>1. DifferAt(v, w, l + 1)
        <5> DEFINE p == l + 1
        <5>1. \A m \in 1 .. p - 1 : m \in 1 .. l
          BY <1>8
        <5>2. At(v, p) # At(w, p)
          BY <3>3
        <5> HIDE DEF p
        <5>3. DifferAt(v, w, p)
          BY <2>3, <5>1, <5>2 DEF DifferAt
        <5> QED
          BY <5>3 DEF p
      <4>2. Compare(v, w) = Sign(At(v, l + 1), At(w, l + 1))
        BY <1>8, <4>1, CompareAt
      <4> QED
        BY <3>3, <4>2 DEF Sign
    <3> QED
      BY <2>1, <3>1, <3>4 DEF v, w
  <2>8. CASE e # Len(a) + 1 /\ d # Len(b) + 1
    <3> DEFINE p == e + 1
               q == d + 1
    <3>1. a[e] = 46 /\ e \in 1 .. Len(a) /\ PartAt(a, g, p) /\ Len(g[e]) = l + 1
      BY <1>4, <2>8 DEF PartSays
    <3>2. b[d] = 46 /\ d \in 1 .. Len(b) /\ PartAt(b, h, q) /\ Len(h[d]) = l + 1
      BY <1>5, <2>8 DEF PartSays
    <3>3. \A m \in 1 .. l : g[e][m] = v[m] /\ h[d][m] = w[m]
      BY <1>4, <1>5, <2>8 DEF PartSays
    <3>4. \A m \in 1 .. l : g[e][m] = h[d][m]
      BY <2>2, <3>3
    <3>5. p \in 1 .. Len(a) /\ q \in 1 .. Len(b)
      BY <3>1, <3>2 DEF PartAt
    <3>6. e \in i + 1 .. Len(a) + 1 /\ d \in j + 1 .. Len(b) + 1
      BY <1>4, <1>5 DEF PartSays
    <3>7. p \in i + 1 .. Len(a) /\ q \in j + 1 .. Len(b) /\ p - 1 = e /\ q - 1 = d
      BY <1>2, <1>3, <3>5, <3>6
    <3>8. TokenCompare(a, e, b, d) = 0 /\ TokenEnd(a, e) = p /\ TokenEnd(b, d) = q
      BY <3>1, <3>2 DEF TokenCompare, TokenEnd, IsASCIIDigit, Sign
    <3> HIDE DEF p, q
    <3>9. f[<<e, d>>] = f[<<p, q>>]
      BY <3>1, <3>2, <3>8, LoopRound
    <3>10. AtParts(a, g, p, b, h, q)
      <4>1. \A m \in 1 .. Len(g[e]) - 1 : m \in 1 .. l
        BY <1>8, <3>1
      <4> QED
        BY <3>1, <3>2, <3>4, <3>7, <4>1 DEF AtParts
    <3> QED
      BY <2>1, <3>7, <3>9, <3>10 DEF GoesOn
  <2> QED
    BY <2>5, <2>6, <2>7, <2>8
<1> QED
  BY <1>12, <1>13

\* Natural comparison orders versions part by part, by the values of their
\* parts.
LEMMA VersionCompare ==
    ASSUME NEW a \in Texts, NEW b \in Texts, IsVersion(a), IsVersion(b)
    PROVE  NaturalCompare(a, b) = Compare(Version(a), Version(b))
<1>1. PICK f : IsLoop(a, b, f) /\ NaturalCompare(a, b) = f[<<1, 1>>]
  BY LoopDefined
<1>2. PICK g : IsRead(g, a)
  BY ReadSteps
<1>3. PICK h : IsRead(h, b)
  BY ReadSteps
<1> DEFINE c == Compare(Version(a), Version(b))
           P == {i \in 1 .. Len(a) : \A j \in 1 .. Len(b) : AtParts(a, g, i, b, h, j) => f[<<i, j>>] = c}
<1>4. Len(a) \in Nat /\ Len(b) \in Nat /\ 1 \in 1 .. Len(a) /\ 1 \in 1 .. Len(b)
  BY VersionBytes
<1>5. ASSUME NEW i \in 1 .. Len(a), \A k \in i + 1 .. Len(a) : k \in P PROVE i \in P
  <2> SUFFICES ASSUME NEW j \in 1 .. Len(b), AtParts(a, g, i, b, h, j) PROVE f[<<i, j>>] = c
    OBVIOUS
  <2>1. f[<<i, j>>] = c \/ GoesOn(a, g, i, b, h, j, f)
    BY <1>1, <1>2, <1>3, PartsCompare
  <2> HIDE DEF c
  <2>2. ASSUME NEW p \in i + 1 .. Len(a), NEW q \in j + 1 .. Len(b), AtParts(a, g, p, b, h, q)
        PROVE  f[<<p, q>>] = c
    <3>1. p \in P /\ q \in 1 .. Len(b)
      BY <1>4, <1>5
    <3> QED
      BY <2>2, <3>1
  <2> QED
    BY <2>1, <2>2 DEF GoesOn
<1>6. 1 .. Len(a) \subseteq P
  <2> HIDE DEF P
  <2> QED BY <1>4, <1>5, Backwards
<1>7. AtParts(a, g, 1, b, h, 1)
  <2>1. IsASCIIDigit(a[1])
    BY <1>4, VersionBytes
  <2>2. IsASCIIDigit(b[1])
    BY <1>4, VersionBytes
  <2>3. g[1 - 1] = <<0>> /\ h[1 - 1] = <<0>>
    BY <1>2, <1>3 DEF IsRead
  <2> QED
    BY <1>4, <2>1, <2>2, <2>3 DEF AtParts, PartAt
<1> QED
  BY <1>1, <1>4, <1>6, <1>7

LEMMA LatestIsNoVersion == ~IsVersion(Latest)
<1> SUFFICES ASSUME IsVersion(Latest) PROVE FALSE
  OBVIOUS
<1>1. 1 \in 1 .. Len(Latest)
  BY LatestIsText, VersionBytes
<1>2. IsASCIIDigit(Latest[1]) \/ Latest[1] = 46
  BY <1>1, LatestIsText, VersionBytes
<1>3. Latest[1] \in 97 .. 122
  BY <1>1, TagsAssumption, ElementOfSeq
<1> HIDE DEF IsVersion
<1> QED
  BY <1>2, <1>3 DEF IsASCIIDigit

-----------------------------------------------------------------------------
(* Pages of tags.                                                          *)

\* Two tags in the order of sortTags, as the pages promise it.
LEMMA PairNewestFirst ==
    ASSUME NEW a \in Texts, NEW b \in Texts, TagCompare(a, b) <= 0
    PROVE  /\ b = Latest => a = Latest
           /\ IsVersion(a) /\ IsVersion(b) => Compare(Version(a), Version(b)) >= 0
           /\ Wordy(a) /\ Wordy(b) /\ a # Latest => Compare(a, b) >= 0
<1>1. b = Latest => a = Latest
  BY DEF TagCompare
<1>2. /\ NaturalCompare(a, b) \in Signs
      /\ Compare(a, b) \in Signs /\ Compare(b, a) = -Compare(a, b)
  BY NaturalSigns, TextsAreNumbers, CompareSigns
<1>3. CASE a = b
  <2>1. Compare(a, b) = 0
    BY <1>3, TextsAreNumbers, CompareSigns
  <2>2. IsVersion(a) => Compare(Version(a), Version(b)) = NaturalCompare(a, b) /\ NaturalCompare(b, a) = -NaturalCompare(a, b)
    BY <1>3, VersionCompare, NaturalSigns
  <2> QED
    BY <1>1, <1>2, <1>3, <2>1, <2>2 DEF Signs
<1>4. CASE a # b /\ (a = Latest \/ b = Latest)
  BY <1>1, <1>4, LatestIsNoVersion
<1>5. CASE a # b /\ a # Latest /\ b # Latest
  <2>1. NaturalCompare(a, b) >= 0 /\ (NaturalCompare(a, b) = 0 => Compare(b, a) <= 0)
    BY <1>2, <1>5 DEF TagCompare, Signs
  <2>2. IsVersion(a) /\ IsVersion(b) => Compare(Version(a), Version(b)) >= 0
    BY <2>1, VersionCompare
  <2>3. Wordy(a) /\ Wordy(b) => Compare(a, b) >= 0
    BY <2>1, WordyCompare
  <2> QED
    BY <1>5, <2>2, <2>3
<1> QED
  BY <1>3, <1>4, <1>5

\* A page shows the tags that were listed, sorted.
TagInv == /\ given # <<>> => TagList(given)
          /\ listed # <<>> => given # <<>> /\ listed = SortTags(given)

\* A page shows what the registry listed last, sorted (client.go:1087-1101).
THEOREM PageIsSorted == TagSpec => []TagInv
<1>1. TagInit => TagInv
  BY DEF TagInit, TagInv
<1>2. TagInv /\ [TagNext]_tagVars => TagInv'
  <2> SUFFICES ASSUME TagInv, [TagNext]_tagVars PROVE TagInv'
    OBVIOUS
  <2>1. CASE ListTags
    <3>1. PICK n \in 1 .. MaxListed : given' \in [1 .. n -> TagNames]
      BY <2>1 DEF ListTags
    <3>2. n \in Nat /\ TagNames \subseteq Texts
      BY <3>1, TagsAssumption DEF Texts, Bytes
    <3>3. TagList(given')
      BY <3>1, <3>2 DEF TagList
    <3>4. listed' = <<>>
      BY <2>1 DEF ListTags, TagInv
    <3> QED
      BY <3>3, <3>4 DEF TagInv
  <2>2. CASE ShowTags
    BY <2>2 DEF ShowTags, TagInv
  <2>3. CASE CloseTags
    BY <2>3 DEF CloseTags, TagInv
  <2>4. CASE UNCHANGED tagVars
    BY <2>4 DEF TagInv, tagVars
  <2> QED
    BY <2>1, <2>2, <2>3, <2>4 DEF TagNext
<1> QED
  BY <1>1, <1>2, PTL DEF TagSpec

\* The order of a page does not depend on that of the registry's list, and has
\* "latest" first, newer versions before older ones, and words in reverse
\* lexical order (client.go:1087-1150).
THEOREM TagsNewestFirst == TagSpec => []NewestFirst
<1>1. TagInv => NewestFirst
  <2> SUFFICES ASSUME TagInv, listed # <<>> PROVE NewestFirst
    BY DEF NewestFirst
  <2>1. TagList(given) /\ listed = SortTags(given)
    BY DEF TagInv
  <2>2. \A i \in 1 .. Len(given) - 1 :
            SortTags([given EXCEPT ![i] = given[i + 1], ![i + 1] = given[i]]) = listed
    BY <2>1, SortForgetsOrder
  <2>3. TagList(listed) /\ InOrder(listed)
    BY <2>1, SortedInOrder
  <2>4. ASSUME NEW i \in DOMAIN listed, NEW j \in DOMAIN listed, i < j
        PROVE  /\ listed[j] = Latest => listed[i] = Latest
               /\ IsVersion(listed[i]) /\ IsVersion(listed[j])
                  => Compare(Version(listed[i]), Version(listed[j])) >= 0
               /\ Wordy(listed[i]) /\ Wordy(listed[j]) /\ listed[i] # Latest
                  => Compare(listed[i], listed[j]) >= 0
    <3>1. listed[i] \in Texts /\ listed[j] \in Texts /\ TagCompare(listed[i], listed[j]) <= 0
      BY <2>3, <2>4, ListParts DEF InOrder
    <3> QED
      BY <3>1, PairNewestFirst
  <2> QED
    BY <2>2, <2>4 DEF NewestFirst
<1> QED
  BY <1>1, PageIsSorted, PTL

\* A page has exactly the tags the registry listed, each as often: the sort
\* loses none and repeats none (client.go:1087-1101).
TagsKept == listed # <<>> => \E p : Moves(p, given, listed)

THEOREM PageKeepsTags == TagSpec => []TagsKept
<1>1. TagInv => TagsKept
  <2> SUFFICES ASSUME TagInv, listed # <<>> PROVE TagsKept
    BY DEF TagsKept
  <2>1. TagList(given) /\ listed = SortTags(given)
    BY DEF TagInv
  <2> QED
    BY <2>1, SortKeepsTags DEF TagsKept
<1> QED
  BY <1>1, PageIsSorted, PTL
=============================================================================
