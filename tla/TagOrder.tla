------------------------------ MODULE TagOrder ------------------------------
(***************************************************************************)
(* The order a list of tags is shown in (sortTags and naturalCompare).     *)
(* Tags are sequences of bytes here, for the order is about bytes.         *)
(***************************************************************************)
EXTENDS Integers, SequencesExt

CONSTANTS
    TagNames,     \* tags a registry may list
    MaxListed,    \* how many it lists at most: 20 or fewer
    Latest        \* the tag "latest"

ASSUME TagsAssumption == /\ MaxListed \in 0 .. 20
                         /\ TagNames \subseteq Seq(0 .. 255)
                         /\ Latest \in Seq(97 .. 122)   \* lower-case letters

VARIABLES
    given,    \* the tags of a page as the registry lists them
    listed    \* the page after sortTags, or nothing yet

tagVars == <<given, listed>>

-----------------------------------------------------------------------------
IsASCIIDigit(b) == b \in 48 .. 57
Zero == 48

\* TrimLeft(s, "0").
Trimmed(s) == LET others == {k \in DOMAIN s : s[k] # Zero}
              IN  IF others = {} THEN <<>> ELSE SubSeq(s, Min(others), Len(s))

\* Where the digits of s that begin at i end.
DigitsEnd(s, i) == Min({k \in i .. Len(s) + 1 : k > Len(s) \/ ~IsASCIIDigit(s[k])})

Sign(m, n) == IF m < n THEN -1 ELSE IF m > n THEN 1 ELSE 0

\* strings.Compare: the first byte that differs, else the length.
Compare(s, t) ==
    LET differ == {i \in DOMAIN s \cap DOMAIN t : s[i] # t[i]}
    IN  IF differ = {} THEN Sign(Len(s), Len(t)) ELSE Sign(s[Min(differ)], t[Min(differ)])

\* Mutant: digits are compared as text.
CompareText(m, n) == Compare(Trimmed(m), Trimmed(n))

\* Two runs of digits, as numbers of any length.
CompareDigits(m, n) ==
    IF Len(Trimmed(m)) # Len(Trimmed(n)) THEN Sign(Len(Trimmed(m)), Len(Trimmed(n)))
    ELSE Compare(Trimmed(m), Trimmed(n))

\* The loop of naturalCompare, from positions i of a and j of b on.
NaturalCompare(a, b) ==
    LET from[at \in (1 .. Len(a) + 1) \X (1 .. Len(b) + 1)] ==
            LET i == at[1]
                j == at[2]
                c == CompareDigits(SubSeq(a, i, DigitsEnd(a, i) - 1), SubSeq(b, j, DigitsEnd(b, j) - 1))
            IN  IF i > Len(a) \/ j > Len(b) THEN Sign(Len(a) - i, Len(b) - j)
                ELSE IF IsASCIIDigit(a[i]) /\ IsASCIIDigit(b[j])
                THEN IF c # 0 THEN c ELSE from[<<DigitsEnd(a, i), DigitsEnd(b, j)>>]
                ELSE IF a[i] # b[j] THEN Sign(a[i], b[j]) ELSE from[<<i + 1, j + 1>>]
    IN  from[<<1, 1>>]

\* The comparator of sortTags.
TagCompare(a, b) ==
    CASE a = b -> 0
      [] a # b /\ a = Latest -> -1
      [] a # b /\ b = Latest -> 1
      [] OTHER -> LET c == NaturalCompare(a, b) IN IF c # 0 THEN -c ELSE Compare(b, a)

\* slices.SortStableFunc inserts one after the other, from the right, as long
\* as there are no more than twenty.
Inserted(sorted, t) ==
    LET stay == Max({0} \cup {k \in DOMAIN sorted : TagCompare(t, sorted[k]) >= 0})
    IN  InsertAt(sorted, stay + 1, t)

SortTags(tags) == FoldLeft(Inserted, <<>>, tags)

-----------------------------------------------------------------------------
TagInit == given = <<>> /\ listed = <<>>

\* The registry lists tags, in whatever order, and more than once if it likes.
ListTags == /\ given = <<>>
            /\ \E n \in 1 .. MaxListed : given' \in [1 .. n -> TagNames]
            /\ UNCHANGED listed

ShowTags == /\ given # <<>> /\ listed = <<>>
            /\ listed' = SortTags(given)
            /\ UNCHANGED given

CloseTags == /\ listed # <<>>
             /\ given' = <<>> /\ listed' = <<>>

TagNext == ListTags \/ ShowTags \/ CloseTags

TagSpec == TagInit /\ [][TagNext]_tagVars

-----------------------------------------------------------------------------
\* The version that a tag of numbers and single dots between them says: its
\* numbers, by their decimal value.  Other tags say none.
IsVersion(tag) == /\ tag # <<>> /\ \A i \in DOMAIN tag : IsASCIIDigit(tag[i]) \/ tag[i] = 46
                  /\ \A i \in DOMAIN tag : tag[i] = 46 =>
                        /\ i \in 2 .. Len(tag) - 1
                        /\ IsASCIIDigit(tag[i - 1]) /\ IsASCIIDigit(tag[i + 1])
ReadByte(v, b) == IF b = 46 THEN Append(v, 0) ELSE [v EXCEPT ![Len(v)] = 10 * @ + (b - Zero)]
Version(tag) == FoldLeft(ReadByte, <<0>>, tag)

Wordy(tag) == \A i \in DOMAIN tag : ~IsASCIIDigit(tag[i])

\* The list is in one order whatever order the registry gave it in, for it is
\* the same when two neighbours are swapped, "latest" leads it, of two versions
\* the newer comes first, and tags without digits are in reverse lexical order
\* (client.go:1087-1150).
NewestFirst ==
    listed # <<>> =>
        /\ \A i \in 1 .. Len(given) - 1 :
               SortTags([given EXCEPT ![i] = given[i + 1], ![i + 1] = given[i]]) = listed
        /\ \A i, j \in DOMAIN listed : i < j =>
               /\ listed[j] = Latest => listed[i] = Latest
               /\ IsVersion(listed[i]) /\ IsVersion(listed[j])
                  => Compare(Version(listed[i]), Version(listed[j])) >= 0
               /\ Wordy(listed[i]) /\ Wordy(listed[j]) /\ listed[i] # Latest
                  => Compare(listed[i], listed[j]) >= 0
=============================================================================
