----------------------------- MODULE PagesProofs -----------------------------
(***************************************************************************)
(* The lists of tags and repositories that a user pages through are        *)
(* complete and without repetitions, and counters are exact, for any       *)
(* number of names, any page sizes and any display order.  The row and the *)
(* page of an image say the same of it, whatever documents there are.      *)
(*                                                                         *)
(* Everything about lists rests on one fact about finite sets of numbered  *)
(* things: their ranks are 1, 2, ... up to their number (RankSurjects).    *)
(* Everything about sizes rests on another: what is folded over a finite   *)
(* set is well defined, and a fact that each step keeps holds of the fold  *)
(* (FoldDefined, PickInduction).                                           *)
(***************************************************************************)
EXTENDS Listings, ImageModel, FiniteSetTheorems, SequenceTheorems,
        WellFoundedInduction, TLAPS

-----------------------------------------------------------------------------
(* The inductive invariant.                                                *)

\* A page that was fetched with cursor c has every steady tag up to its own
\* cursor, or to the end ...
PageCovers(p, c) == \A t \in p.steady : c < t /\ (p.next = 0 \/ t <= p.next) => t \in p.tags

\* ... begins after c and ends with its cursor, unless the registry ignores both ...
PageAdvances(p, c) == /\ p.next # 0 => c < p.next
                      /\ \A t \in p.tags : c < t /\ (p.next # 0 => t <= p.next)

\* ... and a first page that is the last one has been counted.
PageCounts(p, c) == c = 0 /\ p.next = 0 => Cardinality(p.tags) = p.total

PageStands(p, c) == /\ PageCovers(p, c)
                    /\ style # "whole" => PageAdvances(p, c)
                    /\ PageCounts(p, c)

PagesStand == \A k \in PageKeys : pages[k] # None => PageStands(pages[k], k[2])

\* The list of tags is complete, and without repetitions, up to the button.
RowsStand == view.list = "tags" =>
    /\ \A t \in view.steady :
           view.start < t /\ (view.more = 0 \/ t <= view.more) => t \in ToSet(view.rows)
    /\ style # "whole" =>
           /\ IsInjective(view.rows)
           /\ view.more # 0 => \A t \in ToSet(view.rows) : t <= view.more

\* The catalog is the list up to the button, whose offset points into it.
CatalogStands == view.list = "catalog" /\ ~view.moved =>
    /\ view.more # 0 => view.more < Cardinality(view.matched)
    /\ view.rows = LET all == Sorted(view.matched, ByName)
                   IN  SubSeq(all, 1, IF view.more = 0 THEN Len(all) ELSE view.more)

Inv == TypeOK /\ PagesStand /\ RowsStand /\ CatalogStands

-----------------------------------------------------------------------------
(* Ranks.                                                                  *)

\* How many things of S have a key up to that of t.
Rank(S, key, t) == Cardinality({u \in S : key[u] <= key[t]})

\* Different things of S have different numbers for keys.
Keyed(S, key) == /\ \A t \in S : key[t] \in Int
                 /\ \A t, u \in S : key[t] = key[u] => t = u

\* A rank is a number from 1 to the number of things.
LEMMA RankBounds ==
    ASSUME NEW S, IsFiniteSet(S), NEW key, Keyed(S, key), NEW t \in S
    PROVE  Rank(S, key, t) \in 1 .. Cardinality(S)
<1> DEFINE upTo == {u \in S : key[u] <= key[t]}
<1>1. IsFiniteSet(upTo) /\ Cardinality(upTo) <= Cardinality(S)
  BY FS_Subset
<1>2. Cardinality(upTo) \in Nat /\ Cardinality(S) \in Nat
  BY <1>1, FS_CardinalityType
<1>3. t \in upTo
  BY DEF Keyed
<1>4. Cardinality(upTo) # 0
  BY <1>1, <1>3, FS_EmptySet
<1> HIDE DEF upTo
<1>5. Cardinality(upTo) \in 1 .. Cardinality(S)
  BY <1>1, <1>2, <1>4
<1> QED
  BY <1>5 DEF Rank, upTo

\* Ranks are in the order of the keys.
LEMMA RankAscends ==
    ASSUME NEW S, IsFiniteSet(S), NEW key, Keyed(S, key), NEW t \in S, NEW u \in S
    PROVE  key[t] < key[u] <=> Rank(S, key, t) < Rank(S, key, u)
<1>1. ASSUME NEW a \in S, NEW b \in S, key[a] <= key[b]
      PROVE  Rank(S, key, a) <= Rank(S, key, b)
  <2> DEFINE A == {x \in S : key[x] <= key[a]}
             B == {x \in S : key[x] <= key[b]}
  <2>1. IsFiniteSet(B)
    BY FS_Subset
  <2>2. A \subseteq B
    BY <1>1 DEF Keyed
  <2> QED
    BY <2>1, <2>2, FS_Subset DEF Rank
<1>2. ASSUME NEW a \in S, NEW b \in S, key[a] < key[b]
      PROVE  Rank(S, key, a) < Rank(S, key, b)
  <2> DEFINE A == {x \in S : key[x] <= key[a]}
             B == {x \in S : key[x] <= key[b]}
  <2>1. IsFiniteSet(B)
    BY FS_Subset
  <2>2. A \subseteq B
    BY <1>2 DEF Keyed
  <2>3. b \in B /\ b \notin A
    BY <1>2 DEF Keyed
  <2>4. IsFiniteSet(A) /\ Cardinality(A) <= Cardinality(B) /\ Cardinality(A) # Cardinality(B)
    <3> HIDE DEF A, B
    <3> QED BY <2>1, <2>2, <2>3, FS_Subset
  <2>5. Cardinality(A) \in Nat /\ Cardinality(B) \in Nat
    BY <2>1, <2>4, FS_CardinalityType
  <2>6. Cardinality(A) < Cardinality(B)
    BY <2>4, <2>5
  <2> QED
    BY <2>6 DEF Rank
<1>3. key[t] \in Int /\ key[u] \in Int /\ Rank(S, key, t) \in Int /\ Rank(S, key, u) \in Int
  BY RankBounds DEF Keyed
<1>4. CASE key[t] < key[u]
  BY <1>2, <1>4
<1>5. CASE ~(key[t] < key[u])
  <2>1. Rank(S, key, u) <= Rank(S, key, t)
    BY <1>1, <1>3, <1>5
  <2> QED
    BY <1>3, <1>5, <2>1
<1> QED
  BY <1>4, <1>5

\* Every number from 1 to the number of things is a rank.
LEMMA RankSurjects ==
    ASSUME NEW S, IsFiniteSet(S), NEW key, Keyed(S, key), NEW n \in 1 .. Cardinality(S)
    PROVE  \E t \in S : Rank(S, key, t) = n
<1> DEFINE rank == [t \in S |-> Rank(S, key, t)]
           places == 1 .. Cardinality(S)
<1>1. rank \in [S -> places]
  BY RankBounds
<1>2. ASSUME NEW t \in S, NEW u \in S, rank[t] = rank[u] PROVE t = u
  <2>1. Rank(S, key, t) = Rank(S, key, u) /\ Rank(S, key, t) \in Int
    BY <1>2, RankBounds
  <2>2. ~(key[t] < key[u]) /\ ~(key[u] < key[t])
    BY <2>1, RankAscends
  <2> QED
    BY <2>2 DEF Keyed
<1>3. rank \in Injection(S, places)
  BY <1>1, <1>2 DEF Injection, IsInjective
<1>4. Cardinality(S) \in Nat
  BY FS_CardinalityType
<1>5. IsFiniteSet(places) /\ Cardinality(places) = Cardinality(S)
  BY <1>4, FS_Interval
<1>6. rank \in Surjection(S, places)
  <2> HIDE DEF rank, places
  <2> QED BY <1>3, <1>5, FS_Injection
<1>7. PICK t \in S : rank[t] = n
  BY <1>6 DEF Surjection
<1> QED
  BY <1>7

-----------------------------------------------------------------------------
(* The names that page make.                                               *)

\* A set in order is a sequence of its members, each once, with ascending keys.
LEMMA SortedIsSorted ==
    ASSUME NEW S, IsFiniteSet(S), NEW key, Keyed(S, key)
    PROVE  /\ Sorted(S, key) \in [1 .. Cardinality(S) -> S]
           /\ \A i, j \in 1 .. Cardinality(S) :
                  i < j => key[Sorted(S, key)[i]] < key[Sorted(S, key)[j]]
<1> DEFINE s == [n \in 1 .. Cardinality(S) |-> CHOOSE t \in S : Rank(S, key, t) = n]
<1>1. \A n \in 1 .. Cardinality(S) : s[n] \in S /\ Rank(S, key, s[n]) = n
  BY RankSurjects
<1>2. s \in [1 .. Cardinality(S) -> S]
  BY <1>1
<1> HIDE DEF s
<1>3. \A i, j \in 1 .. Cardinality(S) : i < j => key[s[i]] < key[s[j]]
  BY <1>1, RankAscends
<1> QED
  BY <1>2, <1>3 DEF Sorted

\* A sorted list of a set has its members, each once.
LEMMA SortedLists ==
    ASSUME NEW S, IsFiniteSet(S), NEW key, Keyed(S, key)
    PROVE  /\ Sorted(S, key) \in Seq(S)
           /\ Len(Sorted(S, key)) = Cardinality(S)
           /\ ToSet(Sorted(S, key)) = S
           /\ IsInjective(Sorted(S, key))
<1> DEFINE s == Sorted(S, key)
           places == 1 .. Cardinality(S)
<1>1. Cardinality(S) \in Nat
  BY FS_CardinalityType
<1>2. s \in [places -> S]
  BY SortedIsSorted
<1>3. \A i, j \in places : i < j => key[s[i]] < key[s[j]]
  BY SortedIsSorted
<1> HIDE DEF s
<1>4. s \in Seq(S) /\ Len(s) = Cardinality(S)
  BY <1>1, <1>2
<1>5. ASSUME NEW i \in places, NEW j \in places, s[i] = s[j] PROVE i = j
  <2>1. key[s[i]] \in Int
    BY <1>2 DEF Keyed
  <2>2. ~(i < j) /\ ~(j < i)
    BY <1>3, <1>5, <2>1
  <2> QED
    BY <1>1, <2>2
<1>6. IsInjective(s) /\ s \in Injection(places, S)
  BY <1>2, <1>5 DEF Injection, IsInjective
<1>7. Cardinality(places) = Cardinality(S)
  BY <1>1, FS_Interval
<1>8. s \in Surjection(places, S)
  <2> HIDE DEF places
  <2> QED BY <1>6, <1>7, FS_Injection
<1>9. ToSet(s) = S
  BY <1>2, <1>8 DEF ToSet, Surjection
<1> QED
  BY <1>4, <1>6, <1>9 DEF s

-----------------------------------------------------------------------------
(* Names, maxima and pages.                                                *)

\* Tags and repositories, in either order, and numbers by themselves.
LEMMA NamesKeyed ==
    /\ \A S \in SUBSET Tags : IsFiniteSet(S) /\ Cardinality(S) \in 0 .. LastTag /\ Keyed(S, Shown)
    /\ \A S \in SUBSET Repos : IsFiniteSet(S) /\ Cardinality(S) \in 0 .. LastRepo /\ Keyed(S, ByName)
<1>1. LastTag \in Nat /\ LastRepo \in Nat
  BY SizesAssumption
<1>2. /\ IsFiniteSet(Tags) /\ Cardinality(Tags) = LastTag
      /\ IsFiniteSet(Repos) /\ Cardinality(Repos) = LastRepo
  BY <1>1, FS_Interval DEF Tags, Repos
<1>3. ASSUME NEW S \in SUBSET Tags
      PROVE  IsFiniteSet(S) /\ Cardinality(S) \in 0 .. LastTag /\ Keyed(S, Shown)
  <2>1. IsFiniteSet(S) /\ Cardinality(S) <= LastTag
    BY <1>2, FS_Subset
  <2>2. Cardinality(S) \in 0 .. LastTag
    BY <1>1, <2>1, FS_CardinalityType
  <2>3. Keyed(S, Shown)
    BY NamesAssumption DEF Keyed, IsInjective
  <2> QED
    BY <2>1, <2>2, <2>3
<1>4. ASSUME NEW S \in SUBSET Repos
      PROVE  IsFiniteSet(S) /\ Cardinality(S) \in 0 .. LastRepo /\ Keyed(S, ByName)
  <2>1. IsFiniteSet(S) /\ Cardinality(S) <= LastRepo
    BY <1>2, FS_Subset
  <2>2. Cardinality(S) \in 0 .. LastRepo
    BY <1>1, <2>1, FS_CardinalityType
  <2>3. Keyed(S, ByName)
    BY DEF Keyed, ByName, Repos
  <2> QED
    BY <2>1, <2>2, <2>3
<1> QED
  BY <1>3, <1>4

\* The identity, as a key.
Itself(S) == [t \in S |-> t]

\* Numbers that stand for themselves are ranked by their size.
LEMMA NumbersKeyed ==
    ASSUME NEW S \in SUBSET Int
    PROVE  Keyed(S, Itself(S)) /\ \A t \in S : Rank(S, Itself(S), t) = Cardinality({u \in S : u <= t})
<1>1. \A t \in S : {u \in S : Itself(S)[u] <= Itself(S)[t]} = {u \in S : u <= t}
  BY DEF Itself
<1> QED
  BY <1>1 DEF Keyed, Rank, Itself

\* A finite set of numbers has a greatest one.
LEMMA MaxIsGreatest ==
    ASSUME NEW S \in SUBSET Int, IsFiniteSet(S), S # {}
    PROVE  Max(S) \in S /\ \A t \in S : t <= Max(S)
<1> DEFINE n == Cardinality(S)
<1>1. n \in Nat /\ n # 0
  BY FS_CardinalityType, FS_EmptySet
<1>2. PICK m \in S : Rank(S, Itself(S), m) = n
  <2>1. Keyed(S, Itself(S))
    BY NumbersKeyed
  <2>2. n \in 1 .. n
    BY <1>1
  <2> QED
    BY <2>1, <2>2, RankSurjects
<1>3. Cardinality({u \in S : u <= m}) = Cardinality(S)
  BY <1>2, NumbersKeyed
<1>4. {u \in S : u <= m} = S
  BY <1>3, FS_Subset
<1>5. m \in S /\ \A t \in S : m >= t
  BY <1>4
<1> QED
  BY <1>5 DEF Max

\* The lesser of two numbers.
LEMMA MinOfTwo ==
    ASSUME NEW a \in Int, NEW b \in Int
    PROVE  Min({a, b}) = IF a <= b THEN a ELSE b
<1>1. \E x \in {a, b} : \A y \in {a, b} : x <= y
  BY DEF Min
<1> QED
  BY <1>1 DEF Min

\* Page sizes are positive.
LEMMA ClampPositive ==
    Clamp(TagPageSize) \in Nat \ {0} /\ Clamp(TagCountLimit) \in Nat \ {0}
<1>1. ASSUME NEW n \in Nat PROVE Clamp(n) \in Nat \ {0}
  <2>1. Min({n, MaxCatalogPageSize}) = IF n <= MaxCatalogPageSize THEN n ELSE MaxCatalogPageSize
    BY SizesAssumption, MinOfTwo
  <2> QED
    BY <2>1, SizesAssumption DEF Clamp
<1> QED
  BY <1>1, SizesAssumption

\* The first n tags have with a tag everything before it; they are all there
\* are, or as many as was asked for.
LEMMA FirstIsPrefix ==
    ASSUME NEW S \in SUBSET Tags, NEW n \in Nat \ {0}
    PROVE  /\ First(S, n) \subseteq S
           /\ \A t \in First(S, n), u \in S : u <= t => u \in First(S, n)
           /\ First(S, n) # S => Cardinality(First(S, n)) = n
           /\ S # {} => First(S, n) # {}
<1> DEFINE upTo(t) == {u \in S : u <= t}
           N == Cardinality(S)
<1>1. S \in SUBSET Int /\ IsFiniteSet(S) /\ N \in Nat
  BY NamesKeyed, FS_CardinalityType DEF Tags
<1>2. First(S, n) \subseteq S
  BY DEF First
<1>3. ASSUME NEW t \in First(S, n), NEW u \in S, u <= t PROVE u \in First(S, n)
  <2>1. t \in S /\ Cardinality(upTo(t)) <= n
    BY DEF First
  <2>2. upTo(u) \subseteq upTo(t)
    <3>1. ASSUME NEW x \in S, x <= u PROVE x <= t
      <4>1. x \in Int /\ u \in Int /\ t \in Int
        BY <1>1, <2>1
      <4> QED
        BY <1>3, <3>1, <4>1
    <3> QED
      BY <3>1
  <2>3. IsFiniteSet(upTo(t)) /\ IsFiniteSet(upTo(u))
    BY <1>1, FS_Subset
  <2>4. Cardinality(upTo(u)) <= Cardinality(upTo(t))
    <3> HIDE DEF upTo
    <3> QED BY <2>2, <2>3, FS_Subset
  <2>5. Cardinality(upTo(u)) <= n
    BY <2>1, <2>3, <2>4, FS_CardinalityType
  <2> QED
    BY <2>5 DEF First
<1>4. Keyed(S, Itself(S)) /\ \A t \in S : Rank(S, Itself(S), t) = Cardinality(upTo(t))
  BY <1>1, NumbersKeyed
<1>5. ASSUME NEW k \in 1 .. N PROVE \E t \in S : Cardinality(upTo(t)) = k
  <2>1. \E t \in S : Rank(S, Itself(S), t) = k
    BY <1>1, <1>4, RankSurjects
  <2> QED
    BY <1>4, <2>1
<1>6. ASSUME NEW t \in S PROVE Cardinality(upTo(t)) \in 1 .. N
  <2>1. Rank(S, Itself(S), t) \in 1 .. N
    BY <1>1, <1>4, RankBounds
  <2> QED
    BY <1>4, <2>1
<1>7. \A t, u \in S : t < u <=> Cardinality(upTo(t)) < Cardinality(upTo(u))
  <2> TAKE t \in S, u \in S
  <2>1. Itself(S)[t] < Itself(S)[u] <=> Rank(S, Itself(S), t) < Rank(S, Itself(S), u)
    BY <1>1, NumbersKeyed, RankAscends
  <2> QED
    BY <1>1, <2>1, NumbersKeyed DEF Itself
<1>8. ASSUME First(S, n) # S PROVE Cardinality(First(S, n)) = n
  <2> DEFINE F == First(S, n)
             rank == [t \in F |-> Cardinality(upTo(t))]
  <2>1. n < N
    <3>1. PICK t \in S : t \notin First(S, n)
      BY <1>2, <1>8
    <3>2. ~(Cardinality(upTo(t)) <= n)
      BY <3>1 DEF First
    <3> QED
      BY <1>1, <1>6, <3>2
  <2>2. \A t \in F : t \in S /\ Cardinality(upTo(t)) <= n
    BY DEF First
  <2>3. rank \in [F -> 1 .. n]
    BY <1>6, <2>2
  <2>4. rank \in Injection(F, 1 .. n)
    <3> SUFFICES ASSUME NEW t \in F, NEW u \in F, rank[t] = rank[u] PROVE t = u
      BY <2>3 DEF Injection, IsInjective
    <3>1. t \in S /\ u \in S /\ Cardinality(upTo(t)) = Cardinality(upTo(u))
      BY <2>2
    <3>2. ~(t < u) /\ ~(u < t)
      BY <1>6, <1>7, <3>1
    <3> QED
      BY <1>1, <3>1, <3>2
  <2>5. rank \in Surjection(F, 1 .. n)
    <3>1. ASSUME NEW k \in 1 .. n PROVE \E t \in F : rank[t] = k
      <4>1. PICK t \in S : Cardinality(upTo(t)) = k
        BY <1>1, <1>5, <2>1
      <4>2. t \in F
        BY <4>1 DEF First
      <4> QED
        BY <4>1, <4>2
    <3> QED
      BY <2>3, <3>1 DEF Surjection
  <2>6. IsFiniteSet(1 .. n) /\ Cardinality(1 .. n) = n
    BY FS_Interval
  <2>7. Cardinality(F) = Cardinality(1 .. n)
    <3> HIDE DEF F, rank
    <3> QED BY <2>4, <2>5, <2>6, FS_Injection
  <2> QED
    BY <2>6, <2>7
<1>9. ASSUME S # {} PROVE First(S, n) # {}
  <2>1. N # 0
    BY <1>1, <1>9, FS_EmptySet
  <2>2. PICK t \in S : Cardinality(upTo(t)) = 1
    BY <1>1, <1>5, <2>1
  <2> QED
    BY <2>2 DEF First
<1> QED
  BY <1>2, <1>3, <1>8, <1>9

-----------------------------------------------------------------------------
(* A page that is fetched.                                                 *)

\* Tags and repositories are positive numbers, and cursors are tags or zero.
LEMMA NamesPositive ==
    /\ Tags \subseteq Int /\ Repos \subseteq Int /\ Cursors \subseteq Nat
    /\ \A t \in Tags : 0 < t /\ t \in Nat
    /\ Tags \subseteq Cursors /\ 0 \in Cursors
BY SizesAssumption DEF Tags, Repos, Cursors

\* The tags that a registry has after a cursor.
Rest(c) == {t \in tags : t > c}

\* A registry that looks at the cursor sends the first tags after it, all of
\* them, or so many as it links from or as were asked for.
Begins(S, link, n, c) ==
    /\ S \subseteq Rest(c)
    /\ \A t \in S, u \in Rest(c) : u <= t => u \in S
    /\ link # 0 => S # {} /\ link = Max(S)
    /\ link = 0 => S = Rest(c) \/ (S # {} /\ Cardinality(S) = n)

\* A registry that keeps to paging answers with the beginning of what is behind the cursor.
LEMMA ResponseIsPrefix ==
    ASSUME tags \subseteq Tags, style \in Styles, NEW n \in Nat \ {0}, NEW c \in Cursors,
           NEW r \in Responses(n, c)
    PROVE  IF style = "whole" THEN r.tags = tags /\ r.link = 0 ELSE Begins(r.tags, r.link, n, c)
<1>1. Rest(c) \in SUBSET Tags
  BY DEF Rest
<1>2. CASE style = "linking"
  <2>1. PICK m \in 1 .. n : r = [tags |-> First(Rest(c), m),
                                 link |-> IF First(Rest(c), m) = Rest(c) THEN 0
                                          ELSE Max(First(Rest(c), m))]
    BY <1>2 DEF Responses, Rest
  <2> DEFINE S == First(Rest(c), m)
  <2>2. /\ S \subseteq Rest(c)
        /\ \A t \in S, u \in Rest(c) : u <= t => u \in S
        /\ Rest(c) # {} => S # {}
    BY <1>1, FirstIsPrefix
  <2>3. S # Rest(c) => S # {} /\ Max(S) # 0
    <3> SUFFICES ASSUME S # Rest(c) PROVE S # {} /\ Max(S) # 0
      OBVIOUS
    <3>1. S # {}
      BY <2>2
    <3>2. S \in SUBSET Int /\ S \in SUBSET Tags /\ IsFiniteSet(S)
      BY <1>1, <2>2, NamesKeyed DEF Tags
    <3>3. Max(S) \in S
      <4> HIDE DEF S
      <4> QED BY <3>1, <3>2, MaxIsGreatest
    <3> QED
      BY <3>1, <3>2, <3>3 DEF Tags
  <2>4. r.tags = S /\ r.link = IF S = Rest(c) THEN 0 ELSE Max(S)
    BY <2>1
  <2> HIDE DEF S
  <2>5. Begins(r.tags, r.link, n, c)
    BY <2>2, <2>3, <2>4 DEF Begins
  <2> QED
    BY <1>2, <2>5
<1>3. CASE style = "counting"
  <2> DEFINE S == First(Rest(c), n)
  <2>1. r = [tags |-> S, link |-> 0]
    BY <1>3 DEF Responses, Rest
  <2>2. /\ S \subseteq Rest(c)
        /\ \A t \in S, u \in Rest(c) : u <= t => u \in S
        /\ S # Rest(c) => Cardinality(S) = n
        /\ Rest(c) # {} => S # {}
    BY <1>1, FirstIsPrefix
  <2> HIDE DEF S
  <2>3. Begins(r.tags, r.link, n, c)
    BY <2>1, <2>2 DEF Begins
  <2> QED
    BY <1>3, <2>3
<1>4. CASE style = "whole"
  BY <1>4 DEF Responses
<1> QED
  BY <1>2, <1>3, <1>4 DEF Styles

\* The cursor of a page is its last tag; without one there is nothing after it.
LEMMA CursorIsLast ==
    ASSUME tags \subseteq Tags, style \in Styles, NEW n \in Nat \ {0}, NEW c \in Cursors,
           NEW r \in Responses(n, c), NEW next, next = NextCursor(r, n)
    PROVE  /\ r.tags \subseteq tags
           /\ next # 0 => next \in r.tags /\ \A t \in r.tags : t <= next
           /\ next = 0 /\ style # "whole" => r.tags = Rest(c)
           /\ style = "whole" => r.tags = tags
           /\ style # "whole" => /\ r.tags \subseteq Rest(c)
                                 /\ \A t \in r.tags, u \in Rest(c) : u <= t => u \in r.tags
<1> DEFINE S == r.tags
<1>1. IF style = "whole" THEN S = tags /\ r.link = 0 ELSE Begins(S, r.link, n, c)
  BY ResponseIsPrefix
<1>2. S \subseteq tags
  BY <1>1 DEF Begins, Rest
<1>3. S \in SUBSET Int /\ IsFiniteSet(S)
  <2> HIDE DEF S
  <2>1. S \in SUBSET Tags
    BY <1>2
  <2> QED
    BY <2>1, NamesKeyed, NamesPositive
<1>4. next = IF r.link # 0 THEN r.link
             ELSE IF Cardinality(S) = n /\ S # {} THEN Max(S) ELSE 0
  BY DEF NextCursor, LastOf
<1> HIDE DEF S
<1>5. next # 0 => S # {} /\ next = Max(S)
  BY <1>1, <1>4 DEF Begins
<1>6. next # 0 => next \in S /\ \A t \in S : t <= next
  BY <1>3, <1>5, MaxIsGreatest
<1>7. S # {} => Max(S) # 0
  <2> SUFFICES ASSUME S # {} PROVE Max(S) # 0
    OBVIOUS
  <2>1. Max(S) \in S
    BY <1>3, MaxIsGreatest
  <2> QED
    BY <1>2, <2>1 DEF Tags
<1>8. next = 0 /\ style # "whole" => S = Rest(c)
  BY <1>1, <1>4, <1>7 DEF Begins
<1> QED
  BY <1>1, <1>2, <1>6, <1>8 DEF S, Begins

\* What is fetched is a page, and stands.
LEMMA FetchedStands ==
    ASSUME tags \subseteq Tags, style \in Styles, NEW n \in Nat \ {0}, NEW c \in Cursors,
           NEW p \in Fetched(n, c)
    PROVE  p \in Page /\ PageStands(p, c)
<1>1. PICK r \in Responses(n, c) :
          p = [tags |-> r.tags, next |-> NextCursor(r, n), steady |-> tags,
               total |-> Cardinality(tags)]
  BY DEF Fetched
<1> DEFINE S == r.tags
           next == NextCursor(r, n)
<1>2. /\ S \subseteq tags
      /\ next # 0 => next \in S /\ \A t \in S : t <= next
      /\ next = 0 /\ style # "whole" => S = Rest(c)
      /\ style = "whole" => S = tags
      /\ style # "whole" => /\ S \subseteq Rest(c)
                            /\ \A t \in S, u \in Rest(c) : u <= t => u \in S
  BY CursorIsLast
<1>3. p.tags = S /\ p.next = next /\ p.steady = tags /\ p.total = Cardinality(tags)
  BY <1>1
<1>4. (\A t \in tags : t \in Nat /\ 0 < t) /\ c \in Nat
  BY NamesPositive
<1>5. Cardinality(tags) \in 0 .. LastTag
  BY NamesKeyed
<1>6. next \in Cursors
  <2>1. next = 0 \/ next \in Tags
    BY <1>2
  <2> QED
    BY <2>1, SizesAssumption DEF Tags, Cursors
<1> HIDE DEF S, next
<1>7. p \in Page
  <2>1. p = [tags |-> S, next |-> next, steady |-> tags, total |-> Cardinality(tags)]
    BY <1>1 DEF S, next
  <2> QED
    BY <1>2, <1>5, <1>6, <2>1 DEF Page
<1>8. PageCovers(p, c)
  <2> SUFFICES ASSUME NEW t \in tags, c < t, next = 0 \/ t <= next PROVE t \in S
    BY <1>3 DEF PageCovers
  <2>1. t \in Rest(c)
    BY <1>4 DEF Rest
  <2> QED
    BY <1>2, <2>1
<1>9. style # "whole" => PageAdvances(p, c)
  <2> SUFFICES ASSUME style # "whole"
               PROVE  /\ next # 0 => c < next
                      /\ \A t \in S : c < t /\ (next # 0 => t <= next)
    BY <1>3 DEF PageAdvances
  <2>1. \A t \in S : c < t
    BY <1>2, <1>4 DEF Rest
  <2> QED
    BY <1>2, <2>1
<1>10. PageCounts(p, c)
  <2> SUFFICES ASSUME c = 0, next = 0 PROVE S = tags
    BY <1>3 DEF PageCounts
  <2>1. Rest(c) = tags
    BY <1>4 DEF Rest
  <2> QED
    BY <1>2, <2>1
<1> QED
  BY <1>7, <1>8, <1>9, <1>10 DEF PageStands

-----------------------------------------------------------------------------
(* Pages, cached and fetched.                                              *)

\* What the client answers is a page that stands ...
LEMMA AnswersStand ==
    ASSUME Inv, NEW n \in {TagPageSize, TagCountLimit}, NEW c \in Cursors, NEW p \in Answers(n, c)
    PROVE  p \in Page /\ PageStands(p, c)
<1> DEFINE k == <<Clamp(n), c>>
<1>1. k \in PageKeys /\ k[2] = c
  BY DEF PageKeys
<1>2. tags \subseteq Tags /\ style \in Styles /\ pages \in [PageKeys -> Page \cup {None}]
  BY DEF Inv, TypeOK
<1>3. CASE pages[k] # None
  <2>1. p = pages[k]
    BY <1>3 DEF Answers
  <2> QED
    BY <1>1, <1>2, <1>3, <2>1 DEF Inv, PagesStand
<1>4. CASE pages[k] = None
  <2>1. p \in Fetched(Clamp(n), c)
    BY <1>4 DEF Answers
  <2>2. Clamp(n) \in Nat \ {0}
    BY ClampPositive
  <2> QED
    BY <1>2, <2>1, <2>2, FetchedStands
<1> QED
  BY <1>3, <1>4

\* ... and so is what it stores.
LEMMA StoredStands ==
    ASSUME Inv, NEW n \in {TagPageSize, TagCountLimit}, NEW c \in Cursors, NEW p \in Answers(n, c),
           Stored(n, c, p), UNCHANGED style
    PROVE  (pages \in [PageKeys -> Page \cup {None}])' /\ PagesStand'
<1> DEFINE k == <<Clamp(n), c>>
<1>1. k \in PageKeys /\ k[2] = c
  BY DEF PageKeys
<1>2. pages \in [PageKeys -> Page \cup {None}] /\ pages' = [pages EXCEPT ![k] = p]
  BY DEF Inv, TypeOK, Stored
<1>3. p \in Page /\ PageStands(p, c)
  BY AnswersStand
<1> HIDE DEF k
<1>4. (pages \in [PageKeys -> Page \cup {None}])'
  BY <1>1, <1>2, <1>3
<1>5. ASSUME NEW j \in PageKeys, pages'[j] # None PROVE PageStands(pages'[j], j[2])
  <2>1. CASE j = k
    BY <1>1, <1>2, <1>3, <2>1
  <2>2. CASE j # k
    <3>1. pages'[j] = pages[j]
      BY <1>2, <2>2
    <3> QED
      BY <1>5, <3>1 DEF Inv, PagesStand
  <2> QED
    BY <2>1, <2>2
<1>6. PagesStand'
  BY <1>5 DEF PagesStand, PageStands, PageCovers, PageAdvances, PageCounts
<1> QED
  BY <1>4, <1>6

\* Pages from which a tag is no longer steady, or which are forgotten, stand.
LEMMA AgedStands ==
    ASSUME Inv, UNCHANGED style, pages' \in [PageKeys -> Page \cup {None}],
           \A k \in PageKeys : pages'[k] # None =>
               /\ pages[k] # None
               /\ pages'[k].tags = pages[k].tags /\ pages'[k].next = pages[k].next
               /\ pages'[k].total = pages[k].total /\ pages'[k].steady \subseteq pages[k].steady
    PROVE  PagesStand'
<1>1. ASSUME NEW k \in PageKeys, pages'[k] # None PROVE PageStands(pages'[k], k[2])
  <2>1. PageStands(pages[k], k[2])
    BY <1>1 DEF Inv, PagesStand
  <2> QED
    BY <1>1, <2>1 DEF PageStands, PageCovers, PageAdvances, PageCounts
<1> QED
  BY <1>1 DEF PagesStand, PageStands, PageCovers, PageAdvances, PageCounts

\* A tag comes or goes.
LEMMA TagChangesStands ==
    ASSUME Inv, NEW t \in Tags, TagChanges(t)
    PROVE  Inv'
<1>1. TypeOK /\ RowsStand /\ CatalogStands
  BY DEF Inv
<1>2. /\ tags' = SymDiff(tags, {t})
      /\ pages' = [k \in PageKeys |-> Without(pages[k], t)]
      /\ view' = [view EXCEPT !.steady = @ \ {t}]
      /\ changes' = changes + 1
      /\ UNCHANGED <<repos, style, index>>
  BY DEF TagChanges
<1>3. ASSUME NEW k \in PageKeys
      PROVE  /\ pages'[k] \in Page \cup {None}
             /\ pages'[k] # None =>
                  /\ pages[k] # None
                  /\ pages'[k].tags = pages[k].tags /\ pages'[k].next = pages[k].next
                  /\ pages'[k].total = pages[k].total /\ pages'[k].steady \subseteq pages[k].steady
  <2>1. pages'[k] = Without(pages[k], t)
    BY <1>2
  <2>2. pages[k] \in Page \cup {None}
    BY <1>1 DEF TypeOK
  <2>3. CASE pages[k] = None
    BY <2>1, <2>3 DEF Without
  <2>4. CASE pages[k] # None
    <3>1. pages[k] \in Page /\ pages'[k] = [pages[k] EXCEPT !.steady = @ \ {t}]
      BY <2>1, <2>2, <2>4 DEF Without
    <3> QED
      BY <2>4, <3>1 DEF Page
  <2> QED
    BY <2>3, <2>4
<1>4. pages' \in [PageKeys -> Page \cup {None}]
  BY <1>2, <1>3
<1>5. PagesStand'
  BY <1>2, <1>3, <1>4, AgedStands
<1>6. /\ view'.list = view.list /\ view'.rows = view.rows /\ view'.more = view.more
      /\ view'.start = view.start /\ view'.steady = view.steady \ {t}
      /\ view'.query = view.query /\ view'.matched = view.matched /\ view'.moved = view.moved
      /\ view' \in [list : {"none", "tags", "catalog"}, rows : Seq(Nat), more : Nat,
                    start : Cursors, steady : SUBSET Tags, query : SUBSET Repos,
                    matched : SUBSET Repos, moved : BOOLEAN]
  BY <1>1, <1>2 DEF TypeOK
<1>7. tags' \subseteq Tags /\ changes' \in Nat
  BY <1>1, <1>2 DEF TypeOK, SymDiff
<1>8. TypeOK'
  BY <1>1, <1>2, <1>4, <1>6, <1>7 DEF TypeOK
<1>9. RowsStand' /\ CatalogStands'
  BY <1>1, <1>2, <1>6 DEF RowsStand, CatalogStands
<1> QED
  BY <1>5, <1>8, <1>9 DEF Inv

-----------------------------------------------------------------------------
(* The list of tags.                                                       *)

\* One list after another has the members of both, once if they share none.
LEMMA AppendedLists ==
    ASSUME NEW S, NEW s \in Seq(S), NEW u \in Seq(S)
    PROVE  /\ s \o u \in Seq(S)
           /\ ToSet(s \o u) = ToSet(s) \cup ToSet(u)
           /\ IsInjective(s) /\ IsInjective(u) /\ ToSet(s) \cap ToSet(u) = {}
              => IsInjective(s \o u)
<1> DEFINE w == s \o u
<1>1. /\ w \in Seq(S) /\ Len(w) = Len(s) + Len(u)
      /\ \A i \in 1 .. Len(s) + Len(u) :
             w[i] = IF i <= Len(s) THEN s[i] ELSE u[i - Len(s)]
  BY ConcatProperties
<1>2. Len(s) \in Nat /\ Len(u) \in Nat
  OBVIOUS
<1>3. DOMAIN w = 1 .. Len(s) + Len(u) /\ DOMAIN s = 1 .. Len(s) /\ DOMAIN u = 1 .. Len(u)
  BY <1>1
<1> HIDE DEF w
<1>4. \A i \in DOMAIN s : i \in DOMAIN w /\ w[i] = s[i]
  BY <1>1, <1>2, <1>3
<1>5. \A i \in DOMAIN u : Len(s) + i \in DOMAIN w /\ w[Len(s) + i] = u[i]
  BY <1>1, <1>2, <1>3
<1>6. \A i \in DOMAIN w : \/ i \in DOMAIN s /\ w[i] = s[i]
                          \/ i - Len(s) \in DOMAIN u /\ w[i] = u[i - Len(s)]
  BY <1>1, <1>2, <1>3
<1>7. ToSet(w) = ToSet(s) \cup ToSet(u)
  BY <1>4, <1>5, <1>6 DEF ToSet
<1>8. ASSUME IsInjective(s), IsInjective(u), ToSet(s) \cap ToSet(u) = {}
      PROVE  IsInjective(w)
  <2> SUFFICES ASSUME NEW i \in DOMAIN w, NEW j \in DOMAIN w, w[i] = w[j] PROVE i = j
    BY DEF IsInjective
  <2>1. CASE i \in DOMAIN s /\ j \in DOMAIN s
    BY <1>4, <1>8, <2>1 DEF IsInjective
  <2>2. CASE i \notin DOMAIN s /\ j \notin DOMAIN s
    <3>1. /\ i - Len(s) \in DOMAIN u /\ w[i] = u[i - Len(s)]
          /\ j - Len(s) \in DOMAIN u /\ w[j] = u[j - Len(s)]
      BY <1>6, <2>2
    <3>2. i - Len(s) = j - Len(s)
      BY <1>8, <3>1 DEF IsInjective
    <3> QED
      BY <1>2, <1>3, <3>2
  <2>3. CASE i \in DOMAIN s /\ j \notin DOMAIN s
    BY <1>4, <1>6, <1>8, <2>3 DEF ToSet
  <2>4. CASE i \notin DOMAIN s /\ j \in DOMAIN s
    BY <1>4, <1>6, <1>8, <2>4 DEF ToSet
  <2> QED
    BY <2>1, <2>2, <2>3, <2>4
<1> QED
  BY <1>1, <1>7, <1>8 DEF w

\* A page in display order has the tags of the page, each once.
LEMMA DisplayLists ==
    ASSUME NEW S \in SUBSET Tags
    PROVE  /\ InDisplayOrder(S) \in Seq(Tags)
           /\ ToSet(InDisplayOrder(S)) = S
           /\ IsInjective(InDisplayOrder(S))
<1>1. IsFiniteSet(S) /\ Keyed(S, Shown)
  BY NamesKeyed
<1>2. Sorted(S, Shown) \in Seq(S)
  BY <1>1, SortedLists
<1>3. Sorted(S, Shown) \in Seq(Tags)
  BY <1>2
<1> QED
  BY <1>1, <1>3, SortedLists DEF InDisplayOrder

\* A list of tags is a list of numbers.
LEMMA TagLists == \A s \in Seq(Tags) : s \in Seq(Nat)
<1>1. \A t \in Tags : t \in Nat
  BY NamesPositive
<1> QED
  BY <1>1

\* A repository's page is opened.
LEMMA OpenRepositoryStands ==
    ASSUME Inv, NEW c \in Starts, OpenRepository(c)
    PROVE  Inv'
<1>1. TypeOK /\ c \in Cursors
  BY NamesAssumption DEF Inv
<1>2. UNCHANGED <<repos, tags, style, index, changes>>
  BY DEF OpenRepository
<1>3. PICK p \in Answers(TagPageSize, c) :
          /\ Stored(TagPageSize, c, p)
          /\ view' = [Blank EXCEPT !.list = "tags", !.rows = InDisplayOrder(p.tags),
                                   !.more = p.next, !.start = c, !.steady = p.steady]
  BY DEF OpenRepository
<1>4. p \in Page /\ PageStands(p, c)
  BY <1>1, AnswersStand
<1>5. (pages \in [PageKeys -> Page \cup {None}])' /\ PagesStand'
  BY <1>1, <1>2, <1>3, StoredStands
<1>6. /\ p.tags \in SUBSET Tags /\ p.next \in Cursors /\ p.next \in Nat
      /\ p.steady \in SUBSET Tags
  BY <1>4, NamesPositive DEF Page
<1>7. /\ InDisplayOrder(p.tags) \in Seq(Tags) /\ InDisplayOrder(p.tags) \in Seq(Nat)
      /\ ToSet(InDisplayOrder(p.tags)) = p.tags
      /\ IsInjective(InDisplayOrder(p.tags))
  BY <1>6, DisplayLists, TagLists
<1>8. view' = [list |-> "tags", rows |-> InDisplayOrder(p.tags), more |-> p.next, start |-> c,
               steady |-> p.steady, query |-> {}, matched |-> {}, moved |-> FALSE]
  BY <1>3 DEF Blank
<1>9. /\ view'.list = "tags" /\ view'.rows = InDisplayOrder(p.tags) /\ view'.more = p.next
      /\ view'.start = c /\ view'.steady = p.steady
  BY <1>8
<1>10. TypeOK'
  BY <1>1, <1>2, <1>5, <1>6, <1>7, <1>8 DEF TypeOK
<1>11. RowsStand'
  BY <1>2, <1>4, <1>7, <1>9 DEF RowsStand, PageStands, PageCovers, PageAdvances
<1>12. CatalogStands'
  BY <1>9 DEF CatalogStands
<1> QED
  BY <1>5, <1>10, <1>11, <1>12 DEF Inv

\* The button of a list of tags.
LEMMA LoadMoreTagsStands ==
    ASSUME Inv, LoadMoreTags
    PROVE  Inv'
<1>1. TypeOK /\ RowsStand
  BY DEF Inv
<1>2. UNCHANGED <<repos, tags, style, index, changes>> /\ view.list = "tags" /\ view.more # 0
  BY DEF LoadMoreTags
<1>3. view.more \in Cursors /\ view.rows \in Seq(Tags)
  BY <1>1, <1>2 DEF TypeOK
<1>4. PICK p \in Answers(TagPageSize, view.more) :
          /\ Stored(TagPageSize, view.more, p)
          /\ view' = [view EXCEPT !.rows = @ \o InDisplayOrder(p.tags),
                                  !.more = p.next, !.steady = @ \cap p.steady]
  BY DEF LoadMoreTags
<1>5. p \in Page /\ PageStands(p, view.more)
  BY <1>3, AnswersStand
<1>6. (pages \in [PageKeys -> Page \cup {None}])' /\ PagesStand'
  BY <1>2, <1>3, <1>4, StoredStands
<1>7. /\ p.tags \in SUBSET Tags /\ p.next \in Cursors /\ p.next \in Nat
      /\ p.steady \in SUBSET Tags
  BY <1>5, NamesPositive DEF Page
<1> DEFINE old == view.rows
           new == InDisplayOrder(p.tags)
<1>8. new \in Seq(Tags) /\ ToSet(new) = p.tags /\ IsInjective(new)
  BY <1>7, DisplayLists
<1>9. old \in Seq(Tags)
  BY <1>3
<1>10. /\ view'.list = "tags" /\ view'.rows = old \o new /\ view'.more = p.next
       /\ view'.start = view.start /\ view'.steady = view.steady \cap p.steady
       /\ view'.query = view.query /\ view'.matched = view.matched /\ view'.moved = view.moved
       /\ view' = [list |-> "tags", rows |-> old \o new, more |-> p.next, start |-> view.start,
                   steady |-> view.steady \cap p.steady, query |-> view.query,
                   matched |-> view.matched, moved |-> view.moved]
  BY <1>1, <1>2, <1>4 DEF TypeOK
<1> HIDE DEF old, new
<1>11. /\ old \o new \in Seq(Tags) /\ old \o new \in Seq(Nat)
       /\ ToSet(old \o new) = ToSet(old) \cup p.tags
       /\ IsInjective(old) /\ ToSet(old) \cap p.tags = {} => IsInjective(old \o new)
  BY <1>8, <1>9, AppendedLists, TagLists
<1>12. TypeOK'
  BY <1>1, <1>2, <1>6, <1>7, <1>10, <1>11 DEF TypeOK
<1>13. \A t \in ToSet(old) \cup p.tags : t \in Nat
  <2>1. ToSet(old) \subseteq Tags
    BY <1>9 DEF ToSet
  <2> QED
    BY <1>7, <2>1, NamesPositive
<1>14. ASSUME NEW t \in view.steady \cap p.steady, view.start < t, p.next = 0 \/ t <= p.next
       PROVE  t \in ToSet(old) \cup p.tags
  <2>1. t \in Nat /\ view.more \in Nat
    BY <1>3, <1>7, NamesPositive
  <2>2. CASE t <= view.more
    BY <1>1, <1>2, <1>14, <2>2 DEF RowsStand, old
  <2>3. CASE view.more < t
    BY <1>5, <1>14, <2>3 DEF PageStands, PageCovers
  <2> QED
    BY <2>1, <2>2, <2>3
<1>15. ASSUME style # "whole"
       PROVE  /\ IsInjective(old) /\ ToSet(old) \cap p.tags = {}
              /\ p.next # 0 => \A t \in ToSet(old) \cup p.tags : t <= p.next
  <2>1. IsInjective(old) /\ \A t \in ToSet(old) : t <= view.more
    BY <1>1, <1>2, <1>15 DEF RowsStand, old
  <2>2. /\ p.next # 0 => view.more < p.next
        /\ \A t \in p.tags : view.more < t /\ (p.next # 0 => t <= p.next)
    BY <1>5, <1>15 DEF PageStands, PageAdvances
  <2>3. view.more \in Nat
    BY <1>3, NamesPositive
  <2>4. ToSet(old) \cap p.tags = {}
    BY <1>13, <2>1, <2>2, <2>3
  <2>5. p.next # 0 => \A t \in ToSet(old) \cup p.tags : t <= p.next
    BY <1>7, <1>13, <2>1, <2>2, <2>3
  <2> QED
    BY <2>1, <2>4, <2>5
<1>16. RowsStand'
  BY <1>2, <1>10, <1>11, <1>14, <1>15 DEF RowsStand
<1>17. CatalogStands'
  BY <1>10 DEF CatalogStands
<1> QED
  BY <1>6, <1>12, <1>16, <1>17 DEF Inv

\* A counter fetches its page.
LEMMA CountTagsStands ==
    ASSUME Inv, CountTags
    PROVE  Inv'
<1>1. UNCHANGED <<repos, tags, style, index, view, changes>> /\ 0 \in Cursors
  BY NamesPositive DEF CountTags
<1>2. PICK p \in Answers(TagCountLimit, 0) : Stored(TagCountLimit, 0, p)
  BY DEF CountTags
<1>3. (pages \in [PageKeys -> Page \cup {None}])' /\ PagesStand'
  BY <1>1, <1>2, StoredStands
<1> QED
  BY <1>1, <1>3 DEF Inv, TypeOK, RowsStand, CatalogStands

-----------------------------------------------------------------------------
(* The catalog.                                                            *)

\* Where a page ends, and what its button points to.
LEMMA PageEnds ==
    ASSUME NEW S \in SUBSET Repos, NEW o \in Nat, o <= Cardinality(S)
    PROVE  /\ Cardinality(S) \in 0 .. LastRepo
           /\ Min({o, Cardinality(S)}) = o
           /\ End(S, o) \in o .. Cardinality(S)
           /\ More(S, o) # 0 => More(S, o) = End(S, o) /\ More(S, o) < Cardinality(S)
           /\ More(S, o) = 0 => End(S, o) = Cardinality(S)
<1> DEFINE n == Cardinality(S)
           d == o + CatalogPageSize
<1>1. n \in 0 .. LastRepo /\ n \in Nat /\ LastRepo \in Nat
  BY NamesKeyed, SizesAssumption
<1>2. d \in Nat /\ o < d
  BY SizesAssumption
<1>3. Min({o, n}) = IF o <= n THEN o ELSE n
  BY <1>1, MinOfTwo
<1>4. Min({d, n}) = IF d <= n THEN d ELSE n
  BY <1>1, <1>2, MinOfTwo
<1>5. End(S, o) = Min({d, n}) /\ More(S, o) = IF End(S, o) < n THEN End(S, o) ELSE 0
  BY DEF End, More
<1> HIDE DEF n, d
<1>6. o <= n
  BY DEF n
<1>7. End(S, o) \in Nat /\ o <= End(S, o) /\ End(S, o) <= n /\ (End(S, o) < n => End(S, o) = d)
  BY <1>1, <1>2, <1>4, <1>5, <1>6
<1>8. /\ Min({o, n}) = o /\ End(S, o) \in o .. n
      /\ More(S, o) # 0 => More(S, o) = End(S, o) /\ More(S, o) < n
      /\ More(S, o) = 0 => End(S, o) = n
  BY <1>1, <1>2, <1>3, <1>5, <1>6, <1>7
<1> QED
  BY <1>1, <1>8 DEF n

\* The list of repositories in order.
LEMMA CatalogLists ==
    ASSUME NEW S \in SUBSET Repos
    PROVE  /\ Sorted(S, ByName) \in Seq(Repos) /\ Sorted(S, ByName) \in Seq(Nat)
           /\ Len(Sorted(S, ByName)) = Cardinality(S)
<1>1. IsFiniteSet(S) /\ Keyed(S, ByName)
  BY NamesKeyed
<1>2. Sorted(S, ByName) \in Seq(S) /\ Len(Sorted(S, ByName)) = Cardinality(S)
  BY <1>1, SortedLists
<1>3. \A r \in S : r \in Repos /\ r \in Nat
  BY SizesAssumption DEF Repos
<1> QED
  BY <1>2, <1>3

\* Rows from any offset are repositories; from the end of what is shown they
\* continue it.
LEMMA RowsContinue ==
    ASSUME NEW S \in SUBSET Repos, NEW o \in Nat
    PROVE  /\ Rows(S, o) \in Seq(Repos)
           /\ o <= Cardinality(S) =>
                  SubSeq(Sorted(S, ByName), 1, o) \o Rows(S, o)
                  = SubSeq(Sorted(S, ByName), 1, End(S, o))
<1> DEFINE all == Sorted(S, ByName)
           n == Cardinality(S)
           m == Min({o, n})
<1>1. all \in Seq(Repos) /\ Len(all) = n
  BY CatalogLists
<1>2. n \in Nat
  BY <1>1
<1>3. m \in Nat /\ m <= n
  BY <1>2, MinOfTwo
<1>4. End(S, o) \in Nat /\ End(S, o) <= n
  <2>1. o + CatalogPageSize \in Nat
    BY SizesAssumption
  <2> QED
    BY <1>2, <2>1, MinOfTwo DEF End
<1> HIDE DEF all, n, m
<1>5. Rows(S, o) = SubSeq(all, m + 1, End(S, o))
  BY DEF Rows, all, m, n
<1>6. \A i \in m + 1 .. End(S, o) : all[i] \in Repos
  BY <1>1, <1>2, <1>3, <1>4
<1>7. Rows(S, o) \in Seq(Repos)
  BY <1>3, <1>4, <1>5, <1>6, SubSeqProperties
<1>8. ASSUME o <= Cardinality(S)
      PROVE  SubSeq(all, 1, o) \o Rows(S, o) = SubSeq(all, 1, End(S, o))
  <2>1. m = o /\ End(S, o) \in o .. n
    BY <1>8, PageEnds DEF m, n
  <2>2. 1 \in 1 .. Len(all) + 1 /\ o \in 1 - 1 .. Len(all) /\ End(S, o) \in o .. Len(all)
    BY <1>1, <1>2, <1>8, <2>1 DEF n
  <2> QED
    BY <1>1, <1>5, <2>1, <2>2, ConcatAdjacentSubSeq
<1> QED
  BY <1>7, <1>8 DEF all

\* The button's offset, whatever list it is for.
LEMMA MoreBounded ==
    ASSUME NEW S \in SUBSET Repos, NEW o \in Nat
    PROVE  More(S, o) \in 0 .. LastRepo
<1>1. Cardinality(S) \in 0 .. LastRepo /\ LastRepo \in Nat
  BY NamesKeyed, SizesAssumption
<1>2. o + CatalogPageSize \in Nat
  BY SizesAssumption
<1>3. End(S, o) \in 0 .. LastRepo
  BY <1>1, <1>2, MinOfTwo DEF End
<1> QED
  BY <1>1, <1>3 DEF More

\* The front page of a registry, or a search in it.
LEMMA OpenCatalogStands ==
    ASSUME Inv, NEW q \in Queries, OpenCatalog(q)
    PROVE  Inv'
<1>1. TypeOK /\ q \in SUBSET Repos
  BY NamesAssumption DEF Inv
<1>2. UNCHANGED <<repos, tags, style, pages, changes>>
  BY DEF OpenCatalog
<1>3. PICK l \in Lists :
          /\ index' = l
          /\ view' = [Blank EXCEPT !.list = "catalog", !.rows = Rows(FilterRepos(l, q), 0),
                                   !.more = More(FilterRepos(l, q), 0), !.query = q,
                                   !.matched = FilterRepos(l, q)]
  BY DEF OpenCatalog
<1>4. l \in SUBSET Repos
  BY <1>1 DEF Lists, TypeOK
<1> DEFINE S == FilterRepos(l, q)
<1>5. S \in SUBSET Repos
  BY <1>1 DEF FilterRepos
<1>6. view' = [list |-> "catalog", rows |-> Rows(S, 0), more |-> More(S, 0), start |-> 0,
               steady |-> {}, query |-> q, matched |-> S, moved |-> FALSE]
  BY <1>3 DEF Blank
<1> HIDE DEF S
<1>7. Rows(S, 0) \in Seq(Repos) /\ More(S, 0) \in 0 .. LastRepo
  BY <1>5, RowsContinue, MoreBounded
<1>8. Rows(S, 0) \in Seq(Nat) /\ More(S, 0) \in Nat
  <2>1. \A r \in Repos : r \in Nat
    BY SizesAssumption DEF Repos
  <2> QED
    BY <1>7, <2>1, SizesAssumption
<1>9. TypeOK'
  <2>1. view' \in [list : {"none", "tags", "catalog"}, rows : Seq(Nat), more : Nat,
                   start : Cursors, steady : SUBSET Tags, query : SUBSET Repos,
                   matched : SUBSET Repos, moved : BOOLEAN]
    BY <1>1, <1>5, <1>6, <1>8, NamesPositive
  <2>2. view'.list = "catalog" /\ view'.rows \in Seq(Repos) /\ view'.more \in 0 .. LastRepo
    BY <1>6, <1>7
  <2>3. index' \in (SUBSET Repos) \cup {None}
    BY <1>3, <1>4
  <2> QED
    BY <1>1, <1>2, <2>1, <2>2, <2>3 DEF TypeOK
<1>10. RowsStand' /\ PagesStand'
  BY <1>2, <1>6 DEF Inv, RowsStand, PagesStand, PageStands, PageCovers, PageAdvances, PageCounts
<1>11. CatalogStands'
  <2> DEFINE all == Sorted(S, ByName)
  <2>1. all \in Seq(Repos) /\ Len(all) = Cardinality(S) /\ Cardinality(S) \in Nat
    BY <1>5, CatalogLists
  <2>2. 0 \in Nat /\ 0 <= Cardinality(S)
    BY <2>1
  <2>3. SubSeq(all, 1, 0) \o Rows(S, 0) = SubSeq(all, 1, End(S, 0))
    BY <1>5, <2>2, RowsContinue
  <2>4. SubSeq(all, 1, 0) = <<>>
    BY SubSeqEmpty
  <2>5. Rows(S, 0) = SubSeq(all, 1, End(S, 0))
    BY <1>7, <2>3, <2>4, ConcatEmptySeq
  <2>6. /\ More(S, 0) # 0 => More(S, 0) = End(S, 0) /\ More(S, 0) < Cardinality(S)
        /\ More(S, 0) = 0 => End(S, 0) = Cardinality(S)
    BY <1>5, <2>2, PageEnds
  <2>7. view'.more = More(S, 0) /\ view'.matched = S /\ view'.rows = Rows(S, 0)
    BY <1>6
  <2> HIDE DEF all
  <2>8. Rows(S, 0) = SubSeq(all, 1, IF More(S, 0) = 0 THEN Len(all) ELSE More(S, 0))
    BY <2>1, <2>5, <2>6
  <2> QED
    BY <2>6, <2>7, <2>8 DEF CatalogStands, all
<1> QED
  BY <1>9, <1>10, <1>11 DEF Inv

\* The button of the catalog.
LEMMA LoadMoreReposStands ==
    ASSUME Inv, LoadMoreRepos
    PROVE  Inv'
<1>1. TypeOK /\ CatalogStands
  BY DEF Inv
<1>2. UNCHANGED <<repos, tags, style, pages, changes>> /\ view.list = "catalog" /\ view.more # 0
  BY DEF LoadMoreRepos
<1>3. PICK l \in Lists :
          /\ index' = l
          /\ view' = [view EXCEPT !.rows = @ \o Rows(FilterRepos(l, view.query), view.more),
                                  !.more = More(FilterRepos(l, view.query), view.more),
                                  !.moved = @ \/ FilterRepos(l, view.query) # view.matched]
  BY DEF LoadMoreRepos
<1> DEFINE S == FilterRepos(l, view.query)
           o == view.more
           moved == view.moved \/ S # view.matched
<1>4. l \in SUBSET Repos
  BY <1>1 DEF Lists, TypeOK
<1>5. S \in SUBSET Repos /\ o \in Nat /\ view.rows \in Seq(Repos) /\ moved \in BOOLEAN
  BY <1>1, <1>2, <1>4 DEF FilterRepos, TypeOK
<1>6. /\ view' = [view EXCEPT !.rows = @ \o Rows(S, o), !.more = More(S, o), !.moved = moved]
      /\ view'.list = "catalog" /\ view'.rows = view.rows \o Rows(S, o)
      /\ view'.more = More(S, o) /\ view'.matched = view.matched /\ view'.moved = moved
  BY <1>1, <1>2, <1>3 DEF TypeOK
<1> HIDE DEF S, o, moved
<1>7. Rows(S, o) \in Seq(Repos) /\ More(S, o) \in 0 .. LastRepo
  BY <1>5, RowsContinue, MoreBounded
<1>8. view.rows \o Rows(S, o) \in Seq(Repos)
  BY <1>5, <1>7
<1>9. view.rows \o Rows(S, o) \in Seq(Nat) /\ More(S, o) \in Nat
  <2>1. \A r \in Repos : r \in Nat
    BY SizesAssumption DEF Repos
  <2> QED
    BY <1>7, <1>8, <2>1, SizesAssumption
<1>10. view' \in [list : {"none", "tags", "catalog"}, rows : Seq(Nat), more : Nat,
                  start : Cursors, steady : SUBSET Tags, query : SUBSET Repos,
                  matched : SUBSET Repos, moved : BOOLEAN]
  BY <1>1, <1>5, <1>6, <1>9 DEF TypeOK
<1>11. TypeOK'
  BY <1>1, <1>2, <1>3, <1>4, <1>6, <1>7, <1>8, <1>10 DEF TypeOK
<1>12. RowsStand' /\ PagesStand'
  BY <1>2, <1>6 DEF Inv, RowsStand, PagesStand, PageStands, PageCovers, PageAdvances, PageCounts
<1>13. ASSUME ~moved
       PROVE  /\ More(S, o) # 0 => More(S, o) < Cardinality(S)
              /\ view.rows \o Rows(S, o)
                 = LET all == Sorted(S, ByName)
                   IN  SubSeq(all, 1, IF More(S, o) = 0 THEN Len(all) ELSE More(S, o))
              /\ S = view.matched
  <2> DEFINE all == Sorted(S, ByName)
  <2>1. ~view.moved /\ S = view.matched
    BY <1>13 DEF moved
  <2>2. o < Cardinality(S) /\ view.rows = SubSeq(all, 1, o)
    BY <1>1, <1>2, <2>1 DEF CatalogStands, o
  <2>3. all \in Seq(Repos) /\ Len(all) = Cardinality(S) /\ Cardinality(S) \in Nat
    BY <1>5, CatalogLists
  <2>4. o <= Cardinality(S)
    BY <1>5, <2>2, <2>3
  <2>5. view.rows \o Rows(S, o) = SubSeq(all, 1, End(S, o))
    BY <1>5, <2>2, <2>4, RowsContinue
  <2>6. /\ More(S, o) # 0 => More(S, o) = End(S, o) /\ More(S, o) < Cardinality(S)
        /\ More(S, o) = 0 => End(S, o) = Cardinality(S)
    BY <1>5, <2>4, PageEnds
  <2> HIDE DEF all
  <2>7. view.rows \o Rows(S, o) = SubSeq(all, 1, IF More(S, o) = 0 THEN Len(all) ELSE More(S, o))
    BY <2>3, <2>5, <2>6
  <2> QED
    BY <2>1, <2>6, <2>7 DEF all
<1>14. CatalogStands'
  BY <1>6, <1>13 DEF CatalogStands
<1> QED
  BY <1>11, <1>12, <1>14 DEF Inv

\* Neither list is shown, or the button has gone with nothing in its place.
LEMMA ErrorsStand ==
    ASSUME Inv, LoadMoreReposFails \/ OpenFails
    PROVE  Inv'
<1>1. TypeOK
  BY DEF Inv
<1>2. UNCHANGED <<repos, tags, style, index, pages, changes>>
  BY DEF LoadMoreReposFails, OpenFails
<1>3. PagesStand'
  BY <1>2 DEF Inv, PagesStand, PageStands, PageCovers, PageAdvances, PageCounts
<1>4. CASE OpenFails
  <2>1. view' = Blank
    BY <1>4 DEF OpenFails
  <2>2. TypeOK'
    BY <1>1, <1>2, <2>1, NamesPositive, SizesAssumption DEF TypeOK, Blank
  <2> QED
    BY <1>3, <2>1, <2>2 DEF Inv, RowsStand, CatalogStands, Blank
<1>5. CASE LoadMoreReposFails
  <2>1. view.list = "catalog" /\ view' = [view EXCEPT !.more = 0, !.moved = TRUE]
    BY <1>5 DEF LoadMoreReposFails
  <2>2. /\ view'.list = "catalog" /\ view'.rows = view.rows /\ view'.more = 0 /\ view'.moved
        /\ view' \in [list : {"none", "tags", "catalog"}, rows : Seq(Nat), more : Nat,
                      start : Cursors, steady : SUBSET Tags, query : SUBSET Repos,
                      matched : SUBSET Repos, moved : BOOLEAN]
    BY <1>1, <2>1 DEF TypeOK
  <2>3. TypeOK'
    BY <1>1, <1>2, <2>1, <2>2, SizesAssumption DEF TypeOK
  <2> QED
    BY <1>3, <2>2, <2>3 DEF Inv, RowsStand, CatalogStands
<1> QED
  BY <1>4, <1>5

\* A page is forgotten.
LEMMA ForgetStands ==
    ASSUME Inv, NEW k \in PageKeys, Forget(k)
    PROVE  Inv'
<1>1. TypeOK
  BY DEF Inv
<1>2. pages' = [pages EXCEPT ![k] = None] /\ UNCHANGED <<repos, tags, style, index, view, changes>>
  BY DEF Forget
<1>3. pages' \in [PageKeys -> Page \cup {None}]
  BY <1>1, <1>2 DEF TypeOK
<1>4. ASSUME NEW j \in PageKeys, pages'[j] # None PROVE pages[j] # None /\ pages'[j] = pages[j]
  BY <1>1, <1>2, <1>4 DEF TypeOK
<1>5. PagesStand'
  BY <1>2, <1>3, <1>4, AgedStands
<1>6. TypeOK'
  BY <1>1, <1>2, <1>3 DEF TypeOK
<1> QED
  BY <1>2, <1>5, <1>6 DEF Inv, RowsStand, CatalogStands

-----------------------------------------------------------------------------
(* The theorems.                                                           *)

\* An empty browser shows nothing wrong.
LEMMA InvInit == Init => Inv
<1> SUFFICES ASSUME Init PROVE Inv
  OBVIOUS
<1>1. view = Blank /\ \A k \in PageKeys : pages[k] = None
  BY DEF Init
<1>2. view \in [list : {"none", "tags", "catalog"}, rows : Seq(Nat), more : Nat,
                start : Cursors, steady : SUBSET Tags, query : SUBSET Repos,
                matched : SUBSET Repos, moved : BOOLEAN]
  BY <1>1, NamesPositive DEF Blank
<1>3. view.list = "none" /\ view.rows = <<>> /\ view.more = 0
  BY <1>1 DEF Blank
<1>4. TypeOK
  BY <1>2, <1>3, SizesAssumption DEF Init, TypeOK
<1> QED
  BY <1>1, <1>3, <1>4 DEF Inv, PagesStand, RowsStand, CatalogStands

\* Every step keeps what the lists rest on.
LEMMA InvStep == Inv /\ [Next]_vars => Inv'
<1> SUFFICES ASSUME Inv, [Next]_vars PROVE Inv'
  OBVIOUS
<1>1. CASE \E t \in Tags : TagChanges(t)
  BY <1>1, TagChangesStands
<1>2. CASE \E r \in Repos : RepoChanges(r)
  <2>1. PICK r \in Repos : RepoChanges(r)
    BY <1>2
  <2>2. UNCHANGED <<tags, style, index, pages, view>>
    BY <2>1 DEF RepoChanges
  <2>3. TypeOK'
    BY <2>1, <2>2 DEF RepoChanges, Inv, TypeOK, SymDiff
  <2> QED
    BY <2>2, <2>3 DEF Inv, PagesStand, RowsStand, CatalogStands, PageStands, PageCovers,
                      PageAdvances, PageCounts
<1>3. CASE \E k \in PageKeys : Forget(k)
  BY <1>3, ForgetStands
<1>4. CASE ForgetIndex
  BY <1>4 DEF ForgetIndex, Inv, TypeOK, PagesStand, RowsStand, CatalogStands, PageStands,
              PageCovers, PageAdvances, PageCounts
<1>5. CASE \E c \in Starts : OpenRepository(c)
  BY <1>5, OpenRepositoryStands
<1>6. CASE LoadMoreTags
  BY <1>6, LoadMoreTagsStands
<1>7. CASE CountTags
  BY <1>7, CountTagsStands
<1>8. CASE \E q \in Queries : OpenCatalog(q)
  BY <1>8, OpenCatalogStands
<1>9. CASE LoadMoreRepos
  BY <1>9, LoadMoreReposStands
<1>10. CASE LoadMoreReposFails \/ OpenFails
  BY <1>10, ErrorsStand
<1>11. CASE UNCHANGED vars
  BY <1>11 DEF vars, Inv, TypeOK, PagesStand, RowsStand, CatalogStands, PageStands,
               PageCovers, PageAdvances, PageCounts
<1> QED
  BY <1>1, <1>2, <1>3, <1>4, <1>5, <1>6, <1>7, <1>8, <1>9, <1>10, <1>11 DEF Next

\* The types of the registry, the caches and what the browser shows.
THEOREM ListingsTyped == Spec => []TypeOK
<1>1. Inv => TypeOK
  BY DEF Inv
<1> QED
  BY <1>1, InvInit, InvStep, PTL DEF Spec

\* When the button has gone no steady tag is missing, for any number of tags,
\* page size and display order (client.go:530-534, 958-998).
THEOREM ListingsTagsComplete == Spec => []TagsComplete
<1>1. Inv => TagsComplete
  <2> SUFFICES ASSUME Inv, view.list = "tags", view.more = 0,
                      NEW t \in view.steady, t > view.start
               PROVE  t \in ToSet(view.rows)
    BY DEF TagsComplete
  <2>1. t \in Nat /\ view.start \in Nat
    BY NamesPositive DEF Inv, TypeOK
  <2>2. view.start < t
    BY <2>1
  <2> QED
    BY <2>2 DEF Inv, RowsStand
<1> QED
  BY <1>1, InvInit, InvStep, PTL DEF Spec

\* No tag is listed twice, unless the registry ignores n and last
\* (client.go:531-535).
THEOREM ListingsNoTagTwice == Spec => []NoTagTwice
<1>1. Inv => NoTagTwice
  BY DEF Inv, RowsStand, NoTagTwice
<1> QED
  BY <1>1, InvInit, InvStep, PTL DEF Spec

\* A counter without a plus is exact (handlers.go:154-163).
THEOREM ListingsCountExact == Spec => []CountExact
<1>1. Inv => CountExact
  <2> SUFFICES ASSUME Inv PROVE CountExact
    OBVIOUS
  <2> DEFINE k == <<Clamp(TagCountLimit), 0>>
  <2>1. k \in PageKeys /\ k[2] = 0
    BY NamesPositive DEF PageKeys
  <2>2. pages[k] # None => PageCounts(pages[k], 0)
    BY <2>1 DEF Inv, PagesStand, PageStands
  <2> QED
    BY <2>2 DEF CountExact, Counter, PageCounts
<1> QED
  BY <1>1, InvInit, InvStep, PTL DEF Spec

\* Offsets neither skip nor repeat a repository while the filtered list stays
\* the same (handlers.go:106-133).
THEOREM ListingsCatalogComplete == Spec => []CatalogComplete
<1>1. Inv => CatalogComplete
  BY DEF Inv, CatalogStands, CatalogComplete
<1> QED
  BY <1>1, InvInit, InvStep, PTL DEF Spec

-----------------------------------------------------------------------------
(* Images: row and page are what the answer makes of them.                 *)

ImageInv == /\ answer \in Documents \cup {Absent}
            /\ answer = Absent => row = Absent /\ page = Absent
            /\ row # Absent => row = Outcome(Image(answer), TagSummary(Image(answer)))
            /\ page # Absent => page = Outcome(Image(answer), ImagePage(Image(answer)))

\* Row and page are made of the answer there is, and go with it.
LEMMA ImageInvariant == ImageSpec => []ImageInv
<1>1. ImageInit => ImageInv
  BY DEF ImageInit, ImageInv
<1>2. ImageInv /\ [ImageNext]_imageVars => ImageInv'
  <2> SUFFICES ASSUME ImageInv, [ImageNext]_imageVars PROVE ImageInv'
    OBVIOUS
  <2> USE DEF ImageInv
  <2>1. CASE Answer
    BY <2>1 DEF Answer
  <2>2. CASE HandleTagRow
    BY <2>2 DEF HandleTagRow
  <2>3. CASE HandleImage
    BY <2>3 DEF HandleImage
  <2>4. CASE Leave
    BY <2>4 DEF Leave
  <2>5. CASE UNCHANGED imageVars
    BY <2>5 DEF imageVars
  <2> QED
    BY <2>1, <2>2, <2>3, <2>4, <2>5 DEF ImageNext
<1> QED
  BY <1>1, <1>2, PTL DEF ImageSpec

\* What an index is turned into: its children, and nothing of its own.
LEMMA IndexImage ==
    ASSUME NEW doc, KindOf(doc) = "index"
    PROVE  /\ Image(doc) = FromIndex(doc)
           /\ FromIndex(doc).isIndex
           /\ FromIndex(doc).config = Absent
           /\ FromIndex(doc).layers = <<>>
           /\ FromIndex(doc).children = Children(doc)
           /\ FromIndex(doc).total = DistinctSize(Children(doc))
BY DEF Image, FromIndex, Bare

\* The row of an index and its page.
LEMMA IndexViews ==
    ASSUME ImageInv, OfIndex
    PROVE  /\ row \notin Views =>
                  row.platforms = Deduped(UNION {ChildPlatforms(c) : c \in Values(Children(answer))})
           /\ page \notin Views => page = ImagePage(FromIndex(answer))
<1> DEFINE image == FromIndex(answer)
<1>1. Image(answer) = image /\ image.isIndex /\ image.children = Children(answer)
  BY IndexImage DEF OfIndex
<1>2. ASSUME row \notin Views PROVE row = TagSummary(image)
  BY <1>1, <1>2 DEF ImageInv, Views, Outcome
<1>3. ASSUME page \notin Views PROVE page = ImagePage(image)
  BY <1>1, <1>3 DEF ImageInv, Views, Outcome
<1> HIDE DEF image
<1>4. TagSummary(image).platforms
        = Deduped(UNION {ChildPlatforms(c) : c \in Values(Children(answer))})
  BY <1>1 DEF TagSummary
<1> QED
  BY <1>2, <1>3, <1>4 DEF image

\* Where the page's platforms come from.
Named(children) == {ChildView(c).platform : c \in {d \in Values(children) : ~ChildView(d).attestation}}

\* The page of an index names the platforms of its children.
LEMMA IndexPlatforms ==
    ASSUME NEW doc, KindOf(doc) = "index"
    PROVE  ImagePage(FromIndex(doc)).platforms = Named(Children(doc))
<1> DEFINE image == FromIndex(doc)
           views == [i \in DOMAIN image.children |-> ChildView(image.children[i])]
           named == {v.platform : v \in {w \in Values(views) : ~w.attestation}}
<1>1. image.children = Children(doc) /\ image.config = Absent
  BY IndexImage
<1> HIDE DEF image
<1>2. ImagePage(image).platforms = named
  BY <1>1 DEF ImagePage
<1>3. Values(views) = {ChildView(c) : c \in Values(image.children)}
  BY DEF Values
<1> HIDE DEF views
<1>4. named = Named(image.children)
  BY <1>3 DEF Named
<1> QED
  BY <1>1, <1>2, <1>4 DEF image

\* Platforms that read alike are alike to every test, and a placeholder never
\* reads as one that is none.
LEMMA PlatformTexts ==
    ASSUME NEW p, NEW q, Placeholder(p), HalfUnknown(p), String(q) = String(p)
    PROVE  Placeholder(q) /\ HalfUnknown(q)
<1>1. ~NoPlatform(p)
  BY DEF Placeholder, Unknowns, NoPlatform
<1>2. String(p) = <<p.os, p.arch, p.variant>>
  BY <1>1 DEF String
<1>3. q.os = p.os /\ q.arch = p.arch
  <2>1. CASE NoPlatform(q)
    <3>1. String(q) = <<"unknown">>
      BY <2>1 DEF String
    <3>2. Len(String(q)) = 1 /\ Len(String(p)) = 3
      BY <1>2, <3>1
    <3> QED
      BY <3>2
  <2>2. CASE ~NoPlatform(q)
    <3>1. String(q) = <<q.os, q.arch, q.variant>>
      BY <2>2 DEF String
    <3> QED
      BY <1>2, <3>1
  <2> QED
    BY <2>1, <2>2
<1> QED
  BY <1>3 DEF Placeholder, HalfUnknown

\* For every answer, tag row and image page name the same platforms as far as
\* the index says what they are, and no attestation (client.go:1156-1195,
\* handlers.go:407-440): both look at the same children, and differ in how.
THEOREM ImagesPlatformsAgree == ImageSpec => []PlatformsAgree
<1>1. ImageInv => PlatformsAgree
  <2> SUFFICES ASSUME ImageInv, row \notin Views, page \notin Views, OfIndex
               PROVE  PlatformsAgree!2
    BY DEF PlatformsAgree
  <2> DEFINE children == Children(answer)
             platforms == UNION {ChildPlatforms(c) : c \in Values(children)}
             listed == {String(p) : p \in row.platforms}
             named == {c.platform : c \in Values(children)} \ {Absent}
             full == {p \in named : ~HalfUnknown(p) /\ ~Placeholder(p) /\ ~NoPlatform(p)}
  <2>1. row.platforms = Deduped(platforms)
    BY IndexViews
  <2>2. page.platforms = Named(children)
    BY IndexViews, IndexPlatforms DEF OfIndex
  <2>3. ASSUME NEW c \in Values(children), c.platform # Absent
        PROVE  /\ c.platform \in platforms
               /\ ChildView(c).platform = String(c.platform)
               /\ ChildView(c).attestation <=> HalfUnknown(c.platform)
    BY <2>3 DEF ChildPlatforms, ChildView
  <2>4. ASSUME NEW c \in Values(children), c.platform = Absent
        PROVE  ChildView(c).platform = <<"unknown">>
    BY <2>4 DEF ChildView
  <2> HIDE DEF children
  <2>5. ASSUME NEW p \in full PROVE String(p) \in listed /\ String(p) \in page.platforms
    <3>1. PICK c \in Values(children) : c.platform = p /\ p # Absent
      OBVIOUS
    <3>2. p \in Deduped(platforms)
      BY <2>3, <2>5, <3>1 DEF Deduped
    <3>3. ~ChildView(c).attestation /\ ChildView(c).platform = String(p)
      BY <2>3, <2>5, <3>1
    <3>4. String(p) \in Named(children)
      BY <3>1, <3>3 DEF Named
    <3> QED
      BY <2>1, <2>2, <3>2, <3>4
  <2>6. ASSUME NEW p \in named, Placeholder(p), HalfUnknown(p) PROVE String(p) \notin listed
    BY <2>1, <2>6, PlatformTexts DEF Deduped
  <2>7. ASSUME NEW p \in named, Placeholder(p), HalfUnknown(p)
        PROVE  String(p) \notin page.platforms
    <3> SUFFICES ASSUME NEW c \in Values(children), ~ChildView(c).attestation
                 PROVE  ChildView(c).platform # String(p)
      BY <2>2 DEF Named
    <3>1. CASE c.platform = Absent
      <4>1. String(p) = <<p.os, p.arch, p.variant>>
        BY <2>7 DEF String, Placeholder, Unknowns, NoPlatform
      <4>2. Len(String(p)) = 3 /\ Len(<<"unknown">>) = 1
        BY <4>1
      <4> QED
        BY <2>4, <3>1, <4>2
    <3>2. CASE c.platform # Absent
      BY <2>3, <2>7, <3>2, PlatformTexts
    <3> QED
      BY <3>1, <3>2
  <2>8. ASSUME named = full PROVE page.platforms \ {<<"unknown">>} \subseteq listed
    <3> SUFFICES ASSUME NEW c \in Values(children), ~ChildView(c).attestation,
                        ChildView(c).platform # <<"unknown">>
                 PROVE  ChildView(c).platform \in listed
      BY <2>2 DEF Named
    <3>1. c.platform # Absent
      BY <2>4
    <3>2. c.platform \in full
      BY <2>8, <3>1
    <3> QED
      BY <2>3, <2>5, <3>1, <3>2
  <2> QED
    BY <2>5, <2>6, <2>7, <2>8 DEF children
<1> QED
  BY <1>1, ImageInvariant, PTL

-----------------------------------------------------------------------------
(* Images: the layers on the page.                                         *)

\* A finite set of numbers has a least one.
LEMMA MinIsLeast ==
    ASSUME NEW S \in SUBSET Int, IsFiniteSet(S), S # {}
    PROVE  Min(S) \in S /\ \A t \in S : Min(S) <= t
<1>1. Cardinality(S) \in Nat /\ Cardinality(S) # 0 /\ Keyed(S, Itself(S))
  BY FS_CardinalityType, FS_EmptySet, NumbersKeyed
<1>2. PICK m \in S : Rank(S, Itself(S), m) = 1
  <2>1. 1 \in 1 .. Cardinality(S)
    BY <1>1
  <2> QED
    BY <1>1, <2>1, RankSurjects
<1>3. ASSUME NEW t \in S PROVE m <= t
  <2>1. Rank(S, Itself(S), t) \in 1 .. Cardinality(S)
    BY <1>1, RankBounds
  <2>2. ~(Rank(S, Itself(S), t) < Rank(S, Itself(S), m))
    BY <1>2, <2>1
  <2>3. ~(Itself(S)[t] < Itself(S)[m])
    BY <1>1, <2>2, RankAscends
  <2> QED
    BY <2>3 DEF Itself
<1> QED
  BY <1>3 DEF Min

\* The first, the second, ... and the last of a set of numbers are all of it,
\* in ascending order.
LEMMA NthCounts ==
    ASSUME NEW S \in SUBSET Int, IsFiniteSet(S)
    PROVE  /\ \A n \in 1 .. Cardinality(S) : Nth(S, n) \in S
           /\ \A k \in S : \E n \in 1 .. Cardinality(S) : Nth(S, n) = k
           /\ \A m, n \in 1 .. Cardinality(S) : m < n => Nth(S, m) < Nth(S, n)
<1> DEFINE key == Itself(S)
<1>1. /\ Keyed(S, key)
      /\ \A k \in S : Rank(S, key, k) = Cardinality({j \in S : j <= k})
      /\ \A k \in S : key[k] = k
  BY NumbersKeyed DEF Itself
<1> HIDE DEF key
<1>2. ASSUME NEW n \in 1 .. Cardinality(S)
      PROVE  Nth(S, n) \in S /\ Rank(S, key, Nth(S, n)) = n
  <2>1. \E k \in S : Cardinality({j \in S : j <= k}) = n
    <3>1. PICK k \in S : Rank(S, key, k) = n
      BY <1>1, RankSurjects
    <3> QED
      BY <1>1, <3>1
  <2>2. Nth(S, n) \in S /\ Cardinality({j \in S : j <= Nth(S, n)}) = n
    BY <2>1 DEF Nth
  <2> QED
    BY <1>1, <2>2
<1>3. ASSUME NEW k \in S PROVE \E n \in 1 .. Cardinality(S) : Nth(S, n) = k
  <2> DEFINE n == Rank(S, key, k)
  <2>1. n \in 1 .. Cardinality(S)
    BY <1>1, RankBounds
  <2>2. Nth(S, n) \in S /\ Rank(S, key, Nth(S, n)) = n
    BY <1>2, <2>1
  <2>3. ~(key[k] < key[Nth(S, n)]) /\ ~(key[Nth(S, n)] < key[k])
    <3>1. ~(Rank(S, key, k) < Rank(S, key, Nth(S, n))) /\ ~(Rank(S, key, Nth(S, n)) < Rank(S, key, k))
      BY <2>1, <2>2
    <3> QED
      BY <1>1, <2>2, <3>1, RankAscends
  <2>4. Nth(S, n) = k
    <3>1. key[k] = k /\ key[Nth(S, n)] = Nth(S, n) /\ k \in Int /\ Nth(S, n) \in Int
      BY <1>1, <2>2
    <3> HIDE DEF n
    <3> QED
      BY <2>3, <3>1
  <2> QED
    BY <2>1, <2>4
<1>4. ASSUME NEW m \in 1 .. Cardinality(S), NEW n \in 1 .. Cardinality(S), m < n
      PROVE  Nth(S, m) < Nth(S, n)
  <2>1. Rank(S, key, Nth(S, m)) < Rank(S, key, Nth(S, n))
    BY <1>2, <1>4
  <2>2. key[Nth(S, m)] < key[Nth(S, n)]
    BY <1>1, <1>2, <2>1, RankAscends
  <2> QED
    BY <1>1, <1>2, <2>2
<1> QED
  BY <1>2, <1>3, <1>4

\* The places of a list.
LEMMA ListPlaces ==
    ASSUME NEW s, s \in Seq(Values(s))
    PROVE  /\ DOMAIN s = 1 .. Len(s) /\ Len(s) \in Nat
           /\ IsFiniteSet(DOMAIN s) /\ DOMAIN s \subseteq Int
           /\ Cardinality(DOMAIN s) = Len(s)
<1>1. DOMAIN s = 1 .. Len(s) /\ Len(s) \in Nat
  OBVIOUS
<1>2. IsFiniteSet(1 .. Len(s)) /\ Cardinality(1 .. Len(s)) = Len(s)
  BY <1>1, FS_Interval
<1> QED
  BY <1>1, <1>2

\* Whatever has places like a list is one.
LEMMA ListOfValues ==
    ASSUME NEW n \in Nat, NEW s, s = [i \in DOMAIN s |-> s[i]], DOMAIN s = 1 .. n
    PROVE  s \in Seq(Values(s)) /\ Len(s) = n
<1>1. s \in [1 .. n -> Values(s)]
  BY DEF Values
<1> QED
  BY <1>1

\* The commands of layers are the steps of a history that made layers, or none.
Fits(layers, config) ==
    LET commands == [i \in DOMAIN layers |-> layers[i].command]
        steps == IF config = Absent THEN {} ELSE {i \in DOMAIN config.history : ~config.history[i]}
    IN  \/ Values(commands) \subseteq {0}
        \/ /\ Values(commands) = steps
           /\ \A i, j \in DOMAIN commands : i < j => commands[i] < commands[j]

\* What applyHistoryToLayers attaches fits, whatever the history.
LEMMA HistoryFits ==
    ASSUME NEW layers, layers \in Seq(Values(layers)),
           \A i \in DOMAIN layers : layers[i].command = 0 /\ "command" \in DOMAIN layers[i],
           NEW config, config # Absent, config.history \in Seq(BOOLEAN)
    PROVE  Fits(WithHistory(config.history, layers), config)
<1> DEFINE steps == Steps(config.history)
           with == WithHistory(config.history, layers)
           commands == [i \in DOMAIN with |-> with[i].command]
<1>1. IsFiniteSet(steps) /\ steps \in SUBSET Int
  <2>1. config.history \in Seq(Values(config.history))
    BY DEF Values
  <2>2. IsFiniteSet(DOMAIN config.history) /\ DOMAIN config.history \subseteq Int
    BY <2>1, ListPlaces
  <2> QED
    BY <2>2, FS_Subset DEF Steps
<1>2. CASE Cardinality(steps) # Len(layers)
  <2>1. with = layers
    BY <1>2 DEF WithHistory
  <2>2. Values([i \in DOMAIN layers |-> layers[i].command]) \subseteq {0}
    BY DEF Values
  <2> QED
    BY <2>1, <2>2 DEF Fits
<1>3. CASE Cardinality(steps) = Len(layers)
  <2>1. with = [i \in DOMAIN layers |-> [layers[i] EXCEPT !.command = Nth(steps, i)]]
    BY <1>3 DEF WithHistory
  <2>2. DOMAIN layers = 1 .. Cardinality(steps)
    BY <1>3, ListPlaces
  <2> HIDE DEF with, steps
  <2>3. commands = [i \in 1 .. Cardinality(steps) |-> Nth(steps, i)]
    BY <2>1, <2>2
  <2> HIDE DEF commands
  <2>4. Values(commands) = steps
    <3>1. \A i \in DOMAIN commands : commands[i] \in steps
      BY <1>1, <2>3, NthCounts
    <3>2. \A k \in steps : \E i \in DOMAIN commands : commands[i] = k
      BY <1>1, <2>3, NthCounts
    <3> QED
      BY <3>1, <3>2 DEF Values
  <2>5. \A i, j \in DOMAIN commands : i < j => commands[i] < commands[j]
    BY <1>1, <2>3, NthCounts
  <2>6. steps = {i \in DOMAIN config.history : ~config.history[i]}
    BY DEF steps, Steps
  <2> QED
    BY <2>4, <2>5, <2>6 DEF Fits, commands, with
<1> QED
  BY <1>2, <1>3

\* The layers and the config of a manifest fit each other.
LEMMA ManifestFits ==
    ASSUME NEW doc, Readable(doc)
    PROVE  Fits(FromManifest(doc).layers, FromManifest(doc).config)
<1> DEFINE layers == [i \in DOMAIN doc.layers |->
                        [digest |-> doc.layers[i].digest, size |-> doc.layers[i].size, command |-> 0]]
           config == IF doc.config.digest = "" THEN Absent ELSE doc.config.blob
<1>1. FromManifest(doc).config = config
  BY DEF FromManifest, Bare
<1>2. FromManifest(doc).layers = IF config = Absent THEN layers
                                 ELSE WithHistory(config.history, layers)
  BY DEF FromManifest, Bare
<1>3. \A i \in DOMAIN layers : layers[i].command = 0 /\ "command" \in DOMAIN layers[i]
  OBVIOUS
<1>4. layers \in Seq(Values(layers))
  <2>1. DOMAIN layers = 1 .. Len(doc.layers) /\ Len(doc.layers) \in Nat
    BY ListPlaces DEF Readable
  <2>2. layers = [i \in DOMAIN layers |-> layers[i]]
    OBVIOUS
  <2> HIDE DEF layers
  <2> QED
    BY <2>1, <2>2, ListOfValues
<1> HIDE DEF layers
<1>5. CASE config = Absent
  <2>1. Values([i \in DOMAIN layers |-> layers[i].command]) \subseteq {0}
    BY <1>3 DEF Values
  <2>2. FromManifest(doc).layers = layers
    BY <1>2, <1>5
  <2> QED
    BY <2>1, <2>2 DEF Fits
<1>6. CASE config # Absent
  <2>1. config.history \in Seq(BOOLEAN)
    BY <1>6 DEF Readable
  <2> HIDE DEF config
  <2>2. Fits(WithHistory(config.history, layers), config)
    BY <1>3, <1>4, <1>6, <2>1, HistoryFits
  <2> QED
    BY <1>1, <1>2, <1>6, <2>2
<1> QED
  BY <1>5, <1>6

\* A child of an index is one of its references, resolved.
LEMMA ChildrenResolved ==
    ASSUME NEW doc, Readable(doc)
    PROVE  /\ Children(doc) \in Seq(Values(Children(doc)))
           /\ \A c \in Values(Children(doc)) :
                  \E ref \in Values(doc.manifests) : c.resolved = Resolved(ref)
<1> DEFINE usable == {i \in DOMAIN doc.manifests : doc.manifests[i].digest # Unusable}
           refs == [n \in 1 .. Cardinality(usable) |-> doc.manifests[Nth(usable, n)]]
           children == Children(doc)
<1>1. IsFiniteSet(usable) /\ usable \in SUBSET Int
  <2>1. doc.manifests \in Seq(Values(doc.manifests))
    BY DEF Readable
  <2>2. IsFiniteSet(DOMAIN doc.manifests) /\ DOMAIN doc.manifests \subseteq Int
    BY <2>1, ListPlaces
  <2> QED
    BY <2>2, FS_Subset
<1>2. Cardinality(usable) \in Nat
  BY <1>1, FS_CardinalityType
<1>3. \A n \in 1 .. Cardinality(usable) : refs[n] \in Values(doc.manifests)
  <2>1. \A n \in 1 .. Cardinality(usable) : Nth(usable, n) \in usable
    <3> HIDE DEF usable
    <3> QED BY <1>1, NthCounts
  <2> QED
    BY <2>1 DEF Values
<1>4. /\ DOMAIN children = 1 .. Cardinality(usable)
      /\ children = [i \in DOMAIN children |-> children[i]]
      /\ \A n \in 1 .. Cardinality(usable) : children[n].resolved = Resolved(refs[n])
  BY DEF Children
<1> HIDE DEF usable, refs, children
<1>5. children \in Seq(Values(children))
  BY <1>2, <1>4, ListOfValues
<1>6. \A c \in Values(children) : \E ref \in Values(doc.manifests) : c.resolved = Resolved(ref)
  BY <1>3, <1>4 DEF Values
<1> QED
  BY <1>5, <1>6 DEF children

\* Where the first of a list is found, if there is one: the test is the set of
\* places that pass it.
LEMMA FirstFound ==
    ASSUME NEW s, s \in Seq(Values(s)), NEW I, I \subseteq 1 .. Len(s), NEW found,
           found = IF I # {} THEN Min(I) ELSE 0
    PROVE  /\ found # 0 <=> I # {}
           /\ found # 0 => found \in I /\ s[found] \in Values(s)
<1>1. DOMAIN s = 1 .. Len(s) /\ Len(s) \in Nat /\ IsFiniteSet(1 .. Len(s))
  BY ListPlaces
<1>2. IsFiniteSet(I)
  BY <1>1, FS_Subset
<1>3. I \in SUBSET Int /\ 0 \notin I
  BY <1>1
<1>4. I # {} => found \in I
  BY <1>2, <1>3, MinIsLeast
<1>5. \A i \in I : s[i] \in Values(s)
  BY <1>1 DEF Values
<1> QED
  BY <1>3, <1>4, <1>5

Amd64Linux(c) == c.platform.os = "linux" /\ c.platform.arch = "amd64"

\* The child that stands in for an index is fit for it, and is for linux/amd64
\* if a fit one is.
LEMMA StandInIsFit ==
    ASSUME NEW image, image.children \in Seq(Values(image.children)),
           Absent \notin Values(image.children)
    PROVE  LET stand == RepresentativeChild(image)
           IN  /\ stand # Absent => stand \in Values(image.children) /\ ~Unfit(stand)
               /\ \A c \in Values(image.children) : ~Unfit(c) /\ Amd64Linux(c) =>
                      stand # Absent /\ Amd64Linux(stand)
<1> DEFINE children == image.children
           fit == {i \in 1 .. Len(children) : ~Unfit(children[i])}
           liked == {i \in 1 .. Len(children) : /\ ~Unfit(children[i])
                                                /\ children[i].platform.os = "linux"
                                                /\ children[i].platform.arch = "amd64"}
           first == IF fit # {} THEN Min(fit) ELSE 0
           best == IF liked # {} THEN Min(liked) ELSE 0
           stand == RepresentativeChild(image)
<1>1. stand = IF best # 0 THEN children[best] ELSE IF first # 0 THEN children[first] ELSE Absent
  BY DEF RepresentativeChild, SelectInSeq
<1>2. /\ first # 0 <=> fit # {}
      /\ first # 0 => first \in fit /\ children[first] \in Values(children)
  BY FirstFound
<1>3. /\ best # 0 <=> liked # {}
      /\ best # 0 => best \in liked /\ children[best] \in Values(children)
  BY FirstFound
<1> HIDE DEF stand, first, best
<1>4. stand # Absent => stand \in Values(children) /\ ~Unfit(stand)
  BY <1>1, <1>2, <1>3
<1>5. ASSUME NEW c \in Values(children), ~Unfit(c), Amd64Linux(c)
      PROVE  stand # Absent /\ Amd64Linux(stand)
  <2>1. PICK i \in 1 .. Len(children) : children[i] = c
    BY ListPlaces DEF Values
  <2>2. i \in liked
    BY <1>5, <2>1 DEF Amd64Linux
  <2>3. best # 0 /\ best \in liked /\ children[best] \in Values(children)
    BY <1>3, <2>2
  <2>4. stand = children[best]
    BY <1>1, <2>3
  <2> QED
    BY <2>3, <2>4 DEF Amd64Linux
<1> QED
  BY <1>4, <1>5 DEF stand

\* What the page of an index shows of its children, and that of a manifest of
\* itself.
LEMMA IndexPage ==
    ASSUME NEW doc, KindOf(doc) = "index"
    PROVE  LET stand == RepresentativeChild(FromIndex(doc))
               shown == ImagePage(FromIndex(doc))
           IN  /\ shown.layers = IF stand = Absent THEN <<>> ELSE stand.resolved.layers
               /\ shown.config = IF stand = Absent THEN Absent ELSE stand.resolved.config
               /\ shown.from = IF stand = Absent THEN Absent ELSE String(stand.platform)
               /\ shown.hot = Hot(shown.layers)
<1> DEFINE image == FromIndex(doc)
<1>1. image.isIndex /\ image.layers = <<>> /\ image.config = Absent
  BY IndexImage
<1> HIDE DEF image
<1> QED
  BY <1>1 DEF ImagePage, image

\* The page of a manifest shows its own layers and config.
LEMMA ManifestPage ==
    ASSUME NEW doc, KindOf(doc) = "manifest"
    PROVE  LET shown == ImagePage(FromManifest(doc))
           IN  /\ Image(doc) = FromManifest(doc)
               /\ shown.layers = FromManifest(doc).layers
               /\ shown.config = FromManifest(doc).config
               /\ shown.from = Absent
               /\ shown.hot = Hot(shown.layers)
<1> DEFINE image == FromManifest(doc)
<1>1. ~image.isIndex
  BY DEF FromManifest, Bare
<1>2. Image(doc) = image
  BY DEF Image
<1> HIDE DEF image
<1> QED
  BY <1>1, <1>2 DEF ImagePage, image

\* A page is of an index or of a manifest.
LEMMA PageOf ==
    ASSUME ImageInv, page \notin Views
    PROVE  /\ answer \in Documents /\ Readable(answer)
           /\ \/ OfIndex /\ page = ImagePage(FromIndex(answer))
              \/ ~OfIndex /\ KindOf(answer) = "manifest" /\ page = ImagePage(FromManifest(answer))
<1>1. answer \in Documents /\ Readable(answer) /\ answer # Absent
  BY DocumentsAssumption, AbsentAssumption DEF ImageInv, Views
<1>2. Image(answer) # Absent /\ page = ImagePage(Image(answer))
  BY DEF ImageInv, Views, Outcome
<1>3. KindOf(answer) \in {"index", "manifest", "unsupported"}
  BY DEF KindOf, KindByShape
<1>4. CASE KindOf(answer) = "index"
  BY <1>1, <1>2, <1>4, IndexImage DEF OfIndex
<1>5. CASE KindOf(answer) = "manifest"
  BY <1>1, <1>2, <1>5, ManifestPage DEF OfIndex
<1>6. CASE KindOf(answer) = "unsupported"
  BY <1>2, <1>6 DEF Image
<1> QED
  BY <1>3, <1>4, <1>5, <1>6

\* What stands in for an index: one of its children that is a manifest.
LEMMA StandIn ==
    ASSUME NEW doc \in Documents, KindOf(doc) = "index",
           NEW stand, stand = RepresentativeChild(FromIndex(doc))
    PROVE  /\ stand # Absent =>
                  /\ stand \in Values(Children(doc)) /\ ~Unfit(stand)
                  /\ \E child : Readable(child) /\ stand.resolved = FromManifest(child)
           /\ \A c \in Values(Children(doc)) : ~Unfit(c) /\ Amd64Linux(c) =>
                  stand # Absent /\ Amd64Linux(stand)
<1> DEFINE image == FromIndex(doc)
<1>1. Readable(doc) /\ Absent \notin Values(Children(doc))
  BY DocumentsAssumption, AbsentAssumption
<1>2. image.children = Children(doc)
  BY IndexImage
<1>3. Children(doc) \in Seq(Values(Children(doc)))
  BY <1>1, ChildrenResolved
<1> HIDE DEF image
<1>4. /\ stand # Absent => stand \in Values(Children(doc)) /\ ~Unfit(stand)
      /\ \A c \in Values(Children(doc)) : ~Unfit(c) /\ Amd64Linux(c) =>
             stand # Absent /\ Amd64Linux(stand)
  BY <1>1, <1>2, <1>3, StandInIsFit DEF image
<1>5. ASSUME stand # Absent PROVE \E child : Readable(child) /\ stand.resolved = FromManifest(child)
  <2>1. PICK ref \in Values(doc.manifests) : stand.resolved = Resolved(ref)
    BY <1>1, <1>4, <1>5, ChildrenResolved
  <2>2. stand.resolved # Absent /\ stand.resolved.layers # <<>>
    BY <1>4, <1>5 DEF Unfit
  <2>3. Bare("index").layers = <<>>
    BY DEF Bare
  <2>4. ref.answer # Absent /\ Resolved(ref) = FromManifest(ref.answer)
    BY <2>1, <2>2, <2>3 DEF Resolved
  <2>5. Readable(ref.answer)
    BY <2>4, DocumentsAssumption
  <2> QED
    BY <2>1, <2>4, <2>5
<1> QED
  BY <1>4, <1>5

\* For every answer, the commands on the page are the steps that made layers in
\* the history of the config on the page, or there are none, whichever child's
\* layers stand there (manifest.go:297-315, handlers.go:382-398).
THEOREM ImagesCommandsFitHistory == ImageSpec => []CommandsFitHistory
<1>1. ImageInv => CommandsFitHistory
  <2> SUFFICES ASSUME ImageInv, page \notin Views PROVE Fits(page.layers, page.config)
    BY DEF CommandsFitHistory, Fits
  <2>1. CASE OfIndex
    <3> DEFINE stand == RepresentativeChild(FromIndex(answer))
    <3>1. /\ page.layers = IF stand = Absent THEN <<>> ELSE stand.resolved.layers
          /\ page.config = IF stand = Absent THEN Absent ELSE stand.resolved.config
      BY <2>1, PageOf, IndexPage DEF OfIndex
    <3>2. CASE stand = Absent
      BY <3>1, <3>2 DEF Fits, Values
    <3>3. CASE stand # Absent
      <4>1. PICK child : Readable(child) /\ stand.resolved = FromManifest(child)
        BY <2>1, <3>3, PageOf, StandIn DEF OfIndex
      <4> QED
        BY <3>1, <3>3, <4>1, ManifestFits
    <3> QED
      BY <3>2, <3>3
  <2>2. CASE ~OfIndex
    <3>1. /\ page.layers = FromManifest(answer).layers
          /\ page.config = FromManifest(answer).config
      BY <2>2, PageOf, ManifestPage
    <3> QED
      BY <3>1, PageOf, ManifestFits
  <2> QED
    BY <2>1, <2>2
<1> QED
  BY <1>1, ImageInvariant, PTL

-----------------------------------------------------------------------------
(* Folds.  What is said of all numbers or of all finite sets is said as a  *)
(* set that holds them, so that induction needs no operator for it.        *)

\* Induction on the natural numbers, as a fact about sets.
LEMMA SetInduction ==
    ASSUME NEW S, 0 \in S, \A n \in Nat : n \in S => n + 1 \in S
    PROVE  Nat \subseteq S
<1> SUFFICES ASSUME NEW n \in Nat, n \notin S PROVE FALSE
  OBVIOUS
<1> DEFINE gaps == {m \in Nat : m \notin S}
<1>1. gaps # {} /\ gaps \subseteq Nat
  OBVIOUS
<1>2. PICK m \in gaps : \A k \in gaps : ~(<<k, m>> \in OpToRel(<, Nat))
  <2> HIDE DEF gaps
  <2> QED BY <1>1, NatLessThanWellFounded, WFMin
<1>3. \A k \in gaps : ~(k < m)
  BY <1>2 DEF OpToRel
<1> QED
  BY <1>3

\* pick takes an element of every part of S that has one.
Picks(pick, S) == \A T \in SUBSET S : T # {} => pick[T] \in T

\* Good holds {}, and a part of S if it holds what is left when one is picked.
Inductive(Good, S, pick) ==
    /\ {} \in Good
    /\ \A T \in SUBSET S : T # {} /\ T \ {pick[T]} \in Good => T \in Good

\* What is inductive holds every part of a finite set.
LEMMA PickInduction ==
    ASSUME NEW S, IsFiniteSet(S), NEW pick, Picks(pick, S),
           NEW Good, Inductive(Good, S, pick)
    PROVE  SUBSET S \subseteq Good
<1> USE DEF Picks, Inductive
<1> DEFINE N == {n \in Nat : \A T \in SUBSET S : Cardinality(T) = n => T \in Good}
<1>1. \A T \in SUBSET S : IsFiniteSet(T) /\ Cardinality(T) \in Nat
  BY FS_Subset, FS_CardinalityType
<1>2. 0 \in N
  BY <1>1, FS_EmptySet
<1>3. ASSUME NEW n \in Nat, n \in N PROVE n + 1 \in N
  <2> SUFFICES ASSUME NEW T \in SUBSET S, Cardinality(T) = n + 1 PROVE T \in Good
    OBVIOUS
  <2>1. T # {} /\ pick[T] \in T
    BY <1>1, FS_EmptySet
  <2>2. T \ {pick[T]} \in SUBSET S
    OBVIOUS
  <2>3. Cardinality(T \ {pick[T]}) = n
    <3>1. Cardinality(T \ {pick[T]}) = Cardinality(T) - 1
      BY <1>1, <2>1, FS_RemoveElement
    <3> QED
      BY <3>1
  <2>4. T \ {pick[T]} \in Good
    BY <1>3, <2>2, <2>3
  <2> QED
    BY <2>1, <2>4
<1>4. Nat \subseteq N
  <2> HIDE DEF N
  <2> QED BY <1>2, <1>3, SetInduction
<1> QED
  BY <1>1, <1>4

\* f folds a step F over S, in the order of pick, beginning with base.
IsFold(f, S, pick, base, F) ==
    \A T \in SUBSET S : f[T] = IF T = {} THEN base ELSE F[<<f[T \ {pick[T]}], pick[T]>>]

\* A fold over a finite set is well defined.
LEMMA FoldDefined ==
    ASSUME NEW S, IsFiniteSet(S), NEW pick, Picks(pick, S),
           NEW V, NEW base \in V, NEW F \in [V \X S -> V]
    PROVE  \E f \in [SUBSET S -> V] : IsFold(f, S, pick, base, F)
<1> USE DEF Picks
<1> DEFINE Small(n) == {T \in SUBSET S : Cardinality(T) <= n}
           Step(f, T) == IF T = {} THEN base ELSE F[<<f[T \ {pick[T]}], pick[T]>>]
           N == {n \in Nat : \E f \in [Small(n) -> V] : \A T \in Small(n) : f[T] = Step(f, T)}
<1>1. \A T \in SUBSET S : IsFiniteSet(T) /\ Cardinality(T) \in Nat
  BY FS_Subset, FS_CardinalityType
<1>2. 0 \in N
  <2> DEFINE f == [T \in Small(0) |-> base]
  <2>1. \A T \in Small(0) : T = {}
    BY <1>1, FS_EmptySet
  <2>2. f \in [Small(0) -> V] /\ \A T \in Small(0) : f[T] = Step(f, T)
    BY <2>1
  <2> QED
    BY <2>2
<1>3. ASSUME NEW n \in Nat, n \in N PROVE n + 1 \in N
  <2>1. PICK f \in [Small(n) -> V] : \A T \in Small(n) : f[T] = Step(f, T)
    BY <1>3
  <2> DEFINE g == [T \in Small(n + 1) |-> Step(f, T)]
  <2>2. ASSUME NEW T \in Small(n + 1), T # {}
        PROVE  T \ {pick[T]} \in Small(n) /\ T \ {pick[T]} \in Small(n + 1) /\ pick[T] \in S
    <3>1. pick[T] \in T /\ T \ {pick[T]} \in SUBSET S
      BY <2>2
    <3>2. Cardinality(T \ {pick[T]}) = Cardinality(T) - 1
      BY <1>1, <3>1, FS_RemoveElement
    <3>3. Cardinality(T \ {pick[T]}) <= n
      BY <1>1, <3>2
    <3>4. Cardinality(T \ {pick[T]}) <= n + 1
      BY <1>1, <3>1, <3>3
    <3> QED
      BY <3>1, <3>3, <3>4
  <2>3. g \in [Small(n + 1) -> V]
    <3>1. \A T \in Small(n + 1) : Step(f, T) \in V
      <4> SUFFICES ASSUME NEW T \in Small(n + 1), T # {} PROVE Step(f, T) \in V
        OBVIOUS
      <4>1. f[T \ {pick[T]}] \in V /\ pick[T] \in S
        <5> HIDE DEF Small
        <5> QED BY <2>2
      <4> QED
        BY <4>1
    <3> QED
      BY <3>1
  <2>4. ASSUME NEW T \in Small(n + 1) PROVE g[T] = Step(g, T)
    <3>1. CASE T = {}
      BY <3>1
    <3>2. CASE T # {}
      <4> DEFINE U == T \ {pick[T]}
      <4>1. U \in Small(n) /\ U \in Small(n + 1)
        BY <2>2, <3>2
      <4>2. g[U] = Step(f, U) /\ f[U] = Step(f, U)
        <5> HIDE DEF Small, Step, U
        <5> QED BY <2>1, <4>1
      <4>3. g[U] = f[U]
        BY <4>2
      <4>4. g[T] = Step(f, T)
        OBVIOUS
      <4> HIDE DEF g
      <4> QED
        BY <3>2, <4>3, <4>4
    <3> QED
      BY <3>1, <3>2
  <2> HIDE DEF g, Small, Step
  <2> QED
    BY <2>3, <2>4 DEF N
<1>4. Cardinality(S) \in N
  <2> HIDE DEF N
  <2> QED BY <1>1, <1>2, <1>3, SetInduction
<1>5. Small(Cardinality(S)) = SUBSET S
  BY FS_Subset
<1>6. PICK f \in [SUBSET S -> V] : \A T \in SUBSET S : f[T] = Step(f, T)
  <2> HIDE DEF Small, Step
  <2> QED BY <1>4, <1>5
<1>7. IsFold(f, S, pick, base, F)
  BY <1>6 DEF IsFold
<1> QED
  BY <1>6, <1>7

\* FoldLeft(+, 0, sizes), as a function on sets of places.
SumUpTo(sizes, f) == f = [T \in SUBSET DOMAIN sizes |->
                            IF T = {} THEN 0 ELSE f[T \ {Max(T)}] + sizes[Max(T)]]

\* The sum of a list of numbers is a number.
LEMMA SumIsNumber ==
    ASSUME NEW sizes, sizes \in Seq(Values(sizes)), \A i \in DOMAIN sizes : sizes[i] \in Int
    PROVE  SumOf(sizes) \in Int
<1> DEFINE S == DOMAIN sizes
           pick == [T \in SUBSET S |-> Max(T)]
           F == [p \in Int \X S |-> p[1] + sizes[p[2]]]
           sum == CHOOSE f : SumUpTo(sizes, f)
<1>1. IsFiniteSet(S) /\ S \in SUBSET Int
  BY ListPlaces
<1>2. Picks(pick, S)
  <2>1. \A T \in SUBSET S : T # {} => Max(T) \in T
    BY <1>1, FS_Subset, MaxIsGreatest
  <2> QED
    BY <2>1 DEF Picks
<1>3. SumOf(sizes) = sum[S]
  BY DEF SumOf, FoldLeft, MapThenFoldSet, SumUpTo
<1>4. F \in [Int \X S -> Int]
  OBVIOUS
<1>5. PICK f \in [SUBSET S -> Int] : IsFold(f, S, pick, 0, F)
  <2> HIDE DEF S, pick, F
  <2>1. 0 \in Int
    OBVIOUS
  <2> QED BY <1>1, <1>2, <1>4, <2>1, FoldDefined
<1>6. SumUpTo(sizes, f)
  <2>1. ASSUME NEW T \in SUBSET S
        PROVE  f[T] = IF T = {} THEN 0 ELSE f[T \ {Max(T)}] + sizes[Max(T)]
    <3>1. T # {} => Max(T) \in S /\ T \ {Max(T)} \in SUBSET S
      BY <1>2 DEF Picks
    <3> QED
      BY <1>5, <3>1 DEF IsFold
  <2> QED
    BY <2>1 DEF SumUpTo
<1>7. SumUpTo(sizes, sum)
  BY <1>6
<1> HIDE DEF sum
<1>8. SUBSET S \subseteq {T \in SUBSET S : sum[T] \in Int}
  <2>1. {} \in SUBSET S /\ sum[{}] = 0
    BY <1>7 DEF SumUpTo
  <2>2. ASSUME NEW T \in SUBSET S, T # {}, sum[T \ {pick[T]}] \in Int PROVE sum[T] \in Int
    <3>1. sum[T] = sum[T \ {Max(T)}] + sizes[Max(T)] /\ Max(T) \in S
      BY <1>2, <1>7, <2>2 DEF SumUpTo, Picks
    <3> QED
      BY <2>2, <3>1
  <2> DEFINE Good == {T \in SUBSET S : sum[T] \in Int}
  <2> HIDE DEF S, pick
  <2>3. Inductive(Good, S, pick)
    BY <2>1, <2>2 DEF Inductive
  <2> HIDE DEF Good
  <2>4. SUBSET S \subseteq Good
    BY <1>1, <1>2, <2>3, PickInduction
  <2> QED
    BY <2>4 DEF Good
<1> QED
  BY <1>3, <1>8

-----------------------------------------------------------------------------
(* Images: whose layers, and which of them are highlighted.                *)

Sized(layers) == /\ layers \in Seq(Values(layers))
                 /\ \A i \in DOMAIN layers : layers[i].size \in Int

\* What is larger than a highlighted layer is highlighted.
LEMMA HotAreLargest ==
    ASSUME NEW layers, Sized(layers), NEW i \in DOMAIN layers, NEW j \in Hot(layers),
           layers[i].size > layers[j].size
    PROVE  i \in Hot(layers)
<1> DEFINE Larger(k, l) == \/ layers[k].size > layers[l].size
                           \/ layers[k].size = layers[l].size /\ k < l
           above(l) == {k \in DOMAIN layers : Larger(k, l)}
           bytes == SumOf(Sizes(layers))
<1>1. \A l \in DOMAIN layers : layers[l].size \in Int /\ l \in Int
  BY ListPlaces DEF Sized
<1>2. IsFiniteSet(DOMAIN layers)
  BY ListPlaces DEF Sized
<1>3. bytes \in Int
  <2> DEFINE sizes == Sizes(layers)
  <2>1. sizes = [k \in DOMAIN sizes |-> sizes[k]] /\ DOMAIN sizes = 1 .. Len(layers)
    BY ListPlaces DEF Sizes, Sized
  <2>2. \A k \in DOMAIN sizes : sizes[k] \in Int
    BY <1>1 DEF Sizes
  <2>3. Len(layers) \in Nat
    BY ListPlaces DEF Sized
  <2> HIDE DEF sizes
  <2>4. sizes \in Seq(Values(sizes))
    BY <2>1, <2>3, ListOfValues
  <2>5. SumOf(sizes) \in Int
    BY <2>2, <2>4, SumIsNumber
  <2> QED
    BY <2>5 DEF sizes
<1>4. j \in DOMAIN layers /\ Cardinality(above(j)) < 3 /\ layers[j].size * 20 > bytes
  BY DEF Hot
<1>5. above(i) \subseteq above(j)
  BY <1>1, <1>4
<1>6. IsFiniteSet(above(j)) /\ IsFiniteSet(above(i))
  BY <1>2, FS_Subset
<1>7. Cardinality(above(i)) <= Cardinality(above(j))
  <2> HIDE DEF above
  <2> QED BY <1>5, <1>6, FS_Subset
<1>8. Cardinality(above(i)) \in Nat /\ Cardinality(above(j)) \in Nat
  <2> HIDE DEF above
  <2> QED BY <1>6, FS_CardinalityType
<1>9. Cardinality(above(i)) < 3
  <2> HIDE DEF above
  <2> QED BY <1>4, <1>7, <1>8
<1>10. layers[i].size * 20 > bytes
  <2> HIDE DEF bytes
  <2> QED BY <1>1, <1>3, <1>4
<1> QED
  BY <1>9, <1>10 DEF Hot

\* The layers of a manifest are sized as the manifest says.
LEMMA ManifestSized ==
    ASSUME NEW doc, Readable(doc)
    PROVE  Sized(FromManifest(doc).layers)
<1> DEFINE layers == [i \in DOMAIN doc.layers |->
                        [digest |-> doc.layers[i].digest, size |-> doc.layers[i].size, command |-> 0]]
           config == IF doc.config.digest = "" THEN Absent ELSE doc.config.blob
           image == FromManifest(doc)
<1>1. image.layers = IF config = Absent THEN layers ELSE WithHistory(config.history, layers)
  BY DEF FromManifest, Bare
<1>2. DOMAIN doc.layers = 1 .. Len(doc.layers) /\ Len(doc.layers) \in Nat
  BY ListPlaces DEF Readable
<1>3. \A i \in DOMAIN doc.layers : doc.layers[i].size \in Int
  BY DEF Readable, Values
<1>4. \A i \in DOMAIN layers : layers[i].size \in Int
  BY <1>3
<1>5. layers = [i \in DOMAIN layers |-> layers[i]] /\ DOMAIN layers = 1 .. Len(doc.layers)
  BY <1>2
<1>6. \A i \in DOMAIN layers :
        \A k : [layers[i] EXCEPT !.command = k].size = layers[i].size
  OBVIOUS
<1> HIDE DEF layers, config
<1>7. CASE image.layers = layers
  <2>1. layers \in Seq(Values(layers))
    BY <1>2, <1>5, ListOfValues
  <2> QED
    BY <1>4, <1>7, <2>1 DEF Sized
<1>8. CASE image.layers # layers
  <2> DEFINE with == WithHistory(config.history, layers)
             steps == Steps(config.history)
  <2>1. image.layers = with
    BY <1>1, <1>8
  <2>2. with = [i \in DOMAIN layers |-> [layers[i] EXCEPT !.command = Nth(steps, i)]]
    BY <1>8, <2>1 DEF WithHistory
  <2> HIDE DEF with
  <2>3. DOMAIN with = 1 .. Len(doc.layers) /\ with = [i \in DOMAIN with |-> with[i]]
    BY <1>5, <2>2
  <2>4. \A i \in DOMAIN with : with[i].size \in Int
    BY <1>4, <1>6, <2>2
  <2>5. with \in Seq(Values(with))
    BY <1>2, <2>3, ListOfValues
  <2> QED
    BY <2>1, <2>4, <2>5 DEF Sized
<1> QED
  BY <1>7, <1>8

\* For every answer, the layers that stand in for an index are of a platform
\* the page names, of linux/amd64 if it can be shown, and never of an
\* attestation, and no highlighted layer is smaller than one that is not
\* (handlers.go:382-398, 464-473, 512-530).
THEOREM ImagesLayersOfAPlatform == ImageSpec => []LayersOfAPlatform
<1>1. ImageInv => LayersOfAPlatform
  <2> SUFFICES ASSUME ImageInv, page \notin Views PROVE LayersOfAPlatform!2
    BY DEF LayersOfAPlatform
  <2> DEFINE stand == RepresentativeChild(FromIndex(answer))
  <2>1. Sized(page.layers) /\ page.hot = Hot(page.layers)
    <3>1. CASE OfIndex
      <4>1. /\ page.layers = IF stand = Absent THEN <<>> ELSE stand.resolved.layers
            /\ page.hot = Hot(page.layers)
        BY <3>1, PageOf, IndexPage DEF OfIndex
      <4>2. CASE stand = Absent
        BY <4>1, <4>2 DEF Sized
      <4>3. CASE stand # Absent
        <5>1. PICK child : Readable(child) /\ stand.resolved = FromManifest(child)
          BY <3>1, <4>3, PageOf, StandIn DEF OfIndex
        <5> QED
          BY <4>1, <4>3, <5>1, ManifestSized
      <4> QED
        BY <4>2, <4>3
    <3>2. CASE ~OfIndex
      BY <3>2, PageOf, ManifestPage, ManifestSized
    <3> QED
      BY <3>1, <3>2
  <2>2. \A i \in DOMAIN page.layers, j \in page.hot :
            page.layers[i].size > page.layers[j].size => i \in page.hot
    BY <2>1, HotAreLargest
  <2>3. CASE ~OfIndex
    <3>1. page.from = Absent
      BY <2>3, PageOf, ManifestPage
    <3> QED
      BY <2>2, <2>3, <3>1
  <2>4. CASE OfIndex
    <3>1. /\ page.from = IF stand = Absent THEN Absent ELSE String(stand.platform)
          /\ page.platforms = Named(Children(answer))
      BY <2>4, PageOf, IndexPage, IndexPlatforms DEF OfIndex
    <3>2. /\ stand # Absent => stand \in Values(Children(answer)) /\ ~Unfit(stand)
          /\ \A c \in Values(Children(answer)) : ~Unfit(c) /\ Amd64Linux(c) =>
                 stand # Absent /\ Amd64Linux(stand)
      BY <2>4, PageOf, StandIn DEF OfIndex
    <3> HIDE DEF stand
    <3>3. stand # Absent => String(stand.platform) \in page.platforms
      <4> SUFFICES ASSUME stand # Absent PROVE String(stand.platform) \in Named(Children(answer))
        BY <3>1
      <4>1. ~ChildView(stand).attestation /\ ChildView(stand).platform = String(stand.platform)
        BY <3>2 DEF Unfit, ChildView
      <4> QED
        BY <3>2, <4>1 DEF Named
    <3> DEFINE named == {c.platform : c \in Values(Children(answer))} \ {Absent}
               amd64 == {p \in named : p.os = "linux" /\ p.arch = "amd64"}
    <3>4. ASSUME NEW c \in Values(Children(answer)), c.platform \in amd64, c.resolved # Absent,
                 c.resolved.layers # <<>>
          PROVE  page.from \in {String(p) : p \in amd64}
      <4>1. c.platform # Absent /\ Amd64Linux(c)
        BY <3>4 DEF Amd64Linux
      <4>2. ~Unfit(c)
        <5>1. ~HalfUnknown(c.platform)
          BY <4>1 DEF Amd64Linux, HalfUnknown
        <5> QED
          BY <3>4, <4>1, <5>1 DEF Unfit
      <4>3. stand # Absent /\ Amd64Linux(stand)
        BY <3>2, <4>1, <4>2
      <4>4. stand.platform \in amd64
        BY <3>2, <4>3 DEF Amd64Linux, Unfit
      <4> QED
        BY <3>1, <4>3, <4>4
    <3> QED
      BY <2>2, <3>1, <3>3, <3>4
  <2> QED
    BY <2>3, <2>4
<1> QED
  BY <1>1, ImageInvariant, PTL

-----------------------------------------------------------------------------
(* Images: the size of an index.  Sums over sets, in whatever order.       *)

Chosen(T) == CHOOSE x \in T : TRUE

\* MapThenSumSet of the weights w, as a function on the parts of S.
IsSum(f, w, S) == f = [T \in SUBSET S |-> IF T = {} THEN 0 ELSE w[Chosen(T)] + f[T \ {Chosen(T)}]]

\* f adds up the weights of the parts of S.
AddsUp(f, w, S) == /\ f \in [SUBSET S -> Int]
                   /\ f[{}] = 0
                   /\ \A T \in SUBSET S : \A x \in T : f[T] = w[x] + f[T \ {x}]

\* There are sums, and they do not depend on the order.
LEMMA SumsAddUp ==
    ASSUME NEW S, IsFiniteSet(S), NEW w \in [S -> Int]
    PROVE  /\ \E f : IsSum(f, w, S)
           /\ \A f : IsSum(f, w, S) => AddsUp(f, w, S)
<1> DEFINE pick == [T \in SUBSET S |-> Chosen(T)]
           F == [p \in Int \X S |-> w[p[2]] + p[1]]
<1>1. \A T \in SUBSET S : IsFiniteSet(T) /\ Cardinality(T) \in Nat
  BY FS_Subset, FS_CardinalityType
<1>2. \A T : T # {} => Chosen(T) \in T
  BY DEF Chosen
<1>3. Picks(pick, S) /\ \A T \in SUBSET S : pick[T] = Chosen(T)
  BY <1>2 DEF Picks
<1>4. \E f : IsSum(f, w, S)
  <2>1. F \in [Int \X S -> Int] /\ 0 \in Int
    OBVIOUS
  <2>2. PICK f \in [SUBSET S -> Int] : IsFold(f, S, pick, 0, F)
    <3> HIDE DEF pick, F
    <3> QED BY <1>3, <2>1, FoldDefined
  <2>3. ASSUME NEW T \in SUBSET S
        PROVE  f[T] = IF T = {} THEN 0 ELSE w[Chosen(T)] + f[T \ {Chosen(T)}]
    <3>1. T # {} => Chosen(T) \in S /\ T \ {Chosen(T)} \in SUBSET S
      BY <1>2
    <3>2. f[T] = IF T = {} THEN 0 ELSE F[<<f[T \ {Chosen(T)}], Chosen(T)>>]
      BY <1>3, <2>2 DEF IsFold
    <3> QED
      BY <2>2, <3>1, <3>2
  <2> QED
    BY <2>2, <2>3 DEF IsSum
<1>5. ASSUME NEW f, IsSum(f, w, S) PROVE AddsUp(f, w, S)
  <2>1. \A T \in SUBSET S : f[T] = IF T = {} THEN 0 ELSE w[Chosen(T)] + f[T \ {Chosen(T)}]
    BY <1>5 DEF IsSum
  <2>2. SUBSET S \subseteq {T \in SUBSET S : f[T] \in Int}
    <3> DEFINE Good == {T \in SUBSET S : f[T] \in Int}
    <3>1. ASSUME NEW T \in SUBSET S, T # {}, f[T \ {Chosen(T)}] \in Int PROVE f[T] \in Int
      <4>1. w[Chosen(T)] \in Int
        BY <1>2, <3>1
      <4>2. f[T] = w[Chosen(T)] + f[T \ {Chosen(T)}]
        BY <2>1, <3>1
      <4> QED
        BY <3>1, <4>1, <4>2
    <3>2. {} \in Good
      <4>1. {} \in SUBSET S
        OBVIOUS
      <4>2. f[{}] = 0
        BY <2>1, <4>1
      <4> QED
        BY <4>1, <4>2
    <3> HIDE DEF pick
    <3>3. Inductive(Good, S, pick)
      BY <1>3, <3>1, <3>2 DEF Inductive
    <3> HIDE DEF Good
    <3>4. SUBSET S \subseteq Good
      BY <1>3, <3>3, PickInduction
    <3> QED
      BY <3>4 DEF Good
  <2>3. f \in [SUBSET S -> Int]
    BY <1>5, <2>2 DEF IsSum
  <2> DEFINE N == {n \in Nat : \A T \in SUBSET S : Cardinality(T) = n =>
                                   \A x \in T : f[T] = w[x] + f[T \ {x}]}
  <2>4. 0 \in N
    BY <1>1, FS_EmptySet
  <2>5. ASSUME NEW n \in Nat, n \in N PROVE n + 1 \in N
    <3> SUFFICES ASSUME NEW T \in SUBSET S, Cardinality(T) = n + 1, NEW x \in T
                 PROVE  f[T] = w[x] + f[T \ {x}]
      OBVIOUS
    <3> DEFINE a == Chosen(T)
    <3>1. a \in T /\ f[T] = w[a] + f[T \ {a}]
      BY <1>2, <2>1
    <3> HIDE DEF a
    <3>2. CASE x = a
      BY <3>1, <3>2
    <3>3. CASE x # a
      <4>1. Cardinality(T \ {a}) = Cardinality(T) - 1 /\ Cardinality(T \ {x}) = Cardinality(T) - 1
        BY <1>1, <3>1, FS_RemoveElement
      <4>2. Cardinality(T \ {a}) = n /\ Cardinality(T \ {x}) = n
        BY <4>1
      <4>3. T \ {a} \in SUBSET S /\ T \ {x} \in SUBSET S /\ x \in T \ {a} /\ a \in T \ {x}
        BY <3>1, <3>3
      <4>4. f[T \ {a}] = w[x] + f[(T \ {a}) \ {x}] /\ f[T \ {x}] = w[a] + f[(T \ {x}) \ {a}]
        BY <2>5, <4>2, <4>3
      <4> DEFINE rest == f[(T \ {a}) \ {x}]
      <4>5. (T \ {a}) \ {x} = (T \ {x}) \ {a}
        OBVIOUS
      <4>6. w[a] \in Int /\ w[x] \in Int /\ rest \in Int
        BY <2>3, <3>1
      <4>7. f[T] = w[a] + (w[x] + rest) /\ f[T \ {x}] = w[a] + rest
        BY <3>1, <4>4, <4>5
      <4> HIDE DEF rest
      <4> QED
        BY <4>6, <4>7
    <3> QED
      BY <3>2, <3>3
  <2>6. Nat \subseteq N
    <3> HIDE DEF N
    <3> QED BY <2>4, <2>5, SetInduction
  <2>7. \A T \in SUBSET S : \A x \in T : f[T] = w[x] + f[T \ {x}]
    BY <1>1, <2>6
  <2> QED
    BY <2>1, <2>3, <2>7 DEF AddsUp
<1> QED
  BY <1>4, <1>5

\* Blobs at their places, the digests at some of them, the places of those that
\* have no digest, and what is claimed to be the size of a digest.
Digests(at, P) == {at[p].digest : p \in P} \ {""}
Loose(at, P) == {p \in P : at[p].digest = ""}
Claims(at, d) == {at[p].size : p \in {q \in DOMAIN at : at[q].digest = d}}

Weights(at) == [p \in Loose(at, DOMAIN at) |-> at[p].size]
Lows(at) == [d \in Digests(at, DOMAIN at) |-> Min(Claims(at, d))]
Highs(at) == [d \in Digests(at, DOMAIN at) |-> Max(Claims(at, d))]

Sums(at) == [total : Int, counted : SUBSET {at[p].digest : p \in DOMAIN at}]

\* The blobs at the places P, and no others, have been counted.
Accounted(at, loose, low, high, sum, P) ==
    /\ sum \in Sums(at)
    /\ sum.counted \ {""} = Digests(at, P)
    /\ sum.total - loose[Loose(at, P)] \in low[Digests(at, P)] .. high[Digests(at, P)]

\* Blobs with sizes at finitely many places, and the sums of their sizes.
SizesAddUp(at, loose, low, high) ==
    /\ IsFiniteSet(DOMAIN at)
    /\ \A p \in DOMAIN at : at[p].size \in Int
    /\ AddsUp(loose, Weights(at), Loose(at, DOMAIN at))
    /\ AddsUp(low, Lows(at), Digests(at, DOMAIN at))
    /\ AddsUp(high, Highs(at), Digests(at, DOMAIN at))

\* A size is between the least and the greatest one claimed for its digest.
LEMMA ClaimsBound ==
    ASSUME NEW at, IsFiniteSet(DOMAIN at), \A p \in DOMAIN at : at[p].size \in Int,
           NEW p \in DOMAIN at
    PROVE  /\ Min(Claims(at, at[p].digest)) \in Int /\ Max(Claims(at, at[p].digest)) \in Int
           /\ Min(Claims(at, at[p].digest)) <= at[p].size
           /\ at[p].size <= Max(Claims(at, at[p].digest))
<1> DEFINE named == {q \in DOMAIN at : at[q].digest = at[p].digest}
           claims == {at[q].size : q \in named}
<1>1. IsFiniteSet(named)
  BY FS_Subset
<1>2. IsFiniteSet(claims)
  <2> DEFINE sizes == [q \in named |-> at[q].size]
  <2>1. sizes \in Surjection(named, claims)
    BY DEF Surjection
  <2> HIDE DEF named, claims, sizes
  <2> QED
    BY <1>1, <2>1, FS_Surjection
<1>3. claims \in SUBSET Int /\ at[p].size \in claims
  OBVIOUS
<1>4. claims = Claims(at, at[p].digest)
  BY DEF Claims
<1> HIDE DEF claims
<1>5. /\ Min(claims) \in claims /\ Min(claims) <= at[p].size
      /\ Max(claims) \in claims /\ at[p].size <= Max(claims)
  BY <1>2, <1>3, MinIsLeast, MaxIsGreatest
<1> QED
  BY <1>3, <1>4, <1>5

\* One more blob counted.
LEMMA CountAccounts ==
    ASSUME NEW at, NEW loose, NEW low, NEW high, SizesAddUp(at, loose, low, high),
           NEW P \in SUBSET DOMAIN at, NEW p \in DOMAIN at \ P,
           NEW sum, Accounted(at, loose, low, high, sum, P)
    PROVE  Accounted(at, loose, low, high, Count(sum, at[p]), P \cup {p})
<1> DEFINE d == at[p].digest
           size == at[p].size
           Q == P \cup {p}
           new == Count(sum, at[p])
<1>1. /\ sum.total \in Int /\ sum.counted \in SUBSET {at[q].digest : q \in DOMAIN at}
      /\ sum = [total |-> sum.total, counted |-> sum.counted]
  BY DEF Accounted, Sums
<1>2. size \in Int /\ d \in {at[q].digest : q \in DOMAIN at}
  BY DEF SizesAddUp
<1>3. /\ Loose(at, P) \in SUBSET Loose(at, DOMAIN at) /\ Loose(at, Q) \in SUBSET Loose(at, DOMAIN at)
      /\ Digests(at, P) \in SUBSET Digests(at, DOMAIN at)
      /\ Digests(at, Q) \in SUBSET Digests(at, DOMAIN at)
  BY DEF Loose, Digests
<1>4. /\ loose[Loose(at, P)] \in Int
      /\ low[Digests(at, P)] \in Int /\ high[Digests(at, P)] \in Int
  BY <1>3 DEF SizesAddUp, AddsUp
<1>5. CASE d = ""
  <2>1. new = [total |-> sum.total + size, counted |-> sum.counted \cup {d}]
    BY <1>5 DEF Count
  <2>2. Loose(at, Q) = Loose(at, P) \cup {p} /\ p \notin Loose(at, P)
    BY <1>5 DEF Loose
  <2>3. Digests(at, Q) = Digests(at, P)
    BY <1>5 DEF Digests
  <2>4. loose[Loose(at, Q)] = size + loose[Loose(at, P)]
    <3>1. loose[Loose(at, Q)] = Weights(at)[p] + loose[Loose(at, Q) \ {p}]
      BY <1>3, <2>2 DEF SizesAddUp, AddsUp
    <3>2. Loose(at, Q) \ {p} = Loose(at, P)
      BY <2>2
    <3>3. Weights(at)[p] = size
      BY <1>5 DEF Weights, Loose
    <3> QED
      BY <3>1, <3>2, <3>3
  <2>5. new.counted \ {""} = Digests(at, Q)
    <3>1. new.counted = sum.counted \cup {""}
      <4> HIDE DEF d, new
      <4> QED BY <1>5, <2>1
    <3>2. sum.counted \ {""} = Digests(at, P)
      BY DEF Accounted
    <3> HIDE DEF new, Q
    <3> QED
      BY <2>3, <3>1, <3>2
  <2>6. new.total - loose[Loose(at, Q)] = sum.total - loose[Loose(at, P)]
    <3> HIDE DEF size
    <3> QED BY <1>1, <1>2, <1>4, <2>1, <2>4
  <2>7. new \in Sums(at)
    BY <1>1, <1>2, <2>1 DEF Sums
  <2> HIDE DEF new, Q
  <2>8. Accounted(at, loose, low, high, new, Q)
    BY <2>3, <2>5, <2>6, <2>7 DEF Accounted
  <2> QED
    BY <2>8 DEF new, Q
<1>6. CASE d # "" /\ d \in sum.counted
  <2>1. new = sum
    BY <1>6 DEF Count
  <2>2. Loose(at, Q) = Loose(at, P)
    BY <1>6 DEF Loose
  <2>3. d \in Digests(at, P)
    BY <1>6 DEF Accounted
  <2>4. Digests(at, Q) = Digests(at, P)
    BY <2>3 DEF Digests
  <2> HIDE DEF new, Q
  <2>5. Accounted(at, loose, low, high, new, Q)
    BY <2>1, <2>2, <2>4 DEF Accounted
  <2> QED
    BY <2>5 DEF new, Q
<1>7. CASE d # "" /\ d \notin sum.counted
  <2>1. new = [total |-> sum.total + size, counted |-> sum.counted \cup {d}]
    BY <1>7 DEF Count
  <2>2. Loose(at, Q) = Loose(at, P)
    BY <1>7 DEF Loose
  <2>3. d \notin Digests(at, P) /\ Digests(at, Q) = Digests(at, P) \cup {d}
    BY <1>7 DEF Accounted, Digests
  <2>4. d \in Digests(at, DOMAIN at) /\ d \in Digests(at, Q) /\ Digests(at, Q) \ {d} = Digests(at, P)
    BY <1>3, <2>3
  <2>5. /\ low[Digests(at, Q)] = Min(Claims(at, d)) + low[Digests(at, P)]
        /\ high[Digests(at, Q)] = Max(Claims(at, d)) + high[Digests(at, P)]
    <3>1. /\ low[Digests(at, Q)] = Lows(at)[d] + low[Digests(at, Q) \ {d}]
          /\ high[Digests(at, Q)] = Highs(at)[d] + high[Digests(at, Q) \ {d}]
      <4> HIDE DEF d, Q
      <4> QED BY <1>3, <2>4 DEF SizesAddUp, AddsUp
    <3>2. Lows(at)[d] = Min(Claims(at, d)) /\ Highs(at)[d] = Max(Claims(at, d))
      BY <2>4 DEF Lows, Highs
    <3> QED
      BY <2>4, <3>1, <3>2
  <2>6. /\ Min(Claims(at, d)) \in Int /\ Max(Claims(at, d)) \in Int
        /\ Min(Claims(at, d)) <= size /\ size <= Max(Claims(at, d))
    BY ClaimsBound DEF SizesAddUp
  <2>7. new.counted \ {""} = Digests(at, Q)
    <3>1. new.counted = sum.counted \cup {d}
      BY <2>1
    <3>2. sum.counted \ {""} = Digests(at, P)
      BY DEF Accounted
    <3> HIDE DEF new, Q, d
    <3> QED
      BY <1>7, <2>3, <3>1, <3>2
  <2>8. new.total - loose[Loose(at, Q)] \in low[Digests(at, Q)] .. high[Digests(at, Q)]
    <3>1. sum.total - loose[Loose(at, P)] \in low[Digests(at, P)] .. high[Digests(at, P)]
      BY DEF Accounted
    <3>2. new.total = sum.total + size /\ loose[Loose(at, Q)] = loose[Loose(at, P)]
      BY <2>1, <2>2
    <3> HIDE DEF size, d, new, Q
    <3> QED
      BY <1>1, <1>2, <1>4, <2>5, <2>6, <3>1, <3>2
  <2>9. new \in Sums(at)
    BY <1>1, <1>2, <2>1 DEF Sums
  <2> HIDE DEF new, Q
  <2>10. Accounted(at, loose, low, high, new, Q)
    BY <2>7, <2>8, <2>9 DEF Accounted
  <2> QED
    BY <2>10 DEF new, Q
<1> QED
  BY <1>5, <1>6, <1>7

\* Counting a blob makes a sum of a sum.
LEMMA CountTyped ==
    ASSUME NEW D, NEW sum \in [total : Int, counted : SUBSET D],
           NEW blob, blob.size \in Int, blob.digest \in D
    PROVE  Count(sum, blob) \in [total : Int, counted : SUBSET D]
<1>1. sum.total + blob.size \in Int /\ sum.counted \cup {blob.digest} \in SUBSET D
  OBVIOUS
<1> QED
  BY <1>1 DEF Count

\* f is FoldLeft(Count, sum, blobs), as a function on sets of places.
IsCount(f, sum, blobs, D) ==
    /\ f \in [SUBSET DOMAIN blobs -> [total : Int, counted : SUBSET D]]
    /\ f[{}] = sum
    /\ \A T \in SUBSET DOMAIN blobs : T # {} => f[T] = Count(f[T \ {Max(T)}], blobs[Max(T)])
    /\ FoldLeft(Count, sum, blobs) = f[DOMAIN blobs]

\* Counting blob by blob is well defined.
LEMMA CountFolds ==
    ASSUME NEW D, NEW blobs, blobs \in Seq(Values(blobs)),
           \A i \in DOMAIN blobs : blobs[i].size \in Int /\ blobs[i].digest \in D,
           NEW sum \in [total : Int, counted : SUBSET D]
    PROVE  \E f : IsCount(f, sum, blobs, D)
<1> DEFINE S == DOMAIN blobs
           V == [total : Int, counted : SUBSET D]
           pick == [T \in SUBSET S |-> Max(T)]
           F == [p \in V \X S |-> Count(p[1], blobs[p[2]])]
           Folds(f) == f = [T \in SUBSET S |-> IF T = {} THEN sum
                                               ELSE Count(f[T \ {Max(T)}], blobs[Max(T)])]
           fold == CHOOSE f : Folds(f)
<1>1. IsFiniteSet(S) /\ S \in SUBSET Int
  BY ListPlaces
<1>2. \A T \in SUBSET S : T # {} => Max(T) \in T
  BY <1>1, FS_Subset, MaxIsGreatest
<1>3. Picks(pick, S)
  BY <1>2 DEF Picks
<1>4. \A v \in V, i \in S : Count(v, blobs[i]) \in V
  BY CountTyped
<1>5. F \in [V \X S -> V]
  BY <1>4
<1>6. PICK f \in [SUBSET S -> V] : IsFold(f, S, pick, sum, F)
  <2>1. sum \in V
    OBVIOUS
  <2> HIDE DEF S, V, pick, F
  <2> QED BY <1>1, <1>3, <1>5, <2>1, FoldDefined
<1>7. Folds(f)
  <2>1. ASSUME NEW T \in SUBSET S
        PROVE  f[T] = IF T = {} THEN sum ELSE Count(f[T \ {Max(T)}], blobs[Max(T)])
    <3>1. T # {} => Max(T) \in S /\ T \ {Max(T)} \in SUBSET S
      BY <1>2
    <3>2. T # {} => f[T \ {Max(T)}] \in V
      BY <1>6, <3>1
    <3>3. f[T] = IF T = {} THEN sum ELSE F[<<f[T \ {Max(T)}], Max(T)>>]
      BY <1>6 DEF IsFold
    <3> HIDE DEF V, S
    <3> QED
      BY <3>1, <3>2, <3>3
  <2> QED
    BY <1>6, <2>1
<1>8. Folds(fold)
  BY <1>7
<1>9. FoldLeft(Count, sum, blobs) = fold[S]
  BY DEF FoldLeft, MapThenFoldSet
<1> HIDE DEF fold
<1>10. SUBSET S \subseteq {T \in SUBSET S : fold[T] \in V}
  <2> DEFINE Good == {T \in SUBSET S : fold[T] \in V}
  <2>1. {} \in Good
    BY <1>8
  <2>2. ASSUME NEW T \in SUBSET S, T # {}, fold[T \ {pick[T]}] \in V PROVE fold[T] \in V
    <3>1. Max(T) \in S /\ fold[T] = Count(fold[T \ {Max(T)}], blobs[Max(T)])
      BY <1>2, <1>8, <2>2
    <3>2. fold[T \ {Max(T)}] \in V
      BY <2>2
    <3> HIDE DEF V, S
    <3> QED
      BY <1>4, <3>1, <3>2
  <2> HIDE DEF S, pick, V
  <2>3. Inductive(Good, S, pick)
    BY <2>1, <2>2 DEF Inductive
  <2> HIDE DEF Good
  <2>4. SUBSET S \subseteq Good
    BY <1>1, <1>3, <2>3, PickInduction
  <2> QED
    BY <2>4 DEF Good
<1>11. fold \in [SUBSET S -> V]
  BY <1>8, <1>10
<1>12. fold[{}] = sum /\ \A T \in SUBSET S : T # {} => fold[T] = Count(fold[T \ {Max(T)}], blobs[Max(T)])
  BY <1>8
<1>13. IsCount(fold, sum, blobs, D)
  BY <1>9, <1>11, <1>12 DEF IsCount
<1> QED
  BY <1>13

\* The blobs of one child counted.
LEMMA ChildAccounts ==
    ASSUME NEW at, NEW loose, NEW low, NEW high, SizesAddUp(at, loose, low, high),
           NEW P \in SUBSET DOMAIN at, NEW k, NEW blobs, blobs \in Seq(Values(blobs)),
           \A i \in DOMAIN blobs : <<k, i>> \in DOMAIN at \ P /\ at[<<k, i>>] = blobs[i],
           NEW sum, Accounted(at, loose, low, high, sum, P)
    PROVE  Accounted(at, loose, low, high, FoldLeft(Count, sum, blobs), P \cup ({k} \X DOMAIN blobs))
<1> DEFINE D == {at[p].digest : p \in DOMAIN at}
           S == DOMAIN blobs
           pick == [T \in SUBSET S |-> Max(T)]
<1>1. sum \in [total : Int, counted : SUBSET D]
  BY DEF Accounted, Sums
<1>2. \A i \in S : blobs[i].size \in Int /\ blobs[i].digest \in D
  BY DEF SizesAddUp
<1>3. PICK f : IsCount(f, sum, blobs, D)
  <2> HIDE DEF D
  <2> QED BY <1>1, <1>2, CountFolds
<1>4. IsFiniteSet(S) /\ S \in SUBSET Int
  BY ListPlaces
<1>5. \A T \in SUBSET S : T # {} => Max(T) \in T
  BY <1>4, FS_Subset, MaxIsGreatest
<1>6. Picks(pick, S)
  BY <1>5 DEF Picks
<1> DEFINE Good == {T \in SUBSET S : Accounted(at, loose, low, high, f[T], P \cup ({k} \X T))}
<1>7. {} \in Good
  <2>1. P \cup ({k} \X {}) = P
    OBVIOUS
  <2> QED
    BY <1>3, <2>1 DEF IsCount
<1>8. ASSUME NEW T \in SUBSET S, T # {}, T \ {Max(T)} \in Good PROVE T \in Good
  <2> DEFINE i == Max(T)
             R == P \cup ({k} \X (T \ {i}))
  <2>1. i \in T /\ f[T] = Count(f[T \ {i}], blobs[i])
    BY <1>3, <1>5, <1>8 DEF IsCount
  <2>2. Accounted(at, loose, low, high, f[T \ {i}], R)
    BY <1>8
  <2> HIDE DEF i
  <2>3. R \in SUBSET DOMAIN at /\ <<k, i>> \in DOMAIN at \ R /\ at[<<k, i>>] = blobs[i]
    BY <2>1
  <2>4. R \cup {<<k, i>>} = P \cup ({k} \X T)
    BY <2>1
  <2> HIDE DEF R
  <2>5. Accounted(at, loose, low, high, Count(f[T \ {i}], at[<<k, i>>]), R \cup {<<k, i>>})
    BY <2>2, <2>3, CountAccounts
  <2> QED
    BY <2>1, <2>3, <2>4, <2>5
<1>9. Inductive(Good, S, pick)
  <2>1. \A T \in SUBSET S : pick[T] = Max(T)
    OBVIOUS
  <2> HIDE DEF S, Good, pick
  <2> QED BY <1>7, <1>8, <2>1 DEF Inductive
<1>10. S \in Good
  <2> HIDE DEF S, Good, pick
  <2> QED BY <1>4, <1>6, <1>9, PickInduction
<1> QED
  BY <1>3, <1>10 DEF IsCount

\* The blobs of all children at their places.
BlobsAt(children) == [p \in BlobPlaces(children) |-> Blobs(children[p[1]].resolved)[p[2]]]
PlacesOf(children, U) == {p \in BlobPlaces(children) : p[1] \in U}

Listed(children) == /\ children \in Seq(Values(children))
                    /\ \A k \in DOMAIN children : children[k].resolved # Absent =>
                           Blobs(children[k].resolved) \in Seq(Values(Blobs(children[k].resolved)))

\* A place is a child that could be resolved and one of its blobs.
LEMMA PlacesArePairs ==
    ASSUME NEW children
    PROVE  /\ \A p \in BlobPlaces(children) : p = <<p[1], p[2]>>
           /\ \A k, i : <<k, i>> \in BlobPlaces(children) <=>
                  /\ k \in DOMAIN children /\ children[k].resolved # Absent
                  /\ i \in DOMAIN Blobs(children[k].resolved)
<1> DEFINE read == {k \in DOMAIN children : children[k].resolved # Absent}
           of(k) == {k} \X DOMAIN Blobs(children[k].resolved)
<1>1. \A p : p \in BlobPlaces(children) <=> \E k \in read : p \in of(k)
  BY DEF BlobPlaces
<1>2. \A k, i, l : <<k, i>> \in of(l) <=> k = l /\ i \in DOMAIN Blobs(children[k].resolved)
  OBVIOUS
<1>3. \A l : \A p \in of(l) : p = <<p[1], p[2]>>
  OBVIOUS
<1> HIDE DEF of
<1>4. \A k, i : <<k, i>> \in BlobPlaces(children) <=>
          k \in read /\ i \in DOMAIN Blobs(children[k].resolved)
  BY <1>1, <1>2
<1> QED
  BY <1>1, <1>3, <1>4

\* Places are finitely many.
LEMMA PlacesFinite ==
    ASSUME NEW children, Listed(children)
    PROVE  IsFiniteSet(BlobPlaces(children))
<1> DEFINE read == {k \in DOMAIN children : children[k].resolved # Absent}
           of(k) == {k} \X DOMAIN Blobs(children[k].resolved)
           parts == {of(k) : k \in read}
<1>1. IsFiniteSet(read)
  <2>1. IsFiniteSet(DOMAIN children)
    BY ListPlaces DEF Listed
  <2> QED
    BY <2>1, FS_Subset
<1>2. \A k \in read : IsFiniteSet(of(k))
  <2> SUFFICES ASSUME NEW k \in read PROVE IsFiniteSet(of(k))
    OBVIOUS
  <2>1. IsFiniteSet(DOMAIN Blobs(children[k].resolved))
    BY ListPlaces DEF Listed
  <2>2. IsFiniteSet({k})
    BY FS_Singleton
  <2> QED
    BY <2>1, <2>2, FS_Product
<1>3. IsFiniteSet(parts)
  <2> DEFINE part == [k \in read |-> of(k)]
  <2>1. part \in Surjection(read, parts)
    BY DEF Surjection
  <2> HIDE DEF read, of, parts, part
  <2> QED
    BY <1>1, <2>1, FS_Surjection
<1>4. IsFiniteSet(UNION parts)
  <2>1. \A T \in parts : IsFiniteSet(T)
    <3> HIDE DEF of, read
    <3> QED BY <1>2
  <2> HIDE DEF parts
  <2> QED BY <1>3, <2>1, FS_UNION
<1> QED
  BY <1>4 DEF BlobPlaces

\* g is the fold of DistinctSize, as a function on sets of children.
IsChildCount(g, children, V) ==
    /\ g \in [SUBSET DOMAIN children -> V]
    /\ g[{}] = [total |-> 0, counted |-> {}]
    /\ \A T \in SUBSET DOMAIN children : T # {} =>
           g[T] = CountChild(g[T \ {Max(T)}], children[Max(T)])
    /\ DistinctSize(children) = g[DOMAIN children].total

\* Counting child by child is well defined.
LEMMA ChildCountFolds ==
    ASSUME NEW children, Listed(children),
           \A p \in BlobPlaces(children) : BlobsAt(children)[p].size \in Int
    PROVE  \E g : IsChildCount(g, children, Sums(BlobsAt(children)))
<1> DEFINE D == {BlobsAt(children)[p].digest : p \in DOMAIN BlobsAt(children)}
           S == DOMAIN children
           V == Sums(BlobsAt(children))
           none == [total |-> 0, counted |-> {}]
           pick == [T \in SUBSET S |-> Max(T)]
           F == [p \in V \X S |-> CountChild(p[1], children[p[2]])]
           Folds(f) == f = [T \in SUBSET S |-> IF T = {} THEN none
                                               ELSE CountChild(f[T \ {Max(T)}], children[Max(T)])]
           fold == CHOOSE f : Folds(f)
<1>1. IsFiniteSet(S) /\ S \in SUBSET Int
  BY ListPlaces DEF Listed
<1>2. \A T \in SUBSET S : T # {} => Max(T) \in T
  BY <1>1, FS_Subset, MaxIsGreatest
<1>3. Picks(pick, S)
  BY <1>2 DEF Picks
<1>4. ASSUME NEW v \in V, NEW k \in S PROVE CountChild(v, children[k]) \in V
  <2> DEFINE blobs == Blobs(children[k].resolved)
  <2>1. CASE children[k].resolved = Absent
    BY <2>1 DEF CountChild
  <2>2. CASE children[k].resolved # Absent
    <3>1. blobs \in Seq(Values(blobs))
      BY <2>2 DEF Listed
    <3>2. \A i \in DOMAIN blobs : blobs[i].size \in Int /\ blobs[i].digest \in D
      <4> SUFFICES ASSUME NEW i \in DOMAIN blobs
                   PROVE  blobs[i].size \in Int /\ blobs[i].digest \in D
        OBVIOUS
      <4>1. <<k, i>> \in BlobPlaces(children)
        BY <2>2, PlacesArePairs
      <4>2. BlobsAt(children)[<<k, i>>] = blobs[i] /\ <<k, i>> \in DOMAIN BlobsAt(children)
        BY <4>1 DEF BlobsAt
      <4> HIDE DEF blobs
      <4> QED
        BY <4>1, <4>2
    <3>3. v \in [total : Int, counted : SUBSET D]
      BY DEF Sums
    <3> HIDE DEF D, blobs
    <3>4. PICK f : IsCount(f, v, blobs, D)
      BY <3>1, <3>2, <3>3, CountFolds
    <3>5. FoldLeft(Count, v, blobs) \in [total : Int, counted : SUBSET D]
      BY <3>4 DEF IsCount
    <3> QED
      BY <2>2, <3>5 DEF CountChild, Sums, D, blobs
  <2> QED
    BY <2>1, <2>2
<1>5. none \in V
  BY DEF Sums
<1>6. F \in [V \X S -> V]
  <2> HIDE DEF V
  <2> QED BY <1>4
<1>7. PICK f \in [SUBSET S -> V] : IsFold(f, S, pick, none, F)
  <2> HIDE DEF S, V, pick, F, none
  <2> QED BY <1>1, <1>3, <1>5, <1>6, FoldDefined
<1>8. Folds(f)
  <2>1. ASSUME NEW T \in SUBSET S
        PROVE  f[T] = IF T = {} THEN none ELSE CountChild(f[T \ {Max(T)}], children[Max(T)])
    <3>1. T # {} => Max(T) \in S /\ T \ {Max(T)} \in SUBSET S
      BY <1>2
    <3>2. T # {} => f[T \ {Max(T)}] \in V
      BY <1>7, <3>1
    <3>3. f[T] = IF T = {} THEN none ELSE F[<<f[T \ {Max(T)}], Max(T)>>]
      BY <1>7 DEF IsFold
    <3> HIDE DEF V, S, none
    <3> QED
      BY <3>1, <3>2, <3>3
  <2> HIDE DEF V, none
  <2> QED
    BY <1>7, <2>1
<1>9. Folds(fold)
  BY <1>8
<1>10. DistinctSize(children) = fold[S].total
  BY DEF DistinctSize, FoldLeft, MapThenFoldSet
<1> HIDE DEF fold, V, none
<1>11. SUBSET S \subseteq {T \in SUBSET S : fold[T] \in V}
  <2> DEFINE Good == {T \in SUBSET S : fold[T] \in V}
  <2>1. {} \in Good
    BY <1>5, <1>9
  <2>2. ASSUME NEW T \in SUBSET S, T # {}, fold[T \ {pick[T]}] \in V PROVE fold[T] \in V
    <3>1. Max(T) \in S /\ fold[T] = CountChild(fold[T \ {Max(T)}], children[Max(T)])
      BY <1>2, <1>9, <2>2
    <3>2. fold[T \ {Max(T)}] \in V
      BY <2>2
    <3> HIDE DEF S
    <3> QED
      BY <1>4, <3>1, <3>2
  <2> HIDE DEF S, pick
  <2>3. Inductive(Good, S, pick)
    BY <2>1, <2>2 DEF Inductive
  <2> HIDE DEF Good
  <2>4. SUBSET S \subseteq Good
    BY <1>1, <1>3, <2>3, PickInduction
  <2> QED
    BY <2>4 DEF Good
<1>12. fold \in [SUBSET S -> V]
  BY <1>9, <1>11
<1>13. /\ fold[{}] = none
       /\ \A T \in SUBSET S : T # {} => fold[T] = CountChild(fold[T \ {Max(T)}], children[Max(T)])
  BY <1>9
<1>14. IsChildCount(fold, children, V)
  BY <1>10, <1>12, <1>13 DEF IsChildCount, none
<1> QED
  BY <1>14 DEF V

\* The blobs of all children counted.
LEMMA ChildrenAccount ==
    ASSUME NEW children, Listed(children), NEW loose, NEW low, NEW high,
           SizesAddUp(BlobsAt(children), loose, low, high)
    PROVE  LET at == BlobsAt(children)
           IN  DistinctSize(children) - loose[Loose(at, DOMAIN at)]
                   \in low[Digests(at, DOMAIN at)] .. high[Digests(at, DOMAIN at)]
<1> DEFINE at == BlobsAt(children)
           S == DOMAIN children
           pick == [T \in SUBSET S |-> Max(T)]
<1>1. IsFiniteSet(S) /\ S \in SUBSET Int
  BY ListPlaces DEF Listed
<1>2. \A T \in SUBSET S : T # {} => Max(T) \in T
  BY <1>1, FS_Subset, MaxIsGreatest
<1>3. Picks(pick, S)
  BY <1>2 DEF Picks
<1>4. PICK g : IsChildCount(g, children, Sums(at))
  <2>1. \A p \in BlobPlaces(children) : at[p].size \in Int
    BY DEF SizesAddUp, BlobsAt
  <2> QED
    BY <2>1, ChildCountFolds
<1> DEFINE Good == {T \in SUBSET S : Accounted(at, loose, low, high, g[T], PlacesOf(children, T))}
<1>5. {} \in Good
  <2>1. PlacesOf(children, {}) = {}
    BY DEF PlacesOf
  <2>2. Digests(at, {}) = {} /\ Loose(at, {}) = {}
    BY DEF Digests, Loose
  <2>3. g[{}] = [total |-> 0, counted |-> {}]
    BY <1>4 DEF IsChildCount
  <2>4. loose[{}] = 0 /\ low[{}] = 0 /\ high[{}] = 0
    BY DEF SizesAddUp, AddsUp
  <2>5. Accounted(at, loose, low, high, g[{}], {})
    <3>1. g[{}] \in Sums(at) /\ g[{}].total = 0 /\ g[{}].counted = {}
      BY <2>3 DEF Sums
    <3>2. 0 - 0 \in 0 .. 0
      OBVIOUS
    <3> HIDE DEF at
    <3>3. g[{}].total - loose[Loose(at, {})] \in low[Digests(at, {})] .. high[Digests(at, {})]
      BY <2>2, <2>4, <3>1, <3>2
    <3>4. g[{}].counted \ {""} = Digests(at, {})
      BY <2>2, <3>1
    <3> QED
      BY <3>1, <3>3, <3>4 DEF Accounted
  <2> QED
    BY <2>1, <2>5
<1>6. ASSUME NEW T \in SUBSET S, T # {}, T \ {Max(T)} \in Good PROVE T \in Good
  <2> DEFINE k == Max(T)
             P == PlacesOf(children, T \ {k})
             sum == g[T \ {k}]
             blobs == Blobs(children[k].resolved)
  <2>1. k \in T /\ g[T] = CountChild(sum, children[k])
    BY <1>2, <1>4, <1>6 DEF IsChildCount
  <2>2. Accounted(at, loose, low, high, sum, P)
    BY <1>6
  <2> HIDE DEF k, sum
  <2>3. CASE children[k].resolved = Absent
    <3>1. g[T] = sum
      BY <2>1, <2>3 DEF CountChild
    <3>2. PlacesOf(children, T) = P
      <4>1. \A p \in BlobPlaces(children) : p[1] # k
        BY <2>3, PlacesArePairs
      <4> QED
        BY <4>1 DEF PlacesOf
    <3> QED
      BY <2>2, <3>1, <3>2
  <2>4. CASE children[k].resolved # Absent
    <3>1. blobs \in Seq(Values(blobs))
      BY <2>1, <2>4 DEF Listed
    <3>2. \A i \in DOMAIN blobs : <<k, i>> \in BlobPlaces(children)
      BY <2>1, <2>4, PlacesArePairs
    <3>3. \A i \in DOMAIN blobs : <<k, i>> \in DOMAIN at \ P /\ at[<<k, i>>] = blobs[i]
      BY <3>2 DEF BlobsAt, PlacesOf
    <3>4. P \in SUBSET DOMAIN at
      BY DEF PlacesOf, BlobsAt
    <3>5. P \cup ({k} \X DOMAIN blobs) = PlacesOf(children, T)
      <4>1. \A p \in PlacesOf(children, T) : p \in P \/ p \in {k} \X DOMAIN blobs
        <5> SUFFICES ASSUME NEW p \in PlacesOf(children, T), p \notin P
                     PROVE  p \in {k} \X DOMAIN blobs
          OBVIOUS
        <5>1. p \in BlobPlaces(children) /\ p[1] = k
          BY DEF PlacesOf
        <5>2. p = <<k, p[2]>> /\ p[2] \in DOMAIN blobs
          <6>1. p = <<p[1], p[2]>>
            BY <5>1, PlacesArePairs
          <6>2. <<k, p[2]>> \in BlobPlaces(children)
            BY <5>1, <6>1
          <6> QED
            BY <5>1, <6>1, <6>2, PlacesArePairs
        <5> QED
          BY <5>2
      <4>2. \A p \in P : p \in PlacesOf(children, T)
        BY DEF PlacesOf
      <4>3. \A p \in {k} \X DOMAIN blobs : p \in PlacesOf(children, T)
        BY <2>1, <3>2 DEF PlacesOf
      <4> QED
        BY <4>1, <4>2, <4>3
    <3>6. g[T] = FoldLeft(Count, sum, blobs)
      BY <2>1, <2>4 DEF CountChild
    <3> HIDE DEF P, blobs, at
    <3>7. SizesAddUp(at, loose, low, high)
      BY DEF at
    <3>8. Accounted(at, loose, low, high, FoldLeft(Count, sum, blobs), P \cup ({k} \X DOMAIN blobs))
      BY <2>2, <3>1, <3>3, <3>4, <3>7, ChildAccounts
    <3> QED
      BY <3>5, <3>6, <3>8
  <2> QED
    BY <2>3, <2>4
<1>7. Inductive(Good, S, pick)
  <2>1. \A T \in SUBSET S : pick[T] = Max(T)
    OBVIOUS
  <2> HIDE DEF S, Good, pick
  <2> QED BY <1>5, <1>6, <2>1 DEF Inductive
<1>8. S \in Good
  <2> HIDE DEF S, Good, pick
  <2> QED BY <1>1, <1>3, <1>7, PickInduction
<1>9. PlacesOf(children, S) = DOMAIN at
  BY PlacesArePairs DEF PlacesOf, BlobsAt
<1>10. DistinctSize(children) = g[S].total
  BY <1>4 DEF IsChildCount
<1> QED
  BY <1>8, <1>9, <1>10 DEF Accounted

\* The children of an index are lists of blobs that have sizes.
LEMMA ChildrenListed ==
    ASSUME NEW doc \in Documents
    PROVE  /\ Listed(Children(doc))
           /\ \A p \in BlobPlaces(Children(doc)) : BlobsAt(Children(doc))[p].size \in Int
<1> DEFINE children == Children(doc)
<1>1. children \in Seq(Values(children))
  BY DocumentsAssumption, ChildrenResolved
<1>2. ASSUME NEW k \in DOMAIN children, children[k].resolved # Absent
      PROVE  LET blobs == Blobs(children[k].resolved)
             IN  /\ blobs \in Seq(Values(blobs))
                 /\ \A i \in DOMAIN blobs : blobs[i].size \in Int
  <2> DEFINE image == children[k].resolved
             blobs == Blobs(image)
  <2>1. PICK ref \in Values(doc.manifests) : image = Resolved(ref)
    <3>1. children[k] \in Values(children)
      BY DEF Values
    <3> QED
      BY <3>1, DocumentsAssumption, ChildrenResolved
  <2>2. Sized(image.layers) /\ image.configRef.size \in Int
    <3>1. ref.answer # Absent
      BY <1>2, <2>1 DEF Resolved
    <3>2. Readable(ref.answer)
      BY <3>1, DocumentsAssumption
    <3>3. CASE image = FromManifest(ref.answer)
      <4>1. FromManifest(ref.answer).configRef.size = ref.answer.config.size
        BY DEF FromManifest, Bare
      <4> QED
        BY <3>2, <3>3, <4>1, ManifestSized DEF Readable
    <3>4. CASE image = Bare("index")
      <4>1. Bare("index").layers = <<>> /\ Bare("index").configRef = NoBlob
        BY DEF Bare
      <4>2. Sized(<<>>)
        BY DEF Sized
      <4>3. NoBlob.size = 0
        BY DEF NoBlob
      <4> HIDE DEF image
      <4> QED
        BY <3>4, <4>1, <4>2, <4>3
    <3>5. image = FromManifest(ref.answer) \/ image = Bare("index")
      BY <1>2, <2>1, <3>1 DEF Resolved
    <3> QED
      BY <3>3, <3>4, <3>5
  <2> HIDE DEF image
  <2> DEFINE layers == image.layers
  <2>3. layers \in Seq(Values(layers)) /\ \A i \in DOMAIN layers : layers[i].size \in Int
    BY <2>2 DEF Sized
  <2> HIDE DEF layers
  <2>4. blobs = <<image.configRef>> \o layers
    BY DEF Blobs, layers
  <2>5. /\ DOMAIN blobs = 1 .. 1 + Len(layers) /\ Len(layers) \in Nat
        /\ blobs = [i \in DOMAIN blobs |-> blobs[i]]
        /\ blobs[1] = image.configRef
        /\ \A i \in 1 .. Len(layers) : blobs[1 + i] = layers[i]
    BY <2>3, <2>4
  <2> HIDE DEF blobs
  <2>6. blobs \in Seq(Values(blobs))
    BY <2>5, ListOfValues
  <2>7. \A i \in DOMAIN blobs : blobs[i].size \in Int
    <3> SUFFICES ASSUME NEW i \in DOMAIN blobs, i # 1 PROVE blobs[i].size \in Int
      BY <2>2, <2>5
    <3>1. i - 1 \in 1 .. Len(layers) /\ 1 + (i - 1) = i
      BY <2>5
    <3>2. blobs[i] = layers[i - 1] /\ i - 1 \in DOMAIN layers
      BY <2>3, <2>5, <3>1
    <3> QED
      BY <2>3, <3>2
  <2> QED
    BY <2>6, <2>7 DEF blobs, image
<1>3. ASSUME NEW p \in BlobPlaces(children) PROVE BlobsAt(children)[p].size \in Int
  <2>1. p[1] \in DOMAIN children /\ children[p[1]].resolved # Absent
        /\ p[2] \in DOMAIN Blobs(children[p[1]].resolved)
    BY PlacesArePairs
  <2> HIDE DEF children
  <2> QED
    BY <1>2, <2>1 DEF BlobsAt
<1> QED
  BY <1>1, <1>2, <1>3 DEF Listed

\* For every index, the size on its page is that of the union of its children's
\* blobs: each digest once, with a size that some child declares for it, and
\* each blob without a digest wherever it is (client.go:762-772, 821-843).
THEOREM ImagesIndexSizeIsUnion == ImageSpec => []IndexSizeIsUnion
<1>1. ImageInv => IndexSizeIsUnion
  <2> DEFINE children == Children(answer)
             at == BlobsAt(children)
             places == BlobPlaces(children)
             Blob(p) == Blobs(children[p[1]].resolved)[p[2]]
             named == {Blob(p).digest : p \in places} \ {""}
             without == {p \in places : Blob(p).digest = ""}
             Claimed(d) == {Blob(p).size : p \in {q \in places : Blob(q).digest = d}}
             loose == CHOOSE f : f = [T \in SUBSET without |->
                          IF T = {} THEN 0
                          ELSE Blob(CHOOSE x \in T : TRUE).size + f[T \ {CHOOSE x \in T : TRUE}]]
             low == CHOOSE f : f = [T \in SUBSET named |->
                          IF T = {} THEN 0
                          ELSE Min(Claimed(CHOOSE x \in T : TRUE)) + f[T \ {CHOOSE x \in T : TRUE}]]
             high == CHOOSE f : f = [T \in SUBSET named |->
                          IF T = {} THEN 0
                          ELSE Max(Claimed(CHOOSE x \in T : TRUE)) + f[T \ {CHOOSE x \in T : TRUE}]]
  <2> SUFFICES ASSUME ImageInv, page \notin Views, OfIndex
               PROVE  page.size - loose[without] \in low[named] .. high[named]
    BY DEF IndexSizeIsUnion, MapThenSumSet, MapThenFoldSet
  <2>1. answer \in Documents /\ page.size = DistinctSize(children)
    <3>1. answer \in Documents /\ page = ImagePage(FromIndex(answer))
      BY PageOf, IndexViews
    <3>2. FromIndex(answer).total = DistinctSize(children)
      BY IndexImage DEF OfIndex
    <3> HIDE DEF children
    <3> QED
      BY <3>1, <3>2 DEF ImagePage
  <2>2. Listed(children) /\ \A p \in places : at[p].size \in Int
    BY <2>1, ChildrenListed
  <2>3. IsFiniteSet(places) /\ DOMAIN at = places /\ \A p \in places : at[p] = Blob(p)
    BY <2>2, PlacesFinite DEF BlobsAt
  <2> HIDE DEF children, at, places, Blob
  <2>4. /\ without = Loose(at, places)
        /\ named = Digests(at, places)
        /\ \A d : Claimed(d) = Claims(at, d)
    <3>1. without = Loose(at, places)
      BY <2>3 DEF Loose
    <3>2. named = Digests(at, places)
      BY <2>3 DEF Digests
    <3>3. \A d : Claimed(d) = Claims(at, d)
      BY <2>3 DEF Claims
    <3> QED
      BY <3>1, <3>2, <3>3
  <2> HIDE DEF Claimed
  <2>5. IsFiniteSet(without) /\ IsFiniteSet(named)
    <3> DEFINE all == {Blob(p).digest : p \in places}
               digest == [p \in places |-> Blob(p).digest]
    <3>1. digest \in Surjection(places, all)
      BY DEF Surjection
    <3>2. IsFiniteSet(all)
      <4> HIDE DEF all, digest
      <4> QED BY <2>3, <3>1, FS_Surjection
    <3> QED
      BY <2>3, <3>2, FS_Subset
  <2>6. AddsUp(loose, Weights(at), without)
    <3>1. Weights(at) \in [without -> Int] /\ \A p \in without : Weights(at)[p] = Blob(p).size
      BY <2>2, <2>3, <2>4 DEF Weights
    <3>2. \A f : IsSum(f, Weights(at), without) <=>
                 f = [T \in SUBSET without |->
                          IF T = {} THEN 0
                          ELSE Blob(CHOOSE x \in T : TRUE).size + f[T \ {CHOOSE x \in T : TRUE}]]
      <4>1. \A T \in SUBSET without : T # {} => Weights(at)[Chosen(T)] = Blob(CHOOSE x \in T : TRUE).size
        <5> HIDE DEF without
        <5> QED BY <3>1 DEF Chosen
      <4> HIDE DEF without
      <4> QED
        BY <4>1 DEF IsSum, Chosen
    <3>3. \E f : f = [T \in SUBSET without |->
                        IF T = {} THEN 0
                        ELSE Blob(CHOOSE x \in T : TRUE).size + f[T \ {CHOOSE x \in T : TRUE}]]
      <4>1. PICK f : IsSum(f, Weights(at), without)
        BY <2>5, <3>1, SumsAddUp
      <4> WITNESS f
      <4> QED
        BY <3>2, <4>1
    <3>4. IsSum(loose, Weights(at), without)
      <4>1. loose = [T \in SUBSET without |->
                        IF T = {} THEN 0
                        ELSE Blob(CHOOSE x \in T : TRUE).size + loose[T \ {CHOOSE x \in T : TRUE}]]
        <5> HIDE DEF without
        <5> QED BY <3>3, Zenon
      <4> HIDE DEF loose, without
      <4> QED BY <3>2, <4>1
    <3> HIDE DEF loose, without
    <3> QED
      BY <2>5, <3>1, <3>4, SumsAddUp
  <2>7. AddsUp(low, Lows(at), named)
    <3>1. Lows(at) \in [named -> Int] /\ \A d \in named : Lows(at)[d] = Min(Claimed(d))
      <4>1. \A d \in named : Min(Claims(at, d)) \in Int
        <5> SUFFICES ASSUME NEW d \in named PROVE Min(Claims(at, d)) \in Int
          OBVIOUS
        <5>1. PICK p \in DOMAIN at : at[p].digest = d
          BY <2>3
        <5> HIDE DEF named
        <5> QED
          BY <2>2, <2>3, <5>1, ClaimsBound
      <4>2. Digests(at, DOMAIN at) = named
        BY <2>3, <2>4
      <4> HIDE DEF named
      <4> QED
        BY <2>4, <4>1, <4>2 DEF Lows
    <3> HIDE DEF named
    <3>2. \A f : IsSum(f, Lows(at), named) <=>
                 f = [T \in SUBSET named |->
                          IF T = {} THEN 0
                          ELSE Min(Claimed(CHOOSE x \in T : TRUE)) + f[T \ {CHOOSE x \in T : TRUE}]]
      <4>1. \A T \in SUBSET named : T # {} => Lows(at)[Chosen(T)] = Min(Claimed(CHOOSE x \in T : TRUE))
        BY <3>1 DEF Chosen
      <4> QED
        BY <4>1 DEF IsSum, Chosen
    <3>3. \E f : f = [T \in SUBSET named |->
                        IF T = {} THEN 0
                        ELSE Min(Claimed(CHOOSE x \in T : TRUE)) + f[T \ {CHOOSE x \in T : TRUE}]]
      <4>1. PICK f : IsSum(f, Lows(at), named)
        BY <2>5, <3>1, SumsAddUp
      <4> WITNESS f
      <4> QED
        BY <3>2, <4>1
    <3>4. IsSum(low, Lows(at), named)
      <4>1. low = [T \in SUBSET named |->
                        IF T = {} THEN 0
                        ELSE Min(Claimed(CHOOSE x \in T : TRUE)) + low[T \ {CHOOSE x \in T : TRUE}]]
        BY <3>3, Zenon
      <4> HIDE DEF low
      <4> QED BY <3>2, <4>1
    <3> HIDE DEF low
    <3> QED
      BY <2>5, <3>1, <3>4, SumsAddUp
  <2>8. AddsUp(high, Highs(at), named)
    <3>1. Highs(at) \in [named -> Int] /\ \A d \in named : Highs(at)[d] = Max(Claimed(d))
      <4>1. \A d \in named : Max(Claims(at, d)) \in Int
        <5> SUFFICES ASSUME NEW d \in named PROVE Max(Claims(at, d)) \in Int
          OBVIOUS
        <5>1. PICK p \in DOMAIN at : at[p].digest = d
          BY <2>3
        <5> HIDE DEF named
        <5> QED
          BY <2>2, <2>3, <5>1, ClaimsBound
      <4>2. Digests(at, DOMAIN at) = named
        BY <2>3, <2>4
      <4> HIDE DEF named
      <4> QED
        BY <2>4, <4>1, <4>2 DEF Highs
    <3> HIDE DEF named
    <3>2. \A f : IsSum(f, Highs(at), named) <=>
                 f = [T \in SUBSET named |->
                          IF T = {} THEN 0
                          ELSE Max(Claimed(CHOOSE x \in T : TRUE)) + f[T \ {CHOOSE x \in T : TRUE}]]
      <4>1. \A T \in SUBSET named : T # {} => Highs(at)[Chosen(T)] = Max(Claimed(CHOOSE x \in T : TRUE))
        BY <3>1 DEF Chosen
      <4> QED
        BY <4>1 DEF IsSum, Chosen
    <3>3. \E f : f = [T \in SUBSET named |->
                        IF T = {} THEN 0
                        ELSE Max(Claimed(CHOOSE x \in T : TRUE)) + f[T \ {CHOOSE x \in T : TRUE}]]
      <4>1. PICK f : IsSum(f, Highs(at), named)
        BY <2>5, <3>1, SumsAddUp
      <4> WITNESS f
      <4> QED
        BY <3>2, <4>1
    <3>4. IsSum(high, Highs(at), named)
      <4>1. high = [T \in SUBSET named |->
                        IF T = {} THEN 0
                        ELSE Max(Claimed(CHOOSE x \in T : TRUE)) + high[T \ {CHOOSE x \in T : TRUE}]]
        BY <3>3, Zenon
      <4> HIDE DEF high
      <4> QED BY <3>2, <4>1
    <3> HIDE DEF high
    <3> QED
      BY <2>5, <3>1, <3>4, SumsAddUp
  <2> HIDE DEF loose, low, high, named, without
  <2>9. SizesAddUp(at, loose, low, high)
    BY <2>2, <2>3, <2>4, <2>6, <2>7, <2>8 DEF SizesAddUp
  <2>10. DistinctSize(children) - loose[Loose(at, DOMAIN at)]
             \in low[Digests(at, DOMAIN at)] .. high[Digests(at, DOMAIN at)]
    BY <2>2, <2>9, ChildrenAccount DEF at
  <2> QED
    BY <2>1, <2>3, <2>4, <2>10
<1> QED
  BY <1>1, ImageInvariant, PTL
=============================================================================
