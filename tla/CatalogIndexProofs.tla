------------------------- MODULE CatalogIndexProofs -------------------------
(***************************************************************************)
(* Proofs about CatalogIndex for any number of requests, names, changes    *)
(* and entries, and any page size, lifetime and timeout.                   *)
(***************************************************************************)
EXTENDS CatalogIndex, FiniteSetTheorems, TLAPS

(* The inductive invariants, each of them together with TypeOK.            *)

\* Whoever found nothing when it queued will find a fresh answer: it is still in
\* the queue, and the answer is from this very moment.
QueuedCold == \A p \in Procs : queued[p] = "cold" => pc[p] = "queue" /\ Fresh

\* Only a walk has a cursor, and it has nothing before its first page.
WalksTidy == /\ \A p \in Procs : load # p => cursor[p] = 0
             /\ \A p \in Procs : cursor[p] = 0 => walk[p] = NoWalk

\* A page after c that knows how it goes on, as far as it goes.
GoesOn(c, v) == v.next = 0 \/ c < v.next

\* Answers lead forward, and no answer is from the future.
PagesAhead ==
    /\ \A c \in Cursors : LET v == ledger[c].value
                          IN  v # None => GoesOn(c, v) /\ v.from.version <= version
    /\ \A p \in Procs : page[p] # None => GoesOn(cursor[p], page[p]) /\ page[p].from.version <= version
    /\ \A p \in Procs : walk[p].from.version <= version
    /\ index.from.version <= version

\* The repositories that have been there since version n.
Steady(n) == {r \in exists : born[r] <= n}

\* A page after c misses none of them up to its own cursor; the last page, none.
PageComplete(c, v) == \A r \in Steady(v.from.version) :
                          c < r /\ (v.next = 0 \/ r <= v.next) => r \in v.names

\* A walk misses none of them up to its cursor.
WalkComplete(p) == \A r \in Steady(walk[p].from.version) : r <= cursor[p] => r \in walk[p].all

AllComplete == /\ \A c \in Cursors : ledger[c].value # None => PageComplete(c, ledger[c].value)
               /\ \A p \in Procs : page[p] # None => PageComplete(cursor[p], page[p])
               /\ \A p \in Procs : WalkComplete(p)
               /\ ListComplete

\* A deletion has passed every answer by that shows r.
Shunned(r) == /\ \A c \in Cursors : LET v == ledger[c].value
                                    IN  v # None /\ r \in v.names => v.from.raced
              /\ \A p \in Procs : page[p] # None /\ r \in page[p].names => page[p].from.raced

\* A repository that is being deleted stays away, or its return is known; once
\* the client has its success it is shunned, and when it is gone no walk and no
\* fresh list shows it either.
GhostsShunned ==
    /\ \A p \in Procs \ returned :
           /\ pc[p] \in {"deleted", "invalidate"} => victim[p] \notin exists
           /\ pc[p] = "invalidate" => Shunned(victim[p])
    /\ \A r \in gone : /\ r \notin exists
                       /\ Shunned(r)
                       /\ \A p \in Procs : r \in walk[p].all => walk[p].from.raced
                       /\ Fresh /\ r \in Shown => index.from.raced

\* The age at which the answers of a walk are when it gets to cursor c: its first
\* page was cached at most, and every page took its time.
WalkAge(c) == CacheTTL + Timeout * c

AgesBounded ==
    /\ \A c \in Cursors : LET e == ledger[c]
                          IN  e.value # None => e.expires <= e.value.from.time + Timeout + CacheTTL
    /\ \A p \in Procs :
           /\ pc[p] \in {"request", "reply"} => since[p] <= now /\ now <= since[p] + Timeout
           /\ page[p] # None => since[p] <= page[p].from.time
           /\ pc[p] = "walk" /\ cursor[p] # 0 => now < walk[p].from.time + WalkAge(cursor[p])
           /\ pc[p] \in {"request", "reply"} /\ cursor[p] # 0
                 => since[p] < walk[p].from.time + WalkAge(cursor[p])
    /\ index.at # Zero /\ index.repos # None
          => /\ index.at <= now
             /\ index.at < index.from.time + WalkAge(MaxName + 1)

-----------------------------------------------------------------------------
(* Numbers and the first of a set of them.                                 *)

\* A set of natural numbers has a least member.
LEMMA LeastMember ==
    ASSUME NEW S \in SUBSET Nat, S # {}
    PROVE  \E x \in S : \A y \in S : x <= y
<1> DEFINE Below(x) == {y \in S : y <= x}
           Initials == {Below(x) : x \in S}
<1>1. \A x \in S : Below(x) \in FiniteSubsetsOf(S)
  <2> TAKE x \in S
  <2>1. IsFiniteSet(Below(x))
    <3>1. Below(x) \in SUBSET Nat /\ \A y \in Below(x) : y <= x
      OBVIOUS
    <3> QED
      BY <3>1, FS_BoundedSetOfNaturals
  <2> QED
    BY <2>1 DEF FiniteSubsetsOf
<1>2. Initials \subseteq FiniteSubsetsOf(S) /\ Initials # {}
  BY <1>1
<1>3. PICK T \in Initials : \A U \in Initials : <<U, T>> \notin StrictSubsetOrdering(S)
  <2> HIDE DEF Initials
  <2> QED
    BY <1>2, FS_StrictSubsetOrderingWellFounded, WFMin
<1>4. PICK x \in S : T = Below(x)
  BY <1>3
<1>5. ASSUME NEW y \in S, ~(x <= y) PROVE FALSE
  <2>0. y \in Nat /\ x \in Nat /\ y < x
    BY <1>5
  <2>1. \A z \in S : z <= y => z <= x
    BY <2>0
  <2>2. x \in Below(x) /\ x \notin Below(y)
    BY <2>0
  <2>3. Below(y) \subseteq Below(x)
    BY <2>1
  <2>4. <<Below(y), Below(x)>> \in StrictSubsetOrdering(S)
    <3>1. Below(x) \in SUBSET S /\ Below(y) \in SUBSET S
      OBVIOUS
    <3> HIDE DEF Below
    <3> QED
      BY <2>2, <2>3, <3>1 DEF StrictSubsetOrdering
  <2> QED
    BY <1>3, <1>4, <2>4
<1> QED
  BY <1>5

\* So has every set of names, and a greatest.
LEMMA GreatestMember ==
    ASSUME NEW S \in SUBSET Names, S # {}
    PROVE  /\ Greatest(S) \in S
           /\ \A y \in S : y <= Greatest(S)
<1> DEFINE Mirrored == {MaxName - y : y \in S}
<1>0. \A y \in S : y \in Nat /\ MaxName - y \in Nat
  BY SizesAssumption DEF Names
<1>1. Mirrored \in SUBSET Nat /\ Mirrored # {}
  BY <1>0
<1>2. PICK m \in Mirrored : \A y \in Mirrored : m <= y
  BY <1>1, LeastMember
<1>3. PICK x \in S : m = MaxName - x
  BY <1>2
<1>4. \A y \in S : y <= x
  <2> TAKE y \in S
  <2>1. MaxName - x <= MaxName - y
    BY <1>2, <1>3
  <2> QED
    BY <2>1, SizesAssumption DEF Names
<1> QED
  BY <1>4 DEF Greatest

\* The n first names of S are n at most; they are all of S if they are fewer, or
\* if S has no more; and nothing before one of them is left out.
LEMMA FirstFacts ==
    ASSUME NEW S \in SUBSET Names, NEW n \in Nat
    PROVE  /\ First(S, n) \subseteq S
           /\ Cardinality(First(S, n)) \in Nat /\ Cardinality(S) \in Nat
           /\ Cardinality(First(S, n)) <= n
           /\ Cardinality(First(S, n)) < n => First(S, n) = S
           /\ Cardinality(S) <= n => First(S, n) = S
           /\ \A x \in First(S, n) : \A y \in S : y <= x => y \in First(S, n)
<1> DEFINE F == First(S, n)
           Upto(x) == {y \in S : y <= x}
<1>0. S \subseteq Nat
  BY DEF Names
<1>1. IsFiniteSet(S) /\ Cardinality(S) \in Nat
  <2>1. IsFiniteSet(Names)
    BY FS_Interval, SizesAssumption DEF Names
  <2> QED
    BY <2>1, FS_Subset, FS_CardinalityType
<1>2. F \subseteq S /\ \A x \in S : x \in F <=> Cardinality(Upto(x)) <= n
  BY DEF First
<1>3. IsFiniteSet(F) /\ Cardinality(F) \in Nat
  BY <1>1, <1>2, FS_Subset, FS_CardinalityType
<1>4. \A x \in S : /\ IsFiniteSet(Upto(x)) /\ Cardinality(Upto(x)) \in Nat
                   /\ Cardinality(Upto(x)) <= Cardinality(S)
  <2> TAKE x \in S
  <2>1. Upto(x) \in SUBSET S
    OBVIOUS
  <2> QED
    BY <1>1, <2>1, FS_Subset, FS_CardinalityType
<1>5. \A x \in F : \A y \in S : y <= x => y \in F
  <2> TAKE x \in F
  <2> TAKE y \in S
  <2> HAVE y <= x
  <2>0. x \in S /\ x \in Nat /\ y \in Nat
    BY <1>0, <1>2
  <2>1. \A z \in S : z <= y => z <= x
    BY <1>0, <2>0
  <2>3. Upto(y) \in SUBSET Upto(x)
    BY <2>1
  <2>2. Cardinality(Upto(y)) <= Cardinality(Upto(x))
    BY <1>4, <2>0, <2>3, FS_Subset
  <2> QED
    BY <1>2, <1>4, <2>0, <2>2
<1>6. Cardinality(F) <= n
  <2>1. CASE F = {}
    BY <2>1, FS_EmptySet
  <2>2. CASE F # {}
    <3>1. PICK x \in F : F \subseteq Upto(x)
      BY <1>2, <2>2, GreatestMember
    <3>2. Cardinality(F) <= Cardinality(Upto(x))
      BY <1>2, <1>4, <3>1, FS_Subset
    <3>3. x \in S
      BY <1>2
    <3> HIDE DEF F, Upto
    <3> QED
      BY <1>2, <1>3, <1>4, <3>2, <3>3
  <2> QED
    BY <2>1, <2>2
<1>7. ASSUME Cardinality(F) < n PROVE F = S
  <2> SUFFICES ASSUME S \ F # {} PROVE FALSE
    BY <1>2
  <2>0. S \ F \in SUBSET Nat
    BY <1>0
  <2>1. PICK x \in S \ F : \A y \in S \ F : x <= y
    <3> HIDE DEF F
    <3> QED
      BY <2>0, LeastMember
  <2>2. Upto(x) \subseteq F \cup {x}
    <3> SUFFICES ASSUME NEW y \in S, y <= x, y \notin F PROVE y = x
      OBVIOUS
    <3>1. y \in Nat /\ x \in Nat /\ x <= y
      BY <2>0, <2>1
    <3> QED
      BY <3>1
  <2>3. IsFiniteSet(F \cup {x}) /\ Cardinality(F \cup {x}) = Cardinality(F) + 1
    BY <1>3, <2>1, FS_AddElement
  <2>4. Cardinality(Upto(x)) <= Cardinality(F) + 1
    BY <2>2, <2>3, FS_Subset
  <2> HIDE DEF F, Upto
  <2> QED
    BY <1>2, <1>3, <1>4, <1>7, <2>1, <2>4
<1>8. ASSUME Cardinality(S) <= n PROVE F = S
  <2>1. \A x \in S : Cardinality(Upto(x)) <= n
    BY <1>1, <1>4, <1>8
  <2> QED
    BY <1>2, <2>1
<1> QED
  BY <1>1, <1>2, <1>3, <1>5, <1>6, <1>7, <1>8

-----------------------------------------------------------------------------
(* Types.                                                                  *)

\* What the registry answers, and what a walk makes of it, is of its type.
LEMMA PageTyped ==
    ASSUME TypeOK, NEW c \in Cursors
    PROVE  Page(c) \in Pages /\ Page(c) # None
<1> DEFINE S == {r \in exists : r > c}
<1>1. S \in SUBSET Names /\ PageSize \in Nat
  BY SizesAssumption DEF TypeOK
<1>2. First(S, PageSize) \in SUBSET Names
  BY <1>1, FirstFacts
<1>3. NextCursor(First(S, PageSize)) \in Cursors
  <2>1. CASE Cardinality(First(S, PageSize)) = PageSize
    <3>1. First(S, PageSize) # {}
      BY <2>1, FS_EmptySet, SizesAssumption
    <3>2. Greatest(First(S, PageSize)) \in Names
      BY <1>2, <3>1, GreatestMember
    <3> QED
      BY <2>1, <3>2 DEF NextCursor, Names, Cursors
  <2>2. CASE Cardinality(First(S, PageSize)) # PageSize
    BY <2>2, SizesAssumption DEF NextCursor, Cursors
  <2> QED
    BY <2>1, <2>2
<1>4. Page(c) \in Pages
  BY <1>2, <1>3 DEF Page, Pages, History, TypeOK
<1> QED
  BY <1>4, NamesAssumption

\* A walk that takes one more page in remains a walk.
LEMMA ExtendedTyped ==
    ASSUME NEW w \in [all : SUBSET Names, from : History], NEW c \in Cursors, NEW v \in Pages
    PROVE  Extended(w, c, v) \in [all : SUBSET Names, from : History]
<1>1. w.all \cup v.names \in SUBSET Names /\ MaxCatalogEntries \in Nat
  BY SizesAssumption DEF Pages
<1>2. First(w.all \cup v.names, MaxCatalogEntries) \in SUBSET Names
  BY <1>1, FirstFacts
<1>3. v.from \in History /\ Older(w.from, v.from) \in History
  BY DEF Older, History, Pages
<1> QED
  BY <1>2, <1>3 DEF Extended

\* A walk that has got its page ends, or goes on to the next.
Finishes(p, v) ==
    LET w == Extended(walk[p], cursor[p], v)
    IN  /\ LastPage(walk[p], cursor[p], v)
        /\ index' = [repos |-> IF w.all = {} THEN None ELSE w.all,
                     at |-> now, err |-> FALSE, from |-> w.from]
        /\ listed' = (w.all # {})
        /\ Leave(p)

Continues(p, v) ==
    /\ ~LastPage(walk[p], cursor[p], v)
    /\ GoTo(p, "walk")
    /\ walk' = [walk EXCEPT ![p] = Extended(walk[p], cursor[p], v)]
    /\ cursor' = [cursor EXCEPT ![p] = v.next]
    /\ page' = [page EXCEPT ![p] = None]
    /\ since' = [since EXCEPT ![p] = 0]
    /\ UNCHANGED <<index, listed, load, queued>>

\* With a page a walk is over, or goes on behind its cursor.
LEMMA AbsorbCases ==
    ASSUME NEW p, NEW v, Absorb(p, v)
    PROVE  Finishes(p, v) \/ Continues(p, v)
BY DEF Absorb, Finishes, Continues

\* What a walk takes from the cache or the registry is a page.
LEMMA AbsorbedPages ==
    ASSUME TypeOK, NEW p \in Procs
    PROVE  /\ \A v \in Cache!Answers(cursor[p]) \ {None} :
                  /\ v \in Pages /\ v = ledger[cursor[p]].value
                  /\ now < ledger[cursor[p]].expires
           /\ pc[p] = "reply" => page[p] \in Pages /\ page[p] # None
BY DEF TypeOK, Cache!Answers

\* Leaving a walk keeps the types of what a walk has.
LEMMA LeaveTyped ==
    ASSUME TypeOK, NEW p \in Procs, pc[p] \in Walking, Leave(p)
    PROVE  /\ load' \in Procs \cup {None}
           /\ pc' \in [Procs -> {"idle", "queue", "delete", "deleted", "invalidate"} \cup Walking]
           /\ cursor' \in [Procs -> Cursors]
           /\ walk' \in [Procs -> [all : SUBSET Names, from : History]]
           /\ page' \in [Procs -> Pages \cup {None}]
           /\ since' \in [Procs -> Nat]
           /\ queued' \in [Procs -> {"no", "cold", "warm"}]
           /\ \A q \in Procs : /\ pc'[q] \in Walking <=> load' = q
                               /\ pc'[q] = "reply" <=> page'[q] # None
                               /\ pc'[q] \in {"delete", "deleted", "invalidate"} <=> victim[q] # None
<1>1. NoWalk \in [all : SUBSET Names, from : History] /\ 0 \in Cursors
  BY SizesAssumption DEF NoWalk, Fresh0, History, Cursors
<1>2. load = p
  BY DEF TypeOK
<1> QED
  BY <1>1, <1>2, NamesAssumption DEF TypeOK, Leave, GoTo, Unlock, Walking

\* Taking a page in keeps the types.
LEMMA AbsorbTyped ==
    ASSUME TypeOK, NEW p \in Procs, pc[p] \in Walking, NEW v \in Pages, Absorb(p, v),
           ledger' \in [Cursors -> [value : Pages \cup {None}, expires : Nat]],
           UNCHANGED <<now, registryVars, victim, returned, gone>>
    PROVE  TypeOK'
<1>1. Extended(walk[p], cursor[p], v) \in [all : SUBSET Names, from : History]
  BY ExtendedTyped DEF TypeOK
<1>2. CASE Finishes(p, v)
  <2>1. index' \in [repos : ((SUBSET Names) \ {{}}) \cup {None}, at : Nat \cup {Zero},
                    err : BOOLEAN, from : History]
    BY <1>1, <1>2 DEF Finishes, TypeOK
  <2>2. Leave(p) /\ listed' \in BOOLEAN
    BY <1>2 DEF Finishes
  <2> QED
    BY <2>1, <2>2, LeaveTyped DEF TypeOK, registryVars
<1>3. CASE Continues(p, v)
  BY <1>1, <1>3, NamesAssumption DEF Continues, TypeOK, GoTo, Walking, registryVars, Pages
<1> QED
  BY <1>2, <1>3, AbsorbCases

\* The same answer, although it a deletion may have passed it by by now.
SameAnswer(v, w) == /\ v.names = w.names /\ v.next = w.next
                    /\ v.from.version = w.from.version /\ v.from.time = w.from.time
                    /\ w.from.raced => v.from.raced

\* An answer that a deletion has passed by says what it said.
LEMMA OutlivedFacts ==
    ASSUME NEW v \in Pages \cup {None}
    PROVE  /\ Outlived(v) \in Pages \cup {None}
           /\ Outlived(v) = None <=> v = None
           /\ v # None => SameAnswer(Outlived(v), v) /\ Outlived(v).from.raced
<1>1. CASE v = None
  BY <1>1 DEF Outlived
<1>2. CASE v \in Pages /\ v # None
  <2>1. [v.from EXCEPT !.raced = TRUE] \in History
    BY <1>2 DEF Pages, History
  <2>2. Outlived(v) = [v EXCEPT !.from.raced = TRUE] /\ Outlived(v) \in Pages
    BY <1>2, <2>1 DEF Outlived, Pages
  <2>3. SameAnswer([v EXCEPT !.from.raced = TRUE], v) /\ [v EXCEPT !.from.raced = TRUE].from.raced
    BY <1>2 DEF Pages, History, SameAnswer
  <2> QED
    BY <1>2, <2>2, <2>3, NamesAssumption
<1> QED
  BY <1>1, <1>2

\* What is not of the walk keeps its type in every step of another sort.
LEMMA OthersTyped ==
    ASSUME TypeOK
    PROVE  /\ \A p \in Procs : BeginList(p) \/ Lists(p) \/ Deletes(p) => TypeOK'
           /\ \A p \in Procs, r \in Names : BeginDelete(p, r) => TypeOK'
           /\ \A r \in Names : OthersChange(r) => TypeOK'
           /\ TimePasses => TypeOK'
<1>1. ASSUME NEW p \in Procs, BeginList(p) PROVE TypeOK'
  BY <1>1 DEF TypeOK, BeginList, GoTo, cacheVars, registryVars, Walking
<1>2. ASSUME NEW p \in Procs, Lists(p) PROVE TypeOK'
  <2>1. CASE ListFresh(p)
    BY <2>1 DEF TypeOK, ListFresh, GoTo, cacheVars, registryVars, Walking
  <2>2. CASE StartWalk(p)
    <3>1. \A q \in Procs : pc[q] \notin Walking
      BY <2>2, NamesAssumption DEF StartWalk, TypeOK
    <3> QED
      BY <2>2, <3>1, NamesAssumption DEF TypeOK, StartWalk, GoTo, cacheVars, registryVars, Walking
  <2> QED
    BY <1>2, <2>1, <2>2 DEF Lists
<1>3. ASSUME NEW p \in Procs, NEW r \in Names, BeginDelete(p, r) PROVE TypeOK'
  BY <1>3, NamesAssumption DEF TypeOK, BeginDelete, GoTo, cacheVars, registryVars, Walking
<1>4. ASSUME NEW p \in Procs, Deletes(p) PROVE TypeOK'
  <2>1. CASE Deleted(p)
    BY <2>1 DEF TypeOK, Deleted, Disappears, GoTo, cacheVars, registryVars, Walking
  <2>2. CASE ClientInvalidates(p)
    <3>1. ledger' = [c \in Cursors |-> Cache!Nothing] /\ now' = now
      BY <2>2 DEF ClientInvalidates, Cache!Invalidate
    <3>2. Cache!Nothing \in [value : Pages \cup {None}, expires : Nat]
      BY DEF Cache!Nothing
    <3>3. /\ page' \in [Procs -> Pages \cup {None}]
          /\ \A q \in Procs : page'[q] # None <=> page[q] # None
      BY <2>2, OutlivedFacts DEF ClientInvalidates, TypeOK
    <3> QED
      BY <2>2, <3>1, <3>2, <3>3 DEF TypeOK, ClientInvalidates, GoTo, registryVars, Walking
  <2>3. CASE Invalidate(p)
    <3>1. Invalidated(index) \in [repos : ((SUBSET Names) \ {{}}) \cup {None}, at : Nat \cup {Zero},
                                  err : BOOLEAN, from : History]
      BY DEF TypeOK, Invalidated
    <3> QED
      BY <2>3, <3>1, NamesAssumption
         DEF TypeOK, Invalidate, GoTo, cacheVars, registryVars, Walking
  <2>4. CASE DeleteFails(p)
    BY <2>4, NamesAssumption DEF TypeOK, DeleteFails, GoTo, cacheVars, registryVars, Walking
  <2>5. CASE ClientKeepsPages(p)
    <3>1. ledger' \in [Cursors -> [value : Pages \cup {None}, expires : Nat]]
      <4>1. ASSUME NEW c \in Cursors
            PROVE  [ledger[c] EXCEPT !.value = Outlived(ledger[c].value)]
                       \in [value : Pages \cup {None}, expires : Nat]
        <5>1. ledger[c] \in [value : Pages \cup {None}, expires : Nat]
          BY DEF TypeOK
        <5> QED
          BY <5>1, OutlivedFacts
      <4> QED
        BY <2>5, <4>1 DEF ClientKeepsPages
    <3>2. /\ page' \in [Procs -> Pages \cup {None}]
          /\ \A q \in Procs : page'[q] # None <=> page[q] # None
      BY <2>5, OutlivedFacts DEF ClientKeepsPages, TypeOK
    <3> QED
      BY <2>5, <3>1, <3>2 DEF TypeOK, ClientKeepsPages, GoTo, registryVars, Walking
  <2> QED
    BY <1>4, <2>1, <2>2, <2>3, <2>4, <2>5 DEF Deletes
<1>5. ASSUME NEW r \in Names, OthersChange(r) PROVE TypeOK'
  <2>1. CASE Appears(r)
    BY <1>5, <2>1 DEF TypeOK, OthersChange, Appears, cacheVars
  <2>2. CASE Disappears(r) /\ UNCHANGED <<returned, gone>>
    BY <1>5, <2>2 DEF TypeOK, OthersChange, Disappears, cacheVars
  <2> QED
    BY <1>5, <2>1, <2>2 DEF OthersChange
<1>6. ASSUME TimePasses PROVE TypeOK'
  <2>1. ledger' \in [Cursors -> [value : Pages \cup {None}, expires : Nat]]
    BY <1>6 DEF TypeOK, TimePasses, Cache!Forget, Cache!Nothing
  <2> QED
    BY <1>6, <2>1 DEF TypeOK, TimePasses, registryVars
<1> QED
  BY <1>1, <1>2, <1>3, <1>4, <1>5, <1>6

\* Every step of a walk keeps the types.
LEMMA WalksTyped ==
    ASSUME TypeOK, NEW p \in Procs, Walks(p)
    PROVE  TypeOK'
<1>1. CASE PageCached(p)
  <2>1. PICK v \in Pages : Absorb(p, v)
    BY <1>1, AbsorbedPages DEF PageCached
  <2> QED
    BY <1>1, <2>1, AbsorbTyped DEF PageCached, cacheVars, Walking, TypeOK
<1>2. CASE PageMissed(p)
  BY <1>2 DEF TypeOK, PageMissed, GoTo, cacheVars, registryVars, Walking
<1>3. CASE PageServed(p)
  <2>1. Page(cursor[p]) \in Pages /\ Page(cursor[p]) # None
    BY PageTyped DEF TypeOK
  <2> QED
    BY <1>3, <2>1 DEF TypeOK, PageServed, GoTo, cacheVars, registryVars, Walking
<1>4. CASE PageStored(p)
  <2>1. page[p] \in Pages /\ now + CacheTTL \in Nat
    BY <1>4, AbsorbedPages, SizesAssumption DEF PageStored, TypeOK
  <2>2. /\ ledger' = [ledger EXCEPT ![cursor[p]] = [value |-> page[p], expires |-> now + CacheTTL]]
        /\ now' = now
    BY <1>4 DEF PageStored, PageLifetime, Cache!Set
  <2>3. ledger' \in [Cursors -> [value : Pages \cup {None}, expires : Nat]]
    BY <2>1, <2>2 DEF TypeOK
  <2> QED
    BY <1>4, <2>1, <2>2, <2>3, AbsorbTyped DEF PageStored, Walking
<1>5. CASE WalkFails(p)
  <2>1. AfterFailure(index) \in [repos : ((SUBSET Names) \ {{}}) \cup {None}, at : Nat \cup {Zero},
                                 err : BOOLEAN, from : History]
    BY DEF TypeOK, AfterFailure
  <2> QED
    BY <1>5, <2>1, LeaveTyped DEF TypeOK, WalkFails, cacheVars, registryVars
<1> QED
  BY <1>1, <1>2, <1>3, <1>4, <1>5 DEF Walks

\* Every step keeps the types.
LEMMA StepTyped == TypeOK /\ [Next]_vars => TypeOK'
<1> SUFFICES ASSUME TypeOK, [Next]_vars PROVE TypeOK'
  OBVIOUS
<1>1. CASE Next
  BY <1>1, OthersTyped, WalksTyped DEF Next
<1>2. CASE UNCHANGED vars
  BY <1>2 DEF TypeOK, vars, cacheVars, registryVars
<1> QED
  BY <1>1, <1>2

\* Every variable keeps its type, of which the tie between pc, the mutex and
\* what a request holds is part (catalog.go:53-70).
THEOREM CatalogTyped == Spec => []TypeOK
<1>1. Init => TypeOK
  <2> SUFFICES ASSUME Init PROVE TypeOK
    OBVIOUS
  <2>1. ledger \in [Cursors -> [value : Pages \cup {None}, expires : Nat]] /\ now \in Nat
    BY DEF Init, Cache!Init, Cache!Nothing
  <2>2. NoWalk \in [all : SUBSET Names, from : History] /\ Fresh0 \in History /\ 0 \in Cursors
    BY SizesAssumption DEF NoWalk, Fresh0, History, Cursors
  <2> QED
    BY <2>1, <2>2, NamesAssumption DEF Init, TypeOK, Walking
<1> QED
  BY <1>1, StepTyped, PTL DEF Spec

-----------------------------------------------------------------------------
(* One walk, and what failures leave.                                      *)

\* The page that a walk takes, and where it has it from.
Absorbs(p, v) ==
    /\ Finishes(p, v) \/ Continues(p, v)
    /\ v # None
    /\ UNCHANGED <<now, registryVars, victim, returned, gone>>
    /\ \/ /\ pc[p] = "walk"
          /\ v = ledger[cursor[p]].value /\ now < ledger[cursor[p]].expires
          /\ UNCHANGED ledger
       \/ /\ pc[p] = "reply"
          /\ v = page[p]
          /\ ledger' = [ledger EXCEPT ![cursor[p]] = [value |-> v, expires |-> now + CacheTTL]]

\* What a request for the list does, one page at a time.
LEMMA WalkCases ==
    ASSUME TypeOK, NEW p \in Procs, Walks(p)
    PROVE  PageMissed(p) \/ PageServed(p) \/ WalkFails(p) \/ \E v \in Pages : Absorbs(p, v)
<1>1. CASE PageCached(p)
  <2>1. PICK v \in Pages : Absorb(p, v) /\ v = ledger[cursor[p]].value /\ now < ledger[cursor[p]].expires
    BY <1>1, AbsorbedPages DEF PageCached
  <2>2. Absorbs(p, v)
    BY <1>1, <2>1, AbsorbCases, NamesAssumption DEF PageCached, cacheVars, Absorbs
  <2> QED
    BY <2>2
<1>2. CASE PageStored(p)
  <2>1. page[p] \in Pages /\ page[p] # None
    BY <1>2, AbsorbedPages DEF PageStored
  <2>2. Absorbs(p, page[p])
    BY <1>2, <2>1, AbsorbCases DEF PageStored, PageLifetime, Cache!Set, Absorbs
  <2> QED
    BY <2>1, <2>2
<1> QED
  BY <1>1, <1>2 DEF Walks

\* No step loses a list that is not empty.
LEMMA StaleStep == TypeOK /\ StaleBeatsError /\ [Next]_vars => StaleBeatsError'
<1> SUFFICES ASSUME TypeOK, StaleBeatsError, [Next]_vars PROVE StaleBeatsError'
  OBVIOUS
<1>1. ASSUME UNCHANGED <<index, listed>> PROVE StaleBeatsError'
  BY <1>1 DEF StaleBeatsError
<1>2. ASSUME NEW p \in Procs, Walks(p) PROVE StaleBeatsError'
  <2>1. CASE PageMissed(p) \/ PageServed(p)
    BY <1>1, <2>1 DEF PageMissed, PageServed
  <2>2. CASE WalkFails(p)
    BY <2>2 DEF WalkFails, AfterFailure, StaleBeatsError
  <2>3. ASSUME NEW v \in Pages, Absorbs(p, v) PROVE StaleBeatsError'
    <3>1. CASE Continues(p, v)
      BY <1>1, <3>1 DEF Continues
    <3>2. CASE Finishes(p, v)
      <4>1. Extended(walk[p], cursor[p], v).all \in SUBSET Names
        BY ExtendedTyped DEF TypeOK
      <4> QED
        BY <3>2, <4>1, NamesAssumption DEF Finishes, StaleBeatsError
    <3> QED
      BY <2>3, <3>1, <3>2 DEF Absorbs
  <2> QED
    BY <1>2, <2>1, <2>2, <2>3, WalkCases
<1>3. ASSUME NEW p \in Procs, Deletes(p) PROVE StaleBeatsError'
  <2>1. CASE Invalidate(p)
    BY <2>1 DEF Invalidate, Invalidated, StaleBeatsError, TypeOK
  <2>2. CASE ~Invalidate(p)
    BY <1>1, <1>3, <2>2 DEF Deletes, Deleted, ClientInvalidates, ClientKeepsPages, DeleteFails
  <2> QED
    BY <2>1, <2>2
<1>4. ASSUME NEW p \in Procs, BeginList(p) \/ Lists(p) PROVE StaleBeatsError'
  BY <1>1, <1>4 DEF BeginList, Lists, ListFresh, StartWalk
<1>5. ASSUME \/ \E p \in Procs, r \in Names : BeginDelete(p, r)
             \/ \E r \in Names : OthersChange(r)
             \/ TimePasses
             \/ UNCHANGED vars
      PROVE  StaleBeatsError'
  BY <1>1, <1>5 DEF BeginDelete, OthersChange, TimePasses, vars
<1> QED
  BY <1>2, <1>3, <1>4, <1>5 DEF Next

\* Once repositories were listed no failure and no deletion turns the page into
\* an error (catalog.go:61-70, 78-83).
THEOREM CatalogStaleBeatsError == Spec => []StaleBeatsError
<1>1. Init => StaleBeatsError
  BY DEF Init, StaleBeatsError
<1> QED
  BY <1>1, StaleStep, CatalogTyped, PTL DEF Spec

\* Who leaves tells those who queue what it has found before.
LEMMA LeaveQueued ==
    ASSUME TypeOK, QueuedCold, NEW p \in Procs, Leave(p), NEW q \in Procs, queued'[q] = "cold"
    PROVE  pc'[q] = "queue" /\ index.repos = None
BY DEF TypeOK, QueuedCold, Leave, GoTo

\* No step lets a request queue for a list it has seen.
LEMMA QueueStep == TypeOK /\ QueuedCold /\ [Next]_vars => QueuedCold'
<1> SUFFICES ASSUME TypeOK, QueuedCold, [Next]_vars PROVE QueuedCold'
  OBVIOUS
<1>1. ASSUME UNCHANGED <<index, now>>,
             \A q \in Procs : queued'[q] = "cold" => queued[q] = "cold" /\ pc'[q] = pc[q]
      PROVE  QueuedCold'
  BY <1>1 DEF QueuedCold, Fresh
<1>2. ASSUME now' \in Nat, index'.at = now' PROVE Fresh'
  <2>1. \A n \in Nat : n # Zero /\ n - n < CacheTTL
    BY SizesAssumption DEF Zero
  <2>2. now' # Zero /\ now' - now' < CacheTTL
    BY <1>2, <2>1, Zenon
  <2> QED
    BY <1>2, <2>2, Zenon DEF Fresh
<1>3. ASSUME NEW p \in Procs, Walks(p) PROVE QueuedCold'
  <2>1. CASE PageMissed(p) \/ PageServed(p)
    BY <1>1, <1>3, <2>1 DEF PageMissed, PageServed, GoTo, TypeOK, QueuedCold, cacheVars
  <2>2. CASE WalkFails(p)
    <3>1. Leave(p) /\ index' = AfterFailure(index) /\ now' = now
      BY <2>2 DEF WalkFails, cacheVars
    <3>2. index.repos = None => index'.at = now'
      BY <3>1 DEF AfterFailure, TypeOK
    <3> QED
      BY <1>2, <3>1, <3>2, LeaveQueued DEF QueuedCold, TypeOK
  <2>3. ASSUME NEW v \in Pages, Absorbs(p, v) PROVE QueuedCold'
    <3>1. CASE Continues(p, v)
      BY <1>1, <2>3, <3>1 DEF Continues, Absorbs, GoTo, TypeOK, QueuedCold
    <3>2. CASE Finishes(p, v)
      <4>1. Leave(p) /\ index'.at = now' /\ now' \in Nat
        BY <2>3, <3>2 DEF Finishes, Absorbs, TypeOK
      <4> QED
        BY <1>2, <4>1, LeaveQueued DEF QueuedCold
    <3> QED
      BY <2>3, <3>1, <3>2 DEF Absorbs
  <2> QED
    BY <1>3, <2>1, <2>2, <2>3, WalkCases
<1>4. ASSUME NEW p \in Procs, Deletes(p) PROVE QueuedCold'
  <2>1. CASE Invalidate(p)
    BY <2>1 DEF Invalidate, QueuedCold
  <2>2. CASE ~Invalidate(p)
    BY <1>1, <1>4, <2>2
       DEF Deletes, Deleted,
           ClientInvalidates, ClientKeepsPages, Cache!Invalidate, DeleteFails, GoTo, TypeOK,
           QueuedCold, cacheVars
  <2> QED
    BY <2>1, <2>2
<1>5. ASSUME NEW p \in Procs, Lists(p) PROVE QueuedCold'
  BY <1>1, <1>5 DEF Lists, ListFresh, StartWalk, GoTo, TypeOK, QueuedCold, cacheVars
<1>6. ASSUME NEW p \in Procs, BeginList(p) \/ \E r \in Names : BeginDelete(p, r) PROVE QueuedCold'
  BY <1>1, <1>6 DEF BeginList, BeginDelete, GoTo, TypeOK, QueuedCold, cacheVars
<1>7. ASSUME NEW r \in Names, OthersChange(r) PROVE QueuedCold'
  BY <1>1, <1>7 DEF OthersChange, cacheVars
<1>8. ASSUME TimePasses PROVE QueuedCold'
  BY <1>8 DEF TimePasses, QueuedCold
<1>9. ASSUME UNCHANGED vars PROVE QueuedCold'
  BY <1>1, <1>9 DEF vars, cacheVars
<1> QED
  BY <1>3, <1>4, <1>5, <1>6, <1>7, <1>8, <1>9 DEF Next

\* A request that queued while another walked for a registry not listed yet does
\* not walk itself: not even if that walk failed (catalog.go:53-70).
THEOREM CatalogOneWalkWhenCold == Spec => []OneWalkWhenCold
<1>1. Init => QueuedCold
  BY DEF Init, QueuedCold
<1>2. QueuedCold => OneWalkWhenCold
  BY DEF QueuedCold, OneWalkWhenCold, Walking
<1> QED
  BY <1>1, <1>2, QueueStep, CatalogTyped, PTL DEF Spec

-----------------------------------------------------------------------------
(* What one step may do to answers, walks, the list and the registry.      *)

\* Steps that leave answers, walks and list alone.
Quiet == UNCHANGED <<ledger, page, cursor, walk, index>>

\* What a step may be, for those who only care about walks and the registry.
LEMMA StepCases ==
    ASSUME TypeOK, [Next]_vars
    PROVE  \/ Quiet /\ UNCHANGED registryVars
           \/ \E p \in Procs : \/ PageServed(p) \/ WalkFails(p)
                               \/ \E v \in Pages : Absorbs(p, v)
                               \/ Deleted(p)
                               \/ ClientInvalidates(p) \/ ClientKeepsPages(p) \/ Invalidate(p)
           \/ \E r \in Names : OthersChange(r)
           \/ TimePasses
<1>1. ASSUME NEW p \in Procs, BeginList(p) \/ Lists(p) \/ PageMissed(p) \/ DeleteFails(p)
      PROVE  Quiet /\ UNCHANGED registryVars
  BY <1>1 DEF BeginList, Lists, ListFresh, StartWalk, PageMissed, DeleteFails, Quiet, cacheVars
<1>2. ASSUME NEW p \in Procs, NEW r \in Names, BeginDelete(p, r)
      PROVE  Quiet /\ UNCHANGED registryVars
  BY <1>2 DEF BeginDelete, Quiet, cacheVars
<1>3. UNCHANGED vars => Quiet /\ UNCHANGED registryVars
  BY DEF vars, Quiet, cacheVars
<1>4. ASSUME NEW p \in Procs, Walks(p)
      PROVE  \/ PageMissed(p) \/ PageServed(p) \/ WalkFails(p)
             \/ \E v \in Pages : Absorbs(p, v)
  BY <1>4, WalkCases
<1> QED
  BY <1>1, <1>2, <1>3, <1>4 DEF Next, Deletes

\* The same page in the cache, for as long.
SameEntry(d, e) == /\ e.value # None /\ SameAnswer(d.value, e.value)
                   /\ d.expires = e.expires

\* The cache has what it had or what a walk has just been answered.
LEMMA LedgerStep ==
    ASSUME TypeOK, [Next]_vars, NEW c \in Cursors, ledger'[c].value # None
    PROVE  \/ SameEntry(ledger'[c], ledger[c])
           \/ \E p \in Procs : /\ pc[p] = "reply" /\ page[p] # None /\ cursor[p] = c
                               /\ ledger'[c] = [value |-> page[p], expires |-> now + CacheTTL]
                               /\ UNCHANGED <<now, registryVars, returned, gone>>
<1>1. ASSUME UNCHANGED ledger PROVE ledger'[c] = ledger[c]
  BY <1>1
<1>2. ASSUME NEW p \in Procs,
             PageServed(p) \/ WalkFails(p) \/ Deleted(p) \/ Invalidate(p)
      PROVE  ledger'[c] = ledger[c]
  BY <1>2 DEF PageServed, WalkFails, Deleted, Invalidate, cacheVars
<1>3. ASSUME NEW p \in Procs, NEW v \in Pages, Absorbs(p, v)
      PROVE  \/ ledger'[c] = ledger[c]
             \/ /\ pc[p] = "reply" /\ page[p] # None /\ cursor[p] = c
                /\ ledger'[c] = [value |-> page[p], expires |-> now + CacheTTL]
                /\ UNCHANGED <<now, registryVars, returned, gone>>
  BY <1>3 DEF Absorbs, TypeOK
<1>4. ASSUME NEW p \in Procs, ClientInvalidates(p) PROVE FALSE
  BY <1>4 DEF ClientInvalidates, Cache!Invalidate, Cache!Nothing
<1>7. ASSUME NEW p \in Procs, ClientKeepsPages(p) PROVE SameEntry(ledger'[c], ledger[c])
  <2>1. ledger'[c] = [ledger[c] EXCEPT !.value = Outlived(ledger[c].value)]
    BY <1>7 DEF ClientKeepsPages
  <2>2. ledger[c] \in [value : Pages \cup {None}, expires : Nat]
    BY DEF TypeOK
  <2>3. /\ ledger'[c].value = Outlived(ledger[c].value)
        /\ ledger'[c].expires = ledger[c].expires
    BY <2>1, <2>2
  <2> QED
    BY <2>2, <2>3, OutlivedFacts DEF SameEntry
<1>8. ledger'[c] = ledger[c] => SameEntry(ledger'[c], ledger[c])
  BY DEF SameEntry, SameAnswer
<1>5. ASSUME NEW r \in Names, OthersChange(r) PROVE ledger'[c] = ledger[c]
  BY <1>5 DEF OthersChange, cacheVars
<1>6. ASSUME TimePasses PROVE ledger'[c] = ledger[c]
  BY <1>6 DEF TimePasses, Cache!Forget, Cache!Nothing
<1> QED
  BY <1>1, <1>2, <1>3, <1>4, <1>5, <1>6, <1>7, <1>8, StepCases DEF Quiet

\* An answer on its way stays as it is, or has just been given.
LEMMA PageStep ==
    ASSUME TypeOK, [Next]_vars, NEW p \in Procs, page'[p] # None
    PROVE  /\ cursor'[p] = cursor[p]
           /\ \/ page[p] # None /\ SameAnswer(page'[p], page[p])
              \/ page'[p] = Page(cursor[p]) /\ UNCHANGED <<now, registryVars, returned, gone>>
<1>1. ASSUME UNCHANGED <<page, cursor>>
      PROVE  cursor'[p] = cursor[p] /\ page[p] # None /\ SameAnswer(page'[p], page[p])
  BY <1>1 DEF SameAnswer
<1>2. ASSUME NEW q \in Procs, PageServed(q)
      PROVE  /\ cursor'[p] = cursor[p]
             /\ \/ page[p] # None /\ SameAnswer(page'[p], page[p])
                \/ page'[p] = Page(cursor[p]) /\ UNCHANGED <<now, registryVars, returned, gone>>
  BY <1>2 DEF PageServed, TypeOK, SameAnswer, cacheVars
<1>4. ASSUME NEW q \in Procs, Leave(q)
      PROVE  cursor'[p] = cursor[p] /\ page[p] # None /\ SameAnswer(page'[p], page[p])
  BY <1>4 DEF Leave, TypeOK, SameAnswer
<1>5. ASSUME NEW q \in Procs, NEW v \in Pages, Absorbs(q, v)
      PROVE  cursor'[p] = cursor[p] /\ page[p] # None /\ SameAnswer(page'[p], page[p])
  <2>1. CASE Finishes(q, v)
    BY <1>4, <2>1 DEF Finishes
  <2>2. CASE Continues(q, v)
    BY <2>2 DEF Continues, TypeOK, SameAnswer
  <2> QED
    BY <1>5, <2>1, <2>2 DEF Absorbs
<1>6. ASSUME NEW q \in Procs, ClientInvalidates(q) \/ ClientKeepsPages(q)
      PROVE  cursor'[p] = cursor[p] /\ page[p] # None /\ SameAnswer(page'[p], page[p])
  <2>1. cursor' = cursor /\ page'[p] = Outlived(page[p])
    BY <1>6 DEF ClientInvalidates, ClientKeepsPages
  <2> QED
    BY <2>1, OutlivedFacts DEF TypeOK
<1>7. ASSUME NEW q \in Procs, WalkFails(q)
      PROVE  cursor'[p] = cursor[p] /\ page[p] # None /\ SameAnswer(page'[p], page[p])
  BY <1>4, <1>7 DEF WalkFails
<1>8. ASSUME \/ \E q \in Procs : Deleted(q) \/ Invalidate(q)
             \/ \E r \in Names : OthersChange(r)
             \/ TimePasses
      PROVE  cursor'[p] = cursor[p] /\ page[p] # None /\ SameAnswer(page'[p], page[p])
  BY <1>1, <1>8 DEF Deleted, Invalidate, OthersChange, TimePasses
<1> QED
  BY <1>1, <1>2, <1>5, <1>6, <1>7, <1>8, StepCases DEF Quiet

\* A walk stays where it is, ends, or goes on by a page.
LEMMA WalkStep ==
    ASSUME TypeOK, [Next]_vars, NEW p \in Procs
    PROVE  \/ cursor'[p] = cursor[p] /\ walk'[p] = walk[p]
           \/ cursor'[p] = 0 /\ walk'[p] = NoWalk
           \/ \E v \in Pages : /\ Absorbs(p, v) /\ ~LastPage(walk[p], cursor[p], v)
                               /\ cursor'[p] = v.next
                               /\ walk'[p] = Extended(walk[p], cursor[p], v)
<1>1. ASSUME NEW q \in Procs, Leave(q)
      PROVE  \/ cursor'[p] = cursor[p] /\ walk'[p] = walk[p]
             \/ cursor'[p] = 0 /\ walk'[p] = NoWalk
  BY <1>1 DEF Leave, TypeOK
<1>2. ASSUME NEW q \in Procs, NEW v \in Pages, Absorbs(q, v), Continues(q, v)
      PROVE  \/ cursor'[p] = cursor[p] /\ walk'[p] = walk[p]
             \/ /\ q = p
                /\ ~LastPage(walk[p], cursor[p], v)
                /\ cursor'[p] = v.next
                /\ walk'[p] = Extended(walk[p], cursor[p], v)
  BY <1>2 DEF Continues, TypeOK
<1>3. ASSUME \/ \E q \in Procs : \/ PageServed(q) \/ Deleted(q)
                                 \/ ClientInvalidates(q) \/ ClientKeepsPages(q) \/ Invalidate(q)
             \/ \E r \in Names : OthersChange(r)
             \/ TimePasses
      PROVE  cursor'[p] = cursor[p] /\ walk'[p] = walk[p]
  BY <1>3 DEF PageServed, Deleted, ClientInvalidates, ClientKeepsPages, Invalidate, OthersChange,
         TimePasses
<1> QED
  <2>1. ASSUME NEW q \in Procs, NEW v \in Pages, Absorbs(q, v)
        PROVE  \/ cursor'[p] = cursor[p] /\ walk'[p] = walk[p]
               \/ cursor'[p] = 0 /\ walk'[p] = NoWalk
               \/ /\ Absorbs(p, v) /\ ~LastPage(walk[p], cursor[p], v)
                  /\ cursor'[p] = v.next
                  /\ walk'[p] = Extended(walk[p], cursor[p], v)
    <3>1. CASE Finishes(q, v)
      BY <1>1, <3>1 DEF Finishes
    <3>2. CASE Continues(q, v)
      BY <1>2, <2>1, <3>2
    <3> QED
      BY <2>1, <3>1, <3>2 DEF Absorbs
  <2>2. ASSUME NEW q \in Procs, WalkFails(q)
        PROVE  \/ cursor'[p] = cursor[p] /\ walk'[p] = walk[p]
               \/ cursor'[p] = 0 /\ walk'[p] = NoWalk
    BY <1>1, <2>2 DEF WalkFails
  <2> QED
    BY <1>3, <2>1, <2>2, StepCases DEF Quiet

\* The list stays, or a walk has ended.
LEMMA IndexStep ==
    ASSUME TypeOK, [Next]_vars
    PROVE  \/ index'.repos = index.repos /\ index'.from = index.from
           \/ \E p \in Procs, v \in Pages : Absorbs(p, v) /\ Finishes(p, v)
<1>1. ASSUME NEW p \in Procs, WalkFails(p) \/ Invalidate(p)
      PROVE  index'.repos = index.repos /\ index'.from = index.from
  <2>1. index' = AfterFailure(index) \/ index' = Invalidated(index)
    BY <1>1 DEF WalkFails, Invalidate
  <2>2. /\ AfterFailure(index).repos = index.repos /\ AfterFailure(index).from = index.from
        /\ Invalidated(index).repos = index.repos /\ Invalidated(index).from = index.from
    BY DEF AfterFailure, Invalidated, TypeOK
  <2> QED
    BY <2>1, <2>2
<1>2. ASSUME \/ \E q \in Procs : \/ PageServed(q) \/ Deleted(q)
                                 \/ ClientInvalidates(q) \/ ClientKeepsPages(q)
             \/ \E r \in Names : OthersChange(r)
             \/ TimePasses
      PROVE  index' = index
  BY <1>2 DEF PageServed, Deleted, ClientInvalidates, ClientKeepsPages, OthersChange, TimePasses
<1> QED
  BY <1>1, <1>2, StepCases DEF Quiet, Absorbs, Continues

\* Repositories go, or one appears, later than all that went before.
LEMMA RegistryStep ==
    ASSUME TypeOK, [Next]_vars
    PROVE  /\ version <= version'
           /\ \/ exists' \subseteq exists /\ born' = born
              \/ \E r \in Names : /\ exists' = exists \cup {r}
                                  /\ born' = [born EXCEPT ![r] = version + 1]
<1>1. ASSUME UNCHANGED registryVars
      PROVE  version <= version' /\ exists' \subseteq exists /\ born' = born
  BY <1>1 DEF registryVars, TypeOK
<1>2. ASSUME NEW r, Disappears(r)
      PROVE  version <= version' /\ exists' \subseteq exists /\ born' = born
  BY <1>2 DEF Disappears, TypeOK
<1>3. ASSUME NEW r \in Names, Appears(r)
      PROVE  /\ version <= version'
             /\ exists' = exists \cup {r} /\ born' = [born EXCEPT ![r] = version + 1]
  BY <1>3 DEF Appears, TypeOK
<1>4. ASSUME \/ \E q \in Procs : \/ PageServed(q) \/ WalkFails(q)
                                 \/ \E v \in Pages : Absorbs(q, v)
                                 \/ ClientInvalidates(q) \/ ClientKeepsPages(q) \/ Invalidate(q)
             \/ TimePasses
      PROVE  UNCHANGED registryVars
  BY <1>4 DEF PageServed, WalkFails, Absorbs, ClientInvalidates, ClientKeepsPages, Invalidate,
         TimePasses
<1> QED
  BY <1>1, <1>2, <1>3, <1>4, StepCases DEF Deleted, OthersChange

-----------------------------------------------------------------------------
(* Walks and answers lead forward.                                         *)

\* Every step keeps walks and stored pages tidy.
LEMMA TidyStep == TypeOK /\ WalksTidy /\ [Next]_vars => WalksTidy'
<1> SUFFICES ASSUME TypeOK, WalksTidy, [Next]_vars PROVE WalksTidy'
  OBVIOUS
<1>1. ASSUME NEW p \in Procs, cursor'[p] = 0 PROVE walk'[p] = NoWalk
  <2>1. ASSUME NEW v \in Pages, ~LastPage(walk[p], cursor[p], v) PROVE v.next # 0
    BY <2>1 DEF LastPage
  <2> QED
    BY <1>1, <2>1, WalkStep DEF WalksTidy
<1>2. ASSUME NEW p \in Procs, load' # p PROVE cursor'[p] = 0
  <2>1. CASE load # p
    <3>1. pc[p] \notin Walking /\ cursor[p] = 0
      BY <2>1 DEF TypeOK, WalksTidy
    <3>2. ~\E v \in Pages : Absorbs(p, v)
      BY <3>1 DEF Absorbs, Walking
    <3> QED
      BY <3>1, <3>2, WalkStep
  <2>2. CASE load = p
    <3>1. pc[p] \in Walking /\ pc'[p] \notin Walking
      BY <1>2, <2>2, StepTyped DEF TypeOK
    <3>2. ASSUME NEW q \in Procs, Walks(q) PROVE cursor'[p] = 0
      <4>1. CASE PageMissed(q) \/ PageServed(q)
        BY <3>1, <4>1 DEF PageMissed, PageServed, GoTo, TypeOK, Walking
      <4>2. ASSUME Leave(q) PROVE cursor'[p] = 0
        BY <3>1, <4>2 DEF Leave, GoTo, TypeOK
      <4>3. ASSUME NEW v \in Pages, Absorbs(q, v) PROVE cursor'[p] = 0
        <5>1. CASE Finishes(q, v)
          BY <4>2, <5>1 DEF Finishes
        <5>2. CASE Continues(q, v)
          BY <3>1, <5>2 DEF Continues, GoTo, TypeOK, Walking
        <5> QED
          BY <4>3, <5>1, <5>2 DEF Absorbs
      <4> QED
        BY <3>2, <4>1, <4>2, <4>3, WalkCases DEF WalkFails
    <3>3. ASSUME \/ \E q \in Procs : BeginList(q) \/ Lists(q) \/ Deletes(q)
                 \/ \E q \in Procs, r \in Names : BeginDelete(q, r)
                 \/ \E r \in Names : OthersChange(r)
                 \/ TimePasses
                 \/ UNCHANGED vars
          PROVE  FALSE
      BY <3>1, <3>3
         DEF BeginList, Lists, ListFresh, StartWalk, Deletes, Deleted,
             ClientInvalidates, ClientKeepsPages, Invalidate,
             DeleteFails, BeginDelete, OthersChange, TimePasses, vars, GoTo, TypeOK, Walking
    <3> QED
      BY <3>2, <3>3 DEF Next
  <2> QED
    BY <2>1, <2>2
<1> QED
  BY <1>1, <1>2 DEF WalksTidy

\* Walks and stored pages are tidy in every behaviour.
LEMMA CatalogTidy == Spec => []WalksTidy
<1>1. Init => WalksTidy
  BY DEF Init, WalksTidy
<1> QED
  BY <1>1, TidyStep, CatalogTyped, PTL DEF Spec

\* What a page of the registry says: the repositories there are after c, all of
\* them up to its cursor, and all of them if it has none.
LEMMA PageFacts ==
    ASSUME TypeOK, NEW c \in Cursors
    PROVE  /\ Page(c).from = [version |-> version, time |-> now, raced |-> FALSE]
           /\ \A r \in Page(c).names : r \in exists /\ c < r
           /\ GoesOn(c, Page(c))
           /\ PageComplete(c, Page(c))
<1> DEFINE S == {r \in exists : r > c}
           F == First(S, PageSize)
<1>0. /\ Page(c).from = [version |-> version, time |-> now, raced |-> FALSE]
      /\ Page(c).names = F /\ Page(c).next = NextCursor(F)
  BY DEF Page
<1>1. /\ S \in SUBSET Names /\ PageSize \in Nat \ {0}
      /\ Names \subseteq Nat /\ c \in Nat
  <2>1. S \in SUBSET Names
    BY DEF TypeOK
  <2>2. Names \subseteq Nat /\ c \in Nat
    BY SizesAssumption DEF Names, Cursors
  <2> QED
    BY <2>1, <2>2, SizesAssumption
<1> HIDE DEF S
<1>2. /\ F \in SUBSET S
      /\ Cardinality(F) \in Nat /\ Cardinality(F) <= PageSize
      /\ Cardinality(F) < PageSize => F = S
      /\ \A x \in F : \A y \in S : y <= x => y \in F
  BY <1>1, FirstFacts
<1> HIDE DEF F
<1>3. \A r \in F : r \in exists /\ c < r
  BY <1>1, <1>2 DEF S
<1>4. CASE Cardinality(F) = PageSize
  <2>1. F # {}
    BY <1>1, <1>4, FS_EmptySet
  <2>2. /\ NextCursor(F) = Greatest(F) /\ Greatest(F) \in F
    BY <1>1, <1>2, <1>4, <2>1, GreatestMember DEF NextCursor
  <2>3. c < NextCursor(F) /\ NextCursor(F) # 0
    <3>1. Greatest(F) \in Nat /\ c < Greatest(F)
      BY <1>1, <1>2, <1>3, <2>2
    <3> QED
      BY <1>1, <2>2, <3>1
  <2>4. \A r \in exists : c < r /\ r <= NextCursor(F) => r \in F
    <3> SUFFICES ASSUME NEW r \in exists, c < r, r <= NextCursor(F) PROVE r \in F
      OBVIOUS
    <3>1. r \in S
      BY <1>1 DEF S, TypeOK
    <3> QED
      BY <1>2, <2>2, <3>1
  <2> QED
    BY <1>0, <1>3, <2>3, <2>4 DEF GoesOn, PageComplete, Steady
<1>5. CASE Cardinality(F) # PageSize
  <2>1. F = S /\ NextCursor(F) = 0
    BY <1>1, <1>2, <1>5 DEF NextCursor
  <2>2. \A r \in exists : c < r => r \in F
    BY <1>1, <2>1 DEF S, TypeOK
  <2> QED
    BY <1>0, <1>3, <2>1, <2>2 DEF GoesOn, PageComplete, Steady
<1> QED
  BY <1>4, <1>5

\* What a walk takes leads it forward and is not from the future; and so is the
\* walk that has it.
LEMMA AbsorbedAhead ==
    ASSUME TypeOK, PagesAhead, NEW p \in Procs, NEW v \in Pages, Absorbs(p, v)
    PROVE  /\ GoesOn(cursor[p], v)
           /\ v.from.version <= version
           /\ Extended(walk[p], cursor[p], v).from.version <= version
<1>1. GoesOn(cursor[p], v) /\ v.from.version <= version
  <2>1. cursor[p] \in Cursors
    BY DEF TypeOK
  <2> QED
    BY <2>1 DEF Absorbs, PagesAhead
<1>2. Extended(walk[p], cursor[p], v).from.version <= version
  BY <1>1 DEF PagesAhead, Extended, Older, TypeOK
<1> QED
  BY <1>1, <1>2

\* Every step keeps the names of a page beyond its cursor.
LEMMA AheadStep == TypeOK /\ PagesAhead /\ [Next]_vars => PagesAhead'
<1> SUFFICES ASSUME TypeOK, PagesAhead, [Next]_vars PROVE PagesAhead'
  OBVIOUS
<1> USE DEF PagesAhead
<1>1. /\ version \in Nat /\ version' \in Nat /\ version <= version'
      /\ TypeOK'
  BY RegistryStep, StepTyped DEF TypeOK
<1>2. ASSUME NEW c \in Cursors, ledger'[c].value # None
      PROVE  GoesOn(c, ledger'[c].value) /\ ledger'[c].value.from.version <= version'
  <2>1. CASE SameEntry(ledger'[c], ledger[c])
    <3>1. ledger[c].value \in Pages /\ SameAnswer(ledger'[c].value, ledger[c].value)
      BY <2>1 DEF TypeOK, SameEntry
    <3>2. ledger[c].value.from.version \in Nat
      BY <3>1 DEF Pages, History
    <3>3. GoesOn(c, ledger[c].value) /\ ledger[c].value.from.version <= version
      BY <2>1 DEF SameEntry
    <3>4. ledger[c].value.from.version <= version'
      BY <1>1, <3>2, <3>3
    <3> HIDE DEF PagesAhead
    <3> QED
      BY <3>1, <3>3, <3>4 DEF SameAnswer, GoesOn
  <2>2. ASSUME NEW p \in Procs, page[p] # None, cursor[p] = c,
               ledger'[c] = [value |-> page[p], expires |-> now + CacheTTL]
        PROVE  GoesOn(c, ledger'[c].value) /\ ledger'[c].value.from.version <= version'
    <3>1. page[p] \in Pages
      BY <2>2 DEF TypeOK
    <3>2. page[p].from.version \in Nat
      BY <3>1 DEF Pages, History
    <3> QED
      BY <1>1, <2>2, <3>2
  <2> QED
    BY <1>2, <2>1, <2>2, LedgerStep, Zenon
<1>3. ASSUME NEW p \in Procs, page'[p] # None
      PROVE  GoesOn(cursor'[p], page'[p]) /\ page'[p].from.version <= version'
  <2>1. cursor'[p] = cursor[p] /\ cursor[p] \in Cursors
    BY <1>3, PageStep DEF TypeOK
  <2>2. CASE page[p] # None /\ SameAnswer(page'[p], page[p])
    <3>1. page[p] \in Pages
      BY <2>2 DEF TypeOK
    <3>2. page[p].from.version \in Nat
      BY <3>1 DEF Pages, History
    <3> QED
      BY <1>1, <2>1, <2>2, <3>2 DEF SameAnswer, GoesOn
  <2>3. CASE page'[p] = Page(cursor[p])
    BY <1>1, <2>1, <2>3, PageFacts
  <2> QED
    BY <1>3, <2>2, <2>3, PageStep
<1>4. ASSUME NEW p \in Procs PROVE walk'[p].from.version <= version'
  <2>1. walk[p].from.version \in Nat
    BY DEF TypeOK, History
  <2>2. CASE walk'[p] = walk[p]
    BY <1>1, <2>1, <2>2
  <2>3. CASE walk'[p] = NoWalk
    BY <1>1, <2>3 DEF NoWalk, Fresh0
  <2>4. ASSUME NEW v \in Pages, Absorbs(p, v), walk'[p] = Extended(walk[p], cursor[p], v)
        PROVE  walk'[p].from.version <= version'
    BY <1>1, <2>4, AbsorbedAhead DEF Absorbs, registryVars
  <2> QED
    BY <2>2, <2>3, <2>4, WalkStep
<1>5. index'.from.version <= version'
  <2>1. index.from.version \in Nat
    BY DEF TypeOK, History
  <2>2. CASE index'.from = index.from
    BY <1>1, <2>1, <2>2
  <2>3. ASSUME NEW p \in Procs, NEW v \in Pages, Absorbs(p, v), Finishes(p, v)
        PROVE  index'.from.version <= version'
    BY <1>1, <2>3, AbsorbedAhead DEF Absorbs, registryVars, Finishes
  <2> QED
    BY <2>2, <2>3, IndexStep
<1> QED
  BY <1>2, <1>3, <1>4, <1>5

\* The names of a page are beyond its cursor in every behaviour.
LEMMA CatalogAhead == Spec => []PagesAhead
<1>1. Init => PagesAhead
  BY DEF Init, Cache!Init, Cache!Nothing, PagesAhead, NoWalk, Fresh0
<1> QED
  BY <1>1, AheadStep, CatalogTyped, PTL DEF Spec

-----------------------------------------------------------------------------
(* The list misses nothing.                                                *)

\* What has been there since a version that is past, has been there before.
LEMMA SteadyStep ==
    ASSUME TypeOK, [Next]_vars, NEW n \in Nat, n <= version
    PROVE  Steady(n)' \subseteq Steady(n)
<1>1. CASE exists' \subseteq exists /\ born' = born
  BY <1>1 DEF Steady
<1>2. ASSUME NEW r \in Names, exists' = exists \cup {r},
             born' = [born EXCEPT ![r] = version + 1]
      PROVE  Steady(n)' \subseteq Steady(n)
  BY <1>2 DEF Steady, TypeOK
<1> QED
  BY <1>1, <1>2, RegistryStep

\* A walk with one page more, before it is cut, misses nothing up to the page's
\* cursor.
LEMMA ExtendedComplete ==
    ASSUME TypeOK, PagesAhead, AllComplete, NEW p \in Procs, NEW v \in Pages, Absorbs(p, v),
           NEW r \in Steady(Extended(walk[p], cursor[p], v).from.version),
           v.next = 0 \/ r <= v.next
    PROVE  r \in walk[p].all \cup v.names
<1>1. /\ cursor[p] \in Cursors /\ cursor[p] \in Nat /\ r \in Nat \ {0}
      /\ v.from.version \in Nat /\ walk[p].from.version \in Nat /\ born[r] \in Nat
  <2>1. cursor[p] \in Cursors /\ cursor[p] \in Nat
    BY SizesAssumption DEF TypeOK, Cursors
  <2>2. r \in Names /\ r \in Nat \ {0}
    BY SizesAssumption DEF TypeOK, Steady, Names
  <2>3. v.from.version \in Nat
    BY DEF Pages, History
  <2>4. walk[p].from.version \in Nat
    BY DEF TypeOK, History
  <2>5. born[r] \in Nat
    BY <2>2 DEF TypeOK
  <2> QED
    BY <2>1, <2>2, <2>3, <2>4, <2>5
<1>2. PageComplete(cursor[p], v)
  BY <1>1 DEF Absorbs, AllComplete
<1>3. CASE cursor[p] < r
  <2>1. r \in Steady(v.from.version)
    BY <1>1 DEF Extended, Older, Steady
  <2> QED
    BY <1>2, <1>3, <2>1 DEF PageComplete
<1>4. CASE r <= cursor[p]
  <2>1. r \in Steady(walk[p].from.version)
    BY <1>1, <1>4 DEF Extended, Older, Steady
  <2> QED
    BY <1>4, <2>1 DEF AllComplete, WalkComplete
<1> QED
  BY <1>1, <1>3, <1>4

\* Every step keeps pages, walks and lists complete.
LEMMA CompleteStep == TypeOK /\ PagesAhead /\ AllComplete /\ [Next]_vars => AllComplete'
<1> SUFFICES ASSUME TypeOK, PagesAhead, AllComplete, [Next]_vars PROVE AllComplete'
  OBVIOUS
<1>1. \A n \in Nat : n <= version => Steady(n)' \subseteq Steady(n)
  BY SteadyStep
<1>0. ASSUME NEW c \in Cursors, NEW v \in Pages, v.from.version <= version,
             PageComplete(c, v), NEW r \in exists', born'[r] <= v.from.version,
             c < r, v.next = 0 \/ r <= v.next
      PROVE  r \in v.names
  <2>1. v.from.version \in Nat
    BY DEF Pages, History
  <2>2. r \in Steady(v.from.version)
    BY <1>0, <1>1, <2>1 DEF Steady
  <2> QED
    BY <1>0, <2>2 DEF PageComplete
<1>2. ASSUME NEW c \in Cursors, ledger'[c].value # None
      PROVE  PageComplete(c, ledger[c].value)'
  <2>1. CASE SameEntry(ledger'[c], ledger[c])
    <3>1. ledger[c].value \in Pages /\ SameAnswer(ledger'[c].value, ledger[c].value)
      BY <2>1 DEF TypeOK, SameEntry
    <3>2. ledger[c].value.from.version \in Nat /\ ledger[c].value.from.version <= version
      BY <2>1, <3>1 DEF PagesAhead, Pages, History, SameEntry
    <3>3. PageComplete(c, ledger[c].value)
      BY <2>1 DEF AllComplete, SameEntry
    <3> QED
      BY <1>0, <3>1, <3>2, <3>3 DEF PageComplete, Steady, SameAnswer
  <2>2. ASSUME NEW p \in Procs, page[p] # None, cursor[p] = c,
               ledger'[c] = [value |-> page[p], expires |-> now + CacheTTL]
        PROVE  PageComplete(c, ledger[c].value)'
    <3>1. page[p] \in Pages
      BY <2>2 DEF TypeOK
    <3>2. page[p].from.version \in Nat /\ page[p].from.version <= version
      BY <2>2, <3>1 DEF PagesAhead, Pages, History
    <3>3. PageComplete(c, page[p])
      BY <2>2 DEF AllComplete
    <3> QED
      BY <1>0, <2>2, <3>1, <3>2, <3>3 DEF PageComplete, Steady
  <2> QED
    BY <1>2, <2>1, <2>2, LedgerStep, Zenon
<1>3. ASSUME NEW p \in Procs, page'[p] # None
      PROVE  PageComplete(cursor[p], page[p])'
  <2>1. cursor'[p] = cursor[p] /\ cursor[p] \in Cursors
    BY <1>3, PageStep DEF TypeOK
  <2>2. CASE page[p] # None /\ SameAnswer(page'[p], page[p])
    <3>1. page[p] \in Pages
      BY <2>2 DEF TypeOK
    <3>2. page[p].from.version \in Nat /\ page[p].from.version <= version
      BY <2>2, <3>1 DEF PagesAhead, Pages, History
    <3>3. PageComplete(cursor[p], page[p])
      BY <2>2 DEF AllComplete
    <3> QED
      BY <1>1, <2>1, <2>2, <3>2, <3>3 DEF PageComplete, SameAnswer
  <2>3. CASE page'[p] = Page(cursor[p]) /\ UNCHANGED registryVars
    BY <2>1, <2>3, PageFacts DEF PageComplete, Steady, registryVars
  <2> QED
    BY <1>3, <2>2, <2>3, PageStep
<1>4. ASSUME NEW p \in Procs PROVE WalkComplete(p)'
  <2>1. CASE cursor'[p] = cursor[p] /\ walk'[p] = walk[p]
    <3>1. walk[p].from.version \in Nat /\ walk[p].from.version <= version
      BY DEF TypeOK, History, PagesAhead
    <3> QED
      BY <1>1, <2>1, <3>1 DEF WalkComplete, AllComplete
  <2>2. CASE cursor'[p] = 0 /\ walk'[p] = NoWalk
    <3>1. \A r \in exists' : ~(r <= 0)
      BY StepTyped DEF TypeOK, Names
    <3> QED
      BY <2>2, <3>1 DEF WalkComplete, Steady
  <2>3. ASSUME NEW v \in Pages, Absorbs(p, v), ~LastPage(walk[p], cursor[p], v),
               cursor'[p] = v.next, walk'[p] = Extended(walk[p], cursor[p], v)
        PROVE  WalkComplete(p)'
    <3>1. /\ Cardinality(walk[p].all \cup v.names) < MaxCatalogEntries
          /\ walk[p].all \cup v.names \in SUBSET Names
      <4>1. walk[p].all \cup v.names \in SUBSET Names
        BY DEF TypeOK, Pages
      <4>2. Cardinality(walk[p].all \cup v.names) \in Nat
        BY <4>1, FirstFacts, SizesAssumption
      <4> QED
        BY <2>3, <4>1, <4>2, SizesAssumption DEF LastPage
    <3>2. walk'[p].all = walk[p].all \cup v.names
      <4>1. First(walk[p].all \cup v.names, MaxCatalogEntries) = walk[p].all \cup v.names
        BY <3>1, FirstFacts, SizesAssumption
      <4> QED
        BY <2>3, <4>1 DEF Extended
    <3>3. exists' = exists /\ born' = born
      BY <2>3 DEF Absorbs, registryVars
    <3> QED
      BY <2>3, <3>2, <3>3, ExtendedComplete DEF WalkComplete, Steady
  <2> QED
    BY <2>1, <2>2, <2>3, WalkStep
<1>5. ListComplete'
  <2>1. CASE index'.repos = index.repos /\ index'.from = index.from
    <3>1. index.from.version \in Nat /\ index.from.version <= version
      BY DEF TypeOK, History, PagesAhead
    <3> QED
      BY <1>1, <2>1, <3>1 DEF ListComplete, AllComplete, Steady
  <2>2. ASSUME NEW p \in Procs, NEW v \in Pages, Absorbs(p, v), Finishes(p, v)
        PROVE  ListComplete'
    <3> DEFINE w == Extended(walk[p], cursor[p], v)
               found == walk[p].all \cup v.names
    <3>1. SUFFICES ASSUME index'.repos # None, Cardinality(index'.repos) < MaxCatalogEntries
                   PROVE  \A r \in exists' : born'[r] <= index'.from.version => r \in index'.repos
      BY DEF ListComplete
    <3>2. index'.repos = w.all /\ index'.from = w.from
      BY <2>2, <3>1 DEF Finishes
    <3>3. found \in SUBSET Names
      BY DEF TypeOK, Pages
    <3>4. w.all = First(found, MaxCatalogEntries)
      BY DEF Extended
    <3>5. w.all = found /\ Cardinality(found) \in Nat
      <4> HIDE DEF found, w
      <4> QED
        BY <3>1, <3>2, <3>3, <3>4, FirstFacts, SizesAssumption
    <3>6. v.next = 0 \/ v.next = cursor[p]
      <4>1. ~(Cardinality(found) >= MaxCatalogEntries)
        BY <3>1, <3>2, <3>5, SizesAssumption
      <4> QED
        BY <2>2, <4>1 DEF Finishes, LastPage
    <3>7. v.next = 0
      <4>1. GoesOn(cursor[p], v)
        BY <2>2, AbsorbedAhead
      <4>2. cursor[p] \in Nat
        BY SizesAssumption DEF TypeOK, Cursors
      <4> QED
        BY <3>6, <4>1, <4>2 DEF GoesOn
    <3>8. exists' = exists /\ born' = born
      BY <2>2 DEF Absorbs, registryVars
    <3>9. \A r \in Steady(w.from.version) : r \in found
      BY <2>2, <3>7, ExtendedComplete
    <3> QED
      BY <3>2, <3>5, <3>8, <3>9 DEF Steady
  <2> QED
    BY <2>1, <2>2, IndexStep
<1> QED
  BY <1>2, <1>3, <1>4, <1>5 DEF AllComplete

\* The list misses no repository that was there all the time since its oldest
\* page was served, although its pages are from different moments and the
\* registry changed in between (catalog.go:86-109, client.go:437-483, 965-973).
THEOREM CatalogListComplete == Spec => []ListComplete
<1>1. Init => AllComplete
  <2> SUFFICES ASSUME Init PROVE AllComplete
    OBVIOUS
  <2>1. \A r \in exists : ~(r <= 0)
    BY DEF Init, Names
  <2> QED
    BY <2>1 DEF Init, Cache!Init, Cache!Nothing, AllComplete, WalkComplete, Steady, ListComplete
<1>2. AllComplete => ListComplete
  BY DEF AllComplete
<1> QED
  BY <1>1, <1>2, CompleteStep, CatalogAhead, CatalogTyped, PTL DEF Spec

-----------------------------------------------------------------------------
(* What was deleted stays away.                                            *)

\* A deletion whose repository has not come back is where it was, or has just
\* deleted it, or has just invalidated the client's cache.
LEMMA DeletionStep ==
    ASSUME TypeOK, [Next]_vars, NEW p \in Procs, p \notin returned',
           pc'[p] \in {"deleted", "invalidate"}
    PROVE  /\ p \notin returned
           /\ victim'[p] = victim[p] /\ victim[p] \in Names
           /\ \/ pc[p] = pc'[p]
              \/ pc[p] = "delete" /\ Deleted(p)
              \/ pc[p] = "deleted" /\ (ClientInvalidates(p) \/ ClientKeepsPages(p))
<1> DEFINE Goal == /\ p \notin returned
                   /\ victim'[p] = victim[p]
                   /\ \/ pc[p] = pc'[p]
                      \/ pc[p] = "delete" /\ Deleted(p)
                      \/ pc[p] = "deleted" /\ (ClientInvalidates(p) \/ ClientKeepsPages(p))
<1>1. ASSUME NEW q \in Procs, BeginList(q) \/ Lists(q) PROVE Goal
  BY <1>1 DEF BeginList, Lists, ListFresh, StartWalk, GoTo, TypeOK
<1>2. ASSUME NEW q \in Procs, WalkFails(q) \/ PageServed(q) PROVE Goal
  BY <1>2 DEF WalkFails, PageServed, Leave, GoTo, TypeOK
<1>3. ASSUME NEW q \in Procs, NEW v \in Pages, Absorbs(q, v) PROVE Goal
  BY <1>3 DEF Absorbs, Finishes, Continues, Leave, GoTo, TypeOK
<1>4. ASSUME NEW q \in Procs, PageMissed(q) PROVE Goal
  BY <1>4 DEF PageMissed, GoTo, TypeOK
<1>5. ASSUME NEW q \in Procs, Deletes(q) PROVE Goal
  BY <1>5 DEF Deletes, Deleted,
              ClientInvalidates, ClientKeepsPages, Invalidate, DeleteFails, GoTo, TypeOK
<1>6. ASSUME NEW q \in Procs, NEW r \in Names, BeginDelete(q, r) PROVE Goal
  BY <1>6 DEF BeginDelete, GoTo, TypeOK
<1>7. ASSUME NEW r \in Names, OthersChange(r) PROVE Goal
  BY <1>7 DEF OthersChange, Appears
<1>8. ASSUME TimePasses \/ UNCHANGED vars PROVE Goal
  BY <1>8 DEF TimePasses, vars
<1>9. Goal
  BY <1>1, <1>2, <1>3, <1>4, <1>5, <1>6, <1>7, <1>8, WalkCases DEF Next
<1> QED
  BY <1>9 DEF TypeOK, Deleted, ClientInvalidates, ClientKeepsPages

\* Its repository stays away until it is known to have come back.
LEMMA AwayStep ==
    ASSUME TypeOK, [Next]_vars, NEW p \in Procs, p \notin returned',
           pc[p] \in {"deleted", "invalidate"}, victim[p] \in Names \ exists
    PROVE  victim[p] \notin exists'
<1>1. ASSUME NEW q \in Procs, Deleted(q) PROVE exists' \subseteq exists
  BY <1>1 DEF Deleted, Disappears
<1>2. ASSUME NEW r \in Names, OthersChange(r) PROVE victim[p] \notin exists'
  BY <1>2 DEF OthersChange, Appears, Disappears
<1>3. ASSUME \/ \E q \in Procs : \/ PageServed(q) \/ WalkFails(q)
                                 \/ \E v \in Pages : Absorbs(q, v)
                                 \/ ClientInvalidates(q) \/ ClientKeepsPages(q) \/ Invalidate(q)
             \/ TimePasses
      PROVE  exists' = exists
  BY <1>3 DEF PageServed, WalkFails, Absorbs, ClientInvalidates, ClientKeepsPages, Invalidate,
         TimePasses, registryVars
<1> QED
  BY <1>1, <1>2, <1>3, StepCases DEF registryVars

\* What is gone stays away, or has just been deleted for good.
LEMMA GoneStep ==
    ASSUME TypeOK, [Next]_vars, NEW r \in gone'
    PROVE  \/ r \in gone /\ (r \notin exists => r \notin exists')
           \/ \E p \in Procs : Invalidate(p) /\ p \notin returned /\ r = victim[p]
<1>1. ASSUME NEW q \in Procs, BeginList(q) \/ Lists(q) \/ PageMissed(q)
      PROVE  r \in gone /\ (r \notin exists => r \notin exists')
  BY <1>1 DEF BeginList, Lists, ListFresh, StartWalk, PageMissed, registryVars
<1>2. ASSUME NEW q \in Procs, WalkFails(q) \/ PageServed(q)
      PROVE  r \in gone /\ (r \notin exists => r \notin exists')
  BY <1>2 DEF WalkFails, PageServed, registryVars
<1>3. ASSUME NEW q \in Procs, NEW v \in Pages, Absorbs(q, v)
      PROVE  r \in gone /\ (r \notin exists => r \notin exists')
  BY <1>3 DEF Absorbs, registryVars
<1>4. ASSUME NEW q \in Procs, \/ Deleted(q) \/ ClientInvalidates(q) \/ ClientKeepsPages(q)
                              \/ DeleteFails(q)
      PROVE  r \in gone /\ (r \notin exists => r \notin exists')
  BY <1>4 DEF Deleted, ClientInvalidates, ClientKeepsPages, DeleteFails, Disappears, registryVars
<1>5. ASSUME NEW q \in Procs, Invalidate(q)
      PROVE  \/ r \in gone /\ (r \notin exists => r \notin exists')
             \/ q \notin returned /\ r = victim[q]
  BY <1>5 DEF Invalidate, registryVars
<1>6. ASSUME NEW q \in Procs, NEW x \in Names, BeginDelete(q, x)
      PROVE  r \in gone /\ (r \notin exists => r \notin exists')
  BY <1>6 DEF BeginDelete, registryVars
<1>7. ASSUME NEW x \in Names, OthersChange(x)
      PROVE  r \in gone /\ (r \notin exists => r \notin exists')
  BY <1>7 DEF OthersChange, Appears, Disappears
<1>8. ASSUME TimePasses \/ UNCHANGED vars
      PROVE  r \in gone /\ (r \notin exists => r \notin exists')
  BY <1>8 DEF TimePasses, registryVars, vars
<1> QED
  BY <1>1, <1>2, <1>3, <1>4, <1>5, <1>6, <1>7, <1>8, WalkCases DEF Next, Deletes

\* No new answer shows a repository that is away.
LEMMA ShunStep ==
    ASSUME TypeOK, [Next]_vars, NEW r \in Names, r \notin exists, Shunned(r)
    PROVE  Shunned(r)'
<1>1. ASSUME NEW c \in Cursors, ledger'[c].value # None, r \in ledger'[c].value.names
      PROVE  ledger'[c].value.from.raced
  <2>1. CASE SameEntry(ledger'[c], ledger[c])
    BY <1>1, <2>1 DEF Shunned, SameEntry, SameAnswer
  <2>2. ASSUME NEW p \in Procs, page[p] # None, cursor[p] = c,
               ledger'[c] = [value |-> page[p], expires |-> now + CacheTTL]
        PROVE  ledger'[c].value.from.raced
    <3>1. ledger'[c].value = page[p]
      BY <2>2
    <3> QED
      BY <1>1, <2>2, <3>1 DEF Shunned
  <2> QED
    BY <1>1, <2>1, <2>2, LedgerStep, Zenon
<1>2. ASSUME NEW p \in Procs, page'[p] # None, r \in page'[p].names
      PROVE  page'[p].from.raced
  <2>1. CASE page[p] # None /\ SameAnswer(page'[p], page[p])
    BY <1>2, <2>1 DEF SameAnswer, Shunned
  <2>2. CASE page'[p] = Page(cursor[p])
    <3>1. cursor[p] \in Cursors
      BY DEF TypeOK
    <3> QED
      BY <1>2, <2>2, <3>1, PageFacts
  <2> QED
    BY <1>2, <2>1, <2>2, PageStep
<1> QED
  BY <1>1, <1>2 DEF Shunned

\* Nor does a walk over answers that do not.
LEMMA ExtendedShuns ==
    ASSUME TypeOK, WalksTidy, NEW p \in Procs, NEW v \in Pages, Absorbs(p, v),
           NEW r \in Names, Shunned(r), r \in walk[p].all => walk[p].from.raced,
           r \in Extended(walk[p], cursor[p], v).all
    PROVE  Extended(walk[p], cursor[p], v).from.raced
<1>1. r \in v.names => v.from.raced
  <2>1. cursor[p] \in Cursors
    BY DEF TypeOK
  <2> QED
    BY <2>1 DEF Absorbs, Shunned
<1>2. r \in walk[p].all \cup v.names
  <2>1. walk[p].all \cup v.names \in SUBSET Names
    BY DEF TypeOK, Pages
  <2> QED
    BY <2>1, FirstFacts, SizesAssumption DEF Extended
<1>3. cursor[p] = 0 => walk[p].all = {}
  BY DEF WalksTidy, NoWalk
<1> QED
  BY <1>1, <1>2, <1>3 DEF Extended, Older

\* Only the clock moves the clock.
LEMMA ClockStep ==
    ASSUME TypeOK, [Next]_vars
    PROVE  now' = now \/ (TimePasses /\ now' = now + 1)
<1>1. ASSUME NEW p \in Procs, BeginList(p) \/ Lists(p) \/ Deletes(p) PROVE now' = now
  BY <1>1 DEF BeginList, Lists, ListFresh, StartWalk, Deletes, Deleted,
              ClientInvalidates, ClientKeepsPages,
              Cache!Invalidate, Invalidate, DeleteFails, cacheVars
<1>2. ASSUME NEW p \in Procs, Walks(p) PROVE now' = now
  BY <1>2, WalkCases DEF PageMissed, PageServed, WalkFails, Absorbs, cacheVars
<1>3. ASSUME NEW p \in Procs, NEW r \in Names, BeginDelete(p, r) PROVE now' = now
  BY <1>3 DEF BeginDelete, cacheVars
<1>4. ASSUME NEW r \in Names, OthersChange(r) PROVE now' = now
  BY <1>4 DEF OthersChange, cacheVars
<1>5. TimePasses => now' = now + 1
  BY DEF TimePasses
<1>6. UNCHANGED vars => now' = now
  BY DEF vars, cacheVars
<1> QED
  BY <1>1, <1>2, <1>3, <1>4, <1>5, <1>6 DEF Next

\* A list that is fresh was fresh before, or a walk has ended.
LEMMA FreshStep ==
    ASSUME TypeOK, [Next]_vars, Fresh', index'.repos # None
    PROVE  \/ Fresh /\ index'.repos = index.repos /\ index'.from = index.from
           \/ \E p \in Procs, v \in Pages : Absorbs(p, v) /\ Finishes(p, v)
<1> DEFINE Stays == Fresh /\ index'.repos = index.repos /\ index'.from = index.from
<1>0. /\ now \in Nat /\ now' \in Nat /\ now <= now'
      /\ index.at = Zero \/ index.at \in Nat
  <2>1. now \in Nat /\ (index.at = Zero \/ index.at \in Nat) /\ now' \in Nat
    BY StepTyped DEF TypeOK
  <2> QED
    BY <2>1, ClockStep
<1>1. index' = index => Stays
  BY <1>0, SizesAssumption DEF Fresh, Zero
<1>2. ASSUME NEW p \in Procs, WalkFails(p) PROVE Stays
  BY <1>1, <1>2 DEF WalkFails, AfterFailure, TypeOK
<1>3. ASSUME NEW p \in Procs, Invalidate(p) PROVE FALSE
  BY <1>3 DEF Invalidate, Invalidated, TypeOK, Fresh
<1>4. ASSUME \/ \E q \in Procs : \/ PageServed(q) \/ Deleted(q)
                                 \/ ClientInvalidates(q) \/ ClientKeepsPages(q)
             \/ \E r \in Names : OthersChange(r)
             \/ TimePasses
      PROVE  index' = index
  BY <1>4 DEF PageServed, Deleted, ClientInvalidates, ClientKeepsPages, OthersChange, TimePasses
<1> QED
  BY <1>1, <1>2, <1>3, <1>4, StepCases DEF Quiet, Absorbs, Continues

\* Every step keeps deleted names out of what has not been raced.
LEMMA GhostStep == TypeOK /\ WalksTidy /\ GhostsShunned /\ [Next]_vars => GhostsShunned'
<1> SUFFICES ASSUME TypeOK, WalksTidy, GhostsShunned, [Next]_vars PROVE GhostsShunned'
  OBVIOUS
<1>1. ASSUME NEW p \in Procs, p \notin returned', pc'[p] \in {"deleted", "invalidate"}
      PROVE  /\ victim'[p] \notin exists'
             /\ (pc[p] = "invalidate" => Shunned(victim[p]))'
  <2>1. PICK r \in Names : p \notin returned /\ victim'[p] = r /\ victim[p] = r
    BY <1>1, DeletionStep
  <2>2. CASE pc[p] = pc'[p]
    <3>1. r \notin exists /\ (pc[p] = "invalidate" => Shunned(r))
      BY <1>1, <2>1, <2>2 DEF GhostsShunned, Shunned
    <3>2. r \notin exists'
      BY <1>1, <2>1, <2>2, <3>1, AwayStep
    <3>3. pc[p] = "invalidate" => Shunned(r)'
      BY <3>1, ShunStep
    <3> QED
      BY <2>1, <2>2, <3>2, <3>3 DEF Shunned
  <2>3. CASE pc[p] = "delete" /\ Deleted(p)
    <3>1. r \notin exists' /\ pc'[p] = "deleted"
      BY <2>1, <2>3 DEF Deleted, Disappears, GoTo, TypeOK
    <3> QED
      BY <2>1, <3>1
  <2>4. CASE pc[p] = "deleted" /\ (ClientInvalidates(p) \/ ClientKeepsPages(p))
    <3>1. r \notin exists'
      BY <1>1, <2>1, <2>4, AwayStep DEF GhostsShunned
    <3>2. ASSUME NEW c \in Cursors, ledger'[c].value # None PROVE ledger'[c].value.from.raced
      <4>1. CASE ClientInvalidates(p)
        BY <3>2, <4>1 DEF ClientInvalidates, Cache!Invalidate, Cache!Nothing
      <4>2. CASE ClientKeepsPages(p)
        <5>1. ledger[c].value \in Pages \cup {None} /\ ledger'[c].value = Outlived(ledger[c].value)
          BY <4>2 DEF ClientKeepsPages, TypeOK
        <5> QED
          BY <3>2, <5>1, OutlivedFacts
      <4> QED
        BY <2>4, <4>1, <4>2
    <3>3. ASSUME NEW q \in Procs, page'[q] # None PROVE page'[q].from.raced
      <4>1. page'[q] = Outlived(page[q]) /\ page[q] \in Pages \cup {None}
        BY <2>4 DEF ClientInvalidates, ClientKeepsPages, TypeOK
      <4> QED
        BY <3>3, <4>1, OutlivedFacts
    <3> QED
      BY <2>1, <3>1, <3>2, <3>3 DEF Shunned
  <2> QED
    BY <1>1, <2>2, <2>3, <2>4, DeletionStep
<1>2. ASSUME NEW r \in gone'
      PROVE  /\ r \notin exists'
             /\ Shunned(r)'
             /\ \A p \in Procs : r \in walk'[p].all => walk'[p].from.raced
             /\ Fresh' /\ r \in Shown' => index'.from.raced
  <2>1. CASE r \in gone /\ (r \notin exists => r \notin exists')
    <3>1. /\ r \in Names /\ r \notin exists /\ r \notin exists' /\ Shunned(r)
          /\ \A p \in Procs : r \in walk[p].all => walk[p].from.raced
          /\ Fresh /\ r \in Shown => index.from.raced
      BY <2>1 DEF TypeOK, GhostsShunned
    <3>2. Shunned(r)'
      BY <3>1, ShunStep
    <3>3. ASSUME NEW p \in Procs, r \in walk'[p].all PROVE walk'[p].from.raced
      <4>1. walk'[p] # NoWalk
        BY <3>3 DEF NoWalk
      <4> QED
        BY <3>1, <3>3, <4>1, WalkStep, ExtendedShuns
    <3>4. ASSUME Fresh', r \in Shown' PROVE index'.from.raced
      <4>1. index'.repos # None /\ r \in index'.repos
        BY <3>4 DEF Shown
      <4>2. CASE Fresh /\ index'.repos = index.repos /\ index'.from = index.from
        BY <3>1, <4>1, <4>2 DEF Shown
      <4>3. ASSUME NEW p \in Procs, NEW v \in Pages, Absorbs(p, v), Finishes(p, v)
            PROVE  index'.from.raced
        <5>1. r \in Extended(walk[p], cursor[p], v).all
              /\ index'.from = Extended(walk[p], cursor[p], v).from
          BY <4>1, <4>3 DEF Finishes
        <5> QED
          BY <3>1, <4>3, <5>1, ExtendedShuns
      <4> QED
        BY <3>4, <4>1, <4>2, <4>3, FreshStep
    <3> QED
      BY <3>1, <3>2, <3>3, <3>4
  <2>2. ASSUME NEW p \in Procs, Invalidate(p), p \notin returned, r = victim[p]
        PROVE  /\ r \notin exists'
               /\ Shunned(r)'
               /\ \A q \in Procs : r \in walk'[q].all => walk'[q].from.raced
               /\ Fresh' /\ r \in Shown' => index'.from.raced
    <3>1. /\ pc[p] = "invalidate" /\ load = None
          /\ index'.at = Zero /\ walk' = walk /\ exists' = exists
      BY <2>2 DEF Invalidate, Invalidated, TypeOK, registryVars
    <3>2. r \in Names /\ r \notin exists /\ Shunned(r)
      BY <2>2, <3>1 DEF GhostsShunned, TypeOK
    <3>3. Shunned(r)'
      BY <3>2, ShunStep
    <3>4. \A q \in Procs : walk'[q].all = {}
      BY <3>1, NamesAssumption DEF WalksTidy, NoWalk
    <3>5. ~Fresh'
      BY <3>1 DEF Fresh
    <3> QED
      BY <3>1, <3>2, <3>3, <3>4, <3>5
  <2> QED
    BY <2>1, <2>2, GoneStep
<1>3. ASSUME NEW r \in gone'
      PROVE  (/\ r \notin exists
              /\ Shunned(r)
              /\ \A p \in Procs : r \in walk[p].all => walk[p].from.raced
              /\ Fresh /\ r \in Shown => index.from.raced)'
  BY <1>2
<1>4. ASSUME NEW p \in Procs \ returned'
      PROVE  (/\ pc[p] \in {"deleted", "invalidate"} => victim[p] \notin exists
              /\ pc[p] = "invalidate" => Shunned(victim[p]))'
  BY <1>1
<1> QED
  BY <1>3, <1>4 DEF GhostsShunned

\* After the redirect of a deletion no fresh list shows the repository, unless it
\* was made from an answer that a deletion has left in use: it crossed the
\* invalidation of the client's cache, or nothing was invalidated
\* (handlers.go:558-562, catalog.go:78-83, client.go:619-629).
THEOREM CatalogGhostsAreRaced == Spec => []GhostsAreRaced
<1>1. Init => GhostsShunned
  BY DEF Init, GhostsShunned
<1>2. GhostsShunned => GhostsAreRaced
  BY DEF GhostsShunned, GhostsAreRaced
<1> QED
  BY <1>1, <1>2, GhostStep, CatalogTidy, CatalogTyped, PTL DEF Spec

-----------------------------------------------------------------------------
(* The list is no older than its pages and its walk make it.               *)

\* One page takes one timeout more.
LEMMA WalkAges ==
    ASSUME NEW c \in Nat, NEW d \in Nat, c < d
    PROVE  /\ WalkAge(c) \in Nat /\ WalkAge(d) \in Nat
           /\ WalkAge(c) + Timeout <= WalkAge(d)
           /\ CacheTTL + Timeout <= WalkAge(d)
<1>1. PICK k \in Nat : d = c + 1 + k
  <2>1. d - c - 1 \in Nat /\ d = c + 1 + (d - c - 1)
    OBVIOUS
  <2> QED
    BY <2>1
<1>2. /\ Timeout * c \in Nat /\ Timeout * k \in Nat /\ Timeout * d \in Nat
      /\ CacheTTL \in Nat /\ Timeout \in Nat
  BY SizesAssumption
<1>3. Timeout * d = Timeout * c + Timeout + Timeout * k
  BY <1>1, SizesAssumption
<1> QED
  BY <1>2, <1>3 DEF WalkAge

\* A request for a page begins when a walk finds it missing, and goes on no longer
\* than its timeout.
LEMMA RequestStep ==
    ASSUME TypeOK, [Next]_vars, NEW p \in Procs, pc'[p] \in {"request", "reply"}
    PROVE  /\ cursor'[p] = cursor[p] /\ walk'[p] = walk[p]
           /\ \/ pc[p] = "walk" /\ since'[p] = now /\ now' = now
              \/ /\ pc[p] \in {"request", "reply"} /\ since'[p] = since[p]
                 /\ now' = now \/ (now' = now + 1 /\ now - since[p] < Timeout)
<1> DEFINE Same == cursor'[p] = cursor[p] /\ walk'[p] = walk[p]
           Goes == /\ pc[p] \in {"request", "reply"} /\ since'[p] = since[p]
                   /\ now' = now \/ (now' = now + 1 /\ now - since[p] < Timeout)
           Goal == Same /\ \/ pc[p] = "walk" /\ since'[p] = now /\ now' = now
                           \/ Goes
<1>1. ASSUME NEW q \in Procs, BeginList(q) \/ Lists(q) PROVE Goal
  BY <1>1 DEF BeginList, Lists, ListFresh, StartWalk, GoTo, TypeOK, cacheVars
<1>2. ASSUME NEW q \in Procs, WalkFails(q) PROVE Goal
  <2>1. q # p
    BY <1>2 DEF WalkFails, Leave, GoTo, TypeOK
  <2> QED
    BY <1>2, <2>1 DEF WalkFails, Leave, GoTo, TypeOK, cacheVars
<1>3. ASSUME NEW q \in Procs, NEW v \in Pages, Absorbs(q, v) PROVE Goal
  <2>1. CASE Finishes(q, v)
    <3>1. q # p
      BY <2>1 DEF Finishes, Leave, GoTo, TypeOK
    <3> QED
      BY <1>3, <2>1, <3>1 DEF Absorbs, Finishes, Leave, GoTo, TypeOK
  <2>2. CASE Continues(q, v)
    <3>1. q # p
      BY <2>2 DEF Continues, GoTo, TypeOK
    <3> QED
      BY <1>3, <2>2, <3>1 DEF Absorbs, Continues, GoTo, TypeOK
  <2> QED
    BY <1>3, <2>1, <2>2 DEF Absorbs
<1>4. ASSUME NEW q \in Procs, PageMissed(q) PROVE Goal
  BY <1>4 DEF PageMissed, GoTo, TypeOK, cacheVars
<1>5. ASSUME NEW q \in Procs, PageServed(q) PROVE Goal
  BY <1>5 DEF PageServed, GoTo, TypeOK, cacheVars
<1>6. ASSUME NEW q \in Procs, Deletes(q) PROVE Goal
  BY <1>6 DEF Deletes, Deleted,
              ClientInvalidates, ClientKeepsPages, Cache!Invalidate, Invalidate, DeleteFails, GoTo,
              TypeOK, cacheVars
<1>7. ASSUME NEW q \in Procs, NEW r \in Names, BeginDelete(q, r) PROVE Goal
  BY <1>7 DEF BeginDelete, GoTo, TypeOK, cacheVars
<1>8. ASSUME NEW r \in Names, OthersChange(r) PROVE Goal
  BY <1>8 DEF OthersChange, cacheVars
<1>9. ASSUME TimePasses PROVE Goal
  BY <1>9 DEF TimePasses
<1>10. ASSUME UNCHANGED vars PROVE Goal
  BY <1>10 DEF vars, cacheVars
<1> QED
  BY <1>1, <1>2, <1>3, <1>4, <1>5, <1>6, <1>7, <1>8, <1>9, <1>10, WalkCases DEF Next

\* A walk between two pages has just got there.
LEMMA BetweenStep ==
    ASSUME TypeOK, WalksTidy, [Next]_vars, NEW p \in Procs, pc'[p] = "walk", cursor'[p] # 0
    PROVE  /\ now' = now
           /\ \/ pc[p] = "walk" /\ cursor'[p] = cursor[p] /\ walk'[p] = walk[p]
              \/ \E v \in Pages : Absorbs(p, v) /\ Continues(p, v)
<1>1. CASE cursor'[p] = cursor[p] /\ walk'[p] = walk[p] /\ ~\E v \in Pages : Absorbs(p, v)
  <2>1. load = p
    BY <1>1 DEF WalksTidy
  <2>2. pc[p] \in Walking
    BY <2>1 DEF TypeOK
  <2>3. pc[p] = "walk"
    <3> SUFFICES ASSUME pc[p] # "walk" PROVE FALSE
      OBVIOUS
    <3>1. ASSUME NEW q \in Procs, BeginList(q) \/ Lists(q) \/ Deletes(q) PROVE FALSE
      BY <2>1, <2>2, <3>1, NamesAssumption
         DEF BeginList, Lists, ListFresh, StartWalk, Deletes, Deleted,
             ClientInvalidates, ClientKeepsPages, Invalidate,
             DeleteFails, GoTo, TypeOK, Walking
    <3>2. ASSUME NEW q \in Procs, PageMissed(q) \/ PageServed(q) \/ WalkFails(q) PROVE FALSE
      BY <3>2 DEF PageMissed, PageServed, WalkFails, Leave, GoTo, TypeOK
    <3>3. ASSUME NEW q \in Procs, NEW v \in Pages, Absorbs(q, v) PROVE FALSE
      <4>1. q # p
        BY <1>1, <3>3
      <4> QED
        BY <3>3, <4>1 DEF Absorbs, Finishes, Continues, Leave, GoTo, TypeOK
    <3>4. ASSUME NEW q \in Procs, NEW r \in Names, BeginDelete(q, r) PROVE FALSE
      BY <3>4 DEF BeginDelete, GoTo, TypeOK
    <3>5. ASSUME \/ \E r \in Names : OthersChange(r)
                 \/ TimePasses
                 \/ UNCHANGED vars
          PROVE  FALSE
      BY <3>5 DEF OthersChange, TimePasses, vars
    <3> QED
      BY <3>1, <3>2, <3>3, <3>4, <3>5, WalkCases DEF Next
  <2>4. now' = now
    BY <2>3, ClockStep DEF TimePasses
  <2> QED
    BY <1>1, <2>3, <2>4
<1>2. ASSUME NEW v \in Pages, Absorbs(p, v)
      PROVE  now' = now /\ Continues(p, v)
  BY <1>2 DEF Absorbs, Finishes, Leave, GoTo, TypeOK
<1> QED
  BY <1>1, <1>2, WalkStep

\* A walk that takes a page is as old as it may be before it gets to d.
LEMMA AbsorbedAge ==
    ASSUME TypeOK, WalksTidy, AgesBounded, NEW p \in Procs, NEW v \in Pages, Absorbs(p, v),
           NEW d \in Nat, cursor[p] < d
    PROVE  now < Extended(walk[p], cursor[p], v).from.time + WalkAge(d)
<1>0. /\ cursor[p] \in Cursors /\ cursor[p] \in Nat /\ now \in Nat /\ since[p] \in Nat
      /\ CacheTTL \in Nat \ {0} /\ Timeout \in Nat \ {0}
  BY SizesAssumption DEF TypeOK, Cursors
<1>1. v.from.time \in Nat /\ walk[p].from.time \in Nat
  BY DEF TypeOK, Pages, History
<1>2. /\ WalkAge(cursor[p]) \in Nat /\ WalkAge(d) \in Nat
      /\ WalkAge(cursor[p]) + Timeout <= WalkAge(d)
      /\ CacheTTL + Timeout <= WalkAge(d)
  BY <1>0, WalkAges
<1>3. now < v.from.time + WalkAge(d)
  <2>1. CASE pc[p] = "walk"
    <3>1. /\ v = ledger[cursor[p]].value /\ v # None
          /\ now < ledger[cursor[p]].expires
      BY <2>1 DEF Absorbs
    <3>2. ledger[cursor[p]].expires <= v.from.time + Timeout + CacheTTL
      BY <1>0, <3>1 DEF AgesBounded
    <3>3. ledger[cursor[p]].expires \in Nat
      BY <1>0 DEF TypeOK
    <3> QED
      BY <1>0, <1>1, <1>2, <3>1, <3>2, <3>3
  <2>2. CASE pc[p] = "reply"
    <3>1. v = page[p] /\ page[p] # None
      BY <2>2 DEF Absorbs
    <3>2. now <= since[p] + Timeout /\ since[p] <= v.from.time
      BY <2>2, <3>1 DEF AgesBounded
    <3> QED
      BY <1>0, <1>1, <1>2, <3>2
  <2> QED
    BY <2>1, <2>2 DEF Absorbs
<1>4. cursor[p] # 0 => now < walk[p].from.time + WalkAge(d)
  <2>1. CASE pc[p] = "walk"
    <3>1. cursor[p] # 0 => now < walk[p].from.time + WalkAge(cursor[p])
      BY <2>1 DEF AgesBounded
    <3> QED
      BY <1>0, <1>1, <1>2, <3>1
  <2>2. CASE pc[p] = "reply"
    <3>1. /\ now <= since[p] + Timeout
          /\ cursor[p] # 0 => since[p] < walk[p].from.time + WalkAge(cursor[p])
      BY <2>2 DEF AgesBounded
    <3> QED
      BY <1>0, <1>1, <1>2, <3>1
  <2> QED
    BY <2>1, <2>2 DEF Absorbs
<1>5. CASE cursor[p] = 0
  BY <1>3, <1>5 DEF Extended
<1>6. CASE cursor[p] # 0
  <2>1. \/ Extended(walk[p], cursor[p], v).from.time = walk[p].from.time
        \/ Extended(walk[p], cursor[p], v).from.time = v.from.time
    BY <1>6 DEF Extended, Older
  <2> QED
    BY <1>3, <1>4, <1>6, <2>1
<1> QED
  BY <1>5, <1>6

\* Every step keeps pages, walks and lists young enough.
LEMMA AgesStep ==
    TypeOK /\ WalksTidy /\ PagesAhead /\ AgesBounded /\ [Next]_vars => AgesBounded'
<1> SUFFICES ASSUME TypeOK, WalksTidy, PagesAhead, AgesBounded, [Next]_vars PROVE AgesBounded'
  OBVIOUS
<1>0. /\ now \in Nat /\ now' \in Nat /\ now <= now' /\ TypeOK'
      /\ CacheTTL \in Nat \ {0} /\ Timeout \in Nat \ {0} /\ MaxName \in Nat
  <2>1. TypeOK' /\ now \in Nat /\ now' \in Nat
    BY StepTyped DEF TypeOK
  <2>2. now <= now'
    BY <2>1, ClockStep
  <2> QED
    BY <2>1, <2>2, SizesAssumption
<1>1. ASSUME NEW c \in Cursors, ledger'[c].value # None
      PROVE  ledger'[c].expires <= ledger'[c].value.from.time + Timeout + CacheTTL
  <2>1. CASE SameEntry(ledger'[c], ledger[c])
    BY <2>1 DEF AgesBounded, SameEntry, SameAnswer
  <2>2. ASSUME NEW p \in Procs, pc[p] = "reply", page[p] # None, cursor[p] = c,
               ledger'[c] = [value |-> page[p], expires |-> now + CacheTTL]
        PROVE  ledger'[c].expires <= ledger'[c].value.from.time + Timeout + CacheTTL
    <3>1. now <= since[p] + Timeout /\ since[p] <= page[p].from.time
      BY <2>2 DEF AgesBounded
    <3>2. page[p].from.time \in Nat /\ since[p] \in Nat
      <4>1. page[p] \in Pages /\ since[p] \in Nat
        BY <2>2 DEF TypeOK
      <4> QED
        BY <4>1 DEF Pages, History
    <3>3. ledger'[c].value = page[p] /\ ledger'[c].expires = now + CacheTTL
      BY <2>2
    <3> QED
      BY <1>0, <3>1, <3>2, <3>3
  <2> QED
    BY <1>1, <2>1, <2>2, LedgerStep, Zenon
<1>2. ASSUME NEW p \in Procs, pc'[p] \in {"request", "reply"}
      PROVE  since'[p] <= now' /\ now' <= since'[p] + Timeout
  <2>1. CASE pc[p] = "walk" /\ since'[p] = now /\ now' = now
    BY <1>0, <2>1
  <2>2. CASE /\ pc[p] \in {"request", "reply"} /\ since'[p] = since[p]
             /\ now' = now \/ (now' = now + 1 /\ now - since[p] < Timeout)
    <3>1. since[p] <= now /\ now <= since[p] + Timeout /\ since[p] \in Nat
      BY <2>2 DEF AgesBounded, TypeOK
    <3> QED
      BY <1>0, <2>2, <3>1
  <2> QED
    BY <1>2, <2>1, <2>2, RequestStep
<1>3. ASSUME NEW p \in Procs, page'[p] # None
      PROVE  since'[p] <= page'[p].from.time
  <2>0. pc'[p] = "reply"
    BY <1>0, <1>3 DEF TypeOK
  <2>1. CASE page[p] # None /\ SameAnswer(page'[p], page[p])
    <3>1. pc[p] = "reply"
      BY <2>1 DEF TypeOK
    <3>2. since'[p] = since[p]
      BY <2>0, <3>1, RequestStep
    <3> QED
      BY <2>1, <3>2 DEF AgesBounded, SameAnswer
  <2>2. CASE page'[p] = Page(cursor[p]) /\ now' = now
    <3>1. page'[p].from.time = now
      BY <2>2 DEF Page
    <3> QED
      BY <1>2, <2>0, <2>2, <3>1
  <2> QED
    BY <1>3, <2>1, <2>2, PageStep
<1>4. ASSUME NEW p \in Procs, pc'[p] = "walk", cursor'[p] # 0
      PROVE  now' < walk'[p].from.time + WalkAge(cursor'[p])
  <2>1. CASE pc[p] = "walk" /\ cursor'[p] = cursor[p] /\ walk'[p] = walk[p]
    BY <1>4, <2>1, BetweenStep DEF AgesBounded
  <2>2. ASSUME NEW v \in Pages, Absorbs(p, v), Continues(p, v)
        PROVE  now < walk'[p].from.time + WalkAge(cursor'[p])
    <3>1. /\ cursor'[p] = v.next /\ walk'[p] = Extended(walk[p], cursor[p], v)
      BY <2>2 DEF Continues, TypeOK
    <3>2. v.next \in Nat /\ cursor[p] < v.next
      <4>1. v.next \in Nat
        BY <1>0 DEF Pages, Cursors
      <4>2. GoesOn(cursor[p], v)
        BY <2>2, AbsorbedAhead
      <4> QED
        BY <1>4, <3>1, <4>1, <4>2 DEF GoesOn
    <3> QED
      BY <2>2, <3>1, <3>2, AbsorbedAge
  <2> QED
    BY <1>4, <2>1, <2>2, BetweenStep
<1>5. ASSUME NEW p \in Procs, pc'[p] \in {"request", "reply"}, cursor'[p] # 0
      PROVE  since'[p] < walk'[p].from.time + WalkAge(cursor'[p])
  <2>1. cursor'[p] = cursor[p] /\ walk'[p] = walk[p]
    BY <1>5, RequestStep
  <2>2. CASE pc[p] = "walk" /\ since'[p] = now
    BY <1>5, <2>1, <2>2 DEF AgesBounded
  <2>3. CASE pc[p] \in {"request", "reply"} /\ since'[p] = since[p]
    BY <1>5, <2>1, <2>3 DEF AgesBounded
  <2> QED
    BY <1>5, <2>2, <2>3, RequestStep
<1>6. ASSUME index'.at # Zero, index'.repos # None
      PROVE  /\ index'.at <= now'
             /\ index'.at < index'.from.time + WalkAge(MaxName + 1)
  <2>1. ASSUME index' = index
        PROVE  /\ index'.at <= now'
               /\ index'.at < index'.from.time + WalkAge(MaxName + 1)
    <3>1. /\ index.at <= now /\ index.at \in Nat
          /\ index.at < index.from.time + WalkAge(MaxName + 1)
      BY <1>6, <2>1 DEF AgesBounded, TypeOK
    <3> QED
      BY <1>0, <2>1, <3>1
  <2>2. ASSUME NEW p \in Procs, WalkFails(p) PROVE index' = index
    BY <1>6, <2>2 DEF WalkFails, AfterFailure, TypeOK
  <2>3. ASSUME NEW p \in Procs, Invalidate(p) PROVE FALSE
    BY <1>6, <2>3 DEF Invalidate, Invalidated, TypeOK
  <2>4. ASSUME NEW p \in Procs, NEW v \in Pages, Absorbs(p, v), Finishes(p, v)
        PROVE  /\ index'.at <= now'
               /\ index'.at < index'.from.time + WalkAge(MaxName + 1)
    <3>1. /\ index'.at = now /\ now' = now
          /\ index'.from = Extended(walk[p], cursor[p], v).from
      BY <2>4 DEF Absorbs, Finishes
    <3>2. MaxName + 1 \in Nat /\ cursor[p] < MaxName + 1
      <4>1. cursor[p] \in 0 .. MaxName
        BY DEF TypeOK, Cursors
      <4> QED
        BY <1>0, <4>1
    <3> QED
      BY <1>0, <2>4, <3>1, <3>2, AbsorbedAge
  <2>5. ASSUME \/ \E q \in Procs : \/ PageServed(q) \/ Deleted(q)
                                   \/ ClientInvalidates(q) \/ ClientKeepsPages(q)
               \/ \E r \in Names : OthersChange(r)
               \/ TimePasses
        PROVE  index' = index
    BY <2>5 DEF PageServed, Deleted, ClientInvalidates, ClientKeepsPages, OthersChange, TimePasses
  <2> QED
    BY <2>1, <2>2, <2>3, <2>4, <2>5, StepCases DEF Quiet, Absorbs, Continues
<1> QED
  BY <1>1, <1>2, <1>3, <1>4, <1>5, <1>6 DEF AgesBounded, WalkAge

\* A fresh list is no older than two lifetimes, that of its pages and its own,
\* and the requests of its walk, of which there are no more than names
\* (catalog.go:57, client.go:481).
THEOREM CatalogAgeBounded == Spec => []AgeBounded
<1>1. Init => AgesBounded
  BY DEF Init, AgesBounded, Cache!Init, Cache!Nothing
<1>2. TypeOK /\ AgesBounded => AgeBounded
  <2> SUFFICES ASSUME TypeOK, AgesBounded, Fresh, index.repos # None
               PROVE  now < index.from.time + 2 * CacheTTL + Timeout * (MaxName + 1)
    BY DEF AgeBounded
  <2>1. /\ now \in Nat /\ index.at \in Nat /\ index.from.time \in Nat
        /\ now - index.at < CacheTTL
    BY DEF Fresh, TypeOK, History
  <2>2. index.at < index.from.time + (CacheTTL + Timeout * (MaxName + 1))
    BY DEF Fresh, AgesBounded, WalkAge
  <2>3. CacheTTL \in Nat /\ Timeout * (MaxName + 1) \in Nat
    BY SizesAssumption
  <2> QED
    BY <2>1, <2>2, <2>3
<1> QED
  BY <1>1, <1>2, AgesStep, CatalogAhead, CatalogTidy, CatalogTyped, PTL DEF Spec
=============================================================================
