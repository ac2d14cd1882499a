--------------------------- MODULE TTLCacheProofs ---------------------------
EXTENDS TTLCacheHistory, FiniteSetTheorems, WellFoundedInduction, TLAPS

\* A non-empty set of naturals has a least member.
LEMMA LeastNatural ==
    ASSUME NEW T, T \subseteq Nat, T # {}
    PROVE  \E m \in T : \A x \in T : m <= x
<1>1. \E m \in T : \A x \in T : <<x, m>> \notin OpToRel(<, Nat)
  BY NatLessThanWellFounded, WFMin
<1>2. PICK m \in T : \A x \in T : <<x, m>> \notin OpToRel(<, Nat)
  BY <1>1
<1>3. \A x \in T : ~(x < m)
  BY <1>2 DEF OpToRel
<1> QED
  BY <1>3

\* Of a finite set of entries with stamps, Newest keeps at most n.
LEMMA NewestBounded ==
    ASSUME NEW es, NEW K, IsFiniteSet(K), \A k \in K : es[k].used \in Nat,
           NEW n \in Nat
    PROVE  Cardinality(Newest(es, K, n)) <= n
<1> DEFINE N == Newest(es, K, n)
<1>1. N \subseteq K
  BY DEF Newest
<1>2. CASE N = {}
  BY <1>2, FS_EmptySet
<1>3. CASE N # {}
  <2> DEFINE stamps == {es[k].used : k \in N}
  <2>1. stamps \subseteq Nat /\ stamps # {}
    BY <1>1, <1>3
  <2>2. PICK m \in stamps : \A x \in stamps : m <= x
    BY <2>1, LeastNatural
  <2>3. PICK k \in N : es[k].used = m
    BY <2>2
  <2> DEFINE J == {j \in K : es[j].used >= es[k].used}
  <2>4. N \subseteq J
    BY <1>1, <2>1, <2>2, <2>3
  <2>5. Cardinality(J) <= n
    BY <2>3 DEF Newest
  <2>6. IsFiniteSet(J)
    BY FS_Subset
  <2>7. Cardinality(N) <= Cardinality(J)
    BY <2>4, <2>6, FS_Subset
  <2>8. Cardinality(N) \in Nat /\ Cardinality(J) \in Nat
    BY <2>4, <2>6, FS_Subset, FS_CardinalityType
  <2> QED
    BY <2>5, <2>7, <2>8
<1> QED
  BY <1>2, <1>3

-----------------------------------------------------------------------------
\* What evictLocked does to a finite, stamped collection of entries: it only
\* removes, it restores the bound, and a live entry with at most Target
\* entries used as late as it stays.
LEMMA EvictFacts ==
    ASSUME NEW es, es = [k \in DOMAIN es |-> es[k]], IsFiniteSet(DOMAIN es),
           \A k \in DOMAIN es : es[k].used \in Nat
    PROVE  /\ DOMAIN Evict(es) \subseteq DOMAIN es
           /\ Evict(es) = [k \in DOMAIN Evict(es) |-> es[k]]
           /\ Cardinality(DOMAIN Evict(es)) <= MaxEntries
           /\ \A k \in DOMAIN es :
                 /\ Live(es[k])
                 /\ Cardinality({j \in DOMAIN es : es[j].used >= es[k].used}) <= Target
                 => k \in DOMAIN Evict(es)
<1> DEFINE live == {k \in DOMAIN es : Live(es[k])}
           newest == Newest(es, live, Target)
<1>1. Target \in Nat /\ Target <= MaxEntries
  BY MaxEntriesAssumption DEF Target
<1>2. IsFiniteSet(live)
  BY FS_Subset
<1>3. newest \subseteq live
  BY DEF Newest
<1>0. /\ Overfull(DOMAIN es) <=> ~(Cardinality(DOMAIN es) <= MaxEntries)
      /\ Overfull(live) <=> ~(Cardinality(live) <= MaxEntries)
  BY <1>2, FS_CardinalityType, MaxEntriesAssumption DEF Overfull
<1>4. CASE Cardinality(DOMAIN es) <= MaxEntries
  BY <1>0, <1>4 DEF Evict
<1>5. CASE /\ ~(Cardinality(DOMAIN es) <= MaxEntries)
           /\ Cardinality(live) <= MaxEntries
  <2>1. Evict(es) = Restrict(es, live)
    BY <1>0, <1>5 DEF Evict
  <2>2. DOMAIN Evict(es) = live
    BY <2>1 DEF Restrict
  <2> QED
    BY <1>5, <2>1, <2>2 DEF Restrict
<1>6. CASE /\ ~(Cardinality(DOMAIN es) <= MaxEntries)
           /\ ~(Cardinality(live) <= MaxEntries)
  <2>1. Evict(es) = Restrict(es, newest)
    BY <1>0, <1>6 DEF Evict
  <2>2. DOMAIN Evict(es) = newest
    BY <2>1 DEF Restrict
  <2>3. Cardinality(newest) <= Target
    BY <1>1, <1>2, NewestBounded
  <2>4. IsFiniteSet(newest) /\ Cardinality(newest) \in Nat
    BY <1>2, <1>3, FS_Subset, FS_CardinalityType
  <2>5. Cardinality(newest) <= MaxEntries
    BY <1>1, <2>3, <2>4, MaxEntriesAssumption
  <2>6. ASSUME NEW k \in DOMAIN es, Live(es[k]),
               Cardinality({j \in DOMAIN es : es[j].used >= es[k].used}) <= Target
        PROVE  k \in newest
    <3> DEFINE A == {j \in DOMAIN es : es[j].used >= es[k].used}
               B == {j \in live : es[j].used >= es[k].used}
    <3>1. B \subseteq A /\ IsFiniteSet(A)
      BY FS_Subset
    <3>2. Cardinality(B) <= Cardinality(A)
      BY <3>1, FS_Subset
    <3>3. Cardinality(A) \in Nat /\ Cardinality(B) \in Nat
      BY <3>1, FS_Subset, FS_CardinalityType
    <3>4. Cardinality(B) <= Target
      BY <1>1, <2>6, <3>2, <3>3
    <3> QED
      BY <2>6, <3>4 DEF Newest
  <2> QED
    BY <1>3, <2>1, <2>2, <2>5, <2>6 DEF Restrict
<1> QED
  BY <1>4, <1>5, <1>6

-----------------------------------------------------------------------------
\* The keys that were ever used.
UsedKeys == {j \in Keys : lastUse[j] > 0}

\* The inductive invariant.  WorkingSetKept is about keys, evictions are about
\* entries: EntriesMatchHistory ties the two together, and counting
\* needs the finiteness that every step preserves.
CacheInv == /\ TypeOK
            /\ HTypeOK
            /\ IsFiniteSet(DOMAIN entries)
            /\ IsFiniteSet(UsedKeys)
            /\ Bounded
            /\ StampsOrdered
            /\ EntriesMatchHistory
            /\ \A k \in Keys : lastUse[k] <= tick
            /\ WorkingSetKept

\* A use of one key only ever adds to the keys used since another one, so a
\* key that still ranks among the Target newest did so before.
LEMMA RankOnlyGrows ==
    ASSUME CacheInv, NEW u \in Keys, tick' = tick + 1, Used(u),
           NEW k \in Keys, k # u, Cardinality(UsedSince(k)') <= Target
    PROVE  /\ IsFiniteSet(UsedKeys')
           /\ lastUse[k] > 0 => Cardinality(UsedSince(k)) <= Target
<1>1. lastUse \in [Keys -> Nat] /\ tick \in Nat /\ \A j \in Keys : lastUse[j] <= tick
  BY DEF CacheInv, HTypeOK, TypeOK
<1>2. UsedKeys' = UsedKeys \cup {u}
  BY <1>1 DEF UsedKeys, Used
<1>3. IsFiniteSet(UsedKeys')
  BY <1>2, FS_AddElement DEF CacheInv
<1>4. ASSUME lastUse[k] > 0
      PROVE  Cardinality(UsedSince(k)) <= Target
  <2>1. UsedSince(k) \subseteq UsedSince(k)'
    BY <1>1 DEF UsedSince, Used
  <2>2. UsedSince(k)' \subseteq UsedKeys'
    BY <1>1, <1>4 DEF UsedSince, UsedKeys, Used
  <2>3. IsFiniteSet(UsedSince(k)')
    BY <1>3, <2>2, FS_Subset
  <2>4. /\ Cardinality(UsedSince(k)) <= Cardinality(UsedSince(k)')
        /\ IsFiniteSet(UsedSince(k))
    BY <2>1, <2>3, FS_Subset
  <2>5. Cardinality(UsedSince(k)) \in Nat /\ Cardinality(UsedSince(k)') \in Nat
    BY <2>3, <2>4, FS_CardinalityType
  <2> QED
    BY <2>4, <2>5, MaxEntriesAssumption DEF Target
<1> QED
  BY <1>3, <1>4

\* Storing a value keeps the inductive invariant, whatever is evicted.
LEMMA SetKeepsInv ==
    ASSUME CacheInv, NEW u \in Keys, NEW v \in Values, NEW ttl \in TTLs, HSet(u, v, ttl)
    PROVE  CacheInv'
<1> DEFINE e == [value |-> v, repo |-> KeyScope[u], expires |-> now + ttl, used |-> tick + 1]
           es == Stored(entries, u, e)
<1>1. /\ DOMAIN entries \subseteq Keys /\ entries \in [DOMAIN entries -> Entry]
      /\ tick \in Nat /\ now \in Nat
      /\ ledger \in [Keys -> [value : Values \cup {Miss}, expires : Nat]]
      /\ lastUse \in [Keys -> Nat]
      /\ \A j \in Keys : lastUse[j] <= tick
  BY DEF CacheInv, TypeOK, HTypeOK
<1>2. ttl \in Int /\ ttl > 0 /\ e \in Entry
  BY <1>1, TTLsAssumption, ScopesAssumption DEF HSet, Set, Storable, NextStamp, Entry
<1>3. /\ entries' = Evict(es) /\ tick' = tick + 1 /\ now' = now /\ reply' = NoReply
      /\ ledger' = [ledger EXCEPT ![u] = [value |-> v, expires |-> now + ttl]]
      /\ lastUse' = [lastUse EXCEPT ![u] = tick + 1]
  BY DEF HSet, Set, NextStamp, Used
<1>4. /\ DOMAIN es = DOMAIN entries \cup {u}
      /\ es = [k \in DOMAIN es |-> es[k]]
      /\ es[u] = e
      /\ \A k \in DOMAIN entries : k # u => es[k] = entries[k]
  BY DEF Stored
<1>5. IsFiniteSet(DOMAIN es)
  BY <1>4, FS_AddElement DEF CacheInv
<1>6. \A k \in DOMAIN es : es[k] \in Entry
  BY <1>1, <1>2, <1>4
<1>7. /\ DOMAIN entries' \subseteq DOMAIN es
      /\ entries' = [k \in DOMAIN entries' |-> es[k]]
      /\ Cardinality(DOMAIN entries') <= MaxEntries
      /\ \A k \in DOMAIN es :
            /\ Live(es[k])
            /\ Cardinality({j \in DOMAIN es : es[j].used >= es[k].used}) <= Target
            => k \in DOMAIN entries'
  <2>1. \A k \in DOMAIN es : es[k].used \in Nat
    BY <1>6 DEF Entry
  <2> QED
    BY <1>3, <1>4, <1>5, <2>1, EvictFacts
<1>8. \A k \in DOMAIN es : /\ es[k].value = ledger'[k].value
                           /\ es[k].expires = ledger'[k].expires
                           /\ es[k].used = lastUse'[k]
                           /\ es[k].repo = KeyScope[k]
  BY <1>1, <1>3, <1>4 DEF CacheInv, EntriesMatchHistory
<1>9. TypeOK' /\ HTypeOK'
  <2>1. entries' \in [DOMAIN entries' -> Entry]
    BY <1>6, <1>7
  <2>2. DOMAIN entries' \subseteq Keys
    BY <1>1, <1>4, <1>7
  <2>3. HTypeOK'
    BY <1>1, <1>2, <1>3 DEF HTypeOK
  <2> QED
    BY <1>1, <1>3, <2>1, <2>2, <2>3 DEF TypeOK, Replies
<1>10. IsFiniteSet(DOMAIN entries')
  BY <1>5, <1>7, FS_Subset
<1>11. IsFiniteSet(UsedKeys')
  <2>1. UsedKeys' = UsedKeys \cup {u}
    BY <1>1, <1>3 DEF UsedKeys
  <2> QED
    BY <2>1, FS_AddElement DEF CacheInv
<1>12. Bounded'
  BY <1>7 DEF Bounded
<1>13. StampsOrdered'
  <2>1. \A k \in DOMAIN es : es[k].used \in 1 .. tick + 1
    BY <1>1, <1>4 DEF CacheInv, StampsOrdered
  <2>2. \A j, k \in DOMAIN es : es[j].used = es[k].used => j = k
    BY <1>1, <1>4 DEF CacheInv, StampsOrdered
  <2> QED
    BY <1>3, <1>7, <2>1, <2>2 DEF StampsOrdered
<1>14. EntriesMatchHistory'
  BY <1>7, <1>8 DEF EntriesMatchHistory
<1>15. \A k \in Keys : lastUse'[k] <= tick'
  BY <1>1, <1>3
<1>16. WorkingSetKept'
  <2> SUFFICES ASSUME NEW k \in Keys, lastUse'[k] > 0,
                      Cardinality(UsedSince(k)') <= Target, now' < ledger'[k].expires
               PROVE  k \in DOMAIN entries'
    BY DEF WorkingSetKept
  <2>1. k \in DOMAIN es
    <3>1. CASE k = u
      BY <1>4, <3>1
    <3>2. CASE k # u
      <4>1. lastUse[k] > 0 /\ now < ledger[k].expires
        BY <1>1, <1>3, <3>2
      <4>2. Cardinality(UsedSince(k)) <= Target
        BY <1>3, <3>2, <4>1, RankOnlyGrows DEF Used
      <4> QED
        BY <1>4, <4>1, <4>2 DEF CacheInv, WorkingSetKept
    <3> QED
      BY <3>1, <3>2
  <2>2. Live(es[k])
    BY <1>3, <1>8, <2>1 DEF Live
  <2> DEFINE A == {j \in DOMAIN es : es[j].used >= es[k].used}
  <2>3. A \subseteq UsedSince(k)'
    BY <1>1, <1>4, <1>8, <2>1 DEF UsedSince
  <2>4. UsedSince(k)' \subseteq UsedKeys'
    BY <1>9 DEF UsedSince, UsedKeys, HTypeOK
  <2>5. /\ IsFiniteSet(UsedSince(k)') /\ IsFiniteSet(A)
        /\ Cardinality(A) <= Cardinality(UsedSince(k)')
    BY <1>11, <2>3, <2>4, FS_Subset
  <2>6. Cardinality(A) \in Nat /\ Cardinality(UsedSince(k)') \in Nat
    BY <2>5, FS_CardinalityType
  <2>7. Cardinality(A) <= Target
    BY <2>5, <2>6, MaxEntriesAssumption DEF Target
  <2> QED
    BY <1>7, <2>1, <2>2, <2>7
<1> QED
  BY <1>9, <1>10, <1>11, <1>12, <1>13, <1>14, <1>15, <1>16 DEF CacheInv

\* Finding a value renews its stamp and nothing else.
LEMMA GetHitKeepsInv ==
    ASSUME CacheInv, NEW u \in Keys, GetHit(u), Used(u), UNCHANGED ledger
    PROVE  CacheInv'
<1>1. /\ DOMAIN entries \subseteq Keys /\ entries \in [DOMAIN entries -> Entry]
      /\ tick \in Nat /\ now \in Nat /\ u \in DOMAIN entries
      /\ lastUse \in [Keys -> Nat]
      /\ \A j \in Keys : lastUse[j] <= tick
  BY DEF CacheInv, TypeOK, HTypeOK, GetHit
<1> DEFINE e == [entries[u] EXCEPT !.used = tick + 1]
<1>2. e \in Entry /\ e.value = entries[u].value /\ e.expires = entries[u].expires
      /\ e.repo = entries[u].repo /\ e.used = tick + 1
  BY <1>1 DEF Entry
<1>3. /\ tick' = tick + 1 /\ now' = now /\ ledger' = ledger
      /\ lastUse' = [lastUse EXCEPT ![u] = tick + 1]
      /\ DOMAIN entries' = DOMAIN entries
      /\ entries' = [k \in DOMAIN entries |-> IF k = u THEN e ELSE entries[k]]
      /\ reply' = <<u, entries[u].value>>
  BY <1>1 DEF GetHit, NextStamp, Used, Stored
<1>4. TypeOK' /\ HTypeOK'
  <2>1. entries' \in [DOMAIN entries' -> Entry]
    BY <1>1, <1>2, <1>3
  <2>2. reply' \in Replies
    BY <1>1, <1>3 DEF Replies, Entry
  <2>3. HTypeOK'
    BY <1>1, <1>3 DEF CacheInv, HTypeOK
  <2> QED
    BY <1>1, <1>3, <2>1, <2>2, <2>3 DEF TypeOK
<1>5. IsFiniteSet(DOMAIN entries') /\ Bounded'
  BY <1>3 DEF CacheInv, Bounded
<1>6. IsFiniteSet(UsedKeys')
  <2>1. UsedKeys' = UsedKeys \cup {u}
    BY <1>1, <1>3 DEF UsedKeys
  <2> QED
    BY <2>1, FS_AddElement DEF CacheInv
<1>7. StampsOrdered'
  BY <1>1, <1>2, <1>3 DEF CacheInv, StampsOrdered
<1>8. EntriesMatchHistory'
  BY <1>1, <1>2, <1>3 DEF CacheInv, EntriesMatchHistory
<1>9. \A k \in Keys : lastUse'[k] <= tick'
  BY <1>1, <1>3
<1>10. WorkingSetKept'
  <2> SUFFICES ASSUME NEW k \in Keys, k # u, lastUse'[k] > 0,
                      Cardinality(UsedSince(k)') <= Target, now' < ledger'[k].expires
               PROVE  k \in DOMAIN entries
    BY <1>1, <1>3 DEF WorkingSetKept
  <2>1. lastUse[k] > 0 /\ now < ledger[k].expires
    BY <1>1, <1>3
  <2>2. Cardinality(UsedSince(k)) <= Target
    BY <1>3, <2>1, RankOnlyGrows
  <2> QED
    BY <2>1, <2>2 DEF CacheInv, WorkingSetKept
<1> QED
  BY <1>4, <1>5, <1>6, <1>7, <1>8, <1>9, <1>10 DEF CacheInv

\* A step that only drops entries, and drops no live one whose ledger record
\* it keeps, preserves the inductive invariant.
LEMMA DropKeepsInv ==
    ASSUME CacheInv, NEW D \in SUBSET DOMAIN entries,
           entries' = Restrict(entries, D),
           UNCHANGED <<tick, now, lastUse>>, reply' \in Replies,
           HTypeOK',
           \A k \in D : ledger'[k] = ledger[k],
           \A k \in Keys : /\ now < ledger'[k].expires
                           => /\ ledger'[k] = ledger[k]
                              /\ k \in DOMAIN entries => k \in D
    PROVE  CacheInv'
<1>1. DOMAIN entries' = D /\ \A k \in D : entries'[k] = entries[k]
  BY DEF Restrict
<1>2. TypeOK'
  BY <1>1 DEF CacheInv, TypeOK, Restrict
<1>3. IsFiniteSet(D) /\ Cardinality(D) <= Cardinality(DOMAIN entries)
  BY FS_Subset DEF CacheInv
<1>4. Cardinality(D) \in Nat /\ Cardinality(DOMAIN entries) \in Nat
  BY <1>3, FS_CardinalityType DEF CacheInv
<1>5. Bounded'
  BY <1>1, <1>3, <1>4, MaxEntriesAssumption DEF CacheInv, Bounded
<1>6. StampsOrdered'
  BY <1>1 DEF CacheInv, StampsOrdered
<1>7. EntriesMatchHistory'
  BY <1>1 DEF CacheInv, EntriesMatchHistory
<1>8. WorkingSetKept'
  BY <1>1 DEF CacheInv, WorkingSetKept, UsedSince
<1> QED
  BY <1>1, <1>2, <1>3, <1>5, <1>6, <1>7, <1>8 DEF CacheInv, UsedKeys

\* The empty cache satisfies the inductive invariant.
LEMMA InitEstablishesInv == HInit => CacheInv
<1> SUFFICES ASSUME HInit PROVE CacheInv
  OBVIOUS
<1>1. DOMAIN entries = {} /\ tick = 0 /\ now = 0 /\ reply = NoReply
  BY DEF HInit, Init
<1>2. TypeOK /\ HTypeOK
  BY <1>1 DEF HInit, Init, TypeOK, HTypeOK, Replies, Nothing
<1>3. UsedKeys = {}
  BY DEF HInit, UsedKeys
<1>4. IsFiniteSet(DOMAIN entries) /\ IsFiniteSet(UsedKeys) /\ Cardinality(DOMAIN entries) = 0
  BY <1>1, <1>3, FS_EmptySet
<1>5. WorkingSetKept
  BY DEF HInit, WorkingSetKept
<1> QED
  BY <1>1, <1>2, <1>4, <1>5, MaxEntriesAssumption
     DEF CacheInv, Bounded, StampsOrdered, EntriesMatchHistory, HInit

\* Every step of the cache preserves the inductive invariant.
LEMMA StepKeepsInv == CacheInv /\ [HNext]_historyVars => CacheInv'
<1> SUFFICES ASSUME CacheInv, [HNext]_historyVars PROVE CacheInv'
  OBVIOUS
<1>1. /\ DOMAIN entries \subseteq Keys /\ entries \in [DOMAIN entries -> Entry]
      /\ entries = [k \in DOMAIN entries |-> entries[k]]
      /\ now \in Nat /\ HTypeOK
      /\ \A k \in DOMAIN entries : ledger[k].expires = entries[k].expires
      /\ \A k \in DOMAIN entries : entries[k].repo = KeyScope[k]
  BY DEF CacheInv, TypeOK, EntriesMatchHistory
<1>2. entries = Restrict(entries, DOMAIN entries)
  BY <1>1 DEF Restrict
<1>3. ASSUME NEW k \in Keys, HGet(k)
      PROVE  CacheInv'
  <2>1. CASE GetAbsent(k) /\ UNCHANGED <<ledger, lastUse>>
    <3>1. reply' \in Replies /\ HTypeOK'
      BY <1>1, <2>1 DEF GetAbsent, Replies, HTypeOK
    <3> QED
      BY <1>2, <2>1, <3>1, DropKeepsInv DEF GetAbsent
  <2>2. CASE GetExpired(k) /\ UNCHANGED <<ledger, lastUse>>
    <3>1. reply' \in Replies /\ HTypeOK'
      BY <1>1, <2>2 DEF GetExpired, Replies, HTypeOK
    <3>2. ~(now < ledger[k].expires)
      BY <1>1, <2>2 DEF GetExpired, Live
    <3> QED
      BY <2>2, <3>1, <3>2, DropKeepsInv DEF GetExpired
  <2>3. CASE GetHit(k) /\ Used(k) /\ UNCHANGED ledger
    BY <2>3, GetHitKeepsInv
  <2> QED
    BY <1>3, <2>1, <2>2, <2>3 DEF HGet
<1>4. ASSUME NEW ttl \in TTLs, SetNothing(ttl), UNCHANGED <<ledger, lastUse>>
      PROVE  CacheInv'
  <2>1. reply' \in Replies /\ HTypeOK'
    BY <1>1, <1>4 DEF SetNothing, Replies, HTypeOK
  <2> QED
    BY <1>2, <1>4, <2>1, DropKeepsInv DEF SetNothing
<1>5. ASSUME NEW k \in Keys, NEW v \in Values, NEW ttl \in TTLs, HSet(k, v, ttl)
      PROVE  CacheInv'
  BY <1>5, SetKeepsInv
<1>6. ASSUME NEW r \in Repos, HInvalidateRepo(r)
      PROVE  CacheInv'
  <2> DEFINE D == {k \in DOMAIN entries : ~Doomed(entries[k], r)}
  <2>1. /\ entries' = Restrict(entries, D) /\ UNCHANGED <<tick, now, lastUse>>
        /\ reply' \in Replies
        /\ ledger' = [k \in Keys |-> IF KeyScope[k] \in {r, Global} THEN Nothing ELSE ledger[k]]
    BY <1>6 DEF HInvalidateRepo, InvalidateRepo, Replies
  <2>2. HTypeOK'
    BY <1>1, <2>1 DEF HTypeOK, Nothing
  <2>3. \A k \in D : ledger'[k] = ledger[k]
    BY <1>1, <2>1 DEF Doomed
  <2>4. ASSUME NEW k \in Keys, now < ledger'[k].expires
        PROVE  ledger'[k] = ledger[k] /\ (k \in DOMAIN entries => k \in D)
    BY <1>1, <2>1, <2>4 DEF Nothing, Doomed
  <2> QED
    BY <2>1, <2>2, <2>3, <2>4, DropKeepsInv
<1>7. CASE HPurge
  <2>1. /\ entries' = Restrict(entries, {}) /\ UNCHANGED <<tick, now, lastUse>>
        /\ reply' \in Replies
        /\ ledger' = [k \in Keys |-> Nothing]
    BY <1>7 DEF HPurge, Purge, Replies, Restrict
  <2>2. HTypeOK'
    BY <1>1, <2>1 DEF HTypeOK, Nothing
  <2>3. \A k \in Keys : ~(now < ledger'[k].expires)
    BY <1>1, <2>1 DEF Nothing
  <2> QED
    BY <2>1, <2>2, <2>3, DropKeepsInv
<1>8. CASE TimePasses /\ UNCHANGED <<ledger, lastUse>>
  <2>1. now' = now + 1 /\ UNCHANGED <<entries, tick, reply, ledger, lastUse>>
    BY <1>8 DEF TimePasses
  <2>2. TypeOK' /\ HTypeOK'
    BY <1>1, <2>1 DEF CacheInv, TypeOK, HTypeOK
  <2>3. Bounded' /\ StampsOrdered' /\ EntriesMatchHistory'
    BY <2>1 DEF CacheInv, Bounded, StampsOrdered, EntriesMatchHistory
  <2>4. WorkingSetKept'
    <3>1. \A k \in Keys : now' < ledger'[k].expires => now < ledger[k].expires
      BY <1>1, <2>1 DEF HTypeOK
    <3> QED
      BY <2>1, <3>1 DEF CacheInv, WorkingSetKept, UsedSince
  <2> QED
    BY <2>1, <2>2, <2>3, <2>4 DEF CacheInv, UsedKeys
<1>9. CASE UNCHANGED historyVars
  BY <1>9 DEF historyVars, CacheInv, TypeOK, HTypeOK, Bounded, StampsOrdered,
       EntriesMatchHistory, WorkingSetKept, UsedSince, UsedKeys
<1> QED
  BY <1>3, <1>4, <1>5, <1>6, <1>7, <1>8, <1>9 DEF HNext

\* The inductive invariant holds of every reachable state.
THEOREM CacheInvariant == HSpec => []CacheInv
<1> QED
  BY InitEstablishesInv, StepKeepsInv, PTL DEF HSpec

\* Every entry, stamp and answer stays within its type.
THEOREM CacheTyped == HSpec => []TypeOK
<1>1. CacheInv => TypeOK
  BY DEF CacheInv
<1> QED
  BY <1>1, CacheInvariant, PTL

\* The cache never holds more than MaxEntries entries between two calls.
THEOREM CacheBounded == HSpec => []Bounded
<1>1. CacheInv => Bounded
  BY DEF CacheInv
<1> QED
  BY <1>1, CacheInvariant, PTL

\* The LRU order that evictLocked sorts by is total in every reachable state.
THEOREM CacheStampsOrdered == HSpec => []StampsOrdered
<1>1. CacheInv => StampsOrdered
  BY DEF CacheInv
<1> QED
  BY <1>1, CacheInvariant, PTL

\* The Target most recently used keys survive every eviction.
THEOREM CacheKeepsWorkingSet == HSpec => []WorkingSetKept
<1>1. CacheInv => WorkingSetKept
  BY DEF CacheInv
<1> QED
  BY <1>1, CacheInvariant, PTL

-----------------------------------------------------------------------------
\* The empty cache is an empty store.
LEMMA RefinementInit == HInit => Store!Init
BY DEF HInit, Init, NoReply, Nothing, Store!Init, Store!Nothing

\* Every step of the cache is a step of the lossy store.
LEMMA RefinementStep == CacheInv /\ [HNext]_historyVars => [Store!Next]_(Store!vars)
<1> SUFFICES ASSUME CacheInv, [HNext]_historyVars PROVE [Store!Next]_(Store!vars)
  OBVIOUS
<1>1. /\ \A k \in DOMAIN entries : /\ entries[k].value = ledger[k].value
                                  /\ entries[k].expires = ledger[k].expires
      /\ TTLs \subseteq Int
  BY TTLsAssumption DEF CacheInv, EntriesMatchHistory
<1>2. ASSUME NEW k \in Keys, HGet(k)
      PROVE  Store!Next
  <2>1. UNCHANGED <<ledger, now>>
    BY <1>2 DEF HGet, GetAbsent, GetExpired, GetHit
  <2>2. \E v \in Store!Answers(k) : reply' = <<k, v>>
    <3>1. CASE GetAbsent(k) \/ GetExpired(k)
      BY <3>1 DEF GetAbsent, GetExpired, Store!Answers
    <3>2. CASE GetHit(k)
      BY <1>1, <3>2 DEF GetHit, Live, Store!Answers
    <3> QED
      BY <1>2, <3>1, <3>2 DEF HGet
  <2> QED
    BY <2>1, <2>2 DEF Store!Next, Store!Get
<1>3. ASSUME NEW ttl \in TTLs, SetNothing(ttl), UNCHANGED <<ledger, lastUse>>
      PROVE  [Store!Next]_(Store!vars)
  BY <1>1, <1>3 DEF SetNothing, Storable, NoReply, Store!Next, Store!Decline
<1>4. ASSUME NEW k \in Keys, NEW v \in Values, NEW ttl \in TTLs, HSet(k, v, ttl)
      PROVE  Store!Next
  <2>1. Store!Set(k, v, ttl)
    BY <1>4 DEF HSet, Set, Storable, NoReply, Store!Set
  <2> QED
    BY <2>1 DEF Store!Next
<1>5. ASSUME NEW r \in Repos, HInvalidateRepo(r)
      PROVE  Store!Next
  <2>1. Store!Invalidate(r)
    BY <1>5 DEF HInvalidateRepo, InvalidateRepo, NoReply, Nothing,
                Store!Invalidate, Store!Nothing
  <2> QED
    BY <2>1 DEF Store!Next
<1>6. CASE HPurge
  BY <1>6 DEF HPurge, Purge, NoReply, Nothing, Store!Next, Store!Purge, Store!Nothing
<1>7. CASE TimePasses /\ UNCHANGED <<ledger, lastUse>>
  <2>1. ledger = Store!Forget({})
    BY DEF CacheInv, HTypeOK, Store!Forget
  <2>2. {} \in SUBSET Store!Expired(now + 1) /\ ledger' = Store!Forget({})
    BY <1>7, <2>1
  <2> QED
    BY <1>7, <2>2 DEF TimePasses, Store!Next, Store!TimePasses
<1>8. CASE UNCHANGED historyVars
  BY <1>8 DEF historyVars, Store!vars
<1> QED
  BY <1>2, <1>3, <1>4, <1>5, <1>6, <1>7, <1>8 DEF HNext

\* The cache implements the lossy store, for every set of keys, values,
\* lifetimes and every bound.
THEOREM CacheImplementsStore == HSpec => LossyStoreSpec
<1> QED
  BY RefinementInit, RefinementStep, CacheInvariant, PTL DEF HSpec, LossyStoreSpec, Store!Spec
=============================================================================
