------------------------- MODULE RegistryReadsProofs -------------------------
(***************************************************************************)
(* Proofs about RegistryReads for any number of readers, tags, manifests   *)
(* and pushes, any lifetimes and any timeout.                              *)
(***************************************************************************)
EXTENDS RegistryReads, TLAPS

\* What holds of an answer between the registry and the cache: it is younger
\* than a timeout, and names nothing swept unless an invalidation has gone by.
AnswerOK(p) ==
    InFlight(p) =>
        /\ asked[p] <= now
        /\ now <= asked[p] + Timeout
        /\ key[p] # None /\ NamesOf(key[p], got[p]) \cap Swept # {} => raced[p]

\* The same of a cached entry; and under a digest it is that digest's content,
\* unless a read by the digest was misled.
EntryOK(k) ==
    ledger[k].value # None =>
        /\ ledger[k].expires <= asOf[k] + Timeout + Lifetime(k)
        /\ Names(k) \cap Swept # {} => racedIn[k]
        /\ k \in Digests => ledger[k].value = k \/ k \in misled

\* The inductive invariant.
ReadsInv == /\ TypeOK
            /\ \A p \in Procs : AnswerOK(p)
            /\ \A k \in Keys : EntryOK(k)
            /\ \A x \in gone : ~Exists(x)

\* Nobody has read yet and nothing is cached.
LEMMA InitEstablishesReadsInv == Init => ReadsInv
<1> SUFFICES ASSUME Init PROVE ReadsInv
  OBVIOUS
<1>1. TypeOK
  BY NamesAssumption, BoundsAssumption DEF Init, TypeOK, StoreTyped, RegistryTyped, CallsTyped, LocalsMatchStep, Steps, Cache!Init, Cache!Nothing
<1>2. \A p \in Procs : AnswerOK(p)
  BY DEF Init, AnswerOK, InFlight
<1>3. \A k \in Keys : EntryOK(k)
  BY DEF Init, EntryOK, Cache!Init, Cache!Nothing
<1> QED
  BY <1>1, <1>2, <1>3 DEF ReadsInv, Init

-----------------------------------------------------------------------------
\* A step that touches neither cache nor registry and leaves nobody else's call
\* in flight than before keeps the invariant.
LEMMA LocalStepKeepsReadsInv ==
    ASSUME ReadsInv, TypeOK', NEW p \in Procs,
           UNCHANGED <<cacheVars, registryVars, historyVars>>,
           \A q \in Procs \ {p} : /\ pc'[q] = pc[q] /\ key'[q] = key[q] /\ got'[q] = got[q]
                                  /\ asked'[q] = asked[q] /\ raced'[q] = raced[q],
           pc'[p] \notin {"reply", "second"}
    PROVE  ReadsInv'
<1> USE DEF cacheVars, registryVars, historyVars
<1>1. ASSUME NEW q \in Procs
      PROVE  AnswerOK(q)'
  <2>1. CASE q = p
    BY <2>1 DEF AnswerOK, InFlight
  <2>2. CASE q # p
    BY <2>2 DEF ReadsInv, AnswerOK, InFlight, Swept
  <2> QED
    BY <2>1, <2>2
<1>2. \A k \in Keys : EntryOK(k)'
  BY DEF ReadsInv, EntryOK, Names, Swept
<1>3. \A x \in gone' : ~Exists(x)'
  BY DEF ReadsInv, Exists
<1> QED
  BY <1>1, <1>2, <1>3 DEF ReadsInv

\* A returning call leaves well-typed locals.
LEMMA ReturnTyped ==
    ASSUME TypeOK, NEW p \in Procs, Return(p), UNCHANGED <<cacheVars, registryVars, historyVars>>
    PROVE  TypeOK'
<1>1. /\ pc' \in [Procs -> Steps] /\ key' \in [Procs -> Keys \cup {None}]
      /\ victim' \in [Procs -> Manifests \cup {None}] /\ got' \in [Procs -> Values \cup {None}]
      /\ asked' \in [Procs -> Nat] /\ raced' \in [Procs -> BOOLEAN]
      /\ doomed' \in [Procs -> SUBSET (Tags \cup Manifests)]
  BY DEF TypeOK, CallsTyped, Return, GoTo, Steps
<1>2. LocalsMatchStep'
  BY DEF TypeOK, CallsTyped, LocalsMatchStep, Return, GoTo
<1> QED
  BY <1>1, <1>2 DEF TypeOK, StoreTyped, RegistryTyped, CallsTyped, cacheVars, registryVars, historyVars

\* A call that returns shows what it was answered and no more.
LEMMA ReturnKeepsReadsInv ==
    ASSUME ReadsInv, NEW p \in Procs, Return(p), UNCHANGED <<cacheVars, registryVars, historyVars>>
    PROVE  ReadsInv'
<1>1. TypeOK'
  BY ReturnTyped DEF ReadsInv
<1>2. \A q \in Procs \ {p} : /\ pc'[q] = pc[q] /\ key'[q] = key[q] /\ got'[q] = got[q]
                             /\ asked'[q] = asked[q] /\ raced'[q] = raced[q]
  BY DEF ReadsInv, TypeOK, CallsTyped, Return, GoTo
<1>3. pc'[p] = "idle"
  BY DEF ReadsInv, TypeOK, CallsTyped, Return, GoTo
<1> QED
  BY <1>1, <1>2, <1>3, LocalStepKeepsReadsInv

\* cache.set with an answer that is in order makes an entry that is in order.
LEMMA StoreKeepsEntries ==
    ASSUME ReadsInv, NEW p \in Procs, NEW k \in Keys, NEW v \in Values, Store(p, k, v), UNCHANGED <<gone, spared>>,
           now <= asked[p] + Timeout, asked[p] <= now, v # None,
           NamesOf(k, v) \cap Swept # {} => raced[p],
           k \in Digests /\ key[p] # k => v = k
    PROVE  /\ ledger' \in [Keys -> [value : Values \cup {None}, expires : Nat]]
           /\ asOf' \in [Keys -> Nat] /\ racedIn' \in [Keys -> BOOLEAN] /\ misled' \subseteq Digests /\ now' = now
           /\ \A j \in Keys : EntryOK(j)'
<1>1. Lifetime(k) \in Nat \ {0} /\ Timeout \in Nat /\ now \in Nat /\ asked[p] \in Nat
  BY TimesAssumption DEF ReadsInv, TypeOK, StoreTyped, CallsTyped, Lifetime
<1>2. /\ ledger' = [ledger EXCEPT ![k] = [value |-> v, expires |-> now + Lifetime(k)]]
      /\ now' = now
      /\ asOf' = [asOf EXCEPT ![k] = asked[p]]
      /\ racedIn' = [racedIn EXCEPT ![k] = raced[p]]
      /\ misled' = IF k \in Digests /\ key[p] = k /\ v # k THEN misled \cup {k} ELSE misled \ {k}
  BY DEF Store, Cache!Set
<1>3. /\ ledger' \in [Keys -> [value : Values \cup {None}, expires : Nat]]
      /\ asOf' \in [Keys -> Nat] /\ racedIn' \in [Keys -> BOOLEAN] /\ misled' \subseteq Digests
  BY <1>1, <1>2 DEF ReadsInv, TypeOK, StoreTyped, CallsTyped
<1>4. EntryOK(k)'
  <2>1. /\ ledger'[k].value = v /\ ledger'[k].expires = now + Lifetime(k)
        /\ asOf'[k] = asked[p] /\ racedIn'[k] = raced[p]
        /\ k \in Digests => v = k \/ k \in misled'
    BY <1>2 DEF ReadsInv, TypeOK, StoreTyped
  <2> QED
    BY <1>1, <2>1 DEF EntryOK, Names, Lifetime, Swept
<1>5. ASSUME NEW j \in Keys, j # k
      PROVE  EntryOK(j)'
  <2>1. /\ ledger'[j] = ledger[j] /\ asOf'[j] = asOf[j] /\ racedIn'[j] = racedIn[j]
        /\ j \in misled => j \in misled'
    BY <1>2, <1>5 DEF ReadsInv, TypeOK, CallsTyped
  <2> QED
    BY <2>1 DEF ReadsInv, EntryOK, Names, Lifetime, Swept
<1> QED
  BY <1>2, <1>3, <1>4, <1>5

\* Storing an answer and returning keeps the invariant.
LEMMA StoreAndReturnKeepsReadsInv ==
    ASSUME ReadsInv, NEW p \in Procs, Return(p), UNCHANGED <<registryVars, gone, spared>>, now' = now,
           ledger' \in [Keys -> [value : Values \cup {None}, expires : Nat]],
           asOf' \in [Keys -> Nat], racedIn' \in [Keys -> BOOLEAN], misled' \subseteq Digests,
           \A j \in Keys : EntryOK(j)'
    PROVE  ReadsInv'
<1>1. /\ pc' \in [Procs -> Steps] /\ key' \in [Procs -> Keys \cup {None}]
      /\ victim' \in [Procs -> Manifests \cup {None}] /\ got' \in [Procs -> Values \cup {None}]
      /\ asked' \in [Procs -> Nat] /\ raced' \in [Procs -> BOOLEAN]
      /\ doomed' \in [Procs -> SUBSET (Tags \cup Manifests)]
  BY DEF ReadsInv, TypeOK, CallsTyped, Return, GoTo, Steps
<1>2. LocalsMatchStep'
  BY DEF ReadsInv, TypeOK, CallsTyped, LocalsMatchStep, Return, GoTo
<1>3. TypeOK'
  BY <1>1, <1>2 DEF ReadsInv, TypeOK, StoreTyped, RegistryTyped, CallsTyped, registryVars
<1>4. ASSUME NEW q \in Procs
      PROVE  AnswerOK(q)'
  BY DEF ReadsInv, TypeOK, CallsTyped, AnswerOK, InFlight, Return, GoTo, Swept
<1>5. \A x \in gone' : ~Exists(x)'
  BY DEF ReadsInv, Exists, registryVars
<1> QED
  BY <1>3, <1>4, <1>5 DEF ReadsInv

\* What the registry serves names nothing that is gone.
LEMMA ServedExists ==
    ASSUME ReadsInv, NEW k \in Keys, NEW answer \in Answers(k), answer # None
    PROVE  /\ answer \in Values
           /\ NamesOf(k, answer) \cap gone = {}
           /\ k \in Tags => answer \in Manifests
<1> USE NamesAssumption
<1>0. /\ tagOf \in [Tags -> Manifests \cup {None}]
      /\ gone \subseteq Tags \cup Manifests
      /\ \A t \in Tags : tagOf[t] # None => tagOf[t] \in present
      /\ present \subseteq Manifests
      /\ \A x \in gone : ~Exists(x)
  BY DEF ReadsInv, TypeOK, StoreTyped, RegistryTyped
<1>1. CASE answer # Serves(k)
  <2>1. \/ k \in Manifests /\ answer \in present
        \/ k \in Blobs /\ answer \in Blobs
    BY <1>1 DEF Answers
  <2>2. NamesOf(k, answer) = {answer} /\ answer \in Digests /\ k \notin Tags
    BY <1>0, <2>1 DEF NamesOf, Digests
  <2> QED
    BY <1>0, <2>1, <2>2 DEF Exists, Values, Digests
<1>2. CASE answer = Serves(k) /\ k \in Tags
  <2>1. answer = tagOf[k] /\ NamesOf(k, answer) = {k, tagOf[k]}
    BY <1>2 DEF Serves, NamesOf, Digests
  <2> QED
    BY <1>0, <1>2, <2>1 DEF Exists, Values, Digests
<1>3. CASE answer = Serves(k) /\ k \in Manifests
  <2>1. answer = k /\ k \in present /\ NamesOf(k, answer) = {k}
    BY <1>3 DEF Serves, NamesOf, Digests
  <2> QED
    BY <1>0, <1>3, <2>1 DEF Exists, Values, Digests
<1>4. CASE answer = Serves(k) /\ k \in Blobs
  <2>1. answer = k /\ NamesOf(k, answer) = {k}
    BY <1>4 DEF Serves, NamesOf, Digests
  <2> QED
    BY <1>0, <1>4, <2>1 DEF Values, Digests
<1>5. CASE answer = Serves(k) /\ k = TagList
  <2>1. answer = [tags |-> {t \in Tags : tagOf[t] # None}]
    BY <1>5 DEF Serves, Digests
  <2>2. NamesOf(k, answer) = {t \in Tags : tagOf[t] # None}
    BY <1>5, <2>1 DEF NamesOf, Digests
  <2> QED
    BY <1>0, <1>5, <2>1, <2>2 DEF Exists, Values, Pages, Digests
<1> QED
  BY <1>1, <1>2, <1>3, <1>4, <1>5 DEF Keys, Digests

\* Every step preserves the inductive invariant.
LEMMA StepKeepsReadsInv == ReadsInv /\ [Next]_vars => ReadsInv'
<1> SUFFICES ASSUME ReadsInv, [Next]_vars PROVE ReadsInv'
  OBVIOUS
<1> USE DEF cacheVars, registryVars, historyVars
<1>0. /\ TypeOK /\ \A p \in Procs : AnswerOK(p)
      /\ \A k \in Keys : EntryOK(k)
      /\ \A x \in gone : ~Exists(x)
  BY DEF ReadsInv
<1>1. ASSUME NEW p \in Procs, NEW k \in Keys, BeginRead(p, k)
      PROVE  ReadsInv'
  <2>1. TypeOK'
    BY <1>0, <1>1, NamesAssumption DEF TypeOK, StoreTyped, RegistryTyped, CallsTyped, LocalsMatchStep, Steps, BeginRead, GoTo
  <2> QED
    BY <1>0, <1>1, <2>1, LocalStepKeepsReadsInv DEF TypeOK, CallsTyped, BeginRead, GoTo
<1>2. ASSUME NEW p \in Procs, NEW m \in Manifests, BeginDelete(p, m)
      PROVE  ReadsInv'
  <2>1. TypeOK'
    BY <1>0, <1>2, NamesAssumption DEF TypeOK, StoreTyped, RegistryTyped, CallsTyped, LocalsMatchStep, Steps, BeginDelete, GoTo, Keys, Digests
  <2> QED
    BY <1>0, <1>2, <2>1, LocalStepKeepsReadsInv DEF TypeOK, CallsTyped, BeginDelete, GoTo
<1>3. ASSUME NEW p \in Procs, Missed(p)
      PROVE  ReadsInv'
  <2>1. TypeOK'
    BY <1>0, <1>3 DEF TypeOK, StoreTyped, RegistryTyped, CallsTyped, LocalsMatchStep, Steps, Missed, GoTo
  <2> QED
    BY <1>0, <1>3, <2>1, LocalStepKeepsReadsInv DEF TypeOK, CallsTyped, Missed, GoTo
<1>4. ASSUME NEW p \in Procs, Hit(p) \/ NotFound(p) \/ Fails(p)
      PROVE  ReadsInv'
  BY <1>4, ReturnKeepsReadsInv DEF Hit, NotFound, Fails
<1>5. ASSUME NEW p \in Procs, NEW answer \in Values, Served(p, answer)
      PROVE  ReadsInv'
  <2>0. key[p] \in Keys /\ answer \in Answers(key[p]) /\ answer # None
    BY <1>0, <1>5 DEF TypeOK, CallsTyped, Served, Accepted
  <2>1. TypeOK'
    BY <1>0, <1>5, <2>0, ServedExists DEF TypeOK, StoreTyped, RegistryTyped, CallsTyped, LocalsMatchStep, Steps, Served, GoTo
  <2>2. ASSUME NEW q \in Procs
        PROVE  AnswerOK(q)'
    <3>1. CASE q = p
      <4>1. /\ key'[p] = key[p] /\ got'[p] = answer /\ asked'[p] = now
            /\ now' = now /\ gone' = gone /\ spared' = spared
        BY <1>0, <1>5 DEF TypeOK, CallsTyped, Served
      <4>2. now \in Nat /\ Timeout \in Nat
        BY <1>0, TimesAssumption DEF TypeOK, StoreTyped
      <4> QED
        BY <2>0, <3>1, <4>1, <4>2, ServedExists DEF AnswerOK, Swept
    <3>2. CASE q # p
      BY <1>0, <1>5, <3>2 DEF TypeOK, CallsTyped, Served, GoTo, AnswerOK, InFlight, Swept
    <3> QED
      BY <3>1, <3>2
  <2>3. \A k \in Keys : EntryOK(k)'
    BY <1>0, <1>5 DEF Served, EntryOK, Names, Swept
  <2>4. \A x \in gone' : ~Exists(x)'
    BY <1>0, <1>5 DEF Served, Exists
  <2> QED
    BY <2>1, <2>2, <2>3, <2>4 DEF ReadsInv
<1>6. ASSUME NEW p \in Procs, StoreAnswer(p)
      PROVE  ReadsInv'
  <2>1. /\ key[p] \in Keys /\ key[p] # None /\ got[p] \in Values /\ got[p] # None
        /\ Store(p, key[p], got[p]) /\ UNCHANGED <<gone, spared>> /\ AnswerOK(p) /\ InFlight(p)
    BY <1>0, <1>6, NamesAssumption DEF TypeOK, CallsTyped, LocalsMatchStep, StoreAnswer, InFlight, Keys
  <2>2. /\ ledger' \in [Keys -> [value : Values \cup {None}, expires : Nat]]
        /\ asOf' \in [Keys -> Nat] /\ racedIn' \in [Keys -> BOOLEAN] /\ misled' \subseteq Digests /\ now' = now
        /\ \A j \in Keys : EntryOK(j)'
    BY <2>1, StoreKeepsEntries DEF AnswerOK
  <2> QED
    BY <1>6, <2>2, StoreAndReturnKeepsReadsInv DEF StoreAnswer
<1>7. ASSUME NEW p \in Procs, NEW m \in Manifests, StoreDigest(p, m)
      PROVE  ReadsInv'
  <2>1. /\ key[p] \in Tags /\ got[p] \in Manifests /\ InFlight(p) /\ AnswerOK(p)
        /\ Store(p, got[p], got[p]) /\ UNCHANGED <<gone, spared>>
    BY <1>0, <1>7 DEF TypeOK, LocalsMatchStep, StoreDigest, DigestKey, InFlight
  <2>2. /\ got[p] \in Keys /\ got[p] \in Values /\ got[p] # None /\ key[p] # None
        /\ NamesOf(got[p], got[p]) = {got[p]} /\ NamesOf(key[p], got[p]) = {key[p], got[p]}
    BY <2>1, NamesAssumption DEF NamesOf, Digests, Keys, Values
  <2>3. /\ ledger' \in [Keys -> [value : Values \cup {None}, expires : Nat]]
        /\ asOf' \in [Keys -> Nat] /\ racedIn' \in [Keys -> BOOLEAN] /\ misled' \subseteq Digests /\ now' = now
        /\ \A j \in Keys : EntryOK(j)'
    BY <2>1, <2>2, StoreKeepsEntries DEF AnswerOK
  <2> QED
    BY <1>7, <2>3, StoreAndReturnKeepsReadsInv DEF StoreDigest
<1>8. ASSUME NEW p \in Procs, StoreTag(p)
      PROVE  ReadsInv'
  <2>1. /\ key[p] \in Tags /\ key[p] \in Keys /\ key[p] # None /\ got[p] \in Values /\ got[p] # None
        /\ Store(p, key[p], got[p]) /\ UNCHANGED <<gone, spared>> /\ AnswerOK(p) /\ InFlight(p)
    BY <1>0, <1>8, NamesAssumption DEF TypeOK, CallsTyped, LocalsMatchStep, StoreTag, InFlight, Keys
  <2>2. /\ ledger' \in [Keys -> [value : Values \cup {None}, expires : Nat]]
        /\ asOf' \in [Keys -> Nat] /\ racedIn' \in [Keys -> BOOLEAN] /\ misled' \subseteq Digests /\ now' = now
        /\ \A j \in Keys : EntryOK(j)'
    BY <2>1, StoreKeepsEntries DEF AnswerOK
  <2>3. TypeOK'
    <3>1. pc' \in [Procs -> Steps]
      BY <1>0, <1>8 DEF TypeOK, CallsTyped, Steps, StoreTag, GoTo
    <3>2. LocalsMatchStep'
      BY <1>0, <1>8, <2>1 DEF TypeOK, CallsTyped, LocalsMatchStep, StoreTag, GoTo
    <3> QED
      BY <1>0, <1>8, <2>2, <3>1, <3>2 DEF TypeOK, StoreTyped, RegistryTyped, CallsTyped, StoreTag
  <2>4. ASSUME NEW q \in Procs
        PROVE  AnswerOK(q)'
    BY <1>0, <1>8, <2>2 DEF TypeOK, CallsTyped, StoreTag, GoTo, AnswerOK, InFlight, Swept
  <2>5. \A x \in gone' : ~Exists(x)'
    BY <1>0, <1>8 DEF StoreTag, Exists
  <2> QED
    BY <2>2, <2>3, <2>4, <2>5 DEF ReadsInv
<1>9. ASSUME NEW p \in Procs, Deleted(p)
      PROVE  ReadsInv'
  <2>0. victim[p] # None /\ key[p] = None
    BY <1>0, <1>9, NamesAssumption DEF TypeOK, RegistryTyped, LocalsMatchStep, Deleted, Keys, Digests
  <2>1. TypeOK'
    <3>1. pc' \in [Procs -> Steps] /\ asked' \in [Procs -> Nat]
      BY <1>0, <1>9 DEF TypeOK, StoreTyped, CallsTyped, Steps, Deleted, GoTo
    <3>2. doomed' \in [Procs -> SUBSET (Tags \cup Manifests)]
      <4>1. {victim[p]} \cup TagsOf(victim[p]) \in SUBSET (Tags \cup Manifests)
        BY <1>0, <1>9 DEF TypeOK, RegistryTyped, Deleted, TagsOf
      <4> HIDE DEF TagsOf
      <4> QED
        BY <1>0, <1>9, <4>1 DEF TypeOK, CallsTyped, Deleted
    <3>3. /\ tagOf' \in [Tags -> Manifests \cup {None}] /\ present' \subseteq Manifests
          /\ \A t \in Tags : tagOf'[t] # None => tagOf'[t] \in present'
      BY <1>0, <1>9 DEF TypeOK, RegistryTyped, Deleted, Remove, TagsOf
    <3>4. LocalsMatchStep'
      <4>1. victim[p] # None /\ key' = key /\ victim' = victim /\ got' = got
            /\ pc' = [pc EXCEPT ![p] = "reply"] /\ key[p] = None
        BY <1>0, <1>9, <2>0 DEF TypeOK, CallsTyped, Deleted, GoTo
      <4> QED
        BY <1>0, <4>1, NamesAssumption DEF TypeOK, CallsTyped, LocalsMatchStep, Keys
    <3> QED
      BY <1>0, <1>9, <3>1, <3>2, <3>3, <3>4 DEF TypeOK, StoreTyped, RegistryTyped, CallsTyped, Deleted
  <2>2. ASSUME NEW q \in Procs
        PROVE  AnswerOK(q)'
    <3>1. now \in Nat /\ Timeout \in Nat
      BY <1>0, TimesAssumption DEF TypeOK, StoreTyped
    <3>2. CASE q = p
      BY <1>0, <1>9, <2>0, <3>1, <3>2 DEF TypeOK, CallsTyped, Deleted, AnswerOK, Swept
    <3>3. CASE q # p
      BY <1>0, <1>9, <3>3 DEF TypeOK, CallsTyped, Deleted, GoTo, AnswerOK, InFlight, Swept
    <3> QED
      BY <3>2, <3>3
  <2>3. \A k \in Keys : EntryOK(k)'
    BY <1>0, <1>9 DEF Deleted, EntryOK, Names, Swept
  <2>4. \A x \in gone' : ~Exists(x)'
    BY <1>0, <1>9, NamesAssumption DEF TypeOK, CallsTyped, Deleted, Remove, TagsOf, Exists
  <2> QED
    BY <2>1, <2>2, <2>3, <2>4 DEF ReadsInv
<1>10. ASSUME NEW p \in Procs, Acknowledged(p)
      PROVE  ReadsInv'
  <2>1. /\ ledger' = [k \in Keys |-> [value |-> None, expires |-> 0]] /\ now' = now
    BY <1>10 DEF Acknowledged, InvalidateRepo, Cache!Invalidate, Cache!Nothing
  <2>2. TypeOK'
    <3>1. /\ pc' \in [Procs -> Steps] /\ victim' \in [Procs -> Manifests \cup {None}]
          /\ asked' \in [Procs -> Nat] /\ raced' \in [Procs -> BOOLEAN]
          /\ doomed' \in [Procs -> SUBSET (Tags \cup Manifests)]
      BY <1>0, <1>10 DEF TypeOK, CallsTyped, Steps, Acknowledged, ReportDeleted, GoTo, InFlight
    <3>2. LocalsMatchStep'
      BY <1>0, <1>10 DEF TypeOK, CallsTyped, LocalsMatchStep, Acknowledged, ReportDeleted, GoTo
    <3>3. ledger' \in [Keys -> [value : Values \cup {None}, expires : Nat]]
      BY <2>1
    <3>4. gone' \subseteq Tags \cup Manifests /\ spared' \subseteq gone'
      <4>1. doomed[p] \subseteq Tags \cup Manifests /\ gone \subseteq Tags \cup Manifests
        BY <1>0 DEF TypeOK, StoreTyped, CallsTyped
      <4> QED
        BY <1>10, <4>1 DEF Acknowledged, ReportDeleted, StillGone
    <3> QED
      BY <1>0, <1>10, <2>1, <3>1, <3>2, <3>3, <3>4 DEF TypeOK, StoreTyped, RegistryTyped, CallsTyped, Acknowledged, ReportDeleted
  <2>3. ASSUME NEW q \in Procs
        PROVE  AnswerOK(q)'
    <3>1. CASE q = p
      BY <1>0, <1>10, <3>1 DEF TypeOK, CallsTyped, Acknowledged, ReportDeleted, GoTo, AnswerOK, InFlight
    <3>2. CASE q # p
      BY <1>0, <1>10, <2>1, <3>2 DEF TypeOK, CallsTyped, Acknowledged, ReportDeleted, GoTo, AnswerOK, InFlight
    <3> QED
      BY <3>1, <3>2
  <2>4. \A k \in Keys : EntryOK(k)'
    BY <2>1 DEF EntryOK
  <2>5. \A x \in gone' : ~Exists(x)'
    BY <1>0, <1>10 DEF Acknowledged, ReportDeleted, StillGone, Exists
  <2> QED
    BY <2>2, <2>3, <2>4, <2>5 DEF ReadsInv
<1>11. ASSUME NEW t \in Tags, NEW m \in Manifests, Push(t, m)
      PROVE  ReadsInv'
  <2>1. TypeOK'
    BY <1>0, <1>11, BoundsAssumption, NamesAssumption DEF TypeOK, StoreTyped, RegistryTyped, CallsTyped, LocalsMatchStep, Push, callVars
  <2>2. \A q \in Procs : AnswerOK(q)'
    BY <1>0, <1>11 DEF Push, callVars, AnswerOK, InFlight, Swept
  <2>3. \A k \in Keys : EntryOK(k)'
    BY <1>0, <1>11 DEF Push, EntryOK, Names, Swept
  <2>4. \A x \in gone' : ~Exists(x)'
    BY <1>0, <1>11, NamesAssumption DEF TypeOK, CallsTyped, Push, Exists, Digests
  <2> QED
    BY <2>1, <2>2, <2>3, <2>4 DEF ReadsInv
<1>12. CASE TimePasses
  <2>1. /\ now \in Nat /\ now' = now + 1 /\ Timeout \in Nat
        /\ \A k \in Keys : \/ /\ ledger'[k] = ledger[k] /\ asOf'[k] = asOf[k] /\ racedIn'[k] = racedIn[k]
                              /\ k \in misled => k \in misled'
                          \/ ledger'[k].value = None
    BY <1>0, <1>12, TimesAssumption DEF TypeOK, StoreTyped, TimePasses, Cache!Forget, Cache!Expired, Cache!Nothing
  <2>2. TypeOK'
    <3>1. /\ ledger' \in [Keys -> [value : Values \cup {None}, expires : Nat]]
          /\ asOf' \in [Keys -> Nat] /\ racedIn' \in [Keys -> BOOLEAN] /\ misled' \subseteq Digests
      BY <1>0, <1>12 DEF TypeOK, StoreTyped, TimePasses, Cache!Forget, Cache!Expired, Cache!Nothing
    <3> QED
      BY <1>0, <1>12, <2>1, <3>1 DEF TypeOK, StoreTyped, RegistryTyped, CallsTyped, LocalsMatchStep, TimePasses, callVars
  <2>3. ASSUME NEW q \in Procs
        PROVE  AnswerOK(q)'
    BY <1>0, <1>12, <2>1 DEF TypeOK, CallsTyped, TimePasses, callVars, AnswerOK, InFlight, Swept
  <2>4. ASSUME NEW k \in Keys
        PROVE  EntryOK(k)'
    <3>1. gone' = gone /\ spared' = spared
      BY <1>12 DEF TimePasses
    <3>2. CASE /\ ledger'[k] = ledger[k] /\ asOf'[k] = asOf[k] /\ racedIn'[k] = racedIn[k]
               /\ k \in misled => k \in misled'
      BY <1>0, <3>1, <3>2 DEF EntryOK, Names, Swept, Lifetime
    <3>3. CASE ledger'[k].value = None
      BY <3>3 DEF EntryOK
    <3> QED
      BY <2>1, <3>2, <3>3
  <2>5. \A x \in gone' : ~Exists(x)'
    BY <1>0, <1>12 DEF TimePasses, Exists
  <2> QED
    BY <2>2, <2>3, <2>4, <2>5 DEF ReadsInv
<1>13. ASSUME NEW p \in Procs, AcknowledgedQuietly(p)
       PROVE  ReadsInv'
  <2>1. /\ UNCHANGED <<cacheVars, registryVars, key, got, asOf, racedIn, misled>>
        /\ gone' = gone \cup StillGone(p) /\ spared' = spared \cup StillGone(p)
    BY <1>13 DEF AcknowledgedQuietly, ReportDeleted
  <2>2. Swept' \subseteq Swept
    <3> HIDE DEF StillGone
    <3> QED BY <2>1 DEF Swept
  <2>3. TypeOK'
    <3>1. /\ pc' \in [Procs -> Steps] /\ victim' \in [Procs -> Manifests \cup {None}]
          /\ asked' \in [Procs -> Nat] /\ raced' \in [Procs -> BOOLEAN]
          /\ doomed' \in [Procs -> SUBSET (Tags \cup Manifests)]
      BY <1>0, <1>13 DEF TypeOK, CallsTyped, Steps, AcknowledgedQuietly, ReportDeleted, GoTo
    <3>2. LocalsMatchStep'
      BY <1>0, <1>13 DEF TypeOK, CallsTyped, LocalsMatchStep, AcknowledgedQuietly, ReportDeleted, GoTo
    <3>3. gone' \subseteq Tags \cup Manifests /\ spared' \subseteq gone'
      <4>1. StillGone(p) \subseteq Tags \cup Manifests /\ gone \subseteq Tags \cup Manifests
        BY <1>0 DEF TypeOK, StoreTyped, CallsTyped, StillGone
      <4> QED
        BY <1>0, <2>1, <4>1 DEF TypeOK, StoreTyped
    <3> QED
      BY <1>0, <2>1, <3>1, <3>2, <3>3 DEF TypeOK, StoreTyped, RegistryTyped, CallsTyped
  <2>4. ASSUME NEW q \in Procs
        PROVE  AnswerOK(q)'
    <3>1. CASE q = p
      BY <1>0, <1>13, <3>1 DEF TypeOK, CallsTyped, AcknowledgedQuietly, ReportDeleted, GoTo, AnswerOK, InFlight
    <3>2. CASE q # p
      BY <1>0, <1>13, <2>1, <2>2, <3>2
         DEF TypeOK, CallsTyped, AcknowledgedQuietly, ReportDeleted, GoTo, AnswerOK, InFlight
    <3> QED
      BY <3>1, <3>2
  <2>5. \A k \in Keys : EntryOK(k)'
    BY <1>0, <2>1, <2>2 DEF EntryOK, Names
  <2>6. \A x \in gone' : ~Exists(x)'
    BY <1>0, <2>1 DEF StillGone, Exists
  <2> QED
    BY <2>3, <2>4, <2>5, <2>6 DEF ReadsInv
<1>14. CASE UNCHANGED vars
  BY <1>0, <1>14 DEF vars, callVars, ReadsInv, TypeOK, StoreTyped, RegistryTyped, CallsTyped, LocalsMatchStep, AnswerOK, InFlight, EntryOK, Names, Swept, Exists
<1> QED
  BY <1>1, <1>2, <1>3, <1>4, <1>5, <1>6, <1>7, <1>8, <1>9, <1>10, <1>11, <1>12, <1>13, <1>14 DEF Next

\* The inductive invariant holds of every reachable state.
THEOREM ReadsInvariant == Spec => []ReadsInv
<1> QED
  BY InitEstablishesReadsInv, StepKeepsReadsInv, PTL DEF Spec

\* Type correctness of cache, registry and calls.
THEOREM ReadsTyped == Spec => []TypeOK
<1>1. ReadsInv => TypeOK
  BY DEF ReadsInv
<1> QED
  BY <1>1, ReadsInvariant, PTL

\* No cached answer is older than its lifetime and one request.
THEOREM ReadsAgeBounded == Spec => []AgeBounded
<1>1. ReadsInv => AgeBounded
  <2> SUFFICES ASSUME ReadsInv, NEW k \in Keys, Live(k)
               PROVE  now < asOf[k] + Timeout + Lifetime(k)
    BY DEF AgeBounded, Lifetime
  <2>1. /\ ledger[k].value # None /\ now < ledger[k].expires
        /\ ledger[k].expires <= asOf[k] + Timeout + Lifetime(k)
    BY DEF ReadsInv, EntryOK, Live
  <2>2. /\ now \in Nat /\ asOf[k] \in Nat /\ ledger[k].expires \in Nat
        /\ Timeout \in Nat /\ Lifetime(k) \in Nat
    BY TimesAssumption DEF ReadsInv, TypeOK, StoreTyped, Lifetime
  <2> QED
    BY <2>1, <2>2
<1> QED
  BY <1>1, ReadsInvariant, PTL

\* What was deleted is only read again through an answer that raced with the
\* deletion's invalidation, or where the deletion has invalidated nothing and no
\* later one has (client.go:617-629).
THEOREM ReadsGhostsAreRaced == Spec => []GhostsAreRaced
<1>1. ReadsInv => GhostsAreRaced
  BY DEF ReadsInv, EntryOK, Live, GhostsAreRaced
<1> QED
  BY <1>1, ReadsInvariant, PTL

\* A digest answers for other content than its own only where the registry has
\* answered a read by that digest with it (client.go:682-708, 906-910).
THEOREM ReadsDigestsFaithful == Spec => []DigestsFaithful
<1>1. ReadsInv => DigestsFaithful
  BY DEF ReadsInv, EntryOK, Live, DigestsFaithful, Keys
<1> QED
  BY <1>1, ReadsInvariant, PTL
==============================================================================
