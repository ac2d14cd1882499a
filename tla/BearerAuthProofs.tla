-------------------------- MODULE BearerAuthProofs --------------------------
(***************************************************************************)
(* Proofs about BearerAuth for any number of goroutines, kinds of request, *)
(* revocations and any lifetimes.                                          *)
(***************************************************************************)
EXTENDS BearerAuth, FiniteSetTheorems, TLAPS

\* Counters of requests follow the rounds of do.
CostsFollowRounds ==
    \A p \in Procs :
        /\ pc[p] = "idle" => sends[p] = 0 /\ fetches[p] = 0
        /\ pc[p] = "token" /\ round[p] = "known" => sends[p] = 0 /\ fetches[p] = 0
        /\ pc[p] \in {"fetch", "reply"} /\ round[p] = "known" => sends[p] = 0 /\ fetches[p] <= 1
        /\ pc[p] = "send" /\ round[p] = "known" => sends[p] <= 1 /\ fetches[p] <= 1
        /\ round[p] = "bare" => sends[p] <= 2 /\ fetches[p] <= 1
        /\ pc[p] = "token" /\ round[p] = "retry" => sends[p] <= 2 /\ fetches[p] <= 1
        /\ pc[p] \in {"fetch", "reply"} /\ round[p] = "retry" => sends[p] <= 2 /\ fetches[p] <= 2
        /\ pc[p] = "send" /\ round[p] = "retry" => sends[p] <= 3 /\ fetches[p] <= 2

\* The inductive invariant.  Mutual exclusion is what keeps another goroutine
\* from storing the very token this one is asking for.
AuthInv == /\ TypeOK
           /\ IsFiniteSet(DOMAIN tokens)
           /\ IsFiniteSet(DOMAIN challenges)
           /\ SingleFlight
           /\ NoRedundantTokenRequest
           /\ CachesBounded
           /\ CostsFollowRounds

\* Nobody has called yet and nothing is cached.
LEMMA InitEstablishesAuthInv == Init => AuthInv
<1> SUFFICES ASSUME Init PROVE AuthInv
  OBVIOUS
<1>1. DOMAIN tokens = {} /\ DOMAIN challenges = {}
  BY DEF Init
<1>2. IsFiniteSet({}) /\ Cardinality({}) = 0
  BY FS_EmptySet
<1>3. TypeOK
  BY <1>1, NoneAssumption DEF Init, TypeOK, CachesTyped, CallsTyped, LocalsMatchStep, Steps, Rounds
<1>4. SingleFlight /\ NoRedundantTokenRequest /\ CostsFollowRounds
  BY NoneAssumption DEF Init, SingleFlight, NoRedundantTokenRequest, CostsFollowRounds
<1> QED
  BY <1>1, <1>2, <1>3, <1>4, BoundsAssumption DEF AuthInv, CachesBounded

-----------------------------------------------------------------------------
\* Storing under one key adds at most that key.
LEMMA OneMore ==
    ASSUME NEW S, IsFiniteSet(S), NEW k
    PROVE  IsFiniteSet(S \cup {k}) /\ Cardinality(S \cup {k}) <= Cardinality(S) + 1
<1>1. Cardinality(S) \in Nat
  BY FS_CardinalityType
<1> QED
  BY <1>1, FS_AddElement

\* pruneLocked makes room and invents nothing.
LEMMA PrunedFacts ==
    ASSUME NEW ts, IsFiniteSet(DOMAIN ts)
    PROVE  /\ DOMAIN Pruned(ts) \subseteq DOMAIN ts
           /\ IsFiniteSet(DOMAIN Pruned(ts))
           /\ Cardinality(DOMAIN Pruned(ts)) < MaxTokenEntries
           /\ \A s \in DOMAIN Pruned(ts) : Pruned(ts)[s] = ts[s]
<1> DEFINE alive == {s \in DOMAIN ts : now < ts[s].until}
<1>1. CASE Cardinality(DOMAIN ts) < MaxTokenEntries
  BY <1>1 DEF Pruned
<1>2. CASE ~(Cardinality(DOMAIN ts) < MaxTokenEntries) /\ Cardinality(alive) < MaxTokenEntries
  <2>1. Pruned(ts) = Restrict(ts, alive)
    BY <1>2 DEF Pruned
  <2> QED
    BY <1>2, <2>1, FS_Subset DEF Restrict
<1>3. CASE ~(Cardinality(DOMAIN ts) < MaxTokenEntries) /\ ~(Cardinality(alive) < MaxTokenEntries)
  <2>1. Pruned(ts) = Restrict(ts, {})
    BY <1>3 DEF Pruned
  <2> QED
    BY <2>1, FS_EmptySet, BoundsAssumption DEF Restrict
<1> QED
  BY <1>1, <1>2, <1>3

\* A step of one call that leaves caches, mutex and clock alone, and neither
\* begins nor ends a token request, keeps what the invariant says of them.
LEMMA LocalStepKeepsInv ==
    ASSUME AuthInv, UNCHANGED <<tokens, mutex, now>>, TypeOK', CostsFollowRounds',
           IsFiniteSet(DOMAIN challenges)', CachesBounded',
           \A p \in Procs : /\ pc'[p] \in {"fetch", "reply"} <=> pc[p] \in {"fetch", "reply"}
                            /\ pc'[p] \in {"fetch", "reply"} => chal'[p] = chal[p]
    PROVE  AuthInv'
<1>1. SingleFlight'
  BY DEF AuthInv, SingleFlight
<1>2. NoRedundantTokenRequest'
  BY DEF AuthInv, NoRedundantTokenRequest, Fresh
<1> QED
  BY <1>1, <1>2 DEF AuthInv

\* Sending and returning assign well-typed locals.
LEMMA SendTyped ==
    ASSUME CallsTyped, now \in Nat, NEW p \in Procs, NEW r \in Rounds,
           NEW t \in Token \cup {None}, Send(p, r, t)
    PROVE  /\ pc' \in [Procs -> Steps] /\ round' \in [Procs -> Rounds]
           /\ bearer' \in [Procs -> Token \cup {None}] /\ since' \in [Procs -> Nat]
           /\ sends' \in [Procs -> Nat]
<1>1. pc' \in [Procs -> Steps] /\ round' \in [Procs -> Rounds]
  BY DEF CallsTyped, Send, GoTo, Steps
<1>2. bearer' \in [Procs -> Token \cup {None}] /\ since' \in [Procs -> Nat]
  BY DEF CallsTyped, Send
<1>3. sends' \in [Procs -> Nat]
  BY DEF CallsTyped, Send
<1> QED
  BY <1>1, <1>2, <1>3

\* A call that returns leaves well-typed calls.
LEMMA ReturnTyped ==
    ASSUME CallsTyped, NEW p \in Procs, NEW o \in Outcomes, Return(p, o)
    PROVE  CallsTyped'
<1>1. pc' \in [Procs -> Steps] /\ round' \in [Procs -> Rounds] /\ outcome' \in [Procs -> Outcomes \cup {None}]
  BY DEF CallsTyped, Return, GoTo, Steps, Rounds
<1>2. kind' \in [Procs -> Kinds \cup {None}] /\ chal' \in [Procs -> Scopes \cup {None}]
  BY DEF CallsTyped, Return
<1>3. /\ bearer' \in [Procs -> Token \cup {None}] /\ refused' \in [Procs -> Token \cup {None}]
      /\ challenged' \in [Procs -> Scopes \cup {None}]
  BY DEF CallsTyped, Return
<1>4. since' \in [Procs -> Nat] /\ sends' \in [Procs -> Nat] /\ fetches' \in [Procs -> Nat]
  BY DEF CallsTyped, Return
<1> QED
  BY <1>1, <1>2, <1>3, <1>4 DEF CallsTyped

\* So the locals of a call that returns are those of a call not begun.
LEMMA ReturnKeepsCalls ==
    ASSUME AuthInv, NEW p \in Procs, NEW o \in Outcomes, Return(p, o)
    PROVE  CallsTyped' /\ LocalsMatchStep' /\ CostsFollowRounds'
<1>1. CallsTyped /\ LocalsMatchStep /\ CostsFollowRounds
  BY DEF AuthInv, TypeOK
<1>2. CallsTyped'
  BY <1>1, ReturnTyped
<1>3. /\ pc'[p] = "idle" /\ round'[p] = "bare" /\ kind'[p] = None /\ chal'[p] = None
      /\ bearer'[p] = None /\ sends'[p] = 0 /\ fetches'[p] = 0
  BY <1>1 DEF CallsTyped, Return, GoTo
<1>4. ASSUME NEW q \in Procs, q # p
      PROVE  /\ pc'[q] = pc[q] /\ round'[q] = round[q] /\ kind'[q] = kind[q] /\ chal'[q] = chal[q]
             /\ bearer'[q] = bearer[q] /\ sends'[q] = sends[q] /\ fetches'[q] = fetches[q]
  BY <1>1, <1>4 DEF CallsTyped, Return, GoTo
<1>5. LocalsMatchStep'
  BY <1>1, <1>3, <1>4, NoneAssumption DEF LocalsMatchStep
<1>6. CostsFollowRounds'
  BY <1>1, <1>3, <1>4 DEF CostsFollowRounds
<1> QED
  BY <1>2, <1>5, <1>6

\* A call in "send" that returns leaves the rest as it is.
LEMMA ReturnKeepsInv ==
    ASSUME AuthInv, NEW p \in Procs, NEW o \in Outcomes, pc[p] = "send", Return(p, o),
           UNCHANGED <<caches, mutex, epoch, now>>
    PROVE  AuthInv'
<1>1. TypeOK'
  BY ReturnKeepsCalls DEF AuthInv, TypeOK, CachesTyped, caches
<1>2. CachesBounded' /\ IsFiniteSet(DOMAIN challenges)'
  BY DEF AuthInv, CachesBounded, caches
<1>3. \A q \in Procs : /\ pc'[q] \in {"fetch", "reply"} <=> pc[q] \in {"fetch", "reply"}
                       /\ pc'[q] \in {"fetch", "reply"} => chal'[q] = chal[q]
  BY DEF AuthInv, TypeOK, CallsTyped, Return, GoTo
<1> QED
  BY <1>1, <1>2, <1>3, ReturnKeepsCalls, LocalStepKeepsInv DEF caches

\* Every step preserves the inductive invariant.
LEMMA StepKeepsAuthInv == AuthInv /\ [Next]_vars => AuthInv'
<1> SUFFICES ASSUME AuthInv, [Next]_vars PROVE AuthInv'
  OBVIOUS
<1> USE DEF caches, callVars
<1>0. TypeOK /\ IsFiniteSet(DOMAIN tokens) /\ IsFiniteSet(DOMAIN challenges) /\ CostsFollowRounds
  BY DEF AuthInv
<1>1. ASSUME NEW p \in Procs, NEW k \in Kinds, BeginKnown(p, k)
      PROVE  AuthInv'
  <2>1. TypeOK'
    <3>1. CachesTyped'
      BY <1>0, <1>1, NoneAssumption DEF TypeOK, CallsTyped, CachesTyped, BeginKnown, GoTo, Resources
    <3>2. CallsTyped'
      BY <1>0, <1>1, NoneAssumption
         DEF TypeOK, CallsTyped, CachesTyped, Steps, Rounds, Outcomes, BeginKnown, GoTo, Resources
    <3>3. LocalsMatchStep'
      BY <1>0, <1>1, NoneAssumption
         DEF TypeOK, CallsTyped, CachesTyped, LocalsMatchStep, BeginKnown, GoTo, Resources
    <3> QED
      BY <1>0, <1>1, NoneAssumption, <3>1, <3>2, <3>3 DEF TypeOK, CallsTyped, BeginKnown, GoTo, Resources
  <2>2. CostsFollowRounds'
    BY <1>0, <1>1, NoneAssumption DEF TypeOK, CallsTyped, LocalsMatchStep, CostsFollowRounds, BeginKnown, GoTo, Resources
  <2>3. CachesBounded' /\ IsFiniteSet(DOMAIN challenges)'
    BY <1>1 DEF AuthInv, CachesBounded, BeginKnown
  <2> QED
    BY <1>0, <1>1, <2>1, <2>2, <2>3, LocalStepKeepsInv DEF TypeOK, CallsTyped, BeginKnown, GoTo, Resources
<1>2. ASSUME NEW p \in Procs, NEW k \in Kinds, BeginBare(p, k)
      PROVE  AuthInv'
  <2>1. TypeOK'
    <3>1. CachesTyped'
      BY <1>0, <1>2, NoneAssumption DEF TypeOK, CallsTyped, CachesTyped, BeginBare, GoTo
    <3>2. CallsTyped'
      BY <1>0, <1>2, NoneAssumption
         DEF TypeOK, CallsTyped, CachesTyped, Steps, Rounds, Outcomes, BeginBare, GoTo
    <3>3. LocalsMatchStep'
      BY <1>0, <1>2, NoneAssumption
         DEF TypeOK, CallsTyped, CachesTyped, LocalsMatchStep, BeginBare, GoTo
    <3> QED
      BY <1>0, <1>2, NoneAssumption, <3>1, <3>2, <3>3 DEF TypeOK, CallsTyped, BeginBare, GoTo
  <2>2. CostsFollowRounds'
    BY <1>0, <1>2, NoneAssumption DEF TypeOK, CallsTyped, LocalsMatchStep, CostsFollowRounds, BeginBare, GoTo
  <2>3. CachesBounded' /\ IsFiniteSet(DOMAIN challenges)'
    BY <1>2 DEF AuthInv, CachesBounded, BeginBare
  <2> QED
    BY <1>0, <1>2, <2>1, <2>2, <2>3, LocalStepKeepsInv DEF TypeOK, CallsTyped, BeginBare, GoTo
<1>3. ASSUME NEW p \in Procs, TokenCached(p)
      PROVE  AuthInv'
  <2>1. TypeOK'
    <3>1. CachesTyped'
      BY <1>0, <1>3, NoneAssumption DEF TypeOK, CallsTyped, CachesTyped, TokenCached, Send, GoTo, Fresh, Cached
    <3>2. CallsTyped'
      <4>1. tokens[chal[p]].token \in Token /\ round[p] \in Rounds
        BY <1>0, <1>3 DEF TypeOK, CachesTyped, CallsTyped, TokenCached, Fresh, Cached
      <4> QED
        BY <1>0, <1>3, <4>1, SendTyped DEF TypeOK, CallsTyped, TokenCached
    <3>3. LocalsMatchStep'
      BY <1>0, <1>3, NoneAssumption
         DEF TypeOK, CallsTyped, CachesTyped, LocalsMatchStep, TokenCached, Send, GoTo, Fresh, Cached
    <3> QED
      BY <1>0, <1>3, NoneAssumption, <3>1, <3>2, <3>3 DEF TypeOK, CallsTyped, TokenCached, Send, GoTo, Fresh, Cached
  <2>2. CostsFollowRounds'
    BY <1>0, <1>3, NoneAssumption DEF TypeOK, CallsTyped, LocalsMatchStep, CostsFollowRounds, TokenCached, Send, GoTo, Fresh, Cached
  <2>3. CachesBounded' /\ IsFiniteSet(DOMAIN challenges)'
    BY <1>3 DEF AuthInv, CachesBounded, TokenCached
  <2> QED
    BY <1>0, <1>3, <2>1, <2>2, <2>3, LocalStepKeepsInv DEF TypeOK, CallsTyped, TokenCached, Send, GoTo, Fresh, Cached
<1>4. ASSUME NEW p \in Procs, Answered(p)
      PROVE  AuthInv'
  BY <1>4, ReturnKeepsInv DEF Answered, Outcomes
<1>5. ASSUME NEW p \in Procs, KnownRefused(p)
      PROVE  AuthInv'
  <2>1. TypeOK'
    <3>1. CachesTyped'
      BY <1>0, <1>5, NoneAssumption DEF TypeOK, CallsTyped, CachesTyped, KnownRefused, GoesBare, Send, GoTo
    <3>2. CallsTyped'
      <4>1. refused' \in [Procs -> Token \cup {None}] /\ chal' \in [Procs -> Scopes \cup {None}]
        BY <1>0, <1>5 DEF TypeOK, CallsTyped, KnownRefused
      <4> QED
        BY <1>0, <1>5, <4>1, SendTyped DEF TypeOK, CallsTyped, Rounds, KnownRefused
    <3>3. LocalsMatchStep'
      BY <1>0, <1>5, NoneAssumption
         DEF TypeOK, CallsTyped, CachesTyped, LocalsMatchStep, KnownRefused, GoesBare, Send, GoTo
    <3> QED
      BY <1>0, <1>5, NoneAssumption, <3>1, <3>2, <3>3 DEF TypeOK, CallsTyped, KnownRefused, GoesBare, Send, GoTo
  <2>2. CostsFollowRounds'
    BY <1>0, <1>5, NoneAssumption DEF TypeOK, CallsTyped, LocalsMatchStep, CostsFollowRounds, KnownRefused, GoesBare, Send, GoTo
  <2>3. CachesBounded' /\ IsFiniteSet(DOMAIN challenges)'
    BY <1>5 DEF AuthInv, CachesBounded, KnownRefused
  <2> QED
    BY <1>0, <1>5, <2>1, <2>2, <2>3, LocalStepKeepsInv DEF TypeOK, CallsTyped, KnownRefused, GoesBare, Send, GoTo
<1>6. ASSUME NEW p \in Procs, Unauthorized(p)
      PROVE  AuthInv'
  BY <1>6, ReturnKeepsInv DEF Unauthorized, Outcomes
<1>7. ASSUME NEW p \in Procs, SendFails(p)
      PROVE  AuthInv'
  BY <1>7, ReturnKeepsInv DEF SendFails, Outcomes
<1>8. ASSUME NEW p \in Procs, Challenged(p)
      PROVE  AuthInv'
  <2> DEFINE r == ResourceOf[kind[p]]
             s == ScopeOf[kind[p]]
             old == IF Cardinality(DOMAIN challenges) >= MaxChallengeEntries
                    THEN Restrict(challenges, {}) ELSE challenges
  <2>1. kind[p] \in Kinds /\ s \in Scopes /\ r \in Resources
    BY <1>0, <1>8 DEF TypeOK, CallsTyped, LocalsMatchStep, Challenged, Scopes, Resources
  <2>2. challenges' = Put(old, r, s)
    BY <1>8 DEF Challenged, PutChallenge
  <2>3. /\ IsFiniteSet(DOMAIN old) /\ Cardinality(DOMAIN old) < MaxChallengeEntries
        /\ DOMAIN old \subseteq DOMAIN challenges
        /\ \A x \in DOMAIN old : old[x] = challenges[x]
    <3>1. CASE Cardinality(DOMAIN challenges) >= MaxChallengeEntries
      BY <3>1, FS_EmptySet, BoundsAssumption DEF Restrict
    <3>2. CASE ~(Cardinality(DOMAIN challenges) >= MaxChallengeEntries)
      BY <1>0, <3>2, FS_CardinalityType, BoundsAssumption
    <3> QED
      BY <3>1, <3>2
  <2>4. /\ DOMAIN challenges' = DOMAIN old \cup {r}
        /\ IsFiniteSet(DOMAIN challenges')
        /\ Cardinality(DOMAIN challenges') <= MaxChallengeEntries
        /\ challenges' \in [DOMAIN challenges' -> Scopes]
    <3> HIDE DEF old
    <3>1. /\ DOMAIN Put(old, r, s) = DOMAIN old \cup {r}
          /\ IsFiniteSet(DOMAIN Put(old, r, s))
          /\ Cardinality(DOMAIN Put(old, r, s)) <= MaxChallengeEntries
      <4>1. /\ DOMAIN Put(old, r, s) = DOMAIN old \cup {r}
            /\ IsFiniteSet(DOMAIN Put(old, r, s))
            /\ Cardinality(DOMAIN Put(old, r, s)) <= Cardinality(DOMAIN old) + 1
        <5>1. DOMAIN Put(old, r, s) = DOMAIN old \cup {r}
          BY DEF Put
        <5>2. /\ IsFiniteSet(DOMAIN old \cup {r})
              /\ Cardinality(DOMAIN old \cup {r}) <= Cardinality(DOMAIN old) + 1
          <6> HIDE DEF r
          <6> QED
            BY <2>3, OneMore
        <5> QED
          BY <5>1, <5>2
      <4>2. Cardinality(DOMAIN Put(old, r, s)) \in Nat /\ Cardinality(DOMAIN old) \in Nat
        BY <2>3, <4>1, FS_CardinalityType
      <4> QED
        BY <2>3, <4>1, <4>2, BoundsAssumption
    <3>2. challenges' \in [DOMAIN challenges' -> Scopes]
      BY <1>0, <2>1, <2>2, <2>3, <3>1 DEF TypeOK, CachesTyped, Put
    <3> QED
      BY <2>2, <3>1, <3>2
  <2>5. TypeOK'
    <3>1. CachesTyped'
      BY <1>0, <1>8, <2>1, <2>3, <2>4, NoneAssumption DEF TypeOK, CallsTyped, CachesTyped, Challenged, GoTo
    <3>2. CallsTyped'
      BY <1>0, <1>8, <2>1, <2>3, <2>4, NoneAssumption
         DEF TypeOK, CallsTyped, CachesTyped, Steps, Rounds, Outcomes, Challenged, GoTo
    <3>3. LocalsMatchStep'
      BY <1>0, <1>8, <2>1, <2>3, <2>4, NoneAssumption
         DEF TypeOK, CallsTyped, CachesTyped, LocalsMatchStep, Challenged, GoTo
    <3> QED
      BY <1>0, <1>8, <2>1, <2>3, <2>4, NoneAssumption, <3>1, <3>2, <3>3 DEF TypeOK, CallsTyped, Challenged, GoTo
  <2>6. CostsFollowRounds'
    BY <1>0, <1>8, NoneAssumption DEF TypeOK, CallsTyped, LocalsMatchStep, CostsFollowRounds, Challenged, GoTo
  <2>7. CachesBounded' /\ IsFiniteSet(DOMAIN challenges)'
    BY <1>8, <2>4 DEF AuthInv, CachesBounded, Challenged
  <2> QED
    BY <1>0, <1>8, <2>5, <2>6, <2>7, LocalStepKeepsInv DEF TypeOK, CallsTyped, Challenged, GoTo
<1>9. ASSUME NEW p \in Procs, TokenMissing(p)
      PROVE  AuthInv'
  <2>1. TypeOK'
    <3>1. CachesTyped'
      BY <1>0, <1>9, NoneAssumption DEF TypeOK, CallsTyped, CachesTyped, TokenMissing, GoTo
    <3>2. CallsTyped'
      <4>1. since' \in [Procs -> Nat] /\ fetches' \in [Procs -> Nat]
        BY <1>0, <1>9 DEF TypeOK, CallsTyped, TokenMissing
      <4>2. pc' \in [Procs -> Steps] /\ round' \in [Procs -> Rounds]
        BY <1>0, <1>9 DEF TypeOK, CallsTyped, Steps, TokenMissing, GoTo
      <4> QED
        BY <1>0, <1>9, <4>1, <4>2 DEF TypeOK, CallsTyped, TokenMissing
    <3>3. LocalsMatchStep'
      BY <1>0, <1>9, NoneAssumption
         DEF TypeOK, CallsTyped, CachesTyped, LocalsMatchStep, TokenMissing, GoTo
    <3> QED
      BY <1>0, <1>9, NoneAssumption, <3>1, <3>2, <3>3 DEF TypeOK, CallsTyped, TokenMissing, GoTo
  <2>2. CostsFollowRounds'
    BY <1>0, <1>9, NoneAssumption DEF TypeOK, CallsTyped, LocalsMatchStep, CostsFollowRounds, TokenMissing, GoTo
  <2>3. SingleFlight'
    BY <1>0, <1>9, NoneAssumption DEF AuthInv, TypeOK, CallsTyped, SingleFlight, TokenMissing, GoTo
  <2>4. NoRedundantTokenRequest'
    BY <1>0, <1>9 DEF AuthInv, TypeOK, CallsTyped, NoRedundantTokenRequest, Fresh, TokenMissing, MustFetch, GoTo
  <2> QED
    BY <1>9, <2>1, <2>2, <2>3, <2>4 DEF AuthInv, CachesBounded, TokenMissing
<1>10. ASSUME NEW p \in Procs, NEW life \in Lifetimes, NEW stated \in Stated(life), ServiceIssues(p, life, stated)
      PROVE  AuthInv'
  <2>1. TypeOK'
    <3>1. CachesTyped'
      BY <1>0, <1>10, NoneAssumption, TimesAssumption DEF TypeOK, CallsTyped, CachesTyped, ServiceIssues, GoTo, Token
    <3>2. CallsTyped'
      <4>1. pc' \in [Procs -> Steps] /\ round' \in [Procs -> Rounds]
        BY <1>0, <1>10 DEF TypeOK, CallsTyped, Steps, ServiceIssues, GoTo
      <4>2. /\ chal[p] \in Scopes /\ now \in Nat /\ now + life \in Nat /\ epoch \in Nat
            /\ stated \in Nat
        BY <1>0, <1>10, TimesAssumption DEF TypeOK, CallsTyped, LocalsMatchStep, ServiceIssues, Stated
      <4>3. bearer' \in [Procs -> Token \cup {None}]
        BY <1>0, <1>10, <4>2 DEF TypeOK, CallsTyped, ServiceIssues, Token
      <4> QED
        BY <1>0, <1>10, <4>1, <4>3 DEF TypeOK, CallsTyped, ServiceIssues
    <3>3. LocalsMatchStep'
      <4> DEFINE t == [scope |-> chal[p], stated |-> stated, issued |-> now,
                       expires |-> now + life, epoch |-> epoch]
      <4>1. t # None
        <5>1. /\ chal[p] \in Scopes /\ now \in Nat /\ now + life \in Nat /\ epoch \in Nat
              /\ stated \in Nat
          BY <1>0, <1>10, TimesAssumption DEF TypeOK, CallsTyped, LocalsMatchStep, ServiceIssues, Stated
        <5>2. t \in Token
          BY <5>1 DEF Token
        <5> QED
          BY <5>2, NoneAssumption
      <4>2. bearer' = [bearer EXCEPT ![p] = t]
        BY <1>10 DEF ServiceIssues
      <4> HIDE DEF t
      <4> QED
        BY <1>0, <1>10, <4>1, <4>2 DEF TypeOK, CallsTyped, LocalsMatchStep, ServiceIssues, GoTo
    <3> QED
      BY <1>0, <1>10, NoneAssumption, TimesAssumption, <3>1, <3>2, <3>3 DEF TypeOK, CallsTyped, ServiceIssues, GoTo, Token
  <2>2. CostsFollowRounds'
    BY <1>0, <1>10, NoneAssumption DEF TypeOK, CallsTyped, LocalsMatchStep, CostsFollowRounds, ServiceIssues, GoTo
  <2>3. CachesBounded' /\ IsFiniteSet(DOMAIN challenges)'
    BY <1>10 DEF AuthInv, CachesBounded, ServiceIssues
  <2> QED
    BY <1>0, <1>10, <2>1, <2>2, <2>3, LocalStepKeepsInv DEF TypeOK, CallsTyped, ServiceIssues, GoTo
<1>11. ASSUME NEW p \in Procs, NEW issuedAt \in BOOLEAN, TokenArrives(p, issuedAt)
      PROVE  AuthInv'
  <2> DEFINE until == Deadline(bearer[p], issuedAt)
             entry == [token |-> bearer[p], until |-> until]
  <2>1. bearer[p] \in Token /\ chal[p] \in Scopes /\ until \in Int /\ mutex = p
    BY <1>0, <1>11, TimesAssumption
       DEF AuthInv, TypeOK, CallsTyped, LocalsMatchStep, SingleFlight, TokenArrives, Deadline, LifetimeOf, Token
  <2>2. /\ DOMAIN tokens' \subseteq DOMAIN tokens \cup {chal[p]}
        /\ IsFiniteSet(DOMAIN tokens')
        /\ Cardinality(DOMAIN tokens') <= MaxTokenEntries
        /\ tokens' \in [DOMAIN tokens' -> Cached]
    <3>1. CASE until > now
      <4>1. tokens' = Put(Pruned(tokens), chal[p], entry)
        BY <1>11, <3>1 DEF TokenArrives
      <4>2. /\ DOMAIN Pruned(tokens) \subseteq DOMAIN tokens
            /\ IsFiniteSet(DOMAIN Pruned(tokens))
            /\ Cardinality(DOMAIN Pruned(tokens)) < MaxTokenEntries
            /\ \A s \in DOMAIN Pruned(tokens) : Pruned(tokens)[s] = tokens[s]
        BY <1>0, PrunedFacts
      <4>3. /\ DOMAIN Put(Pruned(tokens), chal[p], entry) = DOMAIN Pruned(tokens) \cup {chal[p]}
            /\ IsFiniteSet(DOMAIN Put(Pruned(tokens), chal[p], entry))
            /\ Cardinality(DOMAIN Put(Pruned(tokens), chal[p], entry)) <= MaxTokenEntries
        <5> DEFINE g == Put(Pruned(tokens), chal[p], entry)
        <5>1. /\ DOMAIN g = DOMAIN Pruned(tokens) \cup {chal[p]}
              /\ IsFiniteSet(DOMAIN g)
              /\ Cardinality(DOMAIN g) <= Cardinality(DOMAIN Pruned(tokens)) + 1
          <6>1. DOMAIN g = DOMAIN Pruned(tokens) \cup {chal[p]}
            BY DEF Put
          <6>2. /\ IsFiniteSet(DOMAIN Pruned(tokens) \cup {chal[p]})
                /\ Cardinality(DOMAIN Pruned(tokens) \cup {chal[p]})
                     <= Cardinality(DOMAIN Pruned(tokens)) + 1
            BY <4>2, OneMore
          <6> QED
            BY <6>1, <6>2
        <5>2. Cardinality(DOMAIN g) \in Nat /\ Cardinality(DOMAIN Pruned(tokens)) \in Nat
          BY <4>2, <5>1, FS_CardinalityType
        <5> QED
          BY <4>2, <5>1, <5>2, BoundsAssumption
      <4>4. entry \in Cached
        BY <2>1 DEF Cached
      <4>5. tokens' \in [DOMAIN tokens' -> Cached]
        BY <1>0, <4>1, <4>2, <4>3, <4>4 DEF TypeOK, CachesTyped, Put
      <4> QED
        BY <4>1, <4>2, <4>3, <4>5
    <3>2. CASE ~(until > now)
      <4>1. tokens' = tokens
        BY <1>11, <3>2 DEF TokenArrives
      <4> QED
        BY <1>0, <4>1 DEF AuthInv, TypeOK, CachesTyped, CachesBounded
    <3> QED
      BY <3>1, <3>2
  <2>3. TypeOK'
    <3>1. CachesTyped'
      BY <1>0, <1>11, <2>1, <2>2, NoneAssumption DEF TypeOK, CallsTyped, CachesTyped, TokenArrives, Unlock, Send, GoTo
    <3>2. CallsTyped'
      BY <1>0, <1>11, <2>1, SendTyped DEF TypeOK, CallsTyped, TokenArrives
    <3>3. LocalsMatchStep'
      BY <1>0, <1>11, <2>1, <2>2, NoneAssumption
         DEF TypeOK, CallsTyped, CachesTyped, LocalsMatchStep, TokenArrives, Unlock, Send, GoTo
    <3> QED
      BY <1>0, <1>11, <2>1, <2>2, NoneAssumption, <3>1, <3>2, <3>3 DEF TypeOK, CallsTyped, TokenArrives, Unlock, Send, GoTo
  <2>4. CostsFollowRounds'
    BY <1>0, <1>11, NoneAssumption DEF TypeOK, CallsTyped, LocalsMatchStep, CostsFollowRounds, TokenArrives, Send, GoTo
  <2>5. \A q \in Procs : pc'[q] \notin {"fetch", "reply"}
    BY <1>0, <1>11, <2>1 DEF AuthInv, TypeOK, CallsTyped, SingleFlight, TokenArrives, Send, GoTo
  <2>6. SingleFlight' /\ NoRedundantTokenRequest'
    BY <1>11, <2>5, NoneAssumption DEF SingleFlight, NoRedundantTokenRequest, TokenArrives, Unlock
  <2>7. CachesBounded'
    BY <1>11, <2>2 DEF AuthInv, CachesBounded, TokenArrives
  <2> QED
    BY <1>0, <1>11, <2>2, <2>3, <2>4, <2>6, <2>7 DEF AuthInv, TokenArrives
<1>12. ASSUME NEW p \in Procs, TokenFails(p)
      PROVE  AuthInv'
  <2>0. mutex = p
    BY <1>12 DEF AuthInv, SingleFlight, TokenFails
  <2>1. CallsTyped' /\ LocalsMatchStep' /\ CostsFollowRounds'
    <3>1. CASE round[p] = "known" /\ Send(p, "bare", None)
               /\ chal' = [chal EXCEPT ![p] = None] /\ UNCHANGED <<kind, outcome, refused, challenged, fetches>>
      <4>1. chal' \in [Procs -> Scopes \cup {None}]
        BY <1>0, <3>1 DEF TypeOK, CallsTyped
      <4>2. CallsTyped'
        BY <1>0, <3>1, <4>1, SendTyped DEF TypeOK, CallsTyped, Rounds
      <4>3. LocalsMatchStep'
        BY <1>0, <1>12, <3>1, NoneAssumption DEF TypeOK, CallsTyped, LocalsMatchStep, TokenFails, Send, GoTo
      <4>4. CostsFollowRounds'
        BY <1>0, <1>12, <3>1 DEF TypeOK, CallsTyped, CostsFollowRounds, TokenFails, Send, GoTo
      <4> QED
        BY <4>2, <4>3, <4>4
    <3>2. CASE Return(p, "token error")
      BY <3>2, ReturnKeepsCalls DEF Outcomes
    <3> QED
      BY <1>12, <3>1, <3>2 DEF TokenFails
  <2>2. TypeOK' /\ CostsFollowRounds'
    BY <1>0, <1>12, <2>1, NoneAssumption DEF TypeOK, CachesTyped, TokenFails, Unlock
  <2>3. \A q \in Procs : pc'[q] \notin {"fetch", "reply"}
    BY <1>0, <1>12, <2>0 DEF AuthInv, TypeOK, CallsTyped, SingleFlight, TokenFails, Send, Return, GoTo
  <2>4. SingleFlight' /\ NoRedundantTokenRequest'
    BY <1>12, <2>3, NoneAssumption DEF SingleFlight, NoRedundantTokenRequest, TokenFails, Unlock
  <2> QED
    BY <1>12, <2>2, <2>4 DEF AuthInv, CachesBounded, TokenFails
<1>13. CASE Revoke
  <2>1. TypeOK' /\ CostsFollowRounds'
    BY <1>0, <1>13 DEF Revoke, TypeOK, CachesTyped, CallsTyped, LocalsMatchStep, CostsFollowRounds
  <2>2. CachesBounded' /\ IsFiniteSet(DOMAIN challenges)'
    BY <1>13 DEF AuthInv, CachesBounded, Revoke
  <2> QED
    BY <1>13, <2>1, <2>2, LocalStepKeepsInv DEF Revoke
<1>14. CASE TimePasses
  <2>1. TypeOK' /\ CostsFollowRounds'
    BY <1>0, <1>14 DEF TimePasses, TypeOK, CachesTyped, CallsTyped, LocalsMatchStep, CostsFollowRounds
  <2>2. \A s \in DOMAIN tokens : Fresh(s)' => Fresh(s)
    BY <1>0, <1>14 DEF TimePasses, TypeOK, CachesTyped, Fresh, Cached
  <2>3. NoRedundantTokenRequest'
    BY <1>14, <2>2 DEF AuthInv, NoRedundantTokenRequest, TimePasses, Fresh
  <2>4. SingleFlight' /\ CachesBounded'
    BY <1>14 DEF AuthInv, SingleFlight, CachesBounded, TimePasses
  <2> QED
    BY <1>14, <2>1, <2>3, <2>4 DEF AuthInv, TimePasses
<1>15. CASE UNCHANGED vars
  BY <1>15 DEF vars, AuthInv, TypeOK, CachesTyped, CallsTyped, LocalsMatchStep, SingleFlight, NoRedundantTokenRequest, Fresh,
       CachesBounded, CostsFollowRounds
<1> QED
  BY <1>1, <1>2, <1>3, <1>4, <1>5, <1>6, <1>7, <1>8, <1>9, <1>10, <1>11, <1>12, <1>13,
     <1>14, <1>15 DEF Next, Begin, Proceed

\* The inductive invariant holds of every reachable state.
THEOREM AuthInvariant == Spec => []AuthInv
<1> QED
  BY InitEstablishesAuthInv, StepKeepsAuthInv, PTL DEF Spec

\* Type correctness of the calls and the caches.
THEOREM AuthTyped == Spec => []TypeOK
<1>1. AuthInv => TypeOK
  BY DEF AuthInv
<1> QED
  BY <1>1, AuthInvariant, PTL

\* One token request at a time, made by the holder of the mutex.
THEOREM AuthSingleFlight == Spec => []SingleFlight
<1>1. AuthInv => SingleFlight
  BY DEF AuthInv
<1> QED
  BY <1>1, AuthInvariant, PTL

\* No token request for a challenge that a fresh cached token answers.
THEOREM AuthNoRedundantTokenRequest == Spec => []NoRedundantTokenRequest
<1>1. AuthInv => NoRedundantTokenRequest
  BY DEF AuthInv
<1> QED
  BY <1>1, AuthInvariant, PTL

\* Both caches keep to their limits.
THEOREM AuthCachesBounded == Spec => []CachesBounded
<1>1. AuthInv => CachesBounded
  BY DEF AuthInv
<1> QED
  BY <1>1, AuthInvariant, PTL

\* Three requests and two token requests are the most a call costs.
THEOREM AuthEffortBounded == Spec => []EffortBounded
<1>1. AuthInv => EffortBounded
  BY DEF AuthInv, TypeOK, CallsTyped, Steps, Rounds, CostsFollowRounds, EffortBounded
<1> QED
  BY <1>1, AuthInvariant, PTL

-----------------------------------------------------------------------------
\* A token on its way was issued since its request started, which is no longer
\* ago than one timeout; a cached one is given up soon enough after its end.
TokenTimes ==
    /\ \A p \in Procs :
          /\ since[p] <= now
          /\ pc[p] \in {"fetch", "reply"} => now <= since[p] + Timeout
          /\ pc[p] = "reply" => /\ since[p] <= bearer[p].issued
                                /\ bearer[p].issued + LifetimeOf(bearer[p]) = End(bearer[p])
    /\ \A s \in DOMAIN tokens : tokens[s].until <= End(tokens[s].token) + Timeout - Margin

\* A local step of one call that keeps now and tokens keeps TokenTimes if it
\* keeps it for the call.
LEMMA LocalStepKeepsTimes ==
    ASSUME TokenTimes, UNCHANGED <<tokens, now>>, NEW p \in Procs,
           \A q \in Procs \ {p} : pc'[q] = pc[q] /\ since'[q] = since[q] /\ bearer'[q] = bearer[q],
           since'[p] <= now,
           pc'[p] \in {"fetch", "reply"} => now <= since'[p] + Timeout,
           pc'[p] = "reply" => /\ since'[p] <= bearer'[p].issued
                               /\ bearer'[p].issued + LifetimeOf(bearer'[p]) = End(bearer'[p])
    PROVE  TokenTimes'
BY DEF TokenTimes, End, LifetimeOf

\* Every step keeps TokenTimes, however timeout and margin compare.
LEMMA StepKeepsTokenTimes ==
    ASSUME AuthInv, TokenTimes, [Next]_vars
    PROVE  TokenTimes'
<1> USE DEF caches, callVars
<1>0. CallsTyped /\ LocalsMatchStep /\ now \in Nat /\ Timeout \in Nat /\ Margin \in Nat
  BY TimesAssumption DEF AuthInv, TypeOK
<1>1. ASSUME NEW p \in Procs, NEW o \in Outcomes, Return(p, o), UNCHANGED <<tokens, now>>
      PROVE  TokenTimes'
  <2>1. \A q \in Procs \ {p} : pc'[q] = pc[q] /\ since'[q] = since[q] /\ bearer'[q] = bearer[q]
    BY <1>0, <1>1 DEF CallsTyped, Return, GoTo
  <2>2. pc'[p] = "idle" /\ since'[p] = 0
    BY <1>0, <1>1 DEF CallsTyped, Return, GoTo
  <2> QED
    BY <1>0, <1>1, <2>1, <2>2, LocalStepKeepsTimes
<1>2. ASSUME NEW p \in Procs, NEW r, NEW t, Send(p, r, t), UNCHANGED <<tokens, now>>
      PROVE  TokenTimes'
  <2>1. \A q \in Procs \ {p} : pc'[q] = pc[q] /\ since'[q] = since[q] /\ bearer'[q] = bearer[q]
    BY <1>0, <1>2 DEF CallsTyped, Send, GoTo
  <2>2. pc'[p] = "send" /\ since'[p] = now
    BY <1>0, <1>2 DEF CallsTyped, Send, GoTo
  <2> QED
    BY <1>0, <1>2, <2>1, <2>2, LocalStepKeepsTimes
<1>3. ASSUME NEW p \in Procs, NEW k \in Kinds, BeginKnown(p, k) \/ BeginBare(p, k)
      PROVE  TokenTimes'
  <2>1. \A q \in Procs \ {p} : pc'[q] = pc[q] /\ since'[q] = since[q] /\ bearer'[q] = bearer[q]
    BY <1>0, <1>3 DEF CallsTyped, BeginKnown, BeginBare, GoTo
  <2>2. pc'[p] \in {"token", "send"} /\ since'[p] \in {since[p], now}
    BY <1>0, <1>3 DEF CallsTyped, BeginKnown, BeginBare, GoTo
  <2>3. since'[p] <= now
    BY <1>0, <2>2 DEF TokenTimes, CallsTyped
  <2> QED
    BY <1>0, <1>3, <2>1, <2>2, <2>3, LocalStepKeepsTimes DEF BeginKnown, BeginBare
<1>4. ASSUME NEW p \in Procs, TokenMissing(p) \/ Challenged(p)
      PROVE  TokenTimes'
  <2>1. \A q \in Procs \ {p} : pc'[q] = pc[q] /\ since'[q] = since[q] /\ bearer'[q] = bearer[q]
    BY <1>0, <1>4 DEF CallsTyped, TokenMissing, Challenged, GoTo
  <2>2. (pc'[p] = "fetch" /\ since'[p] = now) \/ (pc'[p] = "token" /\ since'[p] = 0)
    BY <1>0, <1>4 DEF CallsTyped, TokenMissing, Challenged, GoTo
  <2> QED
    BY <1>0, <1>4, <2>1, <2>2, LocalStepKeepsTimes DEF TokenMissing, Challenged
<1>5. ASSUME NEW p \in Procs, NEW life \in Lifetimes, NEW stated \in Stated(life), ServiceIssues(p, life, stated)
      PROVE  TokenTimes'
  <2>1. \A q \in Procs \ {p} : pc'[q] = pc[q] /\ since'[q] = since[q] /\ bearer'[q] = bearer[q]
    BY <1>0, <1>5 DEF CallsTyped, ServiceIssues, GoTo
  <2>2. /\ pc'[p] = "reply" /\ since'[p] = since[p]
        /\ bearer'[p].stated = stated /\ bearer'[p].issued = now /\ bearer'[p].expires = now + life
    BY <1>0, <1>5 DEF CallsTyped, ServiceIssues, GoTo
  <2>3. pc[p] = "fetch" /\ since[p] \in Nat /\ since[p] <= now /\ now <= since[p] + Timeout
    BY <1>0, <1>5 DEF CallsTyped, ServiceIssues, TokenTimes
  <2>4. life \in Nat /\ stated \in {life, 0} /\ DefaultLifetime \in Nat
    BY TimesAssumption DEF Stated
  <2>5. bearer'[p].issued + LifetimeOf(bearer'[p]) = End(bearer'[p])
    <3>1. CASE stated = 0
      BY <2>2, <3>1 DEF LifetimeOf, End
    <3>2. CASE stated # 0
      BY <1>0, <2>2, <2>4, <3>2 DEF LifetimeOf, End
    <3> QED
      BY <3>1, <3>2
  <2> QED
    BY <1>0, <1>5, <2>1, <2>2, <2>3, <2>5, LocalStepKeepsTimes DEF ServiceIssues
<1>6. ASSUME NEW p \in Procs, NEW issuedAt \in BOOLEAN, TokenArrives(p, issuedAt)
      PROVE  TokenTimes'
  <2> DEFINE until == Deadline(bearer[p], issuedAt)
             entry == [token |-> bearer[p], until |-> until]
  <2>1. /\ bearer[p] \in Token /\ since[p] \in Nat
        /\ now <= since[p] + Timeout /\ since[p] <= bearer[p].issued
        /\ bearer[p].issued + LifetimeOf(bearer[p]) = End(bearer[p])
    BY <1>0, <1>6 DEF CallsTyped, LocalsMatchStep, TokenTimes, TokenArrives
  <2>2. until <= End(bearer[p]) + Timeout - Margin
    <3>1. bearer[p].issued \in Nat /\ LifetimeOf(bearer[p]) \in Nat
      BY <2>1, TimesAssumption DEF Token, LifetimeOf
    <3>2. until = (IF issuedAt THEN bearer[p].issued ELSE now) + LifetimeOf(bearer[p]) - Margin
      BY DEF Deadline
    <3> QED
      BY <1>0, <2>1, <3>1, <3>2
  <2>3. \A s \in DOMAIN tokens' : tokens'[s].until <= End(tokens'[s].token) + Timeout - Margin
    <3>1. CASE until > now
      <4>1. tokens' = Put(Pruned(tokens), chal[p], entry)
        BY <1>6, <3>1 DEF TokenArrives
      <4>2. /\ DOMAIN Pruned(tokens) \subseteq DOMAIN tokens
            /\ \A s \in DOMAIN Pruned(tokens) : Pruned(tokens)[s] = tokens[s]
        BY PrunedFacts DEF AuthInv
      <4> QED
        BY <2>2, <4>1, <4>2 DEF Put, TokenTimes
    <3>2. CASE ~(until > now)
      BY <1>6, <3>2 DEF TokenArrives, TokenTimes
    <3> QED
      BY <3>1, <3>2
  <2>4. \A q \in Procs \ {p} : pc'[q] = pc[q] /\ since'[q] = since[q] /\ bearer'[q] = bearer[q]
    BY <1>0, <1>6 DEF CallsTyped, TokenArrives, Send, GoTo
  <2>5. pc'[p] = "send" /\ since'[p] = now /\ now' = now
    BY <1>0, <1>6 DEF CallsTyped, TokenArrives, Send, GoTo
  <2> QED
    BY <1>0, <2>3, <2>4, <2>5 DEF TokenTimes
<1>7. CASE TimePasses
  <2>1. ASSUME NEW p \in Procs
        PROVE  /\ since'[p] <= now'
               /\ pc'[p] \in {"fetch", "reply"} => now' <= since'[p] + Timeout
    BY <1>0, <1>7 DEF CallsTyped, TokenTimes, TimePasses
  <2> QED
    BY <1>7, <2>1 DEF TokenTimes, TimePasses
<1>8. CASE Revoke \/ UNCHANGED vars
  BY <1>8 DEF TokenTimes, Revoke, vars
<1>9. ASSUME NEW p \in Procs, Answered(p) \/ Unauthorized(p) \/ SendFails(p)
      PROVE  TokenTimes'
  BY <1>1, <1>9 DEF Answered, Unauthorized, SendFails, Outcomes
<1>10. ASSUME NEW p \in Procs, TokenCached(p) \/ KnownRefused(p)
      PROVE  TokenTimes'
  BY <1>2, <1>10 DEF TokenCached, KnownRefused
<1>11. ASSUME NEW p \in Procs, TokenFails(p)
      PROVE  TokenTimes'
  BY <1>1, <1>2, <1>11 DEF TokenFails, Outcomes
<1> QED
  BY <1>3, <1>4, <1>5, <1>6, <1>7, <1>8, <1>9, <1>10, <1>11 DEF Next, Begin, Proceed

\* However late the answers of the token service, a token is given up no longer
\* after its end than the timeout exceeds the margin, for every timeout, margin
\* and lifetime (auth.go:19-24, 221-231, 345-359; client.go:28).
THEOREM AuthOverrunBounded == Spec => []OverrunBounded
<1>1. Init => TokenTimes
  BY DEF Init, TokenTimes
<1>2. AuthInv /\ TokenTimes /\ [Next]_vars => TokenTimes'
  BY StepKeepsTokenTimes
<1>3. AuthInv /\ TokenTimes => OverrunBounded
  <2> SUFFICES ASSUME AuthInv, TokenTimes, NEW s \in DOMAIN tokens, now < tokens[s].until
               PROVE  now < End(tokens[s].token) + Timeout - Margin
    BY DEF OverrunBounded, Fresh
  <2>1. now \in Nat /\ tokens[s] \in Cached
    BY DEF AuthInv, TypeOK, CachesTyped
  <2>2. tokens[s].until \in Int /\ End(tokens[s].token) \in Nat
    BY <2>1, TimesAssumption DEF Cached, Token, End
  <2>3. tokens[s].until <= End(tokens[s].token) + Timeout - Margin
    BY DEF TokenTimes
  <2> QED
    BY <2>1, <2>2, <2>3, TimesAssumption
<1> QED
  BY <1>1, <1>2, <1>3, AuthInvariant, PTL DEF Spec

-----------------------------------------------------------------------------
(* What a call that is refused has done.                                   *)

\* A token is for the scope it is filed under, or was asked for; and a retry
\* asks for what the registry wants of this very request.
ScopesMatch ==
    /\ \A s \in DOMAIN tokens : tokens[s].token.scope = s
    /\ \A p \in Procs :
          /\ pc[p] = "reply" => bearer[p].scope = chal[p]
          /\ round[p] = "retry" => /\ chal[p] = ScopeOf[kind[p]] /\ Policy[kind[p]] = "bearer"
                                    /\ challenged[p] = chal[p]
          /\ round[p] = "retry" /\ pc[p] = "send" => bearer[p].scope = chal[p]

\* A step of one call that keeps the cached tokens keeps ScopesMatch if it
\* keeps it for the call.
LEMMA LocalStepKeepsScopes ==
    ASSUME ScopesMatch, UNCHANGED tokens, NEW p \in Procs,
           \A q \in Procs \ {p} : /\ pc'[q] = pc[q] /\ round'[q] = round[q] /\ kind'[q] = kind[q]
                                  /\ chal'[q] = chal[q] /\ bearer'[q] = bearer[q]
                                  /\ challenged'[q] = challenged[q],
           pc'[p] = "reply" => bearer'[p].scope = chal'[p],
           round'[p] = "retry" => /\ chal'[p] = ScopeOf[kind'[p]] /\ Policy[kind'[p]] = "bearer"
                                  /\ challenged'[p] = chal'[p],
           round'[p] = "retry" /\ pc'[p] = "send" => bearer'[p].scope = chal'[p]
    PROVE  ScopesMatch'
BY DEF ScopesMatch

\* A step keeps every token beside the scope it was asked for.
LEMMA StepKeepsScopes == AuthInv /\ ScopesMatch /\ [Next]_vars => ScopesMatch'
<1> SUFFICES ASSUME AuthInv, ScopesMatch, [Next]_vars PROVE ScopesMatch'
  OBVIOUS
<1> USE DEF caches, callVars
<1>0. CallsTyped /\ CachesTyped /\ LocalsMatchStep
  BY DEF AuthInv, TypeOK
<1>1. ASSUME NEW p \in Procs, NEW o \in Outcomes, Return(p, o), UNCHANGED tokens
      PROVE  ScopesMatch'
  <2>1. \A q \in Procs \ {p} : /\ pc'[q] = pc[q] /\ round'[q] = round[q] /\ kind'[q] = kind[q]
                               /\ chal'[q] = chal[q] /\ bearer'[q] = bearer[q]
                               /\ challenged'[q] = challenged[q]
    BY <1>0, <1>1 DEF CallsTyped, Return, GoTo
  <2>2. pc'[p] = "idle" /\ round'[p] = "bare"
    BY <1>0, <1>1 DEF CallsTyped, Return, GoTo
  <2> QED
    BY <1>1, <2>1, <2>2, LocalStepKeepsScopes
<1>2. ASSUME NEW p \in Procs, NEW k \in Kinds, BeginKnown(p, k) \/ BeginBare(p, k)
      PROVE  ScopesMatch'
  <2>1. \A q \in Procs \ {p} : /\ pc'[q] = pc[q] /\ round'[q] = round[q] /\ kind'[q] = kind[q]
                               /\ chal'[q] = chal[q] /\ bearer'[q] = bearer[q]
                               /\ challenged'[q] = challenged[q]
    BY <1>0, <1>2 DEF CallsTyped, BeginKnown, BeginBare, GoTo
  <2>2. pc'[p] \in {"token", "send"} /\ round'[p] \in {"known", "bare"}
    BY <1>0, <1>2 DEF CallsTyped, BeginKnown, BeginBare, GoTo
  <2> QED
    BY <1>2, <2>1, <2>2, LocalStepKeepsScopes DEF BeginKnown, BeginBare
<1>3. ASSUME NEW p \in Procs, TokenCached(p)
      PROVE  ScopesMatch'
  <2>1. \A q \in Procs \ {p} : /\ pc'[q] = pc[q] /\ round'[q] = round[q] /\ kind'[q] = kind[q]
                               /\ chal'[q] = chal[q] /\ bearer'[q] = bearer[q]
                               /\ challenged'[q] = challenged[q]
    BY <1>0, <1>3 DEF CallsTyped, TokenCached, Send, GoTo
  <2>2. /\ pc'[p] = "send" /\ round'[p] = round[p] /\ kind'[p] = kind[p] /\ chal'[p] = chal[p] /\ challenged'[p] = challenged[p]
        /\ bearer'[p] = tokens[chal[p]].token /\ chal[p] \in DOMAIN tokens
    BY <1>0, <1>3 DEF CallsTyped, TokenCached, Send, GoTo, Fresh
  <2>3. bearer'[p].scope = chal'[p]
    BY <2>2 DEF ScopesMatch
  <2>4. round'[p] = "retry" => /\ chal'[p] = ScopeOf[kind'[p]] /\ Policy[kind'[p]] = "bearer"
                             /\ challenged'[p] = chal'[p]
    BY <2>2 DEF ScopesMatch
  <2> QED
    BY <1>3, <2>1, <2>2, <2>3, <2>4, LocalStepKeepsScopes DEF TokenCached
<1>4. ASSUME NEW p \in Procs, TokenMissing(p)
      PROVE  ScopesMatch'
  <2>1. \A q \in Procs \ {p} : /\ pc'[q] = pc[q] /\ round'[q] = round[q] /\ kind'[q] = kind[q]
                               /\ chal'[q] = chal[q] /\ bearer'[q] = bearer[q]
                               /\ challenged'[q] = challenged[q]
    BY <1>0, <1>4 DEF CallsTyped, TokenMissing, GoTo
  <2>2. /\ pc'[p] = "fetch" /\ round'[p] = round[p] /\ kind'[p] = kind[p] /\ chal'[p] = chal[p] /\ challenged'[p] = challenged[p]
    BY <1>0, <1>4 DEF CallsTyped, TokenMissing, GoTo
  <2>3. round'[p] = "retry" => /\ chal'[p] = ScopeOf[kind'[p]] /\ Policy[kind'[p]] = "bearer"
                             /\ challenged'[p] = chal'[p]
    BY <2>2 DEF ScopesMatch
  <2> QED
    BY <1>4, <2>1, <2>2, <2>3, LocalStepKeepsScopes DEF TokenMissing
<1>5. ASSUME NEW p \in Procs, NEW life \in Lifetimes, NEW stated \in Stated(life), ServiceIssues(p, life, stated)
      PROVE  ScopesMatch'
  <2>1. \A q \in Procs \ {p} : /\ pc'[q] = pc[q] /\ round'[q] = round[q] /\ kind'[q] = kind[q]
                               /\ chal'[q] = chal[q] /\ bearer'[q] = bearer[q]
                               /\ challenged'[q] = challenged[q]
    BY <1>0, <1>5 DEF CallsTyped, ServiceIssues, GoTo
  <2>2. /\ pc'[p] = "reply" /\ round'[p] = round[p] /\ kind'[p] = kind[p] /\ chal'[p] = chal[p] /\ challenged'[p] = challenged[p]
        /\ bearer'[p].scope = chal[p]
    BY <1>0, <1>5 DEF CallsTyped, ServiceIssues, GoTo
  <2>3. round'[p] = "retry" => /\ chal'[p] = ScopeOf[kind'[p]] /\ Policy[kind'[p]] = "bearer"
                             /\ challenged'[p] = chal'[p]
    BY <2>2 DEF ScopesMatch
  <2> QED
    BY <1>5, <2>1, <2>2, <2>3, LocalStepKeepsScopes DEF ServiceIssues
<1>6. ASSUME NEW p \in Procs, NEW issuedAt \in BOOLEAN, TokenArrives(p, issuedAt)
      PROVE  ScopesMatch'
  <2> DEFINE until == Deadline(bearer[p], issuedAt)
             entry == [token |-> bearer[p], until |-> until]
  <2>1. bearer[p].scope = chal[p]
    BY <1>6 DEF TokenArrives, ScopesMatch
  <2>2. \A s \in DOMAIN tokens' : tokens'[s].token.scope = s
    <3>1. CASE until > now
      <4>1. tokens' = Put(Pruned(tokens), chal[p], entry)
        BY <1>6, <3>1 DEF TokenArrives
      <4>2. /\ DOMAIN Pruned(tokens) \subseteq DOMAIN tokens
            /\ \A s \in DOMAIN Pruned(tokens) : Pruned(tokens)[s] = tokens[s]
        BY PrunedFacts DEF AuthInv
      <4> QED
        BY <2>1, <4>1, <4>2 DEF Put, ScopesMatch
    <3>2. CASE ~(until > now)
      BY <1>6, <3>2 DEF TokenArrives, ScopesMatch
    <3> QED
      BY <3>1, <3>2
  <2>3. \A q \in Procs \ {p} : /\ pc'[q] = pc[q] /\ round'[q] = round[q] /\ kind'[q] = kind[q]
                               /\ chal'[q] = chal[q] /\ bearer'[q] = bearer[q]
                               /\ challenged'[q] = challenged[q]
    BY <1>0, <1>6 DEF CallsTyped, TokenArrives, Send, GoTo
  <2>4. /\ pc'[p] = "send" /\ round'[p] = round[p] /\ kind'[p] = kind[p] /\ chal'[p] = chal[p] /\ challenged'[p] = challenged[p]
        /\ bearer'[p] = bearer[p]
    BY <1>0, <1>6 DEF CallsTyped, TokenArrives, Send, GoTo
  <2> QED
    BY <2>1, <2>2, <2>3, <2>4 DEF ScopesMatch
<1>7. ASSUME NEW p \in Procs, Send(p, "bare", None), UNCHANGED <<tokens, kind, challenged>>,
             chal' = [chal EXCEPT ![p] = None]
      PROVE  ScopesMatch'
  <2>1. \A q \in Procs \ {p} : /\ pc'[q] = pc[q] /\ round'[q] = round[q] /\ kind'[q] = kind[q]
                               /\ chal'[q] = chal[q] /\ bearer'[q] = bearer[q]
                               /\ challenged'[q] = challenged[q]
    BY <1>0, <1>7 DEF CallsTyped, Send, GoTo
  <2>2. pc'[p] = "send" /\ round'[p] = "bare"
    BY <1>0, <1>7 DEF CallsTyped, Send, GoTo
  <2> QED
    BY <1>7, <2>1, <2>2, LocalStepKeepsScopes
<1>8. ASSUME NEW p \in Procs, Challenged(p)
      PROVE  ScopesMatch'
  <2>1. \A q \in Procs \ {p} : /\ pc'[q] = pc[q] /\ round'[q] = round[q] /\ kind'[q] = kind[q]
                               /\ chal'[q] = chal[q] /\ bearer'[q] = bearer[q]
                               /\ challenged'[q] = challenged[q]
    BY <1>0, <1>8 DEF CallsTyped, Challenged, GoTo
  <2>2. /\ pc'[p] = "token" /\ kind'[p] = kind[p] /\ chal'[p] = ScopeOf[kind[p]]
        /\ challenged'[p] = ScopeOf[kind[p]] /\ Policy[kind[p]] = "bearer"
    BY <1>0, <1>8 DEF CallsTyped, Challenged, GoTo
  <2> QED
    BY <1>8, <2>1, <2>2, LocalStepKeepsScopes DEF Challenged
<1>9. ASSUME NEW p \in Procs, Answered(p) \/ Unauthorized(p) \/ SendFails(p)
      PROVE  ScopesMatch'
  BY <1>1, <1>9 DEF Answered, Unauthorized, SendFails, Outcomes
<1>10. ASSUME NEW p \in Procs, KnownRefused(p)
      PROVE  ScopesMatch'
  BY <1>7, <1>10 DEF KnownRefused
<1>11. ASSUME NEW p \in Procs, TokenFails(p)
      PROVE  ScopesMatch'
  BY <1>1, <1>7, <1>11 DEF TokenFails, Outcomes
<1>12. CASE Revoke \/ TimePasses \/ UNCHANGED vars
  BY <1>12 DEF ScopesMatch, Revoke, TimePasses, vars
<1> QED
  BY <1>2, <1>3, <1>4, <1>5, <1>6, <1>8, <1>9, <1>10, <1>11, <1>12 DEF Next, Begin, Proceed

\* The scopes of tokens and challenges match in every reachable state.
LEMMA ScopesInvariant == Spec => [](AuthInv /\ ScopesMatch)
<1>1. Init => ScopesMatch
  BY DEF Init, ScopesMatch
<1> QED
  BY <1>1, InitEstablishesAuthInv, StepKeepsAuthInv, StepKeepsScopes, PTL DEF Spec

\* A step by which a call ends with an outcome returns it.
LEMMA EndsByReturn ==
    ASSUME CallsTyped, [Next]_vars, NEW p \in Procs, NEW result \in {"unauthorized", "token error"},
           Ends(p, result)
    PROVE  \/ result = "unauthorized" /\ Unauthorized(p)
           \/ result = "token error" /\ TokenFails(p) /\ Return(p, "token error")
<1> USE DEF caches, callVars
<1>1. outcome[p] = None /\ outcome'[p] = result /\ outcome'[p] # outcome[p]
  BY NoneAssumption DEF Ends, Outcomes
<1>2. outcome \in [Procs -> Outcomes \cup {None}]
  BY DEF CallsTyped
<1>3. ASSUME NEW q \in Procs, Begin(q)
      PROVE  FALSE
  <2>1. outcome' = [outcome EXCEPT ![q] = None]
    BY <1>3 DEF Begin, BeginKnown, BeginBare
  <2> QED
    BY <1>1, <1>2, <2>1
<1>4. ASSUME UNCHANGED outcome
      PROVE  FALSE
  BY <1>1, <1>4
<1>5. ASSUME NEW q \in Procs, NEW o, Return(q, o)
      PROVE  q = p /\ o = result
  <2>1. outcome' = [outcome EXCEPT ![q] = o]
    BY <1>5 DEF Return
  <2> QED
    BY <1>1, <1>2, <2>1
<1>6. PICK q \in Procs : Proceed(q)
  <2>1. CASE Revoke \/ TimePasses \/ UNCHANGED vars
    BY <1>4, <2>1 DEF Revoke, TimePasses, vars
  <2> QED
    BY <1>3, <2>1 DEF Next
<1>7. CASE Unauthorized(q)
  <2>1. Return(q, "unauthorized")
    BY <1>7 DEF Unauthorized
  <2>2. q = p /\ result = "unauthorized"
    BY <1>5, <2>1
  <2> QED
    BY <1>7, <2>2, Zenon
<1>8. CASE TokenFails(q)
  <2>1. CASE UNCHANGED outcome
    BY <1>4, <2>1
  <2>2. CASE Return(q, "token error")
    <3>1. q = p /\ result = "token error"
      BY <1>5, <2>2
    <3> QED
      BY <1>8, <2>2, <3>1, Zenon
  <2> QED
    BY <1>8, <2>1, <2>2 DEF TokenFails
<1>9. CASE Answered(q) \/ SendFails(q)
  <2>1. Return(q, "answered") \/ Return(q, "transport error")
    BY <1>9 DEF Answered, SendFails
  <2>2. result \in {"answered", "transport error"}
    BY <1>5, <2>1
  <2> QED
    BY <2>2
<1>10. CASE TokenCached(q) \/ TokenMissing(q) \/ KnownRefused(q) \/ Challenged(q)
  BY <1>4, <1>10 DEF TokenCached, TokenMissing, KnownRefused, Challenged
<1>11. CASE \E life \in Lifetimes : \E stated \in Stated(life) : ServiceIssues(q, life, stated)
  BY <1>4, <1>11 DEF ServiceIssues
<1>12. CASE \E issuedAt \in BOOLEAN : TokenArrives(q, issuedAt)
  BY <1>4, <1>12 DEF TokenArrives
<1> QED
  BY <1>6, <1>7, <1>8, <1>9, <1>10, <1>11, <1>12 DEF Proceed

\* Against a bearer registry a call is refused only with a token of the very
\* scope it was asked for after a request without one (client.go:272-311).
THEOREM AuthRefusalRenegotiated == Spec => RefusalRenegotiated
<1>1. ASSUME AuthInv, ScopesMatch, [Next]_vars, NEW p \in Procs, Ends(p, "unauthorized"),
             Policy[kind[p]] = "bearer"
      PROVE  /\ challenged[p] = ScopeOf[kind[p]]
             /\ bearer[p] # None /\ bearer[p].scope = challenged[p]
  <2>1. CallsTyped /\ LocalsMatchStep
    BY <1>1 DEF AuthInv, TypeOK
  <2>2. Unauthorized(p)
    BY <1>1, <2>1, EndsByReturn
  <2>3. pc[p] = "send" /\ round[p] = "retry"
    BY <1>1, <2>2 DEF Unauthorized, GivesUp
  <2> QED
    BY <1>1, <2>1, <2>3 DEF LocalsMatchStep, ScopesMatch
<1>2. AuthInv /\ ScopesMatch /\ [Next]_vars
      => [\A p \in Procs :
            Ends(p, "unauthorized") /\ Policy[kind[p]] = "bearer"
            => /\ challenged[p] = ScopeOf[kind[p]]
               /\ bearer[p] # None /\ bearer[p].scope = challenged[p]]_vars
  BY <1>1
<1> QED
  BY <1>2, ScopesInvariant, PTL DEF Spec, RefusalRenegotiated

\* No request that the credentials entitle to is turned away, unless the token it
\* was last presented with is spent by then; and no token error ends it, unless
\* the token service may fail (client.go:266-312).
THEOREM AuthEntitledNotRefused == Spec => EntitledNotRefused
<1>1. ASSUME AuthInv, ScopesMatch, [Next]_vars, NEW p \in Procs, Ends(p, "token error")
      PROVE  Unentitled(p) \/ Faults
  <2>1. CallsTyped /\ LocalsMatchStep
    BY <1>1 DEF AuthInv, TypeOK
  <2>2. TokenFails(p) /\ Return(p, "token error")
    BY <1>1, <2>1, EndsByReturn
  <2>3. Faults \/ chal[p] \notin Entitled
    BY <2>2 DEF TokenFails
  <2>4. round[p] = "retry"
    <3>1. CASE round[p] = "known"
      BY <2>1, <2>2, <3>1 DEF TokenFails, StopsOnTokenError, Send, Return, GoTo, CallsTyped
    <3>2. CASE round[p] # "known"
      BY <2>2, <3>2 DEF TokenFails, StopsOnTokenError
    <3> QED
      BY <3>1, <3>2
  <2> QED
    BY <1>1, <2>3, <2>4 DEF ScopesMatch, Unentitled
<1>2. ASSUME AuthInv, ScopesMatch, [Next]_vars, NEW p \in Procs, Ends(p, "unauthorized")
      PROVE  Unentitled(p) \/ (bearer[p] # None /\ Spent(bearer[p]))
  <2>1. CallsTyped /\ LocalsMatchStep /\ now \in Nat
    BY <1>2 DEF AuthInv, TypeOK
  <2>2. pc[p] = "send" /\ ~Serves(p) /\ GivesUp(p)
    BY <1>2, <2>1, EndsByReturn DEF Unauthorized
  <2>3. CASE round[p] = "retry"
    <3>1. /\ bearer[p] \in Token /\ bearer[p] # None /\ bearer[p].scope = ScopeOf[kind[p]]
      BY <1>2, <2>1, <2>2, <2>3 DEF CallsTyped, LocalsMatchStep, ScopesMatch
    <3>2. ~Valid(bearer[p])
      BY <2>2, <3>1 DEF Serves
    <3> QED
      BY <2>1, <3>1, <3>2 DEF Valid, Spent, Unentitled, Token
  <2>4. CASE round[p] # "retry"
    <3>1. round[p] = "bare" /\ Policy[kind[p]] # "bearer" /\ bearer[p] = None
      BY <2>1, <2>2, <2>4 DEF GivesUp, LocalsMatchStep
    <3>2. Policy[kind[p]] # "open" /\ kind[p] \in Kinds
      BY <2>1, <2>2, <3>1 DEF Serves, LocalsMatchStep, CallsTyped
    <3> QED
      BY <3>1, <3>2, KindsAssumption DEF Unentitled
  <2> QED
    BY <2>3, <2>4
<1>3. AuthInv /\ ScopesMatch /\ [Next]_vars
      => [\A p \in Procs :
            /\ Ends(p, "unauthorized")
               => Unentitled(p) \/ (bearer[p] # None /\ Spent(bearer[p]))
            /\ Ends(p, "token error") => Unentitled(p) \/ Faults]_vars
  BY <1>1, <1>2
<1> QED
  BY <1>3, ScopesInvariant, PTL DEF Spec, EntitledNotRefused
=============================================================================
