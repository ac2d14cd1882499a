----------------------------- MODULE BearerAuth -----------------------------
(***************************************************************************)
(* How concurrent requests of one registry client authenticate:            *)
(* client.do (client.go), the challenge cache and the token cache with its *)
(* mutex held across the token request (auth.go).                          *)
(*                                                                         *)
(* A call of do presents a token in up to three rounds:                    *)
(*   "known"   the token for the challenge remembered for the resource,    *)
(*   "bare"    no token, only the configured credentials,                  *)
(*   "retry"   the token for the challenge the bare request was given.     *)
(*                                                                         *)
(* A challenge is identified by the scope it asks for (realm, service and  *)
(* scope in the code).  The registry, its token service and the permissions*)
(* they keep are external: epoch grows when issued tokens are revoked.     *)
(***************************************************************************)
EXTENDS Integers, FiniteSets, Functions

CONSTANTS
    Procs,                \* goroutines calling do
    Kinds,                \* kinds of request: a method on a resource
    ResourceOf,           \* authScopeKey of a kind's URL
    ScopeOf,              \* the scope the registry asks of a kind
    Policy,               \* "bearer", "open" or "other": its answer to a bare request
    Entitled,             \* scopes the configured credentials may have
    None,
    Lifetimes,            \* token lifetimes the service grants
    Silent,               \* whether the service may not say which
    DefaultLifetime,      \* defaultTokenLifetime
    Margin,               \* tokenSafetyMargin
    Timeout,              \* opts.Timeout, the limit on one hc.Do
    MaxTokenEntries,      \* maxTokenEntries
    MaxChallengeEntries,  \* maxChallengeEntries
    MaxEpoch,             \* how many revocations may happen
    Faults                \* whether transport and token service may fail

Scopes == {ScopeOf[k] : k \in Kinds}
Resources == {ResourceOf[k] : k \in Kinds}

\* What the token service says of a token, expires_in (0 if it does not say)
\* and issued_at; and what the registry knows: its end, and the epoch it was
\* issued in.
Token == [scope : Scopes, stated : Nat, issued : Nat, expires : Nat, epoch : Nat]
Cached == [token : Token, until : Int]

\* How a call may end.
Outcomes == {"answered", "unauthorized", "transport error", "token error"}

ASSUME KindsAssumption == /\ DOMAIN ResourceOf = Kinds
                          /\ DOMAIN ScopeOf = Kinds
                          /\ Policy \in [Kinds -> {"bearer", "open", "other"}]
ASSUME NoneAssumption == None \notin Procs \cup Kinds \cup Scopes \cup Token \cup Outcomes
ASSUME TimesAssumption == /\ Lifetimes \subseteq Nat
                          /\ Silent \in BOOLEAN
                          /\ DefaultLifetime \in Nat
                          /\ Margin \in Nat
                          /\ Timeout \in Nat \ {0}
ASSUME BoundsAssumption == /\ MaxTokenEntries \in Nat \ {0}
                           /\ MaxChallengeEntries \in Nat \ {0}
                           /\ MaxEpoch \in Nat
                           /\ Faults \in BOOLEAN

VARIABLES
    challenges,  \* challengeCache.m: resource -> scope
    tokens,      \* tokenCache.tokens: scope -> cached token
    mutex,       \* who holds tokenCache.mu across a token request
    pc,          \* where each call stands
    round,       \* which round of do it is in
    kind,        \* what it requests
    chal,        \* the challenge it negotiates (known, then challenge)
    bearer,      \* the token in its hand
    since,       \* when its current hc.Do started
    outcome,     \* how its last call ended
    refused,     \* history: the remembered token the registry refused
    challenged,  \* history: the scope the registry asked this very call for
    sends,       \* history: requests sent to the registry by this call
    fetches,     \* history: token requests made by this call
    epoch,       \* the registry's revocation epoch
    now

callVars == <<pc, round, kind, chal, bearer, since, outcome, refused, challenged, sends, fetches>>
caches == <<challenges, tokens>>
vars == <<caches, mutex, callVars, epoch, now>>

Steps == {"idle", "token", "fetch", "reply", "send"}
Rounds == {"known", "bare", "retry"}

CachesTyped == /\ DOMAIN challenges \subseteq Resources
               /\ challenges \in [DOMAIN challenges -> Scopes]
               /\ DOMAIN tokens \subseteq Scopes
               /\ tokens \in [DOMAIN tokens -> Cached]

CallsTyped == /\ pc \in [Procs -> Steps]
              /\ round \in [Procs -> Rounds]
              /\ kind \in [Procs -> Kinds \cup {None}]
              /\ chal \in [Procs -> Scopes \cup {None}]
              /\ bearer \in [Procs -> Token \cup {None}]
              /\ since \in [Procs -> Nat]
              /\ outcome \in [Procs -> Outcomes \cup {None}]
              /\ refused \in [Procs -> Token \cup {None}]
              /\ challenged \in [Procs -> Scopes \cup {None}]
              /\ sends \in [Procs -> Nat]
              /\ fetches \in [Procs -> Nat]

\* Each step of do finds the locals it works on, and no others: above all, the
\* bare round carries no token.
LocalsMatchStep ==
    \A p \in Procs :
        /\ pc[p] = "idle" <=> kind[p] = None
        /\ pc[p] = "idle" => round[p] = "bare"
        /\ pc[p] \in {"token", "fetch", "reply"} => chal[p] # None /\ round[p] # "bare"
        /\ round[p] = "bare" => bearer[p] = None
        /\ pc[p] = "send" /\ round[p] # "bare" => bearer[p] # None
        /\ pc[p] = "reply" => bearer[p] # None

TypeOK == /\ CachesTyped
          /\ CallsTyped
          /\ LocalsMatchStep
          /\ mutex \in Procs \cup {None}
          /\ epoch \in Nat
          /\ now \in Nat

Init == /\ challenges = [r \in {} |-> None]
        /\ tokens = [s \in {} |-> None]
        /\ mutex = None
        /\ pc = [p \in Procs |-> "idle"]
        /\ round = [p \in Procs |-> "bare"]
        /\ kind = [p \in Procs |-> None]
        /\ chal = [p \in Procs |-> None]
        /\ bearer = [p \in Procs |-> None]
        /\ since = [p \in Procs |-> 0]
        /\ outcome = [p \in Procs |-> None]
        /\ refused = [p \in Procs |-> None]
        /\ challenged = [p \in Procs |-> None]
        /\ sends = [p \in Procs |-> 0]
        /\ fetches = [p \in Procs |-> 0]
        /\ epoch = 0
        /\ now = 0

-----------------------------------------------------------------------------
(* The registry, as do sees it.                                            *)

Valid(t) == /\ t # None
            /\ t.scope \in Entitled
            /\ t.epoch = epoch
            /\ now < t.expires

\* Whether the registry answers p's request with something else than a 401.
Serves(p) ==
    IF bearer[p] = None THEN Policy[kind[p]] = "open"
    ELSE Valid(bearer[p]) /\ (Policy[kind[p]] = "open" \/ bearer[p].scope = ScopeOf[kind[p]])

-----------------------------------------------------------------------------
(* The two caches.                                                         *)

\* token(): a cached token is used while its own deadline lies ahead.
Fresh(s) == s \in DOMAIN tokens /\ now < tokens[s].until

\* Mutant: a full cache takes one token more.
PrunedLate(ts) == IF Cardinality(DOMAIN ts) <= MaxTokenEntries THEN ts ELSE Restrict(ts, {})

\* pruneLocked: nothing under the bound; else the expired tokens go; and if
\* that frees no place, every token does.
Pruned(ts) ==
    LET alive == {s \in DOMAIN ts : now < ts[s].until}
    IN  IF Cardinality(DOMAIN ts) < MaxTokenEntries THEN ts
        ELSE IF Cardinality(alive) < MaxTokenEntries THEN Restrict(ts, alive)
        ELSE Restrict(ts, {})

Put(f, k, v) == [x \in DOMAIN f \cup {k} |-> IF x = k THEN v ELSE f[x]]

\* challengeCache.put: a full cache is dropped before the challenge goes in.
PutChallenge(r, s) ==
    challenges' = Put(IF Cardinality(DOMAIN challenges) >= MaxChallengeEntries
                      THEN Restrict(challenges, {}) ELSE challenges, r, s)

-----------------------------------------------------------------------------
(* One call of do.                                                         *)

GoTo(p, r, step) == /\ round' = [round EXCEPT ![p] = r]
                    /\ pc' = [pc EXCEPT ![p] = step]

\* Issue the request of round r with token t.
Send(p, r, t) == /\ GoTo(p, r, "send")
                 /\ bearer' = [bearer EXCEPT ![p] = t]
                 /\ since' = [since EXCEPT ![p] = now]
                 /\ sends' = [sends EXCEPT ![p] = @ + 1]

\* do returns; its locals are gone.
Return(p, result) == /\ GoTo(p, "bare", "idle")
                     /\ outcome' = [outcome EXCEPT ![p] = result]
                     /\ kind' = [kind EXCEPT ![p] = None]
                     /\ chal' = [chal EXCEPT ![p] = None]
                     /\ bearer' = [bearer EXCEPT ![p] = None]
                     /\ since' = [since EXCEPT ![p] = 0]
                     /\ refused' = [refused EXCEPT ![p] = None]
                     /\ challenged' = [challenged EXCEPT ![p] = None]
                     /\ sends' = [sends EXCEPT ![p] = 0]
                     /\ fetches' = [fetches EXCEPT ![p] = 0]

\* do with a remembered challenge for the resource.
BeginKnown(p, k) ==
    /\ pc[p] = "idle"
    /\ ResourceOf[k] \in DOMAIN challenges
    /\ GoTo(p, "known", "token")
    /\ chal' = [chal EXCEPT ![p] = challenges[ResourceOf[k]]]
    /\ kind' = [kind EXCEPT ![p] = k]
    /\ outcome' = [outcome EXCEPT ![p] = None]
    /\ UNCHANGED <<caches, mutex, bearer, since, refused, challenged, sends, fetches, epoch, now>>

\* do without one: the request goes out bare.
BeginBare(p, k) ==
    /\ pc[p] = "idle"
    /\ ResourceOf[k] \notin DOMAIN challenges
    /\ GoTo(p, "bare", "send")
    /\ since' = [since EXCEPT ![p] = now]
    /\ kind' = [kind EXCEPT ![p] = k]
    /\ outcome' = [outcome EXCEPT ![p] = None]
    /\ sends' = [sends EXCEPT ![p] = 1]
    /\ UNCHANGED <<caches, mutex, chal, bearer, refused, challenged, fetches, epoch, now>>

\* token() takes the mutex, finds a fresh token and gives the mutex back.
TokenCached(p) ==
    /\ pc[p] = "token"
    /\ mutex = None
    /\ Fresh(chal[p])
    /\ Send(p, round[p], tokens[chal[p]].token)
    /\ UNCHANGED <<caches, mutex, kind, chal, outcome, refused, challenged, fetches, epoch, now>>

\* Mutant: every waiter fetches, whatever was cached while it waited.
MustFetchAlways(p) == TRUE

\* token() looks into the cache after it has taken the mutex.
MustFetch(p) == ~Fresh(chal[p])

\* token() takes the mutex and starts a token request under it.
TokenMissing(p) ==
    /\ pc[p] = "token"
    /\ mutex = None
    /\ MustFetch(p)
    /\ mutex' = p
    /\ GoTo(p, round[p], "fetch")
    /\ since' = [since EXCEPT ![p] = now]
    /\ fetches' = [fetches EXCEPT ![p] = @ + 1]
    /\ UNCHANGED <<caches, kind, chal, bearer, outcome, refused, challenged, sends, epoch, now>>

\* What the service says of a token that lasts so long.
Stated(life) == {life} \cup (IF Silent THEN {0} ELSE {})

\* The token service grants a token, and says for how long or does not say; its
\* response is on the way.
ServiceIssues(p, life, stated) ==
    /\ pc[p] = "fetch"
    /\ GoTo(p, round[p], "reply")
    /\ bearer' = [bearer EXCEPT ![p] = [scope |-> chal[p], stated |-> stated, issued |-> now,
                                        expires |-> now + life, epoch |-> epoch]]
    /\ UNCHANGED <<caches, mutex, kind, chal, since, outcome, refused, challenged, sends,
                   fetches, epoch, now>>

\* Mutant: an early return forgets the mutex.
UnlockForgotten == mutex' = mutex

\* The deferred unlock of token(), on every way out of it.
Unlock == mutex' = None

\* How long a token counts: what the service says, or a minute.
LifetimeOf(t) == IF t.stated <= 0 THEN DefaultLifetime ELSE t.stated

\* Mutant: the margin is left out.
DeadlineNoMargin(t, issuedAt) == (IF issuedAt THEN t.issued ELSE now) + LifetimeOf(t)

\* Until when the client uses a token: its lifetime from its arrival, or from
\* the issued_at of the response, which is earlier; less the safety margin.
Deadline(t, issuedAt) == (IF issuedAt THEN t.issued ELSE now) + LifetimeOf(t) - Margin

\* requestToken and token() return: a token with lifetime left is cached.
TokenArrives(p, issuedAt) ==
    /\ pc[p] = "reply"
    /\ tokens' = IF Deadline(bearer[p], issuedAt) > now
                 THEN Put(Pruned(tokens), chal[p],
                          [token |-> bearer[p], until |-> Deadline(bearer[p], issuedAt)])
                 ELSE tokens
    /\ Unlock
    /\ Send(p, round[p], bearer[p])
    /\ UNCHANGED <<challenges, kind, chal, outcome, refused, challenged, fetches, epoch, now>>

\* Mutant: a failed token request ends the call in any round.
StopsOnTokenErrorAlways(p) == TRUE

\* Only a challenge received in this call makes a token error final.
StopsOnTokenError(p) == round[p] = "retry"

\* The token request fails or is denied.  In the first round do goes on without
\* a token, after a challenge the error is its own.
TokenFails(p) ==
    /\ pc[p] \in {"fetch", "reply"}
    /\ Faults \/ chal[p] \notin Entitled
    /\ Unlock
    /\ \/ /\ round[p] = "known"
          /\ Send(p, "bare", None)
          /\ chal' = [chal EXCEPT ![p] = None]
          /\ UNCHANGED <<kind, outcome, refused, challenged, fetches>>
       \/ /\ StopsOnTokenError(p)
          /\ Return(p, "token error")
    /\ UNCHANGED <<caches, epoch, now>>

\* Any answer but a 401 is the caller's.
Answered(p) ==
    /\ pc[p] = "send"
    /\ Serves(p)
    /\ Return(p, "answered")
    /\ UNCHANGED <<caches, mutex, epoch, now>>

\* Mutant: a refused retry starts over.
GoesBareAgain(p) == round[p] \in {"known", "retry"}

\* The round whose refusal do answers with a bare request.
GoesBare(p) == round[p] = "known"

\* A 401 to the remembered challenge's token: drain it and go bare.
KnownRefused(p) ==
    /\ pc[p] = "send" /\ GoesBare(p)
    /\ ~Serves(p)
    /\ refused' = [refused EXCEPT ![p] = bearer[p]]
    /\ chal' = [chal EXCEPT ![p] = None]
    /\ Send(p, "bare", None)
    /\ UNCHANGED <<caches, mutex, kind, outcome, challenged, fetches, epoch, now>>

\* A 401 with a bearer challenge to the bare request: remember it, negotiate.
Challenged(p) ==
    /\ pc[p] = "send" /\ round[p] = "bare"
    /\ ~Serves(p) /\ Policy[kind[p]] = "bearer"
    /\ PutChallenge(ResourceOf[kind[p]], ScopeOf[kind[p]])
    /\ chal' = [chal EXCEPT ![p] = ScopeOf[kind[p]]]
    /\ challenged' = [challenged EXCEPT ![p] = ScopeOf[kind[p]]]
    /\ since' = [since EXCEPT ![p] = 0]
    /\ GoTo(p, "retry", "token")
    /\ UNCHANGED <<tokens, mutex, kind, bearer, outcome, refused, sends, fetches, epoch, now>>

\* Mutant: a 401 to the remembered token is reported.
GivesUpEarly(p) == \/ round[p] \in {"known", "retry"}
                   \/ round[p] = "bare" /\ Policy[kind[p]] # "bearer"

\* No challenge in the 401, or the one retry spent.
GivesUp(p) == \/ round[p] = "retry"
              \/ round[p] = "bare" /\ Policy[kind[p]] # "bearer"

\* A 401 that offers nothing to negotiate, or one to the retry, is final.
Unauthorized(p) ==
    /\ pc[p] = "send"
    /\ ~Serves(p)
    /\ GivesUp(p)
    /\ Return(p, "unauthorized")
    /\ UNCHANGED <<caches, mutex, epoch, now>>

\* The request fails below HTTP: refused, timed out, cancelled by the caller.
SendFails(p) ==
    /\ pc[p] = "send"
    /\ Faults
    /\ Return(p, "transport error")
    /\ UNCHANGED <<caches, mutex, epoch, now>>

Revoke == /\ epoch < MaxEpoch
          /\ epoch' = epoch + 1
          /\ UNCHANGED <<caches, mutex, callVars, now>>

\* No hc.Do outlives its timeout: the clock waits for it to end.
TimePasses ==
    /\ \A p \in Procs : pc[p] \in {"fetch", "reply", "send"} => now - since[p] < Timeout
    /\ now' = now + 1
    /\ UNCHANGED <<caches, mutex, callVars, epoch>>

Begin(p) == \E k \in Kinds : BeginKnown(p, k) \/ BeginBare(p, k)

\* What a call of do does once it has begun.
Proceed(p) == \/ TokenCached(p)
              \/ TokenMissing(p)
              \/ \E life \in Lifetimes : \E stated \in Stated(life) : ServiceIssues(p, life, stated)
              \/ \E issuedAt \in BOOLEAN : TokenArrives(p, issuedAt)
              \/ TokenFails(p)
              \/ Answered(p)
              \/ KnownRefused(p)
              \/ Challenged(p)
              \/ Unauthorized(p)
              \/ SendFails(p)

Next == \/ \E p \in Procs : Begin(p)
        \/ \E p \in Procs : Proceed(p)
        \/ Revoke
        \/ TimePasses

Spec == Init /\ [][Next]_vars

\* Mutant: a lock that is tried again and again, and may always be lost.
TakesMutexNever(p) == FALSE

\* sync.Mutex hands itself over to a starved waiter (strong fairness of taking
\* it), and hc.Do ends by its timeout at the latest (weak fairness).
TakesMutex(p) == TokenCached(p) \/ TokenMissing(p)

Fairness == \A p \in Procs : WF_vars(Proceed(p)) /\ SF_vars(TakesMutex(p))

-----------------------------------------------------------------------------
\* A token request is in flight exactly while its goroutine holds the mutex:
\* a burst of 401s makes one token request at a time (auth.go:211-225).
SingleFlight == \A p \in Procs : pc[p] \in {"fetch", "reply"} <=> mutex = p

\* No token is requested for a challenge that a fresh cached token answers,
\* although the waiters of a burst all looked before they queued
\* (auth.go:218-231).
NoRedundantTokenRequest ==
    \A p \in Procs : pc[p] \in {"fetch", "reply"} => ~Fresh(chal[p])

\* Both caches respect their limits after every store (auth.go:239-252, 387-396).
CachesBounded == /\ Cardinality(DOMAIN tokens) <= MaxTokenEntries
                 /\ Cardinality(DOMAIN challenges) <= MaxChallengeEntries

\* What a call may cost: three requests and two token requests (client.go:272-311).
EffortBounded == \A p \in Procs : sends[p] <= 3 /\ fetches[p] <= 2

Ends(p, result) == outcome[p] = None /\ outcome'[p] = result

\* Against a bearer registry do reports a 401 only if it was given to a token of
\* the scope that the registry asked this very call for, after a request without
\* a token: what was remembered of another request, or put there by another
\* goroutine, cannot make it give up.  Whether that token was fetched or found in
\* the cache is another matter (client.go:272-311).
RefusalRenegotiated ==
    [][\A p \in Procs :
         Ends(p, "unauthorized") /\ Policy[kind[p]] = "bearer"
         => /\ challenged[p] = ScopeOf[kind[p]]
            /\ bearer[p] # None /\ bearer[p].scope = challenged[p]]_vars

\* When a token ends: as its service stated, or else by the default that the
\* token specification prescribes.
End(t) == IF t.stated > 0 THEN t.expires ELSE t.issued + DefaultLifetime

\* A token that the client still uses has ended by then at most as long ago as
\* the timeout of a request exceeds the margin, however late the token arrived:
\* ten seconds with the default timeout, and not at all if the timeout is within
\* the margin (auth.go:19-24, 221-231, 345-359; client.go:28).
OverrunBounded ==
    \A s \in DOMAIN tokens : Fresh(s) => now < End(tokens[s].token) + Timeout - Margin

\* No longer what the registry would accept, whoever presents it.
Spent(t) == t.epoch # epoch \/ now >= t.expires

\* The registry wants no token, or one that the credentials may not have.
Unentitled(p) == Policy[kind[p]] = "other" \/ ScopeOf[kind[p]] \notin Entitled

\* A request the credentials entitle to is never turned away for the wrong token:
\* whatever stale challenge was remembered and whatever other goroutines did to
\* the caches meanwhile, do ends with the registry's answer, unless the token of
\* its last round has been revoked or has expired by then (client.go:266-312).
EntitledNotRefused ==
    [][\A p \in Procs :
         /\ Ends(p, "unauthorized")
            => Unentitled(p) \/ (bearer[p] # None /\ Spent(bearer[p]))
         /\ Ends(p, "token error") => Unentitled(p) \/ Faults]_vars

\* Every call returns: no queue for the token mutex is for ever (auth.go:218-219).
CallsReturn == \A p \in Procs : pc[p] # "idle" ~> pc[p] = "idle"

-----------------------------------------------------------------------------
(* What the documentation says, and the code does not do.                  *)

\* "tokens get revoked - so renegotiate from scratch" (client.go:281-282): a
\* token refused for being revoked is not presented again by the same call.
RevokedNotRepeated ==
    \A p \in Procs :
        pc[p] = "send" /\ refused[p] # None /\ refused[p].epoch < epoch
        => bearer[p] # refused[p]
=============================================================================
