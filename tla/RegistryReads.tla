---------------------------- MODULE RegistryReads ----------------------------
(***************************************************************************)
(* The calls of one registry client on one repository, through its         *)
(* response cache: fetchManifest by tag and by digest, fetchBlobCached,    *)
(* Tags and DeleteManifest (client.go), made by concurrent handlers while  *)
(* others push to and delete from the registry.                            *)
(*                                                                         *)
(* The cache is the LossyStore that TTLCache implements, eviction and all: *)
(* a lookup may always miss.  The registry is external: manifests and      *)
(* blobs are named by their digest, tags point at manifests, and deleting  *)
(* a manifest takes the tags that point at it along.                       *)
(***************************************************************************)
EXTENDS Integers, FiniteSets

CONSTANTS
    Procs,         \* goroutines calling the client
    Tags,
    Manifests,     \* digests of manifests
    Blobs,         \* digests of config blobs
    TagList,       \* the cache key of the repository's page of tags
    Repo, Global,  \* cache scopes
    None,
    CacheTTL,      \* opts.CacheTTL
    ImmutableTTL,  \* immutableTTL
    Timeout,       \* opts.Timeout
    MaxPushes,     \* bound: pushes by others
    Faults,        \* whether a request or its answer may be lost
    Lies,          \* whether other bytes may be served than a digest names
    QuietSuccess   \* whether a deletion may succeed with another 2xx than 200, 202

Digests == Manifests \cup Blobs
Keys == Tags \cup Digests \cup {TagList}
Pages == [tags : SUBSET Tags]
Values == Digests \cup Pages

ASSUME NamesAssumption == /\ Tags \cap Digests = {} /\ Manifests \cap Blobs = {}
                          /\ TagList \notin Tags \cup Digests
                          /\ None \notin Keys \cup Values \cup {Repo}
                          /\ Repo # Global
ASSUME TimesAssumption == /\ CacheTTL \in Nat \ {0}
                          /\ ImmutableTTL \in Nat \ {0}
                          /\ Timeout \in Nat \ {0}
ASSUME BoundsAssumption == MaxPushes \in Nat /\ {Faults, Lies, QuietSuccess} \subseteq BOOLEAN

VARIABLES
    ledger, now,         \* the cache, as LossyStore keeps it
    tagOf,               \* registry: tag -> manifest
    present,             \* registry: the manifests it holds
    pc,                  \* where each call stands
    key,                 \* what it reads (its cache key)
    victim,              \* or the manifest it deletes
    got,                 \* the registry's answer, not yet stored
    asked,               \* history: when the registry gave that answer
    raced,               \* history: an invalidation came before it was stored
    doomed,              \* history: what the deletion took from the registry
    asOf,                \* history: when the registry gave each cached value
    racedIn,             \* history: whether the call that stored it was raced
    misled,              \* history: the digests whose cached bytes are not their
                         \* own, and came in answer to a read by that digest
    gone,                \* history: names whose deletion was acknowledged
    spared,              \* history: those of them acknowledged, with nothing
                         \* invalidated, since the last invalidation
    pushes

cacheVars == <<ledger, now>>
registryVars == <<tagOf, present, pushes>>
callVars == <<pc, key, victim, got, asked, raced, doomed>>
historyVars == <<asOf, racedIn, misled, gone, spared>>
vars == <<cacheVars, registryVars, callVars, historyVars>>

\* Its answers are taken as they are asked for, so that reply is left out.
Cache == INSTANCE LossyStore WITH Repos <- {Repo}, KeyScope <- [k \in Keys |-> Repo],
                                  Miss <- None, TTLs <- {CacheTTL, ImmutableTTL}, reply <- <<>>

Steps == {"idle", "lookup", "request", "reply", "second"}

StoreTyped == /\ ledger \in [Keys -> [value : Values \cup {None}, expires : Nat]]
              /\ now \in Nat
              /\ asOf \in [Keys -> Nat]
              /\ racedIn \in [Keys -> BOOLEAN]
              /\ misled \subseteq Digests
              /\ gone \subseteq Tags \cup Manifests
              /\ spared \subseteq gone

RegistryTyped == /\ tagOf \in [Tags -> Manifests \cup {None}]
                 /\ present \subseteq Manifests
                 /\ pushes \in 0 .. MaxPushes
                 /\ \A t \in Tags : tagOf[t] # None => tagOf[t] \in present

CallsTyped == /\ pc \in [Procs -> Steps]
              /\ key \in [Procs -> Keys \cup {None}]
              /\ victim \in [Procs -> Manifests \cup {None}]
              /\ got \in [Procs -> Values \cup {None}]
              /\ asked \in [Procs -> Nat]
              /\ raced \in [Procs -> BOOLEAN]
              /\ doomed \in [Procs -> SUBSET (Tags \cup Manifests)]

\* A call reads or deletes, not both, and holds what its step needs.
LocalsMatchStep ==
    \A p \in Procs : /\ pc[p] = "second" => key[p] \in Tags
                     /\ pc[p] \in {"reply", "second"} /\ key[p] \in Tags => got[p] \in Manifests
                     /\ pc[p] = "reply" /\ key[p] # None => got[p] # None
                     /\ pc[p] = "idle" <=> key[p] = None /\ victim[p] = None
                     /\ victim[p] # None => key[p] = None

TypeOK == StoreTyped /\ RegistryTyped /\ CallsTyped /\ LocalsMatchStep

Init == /\ Cache!Init
        /\ tagOf = [t \in Tags |-> None]
        /\ present = {}
        /\ pushes = 0
        /\ pc = [p \in Procs |-> "idle"]
        /\ key = [p \in Procs |-> None]
        /\ victim = [p \in Procs |-> None]
        /\ got = [p \in Procs |-> None]
        /\ asked = [p \in Procs |-> 0]
        /\ raced = [p \in Procs |-> FALSE]
        /\ doomed = [p \in Procs |-> {}]
        /\ asOf = [k \in Keys |-> 0]
        /\ racedIn = [k \in Keys |-> FALSE]
        /\ misled = {}
        /\ gone = {}
        /\ spared = {}

-----------------------------------------------------------------------------
(* The registry, and the others who use it.                                *)

Exists(x) == x \in present \/ (x \in Tags /\ tagOf[x] # None)

\* What the registry serves for a key; None is a 404.
Serves(k) == CASE k \in Tags -> tagOf[k]
               [] k \in Manifests -> IF k \in present THEN k ELSE None
               [] k \in Blobs -> k
               [] k = TagList -> [tags |-> {t \in Tags : tagOf[t] # None}]

\* Asked for a digest, it may serve other bytes that it holds.
Answers(k) == {Serves(k)} \cup {b \in present : Lies /\ k \in Manifests}
                          \cup {b \in Blobs : Lies /\ k \in Blobs}

TagsOf(m) == {t \in Tags : tagOf[t] = m}

Remove(m) == /\ present' = present \ {m}
             /\ tagOf' = [t \in Tags |-> IF t \in TagsOf(m) THEN None ELSE tagOf[t]]

Push(t, m) == /\ pushes < MaxPushes
              /\ pushes' = pushes + 1
              /\ present' = present \cup {m}
              /\ tagOf' = [tagOf EXCEPT ![t] = m]
              /\ gone' = gone \ {t, m}
              /\ spared' = spared \ {t, m}
              /\ UNCHANGED <<cacheVars, callVars, asOf, racedIn, misled>>

-----------------------------------------------------------------------------
(* Reads.                                                                  *)

GoTo(p, step) == pc' = [pc EXCEPT ![p] = step]

\* A call returns, with a value or with an error: its locals are gone.
Return(p) == /\ GoTo(p, "idle")
             /\ key' = [key EXCEPT ![p] = None]
             /\ victim' = [victim EXCEPT ![p] = None]
             /\ got' = [got EXCEPT ![p] = None]
             /\ asked' = [asked EXCEPT ![p] = 0]
             /\ raced' = [raced EXCEPT ![p] = FALSE]
             /\ doomed' = [doomed EXCEPT ![p] = {}]

BeginRead(p, k) == /\ pc[p] = "idle"
                   /\ GoTo(p, "lookup")
                   /\ key' = [key EXCEPT ![p] = k]
                   /\ UNCHANGED <<cacheVars, registryVars, historyVars,
                                  victim, got, asked, raced, doomed>>

\* The cache answers.
Hit(p) == /\ pc[p] = "lookup"
          /\ Cache!Answers(key[p]) # {None}
          /\ Return(p)
          /\ UNCHANGED <<cacheVars, registryVars, historyVars>>

\* It does not: ask the registry.
Missed(p) == /\ pc[p] = "lookup"
             /\ None \in Cache!Answers(key[p])
             /\ GoTo(p, "request")
             /\ UNCHANGED <<cacheVars, registryVars, historyVars, key, victim, got, asked, raced, doomed>>

\* checkResponse: anything but a 2xx is an error.
Accepted(answer) == answer # None

\* The registry answers; the response is on its way.
Served(p, answer) ==
             /\ pc[p] = "request"
             /\ key[p] # None
             /\ answer \in Answers(key[p]) /\ Accepted(answer)
             /\ GoTo(p, "reply")
             /\ got' = [got EXCEPT ![p] = answer]
             /\ asked' = [asked EXCEPT ![p] = now]
             /\ UNCHANGED <<cacheVars, registryVars, historyVars, key, victim, raced, doomed>>

NotFound(p) == /\ pc[p] = "request"
               /\ IF key[p] # None THEN Serves(key[p]) = None ELSE ~Exists(victim[p])
               /\ Return(p)
               /\ UNCHANGED <<cacheVars, registryVars, historyVars>>

\* Mutant: everything is cached for an hour.
LifetimeImmutable(k) == ImmutableTTL

\* Digest-addressed content cannot change; a tag moves, tags come and go.
Lifetime(k) == IF k \in Digests THEN ImmutableTTL ELSE CacheTTL

\* cache.set with the answer p holds.
Store(p, k, v) == /\ Cache!Set(k, v, Lifetime(k))
                  /\ asOf' = [asOf EXCEPT ![k] = asked[p]]
                  /\ racedIn' = [racedIn EXCEPT ![k] = raced[p]]
                  /\ misled' = IF k \in Digests /\ key[p] = k /\ v # k
                               THEN misled \cup {k} ELSE misled \ {k}

\* Everything but a manifest read by tag is stored under the one key it was
\* asked for: a digest too, without comparing it with the bytes' own.
StoreAnswer(p) ==
    /\ pc[p] = "reply" /\ key[p] \in Keys \ Tags
    /\ Store(p, key[p], got[p])
    /\ Return(p)
    /\ UNCHANGED <<registryVars, gone, spared>>

\* A manifest read by tag is stored under the tag first ...
StoreTag(p) ==
    /\ pc[p] = "reply" /\ key[p] \in Tags
    /\ Store(p, key[p], got[p])
    /\ GoTo(p, "second")
    /\ UNCHANGED <<registryVars, gone, spared, key, victim, got, asked, raced, doomed>>

\* Mutant: the Docker-Content-Digest header is believed.
DigestAdvertised(computed, advertised) == advertised

\* The digest of the bytes, whatever the header says.
DigestKey(computed, advertised) == computed

\* ... and then under its digest, the lock having been free in between.
StoreDigest(p, advertised) ==
    /\ pc[p] = "second"
    /\ Store(p, DigestKey(got[p], advertised), got[p])
    /\ Return(p)
    /\ UNCHANGED <<registryVars, gone, spared>>

-----------------------------------------------------------------------------
(* Deletion.                                                               *)

\* The request of DeleteManifest goes out.
BeginDelete(p, m) == /\ pc[p] = "idle"
                     /\ GoTo(p, "request")
                     /\ victim' = [victim EXCEPT ![p] = m]
                     /\ UNCHANGED <<cacheVars, registryVars, historyVars,
                                    key, got, asked, raced, doomed>>

\* The registry deletes the manifest and its tags; the 202 is on its way.
Deleted(p) == /\ pc[p] = "request"
              /\ victim[p] \in present
              /\ Remove(victim[p])
              /\ GoTo(p, "reply")
              /\ doomed' = [doomed EXCEPT ![p] = {victim[p]} \cup TagsOf(victim[p])]
              /\ asked' = [asked EXCEPT ![p] = now]
              /\ UNCHANGED <<cacheVars, pushes, historyVars, key, victim, got, raced>>

\* Answered by the registry, not yet stored.
InFlight(p) == pc[p] \in {"reply", "second"}

\* Mutant: the cache is left as it is.
InvalidateNothing == UNCHANGED cacheVars

\* c.cache.InvalidateRepo(repo)
InvalidateRepo == Cache!Invalidate(Repo)

\* What of p's deletion is still gone when its answer arrives.
StillGone(p) == {x \in doomed[p] : ~Exists(x)}

\* DeleteManifest returns nil: the caller tells the user.
ReportDeleted(p) == /\ pc[p] = "reply" /\ victim[p] # None
                    /\ GoTo(p, "idle")
                    /\ victim' = [victim EXCEPT ![p] = None]
                    /\ asked' = [asked EXCEPT ![p] = 0]
                    /\ doomed' = [doomed EXCEPT ![p] = {}]
                    /\ gone' = gone \cup StillGone(p)
                    /\ UNCHANGED <<registryVars, key, got>>

\* The 200 or 202 arrives: the repository's entries are dropped, their history
\* with them.
Acknowledged(p) == /\ ReportDeleted(p)
                   /\ InvalidateRepo
                   /\ raced' = [q \in Procs |-> q # p /\ (raced[q] \/ InFlight(q))]
                   /\ asOf' = [k \in Keys |-> 0]
                   /\ racedIn' = [k \in Keys |-> FALSE]
                   /\ misled' = {}
                   /\ spared' = {}

\* Any other 2xx, a 204 say, is no error to checkResponse: the deletion is
\* reported all the same, and the cache keeps what it has.
AcknowledgedQuietly(p) == /\ QuietSuccess
                          /\ ReportDeleted(p)
                          /\ raced' = [raced EXCEPT ![p] = FALSE]
                          /\ spared' = spared \cup StillGone(p)
                          /\ UNCHANGED <<cacheVars, asOf, racedIn, misled>>

\* The request or its answer is lost, or the status is not a 2xx: the call ends
\* with an error, nothing is stored and, whatever the registry has done, nothing
\* is invalidated.
Fails(p) == /\ pc[p] \in {"request", "reply"}
            /\ Faults
            /\ Return(p)
            /\ UNCHANGED <<cacheVars, registryVars, historyVars>>

\* hc.Do ends within its timeout, and what follows it is immediate.  An expired
\* entry is as good as none, so the store and its history let go of it.
TimePasses ==
    /\ \A p \in Procs : pc[p] \in {"reply", "second"} => now - asked[p] < Timeout
    /\ now' = now + 1
    /\ ledger' = Cache!Forget(Cache!Expired(now'))
    /\ asOf' = [k \in Keys |-> IF k \in Cache!Expired(now') THEN 0 ELSE asOf[k]]
    /\ racedIn' = [k \in Keys |-> k \notin Cache!Expired(now') /\ racedIn[k]]
    /\ misled' = misled \ Cache!Expired(now')
    /\ UNCHANGED <<registryVars, callVars, gone, spared>>

Next == \/ \E p \in Procs, k \in Keys : BeginRead(p, k)
        \/ \E p \in Procs, m \in Manifests : BeginDelete(p, m)
        \/ \E p \in Procs : \/ Hit(p) \/ Missed(p) \/ NotFound(p)
                            \/ \E answer \in Values : Served(p, answer)
                            \/ StoreAnswer(p) \/ StoreTag(p)
                            \/ \E m \in Manifests : StoreDigest(p, m)
                            \/ Deleted(p) \/ Acknowledged(p) \/ AcknowledgedQuietly(p)
                            \/ Fails(p)
        \/ \E t \in Tags, m \in Manifests : Push(t, m)
        \/ TimePasses

Spec == Init /\ [][Next]_vars

-----------------------------------------------------------------------------
Live(k) == ledger[k].value # None /\ now < ledger[k].expires

\* The names that v, read under k, shows to whoever reads it.
NamesOf(k, v) == CASE k \in Tags -> {k, v}
                   [] k \in Digests -> {v}
                   [] k = TagList -> v.tags

Names(k) == NamesOf(k, ledger[k].value)

\* Names whose deletion was acknowledged, and the cache invalidated since.
Swept == gone \ spared

\* No answer from the cache is older than its lifetime and one request:
\* what a tag, a page of tags or a digest reads as was the registry's own answer
\* no longer ago than that (client.go:528-537, 700-707).
AgeBounded ==
    \A k \in Keys : Live(k) => now < asOf[k] + Timeout +
                                    (IF k \in Digests THEN ImmutableTTL ELSE CacheTTL)

\* After a deletion is acknowledged no lookup shows what it removed, unless by
\* an entry that was answered before and stored after the repository was
\* invalidated, or until the next invalidation if the registry acknowledged it
\* with another 2xx than 200 and 202 (client.go:617-629 against 661-707).
GhostsAreRaced ==
    \A k \in Keys : Live(k) /\ Names(k) \cap Swept # {} => racedIn[k]

\* Whatever digests a registry advertises, and whatever bytes it serves, a digest
\* is answered with other bytes than its own only if the registry gave them to a
\* read by that very digest: no read of a tag puts them there
\* (client.go:682-692, 700-706, 906-910).
DigestsFaithful ==
    \A k \in Digests : Live(k) => ledger[k].value = k \/ k \in misled

\* "deleting must invalidate the repository's cache" (client_test.go:2036):
\* what a user was told is deleted is not read from the cache.
DeletedNotServed == \A k \in Keys : Live(k) => Names(k) \cap gone = {}
=============================================================================
