---------------------------- MODULE CatalogIndex ----------------------------
(***************************************************************************)
(* The list of repositories that the server keeps per registry             *)
(* (internal/server/catalog.go), filled by walking the pages of the        *)
(* client's Catalog call (client.go), which come through the response      *)
(* cache, and dropped by handleDelete (handlers.go).                       *)
(*                                                                         *)
(* Repositories are numbered in the registry's order; a cursor is the last *)
(* name of the page before, and 0 asks for the first page.  The cache is   *)
(* the LossyStore that TTLCache implements, all its catalog keys having    *)
(* the global scope.  version counts the registry's changes; page, walk    *)
(* and index carry, as history, the version and the time of the oldest     *)
(* answer they were made from, and whether a deletion has passed that      *)
(* answer by: it was on its way when the cache was invalidated, or nothing *)
(* was invalidated at all.                                                 *)
(***************************************************************************)
EXTENDS Integers, FiniteSets

CONSTANTS
    Procs,              \* request goroutines
    MaxName,            \* names are 1 .. MaxName
    PageSize,           \* the n of the Catalog call
    MaxCatalogEntries,  \* maxCatalogEntries
    CacheTTL,           \* reg.CacheTTL, of pages and of the list
    Timeout,            \* the longest a call of Catalog takes
    None, Repo, Global,
    MaxChanges,         \* bound: changes made by others
    Faults              \* whether requests may fail

Names == 1 .. MaxName
Cursors == 0 .. MaxName
Zero == -1              \* time.Time{}

ASSUME SizesAssumption == /\ MaxName \in Nat \ {0}
                          /\ PageSize \in Nat \ {0}
                          /\ MaxCatalogEntries \in Nat \ {0}
                          /\ CacheTTL \in Nat \ {0}
                          /\ Timeout \in Nat \ {0}
                          /\ MaxChanges \in Nat
                          /\ Faults \in BOOLEAN

VARIABLES
    ledger, now,   \* the client's cache of catalog pages
    exists, born,  \* registry: repositories, and the version each appeared in
    version,       \* registry: changes so far
    index,         \* the catalogEntry
    load,          \* who holds its load mutex
    pc,
    cursor,        \* walkCatalog: last
    walk,          \* walkCatalog: all
    page,          \* a page between the registry and the cache
    since,         \* when its request was made
    victim,        \* what handleDelete deletes
    queued,        \* history: the walk that ended while this call was queued
    listed,        \* history: the last complete walk found repositories
    returned,      \* history: deletions whose repository came back before they ended
    gone           \* history: repositories whose deletion was acknowledged

cacheVars == <<ledger, now>>
registryVars == <<exists, born, version>>
vars == <<cacheVars, registryVars, index, load, pc, cursor, walk, page, since,
          victim, queued, listed, returned, gone>>

History == [version : Nat, time : Nat, raced : BOOLEAN]
Pages == [names : SUBSET Names, next : Cursors, from : History]

ASSUME NamesAssumption == /\ None \notin Procs \cup Names \cup Pages
                          /\ \A S \in SUBSET Names : None # S

Cache == INSTANCE LossyStore WITH Keys <- Cursors, Repos <- {Repo},
                                  KeyScope <- [c \in Cursors |-> Global], Miss <- None,
                                  Values <- Pages, TTLs <- {CacheTTL}, reply <- <<>>

Walking == {"walk", "request", "reply"}

TypeOK ==
    /\ ledger \in [Cursors -> [value : Pages \cup {None}, expires : Nat]]
    /\ now \in Nat
    /\ exists \subseteq Names
    /\ born \in [Names -> Nat]
    /\ version \in Nat
    /\ index \in [repos : ((SUBSET Names) \ {{}}) \cup {None}, at : Nat \cup {Zero},
                  err : BOOLEAN, from : History]
    /\ load \in Procs \cup {None}
    /\ pc \in [Procs -> {"idle", "queue", "delete", "deleted", "invalidate"} \cup Walking]
    /\ cursor \in [Procs -> Cursors]
    /\ walk \in [Procs -> [all : SUBSET Names, from : History]]
    /\ page \in [Procs -> Pages \cup {None}]
    /\ since \in [Procs -> Nat]
    /\ victim \in [Procs -> Names \cup {None}]
    /\ queued \in [Procs -> {"no", "cold", "warm"}]
    /\ listed \in BOOLEAN
    /\ returned \subseteq Procs
    /\ gone \subseteq Names
    /\ \A p \in Procs : /\ pc[p] \in Walking <=> load = p
                        /\ pc[p] = "reply" <=> page[p] # None
                        /\ pc[p] \in {"delete", "deleted", "invalidate"} <=> victim[p] # None

Fresh0 == [version |-> 0, time |-> 0, raced |-> FALSE]
NoWalk == [all |-> {}, from |-> Fresh0]

Init == /\ Cache!Init
        /\ exists \in SUBSET Names
        /\ born = [r \in Names |-> 0]
        /\ version = 0
        /\ index = [repos |-> None, at |-> Zero, err |-> FALSE, from |-> Fresh0]
        /\ load = None
        /\ pc = [p \in Procs |-> "idle"]
        /\ cursor = [p \in Procs |-> 0]
        /\ walk = [p \in Procs |-> NoWalk]
        /\ page = [p \in Procs |-> None]
        /\ since = [p \in Procs |-> 0]
        /\ victim = [p \in Procs |-> None]
        /\ queued = [p \in Procs |-> "no"]
        /\ listed = FALSE
        /\ returned = {}
        /\ gone = {}

-----------------------------------------------------------------------------
(* The registry.                                                           *)

\* The n smallest members of S.
First(S, n) == {x \in S : Cardinality({y \in S : y <= x}) <= n}

Greatest(S) == CHOOSE x \in S : \A y \in S : y <= x

Appears(r) == /\ r \notin exists
              /\ exists' = exists \cup {r}
              /\ version' = version + 1
              /\ born' = [born EXCEPT ![r] = version + 1]
              /\ gone' = gone \ {r}
              /\ returned' = returned \cup {p \in Procs : /\ pc[p] \in {"deleted", "invalidate"}
                                                          /\ victim[p] = r}

Disappears(r) == /\ r \in exists
                 /\ exists' = exists \ {r}
                 /\ version' = version + 1
                 /\ UNCHANGED born

OthersChange(r) == /\ version < MaxChanges
                   /\ Appears(r) \/ (Disappears(r) /\ UNCHANGED <<returned, gone>>)
                   /\ UNCHANGED <<cacheVars, index, load, pc, cursor, walk, page, since, victim,
                                  queued, listed>>

-----------------------------------------------------------------------------
(* walkCatalog over client.Catalog.                                        *)

GoTo(p, step) == pc' = [pc EXCEPT ![p] = step]

\* nextCursor of a registry without Link headers: a full page may not be the
\* last one.
NextCursor(names) == IF Cardinality(names) = PageSize THEN Greatest(names) ELSE 0

\* What the registry answers to the page after c.
Page(c) == LET names == First({r \in exists : r > c}, PageSize)
           IN  [names |-> names, next |-> NextCursor(names),
                from |-> [version |-> version, time |-> now, raced |-> FALSE]]

Older(a, b) == [version |-> IF a.version < b.version THEN a.version ELSE b.version,
                time |-> IF a.time < b.time THEN a.time ELSE b.time,
                raced |-> a.raced \/ b.raced]

\* The walk with one page more; the list is cut at maxCatalogEntries.
Extended(w, c, v) == [all |-> First(w.all \cup v.names, MaxCatalogEntries),
                      from |-> IF c = 0 THEN v.from ELSE Older(w.from, v.from)]

\* Mutant: the page after a page is not asked for.
LastPageAlways(w, c, v) == TRUE

\* walkCatalog stops at the bound, without a cursor, or on one that repeats.
LastPage(w, c, v) == \/ Cardinality(w.all \cup v.names) >= MaxCatalogEntries
                     \/ v.next = 0
                     \/ v.next = c

\* Mutant: a way out of List forgets the mutex.
UnlockForgotten == load' = load

\* The deferred unlock of List.
Unlock == load' = None

\* The walk's locals and the mutex are given up.
Leave(p) == /\ GoTo(p, "idle")
            /\ Unlock
            /\ cursor' = [cursor EXCEPT ![p] = 0]
            /\ walk' = [walk EXCEPT ![p] = NoWalk]
            /\ page' = [page EXCEPT ![p] = None]
            /\ since' = [since EXCEPT ![p] = 0]
            /\ queued' = [q \in Procs |-> IF q = p THEN "no"
                                          ELSE IF pc[q] # "queue" THEN queued[q]
                                          ELSE IF index.repos = None THEN "cold" ELSE "warm"]

\* Page v of the walk arrives; after the last one the list is replaced.
Absorb(p, v) ==
    LET w == Extended(walk[p], cursor[p], v)
    IN  IF LastPage(walk[p], cursor[p], v)
        THEN /\ index' = [repos |-> IF w.all = {} THEN None ELSE w.all,
                          at |-> now, err |-> FALSE, from |-> w.from]
             /\ listed' = (w.all # {})
             /\ Leave(p)
        ELSE /\ GoTo(p, "walk")
             /\ walk' = [walk EXCEPT ![p] = w]
             /\ cursor' = [cursor EXCEPT ![p] = v.next]
             /\ page' = [page EXCEPT ![p] = None]
             /\ since' = [since EXCEPT ![p] = 0]
             /\ UNCHANGED <<index, listed, load, queued>>

\* Catalog answers from the cache ...
PageCached(p) == /\ pc[p] = "walk"
                 /\ \E v \in Cache!Answers(cursor[p]) \ {None} : Absorb(p, v)
                 /\ UNCHANGED <<cacheVars, registryVars, victim, returned, gone>>

\* ... or asks the registry, ...
PageMissed(p) == /\ pc[p] = "walk"
                 /\ None \in Cache!Answers(cursor[p])
                 /\ GoTo(p, "request")
                 /\ since' = [since EXCEPT ![p] = now]
                 /\ UNCHANGED <<cacheVars, registryVars, index, load, cursor, walk, page,
                                victim, queued, listed, returned, gone>>

PageServed(p) == /\ pc[p] = "request"
                 /\ page' = [page EXCEPT ![p] = Page(cursor[p])]
                 /\ GoTo(p, "reply")
                 /\ UNCHANGED <<cacheVars, registryVars, index, load, cursor, walk,
                                since, victim, queued, listed, returned, gone>>

\* Mutant: pages are kept as long as digest-addressed content.
PageLifetimeImmutable == 60 * CacheTTL

PageLifetime == CacheTTL

\* ... and stores its answer.
PageStored(p) == /\ pc[p] = "reply"
                 /\ Cache!Set(cursor[p], page[p], PageLifetime)
                 /\ Absorb(p, page[p])
                 /\ UNCHANGED <<registryVars, victim, returned, gone>>

-----------------------------------------------------------------------------
(* catalogCache.List and Invalidate.                                       *)

BeginList(p) == /\ pc[p] = "idle"
                /\ GoTo(p, "queue")
                /\ UNCHANGED <<cacheVars, registryVars, index, load, cursor, walk, page, since,
                               victim, queued, listed, returned, gone>>

Fresh == index.at # Zero /\ now - index.at < CacheTTL

\* With the mutex in hand, a list or an error that is fresh is returned ...
ListFresh(p) == /\ pc[p] = "queue" /\ load = None
                /\ Fresh
                /\ GoTo(p, "idle")
                /\ queued' = [queued EXCEPT ![p] = "no"]
                /\ UNCHANGED <<cacheVars, registryVars, index, load, cursor, walk, page, since,
                               victim, listed, returned, gone>>

\* ... and an old one is replaced, under the mutex.
StartWalk(p) == /\ pc[p] = "queue" /\ load = None
                /\ ~Fresh
                /\ load' = p
                /\ GoTo(p, "walk")
                /\ UNCHANGED <<cacheVars, registryVars, index, cursor, walk, page, since,
                               victim, queued, listed, returned, gone>>

\* Mutant: the failure is not remembered.
AfterFailureForgotten(e) == e

\* A failed refresh leaves a list there is as it is; otherwise the failure is
\* kept as a list would be.
AfterFailure(e) == IF e.repos # None THEN e
                   ELSE [e EXCEPT !.at = now, !.err = TRUE]

\* A page cannot be had: refused, timed out, or this caller has gone away.
WalkFails(p) == /\ pc[p] \in Walking
                /\ Faults
                /\ index' = AfterFailure(index)
                /\ Leave(p)
                /\ UNCHANGED <<cacheVars, registryVars, victim, listed, returned, gone>>

\* Mutant: Invalidate lets go of the list itself.
InvalidatedList(e) == [e EXCEPT !.at = Zero, !.repos = None, !.err = TRUE]

\* Mutant: Invalidate does nothing.
InvalidatedNot(e) == e

\* Invalidate only makes the list old.
Invalidated(e) == [e EXCEPT !.at = Zero]

-----------------------------------------------------------------------------
(* handleDelete of the last manifest of a repository.                      *)

BeginDelete(p, r) == /\ pc[p] = "idle"
                     /\ GoTo(p, "delete")
                     /\ victim' = [victim EXCEPT ![p] = r]
                     /\ UNCHANGED <<cacheVars, registryVars, index, load, cursor, walk, page, since,
                                    queued, listed, returned, gone>>

Deleted(p) == /\ pc[p] = "delete"
              /\ Disappears(victim[p])
              /\ GoTo(p, "deleted")
              /\ UNCHANGED <<cacheVars, index, load, cursor, walk, page, since, victim, queued,
                             listed, returned, gone>>

\* A deletion that an answer has outlived is part of its history.
Outlived(v) == IF v = None THEN None ELSE [v EXCEPT !.from.raced = TRUE]

\* DeleteManifest has its 200 or 202 and invalidates the client's cache, ...
ClientInvalidates(p) ==
    /\ pc[p] = "deleted"
    /\ Cache!Invalidate(Repo)
    /\ page' = [q \in Procs |-> Outlived(page[q])]
    /\ GoTo(p, "invalidate")
    /\ UNCHANGED <<registryVars, index, load, cursor, walk, since, victim, queued,
                   listed, returned, gone>>

\* ... or another 2xx, which is no error either, but invalidates nothing.
ClientKeepsPages(p) ==
    /\ pc[p] = "deleted"
    /\ ledger' = [c \in Cursors |-> [ledger[c] EXCEPT !.value = Outlived(@)]]
    /\ page' = [q \in Procs |-> Outlived(page[q])]
    /\ GoTo(p, "invalidate")
    /\ UNCHANGED <<now, registryVars, index, load, cursor, walk, since, victim, queued,
                   listed, returned, gone>>

\* catalog.Invalidate, behind the walk that may hold the mutex; then the
\* redirect tells the user.
Invalidate(p) ==
    /\ pc[p] = "invalidate" /\ load = None
    /\ index' = Invalidated(index)
    /\ GoTo(p, "idle")
    /\ victim' = [victim EXCEPT ![p] = None]
    /\ gone' = gone \cup (IF p \in returned THEN {} ELSE {victim[p]})
    /\ returned' = returned \ {p}
    /\ queued' = [q \in Procs |-> "no"]
    /\ UNCHANGED <<cacheVars, registryVars, load, cursor, walk, page, since, listed>>

\* DeleteManifest returns an error: there is no such manifest, or the request
\* or its answer was lost, with nothing invalidated.
DeleteFails(p) == /\ \/ pc[p] = "delete" /\ victim[p] \notin exists
                     \/ pc[p] \in {"delete", "deleted"} /\ Faults
                  /\ GoTo(p, "idle")
                  /\ victim' = [victim EXCEPT ![p] = None]
                  /\ returned' = returned \ {p}
                  /\ UNCHANGED <<cacheVars, registryVars, index, load, cursor, walk, page, since,
                                 queued, listed, gone>>

\* A request ends within its timeout, and between two requests a walk loses no
\* time.  Expired pages are as good as none.
TimePasses ==
    /\ \A p \in Procs : /\ pc[p] \in {"request", "reply"} => now - since[p] < Timeout
                        /\ pc[p] # "walk"
    /\ now' = now + 1
    /\ ledger' = Cache!Forget(Cache!Expired(now'))
    /\ queued' = [p \in Procs |-> "no"]
    /\ UNCHANGED <<registryVars, index, load, pc, cursor, walk, page, since, victim, listed,
                   returned, gone>>

Walks(p) == PageCached(p) \/ PageMissed(p) \/ PageServed(p) \/ PageStored(p) \/ WalkFails(p)
Lists(p) == ListFresh(p) \/ StartWalk(p)
Deletes(p) == \/ Deleted(p) \/ ClientInvalidates(p) \/ ClientKeepsPages(p)
              \/ Invalidate(p) \/ DeleteFails(p)

Next == \/ \E p \in Procs : BeginList(p) \/ Lists(p) \/ Walks(p) \/ Deletes(p)
        \/ \E p \in Procs, r \in Names : BeginDelete(p, r)
        \/ \E r \in Names : OthersChange(r)
        \/ TimePasses

Spec == Init /\ [][Next]_vars

\* sync.Mutex hands itself over to a starved waiter, and every request ends.
Fairness == \A p \in Procs : /\ WF_vars(Walks(p)) /\ SF_vars(Lists(p))
                             /\ WF_vars(Deletes(p)) /\ SF_vars(Invalidate(p))

-----------------------------------------------------------------------------
Shown == IF index.repos = None THEN {} ELSE index.repos

\* The list misses no repository that was there all the time since its oldest
\* page was served, although its pages are from different moments and the
\* registry changed in between (catalog.go:86-109, client.go:437-483, 965-973).
ListComplete ==
    index.repos # None /\ Cardinality(index.repos) < MaxCatalogEntries
    => {r \in exists : born[r] <= index.from.version} \subseteq index.repos

\* A request that queued while another walked for a registry not listed yet does
\* not walk itself: not even if that walk failed (catalog.go:53-70).
OneWalkWhenCold == \A p \in Procs : pc[p] \in Walking => queued[p] # "cold"

\* Once repositories were listed no failure and no deletion turns the page into
\* an error (catalog.go:61-70, 78-83).
StaleBeatsError == listed => index.repos # None /\ ~index.err

\* After the redirect of a deletion no fresh list shows the repository, unless
\* it was made from a page that a deletion has left in use: one answered before
\* and stored after the client's cache was invalidated, or one from before a
\* deletion whose other 2xx invalidated nothing (handlers.go:558-562,
\* catalog.go:78-83, client.go:619-629).
GhostsAreRaced == Fresh /\ Shown \cap gone # {} => index.from.raced

\* A fresh list is no older than two lifetimes, that of its pages and its own,
\* and the requests of its walk (catalog.go:57, client.go:481).
AgeBounded == Fresh /\ index.repos # None
              => now < index.from.time + 2 * CacheTTL + Timeout * (MaxName + 1)

\* Every request for the list and every deletion returns, whoever walks and
\* whatever fails (catalog.go:54-55, 94-109; handlers.go:558-562).
RequestsReturn == \A p \in Procs : pc[p] # "idle" ~> pc[p] = "idle"
=============================================================================
