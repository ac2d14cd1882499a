------------------------------ MODULE TTLCache ------------------------------
(***************************************************************************)
(* The bounded, expiring response cache of a registry client               *)
(* (src/internal/registry/cache.go).  Every method holds c.mu from its     *)
(* first to its last statement, so each one is a single action here.       *)
(*                                                                         *)
(* The clock (c.now) is a discrete one that only moves forward: Go's       *)
(* monotonic reading.  A key belongs to one repository, because every key  *)
(* the client builds spells its repository out ("manifest|repo|ref",       *)
(* "tags|repo|n|last") or is registry-wide ("catalog|n|last").             *)
(***************************************************************************)
EXTENDS Integers, FiniteSets, Functions

CONSTANTS
    Keys,         \* cache keys
    Repos,        \* repositories
    Global,       \* cacheScopeGlobal, the scope of catalog pages
    KeyScope,     \* the scope every set of a key names
    Values,       \* what is stored: response bytes, decoded pages
    Miss,         \* what a lookup answers when it has nothing
    TTLs,         \* the lifetimes callers pass, non-positive ones included
    MaxEntries    \* c.max

ASSUME ScopesAssumption == /\ Global \notin Repos
                           /\ KeyScope \in [Keys -> Repos \cup {Global}]
ASSUME ValuesAssumption == Miss \notin Values
ASSUME TTLsAssumption == TTLs \subseteq Int
\* newTTLCache replaces a non-positive max by a positive default.
ASSUME MaxEntriesAssumption == MaxEntries \in Nat \ {0}

VARIABLES
    entries,      \* c.entries
    tick,         \* c.tick
    now,          \* c.now()
    reply         \* what the last lookup answered, with its key

vars == <<entries, tick, now, reply>>

Entry == [value : Values, repo : Repos \cup {Global}, expires : Nat \ {0}, used : Nat]
NoReply == <<>>
Replies == {NoReply} \cup (Keys \X (Values \cup {Miss}))

TypeOK == /\ DOMAIN entries \subseteq Keys
          /\ entries \in [DOMAIN entries -> Entry]
          /\ tick \in Nat
          /\ now \in Nat
          /\ reply \in Replies

Init == /\ entries = [k \in {} |-> Miss]
        /\ tick = 0
        /\ now = 0
        /\ reply = NoReply

-----------------------------------------------------------------------------
\* Mutant: an entry counts in the very instant it expires.
LiveAtDeadline(e) == now <= e.expires

\* now.Before(e.expires)
Live(e) == now < e.expires

\* target := c.max * 9 / 10
Target == (MaxEntries * 9) \div 10

\* Mutant: the sort is the wrong way round.
Oldest(es, K, n) ==
    {k \in K : Cardinality({j \in K : es[j].used <= es[k].used}) <= n}

\* The n members of K that were used last.
Newest(es, K, n) ==
    {k \in K : Cardinality({j \in K : es[j].used >= es[k].used}) <= n}

\* Mutant: one entry too many is put up with.
OverfullByOne(K) == Cardinality(K) > MaxEntries + 1

Overfull(K) == Cardinality(K) > MaxEntries

\* evictLocked: nothing under the bound; else the expired entries go; and if
\* that is not enough, all but the Target most recently used ones.
Evict(es) ==
    LET live == {k \in DOMAIN es : Live(es[k])}
    IN  IF ~Overfull(DOMAIN es) THEN es
        ELSE IF ~Overfull(live) THEN Restrict(es, live)
        ELSE Restrict(es, Newest(es, live, Target))

\* es with entry e stored under k.
Stored(es, k, e) == [j \in DOMAIN es \cup {k} |-> IF j = k THEN e ELSE es[j]]

\* c.tick++, the stamp of the entry in use.
NextStamp == tick + 1

\* The three ways out of get: no entry, an expired one (dropped), a live one.
GetAbsent(k) == /\ k \notin DOMAIN entries
                /\ reply' = <<k, Miss>>
                /\ UNCHANGED <<entries, tick, now>>

GetExpired(k) == /\ k \in DOMAIN entries
                 /\ ~Live(entries[k])
                 /\ entries' = Restrict(entries, DOMAIN entries \ {k})
                 /\ reply' = <<k, Miss>>
                 /\ UNCHANGED <<tick, now>>

GetHit(k) == /\ k \in DOMAIN entries
             /\ Live(entries[k])
             /\ tick' = NextStamp
             /\ entries' = Stored(entries, k, [entries[k] EXCEPT !.used = NextStamp])
             /\ reply' = <<k, entries[k].value>>
             /\ UNCHANGED now

\* A non-positive lifetime stores nothing.
Storable(ttl) == ttl > 0

\* set with a non-positive lifetime returns before it takes the lock.
SetNothing(ttl) == /\ ~Storable(ttl)
                   /\ reply' = NoReply
                   /\ UNCHANGED <<entries, tick, now>>

Set(k, v, ttl) ==
    /\ Storable(ttl)
    /\ tick' = NextStamp
    /\ entries' = Evict(Stored(entries, k, [value |-> v, repo |-> KeyScope[k],
                                            expires |-> now + ttl, used |-> NextStamp]))
    /\ reply' = NoReply
    /\ UNCHANGED now

\* What a change to repository r may have made untrue.
Doomed(e, r) == e.repo = r \/ e.repo = Global

InvalidateRepo(r) ==
    /\ entries' = Restrict(entries, {k \in DOMAIN entries : ~Doomed(entries[k], r)})
    /\ reply' = NoReply
    /\ UNCHANGED <<tick, now>>

Purge == /\ entries' = [k \in {} |-> Miss]
         /\ reply' = NoReply
         /\ UNCHANGED <<tick, now>>

TimePasses == /\ now' = now + 1
              /\ UNCHANGED <<entries, tick, reply>>

Next == \/ \E k \in Keys : GetAbsent(k)
        \/ \E k \in Keys : GetExpired(k)
        \/ \E k \in Keys : GetHit(k)
        \/ \E ttl \in TTLs : SetNothing(ttl)
        \/ \E k \in Keys, v \in Values, ttl \in TTLs : Set(k, v, ttl)
        \/ \E r \in Repos : InvalidateRepo(r)
        \/ Purge
        \/ TimePasses

Spec == Init /\ [][Next]_vars

-----------------------------------------------------------------------------
\* The bound that evictLocked restores before the lock is given up, whatever
\* mix of expired and live entries it found (cache.go:99-131).
Bounded == Cardinality(DOMAIN entries) <= MaxEntries

\* The LRU order is total and the counter is ahead of it, so the sort in
\* evictLocked has one outcome although SortFunc is not stable and a map's
\* order is random, and the next stamp is the newest (cache.go:74-75, 89-94).
StampsOrdered ==
    /\ \A k \in DOMAIN entries : entries[k].used \in 1 .. tick
    /\ \A j, k \in DOMAIN entries : entries[j].used = entries[k].used => j = k
=============================================================================
