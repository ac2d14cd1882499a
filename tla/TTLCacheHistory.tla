-------------------------- MODULE TTLCacheHistory --------------------------
(***************************************************************************)
(* TTLCache with two history variables, which record what the callers did  *)
(* and never influence a step:                                             *)
(*   ledger   the last value stored under each key, as LossyStore keeps it;*)
(*   lastUse  when each key was last stored or found, 0 for never.         *)
(* They say what the cache should still know, against which its entries    *)
(* are judged; unlike an entry, they survive an eviction.                  *)
(***************************************************************************)
EXTENDS TTLCache

VARIABLES ledger, lastUse

historyVars == <<entries, tick, now, reply, ledger, lastUse>>

Nothing == [value |-> Miss, expires |-> 0]

HInit == /\ Init
         /\ ledger = [k \in Keys |-> Nothing]
         /\ lastUse = [k \in Keys |-> 0]

HTypeOK == /\ ledger \in [Keys -> [value : Values \cup {Miss}, expires : Nat]]
           /\ lastUse \in [Keys -> Nat]

Used(k) == lastUse' = [lastUse EXCEPT ![k] = tick']

HGet(k) == \/ GetAbsent(k) /\ UNCHANGED <<ledger, lastUse>>
           \/ GetExpired(k) /\ UNCHANGED <<ledger, lastUse>>
           \/ GetHit(k) /\ Used(k) /\ UNCHANGED ledger

HSet(k, v, ttl) ==
    /\ Set(k, v, ttl)
    /\ ledger' = [ledger EXCEPT ![k] = [value |-> v, expires |-> now + ttl]]
    /\ Used(k)

HInvalidateRepo(r) ==
    /\ InvalidateRepo(r)
    /\ ledger' = [k \in Keys |-> IF KeyScope[k] \in {r, Global}
                                 THEN Nothing ELSE ledger[k]]
    /\ UNCHANGED lastUse

HPurge == /\ Purge
          /\ ledger' = [k \in Keys |-> Nothing]
          /\ UNCHANGED lastUse

HNext == \/ \E k \in Keys : HGet(k)
         \/ \E ttl \in TTLs : SetNothing(ttl) /\ UNCHANGED <<ledger, lastUse>>
         \/ \E k \in Keys, v \in Values, ttl \in TTLs : HSet(k, v, ttl)
         \/ \E r \in Repos : HInvalidateRepo(r)
         \/ HPurge
         \/ TimePasses /\ UNCHANGED <<ledger, lastUse>>

HSpec == HInit /\ [][HNext]_historyVars

-----------------------------------------------------------------------------
\* The cache, evictions included, is a lossy store: a lookup never answers a
\* value that was overwritten, that expired, or whose repository was
\* invalidated after it was stored (cache.go:61-144).
Store == INSTANCE LossyStore
LossyStoreSpec == Store!Spec

\* Every entry is the ledger's own record of its key, stamped with the key's
\* last use and filed under the scope InvalidateRepo looks for
\* (cache.go:74-75, 89-95, 140).
EntriesMatchHistory ==
    \A k \in DOMAIN entries : /\ entries[k].value = ledger[k].value
                              /\ entries[k].expires = ledger[k].expires
                              /\ entries[k].used = lastUse[k]
                              /\ entries[k].repo = KeyScope[k]

\* The keys that were used no earlier than k.
UsedSince(k) == {j \in Keys : lastUse[j] >= lastUse[k]}

\* Trimming below the limit never costs a caller a recently used value: the
\* Target keys used last are still cached, unless they expired or were
\* invalidated (cache.go:99-131 with the stamps of lines 74 and 89).
WorkingSetKept ==
    \A k \in Keys :
        /\ lastUse[k] > 0
        /\ Cardinality(UsedSince(k)) <= Target
        /\ now < ledger[k].expires
        => k \in DOMAIN entries
=============================================================================
