----------------------------- MODULE LossyStore -----------------------------
(***************************************************************************)
(* What a registry client may rely on when it asks its response cache, and *)
(* nothing about how the cache is built.  The ledger remembers, per key,   *)
(* the value that was last stored and until when it counts.  A lookup may  *)
(* always miss, since the cache is free to forget; but what it answers is  *)
(* the ledger's value, before its expiry, with no invalidation of the      *)
(* key's repository since it was stored.                                   *)
(***************************************************************************)
EXTENDS Integers

CONSTANTS Keys, Repos, Global, KeyScope, Values, Miss, TTLs

VARIABLES ledger, now, reply

vars == <<ledger, now, reply>>

Nothing == [value |-> Miss, expires |-> 0]

Init == /\ ledger = [k \in Keys |-> Nothing]
        /\ now = 0
        /\ reply = <<>>

\* What a lookup of k may answer.
Answers(k) == {Miss} \cup {v \in {ledger[k].value} : now < ledger[k].expires}

Get(k) == /\ \E v \in Answers(k) : reply' = <<k, v>>
          /\ UNCHANGED <<ledger, now>>

\* Storing with a non-positive lifetime is a request to store nothing.
Decline(ttl) == /\ ttl <= 0
                /\ reply' = <<>>
                /\ UNCHANGED <<ledger, now>>

Set(k, v, ttl) == /\ ttl > 0
                  /\ ledger' = [ledger EXCEPT ![k] = [value |-> v, expires |-> now + ttl]]
                  /\ reply' = <<>>
                  /\ UNCHANGED now

Invalidate(r) == /\ ledger' = [k \in Keys |-> IF KeyScope[k] \in {r, Global}
                                              THEN Nothing ELSE ledger[k]]
                 /\ reply' = <<>>
                 /\ UNCHANGED now

Purge == /\ ledger' = [k \in Keys |-> Nothing]
         /\ reply' = <<>>
         /\ UNCHANGED now

\* The clock moves; what has expired by then may be forgotten.
Expired(t) == {k \in Keys : ledger[k].expires <= t}

Forget(F) == [k \in Keys |-> IF k \in F THEN Nothing ELSE ledger[k]]

TimePasses == /\ now' = now + 1
              /\ \E F \in SUBSET Expired(now + 1) : ledger' = Forget(F)
              /\ UNCHANGED reply

Next == \/ \E k \in Keys : Get(k)
        \/ \E ttl \in TTLs : Decline(ttl)
        \/ \E k \in Keys, v \in Values, ttl \in TTLs : Set(k, v, ttl)
        \/ \E r \in Repos : Invalidate(r)
        \/ Purge
        \/ TimePasses

Spec == Init /\ [][Next]_vars
=============================================================================
