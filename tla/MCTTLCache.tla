----------------------------- MODULE MCTTLCache -----------------------------
(* TTLCache on a small instance: two repositories and the catalog.         *)
EXTENDS TTLCacheHistory, TLC

CONSTANTS k1, k2, k3, k4, r1, r2, v1, v2, MaxTick, MaxNow

MCKeys == {k1, k2, k3, k4}
MCRepos == {r1, r2}
\* k1 and k2 are two pages of r1, k3 one of r2, k4 a catalog page.
MCKeyScope == (k1 :> r1) @@ (k2 :> r1) @@ (k3 :> r2) @@ (k4 :> Global)
MCValues == {v1, v2}
MCTTLs == {-1, 1, 2}

\* Two pages of one repository are interchangeable, and so are two values.
MCSymmetry == Permutations({k1, k2}) \cup Permutations(MCValues)

\* Bounds: MaxTick uses of the cache, MaxNow ticks of the clock.
MCInit == HInit
MCNext == HNext /\ tick' <= MaxTick /\ now' <= MaxNow
MCSpec == MCInit /\ [][MCNext]_historyVars
=============================================================================
