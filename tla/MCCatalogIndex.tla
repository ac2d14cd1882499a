--------------------------- MODULE MCCatalogIndex ---------------------------
(* CatalogIndex on small instances.                                        *)
EXTENDS CatalogIndex, TLC

CONSTANTS MaxNow

MCSymmetry == Permutations(Procs)

\* Bound: MaxNow ticks of the clock, MaxChanges changes of the registry in all,
\* and none of those while the cache holds a page that a deletion has passed by.
Outdated == \E c \in Cursors : ledger[c].value # None /\ ledger[c].value.from.raced

MCNext == /\ Next
          /\ now' <= MaxNow
          /\ version' <= IF Outdated THEN version ELSE MaxChanges
MCSpec == Init /\ [][MCNext]_vars
MCFairSpec == MCSpec /\ Fairness
=============================================================================
