--------------------------- MODULE MCRegistryReads ---------------------------
(* RegistryReads on small instances.                                       *)
EXTENDS RegistryReads, TLC

CONSTANTS MaxNow

MCSymmetry == Permutations(Procs) \cup Permutations(Manifests)

\* Bounds: MaxNow ticks of the clock, and none while the cache holds what a read
\* was misled to or a deletion has spared.
MCNext == Next /\ now' <= MaxNow /\ (now' = 0 \/ misled' \cup spared' = {})
MCSpec == Init /\ [][MCNext]_vars
=============================================================================
