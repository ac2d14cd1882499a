---------------------------- MODULE MCBearerAuth ----------------------------
(* BearerAuth on small instances: reads and deletions of one repository,   *)
(* which share a resource but not a scope, and the catalog.                *)
EXTENDS BearerAuth, TLC

CONSTANTS p1, p2, p3, repo, catalog, pull, delete, list, MaxEvents

MCKinds == {"get", "delete", "catalog"}
MCResourceOf == [k \in MCKinds |-> IF k = "catalog" THEN catalog ELSE repo]
MCScopeOf == [k \in MCKinds |-> CASE k = "get" -> pull
                                  [] k = "delete" -> delete
                                  [] k = "catalog" -> list]
\* Every request wants a token; the credentials may not delete.
MCBearer == [k \in MCKinds |-> "bearer"]
PullAndList == {pull, list}

\* Reads only: a page of tags fanning out.
GetOnly == {"get"}
GetResource == [k \in GetOnly |-> repo]
GetScope == [k \in GetOnly |-> pull]
GetBearer == [k \in GetOnly |-> "bearer"]

MCSymmetry == Permutations(Procs)

\* Bound: MaxEvents ticks of the clock and revocations, together.
MCNext == Next /\ now' + epoch' <= MaxEvents
MCSpec == Init /\ [][MCNext]_vars
MCFairSpec == MCSpec /\ Fairness
=============================================================================
