------------------------------ MODULE MCFanOut ------------------------------
(* FanOut on small instances.                                              *)
EXTENDS FanOut, TLC

CONSTANTS r1, r2, p1, c1, c2, MaxCancelled

\* Only the first row is an index, of two platforms.
OneIndex == [r \in Requests |-> IF r = r1 THEN {c1, c2} ELSE {}]

\* Bound: so many of the requests that are there are cancelled.
MCNext == Next /\ Cardinality({r \in Requests : cancelled'[r]}) <= MaxCancelled
MCSpec == Init /\ [][MCNext]_vars
MCFairSpec == MCSpec /\ Fairness
=============================================================================
