------------------------------- MODULE FanOut -------------------------------
(***************************************************************************)
(* How a page of lazy tag rows loads one registry: handleTagRow behind the *)
(* per-registry semaphore of Server.acquire (server.go), TagSummary and    *)
(* the goroutines of resolveChildren behind theirs, and client.do with the *)
(* token mutex and the connection limit of the transport (client.go,       *)
(* auth.go).  Image pages (handleImage) use the same client without a row  *)
(* slot.                                                                   *)
(*                                                                         *)
(* Goroutine <<r, 0>> serves request r, <<r, c>> resolves child c of its   *)
(* index.  The caches are left to a choice: a lookup hits or misses.  The  *)
(* registry and its token service are external, and so is net/http, whose  *)
(* Do returns when its context is cancelled or its timeout is over.        *)
(***************************************************************************)
EXTENDS Integers, FiniteSets

CONSTANTS
    Rows,        \* requests for a tag row
    Pages,       \* requests for an image page
    Children,    \* children that indexes have
    ChildrenOf,  \* those a request may find: none if its image is no index
    Slots,       \* perRegistryConcurrency
    ChildSlots,  \* maxChildConcurrency
    Conns,       \* MaxConnsPerHost
    Owner,       \* the number of a request's own goroutine
    None,
    Faults       \* whether requests may fail or time out

Requests == Rows \cup Pages
Goroutines == (Requests \X {Owner}) \cup {g \in Requests \X Children : g[2] \in ChildrenOf[g[1]]}

ASSUME NamesAssumption == /\ Rows \cap Pages = {}
                          /\ Owner \notin Children
                          /\ None \notin Goroutines
ASSUME SetsAssumption == IsFiniteSet(Requests) /\ IsFiniteSet(Children)
ASSUME ChildrenAssumption == ChildrenOf \in [Requests -> SUBSET Children]
ASSUME LimitsAssumption == /\ Slots \in Nat \ {0}
                           /\ ChildSlots \in Nat \ {0}
                           /\ Conns \in Nat \ {0}
                           /\ Faults \in BOOLEAN

VARIABLES
    step,       \* where each goroutine stands
    fetching,   \* what it fetches: a manifest, or the config blob after it
    round,      \* which round of do it is in, as in BearerAuth
    cancelled,  \* whether the request's context is done
    sem,        \* len(s.sem[rid])
    childSem,   \* len(sem) of resolveChildren
    wg,         \* its WaitGroup
    conns,      \* connections in use
    mutex,      \* who holds tokenCache.mu across a token request
    token,      \* whether a fresh token is cached
    challenged  \* whether a challenge is remembered

vars == <<step, fetching, round, cancelled, sem, childSem, wg, conns, mutex, token, challenged>>

\* Where a goroutine waits, works, or has a connection.
Steps == {"idle", "slot", "lookup", "mutex", "tokenconn", "tokensent", "conn", "sent", "children"}

HandlersTyped == /\ step \in [Goroutines -> Steps]
                 /\ fetching \in [Goroutines -> {"manifest", "config"}]
                 /\ round \in [Goroutines -> {"known", "bare", "retry"}]
                 /\ cancelled \in [Requests -> BOOLEAN]
                 /\ sem \in 0 .. Slots
                 /\ childSem \in [Requests -> 0 .. ChildSlots]
                 /\ wg \in [Requests -> Nat]

ClientTyped == /\ conns \in 0 .. Conns
               /\ mutex \in Goroutines \cup {None}
               /\ token \in BOOLEAN
               /\ challenged \in BOOLEAN

TypeOK == HandlersTyped /\ ClientTyped

Init == /\ step = [g \in Goroutines |-> "idle"]
        /\ fetching = [g \in Goroutines |-> "manifest"]
        /\ round = [g \in Goroutines |-> "bare"]
        /\ cancelled = [r \in Requests |-> FALSE]
        /\ sem = 0
        /\ childSem = [r \in Requests |-> 0]
        /\ wg = [r \in Requests |-> 0]
        /\ conns = 0
        /\ mutex = None
        /\ token = FALSE
        /\ challenged = FALSE

Main(r) == <<r, Owner>>
RequestOf(g) == g[1]
IsChild(g) == g[2] # Owner

\* s.sem, the children's semaphore and the WaitGroup, left alone.
limiters == <<sem, childSem, wg>>
\* Connections, token and challenge, left alone.
client == <<conns, mutex, token, challenged>>

GoTo(g, s) == step' = [step EXCEPT ![g] = s]

-----------------------------------------------------------------------------
(* The handlers and the semaphores.                                        *)

\* A row waits for a slot, an image page goes straight to the client.
Begin(r) == /\ step[Main(r)] = "idle"
            /\ GoTo(Main(r), IF r \in Rows THEN "slot" ELSE "lookup")
            /\ UNCHANGED <<fetching, round, cancelled, limiters, client>>

\* acquire: a slot is free ...
Acquire(r) == /\ step[Main(r)] = "slot"
              /\ sem < Slots
              /\ sem' = sem + 1
              /\ GoTo(Main(r), "lookup")
              /\ UNCHANGED <<fetching, round, cancelled, childSem, wg, client>>

\* ... or the user has gone; if both, select takes either.
GiveUp(r) == /\ step[Main(r)] = "slot"
             /\ cancelled[r]
             /\ GoTo(Main(r), "idle")
             /\ cancelled' = [cancelled EXCEPT ![r] = FALSE]
             /\ UNCHANGED <<fetching, round, limiters, client>>

\* The same in the goroutine of a child.
ChildAcquires(g) == /\ IsChild(g) /\ step[g] = "slot"
                    /\ childSem[RequestOf(g)] < ChildSlots
                    /\ childSem' = [childSem EXCEPT ![RequestOf(g)] = @ + 1]
                    /\ GoTo(g, "lookup")
                    /\ UNCHANGED <<fetching, round, cancelled, sem, wg, client>>

ChildGivesUp(g) == /\ IsChild(g) /\ step[g] = "slot"
                   /\ cancelled[RequestOf(g)]
                   /\ wg' = [wg EXCEPT ![RequestOf(g)] = @ - 1]
                   /\ GoTo(g, "idle")
                   /\ UNCHANGED <<fetching, round, cancelled, sem, childSem, client>>

\* Mutant: only a row that was not cancelled gives its slot back.
ReleasesUnlessCancelled(r) == r \in Rows /\ ~cancelled[r]

\* The deferred release of whoever acquired.
Releases(r) == r \in Rows

\* A goroutine is done, its locals are gone.
Ends(g) == /\ GoTo(g, "idle")
           /\ fetching' = [fetching EXCEPT ![g] = "manifest"]
           /\ round' = [round EXCEPT ![g] = "bare"]

\* The handler returns, its deferred release included.
HandlerReturns(r) == /\ Ends(Main(r))
                     /\ sem' = IF Releases(r) THEN sem - 1 ELSE sem
                     /\ cancelled' = [cancelled EXCEPT ![r] = FALSE]
                     /\ UNCHANGED <<childSem, wg>>

\* The goroutine of a child returns, its deferred release and Done included.
ChildReturns(g) == /\ Ends(g)
                   /\ childSem' = [childSem EXCEPT ![RequestOf(g)] = @ - 1]
                   /\ wg' = [wg EXCEPT ![RequestOf(g)] = @ - 1]
                   /\ UNCHANGED <<sem, cancelled>>

\* Nothing more to fetch: no children, no config, or an error.
Returns(g) == IF IsChild(g) THEN ChildReturns(g) ELSE HandlerReturns(RequestOf(g))

\* fillManifest: the config blob comes next.
FetchesConfig(g) == /\ fetching[g] = "manifest"
                    /\ fetching' = [fetching EXCEPT ![g] = "config"]
                    /\ GoTo(g, "lookup")
                    /\ round' = [round EXCEPT ![g] = "bare"]
                    /\ UNCHANGED <<cancelled, limiters>>

\* resolveChildren: a goroutine for each child of an index; children of a child
\* are not resolved.
Spawns(g, K) == /\ ~IsChild(g) /\ fetching[g] = "manifest"
                /\ step' = [h \in Goroutines |->
                              IF h = g THEN "children"
                              ELSE IF RequestOf(h) = RequestOf(g) /\ h[2] \in K THEN "slot"
                              ELSE step[h]]
                /\ wg' = [wg EXCEPT ![RequestOf(g)] = Cardinality(K)]
                /\ round' = [round EXCEPT ![g] = "bare"]
                /\ UNCHANGED <<fetching, cancelled, sem, childSem>>

\* A fetch succeeds.
Fetched(g) == \/ Returns(g)
              \/ FetchesConfig(g)
              \/ \E K \in SUBSET ChildrenOf[RequestOf(g)] \ {{}} : Spawns(g, K)

\* Mutant: the image is built without waiting for the children.
AllDoneAlways(r) == TRUE

\* wg.Wait()
AllDone(r) == wg[r] = 0

ChildrenDone(r) == /\ step[Main(r)] = "children"
                   /\ AllDone(r)
                   /\ HandlerReturns(r)
                   /\ UNCHANGED client

\* The visitor leaves, and net/http cancels the request's context.
Cancel(r) == /\ step[Main(r)] # "idle"
             /\ ~cancelled[r]
             /\ cancelled' = [cancelled EXCEPT ![r] = TRUE]
             /\ UNCHANGED <<step, fetching, round, limiters, client>>

-----------------------------------------------------------------------------
(* client.do: a fetch that the cache does not answer.                      *)

Hit(g) == /\ step[g] = "lookup"
          /\ Fetched(g)
          /\ UNCHANGED client

StartRound(g, r, s) == /\ round' = [round EXCEPT ![g] = r]
                       /\ GoTo(g, s)

Miss(g) == /\ step[g] = "lookup"
           /\ IF challenged THEN StartRound(g, "known", "mutex") ELSE StartRound(g, "bare", "conn")
           /\ UNCHANGED <<fetching, cancelled, limiters, client>>

\* token(): the mutex is taken, whatever has become of the request.
TokenCached(g) == /\ step[g] = "mutex" /\ mutex = None
                  /\ token
                  /\ GoTo(g, "conn")
                  /\ UNCHANGED <<fetching, round, cancelled, limiters, client>>

TokenMissing(g) == /\ step[g] = "mutex" /\ mutex = None
                   /\ ~token
                   /\ mutex' = g
                   /\ GoTo(g, "tokenconn")
                   /\ UNCHANGED <<fetching, round, cancelled, limiters, conns, token, challenged>>

\* A connection is free for a request whose context is live.
Dial(g) == /\ step[g] \in {"conn", "tokenconn"}
           /\ conns < Conns
           /\ ~cancelled[RequestOf(g)]
           /\ conns' = conns + 1
           /\ GoTo(g, IF step[g] = "conn" THEN "sent" ELSE "tokensent")
           /\ UNCHANGED <<fetching, round, cancelled, limiters, mutex, token, challenged>>

\* Drained and closed, the response gives its connection back.
Drain == conns' = conns - 1

\* The token may be too short-lived to be cached.
TokenArrives(g) == /\ step[g] = "tokensent"
                   /\ Drain
                   /\ mutex' = None
                   /\ token' \in BOOLEAN
                   /\ GoTo(g, "conn")
                   /\ UNCHANGED <<fetching, round, cancelled, limiters, challenged>>

\* What lets hc.Do fail.
Aborted(g) == Faults \/ cancelled[RequestOf(g)]

\* requestToken fails, with its connection or without: do goes on without a
\* token in the first round, and gives up after a challenge.
TokenFails(g) == /\ step[g] \in {"tokenconn", "tokensent"}
                 /\ Aborted(g)
                 /\ conns' = IF step[g] = "tokensent" THEN conns - 1 ELSE conns
                 /\ mutex' = None
                 /\ \/ /\ round[g] = "known"
                       /\ StartRound(g, "bare", "conn")
                       /\ UNCHANGED <<fetching, cancelled, limiters>>
                    \/ /\ round[g] = "retry"
                       /\ Returns(g)
                 /\ UNCHANGED <<token, challenged>>

Answered(g) == /\ step[g] = "sent"
               /\ Drain
               /\ Fetched(g)
               /\ UNCHANGED <<mutex, token, challenged>>

\* The request fails, waiting for a connection or for its answer.
SendFails(g) == /\ step[g] \in {"conn", "sent"}
                /\ Aborted(g)
                /\ conns' = IF step[g] = "sent" THEN conns - 1 ELSE conns
                /\ Returns(g)
                /\ UNCHANGED <<mutex, token, challenged>>

\* 401 to the token of a remembered challenge.
KnownRefused(g) == /\ step[g] = "sent" /\ round[g] = "known"
                   /\ Drain
                   /\ StartRound(g, "bare", "conn")
                   /\ UNCHANGED <<fetching, cancelled, limiters, mutex, token, challenged>>

\* Mutant: the response that carried the challenge is drained when do returns.
DrainDeferred == conns' = conns

\* drain(resp) comes before the queue for the token.
DrainFirst == Drain

\* 401 with a challenge to the bare request.
Challenged(g) == /\ step[g] = "sent" /\ round[g] = "bare"
                 /\ DrainFirst
                 /\ challenged' = TRUE
                 /\ StartRound(g, "retry", "mutex")
                 /\ UNCHANGED <<fetching, cancelled, limiters, mutex, token>>

\* Any other error status, a 401 to the retry among them.
Rejected(g) == /\ step[g] = "sent"
               /\ Drain
               /\ Returns(g)
               /\ UNCHANGED <<mutex, token, challenged>>

TokenExpires == /\ token
                /\ token' = FALSE
                /\ UNCHANGED <<step, fetching, round, cancelled, limiters, conns, mutex, challenged>>

\* What the goroutine of request r does outside of the client.
Handles(r) == Acquire(r) \/ GiveUp(r) \/ ChildrenDone(r)

\* What any goroutine does for a child slot and inside of do.
Fetches(g) == \/ ChildAcquires(g) \/ ChildGivesUp(g)
              \/ Hit(g) \/ Miss(g)
              \/ TokenCached(g) \/ TokenMissing(g) \/ TokenArrives(g) \/ TokenFails(g)
              \/ Dial(g) \/ Answered(g) \/ Rejected(g) \/ SendFails(g)
              \/ KnownRefused(g) \/ Challenged(g)

Next == \/ \E r \in Requests : Begin(r) \/ Cancel(r) \/ Handles(r)
        \/ \E g \in Goroutines : Fetches(g)
        \/ TokenExpires

Spec == Init /\ [][Next]_vars

\* Channels, the mutex and the transport serve those who wait in order, and
\* every request sent is answered or times out.
Fairness == \A r \in Requests :
                /\ SF_vars(Handles(r) \/ Fetches(Main(r)))
                /\ \A c \in ChildrenOf[r] : SF_vars(Fetches(<<r, c>>))

-----------------------------------------------------------------------------
Inside(r) == step[Main(r)] \notin {"idle", "slot"}
ChildInside(g) == IsChild(g) /\ step[g] \notin {"idle", "slot"}
Fetching(g) == step[g] \notin {"idle", "slot", "children"}
Connected(g) == step[g] \in {"sent", "tokensent"}

SlotHolders == {r \in Rows : Inside(r)}
ChildSlotHolders(r) == {c \in ChildrenOf[r] : ChildInside(<<r, c>>)}
Unfinished(r) == {c \in ChildrenOf[r] : step[<<r, c>>] # "idle"}
ConnHolders == {g \in Goroutines : Connected(g)}

SlotsCounted == sem = Cardinality(SlotHolders)
ChildrenCounted == \A r \in Requests : /\ childSem[r] = Cardinality(ChildSlotHolders(r))
                                       /\ wg[r] = Cardinality(Unfinished(r))
ConnsCounted == conns = Cardinality(ConnHolders)
MutexHeld == \A g \in Goroutines : step[g] \in {"tokenconn", "tokensent"} <=> mutex = g

\* No way out of a handler, of a child or of do leaks what it acquired or gives
\* back what it has not: every counter is the number of its holders
\* (server.go:238-249, client.go:781-806, 283, 301, auth.go:218-219).
NothingLeaks == SlotsCounted /\ ChildrenCounted /\ ConnsCounted /\ MutexHeld

\* The rows of a page never have more fetches going than both limits allow, for
\* no child outlives the row that holds the slot (server.go:27-30,
\* client.go:780-807).
LoadBounded == Cardinality({g \in Goroutines : RequestOf(g) \in Rows /\ Fetching(g)})
               <= Slots * ChildSlots

\* Whom only another goroutine can let on.
Blocked(g) == CASE step[g] = "slot" -> IF IsChild(g) THEN childSem[RequestOf(g)] = ChildSlots
                                                      ELSE sem = Slots
                [] step[g] = "mutex" -> mutex # None
                [] step[g] \in {"conn", "tokenconn"} -> conns = Conns
                [] step[g] = "children" -> wg[RequestOf(g)] # 0
                [] OTHER -> step[g] = "idle"

\* Four limits wait for one another - slot, child slot, token mutex, connection -
\* but never in a circle, even when one connection is all there is and the token
\* service shares it (server.go:238-249, client.go:283-304, auth.go:218-225).
NeverStuck == (\A g \in Goroutines : Blocked(g)) => \A g \in Goroutines : step[g] = "idle"

\* Every row and every page is answered, whoever else is cancelled, fails or
\* queues (server.go:238-249, client.go:780-807).
RequestsReturn == \A r \in Requests : step[Main(r)] # "idle" ~> step[Main(r)] = "idle"

\* "a user navigating away releases their slot instead of holding it"
\* (ARCHITECTURE.md:193-194): no slot of a cancelled row waits for the token
\* request of another request.
CancelledFreesSlot ==
    \A g \in Goroutines :
        RequestOf(g) \in Rows /\ cancelled[RequestOf(g)] /\ step[g] = "mutex"
        => mutex = None \/ RequestOf(mutex) = RequestOf(g)
=============================================================================
