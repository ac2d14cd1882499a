---------------------------- MODULE FanOutProofs ----------------------------
(***************************************************************************)
(* Proofs about FanOut for any number of rows, pages and children and any  *)
(* limits.                                                                 *)
(***************************************************************************)
EXTENDS FanOut, FiniteSetTheorems, TLAPS

\* Children run only while their request waits for them, and only rows queue.
InPlace ==
    /\ \A r \in Requests : \A c \in ChildrenOf[r] : step[<<r, c>>] # "idle" => step[Main(r)] = "children"
    /\ \A g \in Goroutines : IsChild(g) => step[g] # "children"
    /\ \A r \in Requests \ Rows : step[Main(r)] # "slot"

\* The inductive invariant, in two halves: what the handlers keep and what the
\* client keeps.
HandlerInv == HandlersTyped /\ SlotsCounted /\ ChildrenCounted /\ InPlace
ClientInv == ClientTyped /\ ConnsCounted /\ MutexHeld
FanOutInv == HandlerInv /\ ClientInv

\* 1 for a member, 0 for another: what it adds to a cardinality.
Counts(x, S) == IF x \in S THEN 1 ELSE 0

-----------------------------------------------------------------------------
(* Goroutines and cardinalities.                                           *)

\* A goroutine is its request's own or that of one of its children.
LEMMA GoroutineFacts ==
    /\ \A r \in Requests : /\ Main(r) \in Goroutines /\ RequestOf(Main(r)) = r /\ ~IsChild(Main(r))
                           /\ \A c \in ChildrenOf[r] : /\ <<r, c>> \in Goroutines
                                                       /\ RequestOf(<<r, c>>) = r
                                                       /\ IsChild(<<r, c>>)
    /\ \A g \in Goroutines : /\ RequestOf(g) \in Requests
                             /\ ~IsChild(g) => g = Main(RequestOf(g))
                             /\ IsChild(g) => g[2] \in ChildrenOf[RequestOf(g)] /\ g = <<RequestOf(g), g[2]>>
<1>1. \A r \in Requests : \A c \in ChildrenOf[r] : c \in Children /\ c # Owner
  BY NamesAssumption, ChildrenAssumption
<1>2. \A r \in Requests : /\ Main(r) \in Goroutines /\ RequestOf(Main(r)) = r /\ ~IsChild(Main(r))
                          /\ \A c \in ChildrenOf[r] : /\ <<r, c>> \in Goroutines
                                                      /\ RequestOf(<<r, c>>) = r
                                                      /\ IsChild(<<r, c>>)
  BY <1>1 DEF Main, RequestOf, IsChild, Goroutines
<1>3. ASSUME NEW g \in Goroutines
      PROVE  /\ RequestOf(g) \in Requests
             /\ ~IsChild(g) => g = Main(RequestOf(g))
             /\ IsChild(g) => g[2] \in ChildrenOf[RequestOf(g)] /\ g = <<RequestOf(g), g[2]>>
  <2>1. CASE g \in Requests \X {Owner}
    BY <2>1 DEF Main, RequestOf, IsChild
  <2>2. CASE g \in Requests \X Children /\ g[2] \in ChildrenOf[g[1]]
    BY <2>2, <1>1 DEF Main, RequestOf, IsChild
  <2> QED
    BY <2>1, <2>2 DEF Goroutines
<1> QED
  BY <1>2, <1>3

\* All there is to count is finite.
LEMMA FiniteFacts ==
    /\ IsFiniteSet(Rows) /\ IsFiniteSet(Goroutines)
    /\ \A r \in Requests : IsFiniteSet(ChildrenOf[r])
<1>1. IsFiniteSet(Rows)
  BY FS_Subset, SetsAssumption DEF Requests
<1>2. IsFiniteSet(Requests \X (Children \cup {Owner}))
  BY FS_Product, FS_AddElement, SetsAssumption
<1>3. Goroutines \in SUBSET (Requests \X (Children \cup {Owner}))
  BY DEF Goroutines
<1>4. IsFiniteSet(Goroutines)
  BY <1>2, <1>3, FS_Subset
<1>5. ASSUME NEW r \in Requests PROVE IsFiniteSet(ChildrenOf[r])
  BY FS_Subset, SetsAssumption, ChildrenAssumption
<1> QED
  BY <1>1, <1>4, <1>5

\* Sets that differ in x at most differ by x in number.
LEMMA CountDiffers ==
    ASSUME NEW S, NEW T, NEW x, IsFiniteSet(S), S \ {x} = T \ {x}
    PROVE  /\ IsFiniteSet(T)
           /\ Cardinality(S) \in Nat /\ Cardinality(T) \in Nat
           /\ Cardinality(T) = Cardinality(S) + Counts(x, T) - Counts(x, S)
<1> DEFINE R == S \ {x}
<1>1. /\ IsFiniteSet(R)
      /\ Cardinality(R) = IF x \in S THEN Cardinality(S) - 1 ELSE Cardinality(S)
  BY FS_RemoveElement
<1>2. T = IF x \in T THEN R \cup {x} ELSE R
  OBVIOUS
<1>3. x \notin R
  OBVIOUS
<1>4. /\ IsFiniteSet(R \cup {x})
      /\ Cardinality(R \cup {x}) = Cardinality(R) + 1
  BY <1>1, <1>3, FS_AddElement
<1> HIDE DEF R
<1>5. Cardinality(S) \in Nat /\ Cardinality(R) \in Nat
  BY <1>1, FS_CardinalityType
<1>6. IsFiniteSet(T) /\ Cardinality(T) = IF x \in T THEN Cardinality(R) + 1 ELSE Cardinality(R)
  BY <1>1, <1>2, <1>4
<1>7. Cardinality(T) \in Nat
  BY <1>6, FS_CardinalityType
<1> QED
  BY <1>1, <1>5, <1>6, <1>7 DEF Counts

\* What the invariant says of the numbers, for finite sets of holders.
LEMMA HoldersFinite ==
    /\ IsFiniteSet(SlotHolders) /\ IsFiniteSet(ConnHolders)
    /\ \A r \in Requests : IsFiniteSet(ChildSlotHolders(r)) /\ IsFiniteSet(Unfinished(r))
<1>1. SlotHolders \in SUBSET Rows /\ ConnHolders \in SUBSET Goroutines
  BY DEF SlotHolders, ConnHolders
<1>2. ASSUME NEW r \in Requests
      PROVE  ChildSlotHolders(r) \in SUBSET ChildrenOf[r] /\ Unfinished(r) \in SUBSET ChildrenOf[r]
  BY DEF ChildSlotHolders, Unfinished
<1> QED
  BY <1>1, <1>2, FiniteFacts, FS_Subset

-----------------------------------------------------------------------------
(* Steps of one goroutine.                                                 *)

\* What a request's own goroutine does changes the count of row slots by its
\* own, and no other.
LEMMA MainMoves ==
    ASSUME HandlersTyped, NEW r \in Requests, NEW s \in Steps, GoTo(Main(r), s)
    PROVE  /\ step' \in [Goroutines -> Steps]
           /\ Cardinality(SlotHolders) \in Nat
           /\ Cardinality(SlotHolders') = Cardinality(SlotHolders)
                                          + Counts(r, SlotHolders') - Counts(r, SlotHolders)
           /\ \A q \in Requests : ChildSlotHolders(q)' = ChildSlotHolders(q) /\ Unfinished(q)' = Unfinished(q)
<1>1. /\ step' \in [Goroutines -> Steps]
      /\ step'[Main(r)] = s
      /\ \A h \in Goroutines : h # Main(r) => step'[h] = step[h]
  BY GoroutineFacts DEF HandlersTyped, GoTo
<1>2. SlotHolders \ {r} = SlotHolders' \ {r}
  <2>1. \A q \in Rows \ {r} : Main(q) \in Goroutines /\ Main(q) # Main(r)
    BY GoroutineFacts DEF Requests
  <2> QED
    BY <1>1, <2>1 DEF SlotHolders, Inside
<1>3. \A q \in Requests : \A c \in ChildrenOf[q] : step'[<<q, c>>] = step[<<q, c>>]
  BY <1>1, GoroutineFacts
<1>4. \A q \in Requests : ChildSlotHolders(q)' = ChildSlotHolders(q) /\ Unfinished(q)' = Unfinished(q)
  BY <1>3 DEF ChildSlotHolders, Unfinished, ChildInside
<1> QED
  BY <1>1, <1>2, <1>4, HoldersFinite, CountDiffers

\* What the goroutine of a child does changes the counts of its own request by
\* its own, and nothing else.
LEMMA ChildMoves ==
    ASSUME HandlersTyped, NEW g \in Goroutines, IsChild(g), NEW s \in Steps, GoTo(g, s)
    PROVE  LET r == RequestOf(g) IN
           /\ step' \in [Goroutines -> Steps]
           /\ SlotHolders' = SlotHolders
           /\ \A q \in Requests \ {r} : ChildSlotHolders(q)' = ChildSlotHolders(q) /\ Unfinished(q)' = Unfinished(q)
           /\ Cardinality(ChildSlotHolders(r)) \in Nat
           /\ Cardinality(ChildSlotHolders(r)') = Cardinality(ChildSlotHolders(r))
                  + Counts(g[2], ChildSlotHolders(r)') - Counts(g[2], ChildSlotHolders(r))
           /\ Cardinality(Unfinished(r)) \in Nat /\ Cardinality(Unfinished(r)') \in Nat
           /\ Cardinality(Unfinished(r)') = Cardinality(Unfinished(r))
                  + Counts(g[2], Unfinished(r)') - Counts(g[2], Unfinished(r))
<1> DEFINE r == RequestOf(g)
<1>1. /\ step' \in [Goroutines -> Steps]
      /\ \A h \in Goroutines : h # g => step'[h] = step[h]
  BY DEF HandlersTyped, GoTo
<1>2. SlotHolders' = SlotHolders
  <2>1. \A q \in Rows : Main(q) \in Goroutines /\ Main(q) # g
    BY GoroutineFacts DEF Requests
  <2> QED
    BY <1>1, <2>1 DEF SlotHolders, Inside
<1>3. r \in Requests /\ g[2] \in ChildrenOf[r] /\ g = <<r, g[2]>>
  BY GoroutineFacts
<1>4. ASSUME NEW q \in Requests, q # r
      PROVE  ChildSlotHolders(q)' = ChildSlotHolders(q) /\ Unfinished(q)' = Unfinished(q)
  <2>1. \A c \in ChildrenOf[q] : step'[<<q, c>>] = step[<<q, c>>]
    BY <1>1, <1>4, GoroutineFacts
  <2> QED
    BY <2>1 DEF ChildSlotHolders, Unfinished, ChildInside
<1>5. \A c \in ChildrenOf[r] \ {g[2]} : step'[<<r, c>>] = step[<<r, c>>]
  BY <1>1, <1>3, GoroutineFacts
<1>6. /\ ChildSlotHolders(r) \ {g[2]} = ChildSlotHolders(r)' \ {g[2]}
      /\ Unfinished(r) \ {g[2]} = Unfinished(r)' \ {g[2]}
  BY <1>5 DEF ChildSlotHolders, Unfinished, ChildInside
<1>7. /\ Cardinality(ChildSlotHolders(r)) \in Nat
      /\ Cardinality(ChildSlotHolders(r)') = Cardinality(ChildSlotHolders(r))
             + Counts(g[2], ChildSlotHolders(r)') - Counts(g[2], ChildSlotHolders(r))
  BY <1>3, <1>6, HoldersFinite, CountDiffers
<1>8. /\ Cardinality(Unfinished(r)) \in Nat /\ Cardinality(Unfinished(r)') \in Nat
      /\ Cardinality(Unfinished(r)') = Cardinality(Unfinished(r))
             + Counts(g[2], Unfinished(r)') - Counts(g[2], Unfinished(r))
  BY <1>3, <1>6, HoldersFinite, CountDiffers
<1> QED
  BY <1>1, <1>2, <1>4, <1>7, <1>8

\* A goroutine that fetches before and after holds what it held.
LEMMA WorkingKeepsHandlerInv ==
    ASSUME HandlerInv, NEW g \in Goroutines, Fetching(g),
           NEW s \in Steps \ {"idle", "slot", "children"}, GoTo(g, s),
           UNCHANGED <<cancelled, limiters>>,
           fetching' \in [Goroutines -> {"manifest", "config"}],
           round' \in [Goroutines -> {"known", "bare", "retry"}]
    PROVE  HandlerInv'
<1>1. /\ step' \in [Goroutines -> Steps]
      /\ \A h \in Goroutines : \/ step'[h] = step[h]
                               \/ /\ step[h] \notin {"idle", "slot", "children"}
                                  /\ step'[h] \notin {"idle", "slot", "children"}
  BY DEF HandlerInv, HandlersTyped, GoTo, Fetching
<1>2. HandlersTyped'
  BY <1>1 DEF HandlerInv, HandlersTyped, limiters
<1>3. SlotHolders' = SlotHolders
  BY <1>1, GoroutineFacts DEF SlotHolders, Inside, Requests
<1>4. ASSUME NEW r \in Requests
      PROVE  ChildSlotHolders(r)' = ChildSlotHolders(r) /\ Unfinished(r)' = Unfinished(r)
  BY <1>1, GoroutineFacts DEF ChildSlotHolders, Unfinished, ChildInside
<1>5. InPlace'
  BY <1>1, GoroutineFacts DEF HandlerInv, InPlace
<1> QED
  BY <1>2, <1>3, <1>4, <1>5 DEF HandlerInv, SlotsCounted, ChildrenCounted, limiters

\* A request's own goroutine that has no children running may move on, if the
\* count of row slots follows it.
LEMMA MainKeepsHandlerInv ==
    ASSUME HandlerInv, NEW r \in Requests, NEW s \in Steps, GoTo(Main(r), s),
           s = "slot" => r \in Rows,
           \A c \in ChildrenOf[r] : step[<<r, c>>] = "idle",
           UNCHANGED <<childSem, wg>>,
           sem' = sem + Counts(r, SlotHolders') - Counts(r, SlotHolders),
           sem' <= Slots,
           cancelled' \in [Requests -> BOOLEAN],
           fetching' \in [Goroutines -> {"manifest", "config"}],
           round' \in [Goroutines -> {"known", "bare", "retry"}]
    PROVE  HandlerInv'
<1>1. /\ step' \in [Goroutines -> Steps]
      /\ Cardinality(SlotHolders) \in Nat
      /\ Cardinality(SlotHolders') = Cardinality(SlotHolders)
                                     + Counts(r, SlotHolders') - Counts(r, SlotHolders)
      /\ \A q \in Requests : ChildSlotHolders(q)' = ChildSlotHolders(q) /\ Unfinished(q)' = Unfinished(q)
  BY MainMoves DEF HandlerInv
<1>2. sem' = Cardinality(SlotHolders')
  BY <1>1 DEF HandlerInv, SlotsCounted
<1>3. IsFiniteSet(SlotHolders)'
  <2>1. SlotHolders' \in SUBSET Rows
    BY DEF SlotHolders
  <2> QED
    BY <2>1, FiniteFacts, FS_Subset
<1>4. sem' \in 0 .. Slots
  BY <1>2, <1>3, FS_CardinalityType, LimitsAssumption DEF SlotsCounted
<1>5. HandlersTyped'
  BY <1>1, <1>4 DEF HandlerInv, HandlersTyped
<1>6. InPlace'
  <2>1. \A h \in Goroutines : h # Main(r) => step'[h] = step[h]
    BY DEF HandlerInv, HandlersTyped, GoTo
  <2>2. ASSUME NEW q \in Requests, NEW c \in ChildrenOf[q]
        PROVE  step'[<<q, c>>] = step[<<q, c>>]
    <3>1. <<q, c>> \in Goroutines /\ IsChild(<<q, c>>) /\ ~IsChild(Main(r))
      BY GoroutineFacts
    <3> QED
      BY <2>1, <3>1
  <2>3. \A q \in Requests : q # r => step'[Main(q)] = step[Main(q)]
    BY <2>1, GoroutineFacts
  <2>4. \A g \in Goroutines : IsChild(g) => step'[g] = step[g]
    BY <2>1, GoroutineFacts
  <2>5. step'[Main(r)] = s
    BY GoroutineFacts DEF HandlerInv, HandlersTyped, GoTo
  <2> QED
    BY <2>2, <2>3, <2>4, <2>5 DEF HandlerInv, InPlace
<1> QED
  BY <1>1, <1>2, <1>5, <1>6 DEF HandlerInv, SlotsCounted, ChildrenCounted

\* A child may move on, if the counts of its request follow it.
LEMMA ChildKeepsHandlerInv ==
    ASSUME HandlerInv, NEW g \in Goroutines, IsChild(g), step[g] # "idle",
           NEW s \in Steps \ {"children"}, GoTo(g, s),
           UNCHANGED <<sem, cancelled>>,
           NEW r, r = RequestOf(g),
           NEW n, childSem' = [childSem EXCEPT ![r] = n], n <= ChildSlots,
           n = childSem[r] + Counts(g[2], ChildSlotHolders(r)') - Counts(g[2], ChildSlotHolders(r)),
           NEW m, wg' = [wg EXCEPT ![r] = m],
           m = wg[r] + Counts(g[2], Unfinished(r)') - Counts(g[2], Unfinished(r)),
           fetching' \in [Goroutines -> {"manifest", "config"}],
           round' \in [Goroutines -> {"known", "bare", "retry"}]
    PROVE  HandlerInv'
<1>1. r \in Requests /\ g[2] \in ChildrenOf[r] /\ g = <<r, g[2]>>
  BY GoroutineFacts
<1>2. /\ step' \in [Goroutines -> Steps]
      /\ SlotHolders' = SlotHolders
      /\ \A q \in Requests \ {r} : ChildSlotHolders(q)' = ChildSlotHolders(q) /\ Unfinished(q)' = Unfinished(q)
      /\ Cardinality(ChildSlotHolders(r)) \in Nat
      /\ Cardinality(ChildSlotHolders(r)') = Cardinality(ChildSlotHolders(r))
             + Counts(g[2], ChildSlotHolders(r)') - Counts(g[2], ChildSlotHolders(r))
      /\ Cardinality(Unfinished(r)) \in Nat /\ Cardinality(Unfinished(r)') \in Nat
      /\ Cardinality(Unfinished(r)') = Cardinality(Unfinished(r))
             + Counts(g[2], Unfinished(r)') - Counts(g[2], Unfinished(r))
  BY ChildMoves DEF HandlerInv
<1>3. IsFiniteSet(ChildSlotHolders(r)')
  <2>1. ChildSlotHolders(r)' \in SUBSET ChildrenOf[r]
    BY DEF ChildSlotHolders
  <2> QED
    BY <1>1, <2>1, FiniteFacts, FS_Subset
<1>4. /\ childSem'[r] = Cardinality(ChildSlotHolders(r)') /\ childSem'[r] <= ChildSlots
      /\ wg'[r] = Cardinality(Unfinished(r)')
  BY <1>1, <1>2 DEF HandlerInv, HandlersTyped, ChildrenCounted
<1>5. childSem'[r] \in 0 .. ChildSlots /\ wg'[r] \in Nat
  BY <1>2, <1>3, <1>4, FS_CardinalityType, LimitsAssumption
<1>6. /\ childSem' \in [Requests -> 0 .. ChildSlots] /\ wg' \in [Requests -> Nat]
      /\ \A q \in Requests \ {r} : childSem'[q] = childSem[q] /\ wg'[q] = wg[q]
  BY <1>1, <1>5 DEF HandlerInv, HandlersTyped
<1>7. HandlersTyped'
  BY <1>2, <1>6 DEF HandlerInv, HandlersTyped
<1>8. ChildrenCounted'
  BY <1>2, <1>4, <1>6 DEF HandlerInv, ChildrenCounted
<1>9. InPlace'
  <2>1. \A h \in Goroutines : h # g => step'[h] = step[h]
    BY DEF HandlerInv, HandlersTyped, GoTo
  <2>2. step'[g] # "children"
    BY DEF HandlerInv, HandlersTyped, GoTo
  <2>3. \A q \in Requests : step'[Main(q)] = step[Main(q)]
    BY <2>1, GoroutineFacts
  <2>4. step[Main(r)] = "children"
    BY <1>1 DEF HandlerInv, InPlace
  <2>5. ASSUME NEW q \in Requests, NEW c \in ChildrenOf[q], step'[<<q, c>>] # "idle"
        PROVE  step'[Main(q)] = "children"
    <3>1. CASE <<q, c>> = g
      BY <1>1, <2>3, <2>4, <3>1
    <3>2. CASE <<q, c>> # g
      BY <2>1, <2>3, <2>5, <3>2, GoroutineFacts DEF HandlerInv, InPlace
    <3> QED
      BY <3>1, <3>2
  <2> QED
    BY <2>1, <2>2, <2>3, <2>5 DEF HandlerInv, InPlace
<1> QED
  BY <1>2, <1>7, <1>8, <1>9 DEF HandlerInv, SlotsCounted

-----------------------------------------------------------------------------
(* What handlers, fetches and children do.                                 *)

\* A handler that returns while none of its children runs gives back what it
\* acquired.
LEMMA ReturningKeepsHandlerInv ==
    ASSUME HandlerInv, NEW r \in Requests, Inside(r), HandlerReturns(r),
           \A c \in ChildrenOf[r] : step[<<r, c>>] = "idle"
    PROVE  HandlerInv'
<1>1. GoTo(Main(r), "idle") /\ "idle" \in Steps
  BY DEF HandlerReturns, Ends, Steps
<1>2. step'[Main(r)] = "idle"
  BY <1>1, GoroutineFacts DEF HandlerInv, HandlersTyped, GoTo
<1>3. Counts(r, SlotHolders) = (IF r \in Rows THEN 1 ELSE 0) /\ Counts(r, SlotHolders') = 0
  BY <1>2 DEF Counts, SlotHolders, Inside
<1>4. /\ sem' = sem + Counts(r, SlotHolders') - Counts(r, SlotHolders)
      /\ sem' <= Slots
  BY <1>3, LimitsAssumption DEF HandlerReturns, Releases, HandlerInv, HandlersTyped
<1>5. /\ cancelled' \in [Requests -> BOOLEAN]
      /\ fetching' \in [Goroutines -> {"manifest", "config"}]
      /\ round' \in [Goroutines -> {"known", "bare", "retry"}]
  BY DEF HandlerReturns, Ends, HandlerInv, HandlersTyped
<1> QED
  BY <1>1, <1>4, <1>5, MainKeepsHandlerInv DEF HandlerReturns

\* So does a child.
LEMMA ChildReturningKeepsHandlerInv ==
    ASSUME HandlerInv, NEW g \in Goroutines, ChildInside(g), ChildReturns(g)
    PROVE  HandlerInv'
<1> DEFINE r == RequestOf(g)
<1>1. IsChild(g) /\ step[g] # "idle" /\ r \in Requests /\ g[2] \in ChildrenOf[r] /\ g = <<r, g[2]>>
  BY GoroutineFacts DEF ChildInside
<1>2. GoTo(g, "idle") /\ "idle" \in Steps
  BY DEF ChildReturns, Ends, Steps
<1>3. step'[g] = "idle"
  BY <1>2 DEF HandlerInv, HandlersTyped, GoTo
<1>4. /\ Counts(g[2], ChildSlotHolders(r)) = 1 /\ Counts(g[2], ChildSlotHolders(r)') = 0
      /\ Counts(g[2], Unfinished(r)) = 1 /\ Counts(g[2], Unfinished(r)') = 0
  BY <1>1, <1>3 DEF Counts, ChildSlotHolders, Unfinished, ChildInside
<1>5. /\ childSem' = [childSem EXCEPT ![r] = childSem[r] - 1]
      /\ wg' = [wg EXCEPT ![r] = wg[r] - 1]
      /\ UNCHANGED <<sem, cancelled>>
      /\ fetching' \in [Goroutines -> {"manifest", "config"}]
      /\ round' \in [Goroutines -> {"known", "bare", "retry"}]
  BY DEF ChildReturns, Ends, HandlerInv, HandlersTyped
<1>6. childSem[r] \in 0 .. ChildSlots /\ wg[r] \in Nat
  BY <1>1 DEF HandlerInv, HandlersTyped
<1>7. childSem[r] - 1 <= ChildSlots /\ childSem[r] - 1 = childSem[r] + 0 - 1 /\ wg[r] - 1 = wg[r] + 0 - 1
  BY <1>6, LimitsAssumption
<1> QED
  BY <1>1, <1>2, <1>4, <1>5, <1>7, ChildKeepsHandlerInv

\* A request's own goroutine that fetches has no children yet.
LEMMA FetchingAlone ==
    ASSUME HandlerInv, NEW g \in Goroutines, Fetching(g), ~IsChild(g)
    PROVE  LET r == RequestOf(g) IN
           /\ r \in Requests /\ g = Main(r) /\ Inside(r)
           /\ \A c \in ChildrenOf[r] : step[<<r, c>>] = "idle"
BY GoroutineFacts DEF HandlerInv, InPlace, Fetching, Inside

\* A new goroutine for each child of an index.
LEMMA SpawningKeepsHandlerInv ==
    ASSUME HandlerInv, NEW g \in Goroutines, Fetching(g),
           NEW K \in SUBSET ChildrenOf[RequestOf(g)], Spawns(g, K)
    PROVE  HandlerInv'
<1> DEFINE r == RequestOf(g)
<1>1. /\ r \in Requests /\ g = Main(r) /\ Inside(r) /\ ~IsChild(g)
      /\ \A c \in ChildrenOf[r] : step[<<r, c>>] = "idle"
  BY FetchingAlone DEF Spawns
<1>2. /\ step' \in [Goroutines -> Steps]
      /\ step'[g] = "children"
      /\ \A c \in ChildrenOf[r] : step'[<<r, c>>] = IF c \in K THEN "slot" ELSE "idle"
      /\ \A h \in Goroutines : RequestOf(h) # r => step'[h] = step[h]
      /\ \A h \in Goroutines : h # g => step'[h] \in {step[h], "slot"}
  <2>1. step' = [h \in Goroutines |->
                   IF h = g THEN "children"
                   ELSE IF RequestOf(h) = r /\ h[2] \in K THEN "slot"
                   ELSE step[h]]
    BY DEF Spawns
  <2>2. step' \in [Goroutines -> Steps]
    BY <2>1 DEF HandlerInv, HandlersTyped, Steps
  <2>3. ASSUME NEW c \in ChildrenOf[r]
        PROVE  step'[<<r, c>>] = IF c \in K THEN "slot" ELSE "idle"
    <3>1. /\ <<r, c>> \in Goroutines /\ RequestOf(<<r, c>>) = r /\ <<r, c>>[2] = c
          /\ <<r, c>> # g /\ step[<<r, c>>] = "idle"
      BY <1>1, GoroutineFacts
    <3> QED
      BY <2>1, <3>1
  <2> QED
    BY <2>1, <2>2, <2>3
<1>3. SlotHolders' = SlotHolders
  <2>1. ASSUME NEW q \in Rows PROVE Inside(q)' <=> Inside(q)
    <3>1. q \in Requests /\ Main(q) \in Goroutines /\ RequestOf(Main(q)) = q
      BY GoroutineFacts DEF Requests
    <3> QED
      BY <1>1, <1>2, <3>1 DEF Inside
  <2> QED
    BY <2>1 DEF SlotHolders
<1>4. ASSUME NEW q \in Requests \ {r}
      PROVE  ChildSlotHolders(q)' = ChildSlotHolders(q) /\ Unfinished(q)' = Unfinished(q)
  <2>1. \A c \in ChildrenOf[q] : step'[<<q, c>>] = step[<<q, c>>]
    BY <1>2, GoroutineFacts
  <2> QED
    BY <2>1 DEF ChildSlotHolders, Unfinished, ChildInside
<1>5. /\ ChildSlotHolders(r) = {} /\ ChildSlotHolders(r)' = {}
      /\ Unfinished(r)' = K
  BY <1>1, <1>2 DEF ChildSlotHolders, Unfinished, ChildInside
<1>6. Cardinality(K) \in Nat
  BY <1>1, FiniteFacts, FS_Subset, FS_CardinalityType
<1>7. /\ UNCHANGED <<fetching, cancelled, sem, childSem>>
      /\ wg' = [wg EXCEPT ![r] = Cardinality(K)]
      /\ round' = [round EXCEPT ![g] = "bare"]
  BY DEF Spawns
<1>8. HandlersTyped'
  BY <1>2, <1>6, <1>7 DEF HandlerInv, HandlersTyped
<1>9. ChildrenCounted'
  <2>1. wg'[r] = Cardinality(K) /\ \A q \in Requests \ {r} : wg'[q] = wg[q]
    BY <1>1, <1>7 DEF HandlerInv, HandlersTyped
  <2> QED
    BY <1>4, <1>5, <1>7, <2>1 DEF HandlerInv, ChildrenCounted
<1>10. InPlace'
  <2>1. \A q \in Requests : \A c \in ChildrenOf[q] : step'[<<q, c>>] # "idle" => step'[Main(q)] = "children"
    BY <1>1, <1>2, GoroutineFacts DEF HandlerInv, InPlace
  <2>2. \A h \in Goroutines : IsChild(h) => step'[h] # "children"
    BY <1>1, <1>2 DEF HandlerInv, InPlace
  <2>3. \A q \in Requests \ Rows : step'[Main(q)] # "slot"
    BY <1>1, <1>2, GoroutineFacts DEF HandlerInv, InPlace
  <2> QED
    BY <2>1, <2>2, <2>3 DEF InPlace
<1> QED
  BY <1>3, <1>7, <1>8, <1>9, <1>10 DEF HandlerInv, SlotsCounted

\* Whoever fetches may return, ...
LEMMA ReturnsKeepsHandlerInv ==
    ASSUME HandlerInv, NEW g \in Goroutines, Fetching(g), Returns(g)
    PROVE  HandlerInv'
<1>1. CASE IsChild(g)
  BY <1>1, ChildReturningKeepsHandlerInv DEF Returns, ChildInside, Fetching
<1>2. CASE ~IsChild(g)
  BY <1>2, FetchingAlone, ReturningKeepsHandlerInv DEF Returns
<1> QED
  BY <1>1, <1>2

\* ... and may go on with what it has got.
LEMMA FetchedKeepsHandlerInv ==
    ASSUME HandlerInv, NEW g \in Goroutines, Fetching(g), Fetched(g)
    PROVE  HandlerInv'
<1>1. CASE Returns(g)
  BY <1>1, ReturnsKeepsHandlerInv
<1>2. CASE FetchesConfig(g)
  <2>1. /\ fetching' \in [Goroutines -> {"manifest", "config"}]
        /\ round' \in [Goroutines -> {"known", "bare", "retry"}]
        /\ "lookup" \in Steps \ {"idle", "slot", "children"}
    BY <1>2 DEF FetchesConfig, HandlerInv, HandlersTyped, Steps
  <2> QED
    BY <1>2, <2>1, WorkingKeepsHandlerInv DEF FetchesConfig
<1>3. CASE \E K \in SUBSET ChildrenOf[RequestOf(g)] \ {{}} : Spawns(g, K)
  BY <1>3, SpawningKeepsHandlerInv
<1> QED
  BY <1>1, <1>2, <1>3 DEF Fetched

\* The actions of a request's own goroutine outside of the client.
LEMMA HandlesKeepsHandlerInv ==
    ASSUME HandlerInv, NEW r \in Requests, Begin(r) \/ Cancel(r) \/ Handles(r)
    PROVE  HandlerInv'
<1>1. /\ fetching \in [Goroutines -> {"manifest", "config"}]
      /\ round \in [Goroutines -> {"known", "bare", "retry"}]
      /\ cancelled \in [Requests -> BOOLEAN] /\ sem \in 0 .. Slots
  BY DEF HandlerInv, HandlersTyped
<1>2. Main(r) \in Goroutines
  BY GoroutineFacts
<1>3. ASSUME step[Main(r)] # "children"
      PROVE  \A c \in ChildrenOf[r] : step[<<r, c>>] = "idle"
  BY <1>3 DEF HandlerInv, InPlace
<1>4. ASSUME NEW s \in Steps, GoTo(Main(r), s) PROVE step'[Main(r)] = s
  BY <1>2, <1>4 DEF GoTo, HandlerInv, HandlersTyped
<1>5. CASE Begin(r)
  <2> DEFINE s == IF r \in Rows THEN "slot" ELSE "lookup"
  <2>1. s \in Steps /\ GoTo(Main(r), s) /\ step[Main(r)] = "idle" /\ (s = "slot" => r \in Rows)
    BY <1>5 DEF Begin, Steps
  <2>2. UNCHANGED <<fetching, round, cancelled, sem, childSem, wg>>
    BY <1>5 DEF Begin, limiters
  <2>3. Counts(r, SlotHolders) = 0 /\ Counts(r, SlotHolders') = 0
    BY <1>4, <2>1 DEF Counts, SlotHolders, Inside
  <2>4. sem' = sem + 0 - 0 /\ sem' <= Slots
    BY <1>1, <2>2, LimitsAssumption
  <2> HIDE DEF s
  <2> QED
    BY <1>1, <1>3, <2>1, <2>2, <2>3, <2>4, MainKeepsHandlerInv
<1>6. CASE Cancel(r)
  <2>1. UNCHANGED <<step, fetching, round, sem, childSem, wg>> /\ cancelled' \in [Requests -> BOOLEAN]
    BY <1>1, <1>6 DEF Cancel, limiters
  <2>2. /\ SlotHolders' = SlotHolders
        /\ \A q \in Requests : ChildSlotHolders(q)' = ChildSlotHolders(q) /\ Unfinished(q)' = Unfinished(q)
    BY <2>1 DEF SlotHolders, Inside, ChildSlotHolders, ChildInside, Unfinished
  <2>3. HandlersTyped' /\ InPlace'
    BY <2>1 DEF HandlerInv, HandlersTyped, InPlace
  <2> QED
    BY <2>1, <2>2, <2>3 DEF HandlerInv, SlotsCounted, ChildrenCounted
<1>7. CASE Acquire(r)
  <2>1. GoTo(Main(r), "lookup") /\ "lookup" \in Steps /\ step[Main(r)] = "slot" /\ r \in Rows
    BY <1>7 DEF Acquire, Steps, HandlerInv, InPlace
  <2>2. UNCHANGED <<fetching, round, cancelled, childSem, wg>>
    BY <1>7 DEF Acquire
  <2>3. Counts(r, SlotHolders) = 0 /\ Counts(r, SlotHolders') = 1
    BY <1>4, <2>1 DEF Counts, SlotHolders, Inside
  <2>4. sem' = sem + 1 - 0 /\ sem' <= Slots
    BY <1>1, <1>7, LimitsAssumption DEF Acquire
  <2> QED
    BY <1>1, <1>3, <2>1, <2>2, <2>3, <2>4, MainKeepsHandlerInv
<1>8. CASE GiveUp(r)
  <2>1. GoTo(Main(r), "idle") /\ "idle" \in Steps /\ step[Main(r)] = "slot"
    BY <1>8 DEF GiveUp, Steps
  <2>2. UNCHANGED <<fetching, round, sem, childSem, wg>> /\ cancelled' \in [Requests -> BOOLEAN]
    BY <1>1, <1>8 DEF GiveUp, limiters
  <2>3. Counts(r, SlotHolders) = 0 /\ Counts(r, SlotHolders') = 0
    BY <1>4, <2>1 DEF Counts, SlotHolders, Inside
  <2>4. sem' = sem + 0 - 0 /\ sem' <= Slots
    BY <1>1, <2>2, LimitsAssumption
  <2> QED
    BY <1>1, <1>3, <2>1, <2>2, <2>3, <2>4, MainKeepsHandlerInv
<1>9. CASE ChildrenDone(r)
  <2>1. Cardinality(Unfinished(r)) = 0
    BY <1>9 DEF ChildrenDone, AllDone, HandlerInv, ChildrenCounted
  <2>2. Unfinished(r) = {}
    BY <2>1, HoldersFinite, FS_EmptySet
  <2>3. \A c \in ChildrenOf[r] : step[<<r, c>>] = "idle"
    BY <2>2 DEF Unfinished
  <2> QED
    BY <1>9, <2>3, ReturningKeepsHandlerInv DEF ChildrenDone, Inside
<1> QED
  BY <1>5, <1>6, <1>7, <1>8, <1>9 DEF Handles

\* A step of client.do that is not its last.
LEMMA WorksKeepsHandlerInv ==
    ASSUME HandlerInv, NEW g \in Goroutines,
           Miss(g) \/ TokenCached(g) \/ TokenMissing(g) \/ TokenArrives(g) \/ Dial(g)
           \/ KnownRefused(g) \/ Challenged(g)
    PROVE  HandlerInv'
<1>1. /\ Fetching(g)
      /\ \E s \in {"mutex", "conn", "tokenconn", "sent", "tokensent"} : GoTo(g, s)
  BY DEF Miss, TokenCached, TokenMissing, TokenArrives, Dial, KnownRefused, Challenged, StartRound, Fetching
<1>2. /\ UNCHANGED <<fetching, cancelled, limiters>>
      /\ round' = round \/ \E s \in {"known", "bare", "retry"} : round' = [round EXCEPT ![g] = s]
  BY DEF Miss, TokenCached, TokenMissing, TokenArrives, Dial, KnownRefused, Challenged, StartRound
<1>3. /\ fetching' \in [Goroutines -> {"manifest", "config"}]
      /\ round' \in [Goroutines -> {"known", "bare", "retry"}]
  BY <1>2 DEF HandlerInv, HandlersTyped
<1>4. PICK s \in {"mutex", "conn", "tokenconn", "sent", "tokensent"} : GoTo(g, s)
  BY <1>1
<1>5. s \in Steps \ {"idle", "slot", "children"}
  BY DEF Steps
<1> QED
  BY <1>1, <1>2, <1>3, <1>4, <1>5, WorkingKeepsHandlerInv

\* A step of client.do that may be its last.
LEMMA EndsKeepsHandlerInv ==
    ASSUME HandlerInv, NEW g \in Goroutines,
           Hit(g) \/ Answered(g) \/ Rejected(g) \/ SendFails(g) \/ TokenFails(g)
    PROVE  HandlerInv'
<1>1. Fetching(g)
  BY DEF Hit, Answered, Rejected, SendFails, TokenFails, Fetching
<1>2. \/ Fetched(g)
      \/ StartRound(g, "bare", "conn") /\ UNCHANGED <<fetching, cancelled, limiters>>
  BY DEF Hit, Answered, Rejected, SendFails, TokenFails, Fetched
<1>3. CASE StartRound(g, "bare", "conn") /\ UNCHANGED <<fetching, cancelled, limiters>>
  <2>1. /\ fetching' \in [Goroutines -> {"manifest", "config"}]
        /\ round' \in [Goroutines -> {"known", "bare", "retry"}]
        /\ "conn" \in Steps \ {"idle", "slot", "children"}
    BY <1>3 DEF StartRound, HandlerInv, HandlersTyped, Steps
  <2> QED
    BY <1>1, <1>3, <2>1, WorkingKeepsHandlerInv DEF StartRound
<1> QED
  BY <1>1, <1>2, <1>3, FetchedKeepsHandlerInv

\* A child gets its slot, or gives up waiting for one.
LEMMA ChildStartsKeepsHandlerInv ==
    ASSUME HandlerInv, NEW g \in Goroutines, ChildAcquires(g) \/ ChildGivesUp(g)
    PROVE  HandlerInv'
<1> DEFINE r == RequestOf(g)
<1>1. IsChild(g) /\ step[g] = "slot" /\ r \in Requests /\ g[2] \in ChildrenOf[r] /\ g = <<r, g[2]>>
  BY GoroutineFacts DEF ChildAcquires, ChildGivesUp
<1>2. /\ fetching' \in [Goroutines -> {"manifest", "config"}]
      /\ round' \in [Goroutines -> {"known", "bare", "retry"}]
      /\ UNCHANGED <<sem, cancelled>>
      /\ childSem[r] \in 0 .. ChildSlots /\ wg[r] \in Nat
  BY <1>1 DEF ChildAcquires, ChildGivesUp, HandlerInv, HandlersTyped
<1>3. Counts(g[2], ChildSlotHolders(r)) = 0 /\ Counts(g[2], Unfinished(r)) = 1
  BY <1>1 DEF Counts, ChildSlotHolders, ChildInside, Unfinished
<1>4. CASE ChildAcquires(g)
  <2>1. GoTo(g, "lookup") /\ "lookup" \in Steps \ {"children"}
    BY <1>4 DEF ChildAcquires, Steps
  <2>2. step'[g] = "lookup"
    BY <2>1 DEF GoTo, HandlerInv, HandlersTyped
  <2>3. Counts(g[2], ChildSlotHolders(r)') = 1 /\ Counts(g[2], Unfinished(r)') = 1
    BY <1>1, <2>2 DEF Counts, ChildSlotHolders, ChildInside, Unfinished
  <2>4. /\ childSem' = [childSem EXCEPT ![r] = childSem[r] + 1]
        /\ childSem[r] + 1 <= ChildSlots /\ childSem[r] + 1 = childSem[r] + 1 - 0
        /\ wg' = [wg EXCEPT ![r] = wg[r]] /\ wg[r] = wg[r] + 1 - 1
    BY <1>2, <1>4, LimitsAssumption DEF ChildAcquires, HandlerInv, HandlersTyped
  <2> QED
    BY <1>1, <1>2, <1>3, <2>1, <2>3, <2>4, ChildKeepsHandlerInv
<1>5. CASE ChildGivesUp(g)
  <2>1. GoTo(g, "idle") /\ "idle" \in Steps \ {"children"}
    BY <1>5 DEF ChildGivesUp, Steps
  <2>2. step'[g] = "idle"
    BY <2>1 DEF GoTo, HandlerInv, HandlersTyped
  <2>3. Counts(g[2], ChildSlotHolders(r)') = 0 /\ Counts(g[2], Unfinished(r)') = 0
    BY <1>1, <2>2 DEF Counts, ChildSlotHolders, ChildInside, Unfinished
  <2>4. /\ childSem' = [childSem EXCEPT ![r] = childSem[r]]
        /\ childSem[r] <= ChildSlots /\ childSem[r] = childSem[r] + 0 - 0
        /\ wg' = [wg EXCEPT ![r] = wg[r] - 1] /\ wg[r] - 1 = wg[r] + 0 - 1
    BY <1>2, <1>5, LimitsAssumption DEF ChildGivesUp, HandlerInv, HandlersTyped
  <2> QED
    BY <1>1, <1>2, <1>3, <2>1, <2>3, <2>4, ChildKeepsHandlerInv
<1> QED
  BY <1>4, <1>5

\* No step breaks the half of the invariant that handlers keep.
LEMMA NextKeepsHandlerInv == HandlerInv /\ [Next]_vars => HandlerInv'
<1> SUFFICES ASSUME HandlerInv, [Next]_vars PROVE HandlerInv'
  OBVIOUS
<1>1. ASSUME NEW r \in Requests, Begin(r) \/ Cancel(r) \/ Handles(r) PROVE HandlerInv'
  BY <1>1, HandlesKeepsHandlerInv
<1>2. ASSUME NEW g \in Goroutines, Fetches(g) PROVE HandlerInv'
  BY <1>2, ChildStartsKeepsHandlerInv, WorksKeepsHandlerInv, EndsKeepsHandlerInv DEF Fetches
<1>3. ASSUME UNCHANGED <<step, fetching, round, cancelled, limiters>> PROVE HandlerInv'
  <2>1. /\ SlotHolders' = SlotHolders
        /\ \A q \in Requests : ChildSlotHolders(q)' = ChildSlotHolders(q) /\ Unfinished(q)' = Unfinished(q)
    BY <1>3 DEF SlotHolders, Inside, ChildSlotHolders, ChildInside, Unfinished
  <2>2. HandlersTyped' /\ InPlace'
    BY <1>3 DEF HandlerInv, HandlersTyped, InPlace, limiters
  <2> QED
    BY <1>3, <2>1, <2>2 DEF HandlerInv, SlotsCounted, ChildrenCounted, limiters
<1>4. TokenExpires \/ UNCHANGED vars => UNCHANGED <<step, fetching, round, cancelled, limiters>>
  BY DEF TokenExpires, vars, limiters
<1> QED
  BY <1>1, <1>2, <1>3, <1>4 DEF Next

-----------------------------------------------------------------------------
(* Connections and the mutex.                                              *)

Holding == {"tokenconn", "tokensent"}

\* Only g moves; others may be spawned, by a request that fetches.
OnlyMoves(g) ==
    \A h \in Goroutines \ {g} :
        \/ step'[h] = step[h]
        \/ /\ step[h] = "idle" /\ step'[h] = "slot"
           /\ RequestOf(h) = RequestOf(g) /\ ~IsChild(g) /\ Fetching(g)

\* The connections follow g, and the mutex is left alone, given back or taken.
LEMMA MovingKeepsClientInv ==
    ASSUME ClientInv, NEW g \in Goroutines, OnlyMoves(g),
           conns' = conns + Counts(g, ConnHolders') - Counts(g, ConnHolders),
           conns' <= Conns,
           \/ mutex' = mutex /\ (step'[g] \in Holding <=> step[g] \in Holding)
           \/ mutex' = None /\ step[g] \in Holding /\ step'[g] \notin Holding
           \/ mutex = None /\ mutex' = g /\ step'[g] \in Holding,
           token' \in BOOLEAN, challenged' \in BOOLEAN
    PROVE  ClientInv'
<1>1. ConnHolders \ {g} = ConnHolders' \ {g}
  BY DEF ConnHolders, Connected, OnlyMoves
<1>2. /\ Cardinality(ConnHolders') \in Nat
      /\ Cardinality(ConnHolders') = Cardinality(ConnHolders) + Counts(g, ConnHolders') - Counts(g, ConnHolders)
  BY <1>1, HoldersFinite, CountDiffers
<1>3. conns' = Cardinality(ConnHolders')
  BY <1>2 DEF ClientInv, ConnsCounted
<1>4. conns' \in 0 .. Conns
  BY <1>2, <1>3, LimitsAssumption
<1>5. MutexHeld'
  <2>1. \A h \in Goroutines \ {g} : step'[h] \in Holding <=> step[h] \in Holding
    BY DEF OnlyMoves, Holding
  <2>2. \A h \in Goroutines : h # None
    BY NamesAssumption
  <2> QED
    BY <2>1, <2>2 DEF ClientInv, MutexHeld, Holding
<1> QED
  BY <1>3, <1>4, <1>5 DEF ClientInv, ClientTyped, ConnsCounted

\* What a goroutine does when its fetch is over leaves the others where they
\* are, but for the children it starts.
LEMMA FetchedMoves ==
    ASSUME HandlerInv, NEW g \in Goroutines, Fetching(g), Fetched(g)
    PROVE  OnlyMoves(g) /\ step'[g] \in {"idle", "lookup", "children"}
<1>1. CASE \E s \in {"idle", "lookup"} : GoTo(g, s)
  BY <1>1 DEF GoTo, OnlyMoves, HandlerInv, HandlersTyped
<1>2. CASE Returns(g)
  <2>1. Ends(g)
    BY <1>2, FetchingAlone DEF Returns, ChildReturns, HandlerReturns
  <2> QED
    BY <2>1, <1>1 DEF Ends
<1>3. CASE \E K \in SUBSET ChildrenOf[RequestOf(g)] \ {{}} : Spawns(g, K)
  <2>1. PICK K \in SUBSET ChildrenOf[RequestOf(g)] : Spawns(g, K)
    BY <1>3
  <2>2. /\ g = Main(RequestOf(g)) /\ RequestOf(g) \in Requests
        /\ \A c \in ChildrenOf[RequestOf(g)] : step[<<RequestOf(g), c>>] = "idle"
    BY <2>1, FetchingAlone DEF Spawns
  <2>3. ASSUME NEW h \in Goroutines, RequestOf(h) = RequestOf(g), h[2] \in K PROVE step[h] = "idle"
    <3>1. h = <<RequestOf(g), h[2]>>
      <4>1. h[2] \in Children /\ h[2] # Owner
        BY <2>3, <2>2, NamesAssumption, ChildrenAssumption
      <4>2. IsChild(h)
        BY <4>1 DEF IsChild
      <4> QED
        BY <4>2, <2>3, GoroutineFacts
    <3> QED
      BY <2>2, <2>3, <3>1
  <2>4. step' = [h \in Goroutines |->
                   IF h = g THEN "children"
                   ELSE IF RequestOf(h) = RequestOf(g) /\ h[2] \in K THEN "slot"
                   ELSE step[h]]
    BY <2>1 DEF Spawns
  <2>5. ~IsChild(g)
    BY <2>1 DEF Spawns
  <2> QED
    BY <2>3, <2>4, <2>5 DEF OnlyMoves
<1> QED
  BY <1>1, <1>2, <1>3 DEF Fetched, FetchesConfig

\* A fetch, step by step, keeps the half that the client keeps.
LEMMA FetchesKeepsClientInv ==
    ASSUME FanOutInv, NEW g \in Goroutines, Fetches(g)
    PROVE  ClientInv'
<1>1. /\ conns \in 0 .. Conns /\ token \in BOOLEAN /\ challenged \in BOOLEAN
      /\ mutex \in Goroutines \cup {None}
      /\ step \in [Goroutines -> Steps]
  BY DEF FanOutInv, ClientInv, ClientTyped, HandlerInv, HandlersTyped
<1>2. /\ Counts(g, ConnHolders) = IF Connected(g) THEN 1 ELSE 0
      /\ Counts(g, ConnHolders') = IF Connected(g)' THEN 1 ELSE 0
  BY DEF Counts, ConnHolders
<1>3. Connected(g) => conns - 1 >= 0
  <2>1. IsFiniteSet(ConnHolders) /\ (Connected(g) => ConnHolders # {})
    BY HoldersFinite DEF ConnHolders
  <2>2. Connected(g) => Cardinality(ConnHolders) # 0
    BY <2>1, FS_EmptySet
  <2> QED
    BY <1>1, <2>2 DEF FanOutInv, ClientInv, ConnsCounted
<1>4. ASSUME NEW s, GoTo(g, s) PROVE OnlyMoves(g) /\ step'[g] = s
  BY <1>1, <1>4 DEF GoTo, OnlyMoves
<1>5. ASSUME OnlyMoves(g), token' \in BOOLEAN, challenged' \in BOOLEAN,
             conns' = conns + (IF Connected(g)' THEN 1 ELSE 0) - (IF Connected(g) THEN 1 ELSE 0),
             conns' <= Conns,
             \/ mutex' = mutex /\ (step'[g] \in Holding <=> step[g] \in Holding)
             \/ mutex' = None /\ step[g] \in Holding /\ step'[g] \notin Holding
             \/ mutex = None /\ mutex' = g /\ step'[g] \in Holding
      PROVE  ClientInv'
  BY <1>2, <1>5, MovingKeepsClientInv DEF FanOutInv
<1> USE LimitsAssumption DEF Connected, Holding
<1>6. CASE ChildAcquires(g) \/ ChildGivesUp(g) \/ Miss(g) \/ TokenCached(g)
  BY <1>1, <1>4, <1>5, <1>6 DEF ChildAcquires, ChildGivesUp, Miss, TokenCached, StartRound, client
<1>7. CASE TokenMissing(g)
  BY <1>1, <1>4, <1>5, <1>7 DEF TokenMissing
<1>8. CASE TokenArrives(g)
  BY <1>1, <1>4, <1>5, <1>8 DEF TokenArrives, Drain
<1>9. CASE Dial(g)
  BY <1>1, <1>4, <1>5, <1>9 DEF Dial
<1>10. ASSUME KnownRefused(g) \/ Challenged(g) PROVE ClientInv'
  <2>1. /\ \E s \in {"conn", "mutex"} : GoTo(g, s)
        /\ step[g] = "sent" /\ conns' = conns - 1 /\ mutex' = mutex
        /\ token' = token /\ challenged' \in BOOLEAN
    BY <1>1, <1>10 DEF KnownRefused, Challenged, StartRound, Drain, DrainFirst
  <2>2. OnlyMoves(g) /\ step'[g] \in {"conn", "mutex"}
    BY <1>4, <2>1
  <2> QED
    BY <1>1, <1>5, <2>1, <2>2
<1>11. ASSUME Hit(g) \/ Answered(g) \/ Rejected(g) \/ SendFails(g)
       PROVE  ClientInv'
  <2>1. Fetching(g) /\ Fetched(g)
    BY <1>11 DEF Hit, Answered, Rejected, SendFails, Fetching, Fetched
  <2>2. OnlyMoves(g) /\ step'[g] \in {"idle", "lookup", "children"}
    BY <2>1, FetchedMoves DEF FanOutInv
  <2> QED
    BY <1>1, <1>5, <1>11, <2>2 DEF Hit, Answered, Rejected, SendFails, Drain, client
<1>12. ASSUME TokenFails(g) PROVE ClientInv'
  <2>1. OnlyMoves(g) /\ step'[g] \in {"idle", "lookup", "children", "conn"}
    <3>1. CASE StartRound(g, "bare", "conn")
      BY <3>1, <1>4 DEF StartRound
    <3>2. CASE Returns(g)
      BY <1>12, <3>2, FetchedMoves DEF TokenFails, Fetching, Fetched, FanOutInv
    <3> QED
      BY <1>12, <3>1, <3>2 DEF TokenFails
  <2> QED
    BY <1>1, <1>5, <1>12, <2>1 DEF TokenFails
<1> QED
  BY <1>6, <1>7, <1>8, <1>9, <1>10, <1>11, <1>12 DEF Fetches

\* No step breaks the half that the client keeps.
LEMMA NextKeepsClientInv == FanOutInv /\ [Next]_vars => ClientInv'
<1> SUFFICES ASSUME FanOutInv, [Next]_vars PROVE ClientInv'
  OBVIOUS
<1>1. ASSUME NEW r \in Requests, Begin(r) \/ Cancel(r) \/ Handles(r) PROVE ClientInv'
  <2>1. UNCHANGED <<step, client>> \/ \E s \in {"slot", "lookup", "idle"} : GoTo(Main(r), s) /\ UNCHANGED client
    BY <1>1 DEF Begin, Cancel, Handles, Acquire, GiveUp, ChildrenDone, HandlerReturns, Ends
  <2>2. step[Main(r)] \in {"idle", "slot", "children"} \/ step' = step
    BY <1>1 DEF Begin, Cancel, Handles, Acquire, GiveUp, ChildrenDone
  <2>3. /\ step \in [Goroutines -> Steps]
        /\ step' \in [Goroutines -> Steps]
        /\ \A g \in Goroutines : \/ step'[g] = step[g]
                                 \/ /\ step[g] \in {"idle", "slot", "children"}
                                    /\ step'[g] \in {"slot", "lookup", "idle"}
    BY <2>1, <2>2, GoroutineFacts DEF GoTo, FanOutInv, HandlerInv, HandlersTyped, Steps
  <2>4. ConnHolders' = ConnHolders /\ (MutexHeld <=> MutexHeld')
    BY <2>1, <2>3 DEF ConnHolders, Connected, MutexHeld, client
  <2> QED
    BY <2>1, <2>4 DEF FanOutInv, ClientInv, ClientTyped, ConnsCounted, client
<1>2. ASSUME NEW g \in Goroutines, Fetches(g) PROVE ClientInv'
  BY <1>2, FetchesKeepsClientInv
<1>3. ASSUME UNCHANGED <<step, conns, mutex, challenged>>, token' \in BOOLEAN PROVE ClientInv'
  <2>1. ConnHolders' = ConnHolders /\ (MutexHeld <=> MutexHeld')
    BY <1>3 DEF ConnHolders, Connected, MutexHeld
  <2> QED
    BY <1>3, <2>1 DEF FanOutInv, ClientInv, ClientTyped, ConnsCounted
<1>4. TokenExpires \/ UNCHANGED vars => UNCHANGED <<step, conns, mutex, challenged>> /\ token' \in BOOLEAN
  BY DEF TokenExpires, vars, FanOutInv, ClientInv, ClientTyped
<1> QED
  BY <1>1, <1>2, <1>3, <1>4 DEF Next

\* Nobody holds anything at first.
LEMMA InitEstablishesFanOutInv == Init => FanOutInv
<1> SUFFICES ASSUME Init PROVE FanOutInv
  OBVIOUS
<1>1. \A g \in Goroutines : step[g] = "idle"
  BY DEF Init
<1>2. SlotHolders = {} /\ ConnHolders = {}
  BY <1>1, GoroutineFacts DEF SlotHolders, Inside, ConnHolders, Connected, Requests
<1>3. ASSUME NEW r \in Requests PROVE ChildSlotHolders(r) = {} /\ Unfinished(r) = {}
  BY <1>1, GoroutineFacts DEF ChildSlotHolders, ChildInside, Unfinished
<1>4. HandlersTyped /\ ClientTyped
  <2>1. 0 \in 0 .. Slots /\ 0 \in 0 .. ChildSlots /\ 0 \in 0 .. Conns
    BY LimitsAssumption
  <2>2. HandlersTyped
    BY <2>1 DEF Init, HandlersTyped, Steps
  <2>3. ClientTyped
    BY <2>1 DEF Init, ClientTyped
  <2> QED
    BY <2>2, <2>3
<1>5. InPlace
  BY <1>1, GoroutineFacts DEF InPlace
<1>6. MutexHeld
  BY <1>1, NamesAssumption DEF Init, MutexHeld
<1>7. SlotsCounted /\ ConnsCounted
  BY <1>2, FS_EmptySet DEF Init, SlotsCounted, ConnsCounted
<1>8. ChildrenCounted
  BY <1>3, FS_EmptySet DEF Init, ChildrenCounted
<1> QED
  BY <1>4, <1>5, <1>6, <1>7, <1>8 DEF FanOutInv, HandlerInv, ClientInv

\* The invariant of the limits holds in every behaviour.
LEMMA FanOutInductive == Spec => []FanOutInv
<1>1. FanOutInv /\ [Next]_vars => FanOutInv'
  BY NextKeepsHandlerInv, NextKeepsClientInv DEF FanOutInv
<1> QED
  BY <1>1, InitEstablishesFanOutInv, PTL DEF Spec

-----------------------------------------------------------------------------
(* The theorems.                                                           *)

\* Everything stays within its type and its limit, the WaitGroup never goes
\* below zero.
THEOREM RowsTyped == Spec => []TypeOK
<1>1. FanOutInv => TypeOK
  BY DEF FanOutInv, HandlerInv, ClientInv, TypeOK
<1> QED
  BY <1>1, FanOutInductive, PTL

\* Every counter is the number of its holders: nothing acquired is ever leaked
\* or given back twice, on any way out (server.go:238-249, client.go:781-806,
\* auth.go:218-219).
THEOREM RowsNothingLeaks == Spec => []NothingLeaks
<1>1. FanOutInv => NothingLeaks
  BY DEF FanOutInv, HandlerInv, ClientInv, NothingLeaks
<1> QED
  BY <1>1, FanOutInductive, PTL

\* The limits never wait for one another in a circle: unless nobody is there,
\* somebody can go on (server.go:238-249, client.go:283-304, auth.go:218-225).
THEOREM RowsNeverStuck == Spec => []NeverStuck
<1>1. ASSUME FanOutInv, \A g \in Goroutines : Blocked(g), NEW h \in Goroutines
      PROVE  step[h] = "idle"
  <2> USE DEF FanOutInv, HandlerInv, ClientInv
  <2>1. /\ \A g \in Goroutines : step[g] \in Steps
        /\ \A r \in Requests : childSem[r] \in 0 .. ChildSlots
        /\ sem \in 0 .. Slots /\ conns \in 0 .. Conns /\ mutex \in Goroutines \cup {None}
    BY <1>1 DEF HandlersTyped, ClientTyped
  <2>2. \A g \in Goroutines : step[g] \notin {"lookup", "sent", "tokensent"}
    BY <1>1 DEF Blocked
  <2>3. ConnHolders = {}
    BY <2>2 DEF ConnHolders, Connected
  <2>4. conns = 0 /\ conns # Conns
    BY <1>1, <2>3, FS_EmptySet, LimitsAssumption DEF ConnsCounted
  <2>5. \A g \in Goroutines : step[g] \notin {"conn", "tokenconn"}
    BY <1>1, <2>4 DEF Blocked
  <2>6. mutex = None
    BY <1>1, <2>1, <2>2, <2>5 DEF MutexHeld
  <2>7. \A g \in Goroutines : step[g] # "mutex"
    BY <1>1, <2>6 DEF Blocked
  <2>8. \A g \in Goroutines : step[g] \in {"idle", "slot", "children"}
    BY <2>1, <2>2, <2>5, <2>7 DEF Steps
  <2>9. \A r \in Requests : ChildSlotHolders(r) = {}
    BY <1>1, <2>8, GoroutineFacts DEF ChildSlotHolders, ChildInside, InPlace
  <2>10. \A r \in Requests : childSem[r] = 0 /\ childSem[r] # ChildSlots
    BY <1>1, <2>9, FS_EmptySet, LimitsAssumption DEF ChildrenCounted
  <2>11. \A g \in Goroutines : IsChild(g) => step[g] = "idle"
    BY <1>1, <2>8, <2>10, GoroutineFacts DEF Blocked, InPlace
  <2>12. \A r \in Requests : Unfinished(r) = {}
    BY <2>11, GoroutineFacts DEF Unfinished
  <2>13. \A r \in Requests : wg[r] = 0
    BY <1>1, <2>12, FS_EmptySet DEF ChildrenCounted
  <2>14. \A g \in Goroutines : step[g] # "children"
    BY <1>1, <2>13, GoroutineFacts DEF Blocked
  <2>15. SlotHolders = {}
    BY <2>8, <2>14, GoroutineFacts DEF SlotHolders, Inside, Requests
  <2>16. sem = 0 /\ sem # Slots
    <3>1. sem = Cardinality(SlotHolders)
      BY <1>1 DEF SlotsCounted
    <3> QED
      BY <2>15, <3>1, FS_EmptySet, LimitsAssumption
  <2> QED
    BY <1>1, <2>8, <2>11, <2>14, <2>16 DEF Blocked
<1>2. FanOutInv => NeverStuck
  BY <1>1 DEF NeverStuck
<1> QED
  BY <1>2, FanOutInductive, PTL

\* A finite set of at most n members can be numbered up to n.
LEMMA Numbering ==
    ASSUME NEW S, IsFiniteSet(S), NEW n \in Nat, Cardinality(S) <= n
    PROVE  \E e \in [S -> 1 .. n] : \A x, y \in S : e[x] = e[y] => x = y
<1>1. Cardinality(S) \in Nat /\ ExistsBijection(1 .. Cardinality(S), S)
  BY FS_CardinalityType
<1>2. PICK b \in [1 .. Cardinality(S) -> S] : \A x \in S : \E i \in 1 .. Cardinality(S) : b[i] = x
  BY <1>1 DEF ExistsBijection, Bijection, Surjection
<1> DEFINE e == [x \in S |-> CHOOSE i \in 1 .. Cardinality(S) : b[i] = x]
<1>3. \A x \in S : e[x] \in 1 .. Cardinality(S) /\ b[e[x]] = x
  BY <1>2
<1>4. 1 .. Cardinality(S) \subseteq 1 .. n
  BY <1>1
<1>5. e \in [S -> 1 .. n]
  BY <1>3, <1>4
<1>6. \A x, y \in S : e[x] = e[y] => x = y
  BY <1>3
<1> QED
  BY <1>5, <1>6

\* The rows never have more fetches going than their slots times the slots of
\* their children (server.go:27-30, client.go:780-807): a fetch is numbered by
\* the slot of its row and, in it, by the slot of its child.
THEOREM RowsLoadBounded == Spec => []LoadBounded
<1>1. ASSUME FanOutInv PROVE LoadBounded
  <2> USE DEF FanOutInv, HandlerInv
  <2> DEFINE F == {g \in Goroutines : RequestOf(g) \in Rows /\ Fetching(g)}
  <2>1. /\ Slots \in Nat /\ ChildSlots \in Nat /\ ChildSlots >= 1
        /\ sem <= Slots /\ \A r \in Requests : childSem[r] <= ChildSlots
    BY <1>1, LimitsAssumption DEF HandlersTyped
  <2>2. PICK e \in [SlotHolders -> 1 .. Slots] : \A x, y \in SlotHolders : e[x] = e[y] => x = y
    BY <1>1, <2>1, Numbering, HoldersFinite DEF SlotsCounted
  <2>3. \A r \in Requests : \E d \in [ChildSlotHolders(r) -> 1 .. ChildSlots] :
                                \A x, y \in ChildSlotHolders(r) : d[x] = d[y] => x = y
    BY <1>1, <2>1, Numbering, HoldersFinite DEF ChildrenCounted
  <2> DEFINE d(r) == CHOOSE f \in [ChildSlotHolders(r) -> 1 .. ChildSlots] :
                                \A x, y \in ChildSlotHolders(r) : f[x] = f[y] => x = y
             number(g) == <<e[RequestOf(g)], IF IsChild(g) THEN d(RequestOf(g))[g[2]] ELSE 1>>
  <2>4. \A r \in Requests : /\ d(r) \in [ChildSlotHolders(r) -> 1 .. ChildSlots]
                            /\ \A x, y \in ChildSlotHolders(r) : d(r)[x] = d(r)[y] => x = y
    BY <2>3
  <2> HIDE DEF d
  <2>5. ASSUME NEW g \in F
        PROVE  /\ g \in Goroutines /\ RequestOf(g) \in Requests /\ RequestOf(g) \in SlotHolders
               /\ IsChild(g) => /\ g[2] \in ChildSlotHolders(RequestOf(g))
                                /\ step[Main(RequestOf(g))] = "children"
                                /\ g = <<RequestOf(g), g[2]>>
               /\ ~IsChild(g) => g = Main(RequestOf(g)) /\ step[g] # "children"
    BY <1>1, GoroutineFacts DEF Fetching, SlotHolders, Inside, ChildSlotHolders, ChildInside, InPlace
  <2> DEFINE f == [g \in F |-> number(g)]
  <2>6. f \in [F -> (1 .. Slots) \X (1 .. ChildSlots)]
    BY <2>1, <2>4, <2>5
  <2>7. ASSUME NEW g \in F, NEW h \in F, f[g] = f[h] PROVE g = h
    <3>1. e[RequestOf(g)] = e[RequestOf(h)]
      BY <2>7
    <3>2. RequestOf(g) = RequestOf(h)
      BY <2>2, <2>5, <3>1
    <3>3. IsChild(g) <=> IsChild(h)
      BY <2>5, <3>2
    <3>4. CASE IsChild(g)
      <4>1. d(RequestOf(g))[g[2]] = d(RequestOf(g))[h[2]]
        BY <2>7, <3>2, <3>3, <3>4
      <4> QED
        BY <2>4, <2>5, <3>2, <3>3, <3>4, <4>1
    <3>5. CASE ~IsChild(g)
      BY <2>5, <3>2, <3>3, <3>5
    <3> QED
      BY <3>4, <3>5
  <2>8. f \in Injection(F, (1 .. Slots) \X (1 .. ChildSlots))
    BY <2>6, <2>7 DEF Injection, IsInjective
  <2>9. /\ IsFiniteSet((1 .. Slots) \X (1 .. ChildSlots))
        /\ Cardinality((1 .. Slots) \X (1 .. ChildSlots)) = Slots * ChildSlots
    <3>1. /\ IsFiniteSet(1 .. Slots) /\ IsFiniteSet(1 .. ChildSlots)
          /\ Cardinality(1 .. Slots) = Slots /\ Cardinality(1 .. ChildSlots) = ChildSlots
      BY <2>1, FS_Interval
    <3>2. /\ IsFiniteSet((1 .. Slots) \X (1 .. ChildSlots))
          /\ Cardinality((1 .. Slots) \X (1 .. ChildSlots)) = Cardinality(1 .. Slots) * Cardinality(1 .. ChildSlots)
      BY <3>1, FS_Product
    <3> QED
      BY <3>1, <3>2
  <2>10. Cardinality(F) <= Slots * ChildSlots
    BY <2>8, <2>9, FS_Injection
  <2> QED
    BY <2>10 DEF LoadBounded
<1> QED
  BY <1>1, FanOutInductive, PTL

-----------------------------------------------------------------------------
(* How much a request has left to do.                                      *)

\* The moves left to g at most: through the rounds of a fetch, of two fetches,
\* and of a slot before them.  Children are to come until their index is read.
InRound(g) == CASE step[g] = "sent" -> 1
                [] step[g] = "conn" -> 2
                [] step[g] = "tokensent" -> 3
                [] step[g] = "tokenconn" -> 4
                [] OTHER -> 5
RoundsAfter(g) == CASE round[g] = "retry" -> 0 [] round[g] = "bare" -> 5 [] OTHER -> 10
InFetch(g) == IF step[g] = "lookup" THEN 16 ELSE RoundsAfter(g) + InRound(g)

MaxLeft == 35
Left(g) ==
    CASE step[g] = "idle" -> IF step[Main(RequestOf(g))] \in {"idle", "children"} THEN 0 ELSE MaxLeft
      [] step[g] = "slot" -> 34
      [] step[g] = "children" -> 1
      [] OTHER -> IF fetching[g] = "manifest" THEN 17 + InFetch(g) ELSE InFetch(g)

\* Those of a request and its children together.
Members(r) == ChildrenOf[r] \cup {Owner}
WorkOf(r) == {w \in Members(r) \X (1 .. MaxLeft) : w[2] <= Left(<<r, w[1]>>)}
Work(r) == Cardinality(WorkOf(r))

LEMMA LeftRange ==
    ASSUME NEW g \in Goroutines
    PROVE  Left(g) \in 0 .. MaxLeft /\ (step[g] # "idle" => Left(g) > 0)
<1>1. InFetch(g) \in 1 .. 16
  BY DEF InFetch, InRound, RoundsAfter
<1> QED
  BY <1>1 DEF Left, MaxLeft

\* Who moves leaves nobody else more to do, but who begins.
LEMMA OthersKeepLeft ==
    ASSUME NEW g \in Goroutines, OnlyMoves(g),
           \A h \in Goroutines \ {g} : fetching'[h] = fetching[h] /\ round'[h] = round[h],
           step[g] = "children" => step'[g] = "idle",
           NEW h \in Goroutines, h # g, step[Main(RequestOf(h))] # "idle"
    PROVE  Left(h)' <= Left(h)
<1> DEFINE m == Main(RequestOf(h))
<1>1. m \in Goroutines /\ (~IsChild(h) => h = m) /\ (~IsChild(g) => g = Main(RequestOf(g)))
  BY GoroutineFacts
<1>2. Left(h) \in 0 .. MaxLeft
  BY LeftRange
<1>3. CASE step[h] # "idle"
  <2>1. step'[h] = step[h] /\ fetching'[h] = fetching[h] /\ round'[h] = round[h]
    BY <1>3 DEF OnlyMoves
  <2>2. Left(h)' = Left(h)
    BY <1>3, <2>1 DEF Left, InFetch, InRound, RoundsAfter
  <2> QED
    BY <1>2, <2>2 DEF MaxLeft
<1>4. CASE step[h] = "idle" /\ step'[h] = "slot"
  <2>1. RequestOf(h) = RequestOf(g) /\ ~IsChild(g) /\ Fetching(g)
    BY <1>4 DEF OnlyMoves
  <2>2. m = g /\ step[m] \notin {"idle", "children"}
    BY <1>1, <2>1 DEF Fetching
  <2>3. Left(h) = MaxLeft /\ Left(h)' = 34
    BY <1>4, <2>2 DEF Left
  <2> QED
    BY <2>3 DEF MaxLeft
<1>5. CASE step[h] = "idle" /\ step'[h] = "idle"
  <2>1. step[m] = "children" => step'[m] \in {"children", "idle"}
    BY <1>1 DEF OnlyMoves
  <2>2. Left(h) = IF step[m] \in {"idle", "children"} THEN 0 ELSE MaxLeft
    BY <1>5 DEF Left
  <2>3. Left(h)' = IF step'[m] \in {"idle", "children"} THEN 0 ELSE MaxLeft
    BY <1>5 DEF Left
  <2> QED
    BY <2>1, <2>2, <2>3 DEF MaxLeft
<1> QED
  BY <1>3, <1>4, <1>5 DEF OnlyMoves

\* What the handlers do leaves the request's own goroutine less to do.
LEMMA HandlesShrinks ==
    ASSUME HandlerInv, NEW r \in Requests, Handles(r)
    PROVE  LET g == Main(r) IN
           /\ g \in Goroutines /\ OnlyMoves(g) /\ Left(g)' < Left(g)
           /\ \A h \in Goroutines \ {g} : fetching'[h] = fetching[h] /\ round'[h] = round[h]
           /\ step[g] = "children" => step'[g] = "idle"
<1> DEFINE g == Main(r)
<1>1. g \in Goroutines /\ RequestOf(g) = r /\ step \in [Goroutines -> Steps]
  BY GoroutineFacts DEF HandlerInv, HandlersTyped
<1>2. /\ \/ step[g] = "slot" /\ GoTo(g, "lookup")
         \/ step[g] \in {"slot", "children"} /\ GoTo(g, "idle")
      /\ \A h \in Goroutines \ {g} : fetching'[h] = fetching[h] /\ round'[h] = round[h]
  BY <1>1 DEF Handles, Acquire, GiveUp, ChildrenDone, HandlerReturns, Ends, HandlerInv, HandlersTyped
<1> HIDE DEF g
<1>3. /\ OnlyMoves(g)
      /\ \/ step[g] = "slot" /\ step'[g] = "lookup"
         \/ step[g] \in {"slot", "children"} /\ step'[g] = "idle"
  BY <1>1, <1>2 DEF GoTo, OnlyMoves
<1>4. Left(g)' < Left(g)
  <2>1. CASE step'[g] = "lookup"
    <3>1. Left(g) = 34 /\ (Left(g)' = 33 \/ Left(g)' = 16)
      BY <1>3, <2>1 DEF Left, InFetch
    <3> QED
      BY <3>1
  <2>2. CASE step'[g] = "idle"
    <3>1. Left(g)' = 0
      BY <1>1, <2>2 DEF Left, g
    <3>2. Left(g) = 34 \/ Left(g) = 1
      BY <1>3, <2>2 DEF Left
    <3> QED
      BY <3>1, <3>2
  <2> QED
    BY <1>3, <2>1, <2>2
<1> QED
  BY <1>1, <1>2, <1>3, <1>4 DEF g

\* Nothing is left to who has returned.
LEMMA ReturnedIsDone ==
    ASSUME HandlerInv, NEW g \in Goroutines, OnlyMoves(g), step[g] # "idle", step'[g] = "idle"
    PROVE  Left(g)' = 0
<1> DEFINE m == Main(RequestOf(g))
<1>1. m \in Goroutines /\ (~IsChild(g) => g = m) /\ (IsChild(g) => step[m] = "children")
  BY GoroutineFacts DEF HandlerInv, InPlace
<1>2. IsChild(g) => m # g
  BY GoroutineFacts
<1>3. step'[m] \in {"idle", "children"}
  BY <1>1, <1>2 DEF OnlyMoves
<1> QED
  BY <1>3 DEF Left

\* A step inside of do goes on in its round, or to the next.
LEMMA WorksShrinks ==
    ASSUME HandlerInv, NEW g \in Goroutines,
           Miss(g) \/ TokenCached(g) \/ TokenMissing(g) \/ TokenArrives(g) \/ Dial(g)
           \/ KnownRefused(g) \/ Challenged(g)
           \/ (step[g] \in {"tokenconn", "tokensent"} /\ round[g] = "known"
               /\ StartRound(g, "bare", "conn") /\ UNCHANGED fetching)
    PROVE  /\ OnlyMoves(g) /\ Left(g)' < Left(g)
           /\ \A h \in Goroutines \ {g} : fetching'[h] = fetching[h] /\ round'[h] = round[h]
<1>1. /\ step \in [Goroutines -> Steps]
      /\ round \in [Goroutines -> {"known", "bare", "retry"}]
  BY DEF HandlerInv, HandlersTyped
<1>2. PICK s \in {"mutex", "conn", "tokenconn", "sent", "tokensent"} : GoTo(g, s)
  BY DEF Miss, TokenCached, TokenMissing, TokenArrives, Dial, KnownRefused, Challenged, StartRound
<1>3. OnlyMoves(g) /\ step'[g] = s
  BY <1>1, <1>2 DEF GoTo, OnlyMoves
<1>4. /\ fetching' = fetching
      /\ round' = round \/ \E q \in {"known", "bare", "retry"} : round' = [round EXCEPT ![g] = q]
  BY DEF Miss, TokenCached, TokenMissing, TokenArrives, Dial, KnownRefused, Challenged, StartRound
<1>5. \A h \in Goroutines \ {g} : fetching'[h] = fetching[h] /\ round'[h] = round[h]
  BY <1>1, <1>4
<1>6. ASSUME NEW q, StartRound(g, q, s) PROVE round'[g] = q
  BY <1>1, <1>6 DEF StartRound
<1>7. /\ step[g] \notin {"idle", "slot", "children"}
      /\ InFetch(g)' < InFetch(g)
  <2> USE <1>1, <1>3 DEF InFetch, InRound, RoundsAfter, GoTo
  <2>1. CASE Miss(g)
    BY <2>1 DEF Miss, StartRound
  <2>2. CASE TokenCached(g) \/ TokenMissing(g) \/ TokenArrives(g)
    BY <2>2 DEF TokenCached, TokenMissing, TokenArrives
  <2>3. CASE Dial(g)
    BY <2>3 DEF Dial
  <2>4. CASE KnownRefused(g) \/ Challenged(g)
    BY <2>4 DEF KnownRefused, Challenged, StartRound
  <2>5. CASE step[g] \in {"tokenconn", "tokensent"} /\ round[g] = "known" /\ StartRound(g, "bare", "conn")
    BY <2>5 DEF StartRound
  <2> QED
    BY <2>1, <2>2, <2>3, <2>4, <2>5
<1>8. InFetch(g) \in 1 .. 16 /\ InFetch(g)' \in 1 .. 16
  BY DEF InFetch, InRound, RoundsAfter
<1>9. Left(g)' < Left(g)
  <2>1. Left(g) = IF fetching[g] = "manifest" THEN 17 + InFetch(g) ELSE InFetch(g)
    BY <1>7 DEF Left
  <2>2. Left(g)' = IF fetching[g] = "manifest" THEN 17 + InFetch(g)' ELSE InFetch(g)'
    BY <1>2, <1>3, <1>4 DEF Left
  <2> QED
    BY <1>7, <1>8, <2>1, <2>2
<1> QED
  BY <1>3, <1>5, <1>9

\* A fetch that is over leaves less than the fetch did.
LEMMA FetchedShrinks ==
    ASSUME HandlerInv, NEW g \in Goroutines, Fetching(g), Fetched(g)
    PROVE  /\ OnlyMoves(g) /\ Left(g)' < Left(g)
           /\ \A h \in Goroutines \ {g} : fetching'[h] = fetching[h] /\ round'[h] = round[h]
<1>1. /\ step \in [Goroutines -> Steps]
      /\ fetching \in [Goroutines -> {"manifest", "config"}]
      /\ round \in [Goroutines -> {"known", "bare", "retry"}]
  BY DEF HandlerInv, HandlersTyped
<1>2. OnlyMoves(g)
  BY FetchedMoves
<1>3. /\ InFetch(g) \in 1 .. 16
      /\ Left(g) = IF fetching[g] = "manifest" THEN 17 + InFetch(g) ELSE InFetch(g)
  BY DEF InFetch, InRound, RoundsAfter, Fetching, Left
<1>4. CASE Returns(g)
  <2>1. Ends(g)
    BY <1>4, FetchingAlone DEF Returns, ChildReturns, HandlerReturns
  <2>2. step'[g] = "idle" /\ \A h \in Goroutines \ {g} : fetching'[h] = fetching[h] /\ round'[h] = round[h]
    BY <1>1, <2>1 DEF Ends, GoTo
  <2>3. Left(g)' = 0
    BY <1>2, <2>2, ReturnedIsDone DEF Fetching
  <2> QED
    BY <1>2, <1>3, <2>2, <2>3
<1>5. CASE FetchesConfig(g)
  <2>1. fetching[g] = "manifest" /\ fetching'[g] = "config" /\ step'[g] = "lookup"
    BY <1>1, <1>5 DEF FetchesConfig, GoTo
  <2>2. Left(g)' = 16
    BY <2>1 DEF Left, InFetch
  <2>3. \A h \in Goroutines \ {g} : fetching'[h] = fetching[h] /\ round'[h] = round[h]
    BY <1>1, <1>5 DEF FetchesConfig
  <2> QED
    BY <1>2, <1>3, <2>1, <2>2, <2>3
<1>6. CASE \E K \in SUBSET ChildrenOf[RequestOf(g)] \ {{}} : Spawns(g, K)
  <2>1. PICK K \in SUBSET ChildrenOf[RequestOf(g)] : Spawns(g, K)
    BY <1>6
  <2>2. fetching[g] = "manifest" /\ step'[g] = "children"
    BY <2>1 DEF Spawns
  <2>3. Left(g)' = 1
    BY <2>2 DEF Left
  <2>4. \A h \in Goroutines \ {g} : fetching'[h] = fetching[h] /\ round'[h] = round[h]
    BY <1>1, <2>1 DEF Spawns
  <2> QED
    BY <1>2, <1>3, <2>2, <2>3, <2>4
<1> QED
  BY <1>4, <1>5, <1>6 DEF Fetched

\* What any goroutine does leaves it less to do.
LEMMA FetchesShrinks ==
    ASSUME HandlerInv, NEW g \in Goroutines, Fetches(g)
    PROVE  /\ OnlyMoves(g) /\ Left(g)' < Left(g) /\ step[g] # "children"
           /\ \A h \in Goroutines \ {g} : fetching'[h] = fetching[h] /\ round'[h] = round[h]
<1>1. step \in [Goroutines -> Steps]
  BY DEF HandlerInv, HandlersTyped
<1>2. step[g] # "children"
  BY DEF Fetches, ChildAcquires, ChildGivesUp, Hit, Miss, TokenCached, TokenMissing, TokenArrives,
         TokenFails, Dial, Answered, Rejected, SendFails, KnownRefused, Challenged
<1>3. CASE ChildAcquires(g)
  <2>1. step[g] = "slot" /\ step'[g] = "lookup" /\ OnlyMoves(g) /\ UNCHANGED <<fetching, round>>
    BY <1>1, <1>3 DEF ChildAcquires, GoTo, OnlyMoves
  <2>2. Left(g) = 34 /\ (Left(g)' = 33 \/ Left(g)' = 16)
    BY <2>1 DEF Left, InFetch
  <2> QED
    BY <1>2, <2>1, <2>2
<1>4. CASE ChildGivesUp(g)
  <2>1. step[g] = "slot" /\ step'[g] = "idle" /\ OnlyMoves(g) /\ UNCHANGED <<fetching, round>>
    BY <1>1, <1>4 DEF ChildGivesUp, GoTo, OnlyMoves
  <2>2. Left(g)' = 0 /\ Left(g) = 34
    BY <2>1, ReturnedIsDone DEF Left
  <2> QED
    BY <1>2, <2>1, <2>2
<1>5. CASE Hit(g) \/ Answered(g) \/ Rejected(g) \/ SendFails(g)
  <2>1. Fetching(g) /\ Fetched(g)
    BY <1>5 DEF Hit, Answered, Rejected, SendFails, Fetching, Fetched
  <2> QED
    BY <1>2, <2>1, FetchedShrinks
<1>6. CASE TokenFails(g)
  <2>1. \/ step[g] \in {"tokenconn", "tokensent"} /\ round[g] = "known"
           /\ StartRound(g, "bare", "conn") /\ UNCHANGED fetching
        \/ Fetching(g) /\ Fetched(g)
    BY <1>6 DEF TokenFails, Fetching, Fetched
  <2> QED
    BY <1>2, <2>1, FetchedShrinks, WorksShrinks
<1>7. CASE Miss(g) \/ TokenCached(g) \/ TokenMissing(g) \/ TokenArrives(g) \/ Dial(g)
           \/ KnownRefused(g) \/ Challenged(g)
  BY <1>2, <1>7, WorksShrinks
<1> QED
  BY <1>3, <1>4, <1>5, <1>6, <1>7 DEF Fetches

LEMMA MemberFacts ==
    ASSUME NEW r \in Requests
    PROVE  /\ \A c \in Members(r) : <<r, c>> \in Goroutines /\ RequestOf(<<r, c>>) = r
           /\ \A g \in Goroutines : RequestOf(g) = r => g[2] \in Members(r) /\ g = <<r, g[2]>>
           /\ Owner \in Members(r) /\ <<r, Owner>> = Main(r)
<1>1. <<r, Owner>> = Main(r)
  BY DEF Main
<1>2. \A g \in Goroutines : ~IsChild(g) => g[2] = Owner
  BY DEF IsChild
<1> QED
  BY <1>1, <1>2, GoroutineFacts DEF Members

\* What is left to a request is finite, whatever its members do.
LEMMA WorkFinite ==
    ASSUME NEW r \in Requests
    PROVE  /\ IsFiniteSet(Members(r) \X (1 .. MaxLeft))
           /\ Cardinality(Members(r) \X (1 .. MaxLeft)) = MaxLeft * (1 + Cardinality(ChildrenOf[r]))
           /\ Cardinality(ChildrenOf[r]) \in Nat
<1>1. IsFiniteSet(ChildrenOf[r]) /\ Cardinality(ChildrenOf[r]) \in Nat
  BY FiniteFacts, FS_CardinalityType
<1>2. Owner \notin ChildrenOf[r]
  BY NamesAssumption, ChildrenAssumption
<1>3. IsFiniteSet(Members(r)) /\ Cardinality(Members(r)) = Cardinality(ChildrenOf[r]) + 1
  BY <1>1, <1>2, FS_AddElement DEF Members
<1>4. IsFiniteSet(1 .. 35) /\ Cardinality(1 .. 35) = 35
  <2>1. ASSUME NEW n \in Int, n > 0 PROVE IsFiniteSet(1 .. n) /\ Cardinality(1 .. n) = n
    <3>1. IsFiniteSet(1 .. n) /\ Cardinality(1 .. n) = IF 1 > n THEN 0 ELSE n - 1 + 1
      BY FS_Interval
    <3> QED
      BY <2>1, <3>1
  <2>2. 35 \in Int /\ 35 > 0
    OBVIOUS
  <2> QED
    BY <2>1, <2>2, Zenon
<1>5. /\ IsFiniteSet(Members(r) \X (1 .. 35))
      /\ Cardinality(Members(r) \X (1 .. 35)) = Cardinality(Members(r)) * 35
  BY <1>3, <1>4, FS_Product
<1> QED
  BY <1>1, <1>3, <1>5 DEF MaxLeft

\* A request has at most so much to do, and nothing once it is answered.
WorkBounded ==
    \A r \in Requests : /\ Work(r) \in 0 .. MaxLeft * (1 + Cardinality(ChildrenOf[r]))
                        /\ step[Main(r)] = "idle" => Work(r) = 0

LEMMA WorkIsBounded == HandlerInv => WorkBounded
<1> SUFFICES ASSUME HandlerInv, NEW r \in Requests
             PROVE  /\ Work(r) \in 0 .. MaxLeft * (1 + Cardinality(ChildrenOf[r]))
                    /\ step[Main(r)] = "idle" => Work(r) = 0
  BY DEF WorkBounded
<1>1. WorkOf(r) \in SUBSET (Members(r) \X (1 .. MaxLeft))
  BY DEF WorkOf
<1>2. /\ IsFiniteSet(WorkOf(r)) /\ Work(r) \in Nat
      /\ Work(r) <= Cardinality(Members(r) \X (1 .. MaxLeft))
  BY <1>1, WorkFinite, FS_Subset, FS_CardinalityType DEF Work
<1>3. ASSUME step[Main(r)] = "idle" PROVE Work(r) = 0
  <2>1. ASSUME NEW c \in Members(r) PROVE Left(<<r, c>>) = 0
    <3>1. step[<<r, c>>] = "idle"
      BY <1>3, GoroutineFacts DEF Members, Main, HandlerInv, InPlace
    <3>2. step[Main(RequestOf(<<r, c>>))] = "idle"
      BY <1>3, MemberFacts
    <3> QED
      BY <3>1, <3>2 DEF Left
  <2>2. WorkOf(r) = {}
    <3> SUFFICES ASSUME NEW w \in WorkOf(r) PROVE FALSE
      OBVIOUS
    <3>1. w[1] \in Members(r) /\ w[2] \in 1 .. MaxLeft /\ w[2] <= Left(<<r, w[1]>>)
      BY DEF WorkOf
    <3>2. w[2] <= 0
      BY <2>1, <3>1
    <3> QED
      BY <3>1, <3>2
  <2> QED
    BY <2>2, FS_EmptySet DEF Work
<1>4. Work(r) \in 0 .. MaxLeft * (1 + Cardinality(ChildrenOf[r]))
  <2> DEFINE all == Cardinality(Members(r) \X (1 .. MaxLeft))
             most == MaxLeft * (1 + Cardinality(ChildrenOf[r]))
  <2>1. all = most /\ Work(r) \in Nat /\ Work(r) <= all
    BY <1>2, WorkFinite
  <2>2. most \in Nat
    <3>1. Cardinality(ChildrenOf[r]) \in Nat
      BY WorkFinite
    <3>2. \A n \in Nat : 35 * (1 + n) \in Nat
      OBVIOUS
    <3> QED
      BY <3>1, <3>2 DEF MaxLeft
  <2> HIDE DEF all, most
  <2>3. Work(r) \in 0 .. most
    BY <2>1, <2>2
  <2> QED
    BY <2>3 DEF most
<1> QED
  BY <1>3, <1>4

\* Members that have no more to do make no more work, and one that has less
\* makes less.
LEMMA WorkFollows ==
    ASSUME NEW r \in Requests,
           \A c \in Members(r) : Left(<<r, c>>)' <= Left(<<r, c>>)
    PROVE  /\ Work(r)' <= Work(r)
           /\ (\E c \in Members(r) : Left(<<r, c>>)' < Left(<<r, c>>)) => Work(r)' < Work(r)
<1> DEFINE S == WorkOf(r)
           T == WorkOf(r)'
<1>1. S \in SUBSET (Members(r) \X (1 .. MaxLeft)) /\ T \in SUBSET (Members(r) \X (1 .. MaxLeft))
  BY DEF WorkOf
<1>2. ASSUME NEW c \in Members(r)
      PROVE  /\ Left(<<r, c>>) \in 0 .. MaxLeft
             /\ Left(<<r, c>>)' \in 0 .. MaxLeft
  <2>1. InFetch(<<r, c>>)' \in 1 .. 16
    BY DEF InFetch, InRound, RoundsAfter
  <2>2. Left(<<r, c>>)' \in 0 .. MaxLeft
    BY <2>1 DEF Left, MaxLeft
  <2> QED
    BY <2>2, MemberFacts, LeftRange
<1>3. T \subseteq S
  <2> SUFFICES ASSUME NEW w \in T PROVE w \in S
    OBVIOUS
  <2>1. w \in Members(r) \X (1 .. MaxLeft) /\ w[2] <= Left(<<r, w[1]>>)'
    BY DEF WorkOf
  <2>2. w[1] \in Members(r) /\ w[2] \in Int
    BY <2>1
  <2>3. w[2] <= Left(<<r, w[1]>>)
    BY <1>2, <2>1, <2>2 DEF MaxLeft
  <2> QED
    BY <2>1, <2>3 DEF WorkOf
<1>4. IsFiniteSet(S) /\ IsFiniteSet(T) /\ Cardinality(S) \in Nat /\ Cardinality(T) \in Nat
  BY <1>1, WorkFinite, FS_Subset, FS_CardinalityType
<1>5. Work(r) = Cardinality(S) /\ Work(r)' = Cardinality(T)
  BY DEF Work
<1>6. Cardinality(T) <= Cardinality(S)
  BY <1>3, <1>4, FS_Subset
<1>7. ASSUME NEW c \in Members(r), Left(<<r, c>>)' < Left(<<r, c>>) PROVE Cardinality(T) < Cardinality(S)
  <2> DEFINE w == <<c, Left(<<r, c>>)>>
  <2>1. w \in S /\ w \notin T
    <3>1. Left(<<r, c>>) \in 1 .. MaxLeft /\ Left(<<r, c>>)' \in Int
      BY <1>2, <1>7 DEF MaxLeft
    <3> QED
      BY <1>7, <3>1 DEF WorkOf
  <2> HIDE DEF w, S, T
  <2>2. T \in SUBSET (S \ {w})
    BY <1>3, <2>1
  <2>3. IsFiniteSet(S \ {w}) /\ Cardinality(S \ {w}) = Cardinality(S) - 1
    BY <1>4, <2>1, FS_RemoveElement
  <2>4. Cardinality(T) <= Cardinality(S \ {w})
    BY <2>2, <2>3, FS_Subset
  <2> QED
    BY <1>4, <2>3, <2>4
<1> HIDE DEF S, T
<1> QED
  BY <1>5, <1>6, <1>7

\* Each move of a request leaves it less to do, and nobody else leaves it more.
Shrinks(r) ==
    /\ step[Main(r)] # "idle" => Work(r)' <= Work(r)
    /\ Handles(r) \/ (\E g \in Goroutines : RequestOf(g) = r /\ Fetches(g)) => Work(r)' < Work(r)

\* Who moves leaves every request that is there no more to do, and its own less.
LEMMA MoverShrinks ==
    ASSUME NEW g \in Goroutines, OnlyMoves(g), Left(g)' < Left(g),
           \A h \in Goroutines \ {g} : fetching'[h] = fetching[h] /\ round'[h] = round[h],
           step[g] = "children" => step'[g] = "idle",
           NEW r \in Requests, step[Main(r)] # "idle"
    PROVE  Work(r)' <= Work(r) /\ (RequestOf(g) = r => Work(r)' < Work(r))
<1>1. ASSUME NEW c \in Members(r) PROVE Left(<<r, c>>)' <= Left(<<r, c>>)
  <2>1. <<r, c>> \in Goroutines /\ RequestOf(<<r, c>>) = r
    BY MemberFacts
  <2>2. CASE <<r, c>> = g
    <3>1. Left(g) \in 0 .. MaxLeft /\ Left(g)' \in Int
      <4>1. InFetch(g)' \in 1 .. 16
        BY DEF InFetch, InRound, RoundsAfter
      <4> QED
        BY <4>1, LeftRange DEF Left, MaxLeft
    <3>2. Left(g)' <= Left(g)
      BY <3>1 DEF MaxLeft
    <3> QED
      BY <2>2, <3>2
  <2>3. CASE <<r, c>> # g
    BY <2>1, <2>3, OthersKeepLeft
  <2> QED
    BY <2>2, <2>3
<1>2. RequestOf(g) = r => \E c \in Members(r) : Left(<<r, c>>)' < Left(<<r, c>>)
  BY MemberFacts
<1> QED
  BY <1>1, <1>2, WorkFollows

LEMMA StepShrinks ==
    ASSUME HandlerInv, [Next]_vars, NEW r \in Requests
    PROVE  Shrinks(r)
<1>1. ASSUME NEW q \in Requests, Handles(q), step[Main(r)] # "idle"
      PROVE  Work(r)' <= Work(r) /\ (q = r => Work(r)' < Work(r))
  BY <1>1, HandlesShrinks, MoverShrinks, GoroutineFacts
<1>2. ASSUME NEW g \in Goroutines, Fetches(g), step[Main(r)] # "idle"
      PROVE  Work(r)' <= Work(r) /\ (RequestOf(g) = r => Work(r)' < Work(r))
  BY <1>2, FetchesShrinks, MoverShrinks
<1>3. Handles(r) => step[Main(r)] # "idle"
  BY DEF Handles, Acquire, GiveUp, ChildrenDone
<1>4. ASSUME NEW g \in Goroutines, RequestOf(g) = r, Fetches(g) PROVE step[Main(r)] # "idle"
  <2>1. step[g] # "idle"
    BY <1>4 DEF Fetches, ChildAcquires, ChildGivesUp, Hit, Miss, TokenCached, TokenMissing, TokenArrives,
                TokenFails, Dial, Answered, Rejected, SendFails, KnownRefused, Challenged
  <2> QED
    BY <1>4, <2>1, GoroutineFacts DEF HandlerInv, InPlace
<1>5. ASSUME step[Main(r)] # "idle" PROVE Work(r)' <= Work(r)
  <2>1. ASSUME NEW q \in Requests, Begin(q) PROVE Work(r)' <= Work(r)
    <3> DEFINE g == Main(q)
    <3>1. g \in Goroutines /\ RequestOf(g) = q /\ q # r /\ step[g] = "idle"
      BY <1>5, <2>1, GoroutineFacts DEF Begin
    <3>2. OnlyMoves(g) /\ UNCHANGED <<fetching, round>>
      BY <2>1 DEF Begin, GoTo, OnlyMoves, HandlerInv, HandlersTyped
    <3> HIDE DEF g
    <3>3. ASSUME NEW c \in Members(r) PROVE Left(<<r, c>>)' <= Left(<<r, c>>)
      <4>1. <<r, c>> \in Goroutines /\ RequestOf(<<r, c>>) = r
        BY MemberFacts
      <4>2. <<r, c>> # g
        BY <3>1, <4>1
      <4> QED
        BY <1>5, <3>1, <3>2, <4>1, <4>2, OthersKeepLeft
    <3> QED
      BY <3>3, WorkFollows
  <2>2. ASSUME UNCHANGED <<step, fetching, round>> PROVE Work(r)' <= Work(r)
    <3>1. Work(r)' = Work(r)
      BY <2>2 DEF Work, WorkOf, Left, InFetch, InRound, RoundsAfter
    <3>2. Work(r) \in Nat
      BY WorkIsBounded, WorkFinite DEF WorkBounded, MaxLeft
    <3> QED
      BY <3>1, <3>2
  <2>3. \A q \in Requests : Cancel(q) => UNCHANGED <<step, fetching, round>>
    BY DEF Cancel
  <2>4. TokenExpires \/ UNCHANGED vars => UNCHANGED <<step, fetching, round>>
    BY DEF TokenExpires, vars
  <2> QED
    BY <1>1, <1>2, <1>5, <2>1, <2>2, <2>3, <2>4 DEF Next
<1> QED
  BY <1>1, <1>2, <1>3, <1>4, <1>5 DEF Shrinks

\* A request is answered after a bounded number of moves of its own, 35 for
\* itself and each child at most, whatever fails, expires or is cancelled: no
\* retry, challenge or child sends it back (client.go:268-320, 780-807,
\* server.go:238-249).  With NeverStuck, by which someone can always move, all
\* requests that have begun are answered if goroutines that can move do, and no
\* new requests come.
THEOREM RowsWorkShrinks ==
    Spec => [](WorkBounded) /\ [][\A r \in Requests : Shrinks(r)]_vars
<1>1. FanOutInv => WorkBounded /\ HandlerInv
  BY WorkIsBounded DEF FanOutInv
<1>2. HandlerInv /\ [Next]_vars => [\A r \in Requests : Shrinks(r)]_vars
  BY StepShrinks
<1> QED
  BY <1>1, <1>2, FanOutInductive, PTL DEF Spec
=============================================================================
