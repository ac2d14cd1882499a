SPECIFICATION MCSpec
CONSTANTS
    r1 = r1
    r2 = r2
    p1 = p1
    c1 = c1
    c2 = c2
    Rows = {r1, r2}
    Pages = {p1}
    Children = {c1, c2}
    ChildrenOf <- OneIndex
    Slots = 1
    ChildSlots = 1
    Conns = 1
    Owner = owner
    None = None
    Faults = TRUE
    MaxCancelled = 1
INVARIANT CancelledFreesSlot
