SPECIFICATION Planning
CONSTANTS
    f1 = f1
    f2 = f2
    f3 = f3
    d1 = d1
    d2 = d2
    Farmers = {f1, f2, f3}
    Dates = {d1, d2}
    Quantities = {1, 2, 3}
    Stamps = {1, 2}
    Cycle = d1
    Digest <- SomeDigests
    Capacities <- SomeCapacities
    MaxCandidates = 3
    Tried <- SomeIntents
    NotYet = NotYet
CHECK_DEADLOCK FALSE
INVARIANTS
    CapacityIsAccountedFor
    NoEnvy
    NothingServableIsLeft
    OrderOfInputIsIrrelevant
