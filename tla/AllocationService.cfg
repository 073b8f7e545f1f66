SPECIFICATION Spec
CONSTANTS
    s1 = s1
    s2 = s2
    f1 = f1
    f2 = f2
    d1 = d1
    d2 = d2
    Farmers = {f1, f2}
    Dates = {d1, d2}
    Quantities = {1}
    Stamps = {1}
    Cycle = d1
    Digest <- SomeDigests
    Sessions = {s1, s2}
    Free = Free
    NoRecord = NoRecord
    NoPlan = NoPlan
    MaxIntents = 2
    MaxTotal = 2
SYMMETRY SymmetryOfTwo
INVARIANTS
    TypeOK
    AllocatedIsBooked
    CapacitySuffices
    OneDecisionPerFarmer
    DecidedWereApproved
    AnswersMatchCommits
PROPERTIES
    PlanIsCurrent
