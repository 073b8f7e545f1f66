SPECIFICATION Spec
CONSTANTS
    s1 = s1
    s2 = s2
    f1 = f1
    f2 = f2
    h1 = h1
    h2 = h2
    o1 = o1
    oForeign = oForeign
    d1 = d1
    d2 = d2
    Centre = Centre
    Crop = Crop
    NoFarmer = NoFarmer
    NoRow = NoRow
    NoRequest = NoRequest
    Sessions = {s1, s2}
    Farmers = {f1, f2}
    Dates = {d1, d2}
    Quantities = {1}
    Stamps = {1}
    Officers = {o1, oForeign}
    LocalOfficers = {o1}
    Strangers = {Stranger}
    Holdings = {h1}
    Owner <- OwnHolding
    UnknownIds = {UnknownId}
    MaxIntents = 2
    Mutable = {h1}
SYMMETRY SymmetryOfTwo
INVARIANTS
    Inv
    DuplicatesOnlyFromOverlap
    AnswersMatchCommits
PROPERTIES
    CommitsAreAuthorised
    EligibleWhenChecked
    ImplementsIntentBook
