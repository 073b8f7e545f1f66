SPECIFICATION Spec
CONSTANTS
    s1 = s1
    s2 = s2
    f1 = f1
    f2 = f2
    o1 = o1
    oForeign = oForeign
    cLocal = cLocal
    cForeign = cForeign
    NoCounter = NoCounter
    NoFarmer = NoFarmer
    Free = Free
    NoRow = NoRow
    NoRequest = NoRequest
    Sessions = {s1}
    Farmers = {f1, f2}
    Officers = {o1}
    LocalOfficers = {o1}
    Counters = {cLocal, cForeign}
    LocalCounters = {cLocal}
    UnknownCounters = {UnknownCounter}
    UnknownFarmers = {UnknownFarmer}
    Unlinked = {Unlinked}
    MaxAttempts = 2
    MaxTokens = 3
    Operations = {"join", "call", "process", "complete", "cancel"}
PROPERTIES
    IllegalTransitionIsConflict
