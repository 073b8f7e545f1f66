SPECIFICATION Spec
CONSTANTS
    s1 = s1
    s2 = s2
    f1 = f1
    f2 = f2
    h1 = h1
    h2 = h2
    o1 = o1
    oForeign = oForeign
    d1 = d1
    d2 = d2
    Centre = Centre
    Crop = Crop
    NoFarmer = NoFarmer
    NoRow = NoRow
    NoRequest = NoRequest
    Sessions = {s1, s2}
    Farmers = {f1}
    Dates = {d1, d2}
    Quantities = {1}
    Stamps = {1}
    Officers = {o1}
    LocalOfficers = {o1}
    Strangers = {}
    Holdings = {h1}
    Owner <- OwnHolding
    UnknownIds = {}
    MaxIntents = 2
    Mutable = {}
INVARIANTS
    OneActiveRequest
