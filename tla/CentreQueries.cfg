SPECIFICATION Spec
CONSTANTS
    c1 = c1
    c2 = c2
    f1 = f1
    h1 = h1
    o1 = o1
    Centres = {c1, c2}
    Farmers = {f1}
    Crops = {k1}
    Holdings = {h1}
    Owner <- OwnerOfHolding
    UnknownIds = {UnknownId}
    NoCrop = NoCrop
    Unlinked = Unlinked
    Officers = {o1}
    CentreOf <- AssignedTo
    NoRole = NoRole
    NoUser = NoUser
    Totals = {0, 2}
    Quantities = {1, 2}
    NoCentre = NoCentre
    NoRecord = NoRecord
    NoRequest = NoRequest
    NoAnswer = NoAnswer
    MaxPreferences = 2
    MaxChanges = 3
INVARIANTS
    SelectionWasRight
    EligibilityWasRight
