SPECIFICATION FairSpec
CONSTANTS
    r1 = r1
    r2 = r2
    r3 = r3
    i1 = i1
    i2 = i2
    u1 = u1
    Requests = {r1, r2, r3}
    Size = 2
    Ids = {i1, i2}
    Known = {i1}
    Officer = Officer
    Farmers = {u1}
    Own <- FarmerIsRegistered
    NoRole = NoRole
    NoFarmer = NoFarmer
    NoRequest = NoRequest
INVARIANTS
    NoneHoldsAndWaits
    AnswersMatchCommits
PROPERTIES
    PoolRecovers
