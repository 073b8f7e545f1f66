SPECIFICATION Spec
CONSTANTS
    m1 = m1
    m2 = m2
    Migrators = {m1, m2}
    Goals = {0, 1, 2, 3, 4, 5, 6, 7}
    MaxRows = 2
    NoRun = NoRun
    Gone = Gone
SYMMETRY SymmetryOfTwo
INVARIANTS
    SchemaFollowsRevision
    HeadMatchesModels
PROPERTIES
    RunsAreSerial
    ScriptsFitTheSchema
