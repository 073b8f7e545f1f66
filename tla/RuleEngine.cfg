SPECIFICATION Spec
CONSTANTS
    Rules = {1, 2, 3, 4}
    DeferredRules = {3}
CHECK_DEADLOCK FALSE
INVARIANTS
    EligibleIffNoFailure
    FailuresAreInOrder
