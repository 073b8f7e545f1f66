SPECIFICATION Spec
CONSTANTS
    Farmers = {f1, f2}
    Counters = {}
    NoCounter = NoCounter
    NoAnswer = NoAnswer
    MaxTokens = 2
INVARIANTS
    PartsFitTogether
PROPERTIES
    PollsMoveForward
