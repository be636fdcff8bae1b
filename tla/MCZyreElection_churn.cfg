CONSTANTS
    Node = {1, 2}
    None = None
    Contender = {1}
    Late = {1, 2}
    Joined = {1, 2}
    Patient = FALSE
    Prompt = FALSE
    Budget <- ManyChange
SPECIFICATION Spec
INVARIANTS TypeOK OnlyContendersLead

CHECK_DEADLOCK FALSE
