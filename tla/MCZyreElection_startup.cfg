CONSTANTS
    Node = {1, 2, 3}
    None = None
    Contender = {1, 2, 3}
    Late = {1, 2, 3}
    Joined = {1, 2, 3}
    Patient = TRUE
    Prompt = FALSE
    Budget <- NoChange
SPECIFICATION Spec
INVARIANTS Consent

CHECK_DEADLOCK FALSE
