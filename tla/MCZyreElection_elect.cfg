CONSTANTS
    Node = {1, 2, 3, 4}
    None = None
    Contender = {1, 3}
    Late = {}
    Joined = {}
    Patient = TRUE
    Prompt = TRUE
    Budget <- AllJoin
SPECIFICATION FairSpec
INVARIANTS CountsWithinGroup Consent
PROPERTIES ElectionsEnd
CHECK_DEADLOCK FALSE
