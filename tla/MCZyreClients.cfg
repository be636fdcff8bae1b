SPECIFICATION Spec
CONSTANTS
    Node <- MCNode
    Programs <- MCPrograms
    Tests <- MCTests
    MaxMessage = 2
    Rounds = 3
    MaxNodes = 2
    MaxIterations = 3
    Lines = 1
    Moves = 1
INVARIANTS TypeOK AssertsHold GreetersAreMembers NothingMiscounted
PROPERTIES ProgramsEnd ConversationEnds
CHECK_DEADLOCK FALSE
