CONSTANTS
    Digit = 4
    Signature = 171
    Null = Null
    Abort = Abort
    Slash = 9
    Word = Word
    Junk = Junk
    Broken = Broken
    Blank = Blank
    Text <- MCText
    Number <- MCNumber
    GroupList <- MCGroupList
    HeaderHash <- MCHeaderHash
    Content <- MCContent
    RoutingId <- MCRoutingId
    Stray <- MCStray
    Garbage <- MCGarbage
    Budget <- Few
SPECIFICATION Spec
INVARIANTS TypeOK FrameIsFilled ControlArrives RoundTrip NothingSwallowed StoredAsItWas
    SpoiltTree
CHECK_DEADLOCK FALSE
