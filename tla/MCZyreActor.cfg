CONSTANTS
    p1 = p1
    p2 = p2
    Peer = {p1, p2}
    Group = {g1}
    Name = {n0, n1}
    Null = Null
    DefaultName = n0
    Order <- MCOrder
    Hwm = 2
    Reap = 1
    Evasive = 1
    Expired = 3
    Timeout <- MCTimeout
    InboxBound = 1
    Unlimited <- MCUnlimited
    Budgets <- MCBudgets
SPECIFICATION FairSpec
INVARIANTS TypeOK Paired ReadsItsWrites ViewFollows CarefulNeverAborts PollsWhatItHas LivePeerKept
PROPERTIES Answered SilentRemoved
CHECK_DEADLOCK FALSE
