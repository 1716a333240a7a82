SPECIFICATION FairSpec
CONSTANTS
    b1 = b1
    b2 = b2
    p1 = p1
    s1 = s1
    s2 = s2
    Ballot = {b1, b2}
    MaxTime = 1
    Page = {p1}
    Stream = {s1, s2}
    ChanCap = 1
    choice <- MCChoice
INVARIANTS
    TypeOK
    NoSendOnClosedChannel
    TotalsCountTheirBallot
    VotesReachTheChart
PROPERTIES
    SubscriptionsEnd
    AnnouncementsEnd
