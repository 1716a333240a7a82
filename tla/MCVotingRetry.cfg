SPECIFICATION FairSpec
CONSTANTS
    v1 = v1
    v2 = v2
    p1 = p1
    s1 = s1
    s2 = s2
    Voter = {v1}
    Poll = {p1}
    Server = {s1, s2}
    Attempt <- RetryAttempts
    NumOptions = 2
    MaxTime = 3
INVARIANTS
    BallotsAreTimely
PROPERTIES
    OneWayStates
    ImplementsBallotBox
    ImplementsBallotLog
    EveryPollCloses
