SPECIFICATION Spec
CONSTANTS
    b1 = b1
    b2 = b2
    b3 = b3
    b4 = b4
    Ballot = {b1, b2, b3}
    MaxTime = 3
    PageSize = 1
INVARIANTS
    NoBallotIsListedTwice
