SPECIFICATION Spec
CONSTANTS
    b1 = b1
    b2 = b2
    b3 = b3
    q1 = q1
    q2 = q2
    q3 = q3
    Ballot = {b1, b2, b3}
    MaxTime = 1
    Request = {q1, q2, q3}
    NumOptions = 2
    choice <- MCChoice
INVARIANTS
    TypeOK
    AnswersAreOneSnapshot
    AnswersReachTheFirstRequest
