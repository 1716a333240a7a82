SPECIFICATION MCSpec
CONSTANTS
    NumOptions = 3
    MaxBallots = 7
    Commitment = {1, 2, 3, 4, 5, 6}
    MaxElsewhere = 1
    MaxVerified = 1
CHECK_DEADLOCK FALSE
PROPERTIES
    FormSendsThePreferences
