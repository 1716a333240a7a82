SPECIFICATION FairSpec
CONSTANTS
    ana = ana
    ben = ben
    t1 = t1
    t2 = t2
    Person = {ana}
    NoFLT = NoFLT
    Foreign = {}
    Tab = {t1}
    Routes <- ServerRoutes
    LoginPath = "/auth/login"
    ACSPath = "/auth/callback"
    LogoutPath = "/auth/logout"
    MaxAge = 1
    MaxTime = 2
    MaxLogins = 2
INVARIANTS
    NoDeadEnds
