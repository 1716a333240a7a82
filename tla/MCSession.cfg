SPECIFICATION FairSpec
CONSTANTS
    ana = ana
    ben = ben
    t1 = t1
    t2 = t2
    Person = {ana, ben}
    NoFLT = NoFLT
    Foreign <- VerifiedAna
    Tab = {t1, t2}
    Routes <- DocumentedRoutes
    LoginPath = "/auth/realme/login"
    ACSPath = "/auth/realme/callback"
    LogoutPath = "/auth/realme/logout"
    MaxAge = 1
    MaxTime = 1
    MaxLogins = 2
INVARIANTS
    TypeOK
PROPERTIES
    LetThroughIsVouchedFor
    RedirectsEnd
