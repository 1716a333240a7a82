------------------------------ MODULE Session ------------------------------
(***************************************************************************)
(* Signing in with RealMe and the session that follows: the middleware     *)
(* that guards the voting routes, the login, callback and logout handlers  *)
(* of realme-go, the signed cookie, and a browser whose tabs share one     *)
(* cookie jar and may be used by several people.  The server keeps         *)
(* nothing, so any instance answers any request, also after a restart.     *)
(* The key that signs a session is the EntityID, which is public, so that  *)
(* the jar may come to hold tokens which parse and were never issued here. *)
(***************************************************************************)
EXTENDS Integers, FiniteSets

CONSTANTS
    Person,     \* people who use the browser
    NoFLT,      \* what names nobody
    Foreign,    \* tokens that parse and were not issued here
    Tab,        \* its tabs
    Routes,     \* the <<method, path>> pairs the server mounts
    LoginPath,  \* where a page's sign-in link goes
    ACSPath,    \* where RealMe posts its response
    LogoutPath, \* where a page's logout link goes
    MaxAge,     \* the session's age limit, in ticks
    MaxTime,    \* bound on the clock
    MaxLogins   \* bound on the assertions accepted

ASSUME SessionAssumption ==
    /\ NoFLT \notin Person
    /\ Foreign \subseteq [flt: Person \union {NoFLT}, level: Int, exp: Nat, issued: {FALSE}]
    /\ MaxAge \in Nat \ {0} /\ MaxTime \in Nat /\ MaxLogins \in Nat

VARIABLES
    now,        \* the clock
    cookie,     \* the session cookie in the browser's jar
    unseen,     \* the foreign tokens the jar has not come to hold so far
    at,         \* what each tab waits for
    request,    \* the guarded request it wants answered, or its home page
    carried,    \* the cookie its request carries, or its response sets
    vouched     \* history: the assertions accepted, and when

vars == <<now, cookie, unseen, at, request, carried, vouched>>

Level == {0, 1, 2}     \* LevelNone, LevelLogin and LevelVerified

\* The class of the first authentication statement; "None" when the assertion
\* has no statement, or the statement no class.
Strength == {"None", "LowStrength", "ModStrength"}

\* "issued" is history: no handler can tell an issued token from another.
Issued == [flt: Person, level: Level, exp: Nat, issued: {TRUE}]
Token == Issued \union Foreign
NoCookie == [none |-> TRUE]

\* The routes of realme-go's handlers that main.go mounts.
ServerRoutes ==
    {<<"GET", "/auth/login">>, <<"GET", "/auth/callback">>, <<"GET", "/auth/logout">>}

\* GET /auth/status, GET .../my-receipt and POST .../vote, which need a session
\* of a level, and the pages, which need none.
Request == {"home", "status", "receipt", "vote"}
required(q) == CASE q = "home" -> 0 [] q = "status" -> 1 [] q \in {"receipt", "vote"} -> 2

\* "page": shows a page.  "guard", "login", "acs", "logout": a request to the
\* middleware or a handler.  "idp": at RealMe.  "served": the request was let
\* through.  "signedIn", "signedOut": a response with Set-Cookie on its way.
\* "notFound", "notAllowed": 404 and 405.
TabState == {"page", "guard", "login", "idp", "acs", "logout", "served",
             "signedIn", "signedOut", "notFound", "notAllowed"}

Init ==
    /\ now = 0
    /\ cookie = NoCookie
    /\ unseen = Foreign
    /\ at = [t \in Tab |-> "page"]
    /\ request = [t \in Tab |-> "home"]
    /\ carried = [t \in Tab |-> NoCookie]
    /\ vouched = {}

-----------------------------------------------------------------------------
\* GetSession: a cookie that is there, parses and has not expired.
GetSessionSlip(c) == c # NoCookie
GetSession(c) == c # NoCookie /\ now < c.exp

\* Low strength and any class not known are a login; no class is no level.
assuranceLevel(strength) ==
    CASE strength = "None" -> 0
      [] strength = "ModStrength" -> 2
      [] OTHER -> 1

\* extractIdentity refuses an assertion only for its FLT.
hasFLTSlip(assertion) == TRUE
hasFLT(assertion) == assertion.who # NoFLT

extractIdentity(assertion) ==
    [flt |-> assertion.who, level |-> assuranceLevel(assertion.strength)]

CreateSession(identity) ==
    [flt |-> identity.flt, level |-> identity.level, exp |-> now + MaxAge, issued |-> TRUE]

\* A Set-Cookie with a negative age.
DeleteSession == NoCookie

\* RequireLogin and RequireVerified send a session below their level here.
redirectToSlip(level) == "/auth/realme/login"
redirectTo(level) == IF level = 2 THEN "/auth/realme/verified" ELSE "/auth/realme/login"

\* The browser follows a link or redirect; every handler of a login path is
\* LoginHandler.
follow(t, path) ==
    /\ at' = [at EXCEPT ![t] = IF <<"GET", path>> \in Routes THEN "login" ELSE "notFound"]
    /\ carried' = [carried EXCEPT ![t] = cookie]

showPage(t) ==
    /\ at' = [at EXCEPT ![t] = "page"]
    /\ request' = [request EXCEPT ![t] = "home"]
    /\ carried' = [carried EXCEPT ![t] = NoCookie]

-----------------------------------------------------------------------------
Tick ==
    /\ now < MaxTime
    /\ now' = now + 1
    /\ UNCHANGED <<cookie, unseen, at, request, carried, vouched>>

\* The browser drops a cookie past its age, sooner or later.
CookieExpires ==
    /\ cookie # NoCookie
    /\ cookie.exp <= now
    /\ cookie' = NoCookie
    /\ UNCHANGED <<now, unseen, at, request, carried, vouched>>

\* Another program that signs with the EntityID has set the cookie.
ForeignCookie(c) ==
    /\ c \in unseen
    /\ cookie' = c
    /\ unseen' = unseen \ {c}
    /\ UNCHANGED <<now, at, request, carried, vouched>>

\* A page asks for something the middleware guards.
Ask(t, q) ==
    /\ at[t] = "page"
    /\ at' = [at EXCEPT ![t] = "guard"]
    /\ request' = [request EXCEPT ![t] = q]
    /\ carried' = [carried EXCEPT ![t] = cookie]
    /\ UNCHANGED <<now, cookie, unseen, vouched>>

\* No session, or one of too low a level, is a redirect, which a fetch follows
\* like any navigation.
requireAssuranceLevel(t) ==
    /\ at[t] = "guard"
    /\ \/ /\ ~GetSession(carried[t])
          /\ follow(t, "/auth/realme/login")
       \/ /\ GetSession(carried[t])
          /\ carried[t].level < required(request[t])
          /\ follow(t, redirectTo(required(request[t])))
       \/ /\ GetSession(carried[t])
          /\ carried[t].level >= required(request[t])
          /\ at' = [at EXCEPT ![t] = "served"]
          /\ UNCHANGED carried
    /\ UNCHANGED <<now, cookie, unseen, request, vouched>>

SignIn(t) ==
    /\ at[t] = "page"
    /\ follow(t, LoginPath)
    /\ UNCHANGED <<now, cookie, unseen, request, vouched>>

\* Someone who has a session is sent back to where she came from, by a GET:
\* a vote comes back where only POST is mounted.
LoginHandler(t) ==
    /\ at[t] = "login"
    /\ \/ /\ ~GetSession(carried[t])
          /\ at' = [at EXCEPT ![t] = "idp"]
          /\ carried' = [carried EXCEPT ![t] = NoCookie]
          /\ UNCHANGED request
       \/ /\ GetSession(carried[t])
          /\ request[t] = "home"
          /\ showPage(t)
       \/ /\ GetSession(carried[t])
          /\ request[t] # "home"
          /\ at' = [at EXCEPT ![t] = IF request[t] = "vote" THEN "notAllowed" ELSE "guard"]
          /\ carried' = [carried EXCEPT ![t] = cookie]
          /\ UNCHANGED request
    /\ UNCHANGED <<now, cookie, unseen, vouched>>

\* ForceAuthn: whoever sits there authenticates anew, or gives up.
Authenticate(t) ==
    /\ at[t] = "idp"
    /\ at' = [at EXCEPT ![t] = IF <<"POST", ACSPath>> \in Routes THEN "acs" ELSE "notAllowed"]
    /\ UNCHANGED <<now, cookie, unseen, request, carried, vouched>>

\* The response asserts a person, or none, and a strength; no two accepted ones
\* are of one person and strength in one tick.  Without an FLT the answer is an
\* error page and sets no cookie.
CallbackHandler(t, who, strength) ==
    LET assertion == [who |-> who, strength |-> strength, time |-> now]
    IN  /\ at[t] = "acs"
        /\ \/ /\ ~hasFLT(assertion)
              /\ showPage(t)
              /\ UNCHANGED vouched
           \/ /\ hasFLT(assertion)
              /\ assertion \notin vouched
              /\ Cardinality(vouched) < MaxLogins
              /\ at' = [at EXCEPT ![t] = "signedIn"]
              /\ carried' = [carried EXCEPT ![t] = CreateSession(extractIdentity(assertion))]
              /\ vouched' = vouched \union {assertion}
              /\ UNCHANGED request
        /\ UNCHANGED <<now, cookie, unseen>>

ReceiveSession(t) ==
    /\ at[t] = "signedIn"
    /\ cookie' = carried[t]
    /\ showPage(t)
    /\ UNCHANGED <<now, unseen, vouched>>

SignOut(t) ==
    /\ at[t] = "page"
    /\ at' = [at EXCEPT ![t] =
                IF <<"GET", LogoutPath>> \in Routes THEN "logout" ELSE "notFound"]
    /\ UNCHANGED <<now, cookie, unseen, request, carried, vouched>>

LogoutHandler(t) ==
    /\ at[t] = "logout"
    /\ at' = [at EXCEPT ![t] = "signedOut"]
    /\ UNCHANGED <<now, cookie, unseen, request, carried, vouched>>

ReceiveLogout(t) ==
    /\ at[t] = "signedOut"
    /\ cookie' = DeleteSession
    /\ showPage(t)
    /\ UNCHANGED <<now, unseen, vouched>>

\* The user gives up, a response is refused, or a request or its answer is
\* lost: the tab is back on a page.
BackToPage(t) ==
    /\ at[t] # "page"
    /\ showPage(t)
    /\ UNCHANGED <<now, cookie, unseen, vouched>>

ServerStep(t) == requireAssuranceLevel(t) \/ LoginHandler(t)

Next ==
    \/ Tick
    \/ CookieExpires
    \/ \E c \in Foreign : ForeignCookie(c)
    \/ \E t \in Tab :
        \/ \E q \in Request \ {"home"} : Ask(t, q)
        \/ ServerStep(t)
        \/ SignIn(t) \/ Authenticate(t) \/ ReceiveSession(t)
        \/ \E who \in Person \union {NoFLT}, strength \in Strength :
              CallbackHandler(t, who, strength)
        \/ SignOut(t) \/ LogoutHandler(t) \/ ReceiveLogout(t)
        \/ BackToPage(t)

Spec == Init /\ [][Next]_vars

\* Requests that have reached the server are answered.
FairSpec == Spec /\ \A t \in Tab : WF_vars(ServerStep(t))

-----------------------------------------------------------------------------
(* Properties.                                                             *)

\* Every variable has its shape: a session that is issued names a person, and
\* may be of no level.
TypeOK ==
    /\ now \in 0 .. MaxTime
    /\ cookie \in Token \union {NoCookie}
    /\ unseen \subseteq Foreign
    /\ at \in [Tab -> TabState]
    /\ request \in [Tab -> Request]
    /\ carried \in [Tab -> Token \union {NoCookie}]
    /\ vouched \subseteq [who: Person, strength: Strength, time: 0 .. MaxTime]

\* Whoever shares the browser, however late a request arrives, and whatever
\* answers set the cookie meanwhile: a request that carries an issued session is
\* only let through as a person RealMe vouched for, by an authentication of the
\* strength it needs, within the session's age.  Of a token that parses and was
\* not issued the code knows, and this says, nothing.
LetThroughIsVouchedFor ==
    [][\A t \in Tab : at[t] # "served" /\ at'[t] = "served" /\ carried[t].issued =>
          \E v \in vouched :
              /\ v.who = carried[t].flt
              /\ required(request[t]) >= 1 => v.strength # "None"
              /\ required(request[t]) = 2 => v.strength = "ModStrength"
              /\ now < v.time + MaxAge]_vars

\* The browser has a session of no level, which the guard never lets through
\* and LoginHandler takes for one that needs no login.
Levelless == cookie # NoCookie /\ GetSession(cookie) /\ cookie.level < 1

\* Once people stop signing in, the redirects between the guard and the login
\* handler end with an answer, at RealMe's login or with an error, for every
\* session the browser can have but one of no level: that one is sent round
\* until it expires.
RedirectsEnd ==
    []<>Levelless \/ \A t \in Tab : at[t] = "guard" ~> at[t] \notin {"guard", "login"}

\* Stated by the middleware ("redirected to /auth/realme/login") and by the
\* callback handler ("handles the RealMe SAML POST-binding callback"), and
\* refuted for the routes main.go mounts: neither path leads to a handler.
NoDeadEnds == \A t \in Tab : at[t] \notin {"notFound", "notAllowed"}
=============================================================================
