--------------------------- MODULE SessionProofs ---------------------------
(***************************************************************************)
(* Theorems about Session, for every set of people and of tabs, every      *)
(* table of routes, every bound and whatever foreign tokens the jar comes  *)
(* to hold: the safety of signing in does not depend on where the server   *)
(* mounts its handlers.                                                    *)
(***************************************************************************)
EXTENDS Session, TLAPS

-----------------------------------------------------------------------------
(* The inductive invariant.                                                *)

\* An issued session is the work of one accepted assertion: it names its
\* person, has the level of its strength, and ends one age limit after it.
Vouched(c) ==
    \E v \in vouched :
        /\ v.who = c.flt
        /\ c.level = assuranceLevel(v.strength)
        /\ c.exp = v.time + MaxAge

\* That is so in the browser, in every request under way, whose cookie may be
\* older than the browser's, and in every response.
SessionsInv ==
    /\ cookie \in Issued => Vouched(cookie)
    /\ \A t \in Tab : carried[t] \in Issued => Vouched(carried[t])

IInv == TypeOK /\ SessionsInv

-----------------------------------------------------------------------------
(* What the steps of a tab have in common.                                 *)

\* A cookie that some step copies is still a vouched one.
\* What marks a foreign token, and the missing one, is not an issued session.
LEMMA NotIssued ==
    /\ NoCookie \notin Issued
    /\ \A c \in Foreign : c \notin Issued /\ c.issued = FALSE
    /\ \A c \in Issued : c.issued = TRUE
BY SessionAssumption DEF Issued, NoCookie

LEMMA CopyKeeps ==
    ASSUME IInv, NEW t \in Tab, NEW s \in TabState,
           at' = [at EXCEPT ![t] = s],
           \/ UNCHANGED carried
           \/ carried' = [carried EXCEPT ![t] = cookie]
           \/ carried' = [carried EXCEPT ![t] = NoCookie],
           request' \in [Tab -> Request],
           cookie' = cookie \/ cookie' = carried[t] \/ cookie' = NoCookie,
           UNCHANGED <<now, unseen, vouched>>
    PROVE  IInv'
<1> USE DEF IInv, TypeOK
<1>1. /\ carried' \in [Tab -> Token \union {NoCookie}]
      /\ \A u \in Tab : carried'[u] = carried[u] \/ carried'[u] = cookie \/ carried'[u] = NoCookie
  OBVIOUS
<1>2. TypeOK'
  BY <1>1
<1>3. SessionsInv'
  BY <1>1, NotIssued DEF SessionsInv, Vouched
<1> QED
  BY <1>2, <1>3

\* Following a link takes the browser's cookie along.
LEMMA FollowKeeps ==
    ASSUME IInv, NEW t \in Tab, NEW path, follow(t, path),
           UNCHANGED <<now, cookie, unseen, request, vouched>>
    PROVE  IInv'
<1>1. PICK s \in {"login", "notFound"} : at' = [at EXCEPT ![t] = s]
  BY DEF follow
<1>2. s \in TabState
  BY <1>1 DEF TabState
<1>3. request' \in [Tab -> Request]
  BY DEF IInv, TypeOK
<1> QED
  BY <1>1, <1>2, <1>3, CopyKeeps DEF follow

LEMMA ShowPageKeeps ==
    ASSUME IInv, NEW t \in Tab, showPage(t),
           cookie' = cookie \/ cookie' = carried[t] \/ cookie' = NoCookie,
           UNCHANGED <<now, unseen, vouched>>
    PROVE  IInv'
<1>1. "page" \in TabState
  BY DEF TabState
<1>2. request' \in [Tab -> Request]
  BY DEF IInv, TypeOK, showPage, Request
<1> QED
  BY <1>1, <1>2, CopyKeeps DEF showPage

\* The session of a new assertion is vouched for by it; one that names nobody
\* gets none.
LEMMA CallbackHandlerKeeps ==
    ASSUME IInv, NEW t \in Tab, NEW p \in Person \union {NoFLT}, NEW strength \in Strength,
           CallbackHandler(t, p, strength)
    PROVE  IInv'
<1> DEFINE assertion == [who |-> p, strength |-> strength, time |-> now]
           session == CreateSession(extractIdentity(assertion))
<1>0. CASE showPage(t) /\ UNCHANGED vouched
  BY <1>0, ShowPageKeeps DEF CallbackHandler
<1>1. CASE ~(showPage(t) /\ UNCHANGED vouched)
  <2> USE DEF IInv, TypeOK
  <2>1. /\ p \in Person
        /\ at' = [at EXCEPT ![t] = "signedIn"]
        /\ carried' = [carried EXCEPT ![t] = session]
        /\ vouched' = vouched \union {assertion}
        /\ UNCHANGED <<now, cookie, unseen, request>>
    BY <1>1 DEF CallbackHandler, hasFLT
  <2>2. session = [flt |-> p, level |-> assuranceLevel(strength), exp |-> now + MaxAge,
                   issued |-> TRUE]
    BY DEF CreateSession, extractIdentity
  <2>3. /\ session.flt = p /\ session.level = assuranceLevel(strength)
        /\ session.exp = now + MaxAge
    BY <2>2
  <2>4. session \in Issued
    <3>1. assuranceLevel(strength) \in Level
      BY Zenon DEF assuranceLevel, Level
    <3>2. now + MaxAge \in Nat
      BY SessionAssumption
    <3> HIDE DEF IInv, TypeOK
    <3>3. /\ p \in Person
          /\ session = [flt |-> p, level |-> assuranceLevel(strength),
                        exp |-> now + MaxAge, issued |-> TRUE]
      BY <2>1, <2>2
    <3> HIDE DEF session
    <3> QED
      BY <3>1, <3>2, <3>3 DEF Issued
  <2>5. assertion \in [who: Person, strength: Strength, time: 0 .. MaxTime]
    BY <2>1
  <2> HIDE DEF session
  <2>6. TypeOK'
    BY <2>1, <2>4, <2>5 DEF TabState, Token
  <2>7. \E w \in vouched' : /\ w.who = session.flt
                            /\ session.level = assuranceLevel(w.strength)
                            /\ session.exp = w.time + MaxAge
    <3>1. assertion \in vouched'
      BY <2>1
    <3>2. assertion.who = p /\ assertion.strength = strength /\ assertion.time = now
      OBVIOUS
    <3> QED
      BY <2>3, <3>1, <3>2
  <2>8. \A d : Vouched(d) => \E w \in vouched' : /\ w.who = d.flt
                                                 /\ d.level = assuranceLevel(w.strength)
                                                 /\ d.exp = w.time + MaxAge
    BY <2>1 DEF Vouched
  <2>9. cookie' \in Issued => Vouched(cookie)'
    BY <2>1, <2>8 DEF SessionsInv, Vouched
  <2>10. ASSUME NEW u \in Tab, carried'[u] \in Issued PROVE Vouched(carried[u])'
    <3>1. CASE u = t
      <4>1. carried'[u] = session
        BY <2>1, <3>1
      <4>2. \E w \in vouched' : /\ w.who = carried'[u].flt
                                /\ carried'[u].level = assuranceLevel(w.strength)
                                /\ carried'[u].exp = w.time + MaxAge
        BY <2>7, <4>1
      <4> QED
        BY <4>2 DEF Vouched
    <3>2. CASE u # t
      BY <2>1, <2>8, <2>10, <3>2 DEF SessionsInv, Vouched
    <3> QED
      BY <3>1, <3>2
  <2> QED
    BY <2>6, <2>9, <2>10 DEF SessionsInv
<1> QED
  BY <1>0, <1>1

-----------------------------------------------------------------------------
(* Initial states and steps.                                               *)

LEMMA InitIInv == Init => IInv
BY NotIssued, SessionAssumption DEF Init, IInv, TypeOK, SessionsInv, TabState, Request

LEMMA ServerStepKeeps ==
    ASSUME IInv, NEW t \in Tab, ServerStep(t)
    PROVE  IInv'
<1>1. request \in [Tab -> Request]
  BY DEF IInv, TypeOK
<1>2. ASSUME requireAssuranceLevel(t) PROVE IInv'
  <2>1. CASE \E path \in {"/auth/realme/login", redirectTo(required(request[t]))} :
                 follow(t, path)
    BY <1>2, <2>1, FollowKeeps DEF requireAssuranceLevel
  <2>2. CASE at' = [at EXCEPT ![t] = "served"] /\ UNCHANGED carried
    BY <1>1, <1>2, <2>2, CopyKeeps DEF requireAssuranceLevel, TabState
  <2> QED
    BY <1>2, <2>1, <2>2 DEF requireAssuranceLevel
<1>3. ASSUME LoginHandler(t) PROVE IInv'
  <2>1. CASE showPage(t)
    BY <1>3, <2>1, ShowPageKeeps DEF LoginHandler
  <2>2. CASE ~showPage(t)
    <3>1. PICK s \in {"idp", "notAllowed", "guard"} :
              /\ at' = [at EXCEPT ![t] = s]
              /\ \/ carried' = [carried EXCEPT ![t] = cookie]
                 \/ carried' = [carried EXCEPT ![t] = NoCookie]
              /\ UNCHANGED request
      BY <1>3, <2>2 DEF LoginHandler
    <3>2. s \in TabState
      BY DEF TabState
    <3> QED
      BY <1>1, <1>3, <3>1, <3>2, CopyKeeps DEF LoginHandler
  <2> QED
    BY <2>1, <2>2
<1> QED
  BY <1>2, <1>3 DEF ServerStep

\* The steps that only move a tab, with or without the browser's cookie.
LEMMA TabMovesKeep ==
    ASSUME IInv, NEW t \in Tab,
           \/ \E q \in Request \ {"home"} : Ask(t, q)
           \/ SignIn(t) \/ Authenticate(t)
           \/ SignOut(t) \/ LogoutHandler(t)
    PROVE  IInv'
<1>1. request \in [Tab -> Request]
  BY DEF IInv, TypeOK
<1>2. ASSUME NEW q \in Request, Ask(t, q) PROVE IInv'
  <2>1. request' \in [Tab -> Request] /\ "guard" \in TabState
    BY <1>1, <1>2 DEF Ask, TabState
  <2> QED
    BY <1>2, <2>1, CopyKeeps DEF Ask
<1>3. ASSUME SignIn(t) PROVE IInv'
  BY <1>3, FollowKeeps DEF SignIn
<1>4. ASSUME Authenticate(t) \/ SignOut(t) \/ LogoutHandler(t) PROVE IInv'
  <2>1. PICK s \in {"acs", "notAllowed", "logout", "notFound", "signedOut"} :
            at' = [at EXCEPT ![t] = s]
    BY <1>4 DEF Authenticate, SignOut, LogoutHandler
  <2>2. s \in TabState
    BY DEF TabState
  <2> QED
    BY <1>1, <1>4, <2>1, <2>2, CopyKeeps DEF Authenticate, SignOut, LogoutHandler
<1> QED
  BY <1>2, <1>3, <1>4

LEMMA IInvInd == IInv /\ [Next]_vars => IInv'
<1> SUFFICES ASSUME IInv, [Next]_vars PROVE IInv'
  OBVIOUS
<1>1. CASE Tick
  BY <1>1, SessionAssumption DEF Tick, IInv, TypeOK, SessionsInv, Vouched
<1>2. CASE CookieExpires
  BY <1>2, NotIssued DEF CookieExpires, IInv, TypeOK, SessionsInv, Vouched
<1>3. ASSUME NEW t \in Tab, ReceiveSession(t) \/ ReceiveLogout(t) \/ BackToPage(t)
      PROVE  IInv'
  BY <1>3, ShowPageKeeps DEF ReceiveSession, ReceiveLogout, BackToPage, DeleteSession
<1>4. ASSUME NEW c \in Foreign, ForeignCookie(c)
      PROVE  IInv'
  BY <1>4, NotIssued DEF ForeignCookie, IInv, TypeOK, SessionsInv, Vouched, Token
<1>5. CASE UNCHANGED vars
  BY <1>5 DEF vars, IInv, TypeOK, SessionsInv, Vouched
<1> QED
  BY <1>1, <1>2, <1>3, <1>4, <1>5, ServerStepKeeps, TabMovesKeep, CallbackHandlerKeeps
     DEF Next

-----------------------------------------------------------------------------
(* Theorems.                                                               *)

\* The inductive invariant of signing in holds in every reachable state.
THEOREM SessionInvariance == Spec => []IInv
BY InitIInv, IInvInd, PTL DEF Spec

\* Cookies, tabs and assertions keep their shape, and every session that is
\* issued names a person.
THEOREM SessionTypes == Spec => []TypeOK
<1>1. IInv => TypeOK
  BY DEF IInv
<1> QED
  BY <1>1, SessionInvariance, PTL

\* With a session that was issued the guard lets nobody through who has not been
\* vouched for, at the strength the route wants and within the session's age,
\* whatever other tokens the browser has held.
THEOREM OnlyVouchedForAreLetThrough == Spec => LetThroughIsVouchedFor
<1> DEFINE Goal(t) ==
        \E v \in vouched :
            /\ v.who = carried[t].flt
            /\ required(request[t]) >= 1 => v.strength # "None"
            /\ required(request[t]) = 2 => v.strength = "ModStrength"
            /\ now < v.time + MaxAge
<1>1. ASSUME IInv, [Next]_vars, NEW t \in Tab, at[t] # "served", at'[t] = "served",
             carried[t].issued
      PROVE  Goal(t)
  <2>1. /\ GetSession(carried[t])
        /\ carried[t].level >= required(request[t])
    <3>1. at \in [Tab -> TabState]
      BY <1>1 DEF IInv, TypeOK
    <3>2. ASSUME NEW u \in Tab, requireAssuranceLevel(u)
          PROVE  GetSession(carried[t]) /\ carried[t].level >= required(request[t])
      BY <1>1, <3>1, <3>2 DEF requireAssuranceLevel, follow
    <3>3. ASSUME NEW u \in Tab,
                 \/ \E q \in Request \ {"home"} : Ask(u, q)
                 \/ LoginHandler(u)
                 \/ SignIn(u) \/ Authenticate(u) \/ ReceiveSession(u)
                 \/ \E p \in Person \union {NoFLT}, strength \in Strength :
                        CallbackHandler(u, p, strength)
                 \/ SignOut(u) \/ LogoutHandler(u) \/ ReceiveLogout(u)
                 \/ BackToPage(u)
          PROVE  FALSE
      BY <1>1, <3>1, <3>3 DEF Ask, LoginHandler, SignIn, Authenticate, ReceiveSession,
             CallbackHandler, SignOut, LogoutHandler, ReceiveLogout, BackToPage, follow, showPage
    <3>4. CASE Tick \/ CookieExpires \/ (\E c \in Foreign : ForeignCookie(c)) \/ UNCHANGED vars
      BY <1>1, <3>1, <3>4 DEF Tick, CookieExpires, ForeignCookie, vars
    <3> QED
      BY <1>1, <3>2, <3>3, <3>4 DEF Next, ServerStep
  <2>2. carried[t] \in Issued
    BY <1>1, <2>1, NotIssued DEF IInv, TypeOK, GetSession, Token
  <2>3. request[t] \in Request /\ Vouched(carried[t]) /\ now < carried[t].exp
    BY <1>1, <2>1, <2>2 DEF IInv, TypeOK, SessionsInv, GetSession
  <2>4. PICK v \in vouched : /\ v.who = carried[t].flt
                             /\ carried[t].level = assuranceLevel(v.strength)
                             /\ carried[t].exp = v.time + MaxAge
    BY <2>3 DEF Vouched
  <2>5. required(request[t]) \in {0, 1, 2}
    BY <2>3 DEF Request, required
  <2>6. v.strength \in Strength
    BY <1>1 DEF IInv, TypeOK
  <2>7. /\ required(request[t]) >= 1 => v.strength # "None"
        /\ required(request[t]) = 2 => v.strength = "ModStrength"
    BY <2>1, <2>4, <2>5, <2>6 DEF assuranceLevel, Strength
  <2> QED
    BY <2>3, <2>4, <2>7
<1>2. IInv /\ [Next]_vars =>
          [\A t \in Tab : at[t] # "served" /\ at'[t] = "served" /\ carried[t].issued
                => Goal(t)]_vars
  BY <1>1
<1> QED
  BY <1>2, SessionInvariance, PTL DEF Spec, LetThroughIsVouchedFor
=============================================================================
