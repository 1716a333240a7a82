----------------------------- MODULE MCSession -----------------------------
(***************************************************************************)
(* Instances of Session for TLC: two tabs that two people use, over the    *)
(* routes realme-go documents and over those main.go mounts.               *)
(***************************************************************************)
EXTENDS Session

CONSTANTS ana, ben, t1, t2

\* A verified session of ana's, of the longest age.
VerifiedAna == {[flt |-> ana, level |-> 2, exp |-> MaxAge + MaxTime, issued |-> FALSE]}

\* The middleware also names /auth/realme/verified, for which the package has
\* no handler.
DocumentedRoutes ==
    {<<"GET", "/auth/realme/login">>, <<"POST", "/auth/realme/callback">>,
     <<"GET", "/auth/realme/logout">>}
=============================================================================
