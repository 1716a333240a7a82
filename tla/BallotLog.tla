----------------------------- MODULE BallotLog -----------------------------
(***************************************************************************)
(* The ballots of one poll as the results, audit and live pages see them:  *)
(* rows that are stamped with cast_at by the server that inserts them and  *)
(* appear in the table some time later, or never.  Rows are never changed  *)
(* or deleted.  Because the stamp is taken before the INSERT, a row may    *)
(* appear behind rows that carry a later stamp.                            *)
(***************************************************************************)
EXTENDS Integers, FiniteSets

CONSTANTS
    Ballot,     \* the ballots that may be cast, named by their receipt token
    MaxTime     \* bound on the clock

ASSUME BallotLogAssumption == MaxTime \in Nat \ {0}

VARIABLES
    now,        \* the clock the servers share
    stamp,      \* cast_at of each ballot, 0 until it is stamped
    pending,    \* ballots stamped whose INSERT has not ended
    log         \* ballots in the table

logVars == <<now, stamp, pending, log>>

LogTypeOK ==
    /\ now \in 1 .. MaxTime
    /\ stamp \in [Ballot -> 0 .. MaxTime]
    /\ pending \subseteq Ballot
    /\ log \subseteq Ballot

LogInit ==
    /\ now = 1
    /\ stamp = [b \in Ballot |-> 0]
    /\ pending = {}
    /\ log = {}

LogTick ==
    /\ now < MaxTime
    /\ now' = now + 1
    /\ UNCHANGED <<stamp, pending, log>>

Stamp(b) ==
    /\ stamp[b] = 0
    /\ stamp' = [stamp EXCEPT ![b] = now]
    /\ pending' = pending \union {b}
    /\ UNCHANGED <<now, log>>

Commit(b) ==
    /\ b \in pending
    /\ pending' = pending \ {b}
    /\ log' = log \union {b}
    /\ UNCHANGED <<now, stamp>>

\* INSERTs that are refused or fail; a crash takes all of an instance's.
Abort(B) ==
    /\ B # {}
    /\ B \subseteq pending
    /\ pending' = pending \ B
    /\ UNCHANGED <<now, stamp, log>>

LogNext ==
    \/ LogTick
    \/ \E b \in Ballot : Stamp(b) \/ Commit(b)
    \/ \E B \in SUBSET Ballot : Abort(B)

LogSpec == LogInit /\ [][LogNext]_logVars
=============================================================================
