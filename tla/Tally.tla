------------------------------- MODULE Tally -------------------------------
(***************************************************************************)
(* GET /polls/{id}/results: the tally is computed when no row of tallies   *)
(* holds one and read from that row ever after.  Any number of requests    *)
(* run at once, each a sequence of database calls, while ballots keep      *)
(* arriving.  The audit root, a SHA-256 over the sorted commitments, is    *)
(* taken as collision free: it stands for the set of ballots it covers.    *)
(* The poll is first-past-the-post: a ranked one has no ballots (Voting).  *)
(***************************************************************************)
EXTENDS BallotLog

CONSTANTS
    Request,    \* places for GET /results requests that run at once
    NumOptions, \* the number of options of the poll
    choice      \* the option each ballot chooses

ASSUME TallyAssumption ==
    /\ IsFiniteSet(Ballot)
    /\ NumOptions \in Nat \ {0, 1}
    /\ choice \in [Ballot -> 0 .. NumOptions - 1]

VARIABLES
    tally,      \* the poll's row of tallies
    step,       \* the next call of each request, or how it ended
    snap,       \* the ballots a request has read
    answer,     \* what each request was answered
    known,      \* history: the ballots in the table when each request began
    floor,      \* history: the ballots in the table when the first one began
    past        \* history: every content the table has had

tallyVars == <<tally, step, snap, answer, known, floor, past>>
vars == <<logVars, tallyVars>>

NoTally == [none |-> TRUE]
Option == 0 .. NumOptions - 1
StoredTally == [counts: [Option -> Nat], totalVotes: Nat, auditRoot: SUBSET Ballot]

\* "stored": about to read tallies.  "ballots": about to read all ballots.
\* "upsert": about to write the tally computed from them.
Step == {"idle", "stored", "ballots", "upsert", "done", "failed"}

TallyInit ==
    /\ tally = NoTally
    /\ step = [q \in Request |-> "idle"]
    /\ snap = [q \in Request |-> {}]
    /\ answer = [q \in Request |-> NoTally]
    /\ known = [q \in Request |-> {}]
    /\ floor = {}
    /\ past = {{}}

Init == LogInit /\ TallyInit

-----------------------------------------------------------------------------
counts(B, c) == Cardinality({b \in B : choice[b] = c})

computeAuditRoot(B) == B

storedTally(B) ==
    [counts     |-> [c \in Option |-> counts(B, c)],
     totalVotes |-> Cardinality(B),
     auditRoot  |-> computeAuditRoot(B)]

-----------------------------------------------------------------------------
\* A request arrives and the poll is found.  A request that has ended may be
\* followed by another: Request bounds only how many run at once.
GetTally(q) ==
    /\ step[q] \in {"idle", "done", "failed"}
    /\ step' = [step EXCEPT ![q] = "stored"]
    /\ snap' = [snap EXCEPT ![q] = {}]
    /\ answer' = [answer EXCEPT ![q] = NoTally]
    /\ known' = [known EXCEPT ![q] = log]
    /\ floor' = IF \A r \in Request : step[r] = "idle" THEN log ELSE floor
    /\ UNCHANGED <<tally, past, logVars>>

\* A row that is not there answered all the same.
GetTallyByPollSlip(q) ==
    /\ step[q] = "stored"
    /\ step' = [step EXCEPT ![q] = "done"]
    /\ answer' = [answer EXCEPT ![q] = tally]
    /\ UNCHANGED <<tally, snap, known, floor, past, logVars>>

GetTallyByPoll(q) ==
    /\ step[q] = "stored"
    /\ \/ /\ tally = NoTally
          /\ step' = [step EXCEPT ![q] = "ballots"]
          /\ UNCHANGED answer
       \/ /\ tally # NoTally
          /\ step' = [step EXCEPT ![q] = "done"]
          /\ answer' = [answer EXCEPT ![q] = tally]
    /\ UNCHANGED <<tally, snap, known, floor, past, logVars>>

\* One page of the rows only.
GetBallotsByPollSlip(q) ==
    /\ step[q] = "ballots"
    /\ step' = [step EXCEPT ![q] = "upsert"]
    /\ \E B \in SUBSET log :
        /\ Cardinality(B) <= 1
        /\ snap' = [snap EXCEPT ![q] = B]
    /\ UNCHANGED <<tally, answer, known, floor, past, logVars>>

\* One SELECT: a snapshot of the committed rows.
GetBallotsByPoll(q) ==
    /\ step[q] = "ballots"
    /\ step' = [step EXCEPT ![q] = "upsert"]
    /\ snap' = [snap EXCEPT ![q] = log]
    /\ UNCHANGED <<tally, answer, known, floor, past, logVars>>

\* The total counted afresh when the row is written.
UpsertTallySlip(q) ==
    /\ step[q] = "upsert"
    /\ tally' = [storedTally(snap[q]) EXCEPT !.totalVotes = Cardinality(log)]
    /\ step' = [step EXCEPT ![q] = "done"]
    /\ answer' = [answer EXCEPT ![q] = tally']
    /\ UNCHANGED <<snap, known, floor, past, logVars>>

\* INSERT ... ON CONFLICT DO UPDATE: whatever row is there is overwritten.
\* The row may be written and the driver still report an error.
UpsertTally(q) ==
    /\ step[q] = "upsert"
    /\ tally' = storedTally(snap[q])
    /\ \/ /\ step' = [step EXCEPT ![q] = "done"]
          /\ answer' = [answer EXCEPT ![q] = tally']
       \/ /\ step' = [step EXCEPT ![q] = "failed"]
          /\ UNCHANGED answer
    /\ UNCHANGED <<snap, known, floor, past, logVars>>

\* A call fails, the client goes away or the instance dies.
RequestFails(q) ==
    /\ step[q] \in {"stored", "ballots", "upsert"}
    /\ step' = [step EXCEPT ![q] = "failed"]
    /\ UNCHANGED <<tally, snap, answer, known, floor, past, logVars>>

TallyStep(q) ==
    \/ GetTally(q) \/ GetTallyByPoll(q) \/ GetBallotsByPoll(q)
    \/ UpsertTally(q) \/ RequestFails(q)

\* The voting side moves on.
BallotsMove ==
    /\ LogNext
    /\ past' = past \union {log'}
    /\ UNCHANGED <<tally, step, snap, answer, known, floor>>

Next == BallotsMove \/ \E q \in Request : TallyStep(q)

Spec == Init /\ [][Next]_vars

-----------------------------------------------------------------------------
(* Properties.                                                             *)

\* Every variable has the shape its row, local or history has, and exactly the
\* requests that are done have been given a tally.
TypeOK ==
    /\ LogTypeOK
    /\ tally \in StoredTally \union {NoTally}
    /\ step \in [Request -> Step]
    /\ snap \in [Request -> SUBSET Ballot]
    /\ answer \in [Request -> StoredTally \union {NoTally}]
    /\ \A q \in Request : step[q] = "done" <=> answer[q] # NoTally
    /\ known \in [Request -> SUBSET Ballot]
    /\ floor \subseteq Ballot
    /\ past \subseteq SUBSET Ballot

\* The numbers of one answer belong together: they are those of the table at
\* one moment, however the ballots and other requests move meanwhile, so its
\* total, the sum of its counts and the size of its root agree.
AnswersAreOneSnapshot ==
    \A q \in Request : step[q] = "done" =>
        /\ answer[q].auditRoot \in past
        /\ answer[q].totalVotes = Cardinality(answer[q].auditRoot)
        /\ \A c \in Option : answer[q].counts[c] =
               Cardinality({b \in answer[q].auditRoot : choice[b] = c})

\* However stale a stored tally gets, it is not older than the first request
\* for results: no answer misses a ballot that was in the table by then.
AnswersReachTheFirstRequest ==
    \A q \in Request : step[q] = "done" => floor \subseteq answer[q].auditRoot

\* Stated by the migration ("updated on demand or when a poll closes") and by
\* the README's comparison of the audit with the root of GET /results, and
\* refuted: nothing recomputes a stored tally, not even after the last vote.
QuietResultsAreComplete ==
    \A q \in Request :
        (step[q] = "done" /\ pending = {} /\ known[q] = log) =>
            answer[q].auditRoot = log
=============================================================================
