------------------------------- MODULE Voting -------------------------------
(***************************************************************************)
(* Casting a ballot: voter registration, the life of a poll, the scheduler *)
(* that opens and closes polls, and POST /polls/{id}/vote as the sequence  *)
(* of database calls its handler makes.  Any number of requests run at     *)
(* once on several server instances over one PostgreSQL database; between  *)
(* two calls of one request anything else may happen, and a call may fail, *)
(* fail after it took effect, or be cut short by a crash of its instance.  *)
(***************************************************************************)
EXTENDS Integers, Sequences

CONSTANTS
    Voter,      \* people with a RealMe Verified session
    Poll,       \* poll identifiers
    Server,     \* server instances, each with its own scheduler
    Attempt,    \* the vote requests clients may send, each at most once
    NumOptions, \* the number of options of every poll
    MaxTime     \* bound on the clock, in scheduler ticks

Time == 0 .. MaxTime    \* 0 is Go's zero time.Time

\* An attempt carries its caller, its poll, the instance it reaches and its
\* body; "id" tells a repeated request from the first.  The receipt token is
\* a random UUID made for the request, so the attempt itself stands for it.
AttemptRecord ==
    [id: Nat, voter: Voter, poll: Poll, server: Server,
     choiceIndex: Int, rankings: Seq(Int)]

ASSUME VotingAssumption ==
    /\ Attempt \subseteq AttemptRecord
    /\ NumOptions \in Nat \ {0, 1}
    /\ MaxTime \in Nat \ {0}

VARIABLES
    now,        \* the clock, the application's and the database's
    voters,     \* table voters: the status of each voter's row, "none" without
    polls,      \* table polls: the row of each poll, status "none" without
    ballots,    \* table ballots
    phase,      \* the next call of each attempt, or how it ended
    castAt,     \* the time stamped on the ballot an attempt is about to insert
    sched,      \* the next statement of each instance's scheduler
    shown,      \* history: receipt tokens each voter was shown for each poll
    late        \* history: attempts sent when their poll was already closed

vars == <<now, voters, polls, ballots, phase, castAt, sched, shown, late>>

VoterStatus == {"none", "registered", "suspended"}
PollStatus == {"none", "draft", "open", "closed"}
BallotType == {"fptp", "ranked"}
PollRow == [status: PollStatus, ballotType: BallotType, opensAt: Time, closesAt: Time]
BallotRow == [poll: Poll, voterToken: Voter \X Poll,
              choiceIndex: -1 .. NumOptions - 1, rankings: Seq(Int), receiptToken: Attempt, castAt: Time]

\* "load", "check", "insert": about to read the poll, to run HasVoted, to insert.
\* "reply": the ballot is inserted and the response not yet delivered.
Live == {"load", "check", "insert", "reply"}
\* "already": "voter has already voted in this poll".  "violated": the insert
\* broke a CHECK constraint.  "failed": a database error.  "lost": no response.
Ended == {"ineligible", "notOpen", "already", "invalid", "violated", "failed",
          "accepted", "lost"}
Phase == {"unused"} \union Live \union Ended

Init ==
    /\ now = 1
    /\ voters = [v \in Voter |-> "none"]
    /\ polls = [p \in Poll |-> [status |-> "none", ballotType |-> "fptp",
                                opensAt |-> 0, closesAt |-> 0]]
    /\ ballots = {}
    /\ phase = [r \in Attempt |-> "unused"]
    /\ castAt = [r \in Attempt |-> 0]
    /\ sched = [s \in Server |-> "open"]
    /\ shown = [vp \in Voter \X Poll |-> {}]
    /\ late = {}

-----------------------------------------------------------------------------
(* Helpers of the code, and after some of them the plausible slip the      *)
(* mutants put in their place (names that end in Slip).                    *)

\* sha256(flt_hash + poll_id + poll_salt): one token per voter and poll,
\* taken as collision free.
deriveVoterToken(v, p) == <<v, p>>

\* Ranked ballots: not empty, every index in range, none twice.
validateRankings(rankings) ==
    /\ rankings # <<>>
    /\ \A i \in DOMAIN rankings : rankings[i] \in 0 .. NumOptions - 1
    /\ \A i, j \in DOMAIN rankings : rankings[i] = rankings[j] => i = j

validBallot(r) ==
    IF polls[r.poll].ballotType = "ranked"
    THEN validateRankings(r.rankings)
    ELSE r.choiceIndex \in 0 .. NumOptions - 1

\* Options counted from one.
ballotOfSlip(r) ==
    LET ranked == polls[r.poll].ballotType = "ranked"
    IN  [poll         |-> r.poll,
         voterToken   |-> deriveVoterToken(r.voter, r.poll),
         choiceIndex  |-> IF ranked THEN -1 ELSE r.choiceIndex + 1,
         rankings     |-> IF ranked THEN r.rankings ELSE <<>>,
         receiptToken |-> r,
         castAt       |-> castAt[r]]

\* The row InsertBallot writes: -1 stands for a ranked ballot's choice.
ballotOf(r) ==
    LET ranked == polls[r.poll].ballotType = "ranked"
    IN  [poll         |-> r.poll,
         voterToken   |-> deriveVoterToken(r.voter, r.poll),
         choiceIndex  |-> IF ranked THEN -1 ELSE r.choiceIndex,
         rankings     |-> IF ranked THEN r.rankings ELSE <<>>,
         receiptToken |-> r,
         castAt       |-> castAt[r]]

HasVotedSlip(v, p) == \E b \in ballots : b.poll = p
HasVoted(v, p) ==
    \E b \in ballots : b.poll = p /\ b.voterToken = deriveVoterToken(v, p)

\* UNIQUE (poll_id, voter_token): error 23505.
UniqueVoteSlip(row) == TRUE
UniqueVote(row) ==
    \A b \in ballots : ~(b.poll = row.poll /\ b.voterToken = row.voterToken)

\* CHECK (choice_index >= 0); migration 002 leaves it in place.
ChoiceCheck(row) == row.choiceIndex >= 0

\* The rows the queries by key return; a status "none" is no row.
GetVoterByFLTHash(v) == voters[v]
GetPollByID(p) == polls[p]
GetReceiptByVoterToken(p, token) == {b \in ballots : b.poll = p /\ b.voterToken = token}

IsEligibleSlip(v) == GetVoterByFLTHash(v) # "suspended"
IsEligible(v) == GetVoterByFLTHash(v) = "registered"

acceptsVotesSlip(p) == GetPollByID(p).status \in {"open", "closed"}
acceptsVotes(p) == GetPollByID(p).status = "open"

\* INSERT ... ON CONFLICT (flt_hash) DO NOTHING.
UpsertVoterSlip(v) == "registered"
UpsertVoter(v) ==
    IF GetVoterByFLTHash(v) = "none" THEN "registered" ELSE GetVoterByFLTHash(v)

\* Only the two times are compared, never the clock: a poll may be created
\* open and already past its end.
validateCreatePollRequest(opensAt, closesAt) == closesAt # 0 /\ closesAt > opensAt

\* The row of a request that is valid: draft, or open at once if its time has
\* come.
newPoll(ballotType, opensAt, closesAt) ==
    [status     |-> IF opensAt <= now THEN "open" ELSE "draft",
     ballotType |-> ballotType,
     opensAt    |-> opensAt,
     closesAt   |-> closesAt]

\* The INSERT, under a fresh UUID.
insertPoll(p, row) ==
    /\ polls[p].status = "none"
    /\ polls' = [polls EXCEPT ![p] = row]

dueToOpenSlip(row) == row.status = "draft"
dueToOpenExpiredSlip(row) ==
    row.status = "draft" /\ row.opensAt <= now /\ now < row.closesAt
dueToOpen(row) == row.status = "draft" /\ row.opensAt <= now
dueToClose(row) == row.status = "open" /\ row.closesAt <= now

-----------------------------------------------------------------------------
(* Time, voters and polls.                                                 *)

Tick ==
    /\ now < MaxTime
    /\ now' = now + 1
    /\ UNCHANGED <<voters, polls, ballots, phase, castAt, sched, shown, late>>

Register(v) ==
    /\ voters' = [voters EXCEPT ![v] = UpsertVoter(v)]
    /\ UNCHANGED <<now, polls, ballots, phase, castAt, sched, shown, late>>

\* An operator suspends a voter by SQL: no code of the portal does.
Suspend(v) ==
    /\ voters[v] = "registered"
    /\ voters' = [voters EXCEPT ![v] = "suspended"]
    /\ UNCHANGED <<now, polls, ballots, phase, castAt, sched, shown, late>>

\* POST /polls.
CreatePoll(p, ballotType, opensAt, closesAt) ==
    /\ validateCreatePollRequest(opensAt, closesAt)
    /\ insertPoll(p, newPoll(ballotType, opensAt, closesAt))
    /\ UNCHANGED <<now, voters, ballots, phase, castAt, sched, shown, late>>

\* One scheduler tick is two UPDATE statements; the second runs whether or
\* not the first failed, and an error is only logged.
OpenDraftPolls(s) ==
    /\ sched[s] = "open"
    /\ polls' = [p \in Poll |-> IF dueToOpen(polls[p])
                                THEN [polls[p] EXCEPT !.status = "open"]
                                ELSE polls[p]]
    /\ sched' = [sched EXCEPT ![s] = "close"]
    /\ UNCHANGED <<now, voters, ballots, phase, castAt, shown, late>>

CloseExpiredPolls(s) ==
    /\ sched[s] = "close"
    /\ polls' = [p \in Poll |-> IF dueToClose(polls[p])
                                THEN [polls[p] EXCEPT !.status = "closed"]
                                ELSE polls[p]]
    /\ sched' = [sched EXCEPT ![s] = "open"]
    /\ UNCHANGED <<now, voters, ballots, phase, castAt, shown, late>>

SchedulerError(s) ==
    /\ sched' = [sched EXCEPT ![s] = IF @ = "open" THEN "close" ELSE "open"]
    /\ UNCHANGED <<now, voters, polls, ballots, phase, castAt, shown, late>>

-----------------------------------------------------------------------------
(* POST /polls/{id}/vote, one action per database call.                    *)

\* The request arrives and its eligibility is read.  A failed read ends it
\* before it could matter and is not told from a request never sent.
CheckEligible(r) ==
    /\ phase[r] = "unused"
    /\ phase' = [phase EXCEPT ![r] = IF IsEligible(r.voter) THEN "load" ELSE "ineligible"]
    /\ late' = IF polls[r.poll].status = "closed" THEN late \union {r} ELSE late
    /\ UNCHANGED <<now, voters, polls, ballots, castAt, sched, shown>>

LoadPoll(r) ==
    /\ phase[r] = "load"
    /\ phase' = [phase EXCEPT ![r] = IF acceptsVotes(r.poll) THEN "check" ELSE "notOpen"]
    /\ UNCHANGED <<now, voters, polls, ballots, castAt, sched, shown, late>>

\* HasVoted, then the validation of the body and the stamping of the row,
\* which no other call separates from it.
CheckHasVoted(r) ==
    /\ phase[r] = "check"
    /\ \/ /\ HasVoted(r.voter, r.poll)
          /\ phase' = [phase EXCEPT ![r] = "already"]
          /\ UNCHANGED castAt
       \/ /\ ~HasVoted(r.voter, r.poll)
          /\ ~validBallot(r)
          /\ phase' = [phase EXCEPT ![r] = "invalid"]
          /\ UNCHANGED castAt
       \/ /\ ~HasVoted(r.voter, r.poll)
          /\ validBallot(r)
          /\ phase' = [phase EXCEPT ![r] = "insert"]
          /\ castAt' = [castAt EXCEPT ![r] = now]
    /\ UNCHANGED <<now, voters, polls, ballots, sched, shown, late>>

InsertBallotUpsertSlip(r) ==
    LET row == ballotOf(r)
    IN  /\ phase[r] = "insert"
        /\ ChoiceCheck(row)
        /\ ballots' = {b \in ballots : ~(b.poll = row.poll /\ b.voterToken = row.voterToken)}
                      \union {row}
        /\ phase' = [phase EXCEPT ![r] = "reply"]
        /\ UNCHANGED <<now, voters, polls, castAt, sched, shown, late>>

\* The INSERT takes effect.  The driver may still report an error, when the
\* request's context ends or the connection breaks before the answer is read.
InsertBallot(r) ==
    /\ phase[r] = "insert"
    /\ ChoiceCheck(ballotOf(r))
    /\ UniqueVote(ballotOf(r))
    /\ ballots' = ballots \union {ballotOf(r)}
    /\ \E answer \in {"reply", "failed"} : phase' = [phase EXCEPT ![r] = answer]
    /\ UNCHANGED <<now, voters, polls, castAt, sched, shown, late>>

\* A constraint refuses the INSERT: only a 23505 is reported as a second vote.
InsertRefused(r) ==
    /\ phase[r] = "insert"
    /\ \/ /\ ~ChoiceCheck(ballotOf(r))
          /\ phase' = [phase EXCEPT ![r] = "violated"]
       \/ /\ ChoiceCheck(ballotOf(r))
          /\ ~UniqueVote(ballotOf(r))
          /\ phase' = [phase EXCEPT ![r] = "already"]
    /\ UNCHANGED <<now, voters, polls, ballots, castAt, sched, shown, late>>

\* A failed INSERT is tried again, from the check that stamps the row.
DatabaseErrorRetrySlip(r) ==
    /\ phase[r] \in {"load", "check", "insert"}
    /\ phase' = [phase EXCEPT ![r] = IF @ = "insert" THEN "check" ELSE "failed"]
    /\ UNCHANGED <<now, voters, polls, ballots, castAt, sched, shown, late>>

DatabaseError(r) ==
    /\ phase[r] \in {"load", "check", "insert"}
    /\ phase' = [phase EXCEPT ![r] = "failed"]
    /\ UNCHANGED <<now, voters, polls, ballots, castAt, sched, shown, late>>

\* 201 with the receipt.
Reply(r) ==
    /\ phase[r] = "reply"
    /\ phase' = [phase EXCEPT ![r] = "accepted"]
    /\ shown' = [shown EXCEPT ![<<r.voter, r.poll>>] = @ \union {r}]
    /\ UNCHANGED <<now, voters, polls, ballots, castAt, sched, late>>

\* The client is gone when the receipt is ready.
ReplyLost(r) ==
    /\ phase[r] = "reply"
    /\ phase' = [phase EXCEPT ![r] = "lost"]
    /\ UNCHANGED <<now, voters, polls, ballots, castAt, sched, shown, late>>

\* The receipt of the caller's ballot, if there is one.
GetVoterReceipt(v, p) ==
    {b.receiptToken : b \in GetReceiptByVoterToken(p, deriveVoterToken(v, p))}

\* GET /polls/{id}/my-receipt; without a ballot a 404, which changes nothing.
MyReceipt(v, p) ==
    /\ \E t \in GetVoterReceipt(v, p) : shown' = [shown EXCEPT ![<<v, p>>] = @ \union {t}]
    /\ UNCHANGED <<now, voters, polls, ballots, phase, castAt, sched, late>>

\* An instance dies: its requests end without a response and its scheduler
\* starts a fresh tick when it comes back.
Crash(s) ==
    /\ phase' = [r \in Attempt |-> IF r.server = s /\ phase[r] \in Live
                                   THEN "lost" ELSE phase[r]]
    /\ sched' = [sched EXCEPT ![s] = "open"]
    /\ UNCHANGED <<now, voters, polls, ballots, castAt, shown, late>>

-----------------------------------------------------------------------------
VoteStep(r) ==
    \/ CheckEligible(r) \/ LoadPoll(r) \/ CheckHasVoted(r)
    \/ InsertBallot(r) \/ InsertRefused(r) \/ DatabaseError(r)
    \/ Reply(r) \/ ReplyLost(r)

ServerStep(s) ==
    OpenDraftPolls(s) \/ CloseExpiredPolls(s) \/ SchedulerError(s) \/ Crash(s)

Next ==
    \/ Tick
    \/ \E v \in Voter : Register(v) \/ Suspend(v)
    \/ \E p \in Poll, t \in BallotType, o, c \in Time : CreatePoll(p, t, o, c)
    \/ \E s \in Server : ServerStep(s)
    \/ \E r \in Attempt : VoteStep(r)
    \/ \E v \in Voter, p \in Poll : MyReceipt(v, p)

Spec == Init /\ [][Next]_vars

\* The clock moves and every instance's scheduler keeps ticking; a statement
\* that is tried again and again does not fail or lose to a crash each time.
SchedulerFairness ==
    /\ WF_vars(Tick)
    /\ \A s \in Server : /\ SF_vars(OpenDraftPolls(s))
                         /\ SF_vars(CloseExpiredPolls(s))

FairSpec == Spec /\ SchedulerFairness
-----------------------------------------------------------------------------
(* Properties.                                                             *)

\* Every variable keeps the shape its table, stack frame or history has.
TypeOK ==
    /\ now \in Time
    /\ voters \in [Voter -> VoterStatus]
    /\ polls \in [Poll -> PollRow]
    /\ ballots \subseteq BallotRow
    /\ phase \in [Attempt -> Phase]
    /\ castAt \in [Attempt -> Time]
    /\ sched \in [Server -> {"open", "close"}]
    /\ shown \in [Voter \X Poll -> SUBSET Attempt]
    /\ late \subseteq Attempt

\* However many requests of one voter race past HasVoted, on whatever
\* instances, the table keeps at most one ballot of the voter in the poll.
OneBallotPerVoter ==
    \A b, c \in ballots :
        b.poll = c.poll /\ b.voterToken = c.voterToken => b = c

\* All the receipts a voter is ever shown for a poll, by the vote itself or
\* later by my-receipt, are one and the same, and its ballot is in the table.
ShownReceiptIsTheVote ==
    \A v \in Voter, p \in Poll : \A t, u \in shown[<<v, p>>] :
        /\ t = u
        /\ \E b \in ballots : /\ b.receiptToken = t
                              /\ b.poll = p
                              /\ b.voterToken = deriveVoterToken(v, p)

\* "voter has already voted in this poll" is only said to someone whose vote
\* in that very poll is in the table, whichever of the two checks said it.
AlreadyVotedIsTrue ==
    \A r \in Attempt : phase[r] = "already" =>
        \E b \in ballots : b.poll = r.poll /\ b.voterToken = deriveVoterToken(r.voter, r.poll)

\* A ballot in the table was stamped when its poll had begun, and its poll has
\* been opened: neither the scheduler nor CreatePoll opens a poll early.
BallotsAreTimely ==
    \A b \in ballots :
        /\ polls[b.poll].status \in {"open", "closed"}
        /\ polls[b.poll].opensAt <= b.castAt
        /\ b.castAt <= now

\* Nobody votes without having registered, though eligibility is read long
\* before the ballot is inserted and is never read again.
VotersWereRegistered ==
    \A b \in ballots : voters[b.voterToken[1]] # "none"

\* A request that arrives after its poll was closed never gets a ballot in.
ClosedAtArrivalIsRefused ==
    \A b \in ballots : b.receiptToken \notin late

\* Registering again lifts no suspension, the scheduler reopens no closed
\* poll, and nothing moves the times of a poll once it is created.
OneWayStates ==
    [][/\ \A v \in Voter : voters[v] = "suspended" => voters'[v] = "suspended"
       /\ \A p \in Poll :
            /\ polls[p].status = "closed" => polls'[p] = polls[p]
            /\ polls[p].status = "open" => polls'[p].status \in {"open", "closed"}
            /\ polls[p].status # "none" => polls'[p].closesAt = polls[p].closesAt]_vars

\* The portal is a ballot box: the table's rows are the votes taken, and the
\* receipts voters have been shown are those the box has handed out.
StorableChoice ==
    {[choiceIndex |-> r.choiceIndex, rankings |-> <<>>] : r \in Attempt}
    \union {[choiceIndex |-> -1, rankings |-> r.rankings] : r \in Attempt}

voteOf(b) ==
    [voter |-> b.voterToken[1], poll |-> b.poll, receipt |-> b.receiptToken,
     choice |-> [choiceIndex |-> b.choiceIndex, rankings |-> b.rankings]]

votesTaken == {voteOf(b) : b \in ballots}
receiptsShown == UNION {shown[vp] : vp \in Voter \X Poll}

Box == INSTANCE BallotBox WITH
           Receipt <- Attempt,
           Choice <- StorableChoice,
           box <- votesTaken,
           receipts <- receiptsShown

ImplementsBallotBox == Box!BoxSpec

\* To whoever reads the ballots of a poll, be it for the results, the audit or
\* the live page, the requests of the poll are a log: stamped once, then in the
\* table for good or given up, with any others between the two.
requestsTo(p) == {r \in Attempt : r.poll = p}
stampsOf(p) == [r \in requestsTo(p) |-> castAt[r]]
inserting(p) == {r \in requestsTo(p) : phase[r] = "insert"}
logged(p) == {b.receiptToken : b \in {b \in ballots : b.poll = p}}

Log(p) == INSTANCE BallotLog WITH
              Ballot <- requestsTo(p),
              stamp <- stampsOf(p),
              pending <- inserting(p),
              log <- logged(p)

ImplementsBallotLog ==
    /\ \A p \in Poll : Log(p)!LogInit
    /\ [][\A p \in Poll : Log(p)!LogNext \/ UNCHANGED Log(p)!logVars]_vars

\* Every poll that is created is closed in the end, also one whose whole life
\* lay between two ticks, or whose end had passed before it was created.
EveryPollCloses ==
    \A p \in Poll : polls[p].status # "none" ~> polls[p].status = "closed"

\* Stated by the migration that added ranked ballots ("choice_index ... set to
\* -1 for ranked ballots") and refuted: the first migration's CHECK refuses -1.
NoBallotViolatesCheck ==
    \A r \in Attempt : phase[r] # "violated"
=============================================================================
