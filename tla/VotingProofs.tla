---------------------------- MODULE VotingProofs ----------------------------
(***************************************************************************)
(* Theorems about Voting, for every set of voters, polls, instances and    *)
(* attempts and every bound on the clock.                                  *)
(***************************************************************************)
EXTENDS VotingInvariant, TLAPS

\* What an attempt carries.
LEMMA AttemptFields ==
    ASSUME NEW r \in Attempt
    PROVE  /\ r.voter \in Voter /\ r.poll \in Poll /\ r.server \in Server
           /\ r.choiceIndex \in Int /\ r.rankings \in Seq(Int)
  BY VotingAssumption DEF AttemptRecord

LEMMA InitIInv == Init => IInv
<1> SUFFICES ASSUME Init PROVE IInv
  OBVIOUS
<1>1. TypeOK
  BY VotingAssumption DEF Init, TypeOK, Time, VoterStatus, PollRow, PollStatus, BallotType, Phase
<1> QED
  BY <1>1, AttemptFields
     DEF Init, IInv, InFlightInv, OpenedInv, RowsInv, RecordedInv, ShownInv, LateInv,
         UnstampedInv, OneBallotPerVoter, AlreadyVotedIsTrue, BallotsAreTimely, VotersWereRegistered,
         ClosedAtArrivalIsRefused, Live

-----------------------------------------------------------------------------
(* What any step does to the tables.                                       *)

\* Polls keep their terms and move only from draft to open to closed, and are
\* never opened before their time.
PollsMove ==
    \A p \in Poll :
        /\ polls'[p] \in PollRow
        /\ polls[p].status # "none" =>
               /\ polls'[p].ballotType = polls[p].ballotType
               /\ polls'[p].opensAt = polls[p].opensAt
               /\ polls'[p].closesAt = polls[p].closesAt
        /\ polls[p].status = "open" => polls'[p].status \in {"open", "closed"}
        /\ polls[p].status = "closed" => polls'[p] = polls[p]
        /\ polls'[p].status \in {"open", "closed"} =>
               \/ polls[p].status \in {"open", "closed"}
               \/ polls'[p].opensAt <= now

LEMMA PollsMoveStep == TypeOK /\ [Next]_vars => PollsMove
<1> SUFFICES ASSUME TypeOK, [Next]_vars PROVE PollsMove
  OBVIOUS
<1> USE DEF TypeOK, PollRow, PollStatus, BallotType, PollsMove
<1>1. ASSUME NEW p \in Poll, NEW t \in BallotType, NEW o \in Time, NEW c \in Time,
             CreatePoll(p, t, o, c)
      PROVE  PollsMove
  BY <1>1 DEF CreatePoll, insertPoll, newPoll, Time
<1>2. ASSUME NEW s \in Server, OpenDraftPolls(s)
      PROVE  PollsMove
  BY <1>2 DEF OpenDraftPolls, dueToOpen
<1>3. ASSUME NEW s \in Server, CloseExpiredPolls(s)
      PROVE  PollsMove
  BY <1>3 DEF CloseExpiredPolls, dueToClose
<1>4. CASE UNCHANGED polls
  BY <1>4
<1> QED
  BY <1>1, <1>2, <1>3, <1>4
     DEF Next, vars, Tick, Register, Suspend, ServerStep, SchedulerError, Crash, VoteStep,
         CheckEligible, LoadPoll, CheckHasVoted, InsertBallot, InsertRefused, DatabaseError,
         Reply, ReplyLost, MyReceipt

\* The clock does not run back, no voter's row disappears and no suspension
\* is lifted.
VotersMove ==
    /\ now' \in Time /\ now <= now'
    /\ \A v \in Voter : /\ voters'[v] \in VoterStatus
                        /\ voters[v] # "none" => voters'[v] # "none"
                        /\ voters[v] = "suspended" => voters'[v] = "suspended"

LEMMA VotersMoveStep == TypeOK /\ [Next]_vars => VotersMove
<1> SUFFICES ASSUME TypeOK, [Next]_vars PROVE VotersMove
  OBVIOUS
<1> USE VotingAssumption DEF TypeOK, VotersMove, Time, VoterStatus
<1>1. CASE Tick
  BY <1>1 DEF Tick
<1>2. ASSUME NEW v \in Voter, Register(v) \/ Suspend(v)
      PROVE  VotersMove
  BY <1>2 DEF Register, Suspend, UpsertVoter, GetVoterByFLTHash
<1>3. CASE UNCHANGED <<now, voters>>
  BY <1>3
<1> QED
  BY <1>1, <1>2, <1>3
     DEF Next, vars, CreatePoll, ServerStep, OpenDraftPolls, CloseExpiredPolls, SchedulerError,
         Crash, VoteStep, CheckEligible, LoadPoll, CheckHasVoted, InsertBallot, InsertRefused,
         DatabaseError, Reply, ReplyLost, MyReceipt

\* The steps that touch a ballot, a request or a receipt.
LEMMA StepKinds ==
    ASSUME [Next]_vars
    PROVE  \/ UNCHANGED <<ballots, phase, castAt, shown, late>>
           \/ \E s \in Server : Crash(s)
           \/ \E r \in Attempt : VoteStep(r)
           \/ \E v \in Voter, p \in Poll : MyReceipt(v, p)
<1>1. Tick => UNCHANGED <<ballots, phase, castAt, shown, late>>
  BY DEF Tick
<1>2. \A v \in Voter : Register(v) \/ Suspend(v) =>
          UNCHANGED <<ballots, phase, castAt, shown, late>>
  BY DEF Register, Suspend
<1>3. \A p \in Poll, t \in BallotType, o, c \in Time : CreatePoll(p, t, o, c) =>
          UNCHANGED <<ballots, phase, castAt, shown, late>>
  BY DEF CreatePoll
<1>4. \A s \in Server : ServerStep(s) =>
          Crash(s) \/ UNCHANGED <<ballots, phase, castAt, shown, late>>
  BY DEF ServerStep, OpenDraftPolls, CloseExpiredPolls, SchedulerError
<1>5. UNCHANGED vars => UNCHANGED <<ballots, phase, castAt, shown, late>>
  BY DEF vars
<1> QED
  BY <1>1, <1>2, <1>3, <1>4, <1>5 DEF Next

\* The table of ballots changes only by the insertion of one row.
LEMMA BallotsMoveStep ==
    ASSUME [Next]_vars
    PROVE  ballots' = ballots \/ \E r \in Attempt : InsertBallot(r)
BY StepKinds
   DEF Crash, VoteStep, CheckEligible, LoadPoll, CheckHasVoted, InsertRefused,
       DatabaseError, Reply, ReplyLost, MyReceipt

\* What an attempt's phase may become in a step, and what the step read.
PhaseMoves(r) ==
    \/ phase'[r] = phase[r] /\ castAt'[r] = castAt[r]
    \/ CheckEligible(r) \/ LoadPoll(r) \/ CheckHasVoted(r) \/ InsertBallot(r)
    \/ InsertRefused(r) \/ DatabaseError(r) \/ Reply(r) \/ ReplyLost(r)
    \/ phase[r] \in Live /\ phase'[r] = "lost" /\ castAt'[r] = castAt[r]

LEMMA PhaseMovesStep ==
    ASSUME TypeOK, [Next]_vars, NEW r \in Attempt
    PROVE  PhaseMoves(r)
<1> USE DEF TypeOK, PhaseMoves
<1>1. CASE UNCHANGED <<phase, castAt>>
  BY <1>1
<1>2. ASSUME NEW q \in Attempt, VoteStep(q)
      PROVE  PhaseMoves(r)
  <2>1. CASE q = r
    BY <1>2, <2>1 DEF VoteStep
  <2>2. CASE q # r
    BY <1>2, <2>2
       DEF VoteStep, CheckEligible, LoadPoll, CheckHasVoted, InsertBallot, InsertRefused,
           DatabaseError, Reply, ReplyLost
  <2> QED
    BY <2>1, <2>2
<1>3. ASSUME NEW s \in Server, Crash(s)
      PROVE  PhaseMoves(r)
  BY <1>3 DEF Crash
<1>4. ASSUME NEW v \in Voter, NEW p \in Poll, MyReceipt(v, p)
      PROVE  PhaseMoves(r)
  BY <1>4 DEF MyReceipt
<1> QED
  BY <1>1, <1>2, <1>3, <1>4, StepKinds

-----------------------------------------------------------------------------
(* One lemma for each conjunct of the inductive invariant.                 *)

LEMMA OpenedInd == IInv /\ [Next]_vars => OpenedInv'
<1> SUFFICES ASSUME IInv, [Next]_vars, NEW p \in Poll,
                    polls'[p].status \in {"open", "closed"}
             PROVE  polls'[p].opensAt <= now'
  BY DEF OpenedInv
<1>1. PollsMove /\ VotersMove
  BY PollsMoveStep, VotersMoveStep DEF IInv
<1>2. now \in Int /\ now' \in Int /\ now <= now' /\ polls'[p].opensAt \in Int
  BY <1>1, VotingAssumption DEF IInv, TypeOK, PollsMove, VotersMove, PollRow, Time
<1>3. polls'[p].opensAt <= now
  <2>1. CASE polls[p].status \in {"open", "closed"}
    BY <1>1, <2>1 DEF IInv, OpenedInv, PollsMove
  <2>2. CASE polls[p].status \notin {"open", "closed"}
    BY <1>1, <2>2 DEF PollsMove
  <2> QED
    BY <2>1, <2>2
<1> QED
  BY <1>2, <1>3

LEMMA InFlightInd == IInv /\ [Next]_vars => InFlightInv'
<1> SUFFICES ASSUME IInv, [Next]_vars, NEW r \in Attempt
             PROVE  /\ phase'[r] \in Live => voters'[r.voter] # "none"
                    /\ phase'[r] \in {"check", "insert", "reply"} =>
                           polls'[r.poll].status \in {"open", "closed"}
                    /\ phase'[r] = "insert" => /\ validBallot(r)'
                                               /\ polls'[r.poll].opensAt <= castAt'[r]
                                               /\ castAt'[r] <= now'
  BY DEF InFlightInv
<1>1. PollsMove /\ VotersMove /\ PhaseMoves(r)
  BY PollsMoveStep, VotersMoveStep, PhaseMovesStep DEF IInv
<1>2. r.voter \in Voter /\ r.poll \in Poll
  BY AttemptFields
<1>3. phase \in [Attempt -> Phase] /\ castAt \in [Attempt -> Time] /\ now \in Time
  BY DEF IInv, TypeOK
<1>4. phase'[r] \in Live =>
          \/ phase[r] \in Live
          \/ phase[r] = "unused" /\ IsEligible(r.voter)
  BY <1>1, <1>3
     DEF PhaseMoves, CheckEligible, LoadPoll, CheckHasVoted, InsertBallot, InsertRefused,
         DatabaseError, Reply, ReplyLost, Live
<1>5. phase'[r] \in Live => voters'[r.voter] # "none"
  BY <1>1, <1>2, <1>4 DEF IInv, InFlightInv, VotersMove, IsEligible, GetVoterByFLTHash
<1>6. phase'[r] \in {"check", "insert", "reply"} =>
          \/ phase[r] \in {"check", "insert", "reply"}
          \/ phase[r] = "load" /\ acceptsVotes(r.poll)
  BY <1>1, <1>3
     DEF PhaseMoves, CheckEligible, LoadPoll, CheckHasVoted, InsertBallot, InsertRefused,
         DatabaseError, Reply, ReplyLost
<1>7. phase'[r] \in {"check", "insert", "reply"} =>
          polls[r.poll].status \in {"open", "closed"}
  BY <1>2, <1>6 DEF IInv, InFlightInv, acceptsVotes, GetPollByID
<1>8. phase'[r] \in {"check", "insert", "reply"} =>
          polls'[r.poll].status \in {"open", "closed"}
  BY <1>1, <1>2, <1>7 DEF PollsMove
<1>9. phase'[r] = "insert" =>
          \/ phase[r] = "insert" /\ castAt'[r] = castAt[r]
          \/ phase[r] = "check" /\ validBallot(r) /\ castAt'[r] = now
  BY <1>1, <1>3
     DEF PhaseMoves, CheckEligible, LoadPoll, CheckHasVoted, InsertBallot, InsertRefused,
         DatabaseError, Reply, ReplyLost
<1>10. ASSUME phase'[r] = "insert"
       PROVE  /\ validBallot(r)'
              /\ polls'[r.poll].opensAt <= castAt'[r]
              /\ castAt'[r] <= now'
  <2>1. polls[r.poll].status \in {"open", "closed"}
    BY <1>7, <1>10
  <2>2. /\ polls'[r.poll].ballotType = polls[r.poll].ballotType
        /\ polls'[r.poll].opensAt = polls[r.poll].opensAt
    BY <1>1, <1>2, <2>1 DEF PollsMove
  <2>3. /\ validBallot(r)
        /\ polls[r.poll].opensAt <= castAt'[r]
        /\ castAt'[r] <= now
    <3>1. CASE phase[r] = "insert" /\ castAt'[r] = castAt[r]
      BY <3>1 DEF IInv, InFlightInv
    <3>2. CASE phase[r] = "check" /\ validBallot(r) /\ castAt'[r] = now
      BY <1>2, <1>3, <2>1, <3>2, VotingAssumption DEF IInv, OpenedInv, Time
    <3> QED
      BY <1>9, <1>10, <3>1, <3>2
  <2>4. castAt'[r] \in Int /\ now \in Int /\ now' \in Int /\ now <= now'
    BY <1>1, <1>3, <1>9, <1>10, VotingAssumption DEF VotersMove, Time
  <2>5. validBallot(r)'
    BY <2>2, <2>3 DEF validBallot, validateRankings
  <2> QED
    BY <2>2, <2>3, <2>4, <2>5
<1> QED
  BY <1>5, <1>8, <1>10

\* The row a request inserts, under the invariant.
LEMMA InsertedRow ==
    ASSUME IInv, NEW r \in Attempt, InsertBallot(r)
    PROVE  /\ ballots' = ballots \union {ballotOf(r)}
           /\ ballotOf(r) \in BallotRow
           /\ ballotOf(r).receiptToken = r
           /\ ballotOf(r).poll = r.poll
           /\ ballotOf(r).voterToken = deriveVoterToken(r.voter, r.poll)
           /\ ballotOf(r).castAt = castAt[r]
           /\ [choiceIndex |-> ballotOf(r).choiceIndex, rankings |-> ballotOf(r).rankings]
                  \in StorableChoice
           /\ UniqueVote(ballotOf(r))
           /\ phase[r] = "insert"
           /\ phase'[r] \in {"reply", "failed"}
<1>1. /\ r.voter \in Voter /\ r.poll \in Poll
      /\ r.choiceIndex \in Int /\ r.rankings \in Seq(Int)
  BY AttemptFields
<1>2. /\ phase[r] = "insert"
      /\ ballots' = ballots \union {ballotOf(r)}
      /\ ChoiceCheck(ballotOf(r))
      /\ UniqueVote(ballotOf(r))
      /\ phase'[r] \in {"reply", "failed"}
  BY DEF InsertBallot, IInv, TypeOK
<1>3. polls[r.poll].ballotType # "ranked"
  BY <1>2 DEF ChoiceCheck, ballotOf
<1>4. /\ ballotOf(r).poll = r.poll
      /\ ballotOf(r).voterToken = <<r.voter, r.poll>>
      /\ ballotOf(r).choiceIndex = r.choiceIndex
      /\ ballotOf(r).rankings = <<>>
      /\ ballotOf(r).receiptToken = r
      /\ ballotOf(r).castAt = castAt[r]
  BY <1>3 DEF ballotOf, deriveVoterToken
<1>5. r.choiceIndex \in -1 .. NumOptions - 1
  <2>1. validBallot(r)
    BY <1>2 DEF IInv, InFlightInv
  <2>2. r.choiceIndex \in 0 .. NumOptions - 1
    BY <1>3, <2>1 DEF validBallot
  <2> QED
    BY <1>1, <2>2, VotingAssumption
<1>6. castAt[r] \in Time
  BY DEF IInv, TypeOK
<1>7. ballotOf(r) = [poll |-> r.poll, voterToken |-> <<r.voter, r.poll>>,
                     choiceIndex |-> r.choiceIndex, rankings |-> <<>>,
                     receiptToken |-> r, castAt |-> castAt[r]]
  BY <1>3 DEF ballotOf, deriveVoterToken
<1>8. <<>> \in Seq(Int)
  OBVIOUS
<1>9. ballotOf(r) \in BallotRow
  BY <1>1, <1>5, <1>6, <1>7, <1>8 DEF BallotRow
<1>10. [choiceIndex |-> ballotOf(r).choiceIndex, rankings |-> ballotOf(r).rankings]
           \in StorableChoice
  BY <1>4 DEF StorableChoice
<1> QED
  BY <1>2, <1>4, <1>9, <1>10 DEF deriveVoterToken

\* Once a request's ballot is in, the request stays among those whose ballot is.
LEMMA RowsInd == IInv /\ [Next]_vars => RowsInv'
<1> SUFFICES ASSUME IInv, [Next]_vars, NEW b \in ballots'
             PROVE  /\ phase'[b.receiptToken] \in {"reply", "accepted", "failed", "lost"}
                    /\ b.poll = b.receiptToken.poll
                    /\ b.voterToken = deriveVoterToken(b.receiptToken.voter,
                                                       b.receiptToken.poll)
                    /\ [choiceIndex |-> b.choiceIndex, rankings |-> b.rankings]
                           \in StorableChoice
  BY DEF RowsInv, StorableChoice, deriveVoterToken
<1>1. CASE b \in ballots
  <2>1. b.receiptToken \in Attempt
    BY <1>1 DEF IInv, TypeOK, BallotRow
  <2>2. PhaseMoves(b.receiptToken)
    BY <2>1, PhaseMovesStep DEF IInv
  <2>3. phase[b.receiptToken] \in {"reply", "accepted", "failed", "lost"}
    BY <1>1 DEF IInv, RowsInv
  <2>4. phase'[b.receiptToken] \in {"reply", "accepted", "failed", "lost"}
    BY <2>1, <2>2, <2>3
       DEF PhaseMoves, CheckEligible, LoadPoll, CheckHasVoted, InsertBallot, InsertRefused,
           DatabaseError, Reply, ReplyLost, IInv, TypeOK
  <2> QED
    BY <1>1, <2>4 DEF IInv, RowsInv
<1>2. ASSUME NEW r \in Attempt, InsertBallot(r), b = ballotOf(r)
      PROVE  /\ phase'[b.receiptToken] \in {"reply", "accepted", "failed", "lost"}
             /\ b.poll = b.receiptToken.poll
             /\ b.voterToken = deriveVoterToken(b.receiptToken.voter, b.receiptToken.poll)
             /\ [choiceIndex |-> b.choiceIndex, rankings |-> b.rankings] \in StorableChoice
  BY <1>2, InsertedRow
<1>3. b \in ballots \/ \E r \in Attempt : InsertBallot(r) /\ b = ballotOf(r)
  BY BallotsMoveStep DEF InsertBallot
<1> QED
  BY <1>1, <1>2, <1>3

\* No ballot ever leaves the table.
LEMMA BallotsGrow ==
    ASSUME IInv, [Next]_vars
    PROVE  ballots \subseteq ballots'
BY BallotsMoveStep, InsertedRow

LEMMA RecordedInd == IInv /\ [Next]_vars => RecordedInv'
<1> SUFFICES ASSUME IInv, [Next]_vars, NEW r \in Attempt,
                    phase'[r] \in {"reply", "accepted"}
             PROVE  \E b \in ballots' : b.receiptToken = r
  BY DEF RecordedInv
<1>1. phase[r] \in {"reply", "accepted"} \/ InsertBallot(r)
  <2>1. PhaseMoves(r)
    BY PhaseMovesStep DEF IInv
  <2> QED
    BY <2>1
       DEF PhaseMoves, CheckEligible, LoadPoll, CheckHasVoted, InsertRefused,
           DatabaseError, Reply, ReplyLost, IInv, TypeOK
<1>2. CASE phase[r] \in {"reply", "accepted"}
  BY <1>2, BallotsGrow DEF IInv, RecordedInv
<1>3. CASE InsertBallot(r)
  <2>1. ballotOf(r) \in ballots' /\ ballotOf(r).receiptToken = r
    BY <1>3, InsertedRow
  <2> QED
    BY <2>1
<1> QED
  BY <1>1, <1>2, <1>3

\* my-receipt and the response add receipts of rows of this voter and poll.
LEMMA ShownInd == IInv /\ [Next]_vars => ShownInv'
<1> SUFFICES ASSUME IInv, [Next]_vars, NEW v \in Voter, NEW p \in Poll,
                    NEW t \in shown'[<<v, p>>]
             PROVE  \E b \in ballots' : /\ b.receiptToken = t
                                        /\ b.poll = p
                                        /\ b.voterToken = deriveVoterToken(v, p)
  BY DEF ShownInv, deriveVoterToken
<1> DEFINE Row(b) == /\ b.receiptToken = t
                     /\ b.poll = p
                     /\ b.voterToken = deriveVoterToken(v, p)
<1>1. t \in shown[<<v, p>>] => \E b \in ballots : Row(b)
  BY DEF IInv, ShownInv
<1>2. shown \in [Voter \X Poll -> SUBSET Attempt]
  BY DEF IInv, TypeOK
<1>3. ASSUME NEW r \in Attempt, Reply(r)
      PROVE  \E b \in ballots : Row(b)
  <2>1. t \in shown[<<v, p>>] \/ (t = r /\ v = r.voter /\ p = r.poll)
    BY <1>2, <1>3 DEF Reply
  <2>2. CASE t = r /\ v = r.voter /\ p = r.poll
    <3>1. PICK b \in ballots : b.receiptToken = r
      BY <1>3 DEF Reply, IInv, RecordedInv
    <3>2. Row(b)
      BY <2>2, <3>1 DEF IInv, RowsInv
    <3> QED
      BY <3>2
  <2> QED
    BY <1>1, <2>1, <2>2
<1>4. ASSUME NEW w \in Voter, NEW q \in Poll, MyReceipt(w, q)
      PROVE  \E b \in ballots : Row(b)
  <2>1. PICK b \in ballots :
            /\ b.poll = q
            /\ b.voterToken = deriveVoterToken(w, q)
            /\ shown' = [shown EXCEPT ![<<w, q>>] = @ \union {b.receiptToken}]
    BY <1>4 DEF MyReceipt, GetVoterReceipt, GetReceiptByVoterToken
  <2>2. t \in shown[<<v, p>>] \/ (t = b.receiptToken /\ v = w /\ p = q)
    BY <1>2, <2>1
  <2> QED
    BY <1>1, <2>1, <2>2
<1>5. ASSUME UNCHANGED shown
      PROVE  \E b \in ballots : Row(b)
  BY <1>1, <1>5
<1>6. \/ UNCHANGED shown
      \/ \E r \in Attempt : Reply(r)
      \/ \E w \in Voter, q \in Poll : MyReceipt(w, q)
  BY StepKinds
     DEF Crash, VoteStep, CheckEligible, LoadPoll, CheckHasVoted, InsertBallot,
         InsertRefused, DatabaseError, ReplyLost
<1>7. \E b \in ballots : Row(b)
  BY <1>3, <1>4, <1>5, <1>6
<1> QED
  BY <1>7, BallotsGrow

\* A closed poll stays closed, so LoadPoll turns a late request away.
LEMMA LateInd == IInv /\ [Next]_vars => LateInv'
<1> SUFFICES ASSUME IInv, [Next]_vars, NEW r \in late'
             PROVE  /\ polls'[r.poll].status = "closed"
                    /\ phase'[r] \in {"load", "notOpen", "failed", "lost", "ineligible"}
  BY DEF LateInv
<1>0. late' = late \/ \E q \in Attempt : CheckEligible(q)
  BY StepKinds
     DEF Crash, VoteStep, LoadPoll, CheckHasVoted, InsertBallot, InsertRefused,
         DatabaseError, Reply, ReplyLost, MyReceipt
<1>1. r \in Attempt /\ (r \in late \/ (CheckEligible(r) /\ polls[r.poll].status = "closed"))
  BY <1>0 DEF CheckEligible, IInv, TypeOK
<1>2. polls[r.poll].status = "closed"
  BY <1>1 DEF IInv, LateInv
<1>3. polls'[r.poll].status = "closed"
  BY <1>1, <1>2, AttemptFields, PollsMoveStep DEF IInv, PollsMove
<1>4. CASE CheckEligible(r)
  BY <1>1, <1>3, <1>4 DEF CheckEligible, IInv, TypeOK
<1>5. CASE r \in late
  <2>1. PhaseMoves(r)
    BY <1>1, PhaseMovesStep DEF IInv
  <2>2. phase[r] \in {"load", "notOpen", "failed", "lost", "ineligible"}
    BY <1>5 DEF IInv, LateInv
  <2> QED
    BY <1>1, <1>2, <1>3, <2>1, <2>2
       DEF PhaseMoves, CheckEligible, LoadPoll, acceptsVotes, GetPollByID, CheckHasVoted, InsertBallot,
           InsertRefused, DatabaseError, Reply, ReplyLost, IInv, TypeOK
<1> QED
  BY <1>1, <1>4, <1>5

LEMMA OneBallotInd == IInv /\ [Next]_vars => OneBallotPerVoter'
<1> SUFFICES ASSUME IInv, [Next]_vars, NEW b \in ballots', NEW c \in ballots',
                    b.poll = c.poll, b.voterToken = c.voterToken
             PROVE  b = c
  BY DEF OneBallotPerVoter
<1>1. CASE ballots' = ballots
  BY <1>1 DEF IInv, OneBallotPerVoter
<1>2. ASSUME NEW r \in Attempt, InsertBallot(r)
      PROVE  b = c
  <2>1. /\ ballots' = ballots \union {ballotOf(r)}
        /\ UniqueVote(ballotOf(r))
    BY <1>2, InsertedRow
  <2>2. \A d \in ballots :
            ~(d.poll = ballotOf(r).poll /\ d.voterToken = ballotOf(r).voterToken)
    BY <2>1 DEF UniqueVote
  <2> QED
    BY <2>1, <2>2 DEF IInv, OneBallotPerVoter
<1> QED
  BY <1>1, <1>2, BallotsMoveStep

LEMMA AlreadyInd == IInv /\ [Next]_vars => AlreadyVotedIsTrue'
<1> SUFFICES ASSUME IInv, [Next]_vars, NEW r \in Attempt, phase'[r] = "already"
             PROVE  \E b \in ballots' : /\ b.poll = r.poll
                                        /\ b.voterToken = deriveVoterToken(r.voter, r.poll)
  BY DEF AlreadyVotedIsTrue, deriveVoterToken
<1>1. PhaseMoves(r)
  BY PhaseMovesStep DEF IInv
<1>2. \/ phase[r] = "already"
      \/ HasVoted(r.voter, r.poll)
      \/ ~UniqueVote(ballotOf(r))
  BY <1>1
     DEF PhaseMoves, CheckEligible, LoadPoll, CheckHasVoted, InsertBallot, InsertRefused,
         DatabaseError, Reply, ReplyLost, IInv, TypeOK
<1>3. \E b \in ballots : b.poll = r.poll /\ b.voterToken = deriveVoterToken(r.voter, r.poll)
  <2>1. CASE phase[r] = "already"
    BY <2>1 DEF IInv, AlreadyVotedIsTrue
  <2>2. CASE HasVoted(r.voter, r.poll)
    BY <2>2 DEF HasVoted
  <2>3. CASE ~UniqueVote(ballotOf(r))
    BY <2>3 DEF UniqueVote, ballotOf
  <2> QED
    BY <1>2, <2>1, <2>2, <2>3
<1> QED
  BY <1>3, BallotsGrow

LEMMA TimelyInd == IInv /\ [Next]_vars => BallotsAreTimely'
<1> SUFFICES ASSUME IInv, [Next]_vars, NEW b \in ballots'
             PROVE  /\ polls'[b.poll].status \in {"open", "closed"}
                    /\ polls'[b.poll].opensAt <= b.castAt
                    /\ b.castAt <= now'
  BY DEF BallotsAreTimely
<1>1. PollsMove /\ VotersMove
  BY PollsMoveStep, VotersMoveStep DEF IInv
<1>2. /\ b.poll \in Poll
      /\ b.castAt \in Time
      /\ polls[b.poll].status \in {"open", "closed"}
      /\ polls[b.poll].opensAt <= b.castAt
      /\ b.castAt <= now
  <2>1. CASE b \in ballots
    BY <2>1 DEF IInv, TypeOK, BallotRow, BallotsAreTimely
  <2>2. ASSUME NEW r \in Attempt, InsertBallot(r), b = ballotOf(r)
        PROVE  <1>2
    <3>1. /\ b.poll = r.poll /\ b.castAt = castAt[r] /\ phase[r] = "insert"
      BY <2>2, InsertedRow
    <3> QED
      BY <3>1, AttemptFields DEF IInv, TypeOK, InFlightInv
  <2> QED
    BY <2>1, <2>2, BallotsMoveStep DEF InsertBallot
<1>3. now \in Int /\ now' \in Int /\ now <= now' /\ b.castAt \in Int
  BY <1>1, <1>2, VotingAssumption DEF IInv, TypeOK, VotersMove, Time
<1>4. /\ polls'[b.poll].status \in {"open", "closed"}
      /\ polls'[b.poll].opensAt = polls[b.poll].opensAt
  BY <1>1, <1>2 DEF PollsMove
<1> QED
  BY <1>2, <1>3, <1>4

LEMMA RegisteredInd == IInv /\ [Next]_vars => VotersWereRegistered'
<1> SUFFICES ASSUME IInv, [Next]_vars, NEW b \in ballots'
             PROVE  voters'[b.voterToken[1]] # "none"
  BY DEF VotersWereRegistered
<1>1. VotersMove
  BY VotersMoveStep DEF IInv
<1>2. b.voterToken[1] \in Voter /\ voters[b.voterToken[1]] # "none"
  <2>1. CASE b \in ballots
    BY <2>1 DEF IInv, TypeOK, BallotRow, VotersWereRegistered
  <2>2. ASSUME NEW r \in Attempt, InsertBallot(r), b = ballotOf(r)
        PROVE  <1>2
    <3>1. b.voterToken = <<r.voter, r.poll>> /\ phase[r] = "insert"
      BY <2>2, InsertedRow DEF deriveVoterToken
    <3>2. voters[r.voter] # "none"
      BY <3>1 DEF IInv, InFlightInv, Live
    <3> QED
      BY <3>1, <3>2, AttemptFields
  <2> QED
    BY <2>1, <2>2, BallotsMoveStep DEF InsertBallot
<1> QED
  BY <1>1, <1>2 DEF VotersMove

\* A request about to insert was not late, and one that arrives has no row.
LEMMA ClosedInd == IInv /\ [Next]_vars => ClosedAtArrivalIsRefused'
<1> SUFFICES ASSUME IInv, [Next]_vars, NEW b \in ballots', b.receiptToken \in late'
             PROVE  FALSE
  BY DEF ClosedAtArrivalIsRefused
<1>2. ASSUME NEW r \in Attempt, InsertBallot(r)
      PROVE  FALSE
  <2>1. /\ ballots' = ballots \union {ballotOf(r)} /\ ballotOf(r).receiptToken = r
        /\ phase[r] = "insert"
    BY <1>2, InsertedRow
  <2>2. r \notin late /\ late' = late
    BY <1>2, <2>1 DEF IInv, LateInv, InsertBallot
  <2> QED
    BY <2>1, <2>2 DEF IInv, ClosedAtArrivalIsRefused
<1>3. CASE ballots' = ballots
  <2>1. late' = late \/ CheckEligible(b.receiptToken)
    BY <1>3, StepKinds DEF IInv, ClosedAtArrivalIsRefused, Crash, VoteStep, CheckEligible,
         LoadPoll, CheckHasVoted, InsertBallot, InsertRefused, DatabaseError, Reply,
         ReplyLost, MyReceipt
  <2>2. phase[b.receiptToken] # "unused"
    BY <1>3 DEF IInv, RowsInv
  <2> QED
    BY <1>3, <2>1, <2>2 DEF IInv, ClosedAtArrivalIsRefused, CheckEligible
<1> QED
  BY <1>2, <1>3, BallotsMoveStep

LEMMA UnstampedInd == IInv /\ [Next]_vars => UnstampedInv'
<1> SUFFICES ASSUME IInv, [Next]_vars, NEW r \in Attempt,
                    phase'[r] \in {"unused", "load", "check"}
             PROVE  castAt'[r] = 0
  BY DEF UnstampedInv
<1>1. PhaseMoves(r)
  BY PhaseMovesStep DEF IInv
<1>2. phase[r] \in {"unused", "load", "check"} /\ castAt'[r] = castAt[r]
  BY <1>1
     DEF IInv, TypeOK, PhaseMoves, CheckEligible, LoadPoll, CheckHasVoted, InsertBallot,
         InsertRefused, DatabaseError, Reply, ReplyLost
<1> QED
  BY <1>2 DEF IInv, UnstampedInv

LEMMA TypeInd == IInv /\ [Next]_vars => TypeOK'
<1> SUFFICES ASSUME IInv, [Next]_vars PROVE TypeOK'
  OBVIOUS
<1>0. TypeOK
  BY DEF IInv
<1>1. now' \in Time /\ voters' \in [Voter -> VoterStatus]
  <2>1. VotersMove
    BY <1>0, VotersMoveStep
  <2>2. UNCHANGED voters \/ \E v \in Voter, x \in VoterStatus : voters' = [voters EXCEPT ![v] = x]
    BY <1>0
       DEF TypeOK, Next, vars, Tick, Register, Suspend, UpsertVoter, GetVoterByFLTHash, VoterStatus, CreatePoll,
           ServerStep, OpenDraftPolls, CloseExpiredPolls, SchedulerError, Crash, VoteStep,
           CheckEligible, LoadPoll, CheckHasVoted, InsertBallot, InsertRefused,
           DatabaseError, Reply, ReplyLost, MyReceipt
  <2> QED
    BY <1>0, <2>1, <2>2 DEF TypeOK, VotersMove
<1>2. polls' \in [Poll -> PollRow]
  <2>1. PollsMove
    BY <1>0, PollsMoveStep
  <2> QED
    BY <1>0, <2>1
       DEF PollsMove, TypeOK, Next, vars, Tick, Register, Suspend, CreatePoll, insertPoll, ServerStep,
           OpenDraftPolls, CloseExpiredPolls, SchedulerError, Crash, VoteStep, CheckEligible,
           LoadPoll, CheckHasVoted, InsertBallot, InsertRefused, DatabaseError, Reply,
           ReplyLost, MyReceipt
<1>3. ballots' \subseteq BallotRow
  <2>1. ASSUME NEW r \in Attempt, InsertBallot(r)
        PROVE  ballots' \subseteq BallotRow
    <3>1. ballots' = ballots \union {ballotOf(r)} /\ ballotOf(r) \in BallotRow
      BY <2>1, InsertedRow
    <3> QED
      BY <1>0, <3>1 DEF TypeOK
  <2> QED
    BY <1>0, <2>1, BallotsMoveStep DEF TypeOK
<1>4. sched' \in [Server -> {"open", "close"}]
  BY <1>0
     DEF TypeOK, Next, vars, Tick, Register, Suspend, CreatePoll, ServerStep, OpenDraftPolls,
         CloseExpiredPolls, SchedulerError, Crash, VoteStep, CheckEligible, LoadPoll,
         CheckHasVoted, InsertBallot, InsertRefused, DatabaseError, Reply, ReplyLost,
         MyReceipt
<1>5. /\ phase' \in [Attempt -> Phase]
      /\ castAt' \in [Attempt -> Time]
      /\ shown' \in [Voter \X Poll -> SUBSET Attempt]
      /\ late' \subseteq Attempt
  <2> USE <1>0 DEF TypeOK
  <2>1. ASSUME NEW r \in Attempt, VoteStep(r)
        PROVE  <1>5
    <3>1. phase' \in [Attempt -> Phase]
      BY <2>1
         DEF VoteStep, CheckEligible, LoadPoll, CheckHasVoted, InsertBallot, InsertRefused,
             DatabaseError, Reply, ReplyLost, Phase, Live, Ended
    <3>2. castAt' \in [Attempt -> Time] /\ late' \subseteq Attempt
      BY <2>1
         DEF VoteStep, CheckEligible, LoadPoll, CheckHasVoted, InsertBallot, InsertRefused,
             DatabaseError, Reply, ReplyLost
    <3>3. shown' \in [Voter \X Poll -> SUBSET Attempt]
      <4>1. CASE Reply(r)
        BY <4>1 DEF Reply
      <4>2. CASE ~Reply(r)
        BY <2>1, <4>2
           DEF VoteStep, CheckEligible, LoadPoll, CheckHasVoted, InsertBallot, InsertRefused,
               DatabaseError, ReplyLost
      <4> QED
        BY <4>1, <4>2
    <3> QED
      BY <3>1, <3>2, <3>3
  <2>2. ASSUME NEW s \in Server, Crash(s)
        PROVE  <1>5
    BY <2>2 DEF Crash, Phase, Ended
  <2>3. ASSUME NEW v \in Voter, NEW p \in Poll, MyReceipt(v, p)
        PROVE  <1>5
    BY <2>3 DEF MyReceipt, GetVoterReceipt, GetReceiptByVoterToken, BallotRow
  <2> QED
    BY <2>1, <2>2, <2>3, StepKinds
<1> QED
  BY <1>1, <1>2, <1>3, <1>4, <1>5 DEF TypeOK

-----------------------------------------------------------------------------
(* The invariants.                                                         *)

LEMMA IInvInd == IInv /\ [Next]_vars => IInv'
BY TypeInd, InFlightInd, OpenedInd, RowsInd, RecordedInd, ShownInd, LateInd, UnstampedInd, OneBallotInd,
   AlreadyInd, TimelyInd, RegisteredInd, ClosedInd
   DEF IInv

\* The inductive invariant holds in every reachable state.
THEOREM Invariance == Spec => []IInv
BY InitIInv, IInvInd, PTL DEF Spec

\* Tables, requests and histories keep their shape; in particular a stored
\* choice always names an option of its poll.
THEOREM TypeCorrect == Spec => []TypeOK
<1>1. IInv => TypeOK
  BY DEF IInv
<1> QED
  BY <1>1, Invariance, PTL

\* Racing requests of one voter leave at most one ballot in the poll.
THEOREM OneVote == Spec => []OneBallotPerVoter
<1>1. IInv => OneBallotPerVoter
  BY DEF IInv
<1> QED
  BY <1>1, Invariance, PTL

\* Whoever is told of an earlier vote has one in that poll.
THEOREM AlreadyVotedTruthful == Spec => []AlreadyVotedIsTrue
<1>1. IInv => AlreadyVotedIsTrue
  BY DEF IInv
<1> QED
  BY <1>1, Invariance, PTL

\* No ballot is stamped before its poll was opened.
THEOREM TimelyBallots == Spec => []BallotsAreTimely
<1>1. IInv => BallotsAreTimely
  BY DEF IInv
<1> QED
  BY <1>1, Invariance, PTL

\* Every ballot is that of a registered voter.
THEOREM RegisteredVoters == Spec => []VotersWereRegistered
<1>1. IInv => VotersWereRegistered
  BY DEF IInv
<1> QED
  BY <1>1, Invariance, PTL

\* What was sent to a closed poll is not in the table.
THEOREM LateRefused == Spec => []ClosedAtArrivalIsRefused
<1>1. IInv => ClosedAtArrivalIsRefused
  BY DEF IInv
<1> QED
  BY <1>1, Invariance, PTL

\* The receipts a voter is shown for a poll are the one of her ballot there.
THEOREM ReceiptsAgree == Spec => []ShownReceiptIsTheVote
<1>1. IInv => ShownReceiptIsTheVote
  BY DEF IInv, ShownInv, OneBallotPerVoter, ShownReceiptIsTheVote
<1> QED
  BY <1>1, Invariance, PTL

\* Suspensions, closed polls and closing times stay as they are.
THEOREM OneWay == Spec => OneWayStates
<1>1. IInv /\ [Next]_vars =>
        [/\ \A v \in Voter : voters[v] = "suspended" => voters'[v] = "suspended"
         /\ \A p \in Poll :
              /\ polls[p].status = "closed" => polls'[p] = polls[p]
              /\ polls[p].status = "open" => polls'[p].status \in {"open", "closed"}
              /\ polls[p].status # "none" => polls'[p].closesAt = polls[p].closesAt]_vars
  BY PollsMoveStep, VotersMoveStep DEF IInv, PollsMove, VotersMove
<1> QED
  BY <1>1, Invariance, PTL DEF Spec, OneWayStates

-----------------------------------------------------------------------------
(* The refinement: an INSERT records a vote, the response and my-receipt   *)
(* acknowledge one, and every other step leaves the box as it is.          *)

LEMMA VoteOfRow ==
    ASSUME IInv, NEW b \in ballots
    PROVE  voteOf(b) \in Box!Vote
  BY DEF IInv, TypeOK, RowsInv, BallotRow, voteOf, Box!Vote

LEMMA InsertRecords ==
    ASSUME IInv, NEW r \in Attempt, InsertBallot(r)
    PROVE  Box!BoxNext
<1> DEFINE row == ballotOf(r)
<1>1. /\ ballots' = ballots \union {row} /\ row \in BallotRow
      /\ row.receiptToken = r
      /\ row.poll = r.poll
      /\ row.voterToken = deriveVoterToken(r.voter, r.poll)
      /\ [choiceIndex |-> row.choiceIndex, rankings |-> row.rankings] \in StorableChoice
      /\ UniqueVote(row)
      /\ phase[r] = "insert"
  BY InsertedRow
<1> HIDE DEF row
<1>2. voteOf(row) \in Box!Vote
  BY <1>1 DEF BallotRow, voteOf, Box!Vote
<1>3. votesTaken' = votesTaken \union {voteOf(row)}
  BY <1>1 DEF votesTaken, voteOf
<1>4. UNCHANGED receiptsShown
  BY DEF InsertBallot, receiptsShown
<1>5. ASSUME NEW b \in ballots
      PROVE  /\ voteOf(b).receipt # voteOf(row).receipt
             /\ ~(voteOf(b).voter = voteOf(row).voter /\ voteOf(b).poll = voteOf(row).poll)
  <2>1. b.receiptToken # r
    BY <1>1 DEF IInv, RowsInv
  <2>2. ~(b.poll = row.poll /\ b.voterToken = row.voterToken)
    BY <1>1 DEF UniqueVote
  <2>3. /\ b.voterToken = <<b.receiptToken.voter, b.poll>>
        /\ row.voterToken = <<r.voter, row.poll>>
    BY <1>1 DEF IInv, RowsInv, deriveVoterToken
  <2> QED
    BY <1>1, <2>1, <2>2, <2>3 DEF voteOf
<1>6. Box!Record(voteOf(row))
  BY <1>3, <1>4, <1>5 DEF Box!Record, votesTaken
<1> QED
  BY <1>2, <1>6 DEF Box!BoxNext

LEMMA ShowAcknowledges ==
    ASSUME IInv, NEW b \in ballots, UNCHANGED ballots,
           NEW v \in Voter, NEW p \in Poll,
           shown' = [shown EXCEPT ![<<v, p>>] = @ \union {b.receiptToken}]
    PROVE  Box!BoxNext
<1>1. voteOf(b) \in Box!Vote /\ voteOf(b) \in votesTaken
  BY VoteOfRow DEF votesTaken
<1>2. UNCHANGED votesTaken
  BY DEF votesTaken, voteOf
<1>3. shown \in [Voter \X Poll -> SUBSET Attempt]
  BY DEF IInv, TypeOK
<1>4. receiptsShown' = receiptsShown \union {b.receiptToken}
  BY <1>3 DEF receiptsShown
<1>5. voteOf(b).receipt = b.receiptToken
  BY DEF voteOf
<1>6. Box!Acknowledge(voteOf(b))
  BY <1>1, <1>2, <1>4, <1>5 DEF Box!Acknowledge
<1> QED
  BY <1>1, <1>6 DEF Box!BoxNext

LEMMA StepRefines == IInv /\ [Next]_vars => [Box!BoxNext]_(Box!boxVars)
<1> SUFFICES ASSUME IInv, [Next]_vars
             PROVE  Box!BoxNext \/ UNCHANGED <<votesTaken, receiptsShown>>
  BY DEF Box!boxVars
<1>1. UNCHANGED <<ballots, shown>> => UNCHANGED <<votesTaken, receiptsShown>>
  BY DEF votesTaken, voteOf, receiptsShown
<1>2. ASSUME NEW r \in Attempt, VoteStep(r)
      PROVE  Box!BoxNext \/ UNCHANGED <<votesTaken, receiptsShown>>
  <2>1. CASE InsertBallot(r)
    BY <2>1, InsertRecords
  <2>2. CASE Reply(r)
    <3>1. PICK b \in ballots : b.receiptToken = r
      BY <2>2 DEF Reply, IInv, RecordedInv
    <3>2. /\ UNCHANGED ballots
          /\ shown' = [shown EXCEPT ![<<r.voter, r.poll>>] = @ \union {b.receiptToken}]
      BY <2>2, <3>1 DEF Reply
    <3> QED
      BY <3>2, ShowAcknowledges, AttemptFields
  <2>3. CASE ~InsertBallot(r) /\ ~Reply(r)
    BY <1>1, <1>2, <2>3
       DEF VoteStep, CheckEligible, LoadPoll, CheckHasVoted, InsertRefused, DatabaseError,
           ReplyLost
  <2> QED
    BY <2>1, <2>2, <2>3
<1>3. ASSUME NEW v \in Voter, NEW p \in Poll, MyReceipt(v, p)
      PROVE  Box!BoxNext
  <2>1. PICK b \in ballots :
            shown' = [shown EXCEPT ![<<v, p>>] = @ \union {b.receiptToken}]
    BY <1>3 DEF MyReceipt, GetVoterReceipt, GetReceiptByVoterToken
  <2> QED
    BY <1>3, <2>1, ShowAcknowledges DEF MyReceipt
<1>4. ASSUME NEW s \in Server, Crash(s)
      PROVE  UNCHANGED <<ballots, shown>>
  BY <1>4 DEF Crash
<1> QED
  BY <1>1, <1>2, <1>3, <1>4, StepKinds

\* The portal implements the ballot box.
THEOREM Refinement == Spec => ImplementsBallotBox
<1>1. Init => Box!BoxInit
  BY DEF Init, Box!BoxInit, votesTaken, receiptsShown
<1> QED
  BY <1>1, StepRefines, Invariance, PTL DEF Spec, ImplementsBallotBox, Box!BoxSpec

-----------------------------------------------------------------------------
(* The other refinement: to the readers of one poll its requests are a log *)
(* of ballots.  HasVoted stamps one, an INSERT commits it, a refusal, an   *)
(* error or a crash aborts it, and requests of other polls do not show.    *)

LEMMA StampRefines ==
    ASSUME IInv, NEW r \in Attempt, CheckHasVoted(r)
    PROVE  Log(r.poll)!LogNext \/ UNCHANGED Log(r.poll)!logVars
<1> DEFINE p == r.poll
<1>1. UNCHANGED <<now, ballots>> /\ r \in requestsTo(p)
  BY DEF CheckHasVoted, requestsTo
<1>2. logged(p)' = logged(p)
  BY <1>1 DEF logged
<1>3. castAt \in [Attempt -> Time] /\ phase \in [Attempt -> Phase] /\ phase[r] = "check"
  BY DEF IInv, TypeOK, CheckHasVoted
<1>4. CASE phase'[r] = "insert"
  <2>1. /\ phase' = [phase EXCEPT ![r] = "insert"]
        /\ castAt' = [castAt EXCEPT ![r] = now]
    BY <1>3, <1>4 DEF CheckHasVoted
  <2>2. stampsOf(p)' = [stampsOf(p) EXCEPT ![r] = now]
    BY <1>1, <1>3, <2>1 DEF stampsOf, requestsTo
  <2>3. inserting(p)' = inserting(p) \union {r}
    BY <1>1, <1>3, <2>1 DEF inserting, requestsTo
  <2>4. stampsOf(p)[r] = 0
    BY <1>1, <1>3 DEF IInv, UnstampedInv, stampsOf
  <2>5. Log(p)!Stamp(r)
    BY <1>1, <1>2, <2>2, <2>3, <2>4 DEF Log!Stamp
  <2> QED
    BY <1>1, <2>5 DEF Log!LogNext
<1>5. CASE phase'[r] # "insert"
  <2>1. UNCHANGED castAt /\ phase' = [phase EXCEPT ![r] = phase'[r]]
    BY <1>3, <1>5 DEF CheckHasVoted
  <2>2. stampsOf(p)' = stampsOf(p) /\ inserting(p)' = inserting(p)
    BY <1>3, <1>5, <2>1 DEF stampsOf, inserting, requestsTo
  <2> QED
    BY <1>1, <1>2, <2>2 DEF Log!logVars
<1> QED
  BY <1>4, <1>5

LEMMA CommitRefines ==
    ASSUME IInv, NEW r \in Attempt, InsertBallot(r)
    PROVE  Log(r.poll)!LogNext
<1> DEFINE p == r.poll
<1>1. /\ ballots' = ballots \union {ballotOf(r)}
      /\ ballotOf(r).receiptToken = r /\ ballotOf(r).poll = p
      /\ phase[r] = "insert" /\ phase'[r] \in {"reply", "failed"}
  BY InsertedRow
<1>2. UNCHANGED <<now, castAt>> /\ phase' = [phase EXCEPT ![r] = phase'[r]]
  BY DEF InsertBallot, IInv, TypeOK
<1>3. r \in requestsTo(p) /\ r \in inserting(p)
  BY <1>1 DEF requestsTo, inserting
<1>4. stampsOf(p)' = stampsOf(p)
  BY <1>2 DEF stampsOf, requestsTo
<1>5. inserting(p)' = inserting(p) \ {r}
  BY <1>1, <1>2 DEF inserting, requestsTo, IInv, TypeOK
<1>6. logged(p)' = logged(p) \union {r}
  BY <1>1 DEF logged
<1>7. Log(p)!Commit(r)
  BY <1>2, <1>3, <1>4, <1>5, <1>6 DEF Log!Commit
<1> QED
  BY <1>3, <1>7 DEF Log!LogNext

\* Requests that end without a row, or do not stamp one, take at most what was
\* pending out of the log.
LEMMA AbortRefines ==
    ASSUME IInv, NEW p \in Poll, UNCHANGED <<now, castAt, ballots>>,
           inserting(p)' \subseteq inserting(p)
    PROVE  Log(p)!LogNext \/ UNCHANGED Log(p)!logVars
<1> DEFINE B == inserting(p) \ inserting(p)'
<1>1. stampsOf(p)' = stampsOf(p) /\ logged(p)' = logged(p)
  BY DEF stampsOf, requestsTo, logged
<1>2. B \in SUBSET requestsTo(p) /\ B \subseteq inserting(p)
  BY DEF inserting
<1>3. inserting(p)' = inserting(p) \ B
  OBVIOUS
<1>4. CASE B # {}
  <2>1. Log(p)!Abort(B)
    BY <1>1, <1>2, <1>3, <1>4 DEF Log!Abort
  <2> QED
    BY <1>2, <2>1 DEF Log!LogNext
<1>5. CASE B = {}
  <2>1. inserting(p)' = inserting(p)
    BY <1>3, <1>5
  <2> QED
    BY <1>1, <2>1 DEF Log!logVars
<1> QED
  BY <1>4, <1>5

LEMMA OtherPolls ==
    ASSUME IInv, NEW p \in Poll, NEW r \in Attempt, VoteStep(r), r.poll # p
    PROVE  UNCHANGED Log(p)!logVars
<1>1. /\ UNCHANGED now
      /\ \A q \in Attempt : q # r => phase'[q] = phase[q] /\ castAt'[q] = castAt[q]
  BY DEF IInv, TypeOK, VoteStep, CheckEligible, LoadPoll, CheckHasVoted, InsertBallot,
         InsertRefused, DatabaseError, Reply, ReplyLost
<1>2. r \notin requestsTo(p)
  BY DEF requestsTo
<1>3. stampsOf(p)' = stampsOf(p) /\ inserting(p)' = inserting(p)
  BY <1>1, <1>2 DEF stampsOf, inserting, requestsTo
<1>4. logged(p)' = logged(p)
  <2>1. CASE InsertBallot(r)
    <3>1. ballots' = ballots \union {ballotOf(r)} /\ ballotOf(r).poll # p
      BY <2>1, InsertedRow
    <3> QED
      BY <3>1 DEF logged
  <2>2. CASE UNCHANGED ballots
    BY <2>2 DEF logged
  <2> QED
    BY <2>1, <2>2
       DEF VoteStep, CheckEligible, LoadPoll, CheckHasVoted, InsertRefused, DatabaseError,
           Reply, ReplyLost
<1> QED
  BY <1>1, <1>3, <1>4 DEF Log!logVars

LEMMA LogStepRefines ==
    ASSUME IInv, [Next]_vars, NEW p \in Poll
    PROVE  Log(p)!LogNext \/ UNCHANGED Log(p)!logVars
<1>1. CASE Tick
  <2>1. stampsOf(p)' = stampsOf(p) /\ inserting(p)' = inserting(p) /\ logged(p)' = logged(p)
    BY <1>1 DEF Tick, stampsOf, requestsTo, inserting, logged
  <2>2. Log(p)!LogTick
    BY <1>1, <2>1 DEF Tick, Log!LogTick
  <2> QED
    BY <2>2 DEF Log!LogNext
<1>2. ASSUME NEW r \in Attempt, VoteStep(r)
      PROVE  Log(p)!LogNext \/ UNCHANGED Log(p)!logVars
  <2>1. CASE r.poll # p
    BY <1>2, <2>1, OtherPolls
  <2>2. CASE r.poll = p /\ CheckHasVoted(r)
    BY <2>2, StampRefines
  <2>3. CASE r.poll = p /\ InsertBallot(r)
    BY <2>3, CommitRefines
  <2>4. CASE ~CheckHasVoted(r) /\ ~InsertBallot(r)
    <3>1. UNCHANGED <<now, castAt, ballots>>
      BY <1>2, <2>4
         DEF VoteStep, CheckEligible, LoadPoll, InsertRefused, DatabaseError, Reply, ReplyLost
    <3>2. \A q \in Attempt : phase'[q] = "insert" => phase[q] = "insert"
      BY <1>2, <2>4
         DEF VoteStep, CheckEligible, LoadPoll, InsertRefused, DatabaseError, Reply, ReplyLost,
             IInv, TypeOK
    <3>3. inserting(p)' \subseteq inserting(p)
      BY <3>2 DEF inserting, requestsTo
    <3> QED
      BY <3>1, <3>3, AbortRefines
  <2> QED
    BY <2>1, <2>2, <2>3, <2>4
<1>3. ASSUME NEW s \in Server, Crash(s)
      PROVE  Log(p)!LogNext \/ UNCHANGED Log(p)!logVars
  <2>1. UNCHANGED <<now, castAt, ballots>>
    BY <1>3 DEF Crash
  <2>2. inserting(p)' \subseteq inserting(p)
    BY <1>3 DEF Crash, inserting, requestsTo
  <2> QED
    BY <2>1, <2>2, AbortRefines
<1>4. CASE UNCHANGED <<now, castAt, ballots, phase>>
  <2>1. inserting(p)' = inserting(p)
    BY <1>4 DEF inserting, requestsTo
  <2> QED
    BY <1>4, <2>1, AbortRefines
<1>5. CASE ~Tick
  <2>1. UNCHANGED now
    BY <1>5
       DEF Next, vars, Register, Suspend, CreatePoll, ServerStep, OpenDraftPolls,
           CloseExpiredPolls, SchedulerError, Crash, VoteStep, CheckEligible, LoadPoll,
           CheckHasVoted, InsertBallot, InsertRefused, DatabaseError, Reply, ReplyLost,
           MyReceipt
  <2> QED
    BY <1>2, <1>3, <1>4, <2>1, StepKinds DEF MyReceipt
<1> QED
  BY <1>1, <1>5

LEMMA LogInitRefines == Init => \A p \in Poll : Log(p)!LogInit
<1> SUFFICES ASSUME Init, NEW p \in Poll PROVE Log(p)!LogInit
  OBVIOUS
<1>1. now = 1 /\ logged(p) = {}
  BY DEF Init, logged
<1>2. stampsOf(p) = [r \in requestsTo(p) |-> 0] /\ inserting(p) = {}
  BY DEF Init, stampsOf, requestsTo, inserting
<1> QED
  BY <1>1, <1>2 DEF Log!LogInit

\* Casting provides every reader of a poll with the log the other modules start
\* from, so what is proved of the results and the audit holds of the portal.
THEOREM LogRefinement == Spec => ImplementsBallotLog
<1>1. IInv /\ [Next]_vars =>
          [\A p \in Poll : Log(p)!LogNext \/ UNCHANGED Log(p)!logVars]_vars
  BY LogStepRefines
<1> QED
  BY <1>1, LogInitRefines, Invariance, PTL DEF Spec, ImplementsBallotLog

\* The same for each poll, as the log's own specification.
THEOREM LogOfEachPoll == ASSUME NEW p \in Poll PROVE Spec => Log(p)!LogSpec
<1>1. Init => Log(p)!LogInit
  BY LogInitRefines
<1>2. IInv /\ [Next]_vars => [Log(p)!LogNext]_(Log(p)!logVars)
  BY LogStepRefines
<1> QED
  BY <1>1, <1>2, Invariance, PTL DEF Spec, Log!LogSpec
=============================================================================
