---------------------------- MODULE TallyProofs ----------------------------
(***************************************************************************)
(* Theorems about Tally, for every set of ballots and of requests, every   *)
(* number of options and every bound on the clock.                         *)
(***************************************************************************)
EXTENDS Tally, BallotLogProofs

-----------------------------------------------------------------------------
(* The inductive invariant.                                                *)

\* A tally of the table as it was at one moment, at or after the first request.
Genuine(t) ==
    /\ t.auditRoot \in past
    /\ floor \subseteq t.auditRoot
    /\ t = storedTally(t.auditRoot)

\* What the table holds now is a content it has had, with the first ballots.
TableInv == log \in past /\ floor \subseteq log

\* What a request has read before it writes the tally, and what that was read
\* from: so whichever of two writes comes last, the row is genuine.
SnapInv ==
    \A q \in Request : step[q] = "upsert" => snap[q] \in past /\ floor \subseteq snap[q]

RowInv == tally # NoTally => Genuine(tally)

AnswerInv == \A q \in Request : step[q] = "done" => Genuine(answer[q])

\* The row is written by a request, so there is none while none has begun:
\* floor is only set when nothing depends on it.
FirstInv == (\A q \in Request : step[q] = "idle") => tally = NoTally

IInv ==
    /\ TypeOK
    /\ TableInv
    /\ SnapInv
    /\ RowInv
    /\ AnswerInv
    /\ FirstInv

-----------------------------------------------------------------------------
(* The table and its tallies.                                              *)

\* The counts of any set of ballots are numbers, and a tally is not the
\* absence of one.
LEMMA StoredTallyType ==
    ASSUME NEW B \in SUBSET Ballot
    PROVE  /\ storedTally(B) \in StoredTally
           /\ storedTally(B) # NoTally
           /\ storedTally(B).auditRoot = B
           /\ storedTally(B).totalVotes = Cardinality(B)
           /\ \A c \in Option : storedTally(B).counts[c] = counts(B, c)
<1>1. \A S \in SUBSET Ballot : Cardinality(S) \in Nat
  BY TallyAssumption, FS_Subset, FS_CardinalityType
<1>2. \A c \in Option : counts(B, c) \in Nat
  BY <1>1 DEF counts
<1>3. storedTally(B) \in StoredTally
  BY <1>1, <1>2 DEF storedTally, StoredTally, computeAuditRoot
<1>4. storedTally(B) # NoTally
  BY DEF storedTally, NoTally
<1> QED
  BY <1>3, <1>4 DEF storedTally, computeAuditRoot

-----------------------------------------------------------------------------
(* Initial states and steps.                                               *)

LEMMA InitIInv == Init => IInv
<1> SUFFICES ASSUME Init PROVE IInv
  OBVIOUS
<1> USE DEF Init, LogInit, TallyInit
<1>1. TypeOK
  BY BallotLogAssumption DEF TypeOK, LogTypeOK, Step
<1> QED
  BY <1>1 DEF IInv, TableInv, SnapInv, RowInv, AnswerInv, FirstInv

\* One lemma for each kind of step, which says what it does to every conjunct.
LEMMA BallotsMoveKeeps == IInv /\ BallotsMove => IInv'
<1> SUFFICES ASSUME IInv, BallotsMove PROVE IInv'
  OBVIOUS
<1>1. LogTypeOK' /\ log \subseteq log'
  BY LogStep DEF IInv, TypeOK, BallotsMove
<1>2. UNCHANGED <<tally, step, snap, answer, known, floor>> /\ past' = past \union {log'}
  BY DEF BallotsMove
<1>3. TypeOK'
  BY <1>1, <1>2 DEF IInv, TypeOK, LogTypeOK
<1> QED
  BY <1>1, <1>2, <1>3
     DEF IInv, TableInv, SnapInv, RowInv, AnswerInv, FirstInv, Genuine

LEMMA GetTallyKeeps ==
    ASSUME IInv, NEW q \in Request, GetTally(q)
    PROVE  IInv'
<1> USE DEF IInv, TypeOK, GetTally
<1>1. UNCHANGED <<tally, past, log>> /\ LogTypeOK'
  BY DEF logVars, LogTypeOK
<1>2. floor' \subseteq log
  BY DEF TableInv
<1>3. TypeOK'
  BY <1>1, <1>2 DEF Step, LogTypeOK
<1>4. CASE \A r \in Request : step[r] = "idle"
  BY <1>1, <1>2, <1>3, <1>4 DEF TableInv, SnapInv, RowInv, AnswerInv, FirstInv
<1>5. CASE ~ \A r \in Request : step[r] = "idle"
  BY <1>1, <1>2, <1>3, <1>5 DEF TableInv, SnapInv, RowInv, AnswerInv, FirstInv, Genuine
<1> QED
  BY <1>4, <1>5

LEMMA GetTallyByPollKeeps ==
    ASSUME IInv, NEW q \in Request, GetTallyByPoll(q)
    PROVE  IInv'
<1> USE DEF IInv, TypeOK, GetTallyByPoll
<1>1. UNCHANGED <<tally, snap, known, floor, past, log>> /\ LogTypeOK'
  BY DEF logVars, LogTypeOK
<1>2. TypeOK'
  BY <1>1 DEF Step
<1> QED
  BY <1>1, <1>2 DEF TableInv, SnapInv, RowInv, AnswerInv, FirstInv, Genuine

LEMMA GetBallotsByPollKeeps ==
    ASSUME IInv, NEW q \in Request, GetBallotsByPoll(q)
    PROVE  IInv'
<1> USE DEF IInv, TypeOK, GetBallotsByPoll
<1>1. UNCHANGED <<tally, answer, known, floor, past, log>> /\ LogTypeOK'
  BY DEF logVars, LogTypeOK
<1>2. TypeOK'
  BY <1>1 DEF Step, LogTypeOK
<1> QED
  BY <1>1, <1>2 DEF TableInv, SnapInv, RowInv, AnswerInv, FirstInv, Genuine

LEMMA UpsertTallyKeeps ==
    ASSUME IInv, NEW q \in Request, UpsertTally(q)
    PROVE  IInv'
<1> USE DEF IInv, TypeOK, UpsertTally
<1>1. UNCHANGED <<snap, known, floor, past, log>> /\ LogTypeOK'
  BY DEF logVars, LogTypeOK
<1>2. /\ tally' \in StoredTally /\ tally' # NoTally
      /\ tally'.auditRoot = snap[q]
      /\ tally' = storedTally(snap[q])
  BY StoredTallyType
<1>3. Genuine(tally)'
  BY <1>1, <1>2 DEF SnapInv, Genuine, storedTally, counts, computeAuditRoot
<1>4. TypeOK'
  BY <1>1, <1>2 DEF Step
<1>5. AnswerInv'
  BY <1>1, <1>3 DEF AnswerInv, Genuine
<1> QED
  BY <1>1, <1>3, <1>4, <1>5 DEF TableInv, SnapInv, RowInv, FirstInv

LEMMA RequestFailsKeeps ==
    ASSUME IInv, NEW q \in Request, RequestFails(q)
    PROVE  IInv'
<1> USE DEF IInv, TypeOK, RequestFails
<1>1. UNCHANGED <<tally, snap, answer, known, floor, past, log>> /\ LogTypeOK'
  BY DEF logVars, LogTypeOK
<1>2. TypeOK'
  BY <1>1 DEF Step
<1> QED
  BY <1>1, <1>2 DEF TableInv, SnapInv, RowInv, AnswerInv, FirstInv, Genuine

LEMMA IInvInd == IInv /\ [Next]_vars => IInv'
<1>1. IInv /\ UNCHANGED vars => IInv'
  BY DEF vars, tallyVars, logVars, IInv, TypeOK, LogTypeOK, TableInv, SnapInv, RowInv,
         AnswerInv, FirstInv, Genuine
<1> QED
  BY <1>1, BallotsMoveKeeps, GetTallyKeeps, GetTallyByPollKeeps, GetBallotsByPollKeeps,
     UpsertTallyKeeps, RequestFailsKeeps DEF Next, TallyStep

-----------------------------------------------------------------------------
(* Theorems.                                                               *)

\* The inductive invariant of the results holds in every reachable state.
THEOREM TallyInvariance == Spec => []IInv
BY InitIInv, IInvInd, PTL DEF Spec

\* Rows, requests and answers keep their shape, and exactly the requests that
\* are done have been answered.
THEOREM TallyTypes == Spec => []TypeOK
<1>1. IInv => TypeOK
  BY DEF IInv
<1> QED
  BY <1>1, TallyInvariance, PTL

\* The counts, the total and the audit root of an answer of GET /results are
\* those of one and the same content of the table.
THEOREM AnswersAreConsistent == Spec => []AnswersAreOneSnapshot
<1>1. IInv => AnswersAreOneSnapshot
  <2> SUFFICES ASSUME IInv, NEW q \in Request, step[q] = "done"
               PROVE  /\ answer[q].auditRoot \in past
                      /\ answer[q].totalVotes = Cardinality(answer[q].auditRoot)
                      /\ \A c \in Option : answer[q].counts[c] =
                             Cardinality({b \in answer[q].auditRoot : choice[b] = c})
    BY DEF AnswersAreOneSnapshot
  <2>1. Genuine(answer[q])
    BY DEF IInv, AnswerInv
  <2>2. answer[q].auditRoot \in SUBSET Ballot
    BY <2>1 DEF IInv, TypeOK, Genuine
  <2> QED
    BY <2>1, <2>2, StoredTallyType DEF Genuine, counts
<1> QED
  BY <1>1, TallyInvariance, PTL

\* A stored tally is never older than the first request for results.
THEOREM AnswersAreRecentEnough == Spec => []AnswersReachTheFirstRequest
<1>1. IInv => AnswersReachTheFirstRequest
  BY DEF IInv, AnswerInv, Genuine, AnswersReachTheFirstRequest
<1> QED
  BY <1>1, TallyInvariance, PTL
=============================================================================
