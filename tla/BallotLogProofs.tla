-------------------------- MODULE BallotLogProofs --------------------------
(***************************************************************************)
(* What holds of the ballots of a poll whatever their readers do: the      *)
(* facts the proofs about the results, the audit and the live pages share. *)
(***************************************************************************)
EXTENDS BallotLog, FiniteSetTheorems, TLAPS

\* A ballot is stamped before its INSERT is tried, by a clock that has not
\* passed since, and has one INSERT only.
StampsInv ==
    /\ \A b \in pending \union log : stamp[b] \in 1 .. now
    /\ pending \intersect log = {}

\* What is stamped keeps its stamp, and what is in the table stays there.
LEMMA LogStep ==
    ASSUME LogTypeOK, [LogNext]_logVars
    PROVE  /\ LogTypeOK'
           /\ now <= now'
           /\ log \subseteq log'
           /\ \A b \in Ballot : stamp[b] # 0 => stamp'[b] = stamp[b]
<1> DEFINE Goal == /\ LogTypeOK'
                   /\ now <= now'
                   /\ log \subseteq log'
                   /\ \A b \in Ballot : stamp[b] # 0 => stamp'[b] = stamp[b]
<1> USE BallotLogAssumption DEF LogTypeOK
<1>1. CASE LogTick
  BY <1>1 DEF LogTick
<1>2. ASSUME NEW b \in Ballot, Stamp(b)
      PROVE  Goal
  BY <1>2 DEF Stamp
<1>3. ASSUME NEW b \in Ballot, Commit(b)
      PROVE  Goal
  BY <1>3 DEF Commit
<1>4. ASSUME NEW B \in SUBSET Ballot, Abort(B)
      PROVE  Goal
  BY <1>4 DEF Abort
<1>5. CASE UNCHANGED logVars
  BY <1>5 DEF logVars
<1> QED
  BY <1>1, <1>2, <1>3, <1>4, <1>5 DEF LogNext

LEMMA StampsStep ==
    ASSUME LogTypeOK, StampsInv, [LogNext]_logVars
    PROVE  StampsInv'
<1> USE BallotLogAssumption DEF LogTypeOK, StampsInv
<1>1. CASE LogTick
  BY <1>1 DEF LogTick
<1>2. ASSUME NEW b \in Ballot, Stamp(b)
      PROVE  StampsInv'
  BY <1>2 DEF Stamp
<1>3. ASSUME NEW b \in Ballot, Commit(b)
      PROVE  StampsInv'
  BY <1>3 DEF Commit
<1>4. ASSUME NEW B \in SUBSET Ballot, Abort(B)
      PROVE  StampsInv'
  BY <1>4 DEF Abort
<1>5. CASE UNCHANGED logVars
  BY <1>5 DEF logVars
<1> QED
  BY <1>1, <1>2, <1>3, <1>4, <1>5 DEF LogNext

LEMMA LogInitial == LogInit => LogTypeOK /\ StampsInv
BY BallotLogAssumption DEF LogInit, LogTypeOK, StampsInv

\* Every ballot in the table or on its way into it carries the time of a
\* moment that has been, whatever order the INSERTs end in.
THEOREM StampsArePast == LogSpec => [](LogTypeOK /\ StampsInv)
<1>1. LogTypeOK /\ StampsInv /\ [LogNext]_logVars => (LogTypeOK /\ StampsInv)'
  BY LogStep, StampsStep
<1> QED
  BY <1>1, LogInitial, PTL DEF LogSpec
=============================================================================
