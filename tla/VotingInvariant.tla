-------------------------- MODULE VotingInvariant --------------------------
(***************************************************************************)
(* The inductive invariant of Voting.  What a request learnt in an earlier *)
(* call is not read again before the INSERT, so the invariant says which   *)
(* part of it still holds when the ballot lands: that the voter registered *)
(* and the poll was opened, that the poll's type is the one the body was   *)
(* validated for, and when the row was stamped.                            *)
(***************************************************************************)
EXTENDS Voting

\* What a live request may rely on although it read it several calls ago.
InFlightInv ==
    \A r \in Attempt :
        /\ phase[r] \in Live => voters[r.voter] # "none"
        /\ phase[r] \in {"check", "insert", "reply"} =>
               polls[r.poll].status \in {"open", "closed"}
        /\ phase[r] = "insert" => /\ validBallot(r)
                                  /\ polls[r.poll].opensAt <= castAt[r]
                                  /\ castAt[r] <= now

\* A poll is opened only once its time has come.
OpenedInv ==
    \A p \in Poll : polls[p].status \in {"open", "closed"} => polls[p].opensAt <= now

\* Every row is the one some request inserted, and tells which request.
RowsInv ==
    \A b \in ballots :
        /\ phase[b.receiptToken] \in {"reply", "accepted", "failed", "lost"}
        /\ b.poll = b.receiptToken.poll
        /\ b.voterToken = deriveVoterToken(b.receiptToken.voter, b.receiptToken.poll)
        /\ [choiceIndex |-> b.choiceIndex, rankings |-> b.rankings] \in StorableChoice

\* An acknowledged vote is in the table.
RecordedInv ==
    \A r \in Attempt : phase[r] \in {"reply", "accepted"} =>
        \E b \in ballots : b.receiptToken = r

\* A receipt shown to a voter is that of a row of this voter and poll.
ShownInv ==
    \A v \in Voter, p \in Poll : \A t \in shown[<<v, p>>] :
        \E b \in ballots : /\ b.receiptToken = t
                           /\ b.poll = p
                           /\ b.voterToken = deriveVoterToken(v, p)

\* A request that found its poll closed on arrival never gets past LoadPoll.
LateInv ==
    \A r \in late : /\ polls[r.poll].status = "closed"
                    /\ phase[r] \in {"load", "notOpen", "failed", "lost", "ineligible"}

\* No ballot is stamped before its request is past HasVoted.
UnstampedInv ==
    \A r \in Attempt : phase[r] \in {"unused", "load", "check"} => castAt[r] = 0

\* The inductive invariant; TLC checks it before it is proved.
IInv ==
    /\ TypeOK
    /\ InFlightInv
    /\ OpenedInv
    /\ RowsInv
    /\ RecordedInv
    /\ ShownInv
    /\ LateInv
    /\ UnstampedInv
    /\ OneBallotPerVoter
    /\ AlreadyVotedIsTrue
    /\ BallotsAreTimely
    /\ VotersWereRegistered
    /\ ClosedAtArrivalIsRefused
=============================================================================
