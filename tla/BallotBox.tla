----------------------------- MODULE BallotBox -----------------------------
(***************************************************************************)
(* What the portal promises a voter, with the database, the requests and  *)
(* the scheduler left out: a box that takes at most one vote per voter and *)
(* poll, keeps every vote it took as it was, and hands out receipts only   *)
(* for votes that are in it.                                               *)
(***************************************************************************)
CONSTANTS
    Voter,      \* people with a RealMe identity
    Poll,       \* poll identifiers
    Receipt,    \* receipt tokens
    Choice      \* what a ballot can say

VARIABLES
    box,        \* the votes taken
    receipts    \* the receipt tokens voters have been given

boxVars == <<box, receipts>>

Vote == [voter: Voter, poll: Poll, receipt: Receipt, choice: Choice]

BoxInit ==
    /\ box = {}
    /\ receipts = {}

\* A vote is taken if this voter has none in this poll; its receipt is new.
Record(vote) ==
    /\ \A w \in box : /\ w.receipt # vote.receipt
                      /\ ~(w.voter = vote.voter /\ w.poll = vote.poll)
    /\ box' = box \union {vote}
    /\ UNCHANGED receipts

\* A voter is given, or given again, the receipt of a vote that was taken.
Acknowledge(vote) ==
    /\ vote \in box
    /\ receipts' = receipts \union {vote.receipt}
    /\ UNCHANGED box

BoxNext == \E vote \in Vote : Record(vote) \/ Acknowledge(vote)

BoxSpec == BoxInit /\ [][BoxNext]_boxVars
============================================================================
