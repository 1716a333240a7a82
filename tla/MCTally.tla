------------------------------ MODULE MCTally ------------------------------
(***************************************************************************)
(* Instances of Tally for TLC: three ballots for two options and three     *)
(* requests, so that two of them compute at once and a third reads what    *)
(* they stored.                                                            *)
(***************************************************************************)
EXTENDS Tally

CONSTANTS b1, b2, b3, q1, q2, q3

MCChoice == [b \in Ballot |-> IF b = b1 THEN 0 ELSE 1]
=============================================================================
