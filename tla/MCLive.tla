------------------------------ MODULE MCLive -------------------------------
(***************************************************************************)
(* Instance of LiveResults for TLC: two ballots, one chart and two streams,*)
(* so that the stream of a lost connection is still listed while the chart *)
(* has the next one, and channels of one event, so that the second finds   *)
(* its channel full.  The ballots are for two options, so that a count may *)
(* fail with one of them read.                                             *)
(***************************************************************************)
EXTENDS LiveResults

CONSTANTS b1, b2, p1, s1, s2

MCChoice == [b \in Ballot |-> IF b = b1 THEN 0 ELSE 1]
=============================================================================
