------------------------------ MODULE MCVoting ------------------------------
(***************************************************************************)
(* Instances of Voting for TLC.  The attempts of a run are chosen so that  *)
(* one voter races with herself on two instances, in a poll another voter  *)
(* votes in too, and some carry a body that is refused by a poll of one of *)
(* the two types.                                                          *)
(***************************************************************************)
EXTENDS VotingInvariant

CONSTANTS v1, v2, p1, s1, s2

attempt(id, v, p, s, index, rankings) ==
    [id |-> id, voter |-> v, poll |-> p, server |-> s,
     choiceIndex |-> index, rankings |-> rankings]

\* The same voter twice, on two instances, and a second voter.
RaceAttempts ==
    {attempt(1, v1, p1, s1, 0, <<0, 1>>),
     attempt(2, v1, p1, s2, 1, <<1>>),
     attempt(3, v2, p1, s1, 1, <<0, 0>>)}

\* One voter's two requests on two instances, both well formed.
RetryAttempts ==
    {attempt(1, v1, p1, s1, 0, <<0, 1>>),
     attempt(2, v1, p1, s2, 1, <<1>>)}
=============================================================================
