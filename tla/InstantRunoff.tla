--------------------------- MODULE InstantRunoff ---------------------------
(***************************************************************************)
(* ComputeIRV, one action per round, over the ranked ballots of a poll in  *)
(* any number and of any content that validateRankings lets through.       *)
(***************************************************************************)
EXTENDS Rankings, FiniteSets

CONSTANT MaxBallots     \* bound on the ballots of a count

ASSUME RunoffAssumption == MaxBallots \in Nat

VARIABLES
    rows,       \* the ballots: pairs of a ranking and its copy's number
    active,     \* the candidates not yet eliminated
    rounds,     \* the rounds so far
    winner,     \* the winner, NoWinner without
    irv         \* "collect" while ballots come in, "loop", then "done"

irvVars == <<rows, active, rounds, winner, irv>>

NoWinner == -1

IRVInit ==
    /\ rows = {}
    /\ active = Option
    /\ rounds = <<>>
    /\ winner = NoWinner
    /\ irv = "collect"

\* One more ballot with this ranking.
AddBallot(r) ==
    /\ irv = "collect"
    /\ Cardinality(rows) < MaxBallots
    /\ rows' = rows \union {<<r, 1 + Cardinality({b \in rows : b[1] = r})>>}
    /\ UNCHANGED <<active, rounds, winner, irv>>

CallComputeIRV ==
    /\ irv = "collect"
    /\ irv' = "loop"
    /\ UNCHANGED <<rows, active, rounds, winner>>

-----------------------------------------------------------------------------
\* The ballots that count for c: those that rank c and no other active
\* candidate before it.  The slip looks at the first preference only.
supportersSlip(c) == {b \in rows : b[1][1] = c /\ c \in active}
supporters(c) ==
    {b \in rows : \E i \in DOMAIN b[1] :
        /\ b[1][i] = c
        /\ \A j \in 1 .. i - 1 : b[1][j] \notin active}

counts == [c \in active |-> Cardinality(supporters(c))]
activeVotes == Cardinality(UNION {supporters(c) : c \in active})

hasMajoritySlip(c) == counts[c] * 2 >= activeVotes
hasMajority(c) == counts[c] * 2 > activeVotes

\* Every candidate with the fewest votes.  The slip wants a single one.
lowestSlip == {c \in active : \A d \in active \ {c} : counts[c] < counts[d]}
lowest == {c \in active : \A d \in active : counts[c] <= counts[d]}

round(eliminated) ==
    [counts |-> counts, eliminated |-> eliminated, totalActive |-> activeVotes]

\* A candidate with more than half of the active votes wins.
MajorityRound ==
    /\ irv = "loop"
    /\ Cardinality(active) > 1
    /\ \E c \in active :
        /\ hasMajority(c)
        /\ winner' = c
    /\ rounds' = Append(rounds, round({}))
    /\ irv' = "done"
    /\ UNCHANGED <<rows, active>>

\* Otherwise the candidates with the fewest votes go, all at once.
EliminationRound ==
    /\ irv = "loop"
    /\ Cardinality(active) > 1
    /\ \A c \in active : ~hasMajority(c)
    /\ active' = active \ lowest
    /\ rounds' = Append(rounds, round(lowest))
    /\ UNCHANGED <<rows, winner, irv>>

\* The one who is left wins; nobody does if all were eliminated together.
LastOne ==
    /\ irv = "loop"
    /\ Cardinality(active) <= 1
    /\ winner' \in IF active = {} THEN {NoWinner} ELSE active
    /\ irv' = "done"
    /\ UNCHANGED <<rows, active, rounds>>

IRVNext ==
    \/ \E r \in Ranking : AddBallot(r)
    \/ CallComputeIRV
    \/ MajorityRound
    \/ EliminationRound
    \/ LastOne

IRVSpec == IRVInit /\ [][IRVNext]_irvVars

-----------------------------------------------------------------------------
(* Properties.                                                             *)

\* Every variable has its shape, and there are no more rounds than options.
IRVTypeOK ==
    /\ rows \subseteq Ranking \X (1 .. MaxBallots)
    /\ active \subseteq Option
    /\ irv \in {"collect", "loop", "done"}
    /\ winner \in Option \union {NoWinner}
    /\ Len(rounds) <= NumOptions
    /\ \A i \in DOMAIN rounds :
        /\ rounds[i].totalActive \in 0 .. MaxBallots
        /\ rounds[i].eliminated \subseteq DOMAIN rounds[i].counts

\* A count ends without a winner exactly when all the candidates that were left
\* in its last round had the same number of votes.
NoWinnerMeansExactTie ==
    irv = "done" /\ rounds # <<>> =>
        LET last == rounds[Len(rounds)].counts
        IN  winner = NoWinner <=>
                Cardinality(DOMAIN last) > 1 /\ \A c, d \in DOMAIN last : last[c] = last[d]

\* Textbook instant runoff, without the rule of the majority: the single last
\* of those who are left goes until one is left.  NoWinner stands for a count
\* in which the last ever was not single.
tallyAmong(S, c) ==
    Cardinality({b \in rows : \E i \in DOMAIN b[1] :
        b[1][i] = c /\ \A j \in 1 .. i - 1 : b[1][j] \notin S})

lastOf(S) == {c \in S : \A d \in S : tallyAmong(S, c) <= tallyAmong(S, d)}

textbook[S \in SUBSET Option] ==
    IF Cardinality(S) = 1 THEN CHOOSE c \in S : TRUE
    ELSE IF Cardinality(lastOf(S)) = 1 THEN textbook[S \ lastOf(S)]
    ELSE NoWinner

\* Stopping at the first majority changes nothing: whenever the textbook count
\* never meets a tie for the last place, both name the same winner.
AgreesWithTextbook ==
    irv = "done" /\ textbook[Option] # NoWinner => winner = textbook[Option]
=============================================================================
