----------------------------- MODULE Rankings ------------------------------
(***************************************************************************)
(* The options of a poll, and the rankings CastBallot lets through.        *)
(***************************************************************************)
EXTENDS Integers, Sequences

CONSTANT NumOptions     \* the number of options of the poll

ASSUME OptionsAssumption == NumOptions \in Nat \ {0, 1}

Option == 0 .. NumOptions - 1

\* validateRankings: not empty, every index in range, none twice.
Ranking ==
    {r \in UNION {[1 .. n -> Option] : n \in 1 .. NumOptions} :
        \A i, j \in DOMAIN r : r[i] = r[j] => i = j}
=============================================================================
