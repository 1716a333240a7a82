------------------------- MODULE RankedBallotForm --------------------------
(***************************************************************************)
(* The form of a ranked ballot: one selector per option, in which a voter  *)
(* gives the option a rank (0 is the first choice), and the list of        *)
(* numbers the form sends as the body of POST /polls/{id}/vote.            *)
(***************************************************************************)
EXTENDS Rankings, SequencesExt

VARIABLES
    rankings,   \* the form's state: the rank of each option, Unranked without
    form,       \* "editing", "submitting", or "receipt" once the vote is in
    body        \* the rankings of the request sent last

formVars == <<rankings, form, body>>

Unranked == -1

FormInit ==
    /\ rankings = [o \in Option |-> Unranked]
    /\ form = "editing"
    /\ body = <<>>

\* Any other option that held the rank loses it.
clearRankSlip(o, rank) == rankings
clearRank(o, rank) ==
    [p \in Option |-> IF p # o /\ rankings[p] = rank THEN Unranked ELSE rankings[p]]

\* The selectors stay live while a ballot is being submitted.
handleRankChange(o, rank) ==
    /\ form # "receipt"
    /\ rankings' = [IF rank = Unranked THEN rankings ELSE clearRank(o, rank)
                       EXCEPT ![o] = rank]
    /\ UNCHANGED <<form, body>>

\* The list without its nulls.
buildRankings ==
    LET kept[k \in 0 .. NumOptions] ==
            IF k = 0 THEN <<>>
            ELSE IF rankings[k - 1] = Unranked THEN kept[k - 1]
            ELSE Append(kept[k - 1], rankings[k - 1])
    IN  kept[NumOptions]

handleSubmit ==
    /\ form = "editing"
    /\ buildRankings # <<>>
    /\ form' = "submitting"
    /\ body' = buildRankings
    /\ UNCHANGED rankings

\* A receipt, or an error that leaves the form as it is.
onVote ==
    /\ form = "submitting"
    /\ form' \in {"receipt", "editing"}
    /\ UNCHANGED <<rankings, body>>

FormNext ==
    \/ \E o \in Option, rank \in Option \union {Unranked} : handleRankChange(o, rank)
    \/ handleSubmit
    \/ onVote

FormSpec == FormInit /\ [][FormNext]_formVars

-----------------------------------------------------------------------------
(* Properties.                                                             *)

\* The options the voter ranked, from the one marked #1 down.
preferences ==
    SetToSortSeq({o \in Option : rankings[o] # Unranked},
                 LAMBDA o, p : rankings[o] < rankings[p])

\* However the voter moves ranks about, also while a request is under way, the
\* server's validateRankings has nothing to refuse in a body the form sends.
BodyIsAccepted ==
    form = "submitting" => body \in Ranking

\* Stated by the form ("rankings[i] = index of the (i+1)th preference choice")
\* and by ComputeIRV ("choice indices in preference order"), and refuted: the
\* form sends the rank of each option, option by option.
FormSendsThePreferences ==
    [][body' # body => body' = preferences]_formVars
=============================================================================
