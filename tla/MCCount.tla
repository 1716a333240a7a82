------------------------------ MODULE MCCount ------------------------------
(***************************************************************************)
(* Instances of the ranked form, the instant-runoff count and the Merkle   *)
(* proof for TLC.  The three share nothing, so a behaviour moves one of    *)
(* them and leaves the other two where they start.                         *)
(***************************************************************************)
EXTENDS RankedBallotForm, InstantRunoff, MerkleProof

MCInit == FormInit /\ IRVInit /\ MerkleInit

formStill == FormInit /\ UNCHANGED formVars
irvStill == IRVInit /\ UNCHANGED irvVars
merkleStill == MerkleInit /\ UNCHANGED merkleVars

MCNext ==
    \/ FormNext /\ irvStill /\ merkleStill
    \/ IRVNext /\ formStill /\ merkleStill
    \/ MerkleNext /\ formStill /\ irvStill

MCSpec == MCInit /\ [][MCNext]_<<formVars, irvVars, merkleVars>>
=============================================================================
