---------------------------- MODULE MerkleProof ----------------------------
(***************************************************************************)
(* GET /polls/{id}/verify, and GET /polls/{id}/merkle-proof: the two reads *)
(* of GetMerkleProof, then the loop of buildMerkleProof, one action per    *)
(* level of the tree.  Ballots keep arriving, in this poll and in another, *)
(* whose ballots bear receipts just the same.  Commitments are numbers in  *)
(* the order of their strings, and SHA-256 is taken as collision free: a   *)
(* hash is the tuple of what it was computed from.                         *)
(***************************************************************************)
EXTENDS Integers, Sequences, FiniteSets

CONSTANTS
    Commitment,     \* a set of numbers
    MaxElsewhere,   \* bound on the ballots of another poll
    MaxVerified     \* bound on the receipts found by /verify

ASSUME MerkleAssumption ==
    /\ Commitment \subseteq Int /\ IsFiniteSet(Commitment)
    /\ MaxElsewhere \in Nat /\ MaxVerified \in Nat

VARIABLES
    table,      \* the commitments of the poll's ballots
    elsewhere,  \* those of another poll's ballots
    verified,   \* those whose receipts this poll's /verify has found
    target,     \* the commitment of the receipt's ballot
    leafSet,    \* the commitments that were read
    current,    \* the level of the tree the loop is at
    idx,        \* the place of the target's ancestor in it
    path,       \* the proof so far
    proof       \* "none", "found", "build", "done"; "absent": 404

merkleVars == <<table, elsewhere, verified, target, leafSet, current, idx, path, proof>>

MerkleInit ==
    /\ table = {}
    /\ elsewhere = {}
    /\ verified = {}
    /\ target = 0
    /\ leafSet = {}
    /\ current = <<>>
    /\ idx = 0
    /\ path = <<>>
    /\ proof = "none"

hashLeaf(c) == <<c>>
hashPair(l, r) == <<l, r>>

InsertBallot(c) ==
    /\ c \notin table \union elsewhere
    /\ proof \in {"none", "found"}
    /\ \/ /\ table' = table \union {c}
          /\ UNCHANGED elsewhere
       \/ /\ Cardinality(elsewhere) < MaxElsewhere
          /\ elsewhere' = elsewhere \union {c}
          /\ UNCHANGED table
    /\ UNCHANGED <<verified, target, leafSet, current, idx, path, proof>>

\* Receipts are looked up among those of all polls: here without a look at
\* the poll of the ballot found.
VerifyReceiptSlip(c) ==
    /\ proof = "none"
    /\ Cardinality(verified) < MaxVerified
    /\ c \in table \union elsewhere
    /\ verified' = verified \union {c}
    /\ UNCHANGED <<table, elsewhere, target, leafSet, current, idx, path, proof>>

\* A receipt that is not found changes nothing.
VerifyReceipt(c) ==
    /\ proof = "none"
    /\ Cardinality(verified) < MaxVerified
    /\ c \in table
    /\ verified' = verified \union {c}
    /\ UNCHANGED <<table, elsewhere, target, leafSet, current, idx, path, proof>>

\* A ballot of another poll is "not found in this poll" too.
GetBallotByReceiptToken(c) ==
    /\ proof = "none"
    /\ target' = c
    /\ proof' = IF c \in table THEN "found" ELSE "absent"
    /\ UNCHANGED <<table, elsewhere, verified, leafSet, current, idx, path>>

\* The leaves, in the order of the commitments.
leavesOf(S) ==
    LET rank(c) == Cardinality({d \in S : d < c})
    IN  [i \in 1 .. Cardinality(S) |-> hashLeaf(CHOOSE c \in S : rank(c) = i - 1)]

\* The slip leaves the loop as soon as it has met the target.
leavesReadSlip == leavesOf({c \in table : c <= target})
leavesRead == leavesOf(table)

GetBallotsByPoll ==
    /\ proof = "found"
    /\ leafSet' = table
    /\ current' = leavesRead
    /\ idx' = Cardinality({c \in table : c < target})
    /\ proof' = "build"
    /\ UNCHANGED <<table, elsewhere, verified, target, path>>

\* A level with an odd number of nodes repeats its last one.
evened(level) ==
    IF Len(level) % 2 = 0 THEN level ELSE Append(level, level[Len(level)])

\* idx ^ 1.
siblingIdx == IF idx % 2 = 0 THEN idx + 1 ELSE idx - 1

\* Directions the wrong way round.
directionSlip == IF siblingIdx > idx THEN "left" ELSE "right"
direction == IF siblingIdx < idx THEN "left" ELSE "right"

Level ==
    /\ proof = "build"
    /\ Len(current) > 1
    /\ LET level == evened(current)
       IN  /\ current' = [i \in 1 .. Len(level) \div 2 |->
                             hashPair(level[2 * i - 1], level[2 * i])]
           /\ path' = Append(path, [hash |-> level[siblingIdx + 1], direction |-> direction])
    /\ idx' = idx \div 2
    /\ UNCHANGED <<table, elsewhere, verified, target, leafSet, proof>>

Answer ==
    /\ proof = "build"
    /\ Len(current) = 1
    /\ proof' = "done"
    /\ UNCHANGED <<table, elsewhere, verified, target, leafSet, current, idx, path>>

MerkleNext ==
    \/ \E c \in Commitment :
        InsertBallot(c) \/ VerifyReceipt(c) \/ GetBallotByReceiptToken(c)
    \/ GetBallotsByPoll
    \/ Level
    \/ Answer

MerkleSpec == MerkleInit /\ [][MerkleNext]_merkleVars

-----------------------------------------------------------------------------
(* Properties.                                                             *)

\* The two public checks of a receipt agree, however many ballots arrive
\* between them: what /verify has found is never "receipt not found in this
\* poll" when its Merkle proof is asked for, and is a leaf of the tree.
VerifiedReceiptsHaveProofs ==
    target \in verified =>
        /\ proof # "absent"
        /\ proof \in {"build", "done"} => target \in leafSet

\* The tree by its nodes: node i of level k, counted from 0, has the nodes 2i
\* and 2i + 1 of the level below under it, or 2i twice where that is the last.
lastPlaces(n) ==
    LET last[k \in 0 .. n] == IF k = 0 THEN n - 1 ELSE last[k - 1] \div 2
    IN  last

rightOf(i, last) == IF 2 * i < last THEN 2 * i + 1 ELSE 2 * i

nodes(leaves) ==
    LET last == lastPlaces(Len(leaves))
        node[k \in 0 .. Len(leaves)] ==
            [i \in Nat |-> IF k = 0 THEN leaves[i + 1]
                           ELSE hashPair(node[k - 1][2 * i],
                                         node[k - 1][rightOf(i, last[k - 1])])]
    IN  node

merkleRoot(S) ==
    LET leaves == leavesOf(S)
        last == lastPlaces(Len(leaves))
        height == CHOOSE k \in 0 .. Len(leaves) :
                      last[k] = 0 /\ \A j \in 0 .. k - 1 : last[j] # 0
    IN  nodes(leaves)[height][0]

\* What a verifier computes from a leaf and a path.
climb(leaf, p) ==
    LET hash[k \in 0 .. Len(p)] ==
            IF k = 0 THEN leaf
            ELSE IF p[k].direction = "left" THEN hashPair(p[k].hash, hash[k - 1])
            ELSE hashPair(hash[k - 1], p[k].hash)
    IN  hash[Len(p)]

\* The place of a leaf that a path from it to the node i spells: each "left"
\* is a binary digit 1, the first of them the last digit.
spelled(p, i) ==
    LET place[k \in 0 .. Len(p)] ==
            IF k = 0 THEN i
            ELSE 2 * place[k - 1] + (IF p[Len(p) - k + 1].direction = "left" THEN 1 ELSE 0)
    IN  place[Len(p)]

\* The proof leads a verifier from the voter's commitment to the root of the
\* ballots that were read, odd levels included, and its directions spell the
\* place of the leaf.
ProofVerifies ==
    proof = "done" =>
        /\ climb(hashLeaf(target), path) = current[1]
        /\ current[1] = merkleRoot(leafSet)
        /\ spelled(path, 0) = Cardinality({c \in leafSet : c < target})

\* No other set of ballots has the root of the proof, whatever the repeated
\* nodes: the root commits to all of them and to how many there are.
RootBindsTheBallots ==
    proof = "done" =>
        \A S \in SUBSET Commitment : S # {} /\ merkleRoot(S) = current[1] => S = leafSet
=============================================================================
