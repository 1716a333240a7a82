---------------------------- MODULE MerkleProofs ----------------------------
(***************************************************************************)
(* Theorems about MerkleProof, for any finite set of commitments and so    *)
(* for trees of any height.  Induction is over the numbers in a set that   *)
(* holds 0 and the successor of each of its members (Inductive), once per  *)
(* recursive function: for its existence, and for what it computes.        *)
(***************************************************************************)
EXTENDS MerkleProof, FiniteSetTheorems, FunctionTheorems, SequenceTheorems,
        WellFoundedInduction, TLAPS

-----------------------------------------------------------------------------
(* Numbers.                                                                *)

\* A set of numbers has a least one.
LEMMA LeastOf ==
    ASSUME NEW S \in SUBSET Nat, S # {}
    PROVE  \E m \in S : \A n \in S : m <= n
<1> DEFINE less == {ss \in Nat \X Nat : ss[1] < ss[2]}
<1>1. IsWellFoundedOn(less, Nat)
  BY NatLessThanWellFounded, Zenon DEF OpToRel
<1> HIDE DEF less
<1>2. \E m \in S : \A n \in S : <<n, m>> \notin less
  BY <1>1, WFMin, Zenon
<1>3. \A n, m \in S : <<n, m>> \notin less => m <= n
  BY DEF less
<1> QED
  BY <1>2, <1>3

\* Induction, as a statement about sets.
LEMMA Inductive ==
    ASSUME NEW S \in SUBSET Nat, 0 \in S, \A n \in S : n + 1 \in S
    PROVE  S = Nat
<1> SUFFICES ASSUME Nat \ S # {} PROVE FALSE
  OBVIOUS
<1>1. PICK m \in Nat \ S : \A n \in Nat \ S : m <= n
  BY LeastOf
<1>2. m - 1 \in S
  BY <1>1
<1> QED
  BY <1>1, <1>2

-----------------------------------------------------------------------------
(* The leaves.                                                             *)

rankIn(S, c) == Cardinality({d \in S : d < c})

LEMMA Ranks ==
    ASSUME NEW S \in SUBSET Int, IsFiniteSet(S)
    PROVE  /\ Cardinality(S) \in Nat
           /\ \A c \in S : rankIn(S, c) \in 0 .. Cardinality(S) - 1
           /\ \A c, d \in S : c < d => rankIn(S, c) < rankIn(S, d)
<1> DEFINE below(c) == {e \in S : e < c}
<1>1. Cardinality(S) \in Nat
  BY FS_CardinalityType
<1>2. ASSUME NEW T \in SUBSET S, NEW U \in SUBSET T, U # T
      PROVE  /\ Cardinality(T) \in Nat /\ Cardinality(U) \in Nat
             /\ Cardinality(U) < Cardinality(T)
  <2>1. IsFiniteSet(T) /\ IsFiniteSet(U)
    BY FS_Subset
  <2>2. Cardinality(T) \in Nat /\ Cardinality(U) \in Nat
    BY <2>1, FS_CardinalityType
  <2>3. Cardinality(U) <= Cardinality(T) /\ (Cardinality(T) = Cardinality(U) => T = U)
    BY <2>1, FS_Subset
  <2> QED
    BY <1>2, <2>2, <2>3
<1>3. ASSUME NEW c \in S
      PROVE  rankIn(S, c) \in 0 .. Cardinality(S) - 1
  <2>1. below(c) \in SUBSET S /\ below(c) # S
    BY <1>3
  <2>2. Cardinality(below(c)) \in Nat /\ Cardinality(below(c)) < Cardinality(S)
    BY <1>2, <2>1
  <2> QED
    BY <1>1, <2>2 DEF rankIn
<1>4. ASSUME NEW c \in S, NEW d \in S, c < d
      PROVE  rankIn(S, c) < rankIn(S, d)
  <2>1. c \in below(d) /\ c \notin below(c) /\ below(d) \in SUBSET S
    BY <1>4
  <2>2. below(c) \in SUBSET below(d)
    <3> SUFFICES ASSUME NEW e \in S, e < c PROVE e < d
      OBVIOUS
    <3> QED
      BY <1>4
  <2> QED
    BY <1>2, <2>1, <2>2 DEF rankIn
<1> QED
  BY <1>1, <1>3, <1>4

\* Every rank below the number of members is that of exactly one of them.
LEMMA EveryRank ==
    ASSUME NEW S \in SUBSET Int, IsFiniteSet(S)
    PROVE  /\ \A c, d \in S : rankIn(S, c) = rankIn(S, d) => c = d
           /\ \A i \in 0 .. Cardinality(S) - 1 : \E c \in S : rankIn(S, c) = i
<1> DEFINE n == Cardinality(S)
           r == [c \in S |-> rankIn(S, c)]
<1>1. n \in Nat /\ \A c \in S : rankIn(S, c) \in 0 .. n - 1
  BY Ranks
<1>2. \A c, d \in S : rankIn(S, c) = rankIn(S, d) => c = d
  <2> SUFFICES ASSUME NEW c \in S, NEW d \in S, rankIn(S, c) = rankIn(S, d), c # d
               PROVE  FALSE
    OBVIOUS
  <2>1. c < d \/ d < c
    OBVIOUS
  <2>2. rankIn(S, c) \in Int /\ rankIn(S, d) \in Int
    BY <1>1
  <2> QED
    BY <2>1, <2>2, Ranks
<1>3. IsFiniteSet(0 .. n - 1) /\ Cardinality(0 .. n - 1) = n
  <2>1. n - 1 \in Int /\ 0 \in Int
    BY <1>1
  <2>2. IsFiniteSet(0 .. n - 1) /\ Cardinality(0 .. n - 1) = IF 0 > n - 1 THEN 0 ELSE n - 1 - 0 + 1
    BY <2>1, FS_Interval, Zenon
  <2> HIDE DEF n
  <2> QED
    BY <1>1, <2>2
<1>4. r \in Injection(S, 0 .. n - 1)
  BY <1>1, <1>2 DEF Injection, IsInjective
<1>5. r \in Surjection(S, 0 .. n - 1)
  BY <1>3, <1>4, FS_Injection
<1> QED
  BY <1>2, <1>5 DEF Surjection

LEMMA Leaves ==
    ASSUME NEW S \in SUBSET Int, IsFiniteSet(S)
    PROVE  /\ Cardinality(S) \in Nat
           /\ leavesOf(S) \in Seq({<<c>> : c \in S})
           /\ Len(leavesOf(S)) = Cardinality(S)
           /\ \A c \in S : /\ rankIn(S, c) \in 0 .. Cardinality(S) - 1
                           /\ leavesOf(S)[rankIn(S, c) + 1] = <<c>>
           /\ \A i \in 1 .. Cardinality(S) : \E c \in S :
                  rankIn(S, c) = i - 1 /\ leavesOf(S)[i] = <<c>>
<1> DEFINE n == Cardinality(S)
           at(i) == CHOOSE c \in S : rankIn(S, c) = i - 1
<1>1. n \in Nat /\ \A c \in S : rankIn(S, c) \in 0 .. n - 1
  BY Ranks
<1>2. leavesOf(S) = [i \in 1 .. n |-> <<at(i)>>]
  BY DEF leavesOf, hashLeaf, rankIn
<1>3. ASSUME NEW i \in 1 .. n
      PROVE  at(i) \in S /\ rankIn(S, at(i)) = i - 1
  <2>1. \E c \in S : rankIn(S, c) = i - 1
    BY <1>1, EveryRank
  <2> QED
    BY <2>1
<1> HIDE DEF at
<1>4. ASSUME NEW c \in S
      PROVE  leavesOf(S)[rankIn(S, c) + 1] = <<c>>
  <2>1. rankIn(S, c) + 1 \in 1 .. n
    BY <1>1
  <2>2. at(rankIn(S, c) + 1) = c
    <3>1. PICK i \in 1 .. n : i = rankIn(S, c) + 1
      BY <2>1
    <3>2. at(i) \in S /\ rankIn(S, at(i)) = rankIn(S, c)
      BY <1>1, <1>3, <3>1
    <3> QED
      BY <3>1, <3>2, EveryRank
  <2> QED
    BY <1>2, <2>1, <2>2
<1>5. leavesOf(S) \in Seq({<<c>> : c \in S}) /\ Len(leavesOf(S)) = n
  BY <1>1, <1>2, <1>3
<1> QED
  BY <1>1, <1>2, <1>3, <1>4, <1>5

-----------------------------------------------------------------------------
(* The last place of each level.                                           *)

\* A function that is right up to level m.
lastUpTo(n, m, f) == f = [k \in 0 .. m |-> IF k = 0 THEN n - 1 ELSE f[k - 1] \div 2]

LEMMA LastUpTo == ASSUME NEW n PROVE \A m \in Nat : \E f : lastUpTo(n, m, f)
<1> DEFINE good == {m \in Nat : \E f : lastUpTo(n, m, f)}
<1>1. 0 \in good
  <2>1. lastUpTo(n, 0, [k \in 0 .. 0 |-> n - 1])
    BY DEF lastUpTo
  <2> QED
    BY <2>1
<1>2. ASSUME NEW m \in good
      PROVE  m + 1 \in good
  <2>1. PICK f : lastUpTo(n, m, f)
    OBVIOUS
  <2> DEFINE g == [k \in 0 .. m + 1 |-> IF k = m + 1 THEN f[m] \div 2 ELSE f[k]]
  <2>2. ASSUME NEW k \in 0 .. m + 1
        PROVE  g[k] = IF k = 0 THEN n - 1 ELSE g[k - 1] \div 2
    <3>1. CASE k = m + 1
      BY <3>1
    <3>2. CASE k \in 0 .. m
      BY <2>1, <3>2 DEF lastUpTo
    <3> QED
      BY <3>1, <3>2
  <2>3. lastUpTo(n, m + 1, g)
    BY <2>2 DEF lastUpTo
  <2> QED
    BY <2>3
<1> HIDE DEF good
<1>3. good = Nat
  <2>1. good \in SUBSET Nat
    BY DEF good
  <2> QED
    BY <1>1, <1>2, <2>1, Inductive
<1> QED
  BY <1>3 DEF good

LEMMA LastPlaces ==
    ASSUME NEW n \in Nat \ {0}
    PROVE  /\ lastPlaces(n)[0] = n - 1
           /\ \A k \in 0 .. n : lastPlaces(n)[k] \in 0 .. n - 1
           /\ \A k \in 1 .. n : /\ lastPlaces(n)[k] = lastPlaces(n)[k - 1] \div 2
                                /\ \/ lastPlaces(n)[k - 1] = 2 * lastPlaces(n)[k]
                                   \/ lastPlaces(n)[k - 1] = 2 * lastPlaces(n)[k] + 1
<1>1. lastPlaces(n) = CHOOSE f : lastUpTo(n, n, f)
  BY DEF lastPlaces, lastUpTo
<1>2. \E f : lastUpTo(n, n, f)
  BY LastUpTo
<1>3. lastUpTo(n, n, lastPlaces(n))
  BY <1>1, <1>2
<1> DEFINE last == lastPlaces(n)
<1>4. last[0] = n - 1 /\ \A k \in 1 .. n : last[k] = last[k - 1] \div 2
  BY <1>3 DEF lastUpTo
<1> HIDE DEF last
<1> DEFINE good == {k \in Nat : k <= n => last[k] \in 0 .. n - 1}
<1>5. 0 \in good
  BY <1>4
<1>6. ASSUME NEW k \in good PROVE k + 1 \in good
  <2> SUFFICES ASSUME k + 1 <= n PROVE last[k + 1] \in 0 .. n - 1
    OBVIOUS
  <2>1. last[k + 1] = last[k] \div 2 /\ last[k] \in 0 .. n - 1
    BY <1>4
  <2> QED
    BY <2>1
<1>7. good = Nat
  <2>1. good \in SUBSET Nat
    OBVIOUS
  <2> HIDE DEF good
  <2> QED
    BY <1>5, <1>6, <2>1, Inductive
<1>8. \A k \in 0 .. n : last[k] \in 0 .. n - 1
  BY <1>7
<1>9. ASSUME NEW k \in 1 .. n
      PROVE  last[k - 1] = 2 * last[k] \/ last[k - 1] = 2 * last[k] + 1
  <2>1. last[k] = last[k - 1] \div 2 /\ last[k - 1] \in Nat
    BY <1>4, <1>8
  <2> QED
    BY <2>1
<1> QED
  BY <1>4, <1>8, <1>9 DEF last

\* The height of the tree of n leaves: the first level with a single node.
isHeight(n, k) ==
    /\ k \in 0 .. n
    /\ lastPlaces(n)[k] = 0
    /\ \A j \in 0 .. k - 1 : lastPlaces(n)[j] # 0

LEMMA Height == ASSUME NEW n \in Nat \ {0} PROVE \E k : isHeight(n, k)
<1> DEFINE last == lastPlaces(n)
<1>1. /\ last[0] = n - 1 /\ \A k \in 0 .. n : last[k] \in 0 .. n - 1
      /\ \A k \in 1 .. n : last[k - 1] = 2 * last[k] \/ last[k - 1] = 2 * last[k] + 1
  BY LastPlaces
<1> HIDE DEF last
<1> DEFINE good == {k \in Nat : k <= n => last[k] = 0 \/ last[k] + k <= n - 1}
<1>2. 0 \in good
  BY <1>1
<1>3. ASSUME NEW k \in good PROVE k + 1 \in good
  <2> SUFFICES ASSUME k + 1 <= n PROVE last[k + 1] = 0 \/ last[k + 1] + (k + 1) <= n - 1
    OBVIOUS
  <2>1. last[k] \in Nat /\ last[k + 1] \in Nat /\ (last[k] = 0 \/ last[k] + k <= n - 1)
    BY <1>1
  <2>2. last[k] = 2 * last[k + 1] \/ last[k] = 2 * last[k + 1] + 1
    BY <1>1
  <2> QED
    BY <2>1, <2>2
<1>4. good = Nat
  <2>1. good \in SUBSET Nat
    OBVIOUS
  <2> HIDE DEF good
  <2> QED
    BY <1>2, <1>3, <2>1, Inductive
<1>5. last[n] = 0
  <2>1. last[n] \in Nat /\ (last[n] = 0 \/ last[n] + n <= n - 1)
    BY <1>1, <1>4
  <2> QED
    BY <2>1
<1> DEFINE ends == {k \in 0 .. n : last[k] = 0}
<1>6. ends \in SUBSET Nat /\ ends # {}
  BY <1>5
<1>7. PICK h \in ends : \A k \in ends : h <= k
  BY <1>6, LeastOf
<1>8. isHeight(n, h)
  BY <1>7 DEF isHeight, last
<1> QED
  BY <1>8

LEMMA OneHeight ==
    ASSUME NEW n \in Nat \ {0}, NEW k, NEW j, isHeight(n, k), isHeight(n, j)
    PROVE  k = j
BY DEF isHeight

-----------------------------------------------------------------------------
(* The nodes of the tree.                                                  *)

nodeRow(leaves, k, f) ==
    [i \in Nat |-> IF k = 0 THEN leaves[i + 1]
                   ELSE <<f[k - 1][2 * i],
                          f[k - 1][rightOf(i, lastPlaces(Len(leaves))[k - 1])]>>]

nodesUpTo(leaves, m, f) == f = [k \in 0 .. m |-> nodeRow(leaves, k, f)]

LEMMA NodesUpTo == ASSUME NEW leaves PROVE \A m \in Nat : \E f : nodesUpTo(leaves, m, f)
<1> DEFINE good == {m \in Nat : \E f : nodesUpTo(leaves, m, f)}
<1>1. 0 \in good
  <2> DEFINE f == [k \in 0 .. 0 |-> nodeRow(leaves, 0, <<>>)]
  <2>1. nodeRow(leaves, 0, <<>>) = nodeRow(leaves, 0, f)
    BY DEF nodeRow
  <2>2. f = [k \in 0 .. 0 |-> nodeRow(leaves, k, f)]
    <3> HIDE DEF nodeRow
    <3>1. \A k \in 0 .. 0 : f[k] = nodeRow(leaves, k, f)
      BY <2>1
    <3>2. f = [k \in 0 .. 0 |-> f[k]]
      OBVIOUS
    <3> HIDE DEF f
    <3> QED
      BY <3>1, <3>2
  <2>3. nodesUpTo(leaves, 0, f)
    BY <2>2 DEF nodesUpTo
  <2> QED
    BY <2>3
<1>2. ASSUME NEW m \in good
      PROVE  m + 1 \in good
  <2>1. PICK f : nodesUpTo(leaves, m, f)
    OBVIOUS
  <2> DEFINE g == [k \in 0 .. m + 1 |-> IF k = m + 1 THEN nodeRow(leaves, m + 1, f) ELSE f[k]]
  <2>2. ASSUME NEW k \in 0 .. m + 1
        PROVE  g[k] = nodeRow(leaves, k, g)
    <3>1. k # 0 => g[k - 1] = f[k - 1]
      OBVIOUS
    <3>2. nodeRow(leaves, k, g) = nodeRow(leaves, k, f)
      <4> HIDE DEF g
      <4> QED
        BY <3>1 DEF nodeRow
    <3>3. CASE k = m + 1
      BY <3>2, <3>3
    <3>4. CASE k \in 0 .. m
      BY <2>1, <3>2, <3>4 DEF nodesUpTo
    <3> QED
      BY <3>3, <3>4
  <2>3. g = [k \in 0 .. m + 1 |-> g[k]]
    OBVIOUS
  <2> HIDE DEF g
  <2>4. nodesUpTo(leaves, m + 1, g)
    BY <2>2, <2>3 DEF nodesUpTo
  <2> QED
    BY <2>4
<1> HIDE DEF good
<1>3. good = Nat
  <2>1. good \in SUBSET Nat
    BY DEF good
  <2> QED
    BY <1>1, <1>2, <2>1, Inductive
<1> QED
  BY <1>3 DEF good

LEMMA Nodes ==
    ASSUME NEW leaves, Len(leaves) \in Nat
    PROVE  /\ \A i \in Nat : nodes(leaves)[0][i] = leaves[i + 1]
           /\ \A k \in 1 .. Len(leaves), i \in Nat :
                  nodes(leaves)[k][i] =
                      <<nodes(leaves)[k - 1][2 * i],
                        nodes(leaves)[k - 1][rightOf(i, lastPlaces(Len(leaves))[k - 1])]>>
<1>1. nodes(leaves) = CHOOSE f : nodesUpTo(leaves, Len(leaves), f)
  BY DEF nodes, nodesUpTo, nodeRow, hashPair
<1>2. nodesUpTo(leaves, Len(leaves), nodes(leaves))
  BY <1>1, NodesUpTo
<1>3. \A k \in 0 .. Len(leaves) : nodes(leaves)[k] = nodeRow(leaves, k, nodes(leaves))
  BY <1>2 DEF nodesUpTo
<1> DEFINE node == nodes(leaves)
<1> HIDE DEF node
<1>4. node[0] = nodeRow(leaves, 0, node)
  BY <1>3 DEF node
<1>5. ASSUME NEW k \in 1 .. Len(leaves), NEW i \in Nat
      PROVE  node[k][i] = <<node[k - 1][2 * i],
                            node[k - 1][rightOf(i, lastPlaces(Len(leaves))[k - 1])]>>
  <2>1. node[k] = nodeRow(leaves, k, node) /\ k # 0
    BY <1>3 DEF node
  <2> QED
    BY <2>1 DEF nodeRow
<1> QED
  BY <1>4, <1>5 DEF nodeRow, node


-----------------------------------------------------------------------------
(* What a path leads to, and the place it spells.                          *)

climbStep(n, h) == IF n.direction = "left" THEN <<n.hash, h>> ELSE <<h, n.hash>>

climbUpTo(leaf, p, m, f) ==
    f = [k \in 0 .. m |-> IF k = 0 THEN leaf ELSE climbStep(p[k], f[k - 1])]

LEMMA ClimbUpTo == ASSUME NEW leaf, NEW p PROVE \A m \in Nat : \E f : climbUpTo(leaf, p, m, f)
<1> DEFINE good == {m \in Nat : \E f : climbUpTo(leaf, p, m, f)}
<1>1. 0 \in good
  <2>1. climbUpTo(leaf, p, 0, [k \in 0 .. 0 |-> leaf])
    BY DEF climbUpTo
  <2> QED
    BY <2>1
<1>2. ASSUME NEW m \in good
      PROVE  m + 1 \in good
  <2>1. PICK f : climbUpTo(leaf, p, m, f)
    OBVIOUS
  <2> DEFINE g == [k \in 0 .. m + 1 |-> IF k = m + 1 THEN climbStep(p[m + 1], f[m]) ELSE f[k]]
  <2>2. ASSUME NEW k \in 0 .. m + 1
        PROVE  g[k] = IF k = 0 THEN leaf ELSE climbStep(p[k], g[k - 1])
    <3>1. CASE k = m + 1
      BY <3>1
    <3>2. CASE k \in 0 .. m
      BY <2>1, <3>2 DEF climbUpTo
    <3> QED
      BY <3>1, <3>2
  <2>3. climbUpTo(leaf, p, m + 1, g)
    BY <2>2 DEF climbUpTo
  <2> QED
    BY <2>3
<1> HIDE DEF good
<1>3. good = Nat
  <2>1. good \in SUBSET Nat
    BY DEF good
  <2> QED
    BY <1>1, <1>2, <2>1, Inductive
<1> QED
  BY <1>3 DEF good

LEMMA Climbs ==
    ASSUME NEW leaf, NEW p, Len(p) \in Nat
    PROVE  \E f : climbUpTo(leaf, p, Len(p), f) /\ climb(leaf, p) = f[Len(p)]
<1>1. climb(leaf, p) = (CHOOSE f : climbUpTo(leaf, p, Len(p), f))[Len(p)]
  BY DEF climb, climbUpTo, climbStep, hashPair
<1> QED
  BY <1>1, ClimbUpTo

LEMMA ClimbAppend ==
    ASSUME NEW leaf, NEW S, NEW p \in Seq(S), NEW n \in S
    PROVE  climb(leaf, Append(p, n)) = climbStep(n, climb(leaf, p))
<1> DEFINE m == Len(p)
           q == Append(p, n)
<1>1. m \in Nat /\ Len(q) = m + 1 /\ q[m + 1] = n /\ \A k \in 1 .. m : q[k] = p[k]
  OBVIOUS
<1> HIDE DEF m, q
<1>2. PICK f : climbUpTo(leaf, p, m, f) /\ climb(leaf, p) = f[m]
  BY <1>1, Climbs DEF m
<1>3. PICK g : climbUpTo(leaf, q, m + 1, g) /\ climb(leaf, q) = g[m + 1]
  BY <1>1, Climbs
<1> DEFINE good == {k \in Nat : k <= m => f[k] = g[k]}
<1>4. 0 \in good
  BY <1>1, <1>2, <1>3 DEF climbUpTo
<1>5. ASSUME NEW k \in good PROVE k + 1 \in good
  <2> SUFFICES ASSUME k + 1 <= m PROVE f[k + 1] = g[k + 1]
    OBVIOUS
  <2>1. f[k + 1] = climbStep(p[k + 1], f[k]) /\ g[k + 1] = climbStep(q[k + 1], g[k])
    BY <1>1, <1>2, <1>3 DEF climbUpTo
  <2> QED
    BY <1>1, <2>1
<1>6. good = Nat
  <2>1. good \in SUBSET Nat
    OBVIOUS
  <2> HIDE DEF good
  <2> QED
    BY <1>4, <1>5, <2>1, Inductive
<1>7. g[m + 1] = climbStep(n, g[m])
  BY <1>1, <1>3 DEF climbUpTo
<1> QED
  BY <1>1, <1>2, <1>3, <1>6, <1>7 DEF q

LEMMA ClimbEmpty == ASSUME NEW leaf PROVE climb(leaf, <<>>) = leaf
<1>1. PICK f : climbUpTo(leaf, <<>>, 0, f) /\ climb(leaf, <<>>) = f[0]
  BY Climbs
<1> QED
  BY <1>1 DEF climbUpTo

digit(n) == IF n.direction = "left" THEN 1 ELSE 0

spellUpTo(p, i, m, f) ==
    f = [k \in 0 .. m |-> IF k = 0 THEN i ELSE 2 * f[k - 1] + digit(p[Len(p) - k + 1])]

LEMMA SpellUpTo == ASSUME NEW p, NEW i PROVE \A m \in Nat : \E f : spellUpTo(p, i, m, f)
<1> DEFINE good == {m \in Nat : \E f : spellUpTo(p, i, m, f)}
<1>1. 0 \in good
  <2>1. spellUpTo(p, i, 0, [k \in 0 .. 0 |-> i])
    BY DEF spellUpTo
  <2> QED
    BY <2>1
<1>2. ASSUME NEW m \in good
      PROVE  m + 1 \in good
  <2>1. PICK f : spellUpTo(p, i, m, f)
    OBVIOUS
  <2> DEFINE g == [k \in 0 .. m + 1 |->
                      IF k = m + 1 THEN 2 * f[m] + digit(p[Len(p) - (m + 1) + 1]) ELSE f[k]]
  <2>2. ASSUME NEW k \in 0 .. m + 1
        PROVE  g[k] = IF k = 0 THEN i ELSE 2 * g[k - 1] + digit(p[Len(p) - k + 1])
    <3>1. CASE k = m + 1
      BY <3>1
    <3>2. CASE k \in 0 .. m
      BY <2>1, <3>2 DEF spellUpTo
    <3> QED
      BY <3>1, <3>2
  <2>3. spellUpTo(p, i, m + 1, g)
    BY <2>2 DEF spellUpTo
  <2> QED
    BY <2>3
<1> HIDE DEF good
<1>3. good = Nat
  <2>1. good \in SUBSET Nat
    BY DEF good
  <2> QED
    BY <1>1, <1>2, <2>1, Inductive
<1> QED
  BY <1>3 DEF good

LEMMA Spells ==
    ASSUME NEW p, NEW i, Len(p) \in Nat
    PROVE  \E f : spellUpTo(p, i, Len(p), f) /\ spelled(p, i) = f[Len(p)]
<1>1. spelled(p, i) = (CHOOSE f : spellUpTo(p, i, Len(p), f))[Len(p)]
  BY DEF spelled, spellUpTo, digit
<1> QED
  BY <1>1, SpellUpTo

LEMMA SpellAppend ==
    ASSUME NEW S, NEW p \in Seq(S), NEW n \in S, NEW i
    PROVE  spelled(Append(p, n), i) = spelled(p, 2 * i + digit(n))
<1> DEFINE m == Len(p)
           q == Append(p, n)
<1>1. m \in Nat /\ Len(q) = m + 1 /\ q[m + 1] = n /\ \A k \in 1 .. m : q[k] = p[k]
  OBVIOUS
<1> HIDE DEF q
<1>2. PICK f : spellUpTo(p, 2 * i + digit(n), m, f) /\ spelled(p, 2 * i + digit(n)) = f[m]
  BY <1>1, Spells
<1>3. PICK g : spellUpTo(q, i, m + 1, g) /\ spelled(q, i) = g[m + 1]
  BY <1>1, Spells
<1> DEFINE good == {k \in Nat : k <= m => f[k] = g[k + 1]}
<1>4. 0 \in good
  <2>1. f[0] = 2 * i + digit(n)
    BY <1>1, <1>2 DEF spellUpTo
  <2>2. g[0] = i /\ g[1] = 2 * g[0] + digit(q[Len(q) - 1 + 1])
    BY <1>1, <1>3 DEF spellUpTo
  <2>3. q[Len(q) - 1 + 1] = n
    BY <1>1
  <2> QED
    BY <2>1, <2>2, <2>3
<1>5. ASSUME NEW k \in good PROVE k + 1 \in good
  <2> SUFFICES ASSUME k + 1 <= m PROVE f[k + 1] = g[k + 2]
    OBVIOUS
  <2> HIDE DEF m
  <2>1. /\ k \in Nat /\ m - k \in 1 .. m /\ m - (k + 1) + 1 = m - k
        /\ k + 2 \in 0 .. m + 1 /\ k + 2 # 0 /\ k + 2 - 1 = k + 1 /\ m + 1 - (k + 2) + 1 = m - k
    BY <1>1
  <2>2. f[k + 1] = 2 * f[k] + digit(p[m - k])
    BY <1>1, <1>2, <2>1 DEF spellUpTo, m
  <2>3. g[k + 2] = IF k + 2 = 0 THEN i ELSE 2 * g[k + 2 - 1] + digit(q[Len(q) - (k + 2) + 1])
    <3>1. \A j \in 0 .. m + 1 :
              g[j] = IF j = 0 THEN i ELSE 2 * g[j - 1] + digit(q[Len(q) - j + 1])
      BY <1>3 DEF spellUpTo
    <3> QED
      BY <2>1, <3>1
  <2>4. g[k + 2] = 2 * g[k + 1] + digit(q[m - k])
    BY <1>1, <2>1, <2>3
  <2> QED
    BY <1>1, <2>1, <2>2, <2>4
<1>6. good = Nat
  <2>1. good \in SUBSET Nat
    OBVIOUS
  <2> HIDE DEF good
  <2> QED
    BY <1>4, <1>5, <2>1, Inductive
<1> QED
  BY <1>1, <1>2, <1>3, <1>6 DEF q

LEMMA SpellEmpty == ASSUME NEW i PROVE spelled(<<>>, i) = i
<1>1. PICK f : spellUpTo(<<>>, i, 0, f) /\ spelled(<<>>, i) = f[0]
  BY Spells
<1> QED
  BY <1>1 DEF spellUpTo

-----------------------------------------------------------------------------
(* The root binds the leaves.                                              *)

size(S) == Cardinality(S)
lastIn(S, k) == lastPlaces(size(S))[k]
nodeIn(S, k, i) == nodes(leavesOf(S))[k][i]

\* The trees the theorem is about.
Ballots == {S \in SUBSET Commitment : S # {}}

\* All that is used of a tree.
LEMMA Trees ==
    ASSUME NEW S \in Ballots
    PROVE  /\ size(S) \in Nat \ {0} /\ lastIn(S, 0) = size(S) - 1
           /\ \A k \in 0 .. size(S) : lastIn(S, k) \in 0 .. size(S) - 1
           /\ \A k \in 1 .. size(S) : \/ lastIn(S, k - 1) = 2 * lastIn(S, k)
                                      \/ lastIn(S, k - 1) = 2 * lastIn(S, k) + 1
           /\ \A i \in 0 .. size(S) - 1 : \E c \in S :
                  rankIn(S, c) = i /\ nodeIn(S, 0, i) = <<c>>
           /\ \A c \in S : /\ rankIn(S, c) \in 0 .. size(S) - 1
                           /\ nodeIn(S, 0, rankIn(S, c)) = <<c>>
           /\ \A k \in 1 .. size(S), i \in Nat :
                  nodeIn(S, k, i) = <<nodeIn(S, k - 1, 2 * i),
                                      nodeIn(S, k - 1, rightOf(i, lastIn(S, k - 1)))>>
<1>1. S \in SUBSET Int /\ IsFiniteSet(S) /\ S # {}
  BY MerkleAssumption, FS_Subset DEF Ballots
<1>2. size(S) \in Nat \ {0} /\ Len(leavesOf(S)) = size(S)
  BY <1>1, Leaves, FS_EmptySet DEF size
<1>3. /\ lastIn(S, 0) = size(S) - 1
      /\ \A k \in 0 .. size(S) : lastIn(S, k) \in 0 .. size(S) - 1
      /\ \A k \in 1 .. size(S) : \/ lastIn(S, k - 1) = 2 * lastIn(S, k)
                                 \/ lastIn(S, k - 1) = 2 * lastIn(S, k) + 1
  BY <1>2, LastPlaces DEF lastIn
<1>4. /\ \A i \in Nat : nodeIn(S, 0, i) = leavesOf(S)[i + 1]
      /\ \A k \in 1 .. size(S), i \in Nat :
             nodeIn(S, k, i) = <<nodeIn(S, k - 1, 2 * i),
                                 nodeIn(S, k - 1, rightOf(i, lastIn(S, k - 1)))>>
  <2> DEFINE L == leavesOf(S)
  <2>1. Len(L) = size(S) /\ Len(L) \in Nat
    BY <1>2
  <2> HIDE DEF L
  <2>2. /\ \A i \in Nat : nodes(L)[0][i] = L[i + 1]
        /\ \A k \in 1 .. Len(L), i \in Nat :
               nodes(L)[k][i] = <<nodes(L)[k - 1][2 * i],
                                  nodes(L)[k - 1][rightOf(i, lastPlaces(Len(L))[k - 1])]>>
    BY <2>1, Nodes
  <2>3. \A i \in Nat : nodeIn(S, 0, i) = leavesOf(S)[i + 1]
    BY <2>2, Zenon DEF nodeIn, L
  <2>4. ASSUME NEW k \in 1 .. size(S), NEW i \in Nat
        PROVE  nodeIn(S, k, i) = <<nodeIn(S, k - 1, 2 * i),
                                   nodeIn(S, k - 1, rightOf(i, lastIn(S, k - 1)))>>
    <3>1. nodes(L)[k][i] = <<nodes(L)[k - 1][2 * i],
                             nodes(L)[k - 1][rightOf(i, lastPlaces(size(S))[k - 1])]>>
      BY <2>1, <2>2
    <3> QED
      BY <3>1, Zenon DEF nodeIn, lastIn, L
  <2> QED
    BY <2>3, <2>4
<1>5. /\ \A c \in S : /\ rankIn(S, c) \in 0 .. size(S) - 1
                      /\ leavesOf(S)[rankIn(S, c) + 1] = <<c>>
      /\ \A i \in 1 .. size(S) : \E c \in S : rankIn(S, c) = i - 1 /\ leavesOf(S)[i] = <<c>>
  BY <1>1, Leaves DEF size
<1>6. ASSUME NEW c \in S
      PROVE  nodeIn(S, 0, rankIn(S, c)) = <<c>>
  <2>1. rankIn(S, c) \in Nat
    BY <1>2, <1>5
  <2> QED
    BY <1>4, <1>5, <2>1
<1>7. ASSUME NEW i \in 0 .. size(S) - 1
      PROVE  \E c \in S : rankIn(S, c) = i /\ nodeIn(S, 0, i) = <<c>>
  <2>1. i + 1 \in 1 .. size(S) /\ i + 1 - 1 = i /\ i \in Nat
    BY <1>2
  <2>2. PICK c \in S : rankIn(S, c) = i + 1 - 1 /\ leavesOf(S)[i + 1] = <<c>>
    BY <1>5, <2>1
  <2> QED
    BY <1>4, <2>1, <2>2
<1> QED
  BY <1>2, <1>3, <1>4, <1>5, <1>6, <1>7

\* Both children of a node are nodes.
LEMMA Children ==
    ASSUME NEW S \in Ballots, NEW k \in 1 .. size(S), NEW i \in 0 .. lastIn(S, k)
    PROVE  /\ 2 * i \in 0 .. lastIn(S, k - 1)
           /\ rightOf(i, lastIn(S, k - 1)) \in 0 .. lastIn(S, k - 1)
<1>1. /\ lastIn(S, k) \in Nat /\ lastIn(S, k - 1) \in Nat
      /\ lastIn(S, k - 1) = 2 * lastIn(S, k) \/ lastIn(S, k - 1) = 2 * lastIn(S, k) + 1
  BY Trees
<1>2. 2 * i \in 0 .. lastIn(S, k - 1)
  BY <1>1
<1> QED
  BY <1>1, <1>2 DEF rightOf

LEMMA LeafIsNoPair == \A c, x, y : <<c>> # <<x, y>>
<1> SUFFICES ASSUME NEW c, NEW x, NEW y, <<c>> = <<x, y>> PROVE FALSE
  OBVIOUS
<1>1. Len(<<c>>) = 1 /\ Len(<<x, y>>) = 2
  OBVIOUS
<1> QED
  BY <1>1

LEMMA PairParts == \A a, b, c, d : <<a, b>> = <<c, d>> => a = c /\ b = d
OBVIOUS

\* The same hash is never found at two levels, in one tree or in two.
LEMMA SameLevel ==
    ASSUME NEW S \in Ballots, NEW T \in Ballots
    PROVE  \A k \in Nat : \A j \in 0 .. size(T), i, l \in Nat :
               /\ k <= size(S) /\ i <= lastIn(S, k) /\ l <= lastIn(T, j)
               /\ nodeIn(S, k, i) = nodeIn(T, j, l)
               => k = j
<1> DEFINE same(k) == \A j \in 0 .. size(T), i, l \in Nat :
               /\ k <= size(S) /\ i <= lastIn(S, k) /\ l <= lastIn(T, j)
               /\ nodeIn(S, k, i) = nodeIn(T, j, l)
               => k = j
<1> DEFINE good == {k \in Nat : same(k)}
<1>1. ASSUME NEW U \in Ballots, NEW k \in 1 .. size(U), NEW i \in Nat
      PROVE  nodeIn(U, k, i) = <<nodeIn(U, k - 1, 2 * i),
                                 nodeIn(U, k - 1, rightOf(i, lastIn(U, k - 1)))>>
  BY Trees
<1>2. ASSUME NEW U \in Ballots, NEW i \in Nat, i <= lastIn(U, 0)
      PROVE  \E c : nodeIn(U, 0, i) = <<c>>
  <2>1. size(U) \in Nat /\ i \in 0 .. size(U) - 1
    BY <1>2, Trees
  <2> QED
    BY <2>1, Trees
<1>3. 0 \in good
  <2> SUFFICES ASSUME NEW j \in 0 .. size(T), NEW i \in Nat, NEW l \in Nat,
                      i <= lastIn(S, 0), nodeIn(S, 0, i) = nodeIn(T, j, l), j # 0
               PROVE  FALSE
    OBVIOUS
  <2>1. j \in 1 .. size(T)
    BY Trees
  <2>2. PICK c : nodeIn(S, 0, i) = <<c>>
    BY <1>2
  <2>3. PICK x, y : nodeIn(T, j, l) = <<x, y>>
    BY <1>1, <2>1
  <2>4. <<c>> = <<x, y>>
    BY <2>2, <2>3
  <2> QED
    BY <2>4, LeafIsNoPair
<1>4. ASSUME NEW k \in good PROVE k + 1 \in good
  <2> SUFFICES ASSUME NEW j \in 0 .. size(T), NEW i \in Nat, NEW l \in Nat,
                      k + 1 <= size(S), i <= lastIn(S, k + 1), l <= lastIn(T, j),
                      nodeIn(S, k + 1, i) = nodeIn(T, j, l)
               PROVE  k + 1 = j
    OBVIOUS
  <2>1. /\ size(S) \in Nat /\ size(T) \in Nat /\ k + 1 \in 1 .. size(S) /\ k + 1 - 1 = k
        /\ lastIn(S, k + 1) \in Nat /\ i \in 0 .. lastIn(S, k + 1)
    BY Trees
  <2>2. nodeIn(S, k + 1, i) = <<nodeIn(S, k, 2 * i), nodeIn(S, k, rightOf(i, lastIn(S, k)))>>
    BY <1>1, <2>1
  <2>3. j # 0
    BY <1>2, <2>2, LeafIsNoPair
  <2>4. j \in 1 .. size(T) /\ lastIn(T, j) \in Nat /\ l \in 0 .. lastIn(T, j)
    BY <2>1, <2>3, Trees
  <2>5. nodeIn(T, j, l) = <<nodeIn(T, j - 1, 2 * l), nodeIn(T, j - 1, rightOf(l, lastIn(T, j - 1)))>>
    BY <1>1, <2>4
  <2>6. nodeIn(S, k, 2 * i) = nodeIn(T, j - 1, 2 * l)
    BY <2>2, <2>5
  <2>7. 2 * i <= lastIn(S, k) /\ 2 * l <= lastIn(T, j - 1) /\ 2 * i \in Nat /\ 2 * l \in Nat
    <3>1. 2 * i \in 0 .. lastIn(S, k + 1 - 1) /\ 2 * l \in 0 .. lastIn(T, j - 1)
      BY <2>1, <2>4, Children
    <3> QED
      BY <2>1, <3>1
  <2>8. j - 1 \in 0 .. size(T) /\ k <= size(S)
    BY <2>1, <2>4
  <2>9. same(k)
    BY <1>4
  <2>10. k = j - 1
    BY <2>6, <2>7, <2>8, <2>9
  <2> QED
    BY <2>4, <2>10
<1>5. good = Nat
  <2>1. good \in SUBSET Nat
    OBVIOUS
  <2> HIDE DEF good
  <2> QED
    BY <1>3, <1>4, <2>1, Inductive
<1> QED
  BY <1>5

\* Nor at two places of a level: ballots have different commitments.
LEMMA SamePlace ==
    ASSUME NEW S \in Ballots
    PROVE  \A k \in Nat : \A i, j \in Nat :
               /\ k <= size(S) /\ i <= lastIn(S, k) /\ j <= lastIn(S, k)
               /\ nodeIn(S, k, i) = nodeIn(S, k, j)
               => i = j
<1> DEFINE same(k) == \A i, j \in Nat :
               /\ k <= size(S) /\ i <= lastIn(S, k) /\ j <= lastIn(S, k)
               /\ nodeIn(S, k, i) = nodeIn(S, k, j)
               => i = j
<1> DEFINE good == {k \in Nat : same(k)}
<1>1. 0 \in good
  <2> SUFFICES ASSUME NEW i \in Nat, NEW j \in Nat, i <= lastIn(S, 0), j <= lastIn(S, 0),
                      nodeIn(S, 0, i) = nodeIn(S, 0, j)
               PROVE  i = j
    OBVIOUS
  <2>1. i \in 0 .. size(S) - 1 /\ j \in 0 .. size(S) - 1
    BY Trees
  <2>2. PICK c \in S : rankIn(S, c) = i /\ nodeIn(S, 0, i) = <<c>>
    BY <2>1, Trees
  <2>3. PICK d \in S : rankIn(S, d) = j /\ nodeIn(S, 0, j) = <<d>>
    BY <2>1, Trees
  <2>4. c = d
    BY <2>2, <2>3
  <2> QED
    BY <2>2, <2>3, <2>4
<1>2. ASSUME NEW k \in good PROVE k + 1 \in good
  <2> SUFFICES ASSUME NEW i \in Nat, NEW j \in Nat, k + 1 <= size(S),
                      i <= lastIn(S, k + 1), j <= lastIn(S, k + 1),
                      nodeIn(S, k + 1, i) = nodeIn(S, k + 1, j)
               PROVE  i = j
    OBVIOUS
  <2>1. /\ size(S) \in Nat /\ k + 1 \in 1 .. size(S) /\ k + 1 - 1 = k
        /\ i \in 0 .. lastIn(S, k + 1) /\ j \in 0 .. lastIn(S, k + 1)
        /\ lastIn(S, k) \in Nat
    BY Trees
  <2>2. nodeIn(S, k, 2 * i) = nodeIn(S, k, 2 * j)
    <3>1. /\ nodeIn(S, k + 1, i) = <<nodeIn(S, k, 2 * i), nodeIn(S, k, rightOf(i, lastIn(S, k)))>>
          /\ nodeIn(S, k + 1, j) = <<nodeIn(S, k, 2 * j), nodeIn(S, k, rightOf(j, lastIn(S, k)))>>
      BY <2>1, Trees
    <3> QED
      BY <3>1
  <2>3. 2 * i \in 0 .. lastIn(S, k + 1 - 1) /\ 2 * j \in 0 .. lastIn(S, k + 1 - 1)
    BY <2>1, Children
  <2>4. same(k)
    BY <1>2
  <2>5. 2 * i = 2 * j
    BY <2>1, <2>2, <2>3, <2>4
  <2> QED
    BY <2>5
<1>3. good = Nat
  <2>1. good \in SUBSET Nat
    OBVIOUS
  <2> HIDE DEF good
  <2> QED
    BY <1>1, <1>2, <2>1, Inductive
<1> QED
  BY <1>3

\* Two trees with the same nodes at one level have them at the one below.
sameAt(S, T, k) ==
    /\ lastIn(S, k) = lastIn(T, k)
    /\ \A i \in 0 .. lastIn(S, k) : nodeIn(S, k, i) = nodeIn(T, k, i)

LEMMA SameBelow ==
    ASSUME NEW S \in Ballots, NEW T \in Ballots, NEW k \in 1 .. size(S), k <= size(T),
           sameAt(S, T, k)
    PROVE  sameAt(S, T, k - 1)
<1> DEFINE m == lastIn(S, k)
<1>1. /\ k \in 1 .. size(T) /\ k - 1 \in Nat /\ k - 1 <= size(S) /\ k - 1 <= size(T)
      /\ m \in Nat /\ lastIn(T, k) = m
      /\ lastIn(S, k - 1) = 2 * m \/ lastIn(S, k - 1) = 2 * m + 1
      /\ lastIn(T, k - 1) = 2 * m \/ lastIn(T, k - 1) = 2 * m + 1
  BY Trees DEF sameAt
<1>2. ASSUME NEW i \in 0 .. m
      PROVE  /\ nodeIn(S, k - 1, 2 * i) = nodeIn(T, k - 1, 2 * i)
             /\ nodeIn(S, k - 1, rightOf(i, lastIn(S, k - 1))) =
                    nodeIn(T, k - 1, rightOf(i, lastIn(T, k - 1)))
  <2>1. nodeIn(S, k, i) = nodeIn(T, k, i) /\ i \in Nat
    BY <1>1 DEF sameAt
  <2>2. /\ nodeIn(S, k, i) = <<nodeIn(S, k - 1, 2 * i),
                               nodeIn(S, k - 1, rightOf(i, lastIn(S, k - 1)))>>
        /\ nodeIn(T, k, i) = <<nodeIn(T, k - 1, 2 * i),
                               nodeIn(T, k - 1, rightOf(i, lastIn(T, k - 1)))>>
    BY <1>1, <2>1, Trees
  <2>3. <<nodeIn(S, k - 1, 2 * i), nodeIn(S, k - 1, rightOf(i, lastIn(S, k - 1)))>> =
        <<nodeIn(T, k - 1, 2 * i), nodeIn(T, k - 1, rightOf(i, lastIn(T, k - 1)))>>
    BY <2>1, <2>2
  <2> QED
    BY <2>3, PairParts
<1> HIDE DEF m
<1>3. ASSUME NEW U \in Ballots, NEW V \in Ballots, k - 1 <= size(V),
             lastIn(U, k - 1) = 2 * m, lastIn(V, k - 1) = 2 * m + 1,
             nodeIn(U, k - 1, 2 * m) = nodeIn(V, k - 1, 2 * m),
             nodeIn(U, k - 1, rightOf(m, lastIn(U, k - 1))) =
                 nodeIn(V, k - 1, rightOf(m, lastIn(V, k - 1)))
      PROVE  FALSE
  <2>1. rightOf(m, lastIn(U, k - 1)) = 2 * m /\ rightOf(m, lastIn(V, k - 1)) = 2 * m + 1
    BY <1>1, <1>3 DEF rightOf
  <2>2. nodeIn(V, k - 1, 2 * m) = nodeIn(V, k - 1, 2 * m + 1)
    BY <1>3, <2>1
  <2>3. 2 * m \in Nat /\ 2 * m + 1 \in Nat /\ 2 * m <= 2 * m + 1 /\ 2 * m # 2 * m + 1
    BY <1>1
  <2> QED
    BY <1>1, <1>3, <2>2, <2>3, SamePlace
<1>4. lastIn(S, k - 1) = lastIn(T, k - 1)
  <2>1. m \in 0 .. m
    BY <1>1
  <2> QED
    BY <1>1, <1>2, <1>3, <2>1
<1>5. ASSUME NEW j \in 0 .. lastIn(S, k - 1)
      PROVE  nodeIn(S, k - 1, j) = nodeIn(T, k - 1, j)
  <2>1. PICK i \in 0 .. m : j = 2 * i \/ (j = 2 * i + 1 /\ 2 * i < lastIn(S, k - 1))
    <3>1. j \in Nat /\ j <= 2 * m + 1
      BY <1>1
    <3>2. j \div 2 \in 0 .. m /\ (j = 2 * (j \div 2) \/ j = 2 * (j \div 2) + 1)
      BY <1>1, <3>1
    <3> QED
      BY <1>1, <3>1, <3>2
  <2> QED
    BY <1>2, <1>4, <2>1 DEF rightOf
<1> QED
  BY <1>4, <1>5 DEF sameAt


LEMMA Root ==
    ASSUME NEW S \in Ballots, NEW h, isHeight(size(S), h)
    PROVE  merkleRoot(S) = nodeIn(S, h, 0)
<1> DEFINE top == CHOOSE k \in 0 .. size(S) :
                      lastPlaces(size(S))[k] = 0 /\ \A j \in 0 .. k - 1 : lastPlaces(size(S))[j] # 0
<1>1. size(S) \in Nat \ {0} /\ Len(leavesOf(S)) = size(S)
  <2>1. S \in SUBSET Int /\ IsFiniteSet(S)
    BY MerkleAssumption, FS_Subset DEF Ballots
  <2> QED
    BY <2>1, Leaves, Trees DEF size
<1>2. merkleRoot(S) = nodes(leavesOf(S))[top][0]
  BY <1>1 DEF merkleRoot
<1>3. isHeight(size(S), top)
  BY DEF isHeight
<1>4. top = h
  <2> HIDE DEF top
  <2> QED
    BY <1>1, <1>3, OneHeight
<1> QED
  BY <1>2, <1>4 DEF nodeIn

\* No two sets of ballots have one root.
LEMMA RootBinds ==
    ASSUME NEW S \in Ballots, NEW T \in Ballots, merkleRoot(S) = merkleRoot(T)
    PROVE  S = T
<1>1. PICK h : isHeight(size(S), h)
  BY Trees, Height
<1>2. PICK j : isHeight(size(T), j)
  BY Trees, Height
<1>3. /\ h \in 0 .. size(S) /\ lastIn(S, h) = 0 /\ j \in 0 .. size(T) /\ lastIn(T, j) = 0
      /\ size(S) \in Nat /\ size(T) \in Nat
  BY <1>1, <1>2, Trees DEF isHeight, lastIn
<1>4. nodeIn(S, h, 0) = nodeIn(T, j, 0)
  BY <1>1, <1>2, Root
<1>5. h = j
  BY <1>3, <1>4, SameLevel
<1>6. sameAt(S, T, h)
  BY <1>3, <1>4, <1>5 DEF sameAt
<1> DEFINE good == {d \in Nat : d <= h => sameAt(S, T, h - d)}
<1>7. 0 \in good
  BY <1>3, <1>6
<1>8. ASSUME NEW d \in good PROVE d + 1 \in good
  <2> SUFFICES ASSUME d + 1 <= h PROVE sameAt(S, T, h - (d + 1))
    OBVIOUS
  <2>1. h - d \in 1 .. size(S) /\ h - d <= size(T) /\ h - d - 1 = h - (d + 1)
    BY <1>3, <1>5
  <2>2. sameAt(S, T, h - d)
    BY <1>3
  <2>3. sameAt(S, T, h - d - 1)
    BY <2>1, <2>2, SameBelow
  <2> QED
    BY <2>1, <2>3
<1>9. good = Nat
  <2>1. good \in SUBSET Nat
    OBVIOUS
  <2> HIDE DEF good
  <2> QED
    BY <1>7, <1>8, <2>1, Inductive
<1>10. sameAt(S, T, 0)
  <2>1. h \in good /\ h - h = 0
    BY <1>3, <1>9
  <2> QED
    BY <1>3, <2>1
<1>11. /\ size(S) = size(T)
       /\ \A i \in 0 .. size(S) - 1 : nodeIn(S, 0, i) = nodeIn(T, 0, i)
  <2>1. lastIn(S, 0) = size(S) - 1 /\ lastIn(T, 0) = size(T) - 1
    BY Trees
  <2> QED
    BY <1>3, <1>10, <2>1 DEF sameAt
<1>12. ASSUME NEW U \in Ballots, NEW V \in Ballots, size(U) = size(V),
              \A i \in 0 .. size(U) - 1 : nodeIn(U, 0, i) = nodeIn(V, 0, i)
       PROVE  U \subseteq V
  <2> SUFFICES ASSUME NEW c \in U PROVE c \in V
    OBVIOUS
  <2>1. rankIn(U, c) \in 0 .. size(U) - 1 /\ nodeIn(U, 0, rankIn(U, c)) = <<c>>
    BY Trees
  <2>2. PICK d \in V : nodeIn(V, 0, rankIn(U, c)) = <<d>>
    BY <1>12, <2>1, Trees
  <2>3. <<c>> = <<d>>
    BY <1>12, <2>1, <2>2
  <2> QED
    BY <2>3
<1> QED
  BY <1>11, <1>12

-----------------------------------------------------------------------------
(* The inductive invariant.                                                *)

\* A walk from the leaf t up the tree of S that has come to node i of level k:
\* the loop holds that level, and the path leads there and spells the rest.
walked(S, t, k, level, i, p) ==
    /\ t \in S
    /\ p \in Seq({p[j] : j \in DOMAIN p}) /\ k = Len(p)
    /\ k <= size(S) /\ k + lastIn(S, k) < size(S)
    /\ level = [j \in 1 .. lastIn(S, k) + 1 |-> nodeIn(S, k, j - 1)]
    /\ i \in 0 .. lastIn(S, k)
    /\ climb(<<t>>, p) = nodeIn(S, k, i)
    /\ spelled(p, i) = rankIn(S, t)
    /\ \A j \in 0 .. k - 1 : lastIn(S, j) # 0

WalkInv ==
    proof \in {"build", "done"} =>
        walked(leafSet, target, Len(path), current, idx, path)

IInv ==
    /\ table \subseteq Commitment
    /\ leafSet \subseteq table
    /\ verified \subseteq table
    /\ proof \in {"none", "found", "absent", "build", "done"}
    /\ proof \in {"found", "build", "done"} => target \in table
    /\ proof = "absent" => target \notin verified
    /\ proof \notin {"build", "done"} => path = <<>>
    /\ WalkInv
    /\ proof = "done" => Len(current) = 1

LEMMA InitIInv == MerkleInit => IInv
BY DEF MerkleInit, IInv, WalkInv

\* While the table grows or receipts are looked up, no walk is under way.
LEMMA BeforeTheWalk ==
    ASSUME IInv, NEW c \in Commitment,
           InsertBallot(c) \/ VerifyReceipt(c) \/ GetBallotByReceiptToken(c)
    PROVE  IInv'
BY DEF IInv, WalkInv, InsertBallot, VerifyReceipt, GetBallotByReceiptToken

LEMMA GetBallotsKeeps == IInv /\ GetBallotsByPoll => IInv'
<1> SUFFICES ASSUME IInv, GetBallotsByPoll PROVE IInv'
  OBVIOUS
<1>1. /\ proof = "found" /\ leafSet' = table /\ current' = leavesOf(table)
      /\ idx' = rankIn(table, target) /\ proof' = "build"
      /\ UNCHANGED <<table, verified, target, path>>
  BY DEF GetBallotsByPoll, leavesRead, rankIn
<1>2. target \in table /\ table \in Ballots /\ path = <<>>
  BY <1>1 DEF IInv, Ballots
<1>3. /\ size(table) \in Nat \ {0} /\ lastIn(table, 0) = size(table) - 1
      /\ rankIn(table, target) \in 0 .. size(table) - 1
      /\ nodeIn(table, 0, rankIn(table, target)) = <<target>>
  BY <1>2, Trees
<1>4. leavesOf(table) = [i \in 1 .. size(table) |-> nodeIn(table, 0, i - 1)]
  <2>1. table \in SUBSET Int /\ IsFiniteSet(table)
    BY <1>2, MerkleAssumption, FS_Subset DEF Ballots
  <2>2. leavesOf(table) = [i \in 1 .. size(table) |-> leavesOf(table)[i]]
    BY DEF leavesOf, size
  <2>3. ASSUME NEW i \in 1 .. size(table)
        PROVE  leavesOf(table)[i] = nodeIn(table, 0, i - 1)
    <3>1. Len(leavesOf(table)) \in Nat /\ i - 1 \in Nat /\ i - 1 + 1 = i
      BY <1>3, <2>1, Leaves DEF size
    <3>2. nodes(leavesOf(table))[0][i - 1] = leavesOf(table)[i - 1 + 1]
      BY <3>1, Nodes
    <3> QED
      BY <3>1, <3>2 DEF nodeIn
  <2> QED
    BY <2>2, <2>3
<1>5. WalkInv'
  <2>1. /\ path' = <<>> /\ Len(path') = 0 /\ path' \in Seq({path'[i] : i \in DOMAIN path'})
        /\ leafSet' = table /\ target' = target
    BY <1>1, <1>2
  <2>2. climb(<<target>>, <<>>) = <<target>> /\ spelled(<<>>, idx') = idx'
    BY ClimbEmpty, SpellEmpty
  <2>3. lastIn(table, 0) + 1 = size(table) /\ 0 + lastIn(table, 0) < size(table)
    BY <1>3
  <2>4. current' = [i \in 1 .. lastIn(table, 0) + 1 |-> nodeIn(table, 0, i - 1)]
    BY <1>1, <1>4, <2>3
  <2>5. idx' \in 0 .. lastIn(table, 0) /\ nodeIn(table, 0, idx') = <<target>>
    BY <1>1, <1>3
  <2>6. walked(table, target, 0, current', idx', <<>>)
    BY <1>1, <1>2, <1>3, <2>2, <2>3, <2>4, <2>5 DEF walked
  <2> QED
    BY <2>1, <2>6 DEF WalkInv
<1> QED
  BY <1>1, <1>2, <1>5 DEF IInv

LEMMA OwnRange ==
    ASSUME NEW S, NEW p \in Seq(S)
    PROVE  p \in Seq({p[i] : i \in DOMAIN p})
OBVIOUS

\* The level that the loop pairs up: its nodes at the places of the children.
LEMMA Evened ==
    ASSUME NEW m \in Nat, NEW half \in Nat, m = 2 * half \/ m = 2 * half + 1,
           NEW row, current = [i \in 1 .. m + 1 |-> row[i - 1]]
    PROVE  /\ Len(current) = m + 1
           /\ Len(evened(current)) \div 2 = half + 1
           /\ \A i \in 0 .. half : /\ evened(current)[2 * i + 1] = row[2 * i]
                                   /\ evened(current)[2 * i + 2] = row[rightOf(i, m)]
<1>1. /\ current \in Seq({row[i - 1] : i \in 1 .. m + 1}) /\ Len(current) = m + 1
      /\ \A i \in 0 .. m : current[i + 1] = row[i]
  <2>1. Len(current) = m + 1 /\ current \in Seq({row[i - 1] : i \in 1 .. m + 1})
    <3> DEFINE R == {row[i - 1] : i \in 1 .. m + 1}
    <3>1. \A i \in 1 .. m + 1 : row[i - 1] \in R
      OBVIOUS
    <3> HIDE DEF R
    <3>2. current \in [1 .. m + 1 -> R]
      BY <3>1
    <3>3. current \in Seq(R) /\ Len(current) = m + 1
      BY <3>2
    <3> QED
      BY <3>3 DEF R
  <2>2. ASSUME NEW i \in 0 .. m PROVE current[i + 1] = row[i]
    <3>1. i + 1 \in 1 .. m + 1 /\ i + 1 - 1 = i
      OBVIOUS
    <3> QED
      BY <3>1
  <2> QED
    BY <2>1, <2>2
<1>2. CASE m = 2 * half + 1
  <2>1. evened(current) = current
    BY <1>1, <1>2 DEF evened
  <2>2. (m + 1) \div 2 = half + 1
    BY <1>2
  <2>3. ASSUME NEW i \in 0 .. half
        PROVE  /\ current[2 * i + 1] = row[2 * i]
               /\ current[2 * i + 2] = row[rightOf(i, m)]
    <3>1. 2 * i \in 0 .. m /\ 2 * i + 1 \in 0 .. m /\ 2 * i + 1 + 1 = 2 * i + 2 /\ 2 * i < m
      BY <1>2
    <3>2. rightOf(i, m) = 2 * i + 1
      BY <3>1 DEF rightOf
    <3>3. current[2 * i + 1] = row[2 * i] /\ current[2 * i + 1 + 1] = row[2 * i + 1]
      BY <1>1, <3>1
    <3> QED
      BY <3>1, <3>2, <3>3
  <2> QED
    BY <1>1, <2>1, <2>2, <2>3
<1>3. CASE m = 2 * half
  <2> DEFINE c == current
  <2>1. evened(current) = Append(c, c[m + 1]) /\ c[m + 1] = row[m]
    <3>1. (m + 1) % 2 = 1
      BY <1>3
    <3> QED
      BY <1>1, <3>1 DEF evened
  <2>2. /\ Len(evened(current)) = m + 2
        /\ \A i \in 0 .. m : evened(current)[i + 1] = row[i]
        /\ evened(current)[m + 2] = row[m]
    <3>1. PICK S : c \in Seq(S) /\ c[m + 1] \in S
      <4> DEFINE R == {row[i - 1] : i \in 1 .. m + 1}
      <4>1. c \in Seq(R) /\ m + 1 \in 1 .. Len(c)
        BY <1>1
      <4> HIDE DEF R, c
      <4>2. c[m + 1] \in R
        BY <4>1, ElementOfSeq
      <4> QED
        BY <4>1, <4>2
    <3>2. /\ Len(Append(c, c[m + 1])) = m + 2
          /\ Append(c, c[m + 1])[m + 2] = c[m + 1]
          /\ \A i \in 1 .. m + 1 : Append(c, c[m + 1])[i] = c[i]
      BY <1>1, <3>1
    <3>3. ASSUME NEW i \in 0 .. m
          PROVE  Append(c, c[m + 1])[i + 1] = row[i]
      <4> DEFINE d == Append(c, c[m + 1])
      <4>1. i + 1 \in 1 .. m + 1 /\ i + 1 - 1 = i
        BY <1>1
      <4>2. c[i + 1] = row[i]
        BY <1>1, <4>1
      <4>3. d[i + 1] = c[i + 1]
        BY <3>2, <4>1
      <4> QED
        BY <4>2, <4>3
    <3> HIDE DEF c
    <3> QED
      BY <2>1, <3>2, <3>3
  <2>3. (m + 2) \div 2 = half + 1
    BY <1>3
  <2>4. ASSUME NEW i \in 0 .. half
        PROVE  /\ evened(current)[2 * i + 1] = row[2 * i]
               /\ evened(current)[2 * i + 2] = row[rightOf(i, m)]
    <3>1. 2 * i \in 0 .. m
      BY <1>3
    <3>2. evened(current)[2 * i + 1] = row[2 * i]
      BY <2>2, <3>1
    <3>3. CASE i = half
      <4>1. rightOf(i, m) = m /\ 2 * i + 2 = m + 2
        BY <1>3, <3>3 DEF rightOf
      <4> QED
        BY <2>2, <3>2, <4>1
    <3>4. CASE i # half
      <4>1. rightOf(i, m) = 2 * i + 1 /\ 2 * i + 1 \in 0 .. m /\ 2 * i + 1 + 1 = 2 * i + 2
        BY <1>3, <3>4 DEF rightOf
      <4>2. evened(current)[2 * i + 1 + 1] = row[2 * i + 1]
        BY <2>2, <4>1
      <4> QED
        BY <3>2, <4>1, <4>2
    <3> QED
      BY <3>3, <3>4
  <2> QED
    BY <1>1, <2>2, <2>3, <2>4
<1> QED
  BY <1>2, <1>3

LEMMA LevelKeeps == IInv /\ Level => IInv'
<1> SUFFICES ASSUME IInv, Level PROVE IInv'
  OBVIOUS
<1> DEFINE S == leafSet
           k == Len(path)
           m == lastIn(S, k)
           half == lastIn(S, k + 1)
           row == [i \in Nat |-> nodeIn(S, k, i)]
           level == evened(current)
           n == [hash |-> level[siblingIdx + 1], direction |-> direction]
<1>1. /\ proof = "build" /\ Len(current) > 1
      /\ current' = [i \in 1 .. Len(level) \div 2 |-> <<level[2 * i - 1], level[2 * i]>>]
      /\ path' = Append(path, n)
      /\ idx' = idx \div 2
      /\ UNCHANGED <<table, verified, target, leafSet, proof>>
  BY DEF Level, hashPair
<1>2. /\ target \in S /\ S \in Ballots /\ S \subseteq Commitment
      /\ path \in Seq({path[i] : i \in DOMAIN path}) /\ k \in Nat
      /\ k <= size(S) /\ k + m < size(S) /\ idx \in 0 .. m
      /\ current = [i \in 1 .. m + 1 |-> nodeIn(S, k, i - 1)]
      /\ climb(<<target>>, path) = nodeIn(S, k, idx)
      /\ spelled(path, idx) = rankIn(S, target)
      /\ \A j \in 0 .. k - 1 : lastIn(S, j) # 0
  BY <1>1 DEF IInv, WalkInv, walked, Ballots
<1> HIDE DEF S, n, k
<1>3. /\ size(S) \in Nat /\ k \in 0 .. size(S) /\ m \in Nat /\ k + 1 \in 1 .. size(S)
      /\ half \in Nat /\ (m = 2 * half \/ m = 2 * half + 1) /\ k + 1 - 1 = k
  <2>1. size(S) \in Nat \ {0} /\ m \in Nat
    <3>1. size(S) \in Nat \ {0} /\ k \in 0 .. size(S)
      BY <1>2, Trees
    <3> QED
      BY <1>2, <3>1, Trees
  <2>2. k + 1 \in 1 .. size(S) /\ k + 1 - 1 = k
    BY <1>2, <2>1
  <2> HIDE DEF m, half
  <2>3. half \in Nat
    BY <1>2, <2>1, <2>2, Trees DEF half
  <2>4. lastIn(S, k + 1 - 1) = 2 * half \/ lastIn(S, k + 1 - 1) = 2 * half + 1
    BY <1>2, <2>2, Trees DEF half
  <2> QED
    BY <1>2, <2>1, <2>2, <2>3, <2>4 DEF m
<1>4. /\ Len(current) = m + 1 /\ Len(level) \div 2 = half + 1
      /\ \A i \in 0 .. half : /\ level[2 * i + 1] = nodeIn(S, k, 2 * i)
                              /\ level[2 * i + 2] = nodeIn(S, k, rightOf(i, m))
  <2>1. current = [i \in 1 .. m + 1 |-> row[i - 1]]
    BY <1>2, <1>3
  <2>2. /\ Len(current) = m + 1 /\ Len(level) \div 2 = half + 1
        /\ \A i \in 0 .. half : /\ level[2 * i + 1] = row[2 * i]
                                /\ level[2 * i + 2] = row[rightOf(i, m)]
    <3> HIDE DEF row, half, m
    <3>1. m \in Nat /\ half \in Nat /\ (m = 2 * half \/ m = 2 * half + 1)
      BY <1>3
    <3> QED
      BY <2>1, <3>1, Evened
  <2>3. ASSUME NEW i \in 0 .. half
        PROVE  2 * i \in Nat /\ rightOf(i, m) \in Nat
    BY <1>3 DEF rightOf
  <2> HIDE DEF level, m, half
  <2> QED
    BY <2>2, <2>3
<1> HIDE DEF row, level, m
<1>5. ASSUME NEW i \in 0 .. half
      PROVE  nodeIn(S, k + 1, i) = <<nodeIn(S, k, 2 * i), nodeIn(S, k, rightOf(i, m))>>
  <2>1. i \in Nat
    BY <1>3
  <2>2. nodeIn(S, k + 1, i) =
            <<nodeIn(S, k + 1 - 1, 2 * i), nodeIn(S, k + 1 - 1, rightOf(i, lastIn(S, k + 1 - 1)))>>
    BY <1>2, <1>3, <2>1, Trees
  <2> QED
    BY <1>3, <2>2 DEF m
<1> HIDE DEF half
<1>6. current' = [i \in 1 .. half + 1 |-> nodeIn(S, k + 1, i - 1)]
  <2>1. ASSUME NEW i \in 1 .. half + 1
        PROVE  <<level[2 * i - 1], level[2 * i]>> = nodeIn(S, k + 1, i - 1)
    <3>1. i - 1 \in 0 .. half /\ 2 * (i - 1) + 1 = 2 * i - 1 /\ 2 * (i - 1) + 2 = 2 * i
      BY <1>3
    <3>2. /\ level[2 * (i - 1) + 1] = nodeIn(S, k, 2 * (i - 1))
          /\ level[2 * (i - 1) + 2] = nodeIn(S, k, rightOf(i - 1, m))
      BY <1>4, <3>1
    <3>3. nodeIn(S, k + 1, i - 1) = <<nodeIn(S, k, 2 * (i - 1)), nodeIn(S, k, rightOf(i - 1, m))>>
      BY <1>5, <3>1
    <3> QED
      BY <3>1, <3>2, <3>3
  <2> QED
    BY <1>1, <1>4, <2>1
<1>7. PICK i \in 0 .. half : /\ i = idx \div 2 /\ idx = 2 * i + digit(n)
                            /\ climbStep(n, nodeIn(S, k, idx)) = nodeIn(S, k + 1, i)
  <2> DEFINE i == idx \div 2
  <2>1. i \in 0 .. half /\ idx \in Nat
    BY <1>2, <1>3
  <2>2. CASE idx % 2 = 0
    <3>1. idx = 2 * i /\ siblingIdx = idx + 1 /\ direction = "right"
      BY <2>1, <2>2 DEF siblingIdx, direction
    <3>2. n.hash = level[2 * i + 2] /\ n.direction = "right"
      BY <2>1, <3>1 DEF n
    <3>3. climbStep(n, nodeIn(S, k, idx)) = <<nodeIn(S, k, 2 * i), nodeIn(S, k, rightOf(i, m))>>
      BY <1>4, <2>1, <3>1, <3>2 DEF climbStep
    <3>4. digit(n) = 0
      BY <3>2 DEF digit
    <3> QED
      BY <1>5, <2>1, <3>1, <3>3, <3>4
  <2>3. CASE idx % 2 # 0
    <3>1. idx = 2 * i + 1 /\ siblingIdx = idx - 1 /\ direction = "left"
      BY <2>1, <2>3 DEF siblingIdx, direction
    <3>2. n.hash = level[2 * i + 1] /\ n.direction = "left"
      BY <2>1, <3>1 DEF n
    <3>3. rightOf(i, m) = 2 * i + 1
      BY <1>2, <1>3, <2>1, <3>1 DEF rightOf
    <3>4. climbStep(n, nodeIn(S, k, idx)) = <<nodeIn(S, k, 2 * i), nodeIn(S, k, rightOf(i, m))>>
      BY <1>4, <2>1, <3>1, <3>2, <3>3 DEF climbStep
    <3>5. digit(n) = 1
      BY <3>2 DEF digit
    <3> QED
      BY <1>5, <2>1, <3>1, <3>4, <3>5
  <2> QED
    BY <2>2, <2>3
<1>8. /\ climb(<<target>>, path') = nodeIn(S, k + 1, i)
      /\ spelled(path', i) = rankIn(S, target)
      /\ path' \in Seq({path'[j] : j \in DOMAIN path'}) /\ Len(path') = k + 1
  <2> DEFINE R == {path[j] : j \in DOMAIN path} \union {n}
  <2>1. path \in Seq(R) /\ n \in R
    <3>1. {path[j] : j \in DOMAIN path} \subseteq R /\ n \in R
      OBVIOUS
    <3> HIDE DEF R
    <3> QED
      BY <1>2, <3>1, SeqMonotonic
  <2> HIDE DEF R
  <2>2. path' \in Seq(R) /\ Len(path') = k + 1
    BY <1>1, <2>1 DEF k
  <2>3. climb(<<target>>, path') = climbStep(n, climb(<<target>>, path))
    BY <1>1, <2>1, ClimbAppend
  <2>4. spelled(path', i) = spelled(path, 2 * i + digit(n))
    BY <1>1, <2>1, SpellAppend
  <2> QED
    BY <1>2, <1>7, <2>2, <2>3, <2>4, OwnRange
<1>9. WalkInv'
  <2>1. k + 1 + half < size(S) /\ \A j \in 0 .. k + 1 - 1 : lastIn(S, j) # 0
    <3>1. m > 0
      BY <1>1, <1>3, <1>4
    <3>2. k + 1 + half < size(S)
      BY <1>2, <1>3, <3>1
    <3>3. ASSUME NEW j \in 0 .. k + 1 - 1
          PROVE  lastIn(S, j) # 0
      <4>1. j \in 0 .. k - 1 \/ j = k
        BY <1>3
      <4> QED
        BY <1>2, <1>3, <3>1, <4>1 DEF m
    <3> QED
      BY <3>2, <3>3
  <2>2. /\ S' = S /\ target' = target /\ idx' = i
        /\ Len(path') = k + 1 /\ half = lastIn(S, k + 1)
    BY <1>1, <1>7, <1>8 DEF S, half
  <2>3. walked(S, target, k + 1, current', i, path')
    BY <1>2, <1>3, <1>6, <1>7, <1>8, <2>1, <2>2 DEF walked
  <2> QED
    BY <2>2, <2>3 DEF WalkInv, S
<1> QED
  BY <1>1, <1>9 DEF IInv, S

LEMMA AnswerKeeps == IInv /\ Answer => IInv'
<1> SUFFICES ASSUME IInv, Answer PROVE IInv'
  OBVIOUS
<1> QED
  BY DEF IInv, WalkInv, Answer

LEMMA IInvInd == IInv /\ [MerkleNext]_merkleVars => IInv'
<1> SUFFICES ASSUME IInv, [MerkleNext]_merkleVars PROVE IInv'
  OBVIOUS
<1>1. CASE UNCHANGED merkleVars
  BY <1>1 DEF merkleVars, IInv, WalkInv
<1> QED
  BY <1>1, BeforeTheWalk, GetBallotsKeeps, LevelKeeps, AnswerKeeps DEF MerkleNext

-----------------------------------------------------------------------------
(* Theorems.                                                               *)

\* The inductive invariant of proof and verification holds in every reachable
\* state.
THEOREM MerkleInvariance == MerkleSpec => []IInv
BY InitIInv, IInvInd, PTL DEF MerkleSpec

\* A receipt that /verify has found in the poll is never unknown to
\* /merkle-proof, whatever ballots arrive in between, and is in its tree.
THEOREM VerifiedAreProvable == MerkleSpec => []VerifiedReceiptsHaveProofs
<1>1. IInv => VerifiedReceiptsHaveProofs
  BY DEF IInv, WalkInv, walked, VerifiedReceiptsHaveProofs
<1> QED
  BY <1>1, MerkleInvariance, PTL

\* When the loop of buildMerkleProof ends, it holds the root.
LEMMA DoneAtTheRoot ==
    ASSUME IInv, proof = "done"
    PROVE  /\ leafSet \in Ballots /\ target \in leafSet
           /\ current[1] = merkleRoot(leafSet)
           /\ climb(<<target>>, path) = current[1]
           /\ spelled(path, 0) = rankIn(leafSet, target)
<1> DEFINE k == Len(path)
<1>1. /\ target \in leafSet /\ leafSet \in Ballots
      /\ path \in Seq({path[i] : i \in DOMAIN path}) /\ k \in Nat /\ k <= size(leafSet)
      /\ current = [i \in 1 .. lastIn(leafSet, k) + 1 |-> nodeIn(leafSet, k, i - 1)]
      /\ idx \in 0 .. lastIn(leafSet, k) /\ Len(current) = 1
      /\ climb(<<target>>, path) = nodeIn(leafSet, k, idx)
      /\ spelled(path, idx) = rankIn(leafSet, target)
      /\ \A j \in 0 .. k - 1 : lastIn(leafSet, j) # 0
  <2>1. /\ walked(leafSet, target, k, current, idx, path)
        /\ leafSet \subseteq Commitment /\ Len(current) = 1
    BY DEF IInv, WalkInv
  <2>2. k \in Nat
    BY <2>1 DEF walked
  <2> HIDE DEF k
  <2> QED
    BY <2>1, <2>2 DEF walked, Ballots
<1> HIDE DEF k
<1>2. size(leafSet) \in Nat \ {0} /\ k \in 0 .. size(leafSet) /\ lastIn(leafSet, k) \in Nat
  BY <1>1, Trees
<1>3. lastIn(leafSet, k) = 0 /\ idx = 0
  BY <1>1, <1>2
<1>4. current[1] = nodeIn(leafSet, k, 0)
  BY <1>1, <1>3
<1>5. isHeight(size(leafSet), k)
  BY <1>1, <1>2, <1>3 DEF isHeight, lastIn
<1> QED
  BY <1>1, <1>3, <1>4, <1>5, Root

\* For any number of ballots, the path of GetMerkleProof leads from the voter's
\* commitment to the root of the ballots that were read.
THEOREM ProofsVerify == MerkleSpec => []ProofVerifies
<1>1. IInv => ProofVerifies
  BY DoneAtTheRoot DEF ProofVerifies, hashLeaf, rankIn
<1> QED
  BY <1>1, MerkleInvariance, PTL

\* For any number of ballots, no other set of them has the root of a proof,
\* although odd levels repeat their last node.
THEOREM RootsBind == MerkleSpec => []RootBindsTheBallots
<1>1. IInv => RootBindsTheBallots
  <2> SUFFICES ASSUME IInv, proof = "done", NEW S \in SUBSET Commitment, S # {},
                      merkleRoot(S) = current[1]
               PROVE  S = leafSet
    BY DEF RootBindsTheBallots
  <2>1. S \in Ballots
    BY DEF Ballots
  <2> QED
    BY <2>1, DoneAtTheRoot, RootBinds
<1> QED
  BY <1>1, MerkleInvariance, PTL
=============================================================================
