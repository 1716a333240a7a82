---------------------------- MODULE RankedProofs ----------------------------
(***************************************************************************)
(* Theorems about a ranked ballot's form and about InstantRunoff, for      *)
(* every number of options and every number of ballots.  Where a fact is   *)
(* about every set of candidates, or about a recursive function, a least   *)
(* counterexample is taken, or induction stated of sets (Inductive).       *)
(***************************************************************************)
EXTENDS RankedBallotForm, InstantRunoff, FiniteSetTheorems, WellFoundedInduction, TLAPS

-----------------------------------------------------------------------------
(* Numbers and sets of candidates.                                         *)

\* A set of numbers has a least one.
LEMMA LeastOf ==
    ASSUME NEW S \in SUBSET Nat, S # {}
    PROVE  \E m \in S : \A n \in S : m <= n
<1> DEFINE less == {ss \in Nat \X Nat : ss[1] < ss[2]}
<1>1. IsWellFoundedOn(less, Nat)
  BY NatLessThanWellFounded, Zenon DEF OpToRel
<1> HIDE DEF less
<1>2. \E m \in S : \A n \in S : <<n, m>> \notin less
  BY <1>1, WFMin, Zenon
<1>3. \A n, m \in S : <<n, m>> \notin less => m <= n
  BY DEF less
<1> QED
  BY <1>2, <1>3

\* Induction, as a statement about sets.
LEMMA Inductive ==
    ASSUME NEW S \in SUBSET Nat, 0 \in S, \A n \in S : n + 1 \in S
    PROVE  S = Nat
<1> SUFFICES ASSUME Nat \ S # {} PROVE FALSE
  OBVIOUS
<1>1. PICK m \in Nat \ S : \A n \in Nat \ S : m <= n
  BY LeastOf
<1>2. m - 1 \in S
  BY <1>1
<1> QED
  BY <1>1, <1>2

LEMMA Candidates ==
    /\ IsFiniteSet(Option) /\ Cardinality(Option) = NumOptions
    /\ \A S \in SUBSET Option : /\ IsFiniteSet(S)
                                /\ Cardinality(S) \in 0 .. NumOptions
                                /\ S = {} <=> Cardinality(S) = 0
<1>1. IsFiniteSet(Option) /\ Cardinality(Option) = NumOptions
  BY OptionsAssumption, FS_Interval DEF Option
<1>2. ASSUME NEW S \in SUBSET Option
      PROVE  /\ IsFiniteSet(S)
             /\ Cardinality(S) \in 0 .. NumOptions
             /\ S = {} <=> Cardinality(S) = 0
  BY <1>1, FS_Subset, FS_CardinalityType, FS_EmptySet, OptionsAssumption
<1> QED
  BY <1>1, <1>2

\* Taking candidates away leaves fewer.
LEMMA FewerCandidates ==
    ASSUME NEW S \in SUBSET Option, NEW T \in SUBSET S, T # {}
    PROVE  Cardinality(S \ T) < Cardinality(S)
<1>1. IsFiniteSet(S) /\ Cardinality(S) \in Nat /\ S \ T \in SUBSET Option
  BY Candidates
<1>2. /\ Cardinality(S \ T) <= Cardinality(S)
      /\ Cardinality(S \ T) = Cardinality(S) => S \ T = S
  BY <1>1, FS_Subset
<1>3. S \ T # S
  OBVIOUS
<1> QED
  BY <1>1, <1>2, <1>3, Candidates

-----------------------------------------------------------------------------
(* The recursive function of the textbook count.                           *)

step(g, S) ==
    IF Cardinality(S) = 1 THEN CHOOSE c \in S : TRUE
    ELSE IF Cardinality(lastOf(S)) = 1 THEN g[S \ lastOf(S)]
    ELSE NoWinner

upTo(n) == {S \in SUBSET Option : Cardinality(S) <= n}

\* A function that is right for the sets of at most n candidates.
soFar(n, g) == DOMAIN g = upTo(n) /\ \A S \in upTo(n) : g[S] = step(g, S)

LEMMA StepShrinks ==
    ASSUME NEW S \in SUBSET Option, Cardinality(lastOf(S)) = 1
    PROVE  /\ lastOf(S) \subseteq S /\ lastOf(S) # {}
           /\ S \ lastOf(S) \in SUBSET Option
           /\ Cardinality(S \ lastOf(S)) < Cardinality(S)
<1>1. lastOf(S) \in SUBSET S
  BY DEF lastOf
<1>2. lastOf(S) # {}
  BY <1>1, Candidates
<1> QED
  BY <1>1, <1>2, FewerCandidates

LEMMA SomeGrow ==
    ASSUME NEW n \in Nat, NEW g, soFar(n, g)
    PROVE  \E h : soFar(n + 1, h)
<1> DEFINE h == [S \in upTo(n + 1) |-> IF S \in upTo(n) THEN g[S] ELSE step(g, S)]
<1>1. ASSUME NEW S \in upTo(n + 1)
      PROVE  h[S] = step(h, S)
  <2>1. S \in SUBSET Option /\ Cardinality(S) \in Nat /\ Cardinality(S) <= n + 1
    BY Candidates DEF upTo
  <2>2. h[S] = step(g, S)
    BY DEF soFar
  <2>3. ASSUME Cardinality(lastOf(S)) = 1
        PROVE  h[S \ lastOf(S)] = g[S \ lastOf(S)]
    <3>1. S \ lastOf(S) \in SUBSET Option /\ Cardinality(S \ lastOf(S)) < Cardinality(S)
      BY <2>1, <2>3, StepShrinks
    <3>2. Cardinality(S \ lastOf(S)) \in Nat
      BY <3>1, Candidates
    <3>3. S \ lastOf(S) \in upTo(n) /\ S \ lastOf(S) \in upTo(n + 1)
      BY <2>1, <3>1, <3>2 DEF upTo
    <3> QED
      BY <3>3
  <2> HIDE DEF h
  <2> QED
    BY <2>2, <2>3 DEF step
<1> QED
  BY <1>1 DEF soFar

LEMMA SomeForEach == \A n \in Nat : \E g : soFar(n, g)
<1> DEFINE bad == {n \in Nat : ~ \E g : soFar(n, g)}
<1> SUFFICES ASSUME bad # {} PROVE FALSE
  OBVIOUS
<1>1. PICK m \in bad : \A n \in bad : m <= n
  BY LeastOf
<1>2. CASE m = 0
  <2> DEFINE g == [S \in upTo(0) |-> NoWinner]
  <2>1. ASSUME NEW S \in upTo(0) PROVE step(g, S) = NoWinner
    <3>1. S = {} /\ Cardinality(S) = 0
      BY Candidates DEF upTo
    <3>2. lastOf(S) = {} /\ Cardinality({}) = 0
      BY <3>1, FS_EmptySet DEF lastOf
    <3> QED
      BY <3>1, <3>2 DEF step
  <2>2. soFar(0, g)
    BY <2>1 DEF soFar
  <2> QED
    BY <1>2, <2>2
<1>3. CASE m # 0
  <2>1. m - 1 \in Nat /\ m - 1 \notin bad
    BY <1>1, <1>3
  <2>2. \E g : soFar(m - 1, g)
    BY <2>1
  <2>3. \E g : soFar((m - 1) + 1, g)
    BY <2>1, <2>2, SomeGrow
  <2>4. (m - 1) + 1 = m
    BY <2>1
  <2> QED
    BY <2>3, <2>4
<1> QED
  BY <1>2, <1>3

\* The textbook count is what its definition says of any set of candidates.
LEMMA TextbookStep == \A S \in SUBSET Option : textbook[S] = step(textbook, S)
<1>1. upTo(NumOptions) = SUBSET Option
  BY Candidates, OptionsAssumption DEF upTo
<1>2. PICK g : soFar(NumOptions, g)
  BY SomeForEach, OptionsAssumption
<1> DEFINE h == [S \in SUBSET Option |-> g[S]]
<1>3. h = [S \in SUBSET Option |-> step(h, S)]
  <2>1. ASSUME NEW S \in SUBSET Option PROVE g[S] = step(h, S)
    <3>1. g[S] = step(g, S)
      BY <1>1, <1>2 DEF soFar
    <3>2. g[S \ lastOf(S)] = h[S \ lastOf(S)]
      OBVIOUS
    <3> HIDE DEF h
    <3> QED
      BY <3>1, <3>2 DEF step
  <2> QED
    BY <2>1
<1> HIDE DEF h
<1>4. textbook = [S \in SUBSET Option |-> step(textbook, S)]
  <2>1. \E t : t = [S \in SUBSET Option |-> step(t, S)]
    BY <1>3
  <2>2. textbook = CHOOSE t : t = [S \in SUBSET Option |-> step(t, S)]
    BY DEF textbook, step
  <2> QED
    BY <2>1, <2>2, Zenon
<1> QED
  BY <1>4

-----------------------------------------------------------------------------
(* The ballots of the candidates.                                          *)

\* The ballots that count for c among S, and those that count at all.
for(S, c) ==
    {b \in rows : \E i \in DOMAIN b[1] :
        b[1][i] = c /\ \A j \in 1 .. i - 1 : b[1][j] \notin S}
cast(S) == UNION {for(S, c) : c \in S}

BallotsInv ==
    /\ rows \subseteq Ranking \X (1 .. MaxBallots)
    /\ IsFiniteSet(rows) /\ Cardinality(rows) <= MaxBallots

LEMMA RankingOfBallot ==
    ASSUME BallotsInv, NEW b \in rows
    PROVE  \E n \in Nat : /\ b[1] \in [1 .. n -> Option]
                          /\ \A i, j \in 1 .. n : b[1][i] = b[1][j] => i = j
<1>1. b[1] \in Ranking
  BY DEF BallotsInv
<1>2. PICK n \in 1 .. NumOptions : b[1] \in [1 .. n -> Option]
  BY <1>1 DEF Ranking
<1>3. \A i, j \in 1 .. n : b[1][i] = b[1][j] => i = j
  BY <1>1, <1>2 DEF Ranking
<1> QED
  BY <1>2, <1>3, OptionsAssumption

LEMMA BallotCounts ==
    ASSUME BallotsInv, NEW B \in SUBSET rows
    PROVE  IsFiniteSet(B) /\ Cardinality(B) \in 0 .. MaxBallots
BY FS_Subset, FS_CardinalityType, RunoffAssumption DEF BallotsInv

LEMMA Counted ==
    ASSUME BallotsInv, NEW S, NEW c
    PROVE  /\ for(S, c) \subseteq rows /\ cast(S) \subseteq rows
           /\ tallyAmong(S, c) = Cardinality(for(S, c))
           /\ tallyAmong(S, c) \in 0 .. MaxBallots
<1>1. for(S, c) \subseteq rows /\ cast(S) \subseteq rows
  BY DEF for, cast
<1>2. tallyAmong(S, c) = Cardinality(for(S, c))
  BY DEF tallyAmong, for
<1> QED
  BY <1>1, <1>2, BallotCounts

\* A ballot counts for one candidate.
LEMMA OneCandidate ==
    ASSUME BallotsInv, NEW S, NEW c \in S, NEW d \in S, c # d
    PROVE  for(S, c) \intersect for(S, d) = {}
<1> SUFFICES ASSUME NEW b \in for(S, c), b \in for(S, d) PROVE FALSE
  OBVIOUS
<1>1. b \in rows
  BY DEF for
<1>2. PICK n \in Nat : b[1] \in [1 .. n -> Option]
  BY <1>1, RankingOfBallot
<1>3. PICK i \in 1 .. n : b[1][i] = c /\ \A k \in 1 .. i - 1 : b[1][k] \notin S
  BY <1>2 DEF for
<1>4. PICK j \in 1 .. n : b[1][j] = d /\ \A k \in 1 .. j - 1 : b[1][k] \notin S
  BY <1>2 DEF for
<1>5. ~(i < j) /\ ~(j < i) /\ i # j
  BY <1>3, <1>4
<1> QED
  BY <1>5

\* So two candidates share out at most all that is cast.
LEMMA TwoShares ==
    ASSUME BallotsInv, NEW S, NEW c \in S, NEW d \in S, c # d
    PROVE  tallyAmong(S, c) + tallyAmong(S, d) <= Cardinality(cast(S))
<1> DEFINE both == for(S, c) \union for(S, d)
<1>1. both \subseteq cast(S) /\ cast(S) \subseteq rows
  BY Counted DEF cast
<1>2. /\ IsFiniteSet(for(S, c)) /\ IsFiniteSet(for(S, d)) /\ IsFiniteSet(cast(S))
      /\ Cardinality(for(S, c)) \in Nat /\ Cardinality(for(S, d)) \in Nat
  BY Counted, BallotCounts
<1>3. Cardinality(for(S, c) \intersect for(S, d)) = 0
  BY OneCandidate, FS_EmptySet
<1>4. Cardinality(both) = Cardinality(for(S, c)) + Cardinality(for(S, d))
  <2>1. Cardinality(both) = Cardinality(for(S, c)) + Cardinality(for(S, d))
                                - Cardinality(for(S, c) \intersect for(S, d))
    BY <1>2, FS_Union
  <2> HIDE DEF both
  <2> QED
    BY <1>2, <1>3, <2>1
<1>5. Cardinality(both) <= Cardinality(cast(S))
  BY <1>1, <1>2, FS_Subset
<1> QED
  BY <1>4, <1>5, Counted

\* Someone has the fewest votes.
LEMMA SomeoneIsLast ==
    ASSUME BallotsInv, NEW S \in SUBSET Option, S # {}
    PROVE  lastOf(S) # {} /\ lastOf(S) \subseteq S
<1> DEFINE N == {tallyAmong(S, c) : c \in S}
<1>1. N \in SUBSET Nat /\ N # {}
  BY Counted
<1>2. PICK m \in N : \A n \in N : m <= n
  BY <1>1, LeastOf
<1>3. PICK c \in S : m = tallyAmong(S, c)
  BY <1>2
<1>4. c \in lastOf(S)
  BY <1>2, <1>3 DEF lastOf
<1> QED
  BY <1>4 DEF lastOf

\* When a candidate goes, the others lose no vote and no ballot is won that
\* did not count before.
LEMMA VotesPassOn ==
    ASSUME BallotsInv, NEW S, NEW d \in S, NEW c \in S \ {d}
    PROVE  /\ for(S, c) \subseteq for(S \ {d}, c)
           /\ cast(S \ {d}) \subseteq cast(S)
<1>1. for(S, c) \subseteq for(S \ {d}, c)
  BY DEF for
<1>2. ASSUME NEW e \in S \ {d}, NEW b \in for(S \ {d}, e)
      PROVE  b \in cast(S)
  <2>1. b \in rows
    BY DEF for
  <2>2. PICK n \in Nat : /\ b[1] \in [1 .. n -> Option]
                         /\ \A i, j \in 1 .. n : b[1][i] = b[1][j] => i = j
    BY <2>1, RankingOfBallot
  <2>3. PICK i \in 1 .. n : b[1][i] = e /\ \A j \in 1 .. i - 1 : b[1][j] \notin S \ {d}
    BY <2>2 DEF for
  <2>4. CASE \E k \in 1 .. i - 1 : b[1][k] = d
    <3>1. PICK k \in 1 .. i - 1 : b[1][k] = d
      BY <2>4
    <3>2. k \in 1 .. n
      BY <2>3, <3>1
    <3>3. ASSUME NEW j \in 1 .. k - 1 PROVE b[1][j] \notin S
      <4>1. j \in 1 .. n /\ j \in 1 .. i - 1 /\ j # k
        BY <2>3, <3>1, <3>2
      <4>2. b[1][j] # d
        BY <2>2, <3>1, <3>2, <4>1
      <4> QED
        BY <2>3, <4>1, <4>2
    <3>4. b \in for(S, d)
      BY <2>1, <2>2, <3>1, <3>2, <3>3 DEF for
    <3> QED
      BY <3>4 DEF cast
  <2>5. CASE ~ \E k \in 1 .. i - 1 : b[1][k] = d
    <3>1. b \in for(S, e)
      BY <2>1, <2>2, <2>3, <2>5 DEF for
    <3> QED
      BY <3>1 DEF cast
  <2> QED
    BY <2>4, <2>5
<1>3. cast(S \ {d}) \subseteq cast(S)
  BY <1>2 DEF cast
<1> QED
  BY <1>1, <1>3

\* Who has a majority at one point wins the textbook count, if anyone does.
majorityAmong(S, c) == tallyAmong(S, c) * 2 > Cardinality(cast(S))

\* Such a candidate is not the single last while others are left.
LEMMA LeadersStay ==
    ASSUME BallotsInv, NEW S \in SUBSET Option, NEW c \in S, majorityAmong(S, c),
           NEW d \in S, lastOf(S) = {d}, Cardinality(S) # 1
    PROVE  c # d
<1> SUFFICES ASSUME c = d PROVE FALSE
  OBVIOUS
<1>1. PICK e \in S : e # c
  <2> SUFFICES ASSUME S = {c} PROVE FALSE
    OBVIOUS
  <2> QED
    BY FS_Singleton
<1>2. tallyAmong(S, e) >= tallyAmong(S, c)
  BY DEF lastOf
<1>3. tallyAmong(S, c) + tallyAmong(S, e) <= Cardinality(cast(S))
  BY <1>1, TwoShares
<1>4. tallyAmong(S, c) \in Int /\ tallyAmong(S, e) \in Int /\ Cardinality(cast(S)) \in Int
  BY Counted, BallotCounts
<1> QED
  BY <1>2, <1>3, <1>4 DEF majorityAmong

LEMMA MajorityStays ==
    ASSUME BallotsInv, NEW S, NEW d \in S, NEW c \in S \ {d}, majorityAmong(S, c)
    PROVE  majorityAmong(S \ {d}, c)
<1> DEFINE T == S \ {d}
<1>1. for(S, c) \subseteq for(T, c) /\ cast(T) \subseteq cast(S)
  BY VotesPassOn
<1>2. /\ IsFiniteSet(for(T, c)) /\ IsFiniteSet(cast(S))
  BY Counted, BallotCounts
<1>3. /\ Cardinality(for(S, c)) <= Cardinality(for(T, c))
      /\ Cardinality(cast(T)) <= Cardinality(cast(S))
  BY <1>1, <1>2, FS_Subset
<1>4. /\ tallyAmong(S, c) = Cardinality(for(S, c)) /\ tallyAmong(S, c) \in Int
      /\ tallyAmong(T, c) = Cardinality(for(T, c)) /\ tallyAmong(T, c) \in Int
      /\ Cardinality(cast(S)) \in Int /\ Cardinality(cast(T)) \in Int
  BY Counted, BallotCounts
<1> HIDE DEF T
<1>5. majorityAmong(T, c)
  BY <1>3, <1>4 DEF majorityAmong
<1> QED
  BY <1>5 DEF T

LEMMA MajorityWins ==
    ASSUME BallotsInv
    PROVE  \A S \in SUBSET Option : \A c \in S :
               majorityAmong(S, c) /\ textbook[S] # NoWinner => textbook[S] = c
<1> DEFINE wrong(S) ==
        \E c \in S : majorityAmong(S, c) /\ textbook[S] # NoWinner /\ textbook[S] # c
<1> DEFINE bad == {n \in Nat : \E S \in SUBSET Option : Cardinality(S) = n /\ wrong(S)}
<1> SUFFICES ASSUME NEW S0 \in SUBSET Option, wrong(S0) PROVE FALSE
  OBVIOUS
<1>1. Cardinality(S0) \in bad
  BY Candidates
<1>2. PICK m \in bad : \A n \in bad : m <= n
  BY <1>1, LeastOf
<1>3. PICK S \in SUBSET Option : Cardinality(S) = m /\ wrong(S)
  BY <1>2
<1>4. PICK c \in S : majorityAmong(S, c) /\ textbook[S] # NoWinner /\ textbook[S] # c
  BY <1>3
<1>5. textbook[S] = step(textbook, S)
  BY TextbookStep
<1>6. Cardinality(S) # 1
  <2> SUFFICES ASSUME Cardinality(S) = 1 PROVE FALSE
    OBVIOUS
  <2>1. PICK x : S = {x}
    BY Candidates, FS_Singleton
  <2>2. textbook[S] = CHOOSE y \in S : TRUE
    BY <1>5 DEF step
  <2>3. (CHOOSE y \in S : TRUE) \in S
    BY <2>1
  <2> QED
    BY <1>4, <2>1, <2>2, <2>3
<1>7. Cardinality(lastOf(S)) = 1 /\ textbook[S] = textbook[S \ lastOf(S)]
  BY <1>4, <1>5, <1>6 DEF step
<1>8. PICK d \in S : lastOf(S) = {d}
  <2>1. lastOf(S) \in SUBSET Option /\ lastOf(S) \subseteq S
    BY DEF lastOf
  <2> QED
    BY <1>7, <2>1, Candidates, FS_Singleton
<1>9. c # d
  BY <1>4, <1>6, <1>8, LeadersStay
<1>10. majorityAmong(S \ {d}, c)
  BY <1>4, <1>9, MajorityStays
<1>11. /\ S \ {d} \in SUBSET Option
       /\ Cardinality(S \ {d}) < Cardinality(S) /\ Cardinality(S \ {d}) \in Nat
  <2>1. S \ {d} \in SUBSET Option /\ Cardinality(S \ {d}) < Cardinality(S)
    BY <1>7, <1>8, StepShrinks
  <2>2. Cardinality(S \ {d}) \in Nat
    BY <2>1, Candidates
  <2> QED
    BY <2>1, <2>2
<1>12. wrong(S \ {d})
  BY <1>4, <1>7, <1>8, <1>9, <1>10
<1>13. Cardinality(S \ {d}) \in bad
  BY <1>11, <1>12
<1>14. m <= Cardinality(S \ {d}) /\ m \in Nat /\ Cardinality(S) = m
  BY <1>2, <1>3, <1>13
<1> QED
  BY <1>11, <1>14

-----------------------------------------------------------------------------
(* The inductive invariant.                                                *)

RoundRecord == [counts: UNION {[S -> 0 .. MaxBallots] : S \in SUBSET Option},
                eliminated: SUBSET Option,
                totalActive: 0 .. MaxBallots]

\* Every round but a last one has taken somebody out, which bounds them.
RoundsInv ==
    /\ rounds \in Seq(RoundRecord)
    /\ irv = "collect" => rounds = <<>> /\ active = Option
    /\ irv # "done" => Len(rounds) + Cardinality(active) <= NumOptions

\* Whoever is left had more votes in the last round than somebody else.
LastRoundInv ==
    irv = "loop" /\ rounds # <<>> =>
        LET last == rounds[Len(rounds)].counts
        IN  /\ Cardinality(DOMAIN last) > 1
            /\ active = {c \in DOMAIN last : \E d \in DOMAIN last : last[d] < last[c]}

\* As long as the textbook count meets no tie, the rounds follow it.
TextbookInv ==
    irv # "done" /\ textbook[Option] # NoWinner => textbook[active] = textbook[Option]

IInv ==
    /\ IRVTypeOK
    /\ BallotsInv
    /\ RoundsInv
    /\ LastRoundInv
    /\ TextbookInv
    /\ NoWinnerMeansExactTie
    /\ AgreesWithTextbook

-----------------------------------------------------------------------------
(* What the code computes, in the terms of the lemmas.                     *)

LEMMA CodeCounts ==
    /\ DOMAIN counts = active
    /\ \A c \in active : counts[c] = tallyAmong(active, c)
    /\ \A c \in active : hasMajority(c) <=> majorityAmong(active, c)
    /\ lowest = lastOf(active)
    /\ activeVotes = Cardinality(cast(active))
<1>1. \A c : supporters(c) = for(active, c)
  BY DEF supporters, for
<1>2. DOMAIN counts = active /\ \A c \in active : counts[c] = tallyAmong(active, c)
  BY DEF counts, supporters, tallyAmong
<1>3. activeVotes = Cardinality(cast(active))
  BY <1>1 DEF activeVotes, cast
<1>4. \A c \in active : hasMajority(c) <=> majorityAmong(active, c)
  BY <1>2, <1>3 DEF hasMajority, majorityAmong
<1>5. lowest = lastOf(active)
  BY <1>2 DEF lowest, lastOf
<1> QED
  BY <1>2, <1>3, <1>4, <1>5

LEMMA RoundType ==
    ASSUME IInv, NEW E \in SUBSET active
    PROVE  /\ round(E) \in RoundRecord
           /\ round(E).counts = counts /\ round(E).eliminated = E
           /\ round(E).totalActive = activeVotes
<1>1. BallotsInv /\ active \in SUBSET Option
  BY DEF IInv, IRVTypeOK
<1>2. counts \in [active -> 0 .. MaxBallots]
  <2>1. counts = [c \in active |-> counts[c]] /\ \A c \in active : counts[c] \in 0 .. MaxBallots
    BY <1>1, CodeCounts, Counted DEF counts
  <2> QED
    BY <2>1
<1>3. activeVotes \in 0 .. MaxBallots
  BY <1>1, CodeCounts, Counted, BallotCounts
<1> QED
  BY <1>1, <1>2, <1>3 DEF round, RoundRecord

\* The textbook count only looks at the ballots.
LEMMA SameTextbook ==
    ASSUME rows' = rows
    PROVE  textbook' = textbook
BY DEF textbook, lastOf, tallyAmong

-----------------------------------------------------------------------------
(* Initial states and steps.                                               *)

LEMMA InitIInv == IRVInit => IInv
<1> SUFFICES ASSUME IRVInit PROVE IInv
  OBVIOUS
<1> USE DEF IRVInit
<1>1. IRVTypeOK
  BY OptionsAssumption DEF IRVTypeOK
<1>2. BallotsInv
  BY FS_EmptySet, RunoffAssumption DEF BallotsInv
<1>3. RoundsInv
  BY Candidates, OptionsAssumption DEF RoundsInv
<1> QED
  BY <1>1, <1>2, <1>3
     DEF IInv, LastRoundInv, TextbookInv, NoWinnerMeansExactTie, AgreesWithTextbook

\* A ballot changes what the textbook count will say, but no round has begun.
LEMMA AddBallotKeeps ==
    ASSUME IInv, NEW r \in Ranking, AddBallot(r)
    PROVE  IInv'
<1> DEFINE copies == {b \in rows : b[1] = r}
           new == <<r, 1 + Cardinality(copies)>>
<1>1. /\ irv = "collect" /\ Cardinality(rows) < MaxBallots
      /\ rows' = rows \union {new}
      /\ UNCHANGED <<active, rounds, winner, irv>>
  BY DEF AddBallot
<1>2. BallotsInv
  BY DEF IInv
<1>3. /\ IsFiniteSet(rows) /\ Cardinality(rows) \in Nat
      /\ Cardinality(copies) \in Nat /\ Cardinality(copies) <= Cardinality(rows)
  BY <1>2, FS_Subset, FS_CardinalityType DEF BallotsInv
<1> HIDE DEF copies
<1>4. new \in Ranking \X (1 .. MaxBallots)
  BY <1>1, <1>3, RunoffAssumption
<1> HIDE DEF new
<1>5. IsFiniteSet(rows') /\ Cardinality(rows') <= Cardinality(rows) + 1
  BY <1>1, <1>3, FS_AddElement
<1>6. BallotsInv'
  <2>1. rows' \subseteq Ranking \X (1 .. MaxBallots)
    BY <1>1, <1>2, <1>4 DEF BallotsInv
  <2>2. Cardinality(rows') \in Nat
    BY <1>5, FS_CardinalityType
  <2>3. Cardinality(rows') <= MaxBallots
    BY <1>1, <1>3, <1>5, <2>2, RunoffAssumption
  <2> QED
    BY <1>5, <2>1, <2>3 DEF BallotsInv
<1>7. IRVTypeOK'
  BY <1>1, <1>6 DEF IInv, IRVTypeOK, BallotsInv
<1> QED
  BY <1>1, <1>6, <1>7 DEF IInv, RoundsInv, LastRoundInv, TextbookInv,
     NoWinnerMeansExactTie, AgreesWithTextbook

LEMMA CallKeeps == IInv /\ CallComputeIRV => IInv'
<1> SUFFICES ASSUME IInv, CallComputeIRV PROVE IInv'
  OBVIOUS
<1>1. irv = "collect" /\ irv' = "loop" /\ UNCHANGED <<rows, active, rounds, winner>>
  BY DEF CallComputeIRV
<1>2. textbook' = textbook
  BY <1>1, SameTextbook
<1> QED
  BY <1>1, <1>2 DEF IInv, IRVTypeOK, BallotsInv, RoundsInv, LastRoundInv, TextbookInv,
     NoWinnerMeansExactTie, AgreesWithTextbook

\* What a round does to the list of rounds.
LEMMA RoundAdded ==
    ASSUME IInv, irv = "loop", Cardinality(active) > 1, NEW E \in SUBSET active,
           rounds' = Append(rounds, round(E))
    PROVE  /\ rounds' \in Seq(RoundRecord) /\ Len(rounds') = Len(rounds) + 1
           /\ Len(rounds') <= NumOptions
           /\ rounds'[Len(rounds')] = round(E)
           /\ \A i \in DOMAIN rounds' : /\ rounds'[i].totalActive \in 0 .. MaxBallots
                                        /\ rounds'[i].eliminated \subseteq DOMAIN rounds'[i].counts
<1>1. /\ round(E) \in RoundRecord /\ DOMAIN round(E).counts = active
      /\ round(E).eliminated = E
  BY RoundType, CodeCounts
<1>2. /\ rounds \in Seq(RoundRecord) /\ Len(rounds) + Cardinality(active) <= NumOptions
      /\ \A i \in DOMAIN rounds : rounds[i].eliminated \subseteq DOMAIN rounds[i].counts
  BY DEF IInv, RoundsInv, IRVTypeOK
<1>3. Cardinality(active) \in Nat
  BY Candidates DEF IInv, IRVTypeOK
<1>4. /\ rounds' \in Seq(RoundRecord) /\ Len(rounds') = Len(rounds) + 1
      /\ Len(rounds') <= NumOptions
      /\ rounds'[Len(rounds')] = round(E)
      /\ \A i \in DOMAIN rounds' :
             \/ rounds'[i] = round(E)
             \/ i \in DOMAIN rounds /\ rounds'[i] = rounds[i]
  <2>1. PICK e : e = round(E)
    OBVIOUS
  <2>2. e \in RoundRecord /\ rounds' = Append(rounds, e)
    BY <1>1, <2>1
  <2>3. /\ rounds' \in Seq(RoundRecord) /\ Len(rounds') = Len(rounds) + 1
        /\ rounds'[Len(rounds')] = e
        /\ \A i \in DOMAIN rounds' : rounds'[i] = e \/ (i \in DOMAIN rounds /\ rounds'[i] = rounds[i])
    BY <1>2, <2>2
  <2>4. Len(rounds') <= NumOptions
    BY <1>2, <1>3, <2>3, OptionsAssumption
  <2> QED
    BY <2>1, <2>3, <2>4
<1>5. ASSUME NEW i \in DOMAIN rounds'
      PROVE  /\ rounds'[i].totalActive \in 0 .. MaxBallots
             /\ rounds'[i].eliminated \subseteq DOMAIN rounds'[i].counts
  <2>1. rounds'[i] \in RoundRecord
    BY <1>4
  <2>2. rounds'[i].totalActive \in 0 .. MaxBallots
    BY <2>1 DEF RoundRecord
  <2> QED
    BY <1>1, <1>2, <1>4, <2>2
<1> QED
  BY <1>4, <1>5

LEMMA MajorityRoundKeeps == IInv /\ MajorityRound => IInv'
<1> SUFFICES ASSUME IInv, MajorityRound PROVE IInv'
  OBVIOUS
<1>1. /\ irv = "loop" /\ irv' = "done" /\ Cardinality(active) > 1
      /\ rounds' = Append(rounds, round({}))
      /\ UNCHANGED <<rows, active>>
  BY DEF MajorityRound
<1>2. PICK c \in active : hasMajority(c) /\ winner' = c
  BY DEF MajorityRound
<1>3. BallotsInv /\ active \in SUBSET Option /\ c # NoWinner /\ c \in Option
  BY <1>2 DEF IInv, IRVTypeOK, Option, NoWinner
<1>4. majorityAmong(active, c)
  BY <1>2, CodeCounts
<1>5. /\ rounds' \in Seq(RoundRecord) /\ Len(rounds') <= NumOptions
      /\ rounds' # <<>> => rounds'[Len(rounds')] = round({})
      /\ \A i \in DOMAIN rounds' : /\ rounds'[i].totalActive \in 0 .. MaxBallots
                                   /\ rounds'[i].eliminated \subseteq DOMAIN rounds'[i].counts
  BY <1>1, RoundAdded
<1>6. IRVTypeOK'
  BY <1>1, <1>2, <1>3, <1>5 DEF IInv, IRVTypeOK
<1>7. BallotsInv'
  BY <1>1, <1>3 DEF BallotsInv
<1>8. NoWinnerMeansExactTie'
  <2>1. round({}).counts = counts /\ DOMAIN counts = active
    BY RoundType, CodeCounts
  <2>2. PICK d \in active : d # c
    <3> SUFFICES ASSUME active = {c} PROVE FALSE
      BY <1>2
    <3>1. Cardinality(active) = 1
      BY FS_Singleton
    <3> QED
      BY <1>1, <3>1
  <2>3. tallyAmong(active, c) + tallyAmong(active, d) <= Cardinality(cast(active))
    BY <1>2, <1>3, <2>2, TwoShares
  <2>4. /\ tallyAmong(active, c) \in Int /\ tallyAmong(active, d) \in Int
        /\ Cardinality(cast(active)) \in Int
    BY <1>3, Counted, BallotCounts
  <2>5. counts[c] # counts[d]
    BY <1>4, <2>3, <2>4, CodeCounts DEF majorityAmong
  <2> QED
    BY <1>2, <1>3, <1>5, <2>1, <2>5 DEF NoWinnerMeansExactTie
<1>9. AgreesWithTextbook'
  <2>1. textbook' = textbook
    BY <1>1, SameTextbook
  <2>2. textbook[Option] # NoWinner => textbook[active] = textbook[Option]
    BY <1>1 DEF IInv, TextbookInv
  <2>3. textbook[active] # NoWinner => textbook[active] = c
    BY <1>2, <1>3, <1>4, MajorityWins
  <2> QED
    BY <1>2, <2>1, <2>2, <2>3 DEF AgreesWithTextbook
<1> QED
  BY <1>1, <1>5, <1>6, <1>7, <1>8, <1>9 DEF IInv, RoundsInv, LastRoundInv, TextbookInv

LEMMA EliminationRoundKeeps == IInv /\ EliminationRound => IInv'
<1> SUFFICES ASSUME IInv, EliminationRound PROVE IInv'
  OBVIOUS
<1>1. /\ irv = "loop" /\ irv' = "loop" /\ Cardinality(active) > 1
      /\ active' = active \ lowest
      /\ rounds' = Append(rounds, round(lowest))
      /\ UNCHANGED <<rows, winner>>
  BY DEF EliminationRound
<1>2. BallotsInv /\ active \in SUBSET Option /\ active # {}
  <2>1. Cardinality({}) = 0
    BY FS_EmptySet
  <2>2. active # {}
    BY <1>1, <2>1
  <2> QED
    BY <2>2 DEF IInv, IRVTypeOK
<1>3. lowest = lastOf(active) /\ lowest # {} /\ lowest \in SUBSET active
  BY <1>2, CodeCounts, SomeoneIsLast
<1>4. /\ rounds' \in Seq(RoundRecord) /\ Len(rounds') = Len(rounds) + 1
      /\ Len(rounds') <= NumOptions
      /\ rounds'[Len(rounds')] = round(lowest)
      /\ \A i \in DOMAIN rounds' : /\ rounds'[i].totalActive \in 0 .. MaxBallots
                                   /\ rounds'[i].eliminated \subseteq DOMAIN rounds'[i].counts
  BY <1>1, <1>3, RoundAdded
<1>5. IRVTypeOK' /\ BallotsInv'
  BY <1>1, <1>2, <1>4 DEF IInv, IRVTypeOK, BallotsInv
<1>6. RoundsInv'
  <2>1. Cardinality(active') < Cardinality(active)
    BY <1>1, <1>2, <1>3, FewerCandidates
  <2>2. Len(rounds) + Cardinality(active) <= NumOptions /\ rounds \in Seq(RoundRecord)
    BY <1>1 DEF IInv, RoundsInv
  <2>3. Cardinality(active) \in Nat /\ Cardinality(active') \in Nat
    BY <1>1, <1>2, Candidates
  <2> QED
    BY <1>1, <1>4, <2>1, <2>2, <2>3, OptionsAssumption DEF RoundsInv
<1>7. LastRoundInv'
  <2>1. round(lowest).counts = counts /\ DOMAIN counts = active
    BY <1>3, RoundType, CodeCounts
  <2>2. \A c \in active : counts[c] \in Int
    BY <1>2, CodeCounts, Counted
  <2>3. active' = {c \in active : \E d \in active : counts[d] < counts[c]}
    BY <1>1, <2>2 DEF lowest
  <2>4. Cardinality(DOMAIN counts) > 1
    BY <1>1, <2>1
  <2> QED
    BY <1>4, <2>1, <2>3, <2>4 DEF LastRoundInv
<1>8. TextbookInv'
  <2>1. textbook' = textbook
    BY <1>1, SameTextbook
  <2>2. textbook[active] = step(textbook, active)
    BY <1>2, TextbookStep
  <2>3. Cardinality(active) # 1
    BY <1>1
  <2>4. textbook[active] # NoWinner => textbook[active] = textbook[active \ lastOf(active)]
    BY <2>2, <2>3 DEF step
  <2> QED
    BY <1>1, <1>3, <2>1, <2>4 DEF IInv, TextbookInv
<1> QED
  BY <1>1, <1>5, <1>6, <1>7, <1>8 DEF IInv, NoWinnerMeansExactTie, AgreesWithTextbook

LEMMA LastOneKeeps == IInv /\ LastOne => IInv'
<1> SUFFICES ASSUME IInv, LastOne PROVE IInv'
  OBVIOUS
<1>1. /\ irv = "loop" /\ irv' = "done" /\ Cardinality(active) <= 1
      /\ UNCHANGED <<rows, active, rounds>>
      /\ winner' \in IF active = {} THEN {NoWinner} ELSE active
  BY DEF LastOne
<1>2. active \in SUBSET Option /\ active \subseteq Option
  BY DEF IInv, IRVTypeOK
<1>3. (active = {} <=> winner' = NoWinner) /\ winner' \in Option \union {NoWinner}
  BY <1>1, <1>2 DEF Option, NoWinner
<1>4. IRVTypeOK' /\ BallotsInv'
  BY <1>1, <1>3 DEF IInv, IRVTypeOK, BallotsInv
<1>5. NoWinnerMeansExactTie'
  <2> SUFFICES ASSUME rounds # <<>>
               PROVE  LET last == rounds[Len(rounds)].counts
                      IN  active = {} <=>
                              /\ Cardinality(DOMAIN last) > 1
                              /\ \A c, d \in DOMAIN last : last[c] = last[d]
    BY <1>1, <1>3 DEF NoWinnerMeansExactTie
  <2> DEFINE last == rounds[Len(rounds)].counts
  <2>1. /\ Cardinality(DOMAIN last) > 1
        /\ active = {c \in DOMAIN last : \E d \in DOMAIN last : last[d] < last[c]}
    BY <1>1 DEF IInv, LastRoundInv
  <2>2. \A c \in DOMAIN last : last[c] \in Int
    <3>1. rounds[Len(rounds)] \in RoundRecord
      BY DEF IInv, RoundsInv
    <3> QED
      BY <3>1 DEF RoundRecord
  <2> HIDE DEF last
  <2>3. active = {} <=> \A c, d \in DOMAIN last : last[c] = last[d]
    BY <2>1, <2>2
  <2> QED
    BY <2>1, <2>3 DEF last
<1>6. AgreesWithTextbook'
  <2>1. textbook' = textbook
    BY <1>1, SameTextbook
  <2>2. textbook[Option] # NoWinner => textbook[active] = textbook[Option]
    BY <1>1 DEF IInv, TextbookInv
  <2>3. textbook[active] = step(textbook, active)
    BY <1>2, TextbookStep
  <2>4. CASE active = {}
    <3>1. Cardinality(active) = 0 /\ lastOf(active) = {}
      BY <2>4, FS_EmptySet DEF lastOf
    <3>2. textbook[active] = NoWinner
      BY <2>3, <2>4, <3>1, FS_EmptySet DEF step
    <3> QED
      BY <2>1, <2>2, <3>2 DEF AgreesWithTextbook
  <2>5. CASE active # {}
    <3>1. Cardinality(active) = 1
      BY <1>1, <1>2, <2>5, Candidates
    <3>2. PICK x : active = {x}
      BY <1>2, <3>1, Candidates, FS_Singleton
    <3>3. textbook[active] = CHOOSE c \in active : TRUE
      BY <2>3, <3>1 DEF step
    <3>4. (CHOOSE c \in active : TRUE) = x /\ winner' = x
      BY <1>1, <3>2
    <3> QED
      BY <2>1, <2>2, <3>3, <3>4 DEF AgreesWithTextbook
  <2> QED
    BY <2>4, <2>5
<1> QED
  BY <1>1, <1>4, <1>5, <1>6 DEF IInv, RoundsInv, LastRoundInv, TextbookInv

LEMMA IInvInd == IInv /\ [IRVNext]_irvVars => IInv'
<1> SUFFICES ASSUME IInv, [IRVNext]_irvVars PROVE IInv'
  OBVIOUS
<1>1. CASE UNCHANGED irvVars
  <2>1. /\ UNCHANGED <<rows, active, rounds, winner, irv>>
        /\ textbook' = textbook
    BY <1>1, SameTextbook DEF irvVars
  <2> QED
    BY <2>1 DEF IInv, IRVTypeOK, BallotsInv, RoundsInv, LastRoundInv, TextbookInv,
       NoWinnerMeansExactTie, AgreesWithTextbook
<1> QED
  BY <1>1, AddBallotKeeps, CallKeeps, MajorityRoundKeeps, EliminationRoundKeeps,
     LastOneKeeps DEF IRVNext

-----------------------------------------------------------------------------
(* Theorems.                                                               *)

\* The inductive invariant of the count holds in every reachable state.
THEOREM RunoffInvariance == IRVSpec => []IInv
BY InitIInv, IInvInd, PTL DEF IRVSpec

\* Ballots, candidates and rounds keep their shape, and a count takes no more
\* rounds than there are options.
THEOREM RunoffTypes == IRVSpec => []IRVTypeOK
<1>1. IInv => IRVTypeOK
  BY DEF IInv
<1> QED
  BY <1>1, RunoffInvariance, PTL

\* A count names nobody exactly when all who were left in its last round had
\* the same number of votes.
THEOREM NoWinnerIsATie == IRVSpec => []NoWinnerMeansExactTie
<1>1. IInv => NoWinnerMeansExactTie
  BY DEF IInv
<1> QED
  BY <1>1, RunoffInvariance, PTL

\* Whatever the ballots, stopping at the first majority names the winner of
\* the textbook count, if that count meets no tie for the last place.
THEOREM TextbookAgreement == IRVSpec => []AgreesWithTextbook
<1>1. IInv => AgreesWithTextbook
  BY DEF IInv
<1> QED
  BY <1>1, RunoffInvariance, PTL

-----------------------------------------------------------------------------
(* The form.                                                               *)

\* No two options have one rank.
RanksInv ==
    /\ rankings \in [Option -> Option \union {Unranked}]
    /\ \A o, p \in Option : rankings[o] = rankings[p] /\ rankings[o] # Unranked => o = p

FormInv == RanksInv /\ BodyIsAccepted

keptUpTo(m, f) ==
    f = [k \in 0 .. m |-> IF k = 0 THEN <<>>
                          ELSE IF rankings[k - 1] = Unranked THEN f[k - 1]
                          ELSE Append(f[k - 1], rankings[k - 1])]

LEMMA KeptUpTo == \A m \in Nat : \E f : keptUpTo(m, f)
<1> DEFINE good == {m \in Nat : \E f : keptUpTo(m, f)}
<1>1. 0 \in good
  <2>1. keptUpTo(0, [k \in 0 .. 0 |-> <<>>])
    BY DEF keptUpTo
  <2> QED
    BY <2>1
<1>2. ASSUME NEW m \in good
      PROVE  m + 1 \in good
  <2>1. PICK f : keptUpTo(m, f)
    OBVIOUS
  <2> DEFINE new == IF rankings[m] = Unranked THEN f[m] ELSE Append(f[m], rankings[m])
             g == [k \in 0 .. m + 1 |-> IF k = m + 1 THEN new ELSE f[k]]
  <2>2. ASSUME NEW k \in 0 .. m + 1
        PROVE  g[k] = IF k = 0 THEN <<>>
                      ELSE IF rankings[k - 1] = Unranked THEN g[k - 1]
                      ELSE Append(g[k - 1], rankings[k - 1])
    <3>1. CASE k = m + 1
      BY <3>1
    <3>2. CASE k \in 0 .. m
      <4>1. g[k] = f[k] /\ (k # 0 => g[k - 1] = f[k - 1])
        BY <3>2
      <4>2. f[k] = IF k = 0 THEN <<>>
                   ELSE IF rankings[k - 1] = Unranked THEN f[k - 1]
                   ELSE Append(f[k - 1], rankings[k - 1])
        <5>1. \A h : keptUpTo(m, h) => h[k] = IF k = 0 THEN <<>>
                                 ELSE IF rankings[k - 1] = Unranked THEN h[k - 1]
                                 ELSE Append(h[k - 1], rankings[k - 1])
          BY <3>2 DEF keptUpTo
        <5> QED
          BY <2>1, <5>1
      <4> HIDE DEF g, new
      <4> QED
        BY <4>1, <4>2
    <3> QED
      BY <3>1, <3>2
  <2>3. keptUpTo(m + 1, g)
    BY <2>2 DEF keptUpTo
  <2> QED
    BY <2>3
<1> HIDE DEF good
<1>3. good = Nat
  <2>1. good \in SUBSET Nat
    BY DEF good
  <2> QED
    BY <1>1, <1>2, <2>1, Inductive
<1> QED
  BY <1>3 DEF good

\* A list of ranks that the first k options hold.
ranksBelow(k, s) ==
    /\ s \in Seq(Option) /\ Len(s) <= k
    /\ \A i \in 1 .. Len(s) : \E o \in Option : o < k /\ s[i] = rankings[o]
    /\ \A i, j \in 1 .. Len(s) : s[i] = s[j] => i = j

\* The list the form sends is a ranking, if it is not empty.
LEMMA BuildRankings ==
    ASSUME RanksInv
    PROVE  buildRankings # <<>> => buildRankings \in Ranking
<1>1. PICK f : keptUpTo(NumOptions, f) /\ buildRankings = f[NumOptions]
  <2>1. buildRankings = (CHOOSE f : keptUpTo(NumOptions, f))[NumOptions]
    BY DEF buildRankings, keptUpTo
  <2> QED
    BY <2>1, KeptUpTo, OptionsAssumption
<1> DEFINE good == {k \in Nat : k <= NumOptions => ranksBelow(k, f[k])}
<1>2. 0 \in good
  <2>1. f[0] = <<>>
    BY <1>1, OptionsAssumption DEF keptUpTo
  <2>2. ranksBelow(0, <<>>)
    BY DEF ranksBelow
  <2> QED
    BY <2>1, <2>2
<1>3. ASSUME NEW k \in good PROVE k + 1 \in good
  <2> SUFFICES ASSUME k + 1 <= NumOptions PROVE ranksBelow(k + 1, f[k + 1])
    OBVIOUS
  <2>1. ranksBelow(k, f[k]) /\ k \in Option /\ k \in Nat
    BY OptionsAssumption DEF Option
  <2>2. f[k + 1] = IF rankings[k] = Unranked THEN f[k] ELSE Append(f[k], rankings[k])
    <3>1. \A h : keptUpTo(NumOptions, h) =>
             \A j \in 0 .. NumOptions :
                 h[j] = IF j = 0 THEN <<>>
                        ELSE IF rankings[j - 1] = Unranked THEN h[j - 1]
                        ELSE Append(h[j - 1], rankings[j - 1])
      BY DEF keptUpTo
    <3>2. k + 1 \in 0 .. NumOptions /\ k + 1 # 0 /\ (k + 1) - 1 = k
      BY <2>1, OptionsAssumption DEF Option
    <3>3. f[k + 1] = IF k + 1 = 0 THEN <<>>
                     ELSE IF rankings[(k + 1) - 1] = Unranked THEN f[(k + 1) - 1]
                     ELSE Append(f[(k + 1) - 1], rankings[(k + 1) - 1])
      BY <1>1, <3>1, <3>2
    <3> QED
      BY <3>2, <3>3
  <2>3. CASE rankings[k] = Unranked
    BY <2>1, <2>2, <2>3 DEF ranksBelow, Option
  <2>4. CASE rankings[k] # Unranked
    <3> DEFINE s == f[k]
               r == rankings[k]
               t == Append(s, r)
    <3>1. s \in Seq(Option) /\ r \in Option /\ Len(s) \in Nat /\ Len(s) <= k
      BY <2>1, <2>4 DEF ranksBelow, RanksInv
    <3>2. /\ t \in Seq(Option) /\ Len(t) = Len(s) + 1 /\ t[Len(s) + 1] = r
          /\ \A i \in 1 .. Len(s) : t[i] = s[i]
      BY <3>1
    <3>3. \A i \in 1 .. Len(s) : (\E o \in Option : o < k /\ s[i] = rankings[o]) /\ s[i] # r
      BY <2>1, <2>4 DEF ranksBelow, RanksInv, Option
    <3>4. \A i, j \in 1 .. Len(s) : s[i] = s[j] => i = j
      BY <2>1 DEF ranksBelow
    <3>5. f[k + 1] = t
      BY <2>2, <2>4
    <3> HIDE DEF s, t
    <3>6. \A i \in 1 .. Len(t) : i = Len(s) + 1 \/ i \in 1 .. Len(s)
      BY <3>1, <3>2
    <3>7. \A i \in 1 .. Len(t) : \E o \in Option : o < k + 1 /\ t[i] = rankings[o]
      BY <2>1, <3>2, <3>3, <3>6 DEF Option
    <3>8. \A i, j \in 1 .. Len(t) : t[i] = t[j] => i = j
      BY <3>2, <3>3, <3>4, <3>6
    <3>9. Len(t) <= k + 1
      BY <2>1, <3>1, <3>2
    <3> QED
      BY <3>2, <3>5, <3>7, <3>8, <3>9 DEF ranksBelow
  <2> QED
    BY <2>3, <2>4
<1>4. good = Nat
  <2>1. good \in SUBSET Nat
    OBVIOUS
  <2> HIDE DEF good
  <2> QED
    BY <1>2, <1>3, <2>1, Inductive
<1>5. ranksBelow(NumOptions, buildRankings)
  BY <1>1, <1>4, OptionsAssumption
<1> DEFINE s == buildRankings
<1> HIDE DEF s
<1>6. s # <<>> => s \in [1 .. Len(s) -> Option] /\ Len(s) \in 1 .. NumOptions
  BY <1>5, OptionsAssumption DEF ranksBelow, s
<1> QED
  BY <1>5, <1>6 DEF ranksBelow, Ranking, s

LEMMA FormInitInv == FormInit => FormInv
BY DEF FormInit, FormInv, RanksInv, BodyIsAccepted, Unranked

LEMMA FormInvInd == FormInv /\ [FormNext]_formVars => FormInv'
<1> SUFFICES ASSUME FormInv, [FormNext]_formVars PROVE FormInv'
  OBVIOUS
<1>1. CASE UNCHANGED formVars
  BY <1>1 DEF formVars, FormInv, RanksInv, BodyIsAccepted
<1>2. ASSUME NEW o \in Option, NEW rank \in Option \union {Unranked}, handleRankChange(o, rank)
      PROVE  FormInv'
  <2>1. RanksInv'
    <3>1. rankings' = [IF rank = Unranked THEN rankings ELSE clearRank(o, rank) EXCEPT ![o] = rank]
      BY <1>2 DEF handleRankChange
    <3>2. CASE rank = Unranked
      BY <3>1, <3>2 DEF FormInv, RanksInv
    <3>3. CASE rank # Unranked
      BY <3>1, <3>3 DEF FormInv, RanksInv, clearRank
    <3> QED
      BY <3>2, <3>3
  <2> QED
    BY <1>2, <2>1 DEF handleRankChange, FormInv, BodyIsAccepted
<1>3. CASE handleSubmit
  <2>1. body' \in Ranking
    BY <1>3, BuildRankings DEF handleSubmit, FormInv
  <2> QED
    BY <1>3, <2>1 DEF handleSubmit, FormInv, RanksInv, BodyIsAccepted
<1>4. CASE onVote
  BY <1>4 DEF onVote, FormInv, RanksInv, BodyIsAccepted
<1> QED
  BY <1>1, <1>2, <1>3, <1>4 DEF FormNext

\* However ranks are moved about, also while a request is under way, what the
\* form sends passes validateRankings, for any number of options.
THEOREM BodiesAreAccepted == FormSpec => []BodyIsAccepted
<1>1. FormInv => BodyIsAccepted
  BY DEF FormInv
<1> QED
  BY <1>1, FormInitInv, FormInvInd, PTL DEF FormSpec
=============================================================================
