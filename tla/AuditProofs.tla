---------------------------- MODULE AuditProofs ----------------------------
(***************************************************************************)
(* Theorems about Audit, for every set of ballots, every page size and     *)
(* every bound on the clock.                                               *)
(***************************************************************************)
EXTENDS Audit, BallotLogProofs, SequenceTheorems

-----------------------------------------------------------------------------
(* The inductive invariant.                                                *)

\* Whatever has been read is still in the table.
ReadsInv ==
    /\ ToSet(page) \subseteq log
    /\ ToSet(allEntries) \subseteq log
    /\ atOpen \subseteq log
    /\ fetch \in {"page", "root"} => total <= Cardinality(log)
    /\ proof # NoProof => proof.auditRoot \subseteq log

\* A request continues the list, and "load more" is only sent for rows that
\* are there, so its page is not empty.
OffsetInv ==
    /\ fetch # "none" => offset = Len(allEntries)
    /\ fetch \in {"count", "page"} /\ offset # 0 => offset < Cardinality(log)
    /\ fetch = "root" /\ offset # 0 => page # <<>>

\* The place of a ballot in cast_at order, from 0.
place(b) == Cardinality({c \in log : stamp[c] < stamp[b]})

\* While no ballot has come since the page was opened and no two stamps are
\* equal, every entry stands in its place and every answer covers the table.
QuietInv ==
    log = atOpen /\ distinctStamps =>
        /\ \A i \in DOMAIN allEntries : place(allEntries[i]) = i - 1
        /\ fetch = "root" => \A i \in DOMAIN page : place(page[i]) = offset + i - 1
        /\ fetch \in {"page", "root"} => total = Cardinality(log)
        /\ proof # NoProof => proof.total = Cardinality(log) /\ proof.auditRoot = log

IInv ==
    /\ TypeOK
    /\ StampsInv
    /\ ReadsInv
    /\ OffsetInv
    /\ QuietInv
    /\ EntriesAreUnderTheRoot

-----------------------------------------------------------------------------
(* The operators of the model.                                             *)

LEMMA BallotCards ==
    /\ Cardinality(Ballot) \in Nat
    /\ \A S \in SUBSET Ballot : /\ IsFiniteSet(S)
                                /\ Cardinality(S) \in Nat
                                /\ Cardinality(S) <= Cardinality(Ballot)
BY AuditAssumption, FS_Subset, FS_CardinalityType

\* A larger table has more rows.
LEMMA CardsGrow ==
    ASSUME NEW T \in SUBSET Ballot, NEW S \in SUBSET T
    PROVE  Cardinality(S) <= Cardinality(T)
BY BallotCards, FS_Subset

\* The number of rows LIMIT n leaves of the k that follow an offset.
LEMMA LimitedCount ==
    ASSUME NEW n \in Nat, NEW k \in Int
    PROVE  Max({0, Min({n, k})}) = IF k <= 0 THEN 0 ELSE IF n <= k THEN n ELSE k
<1>1. Min({n, k}) = IF n <= k THEN n ELSE k
  BY DEF Min
<1>2. \A m \in Int : Max({0, m}) = IF m <= 0 THEN 0 ELSE m
  BY DEF Max
<1> QED
  BY <1>1, <1>2

\* A page is the part of the rows that starts behind the offset, is no longer
\* than the limit, and is empty only when the offset is at the end.
LEMMA PageOfRows ==
    ASSUME NEW rows \in Seq(Ballot), NEW from \in Nat
    PROVE  /\ limitOffset(rows, PageSize, from) \in Seq(Ballot)
           /\ Len(limitOffset(rows, PageSize, from)) <= PageSize
           /\ from < Len(rows) => limitOffset(rows, PageSize, from) # <<>>
           /\ \A i \in DOMAIN limitOffset(rows, PageSize, from) :
                  /\ from + i \in 1 .. Len(rows)
                  /\ limitOffset(rows, PageSize, from)[i] = rows[from + i]
<1> DEFINE n == Max({0, Min({PageSize, Len(rows) - from})})
           p == limitOffset(rows, PageSize, from)
<1>1. /\ n \in Nat /\ n <= PageSize
      /\ n = 0 \/ n <= Len(rows) - from
      /\ from < Len(rows) => n > 0
  BY AuditAssumption, LimitedCount
<1> HIDE DEF n
<1>2. p = [i \in 1 .. n |-> rows[from + i]]
  BY DEF limitOffset, n
<1>3. \A i \in 1 .. n : from + i \in 1 .. Len(rows) /\ rows[from + i] \in Ballot
  BY <1>1, ElementOfSeq
<1>4. p \in Seq(Ballot) /\ Len(p) = n
  BY <1>1, <1>2, <1>3
<1>5. from < Len(rows) => p # <<>>
  BY <1>1, <1>4
<1>6. \A i \in DOMAIN p : from + i \in 1 .. Len(rows) /\ p[i] = rows[from + i]
  BY <1>2, <1>3
<1> QED
  BY <1>1, <1>4, <1>5, <1>6

\* A SELECT in cast_at order returns every row of the table once.
LEMMA OrderedRows ==
    ASSUME NEW B \in SUBSET Ballot, NEW rows \in castAtOrders(B)
    PROVE  /\ rows \in Seq(B) /\ rows \in Seq(Ballot)
           /\ Len(rows) = Cardinality(B)
           /\ rows \in Bijection(1 .. Cardinality(B), B)
<1> DEFINE n == Cardinality(B)
<1>1. n \in Nat /\ IsFiniteSet(B)
  BY BallotCards
<1>2. /\ rows \in [1 .. n -> B]
      /\ \A i, j \in 1 .. n : i < j => rows[i] # rows[j]
  BY DEF castAtOrders
<1>3. rows \in Seq(B) /\ rows \in Seq(Ballot) /\ Len(rows) = n
  BY <1>1, <1>2
<1>4. rows \in Injection(1 .. n, B)
  <2>1. ASSUME NEW i \in 1 .. n, NEW j \in 1 .. n, rows[i] = rows[j]
        PROVE  i = j
    BY <1>1, <1>2, <2>1
  <2> QED
    BY <1>2, <2>1 DEF Injection, IsInjective
<1>5. Cardinality(1 .. n) = n
  BY <1>1, FS_Interval
<1>6. rows \in Surjection(1 .. n, B)
  BY <1>1, <1>4, <1>5, FS_Injection
<1> QED
  BY <1>3, <1>4, <1>6 DEF Bijection

\* With distinct stamps a row's place in the answer is its place in cast_at
\* order.
LEMMA PlacesOfRows ==
    ASSUME LogTypeOK, distinctStamps, NEW rows \in castAtOrders(log), NEW i \in DOMAIN rows
    PROVE  place(rows[i]) = i - 1
<1> DEFINE n == Cardinality(log)
           earlier == {c \in log : stamp[c] < stamp[rows[i]]}
           f == [k \in 1 .. i - 1 |-> rows[k]]
<1>1. n \in Nat
  BY BallotCards DEF LogTypeOK
<1>2. rows \in [1 .. n -> log] /\ i \in 1 .. n
  BY DEF castAtOrders
<1>3. \A j, k \in 1 .. n : j < k => rows[j] # rows[k] /\ stamp[rows[j]] <= stamp[rows[k]]
  BY DEF castAtOrders
<1>4. \A c \in log : stamp[c] \in Int
  BY BallotLogAssumption DEF LogTypeOK
<1>5. \A j, k \in 1 .. n : j < k => stamp[rows[j]] < stamp[rows[k]]
  BY <1>2, <1>3, <1>4 DEF distinctStamps
<1>6. \A c \in log : \E k \in 1 .. n : rows[k] = c
  BY OrderedRows DEF LogTypeOK, Bijection, Surjection
<1>7. f \in [1 .. i - 1 -> earlier]
  BY <1>1, <1>2, <1>5
<1>8. \A c \in earlier : \E k \in 1 .. i - 1 : f[k] = c
  <2> SUFFICES ASSUME NEW c \in earlier PROVE \E k \in 1 .. i - 1 : f[k] = c
    OBVIOUS
  <2>1. PICK k \in 1 .. n : rows[k] = c
    BY <1>6
  <2>2. ~(k > i) /\ k # i
    BY <1>2, <1>4, <1>5, <2>1
  <2> QED
    BY <1>1, <1>2, <2>1, <2>2
<1>9. f \in Bijection(1 .. i - 1, earlier)
  <2>1. ASSUME NEW j \in 1 .. i - 1, NEW k \in 1 .. i - 1, f[j] = f[k]
        PROVE  j = k
    BY <1>1, <1>2, <1>3, <2>1
  <2> QED
    BY <1>7, <1>8, <2>1 DEF Bijection, Injection, Surjection, IsInjective
<1>10. Cardinality(earlier) = i - 1
  <2>1. i - 1 \in Nat
    BY <1>1, <1>2
  <2> HIDE DEF f, earlier
  <2>2. ExistsBijection(1 .. i - 1, earlier)
    BY <1>9 DEF ExistsBijection
  <2> QED
    BY <2>1, <2>2, FS_CountingElements
<1> QED
  BY <1>10 DEF place

-----------------------------------------------------------------------------
(* Initial states and steps.                                               *)

LEMMA InitIInv == Init => IInv
<1> SUFFICES ASSUME Init PROVE IInv
  OBVIOUS
<1> USE DEF Init, AuditInit
<1>1. LogTypeOK /\ StampsInv /\ log = {}
  BY LogInitial DEF LogInit
<1>2. TypeOK
  <2>1. <<>> \in Seq(Ballot) /\ Len(<<>>) = 0 /\ PageSize >= 0
    BY AuditAssumption
  <2>2. Cardinality(Ballot) \in Nat /\ log \subseteq Ballot
    BY <1>1, BallotCards
  <2>3. /\ offset \in 0 .. Cardinality(Ballot) /\ total \in 0 .. Cardinality(Ballot)
        /\ page \in Seq(Ballot) /\ Len(page) <= PageSize /\ allEntries \in Seq(Ballot)
    BY <2>1, <2>2
  <2>4. proof \in AuditProof \union {NoProof} /\ broken \in BOOLEAN
    OBVIOUS
  <2>5. atOpen \subseteq Ballot
    BY <2>2
  <2> QED
    BY <1>1, <2>3, <2>4, <2>5 DEF TypeOK
<1>3. ToSet(<<>>) = {}
  BY DEF ToSet
<1> QED
  BY <1>1, <1>2, <1>3
     DEF IInv, ReadsInv, OffsetInv, QuietInv, EntriesAreUnderTheRoot

\* While nothing is added, stamped ballots keep their stamps, so every place
\* stays what it is.
LEMMA PlacesStay ==
    ASSUME LogTypeOK, StampsInv, [LogNext]_logVars, log' = log
    PROVE  /\ distinctStamps' = distinctStamps
           /\ \A b \in log : place(b)' = place(b)
<1>1. \A b \in log : stamp'[b] = stamp[b]
  <2>1. \A b \in log : stamp[b] # 0
    BY BallotLogAssumption DEF StampsInv, LogTypeOK
  <2> QED
    BY <2>1, LogStep DEF LogTypeOK
<1>2. \A b \in log :
          {c \in log : stamp'[c] < stamp'[b]} = {c \in log : stamp[c] < stamp[b]}
  BY <1>1
<1> QED
  BY <1>1, <1>2 DEF distinctStamps, place

LEMMA BallotsMoveKeeps == IInv /\ BallotsMove => IInv'
<1> SUFFICES ASSUME IInv, BallotsMove PROVE IInv'
  OBVIOUS
<1>1. /\ LogTypeOK' /\ StampsInv' /\ log \subseteq log'
      /\ log \subseteq Ballot /\ log' \subseteq Ballot
  BY LogStep, StampsStep DEF IInv, TypeOK, BallotsMove, LogTypeOK
<1>2. UNCHANGED <<fetch, offset, total, page, proof, allEntries, broken, atOpen>>
  BY DEF BallotsMove, auditVars
<1>3. /\ Cardinality(log) \in Nat /\ Cardinality(log') \in Nat
      /\ Cardinality(log) <= Cardinality(log')
  BY <1>1, BallotCards, CardsGrow
<1>4. TypeOK'
  BY <1>1, <1>2 DEF IInv, TypeOK
<1>5. ReadsInv'
  BY <1>1, <1>2, <1>3, BallotCards DEF IInv, TypeOK, ReadsInv
<1>6. OffsetInv'
  BY <1>2, <1>3, BallotCards DEF IInv, TypeOK, OffsetInv
<1>7. QuietInv'
  <2>1. CASE log' = log
    <3>1. /\ distinctStamps' = distinctStamps
          /\ \A b \in log : place(b)' = place(b)
      BY <2>1, PlacesStay DEF IInv, TypeOK, BallotsMove
    <3>2. /\ \A i \in DOMAIN allEntries : allEntries[i] \in log
          /\ \A i \in DOMAIN page : page[i] \in log
      BY DEF IInv, TypeOK, ReadsInv, ToSet
    <3>3. SUFFICES ASSUME log = atOpen, distinctStamps PROVE QuietInv'
      BY <1>2, <2>1, <3>1 DEF QuietInv
    <3>4. \A i \in DOMAIN allEntries' : place(allEntries[i])' = i - 1
      BY <1>2, <3>1, <3>2, <3>3 DEF IInv, QuietInv
    <3>5. fetch' = "root" => \A i \in DOMAIN page' : place(page[i])' = offset' + i - 1
      BY <1>2, <3>1, <3>2, <3>3 DEF IInv, QuietInv
    <3> QED
      BY <1>2, <2>1, <3>3, <3>4, <3>5 DEF IInv, QuietInv
  <2>2. CASE log' # log
    BY <1>1, <1>2, <2>2 DEF IInv, ReadsInv, QuietInv
  <2> QED
    BY <2>1, <2>2
<1>8. EntriesAreUnderTheRoot'
  BY <1>2 DEF IInv, EntriesAreUnderTheRoot
<1> QED
  BY <1>1, <1>4, <1>5, <1>6, <1>7, <1>8 DEF IInv

LEMMA CountBallotsKeeps == IInv /\ CountBallots => IInv'
<1> SUFFICES ASSUME IInv, CountBallots PROVE IInv'
  OBVIOUS
<1> USE DEF IInv, CountBallots
<1>1. UNCHANGED logVars /\ UNCHANGED <<now, stamp, pending, log>>
  BY DEF logVars
<1>2. /\ Cardinality(log) \in Nat /\ Cardinality(log) <= Cardinality(Ballot)
  BY BallotCards DEF TypeOK, LogTypeOK
<1>3. TypeOK' /\ StampsInv'
  BY <1>1, <1>2, BallotCards DEF TypeOK, LogTypeOK, StampsInv
<1>4. ReadsInv' /\ OffsetInv' /\ EntriesAreUnderTheRoot'
  BY <1>1, <1>2 DEF ReadsInv, OffsetInv, EntriesAreUnderTheRoot
<1>5. QuietInv'
  BY <1>1 DEF QuietInv, distinctStamps, place
<1> QED
  BY <1>3, <1>4, <1>5

LEMMA SelectPageKeeps == IInv /\ SelectPage => IInv'
<1> SUFFICES ASSUME IInv, SelectPage PROVE IInv'
  OBVIOUS
<1>1. /\ UNCHANGED <<now, stamp, pending, log>>
      /\ UNCHANGED <<offset, total, proof, allEntries, broken, atOpen>>
      /\ fetch = "page" /\ fetch' = "root"
  BY DEF SelectPage, logVars
<1>2. PICK rows \in castAtOrders(log) : page' = limitOffset(rows, PageSize, offset)
  BY DEF SelectPage
<1>3. LogTypeOK /\ log \in SUBSET Ballot /\ offset \in Nat
  BY BallotCards DEF IInv, TypeOK, LogTypeOK
<1>4. /\ rows \in Seq(Ballot) /\ Len(rows) = Cardinality(log)
      /\ \A i \in 1 .. Len(rows) : rows[i] \in log
  BY <1>3, OrderedRows, ElementOfSeq
<1>5. /\ page' \in Seq(Ballot) /\ Len(page') <= PageSize
      /\ offset < Len(rows) => page' # <<>>
      /\ \A i \in DOMAIN page' : /\ offset + i \in 1 .. Len(rows)
                                 /\ page'[i] = rows[offset + i]
  BY <1>2, <1>3, <1>4, PageOfRows
<1>6. TypeOK' /\ StampsInv'
  BY <1>1, <1>5 DEF IInv, TypeOK, LogTypeOK, StampsInv
<1>7. ToSet(page') \subseteq log
  BY <1>4, <1>5 DEF ToSet
<1>8. ReadsInv'
  BY <1>1, <1>7 DEF IInv, ReadsInv
<1>9. OffsetInv'
  BY <1>1, <1>4, <1>5 DEF IInv, OffsetInv
<1>10. QuietInv'
  <2>1. distinctStamps' = distinctStamps
    BY <1>1 DEF distinctStamps
  <2>2. distinctStamps => \A i \in 1 .. Len(rows) : place(rows[i]) = i - 1
    BY <1>3, <1>4, PlacesOfRows
  <2>3. distinctStamps => \A i \in DOMAIN page' : place(page[i])' = offset + i - 1
    <3> SUFFICES ASSUME distinctStamps, NEW i \in DOMAIN page'
                 PROVE  place(page[i])' = offset + i - 1
      OBVIOUS
    <3>1. page'[i] = rows[offset + i] /\ offset + i \in 1 .. Len(rows)
      BY <1>5
    <3>2. place(rows[offset + i]) = offset + i - 1
      <4>1. i \in Nat /\ (offset + i) - 1 = offset + i - 1
        BY <1>3, <1>5
      <4> QED
        BY <2>2, <3>1, <4>1
    <3> QED
      BY <1>1, <3>1, <3>2 DEF place
  <2>4. \A i \in DOMAIN allEntries : place(allEntries[i])' = place(allEntries[i])
    BY <1>1 DEF place
  <2> QED
    BY <1>1, <2>1, <2>3, <2>4 DEF IInv, QuietInv
<1>11. EntriesAreUnderTheRoot'
  BY <1>1 DEF IInv, EntriesAreUnderTheRoot
<1> QED
  BY <1>6, <1>8, <1>9, <1>10, <1>11 DEF IInv

\* What the website holds after an answer: what it had, then the page.
LEMMA EntriesCollected ==
    ASSUME IInv, ComputeRoot
    PROVE  /\ allEntries' \in Seq(Ballot)
           /\ Len(allEntries') = Len(allEntries) + Len(page)
           /\ \A i \in DOMAIN allEntries' :
                  allEntries'[i] = IF i <= offset THEN allEntries[i] ELSE page[i - offset]
<1>1. /\ allEntries \in Seq(Ballot) /\ page \in Seq(Ballot)
      /\ offset = Len(allEntries)
  BY DEF IInv, TypeOK, OffsetInv, ComputeRoot
<1>2. CASE offset = 0
  <2>1. allEntries' = page /\ Len(allEntries) = 0
    BY <1>1, <1>2 DEF ComputeRoot
  <2> QED
    BY <1>1, <1>2, <2>1
<1>3. CASE offset # 0
  <2>1. allEntries' = allEntries \o page
    BY <1>3 DEF ComputeRoot
  <2> QED
    BY <1>1, <1>3, <2>1
<1> QED
  BY <1>2, <1>3

LEMMA ComputeRootKeeps == IInv /\ ComputeRoot => IInv'
<1> SUFFICES ASSUME IInv, ComputeRoot PROVE IInv'
  OBVIOUS
<1>1. /\ UNCHANGED <<now, stamp, pending, log>>
      /\ UNCHANGED <<offset, total, page, broken, atOpen>>
      /\ fetch = "root" /\ fetch' = "none"
      /\ proof' = [total |-> total, auditRoot |-> log]
  BY DEF ComputeRoot, logVars, computeAuditRoot
<1>2. /\ allEntries' \in Seq(Ballot)
      /\ Len(allEntries') = Len(allEntries) + Len(page)
      /\ \A i \in DOMAIN allEntries' :
             allEntries'[i] = IF i <= offset THEN allEntries[i] ELSE page[i - offset]
  BY EntriesCollected
<1>3. /\ allEntries \in Seq(Ballot) /\ page \in Seq(Ballot)
      /\ offset = Len(allEntries) /\ total \in Nat /\ log \in SUBSET Ballot
  BY <1>1, BallotCards DEF IInv, TypeOK, LogTypeOK, OffsetInv
<1>4. proof'.total = total /\ proof'.auditRoot = log /\ proof' \in AuditProof
  BY <1>1, <1>3 DEF AuditProof
<1>5. TypeOK' /\ StampsInv'
  BY <1>1, <1>2, <1>4 DEF IInv, TypeOK, LogTypeOK, StampsInv
<1>6. \A i \in DOMAIN allEntries' :
          \/ i \in DOMAIN allEntries /\ i <= offset
          \/ i - offset \in DOMAIN page /\ i > offset
  BY <1>2, <1>3
<1>7. ToSet(allEntries') \subseteq log
  <2>1. /\ \A i \in DOMAIN allEntries : allEntries[i] \in log
        /\ \A i \in DOMAIN page : page[i] \in log
    BY DEF IInv, ReadsInv, ToSet
  <2>2. \A i \in DOMAIN allEntries' : allEntries'[i] \in log
    <3> TAKE i \in DOMAIN allEntries'
    <3>1. CASE i \in DOMAIN allEntries /\ i <= offset
      BY <1>2, <2>1, <3>1
    <3>2. CASE i - offset \in DOMAIN page /\ i > offset
      BY <1>2, <1>3, <2>1, <3>2
    <3> QED
      BY <1>6, <3>1, <3>2
  <2> QED
    BY <2>2 DEF ToSet
<1>8. ReadsInv'
  BY <1>1, <1>4, <1>7 DEF IInv, ReadsInv
<1>9. OffsetInv'
  BY <1>1 DEF OffsetInv
<1>10. QuietInv'
  <2>1. distinctStamps' = distinctStamps
    BY <1>1 DEF distinctStamps
  <2> SUFFICES ASSUME log = atOpen, distinctStamps PROVE QuietInv'
    BY <1>1, <2>1 DEF QuietInv
  <2>2. /\ \A i \in DOMAIN allEntries : place(allEntries[i]) = i - 1
        /\ \A i \in DOMAIN page : place(page[i]) = offset + i - 1
        /\ total = Cardinality(log)
    BY <1>1 DEF IInv, QuietInv
  <2>3. ASSUME NEW i \in DOMAIN allEntries' PROVE place(allEntries'[i]) = i - 1
    <3>1. CASE i <= offset
      <4>1. i \in DOMAIN allEntries /\ allEntries'[i] = allEntries[i]
        BY <1>2, <1>3, <1>6, <3>1
      <4> QED
        BY <2>2, <4>1
    <3>2. CASE i > offset
      <4>1. i - offset \in DOMAIN page /\ allEntries'[i] = page[i - offset]
        BY <1>2, <1>3, <1>6, <3>2
      <4>2. place(page[i - offset]) = offset + (i - offset) - 1
        BY <2>2, <4>1
      <4> QED
        BY <1>2, <1>3, <4>1, <4>2
    <3> QED
      BY <1>2, <1>3, <3>1, <3>2
  <2>4. \A i \in DOMAIN allEntries' : place(allEntries[i])' = i - 1
    BY <1>1, <2>3 DEF place
  <2> QED
    BY <1>1, <1>4, <2>2, <2>4 DEF QuietInv
<1>11. EntriesAreUnderTheRoot'
  BY <1>1, <1>4, <1>7 DEF IInv, ReadsInv, EntriesAreUnderTheRoot
<1> QED
  BY <1>5, <1>8, <1>9, <1>10, <1>11 DEF IInv

LEMMA FetchFailsKeeps == IInv /\ FetchFails => IInv'
<1> SUFFICES ASSUME IInv, FetchFails PROVE IInv'
  OBVIOUS
<1>1. /\ UNCHANGED <<now, stamp, pending, log>>
      /\ UNCHANGED <<offset, total, page, proof, allEntries, atOpen>>
      /\ fetch' = "none" /\ broken' = TRUE
  BY DEF FetchFails, logVars
<1>2. TypeOK' /\ StampsInv'
  BY <1>1 DEF IInv, TypeOK, LogTypeOK, StampsInv
<1> QED
  BY <1>1, <1>2 DEF IInv, ReadsInv, OffsetInv, QuietInv, distinctStamps, place,
                    EntriesAreUnderTheRoot

\* The website asks for rows the last answer has counted, and no row goes away.
LEMMA LoadMoreKeeps == IInv /\ LoadMore => IInv'
<1> SUFFICES ASSUME IInv, LoadMore PROVE IInv'
  OBVIOUS
<1>1. /\ UNCHANGED <<now, stamp, pending, log>>
      /\ UNCHANGED <<total, page, proof, allEntries, broken, atOpen>>
      /\ fetch' = "count" /\ offset' = Len(allEntries)
  BY DEF LoadMore, logVars
<1>2. proof # NoProof /\ Len(allEntries) < proof.total
  BY DEF LoadMore, hasMore
<1>3. /\ proof.total <= Cardinality(proof.auditRoot) /\ proof.auditRoot \subseteq log
      /\ log \in SUBSET Ballot /\ Len(allEntries) \in Nat /\ proof.total \in Nat
  BY <1>2 DEF IInv, TypeOK, LogTypeOK, AuditProof, ReadsInv, EntriesAreUnderTheRoot
<1>4. /\ Cardinality(proof.auditRoot) <= Cardinality(log)
      /\ Cardinality(log) <= Cardinality(Ballot)
      /\ Cardinality(log) \in Nat /\ Cardinality(proof.auditRoot) \in Nat
      /\ Cardinality(Ballot) \in Nat
  BY <1>3, CardsGrow, BallotCards
<1>5. Len(allEntries) \in 0 .. Cardinality(Ballot) /\ Len(allEntries) < Cardinality(log)
  BY <1>2, <1>3, <1>4
<1>6. TypeOK' /\ StampsInv'
  BY <1>1, <1>5 DEF IInv, TypeOK, LogTypeOK, StampsInv
<1>7. OffsetInv'
  BY <1>1, <1>5 DEF OffsetInv
<1> QED
  BY <1>1, <1>6, <1>7 DEF IInv, ReadsInv, QuietInv, distinctStamps, place,
                          EntriesAreUnderTheRoot

LEMMA ReopenKeeps == IInv /\ Reopen => IInv'
<1> SUFFICES ASSUME IInv, Reopen PROVE IInv'
  OBVIOUS
<1>1. /\ UNCHANGED <<now, stamp, pending, log>>
      /\ fetch' = "count" /\ offset' = 0 /\ total' = 0 /\ page' = <<>>
      /\ proof' = NoProof /\ allEntries' = <<>> /\ broken' = FALSE /\ atOpen' = log
  BY DEF Reopen, logVars
<1>2. /\ <<>> \in Seq(Ballot) /\ Len(<<>>) = 0 /\ 0 <= PageSize
      /\ 0 \in 0 .. Cardinality(Ballot) /\ ToSet(<<>>) = {}
  BY AuditAssumption, BallotCards DEF ToSet
<1>3. TypeOK' /\ StampsInv'
  BY <1>1, <1>2 DEF IInv, TypeOK, LogTypeOK, StampsInv
<1> QED
  BY <1>1, <1>2, <1>3 DEF IInv, ReadsInv, OffsetInv, QuietInv, EntriesAreUnderTheRoot

LEMMA IInvInd == IInv /\ [Next]_vars => IInv'
<1>1. IInv /\ UNCHANGED vars => IInv'
  BY DEF vars, auditVars, logVars, IInv, TypeOK, LogTypeOK, StampsInv, ReadsInv,
         OffsetInv, QuietInv, distinctStamps, place, EntriesAreUnderTheRoot
<1> QED
  BY <1>1, BallotsMoveKeeps, CountBallotsKeeps, SelectPageKeeps, ComputeRootKeeps,
     FetchFailsKeeps, LoadMoreKeeps, ReopenKeeps DEF Next, AuditRequest

-----------------------------------------------------------------------------
(* Theorems.                                                               *)

\* The inductive invariant of the audit holds in every reachable state.
THEOREM AuditInvariance == Spec => []IInv
BY InitIInv, IInvInd, PTL DEF Spec

\* Rows, the request's locals and the page keep their shape, and no page is
\* longer than the limit.
THEOREM AuditTypes == Spec => []TypeOK
<1>1. IInv => TypeOK
  BY DEF IInv
<1> QED
  BY <1>1, AuditInvariance, PTL

\* The root of the last answer covers all the visitor has collected, though
\* the count, the page and the root come from three reads of a growing table.
THEOREM RootCoversTheEntries == Spec => []EntriesAreUnderTheRoot
<1>1. IInv => EntriesAreUnderTheRoot
  BY DEF IInv
<1> QED
  BY <1>1, AuditInvariance, PTL

\* With no ballot since the page was opened and all stamps different, a
\* finished audit is the table: every ballot once, under the root of the list.
THEOREM QuietAuditsAreExact == Spec => []QuietAuditIsExact
<1>1. IInv => QuietAuditIsExact
  <2> SUFFICES ASSUME IInv, finished, log = atOpen, distinctStamps
               PROVE  /\ Len(allEntries) = Cardinality(log)
                      /\ ToSet(allEntries) = log
                      /\ proof.auditRoot = log
    BY DEF QuietAuditIsExact
  <2> DEFINE n == Len(allEntries)
  <2>1. /\ \A i \in DOMAIN allEntries : place(allEntries[i]) = i - 1
        /\ proof # NoProof /\ proof.total = Cardinality(log) /\ proof.auditRoot = log
    BY DEF IInv, QuietInv, finished
  <2>2. /\ n \in Nat /\ allEntries \in Seq(Ballot) /\ log \in SUBSET Ballot
        /\ \A i \in DOMAIN allEntries : allEntries[i] \in log
    BY DEF IInv, TypeOK, LogTypeOK, ReadsInv, ToSet
  <2>3. IsFiniteSet(log) /\ Cardinality(log) \in Nat
    BY <2>2, BallotCards
  <2>4. Cardinality(log) <= n
    BY <2>1, <2>2, <2>3 DEF finished, hasMore
  <2>5. allEntries \in Injection(1 .. n, log)
    <3>1. allEntries \in [1 .. n -> log]
      BY <2>2
    <3>2. ASSUME NEW i \in 1 .. n, NEW j \in 1 .. n, allEntries[i] = allEntries[j]
          PROVE  i = j
      <4>1. i - 1 = j - 1
        BY <2>1, <3>1, <3>2
      <4> QED
        BY <4>1
    <3> QED
      BY <3>1, <3>2 DEF Injection, IsInjective
  <2>6. IsFiniteSet(1 .. n) /\ Cardinality(1 .. n) = n
    BY <2>2, FS_Interval
  <2>7. n = Cardinality(log) /\ allEntries \in Surjection(1 .. n, log)
    BY <2>2, <2>3, <2>4, <2>5, <2>6, FS_Injection
  <2>8. ToSet(allEntries) = log
    BY <2>2, <2>7 DEF ToSet, Surjection
  <2> QED
    BY <2>1, <2>7, <2>8
<1> QED
  BY <1>1, AuditInvariance, PTL

\* Every answer to "load more" brings an entry, whatever was committed since
\* the visitor's last page.
THEOREM LoadMoreAdvances == Spec => LoadMoreBringsEntries
<1>1. IInv /\ ComputeRoot /\ offset # 0 => Len(allEntries') > Len(allEntries)
  <2> SUFFICES ASSUME IInv, ComputeRoot, offset # 0
               PROVE  Len(allEntries') > Len(allEntries)
    OBVIOUS
  <2>1. page # <<>> /\ page \in Seq(Ballot) /\ allEntries \in Seq(Ballot)
    BY DEF IInv, TypeOK, OffsetInv, ComputeRoot
  <2>2. Len(page) > 0
    BY <2>1, EmptySeq, LenProperties
  <2> QED
    BY <2>1, <2>2, EntriesCollected
<1> QED
  BY <1>1, AuditInvariance, PTL DEF LoadMoreBringsEntries
=============================================================================
