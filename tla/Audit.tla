------------------------------- MODULE Audit -------------------------------
(***************************************************************************)
(* The public audit: GET /polls/{id}/audit, three reads of the table per   *)
(* page (a count, a page in cast_at order, all rows for the root), and the *)
(* page of the website that collects the ballots page by page, while other *)
(* ballots are stamped and committed.                                      *)
(***************************************************************************)
EXTENDS BallotLog, SequencesExt

CONSTANT PageSize   \* ballots per page, the limit the website asks for

ASSUME AuditAssumption ==
    /\ IsFiniteSet(Ballot)
    /\ PageSize \in Nat \ {0}

VARIABLES
    fetch,      \* the next read of the request in flight, "none" without one
    offset,     \* offset of the request in flight
    total,      \* what its COUNT returned
    page,       \* what its SELECT of a page returned
    proof,      \* total and auditRoot of the last answer, NoProof before
    allEntries, \* the entries the website has collected
    broken,     \* the website shows an error instead of the audit
    atOpen      \* history: the ballots in the table when the page was opened

auditVars == <<fetch, offset, total, page, proof, allEntries, broken, atOpen>>
vars == <<logVars, auditVars>>

NoProof == [none |-> TRUE]
AuditProof == [total: Nat, auditRoot: SUBSET Ballot]

AuditInit ==
    /\ fetch = "count"
    /\ offset = 0
    /\ total = 0
    /\ page = <<>>
    /\ proof = NoProof
    /\ allEntries = <<>>
    /\ broken = FALSE
    /\ atOpen = log

Init == LogInit /\ AuditInit

-----------------------------------------------------------------------------
\* The orders ORDER BY cast_at ASC may return the rows in: nothing decides
\* between rows that carry the same stamp.
castAtOrders(B) ==
    {s \in [1 .. Cardinality(B) -> B] :
        \A i, j \in 1 .. Cardinality(B) :
            i < j => s[i] # s[j] /\ stamp[s[i]] <= stamp[s[j]]}

anyOrders(B) ==
    {s \in [1 .. Cardinality(B) -> B] :
        \A i, j \in 1 .. Cardinality(B) : i < j => s[i] # s[j]}

\* LIMIT limit OFFSET from.
limitOffsetPeekSlip(rows, limit, from) ==
    [i \in 1 .. Max({0, Min({limit + 1, Len(rows) - from})}) |-> rows[from + i]]
limitOffsetSlip(rows, limit, from) ==
    [i \in 1 .. Max({0, Min({limit, Len(rows) - from - 1})}) |-> rows[from + 1 + i]]
limitOffset(rows, limit, from) ==
    [i \in 1 .. Max({0, Min({limit, Len(rows) - from})}) |-> rows[from + i]]

computeAuditRoot(B) == B

hasMore == proof # NoProof /\ Len(allEntries) < proof.total
finished == proof # NoProof /\ fetch = "none" /\ ~hasMore
-----------------------------------------------------------------------------
(* One request of the audit.                                               *)

CountBallots ==
    /\ fetch = "count"
    /\ fetch' = "page"
    /\ total' = Cardinality(log)
    /\ UNCHANGED <<offset, page, proof, allEntries, broken, atOpen, logVars>>

\* The ORDER BY forgotten.
SelectPageSlip ==
    /\ fetch = "page"
    /\ fetch' = "root"
    /\ \E rows \in anyOrders(log) : page' = limitOffset(rows, PageSize, offset)
    /\ UNCHANGED <<offset, total, proof, allEntries, broken, atOpen, logVars>>

SelectPage ==
    /\ fetch = "page"
    /\ fetch' = "root"
    /\ \E rows \in castAtOrders(log) : page' = limitOffset(rows, PageSize, offset)
    /\ UNCHANGED <<offset, total, proof, allEntries, broken, atOpen, logVars>>

\* The root taken over the page instead of over all rows.
ComputeRootSlip ==
    /\ fetch = "root"
    /\ fetch' = "none"
    /\ proof' = [total |-> total, auditRoot |-> computeAuditRoot(ToSet(page))]
    /\ allEntries' = IF offset = 0 THEN page ELSE allEntries \o page
    /\ UNCHANGED <<offset, total, page, broken, atOpen, logVars>>

\* All rows are read for the root, and the website gets its answer.
ComputeRoot ==
    /\ fetch = "root"
    /\ fetch' = "none"
    /\ proof' = [total |-> total, auditRoot |-> computeAuditRoot(log)]
    /\ allEntries' = IF offset = 0 THEN page ELSE allEntries \o page
    /\ UNCHANGED <<offset, total, page, broken, atOpen, logVars>>

\* A read fails or the answer is lost: the website shows the error for good.
FetchFails ==
    /\ fetch # "none"
    /\ fetch' = "none"
    /\ broken' = TRUE
    /\ UNCHANGED <<offset, total, page, proof, allEntries, atOpen, logVars>>

AuditRequest == CountBallots \/ SelectPage \/ ComputeRoot \/ FetchFails

-----------------------------------------------------------------------------
(* The visitor.                                                            *)

\* "Load more" is there while entries are missing and disabled while loading.
LoadMore ==
    /\ fetch = "none"
    /\ ~broken
    /\ hasMore
    /\ fetch' = "count"
    /\ offset' = Len(allEntries)
    /\ UNCHANGED <<total, page, proof, allEntries, broken, atOpen, logVars>>

\* The page is left and opened again, after an error or at any time.
Reopen ==
    /\ fetch' = "count"
    /\ offset' = 0
    /\ total' = 0
    /\ page' = <<>>
    /\ proof' = NoProof
    /\ allEntries' = <<>>
    /\ broken' = FALSE
    /\ atOpen' = log
    /\ UNCHANGED logVars

BallotsMove == LogNext /\ UNCHANGED auditVars

Next ==
    \/ BallotsMove
    \/ AuditRequest
    \/ LoadMore \/ Reopen

Spec == Init /\ [][Next]_vars

-----------------------------------------------------------------------------
(* Properties.                                                             *)

\* Every variable has the shape its row, local or page state has, and the
\* page never lists more ballots than the last answer and the next one allow.
TypeOK ==
    /\ LogTypeOK
    /\ fetch \in {"none", "count", "page", "root"}
    /\ offset \in 0 .. Cardinality(Ballot)
    /\ total \in 0 .. Cardinality(Ballot)
    /\ page \in Seq(Ballot) /\ Len(page) <= PageSize
    /\ proof \in AuditProof \union {NoProof}
    /\ allEntries \in Seq(Ballot)
    /\ broken \in BOOLEAN
    /\ atOpen \subseteq Ballot

\* Though total, page and root come from three reads, with ballots arriving in
\* between and between pages, the last answer's root covers every entry the
\* visitor has collected, and its total counts no ballot the root leaves out.
EntriesAreUnderTheRoot ==
    proof # NoProof =>
        /\ ToSet(allEntries) \subseteq proof.auditRoot
        /\ proof.total <= Cardinality(proof.auditRoot)

distinctStamps == \A b, c \in log : stamp[b] = stamp[c] => b = c

\* If no ballot was committed since the page was opened and no two ballots
\* carry the same stamp, a finished audit lists every ballot exactly once, and
\* the root shown is the root of the list.
QuietAuditIsExact ==
    (finished /\ ~broken /\ log = atOpen /\ distinctStamps) =>
        /\ Len(allEntries) = Cardinality(log)
        /\ ToSet(allEntries) = log
        /\ proof.auditRoot = log

\* Each answer to "load more" brings at least one entry, also when the pages
\* have shifted under the visitor: nobody clicks it forever.
LoadMoreBringsEntries ==
    [][ComputeRoot /\ offset # 0 => Len(allEntries') > Len(allEntries)]_vars

\* Stated by the model ("anyone can verify the AuditRoot by fetching all
\* pages") and refuted even with distinct stamps: a ballot stamped early and
\* committed late pushes one already listed onto the next page, where it is
\* listed again, and is itself on no page that is still to be fetched.
NoBallotIsListedTwice ==
    (finished /\ ~broken /\ distinctStamps) => IsInjective(allEntries)
=============================================================================
