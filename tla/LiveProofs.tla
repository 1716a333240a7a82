---------------------------- MODULE LiveProofs ----------------------------
(***************************************************************************)
(* Theorems about LiveResults, for every set of ballots, pages and streams *)
(* and every capacity of the channels.                                     *)
(***************************************************************************)
EXTENDS LiveResults, BallotLogProofs

-----------------------------------------------------------------------------
(* The inductive invariant.                                                *)

\* A page listens to a stream whose handler runs, and shares it with no other.
SourcesInv ==
    /\ \A p \in Page : source[p] \in Stream => source[p] \in handling
    /\ \A p, q \in Page : source[p] = source[q] /\ source[p] \in Stream => p = q

\* A goroutine that is about to count has its own ballot, and those that were
\* there before it, still in the table.
CountsInv ==
    \A b \in Ballot : announcing[b] = "count" => rank[b] <= Cardinality(log)

IInv ==
    /\ TypeOK
    /\ NoSendOnClosedChannel
    /\ SourcesInv
    /\ VotesReachTheChart
    /\ CountsInv
    /\ TotalsCountTheirBallot

-----------------------------------------------------------------------------
(* The table and the channels.                                             *)

\* The counts of the tables that hold some ballots are numbers.
LEMMA LogFinite ==
    ASSUME LogTypeOK
    PROVE  IsFiniteSet(log) /\ Cardinality(log) \in Nat
BY LiveAssumption, FS_Subset, FS_CardinalityType DEF LogTypeOK

\* The table only grows.
LEMMA LogGrows ==
    ASSUME LogTypeOK, [Next]_vars
    PROVE  /\ LogTypeOK'
           /\ log \subseteq log'
           /\ Cardinality(log') \in Nat
           /\ Cardinality(log) <= Cardinality(log')
<1>1. LogTypeOK' /\ log \subseteq log'
  <2>1. [LogNext]_logVars
    BY DEF Next, vars, BallotsMove, CastBallot, CountVotesByPoll, Publish, Subscribe, Timeout,
           HubStep, Remove, CloseChannel, SendEvent, HandlerReturns, OpenPage, ClosePage,
           Disconnect, TwoSecondsPass, Restart, LogNext
  <2> QED
    BY <2>1, LogStep
<1>2. IsFiniteSet(log')
  BY <1>1, LiveAssumption, FS_Subset DEF LogTypeOK
<1> QED
  BY <1>1, <1>2, FS_Subset, FS_CardinalityType

\* After an offer a channel holds something, and never more than it can.
LEMMA OfferFills ==
    ASSUME NEW q \in Seq(Nat), NEW n \in Nat, Len(q) <= ChanCap
    PROVE  /\ offer(q, n) \in Seq(Nat)
           /\ Len(offer(q, n)) <= ChanCap
           /\ offer(q, n) # <<>>
<1>1. CASE Len(q) < ChanCap
  <2>1. Append(q, n) \in Seq(Nat) /\ Len(Append(q, n)) = Len(q) + 1
    OBVIOUS
  <2>2. Append(q, n) # <<>>
    OBVIOUS
  <2>3. offer(q, n) = Append(q, n)
    BY <1>1 DEF offer
  <2>4. Len(q) + 1 <= ChanCap
    BY <1>1, LiveAssumption
  <2> QED
    BY <2>1, <2>2, <2>3, <2>4
<1>2. CASE ~(Len(q) < ChanCap)
  BY <1>2, LiveAssumption DEF offer
<1> QED
  BY <1>1, <1>2

\* A count that failed adds up the rows of some ballots of the table.
LEMMA ReadsAreSome ==
    ASSUME LogTypeOK, NEW options
    PROVE  votesRead(options) \in Nat /\ votesRead(options) <= Cardinality(log)
<1>1. {c \in log : choice[c] \in options} \subseteq log
  OBVIOUS
<1>2. /\ IsFiniteSet({c \in log : choice[c] \in options})
      /\ Cardinality({c \in log : choice[c] \in options}) <= Cardinality(log)
  BY <1>1, LogFinite, FS_Subset
<1> QED
  BY <1>2, FS_CardinalityType DEF votesRead

LEMMA CutOffType ==
    ASSUME TypeOK, NEW ending
    PROVE  cutOff(ending) \in [Page -> SUBSET Ballot]
BY DEF TypeOK, cutOff

-----------------------------------------------------------------------------
(* Type correctness.                                                       *)

LEMMA InitIInv == Init => IInv
<1> SUFFICES ASSUME Init PROVE IInv
  OBVIOUS
<1>1. TypeOK
  BY BallotLogAssumption, LiveAssumption DEF Init, LogInit, TypeOK, LogTypeOK
<1> QED
  BY <1>1, LiveAssumption
     DEF Init, IInv, NoSendOnClosedChannel, SourcesInv, VotesReachTheChart, CountsInv,
         TotalsCountTheirBallot

LEMMA TypeStep == TypeOK /\ [Next]_vars => TypeOK'
<1> SUFFICES ASSUME TypeOK, [Next]_vars PROVE TypeOK'
  OBVIOUS
<1>0. LogTypeOK' /\ LogTypeOK /\ Cardinality(log) \in Nat /\ Cardinality(log') \in Nat
  BY LogGrows, LogFinite DEF TypeOK
<1> USE <1>0 DEF TypeOK, countVars
<1>1. CASE BallotsMove \/ UNCHANGED vars
  BY <1>1 DEF BallotsMove, vars, hubVars, pageVars
<1>2. ASSUME NEW b \in Ballot, CastBallot(b)
      PROVE  TypeOK'
  BY <1>2 DEF CastBallot, pageVars
<1>3. ASSUME NEW b \in Ballot, CountVotesByPoll(b)
      PROVE  TypeOK'
  <2>1. PICK n \in Nat : total' = [total EXCEPT ![b] = n]
    BY <1>3, ReadsAreSome DEF CountVotesByPoll, votesSeen
  <2>2. failed' \subseteq Ballot
    BY <1>3 DEF CountVotesByPoll
  <2> QED
    BY <1>3, <2>1, <2>2 DEF CountVotesByPoll, pageVars
<1>4. ASSUME NEW b \in Ballot, Publish(b)
      PROVE  TypeOK'
  <2>1. \A s \in Stream : /\ offer(queue[s], total[b]) \in Seq(Nat)
                          /\ Len(offer(queue[s], total[b])) <= ChanCap
    BY OfferFills
  <2>2. queue' \in [Stream -> Seq(Nat)] /\ \A s \in Stream : Len(queue'[s]) <= ChanCap
    BY <1>4, <2>1 DEF Publish
  <2>3. behind' \in [Page -> SUBSET Ballot] /\ missed' \in [Page -> SUBSET Ballot]
    BY <1>4 DEF Publish
  <2> QED
    BY <1>4, <2>2, <2>3 DEF Publish
<1>5. ASSUME NEW p \in Page, NEW s \in Stream, Subscribe(p, s)
      PROVE  TypeOK'
  BY <1>5, LiveAssumption DEF Subscribe
<1>6. ASSUME NEW s \in Stream, Timeout(s) \/ Remove(s) \/ CloseChannel(s)
      PROVE  TypeOK'
  BY <1>6 DEF Timeout, Remove, CloseChannel, pageVars
<1>7. ASSUME NEW s \in Stream, SendEvent(s)
      PROVE  TypeOK'
  <2>1. Tail(queue[s]) \in Seq(Nat) /\ Len(Tail(queue[s])) <= ChanCap
    BY <1>7, LiveAssumption DEF SendEvent
  <2>2. queue' \in [Stream -> Seq(Nat)] /\ \A t \in Stream : Len(queue'[t]) <= ChanCap
    BY <1>7, <2>1 DEF SendEvent
  <2>3. /\ throttled' \subseteq Page
        /\ behind' \in [Page -> SUBSET Ballot]
        /\ ignored' \in [Page -> SUBSET Ballot]
        /\ missed' \in [Page -> SUBSET Ballot]
    BY <1>7 DEF SendEvent, onmessage, beginFetch
  <2> QED
    BY <1>7, <2>2, <2>3 DEF SendEvent
<1>8. ASSUME NEW s \in Stream, HandlerReturns(s)
      PROVE  TypeOK'
  BY <1>8, CutOffType DEF HandlerReturns
<1>9. ASSUME NEW p \in Page, OpenPage(p) \/ TwoSecondsPass(p)
      PROVE  TypeOK'
  BY <1>9 DEF OpenPage, TwoSecondsPass, hubVars
<1>10. ASSUME NEW p \in Page, ClosePage(p)
       PROVE  TypeOK'
  <2>1. /\ source' \in [Page -> Stream \union {"none", "connecting"}]
        /\ cancelled' \subseteq Stream
        /\ throttled' \subseteq Page
    BY <1>10 DEF ClosePage
  <2>2. /\ behind' \in [Page -> SUBSET Ballot]
        /\ ignored' \in [Page -> SUBSET Ballot]
        /\ missed' \in [Page -> SUBSET Ballot]
    BY <1>10 DEF ClosePage
  <2> QED
    BY <1>10, <2>1, <2>2 DEF ClosePage
<1>11. ASSUME NEW p \in Page, Disconnect(p)
       PROVE  TypeOK'
  <2>1. missed' \in [Page -> SUBSET Ballot]
    BY <1>11, CutOffType DEF Disconnect
  <2> QED
    BY <1>11, <2>1 DEF Disconnect
<1>12. CASE Restart
  <2>1. missed' \in [Page -> SUBSET Ballot]
    BY <1>12, CutOffType DEF Restart
  <2> QED
    BY <1>12, <2>1, LiveAssumption DEF Restart
<1> QED
  BY <1>1, <1>2, <1>3, <1>4, <1>5, <1>6, <1>7, <1>8, <1>9, <1>10, <1>11,
     <1>12 DEF Next, HubStep

-----------------------------------------------------------------------------
(* The other invariants, each over one step.                               *)

\* A channel enters the list open, and leaves it before it is closed.
LEMMA NoSendStep ==
    TypeOK /\ NoSendOnClosedChannel /\ [Next]_vars => NoSendOnClosedChannel'
<1> SUFFICES ASSUME TypeOK, NoSendOnClosedChannel, [Next]_vars
             PROVE  NoSendOnClosedChannel'
  OBVIOUS
<1> USE DEF NoSendOnClosedChannel
<1>1. ASSUME NEW p \in Page, NEW s \in Stream, Subscribe(p, s)
      PROVE  NoSendOnClosedChannel'
  BY <1>1 DEF Subscribe
<1>2. ASSUME NEW s \in Stream, Remove(s) \/ CloseChannel(s)
      PROVE  NoSendOnClosedChannel'
  BY <1>2 DEF Remove, CloseChannel, toClose
<1>3. CASE Restart
  BY <1>3 DEF Restart
<1>4. CASE UNCHANGED <<subs, closed>>
  BY <1>4
<1> QED
  BY <1>1, <1>2, <1>3, <1>4
     DEF Next, vars, hubVars, BallotsMove, CastBallot, CountVotesByPoll, Publish, Timeout,
         HubStep, SendEvent, HandlerReturns, OpenPage, ClosePage, Disconnect, TwoSecondsPass

LEMMA SourcesStep == TypeOK /\ SourcesInv /\ [Next]_vars => SourcesInv'
<1> SUFFICES ASSUME TypeOK, SourcesInv, [Next]_vars
             PROVE  SourcesInv'
  OBVIOUS
<1> USE LiveAssumption DEF TypeOK, SourcesInv
<1>1. ASSUME NEW p \in Page, NEW s \in Stream, Subscribe(p, s)
      PROVE  SourcesInv'
  BY <1>1 DEF Subscribe
<1>2. ASSUME NEW s \in Stream, HandlerReturns(s)
      PROVE  SourcesInv'
  BY <1>2 DEF HandlerReturns
<1>3. ASSUME NEW p \in Page, OpenPage(p) \/ ClosePage(p) \/ Disconnect(p)
      PROVE  SourcesInv'
  <2>1. /\ handling' = handling
        /\ \E next \in {"none", "connecting"} : source' = [source EXCEPT ![p] = next]
    BY <1>3 DEF OpenPage, ClosePage, Disconnect, hubVars
  <2> QED
    BY <2>1
<1>4. CASE Restart
  BY <1>4 DEF Restart
<1>5. CASE UNCHANGED <<source, handling>>
  BY <1>5
<1> QED
  BY <1>1, <1>2, <1>3, <1>4, <1>5
     DEF Next, vars, hubVars, pageVars, BallotsMove, CastBallot, CountVotesByPoll, Publish,
         Timeout, HubStep, Remove, CloseChannel, SendEvent, TwoSecondsPass

\* A page falls behind with an event in its channel or a vote missed, and its
\* channel empties by a fetch, by an event ignored or by the stream's end.
LEMMA ChartStep ==
    TypeOK /\ SourcesInv /\ VotesReachTheChart /\ [Next]_vars => VotesReachTheChart'
<1> DEFINE Told(p) == \/ source[p] \in Stream /\ queue[source[p]] # <<>>
                      \/ behind[p] \subseteq ignored[p] \union missed[p]
<1> SUFFICES ASSUME TypeOK, SourcesInv, VotesReachTheChart, [Next]_vars, NEW p \in Page
             PROVE  Told(p)'
  BY DEF VotesReachTheChart
<1>0. Told(p)
  BY DEF VotesReachTheChart
<1> USE LiveAssumption DEF TypeOK, SourcesInv
<1>1. ASSUME NEW b \in Ballot, Publish(b)
      PROVE  Told(p)'
  <2>1. \A s \in Stream : offer(queue[s], total[b]) # <<>>
    BY OfferFills
  <2>2. CASE source[p] \in subs
    BY <1>1, <2>1, <2>2 DEF Publish
  <2>3. CASE source[p] \notin subs
    <3>1. /\ source' = source /\ ignored' = ignored
          /\ source[p] \in Stream => queue'[source[p]] = queue[source[p]]
      BY <1>1, <2>3 DEF Publish
    <3>2. \/ behind'[p] = behind[p] \union {b} /\ missed'[p] = missed[p] \union {b}
          \/ behind'[p] = behind[p] /\ missed'[p] = missed[p]
      BY <1>1, <2>3 DEF Publish
    <3> QED
      BY <1>0, <1>1, <3>1, <3>2 DEF Publish
  <2> QED
    BY <2>2, <2>3
<1>2. ASSUME NEW q \in Page, NEW s \in Stream, Subscribe(q, s)
      PROVE  Told(p)'
  BY <1>0, <1>2 DEF Subscribe
<1>3. ASSUME NEW s \in Stream, SendEvent(s)
      PROVE  Told(p)'
  <2>1. CASE source[p] = s
    <3>1. onmessage(p, Head(queue[s]))
      BY <1>3, <2>1 DEF SendEvent
    <3> QED
      BY <3>1 DEF onmessage, beginFetch
  <2>2. CASE source[p] # s
    <3>1. source' = source /\ (source[p] \in Stream => queue'[source[p]] = queue[source[p]])
      BY <1>3, <2>2 DEF SendEvent
    <3>2. behind'[p] = behind[p] /\ ignored'[p] = ignored[p] /\ missed'[p] = missed[p]
      BY <1>3, <2>2 DEF SendEvent, onmessage, beginFetch
    <3> QED
      BY <1>0, <3>1, <3>2
  <2> QED
    BY <2>1, <2>2
<1>4. ASSUME NEW ending, missed' = cutOff(ending), UNCHANGED <<behind, ignored>>,
             \/ source[p] \in ending
             \/ source'[p] = source[p]
                /\ (source[p] \in Stream => queue'[source[p]] = queue[source[p]])
             \/ source[p] \notin Stream
      PROVE  Told(p)'
  <2>1. CASE source[p] \in ending /\ queue[source[p]] # <<>>
    <3>1. missed'[p] = behind[p]
      BY <1>4, <2>1 DEF cutOff
    <3> QED
      BY <1>4, <3>1
  <2>2. CASE ~(source[p] \in ending /\ queue[source[p]] # <<>>)
    <3>1. missed'[p] = missed[p]
      BY <1>4, <2>2 DEF cutOff
    <3> QED
      BY <1>0, <1>4, <2>2, <3>1
  <2> QED
    BY <2>1, <2>2
<1>5. ASSUME NEW s \in Stream, HandlerReturns(s)
      PROVE  Told(p)'
  <2>1. /\ missed' = cutOff({s}) /\ UNCHANGED <<behind, ignored, queue>>
        /\ source[p] # s => source'[p] = source[p]
    BY <1>5 DEF HandlerReturns
  <2> QED
    BY <1>4, <2>1
<1>6. ASSUME NEW q \in Page, Disconnect(q)
      PROVE  Told(p)'
  <2>1. /\ missed' = cutOff({source[q]}) /\ UNCHANGED <<behind, ignored, queue>>
        /\ p # q => source'[p] = source[p]
    BY <1>6 DEF Disconnect
  <2> QED
    BY <1>4, <2>1
<1>7. CASE Restart
  <2>1. missed' = cutOff(handling) /\ UNCHANGED <<behind, ignored>>
    BY <1>7 DEF Restart
  <2>2. source[p] \in Stream => source[p] \in handling
    OBVIOUS
  <2> QED
    BY <1>4, <2>1, <2>2
<1>8. ASSUME NEW q \in Page, OpenPage(q) \/ ClosePage(q)
      PROVE  Told(p)'
  BY <1>0, <1>8 DEF OpenPage, ClosePage, hubVars
<1>9. CASE UNCHANGED <<source, queue, behind, ignored, missed>>
  BY <1>0, <1>9
<1> QED
  BY <1>1, <1>2, <1>3, <1>5, <1>6, <1>7, <1>8, <1>9
     DEF Next, vars, hubVars, pageVars, BallotsMove, CastBallot, CountVotesByPoll, Timeout,
         HubStep, Remove, CloseChannel, TwoSecondsPass

\* A goroutine counts after its INSERT, in a table that does not shrink.
LEMMA TotalsStep ==
    /\ TypeOK /\ CountsInv /\ TotalsCountTheirBallot /\ [Next]_vars
    => (CountsInv /\ TotalsCountTheirBallot)'
<1> SUFFICES ASSUME TypeOK, CountsInv, TotalsCountTheirBallot, [Next]_vars
             PROVE  (CountsInv /\ TotalsCountTheirBallot)'
  OBVIOUS
<1>0. /\ Cardinality(log) \in Nat /\ Cardinality(log') \in Nat
      /\ Cardinality(log) <= Cardinality(log')
  BY LogGrows, LogFinite DEF TypeOK
<1> USE <1>0 DEF TypeOK, CountsInv, TotalsCountTheirBallot, countVars
<1>1. ASSUME NEW b \in Ballot, CastBallot(b)
      PROVE  (CountsInv /\ TotalsCountTheirBallot)'
  BY <1>1 DEF CastBallot
<1>2. ASSUME NEW b \in Ballot, CountVotesByPoll(b)
      PROVE  (CountsInv /\ TotalsCountTheirBallot)'
  <2>1. /\ log' = log /\ rank' = rank
        /\ announcing[b] = "count"
        /\ announcing' = [announcing EXCEPT ![b] = "publish"]
    BY <1>2 DEF CountVotesByPoll, logVars
  <2>2. PICK n \in Nat : /\ total' = [total EXCEPT ![b] = n]
                         /\ n <= Cardinality(log)
                         /\ \/ failed' = failed /\ n = Cardinality(log)
                            \/ failed' = failed \union {b}
    BY <1>2, ReadsAreSome DEF CountVotesByPoll, votesSeen
  <2> QED
    BY <2>1, <2>2
<1>3. ASSUME NEW b \in Ballot, Publish(b)
      PROVE  (CountsInv /\ TotalsCountTheirBallot)'
  BY <1>3 DEF Publish
<1>4. CASE Restart
  BY <1>4 DEF Restart
<1>5. CASE UNCHANGED <<announcing, total, rank, failed>>
  BY <1>5
<1> QED
  BY <1>1, <1>2, <1>3, <1>4, <1>5
     DEF Next, vars, hubVars, pageVars, countVars, BallotsMove, Subscribe, Timeout, HubStep,
         Remove, CloseChannel, SendEvent, HandlerReturns, OpenPage, ClosePage, Disconnect,
         TwoSecondsPass

-----------------------------------------------------------------------------
(* Theorems.                                                               *)

\* The inductive invariant of the live results holds in every reachable state.
THEOREM LiveInvariance == Spec => []IInv
<1>1. IInv /\ [Next]_vars => IInv'
  BY TypeStep, NoSendStep, SourcesStep, ChartStep, TotalsStep DEF IInv
<1> QED
  BY InitIInv, <1>1, PTL DEF Spec

\* Every variable of LiveResults keeps its type, and no channel of the hub
\* holds more than its capacity.
THEOREM LiveTypes == Spec => []TypeOK
<1>1. IInv => TypeOK
  BY DEF IInv
<1> QED
  BY <1>1, LiveInvariance, PTL

\* TallyHub.Publish never sends on a channel that Subscribe's goroutine closed.
THEOREM NoSendOnClosed == Spec => []NoSendOnClosedChannel
<1>1. IInv => NoSendOnClosedChannel
  BY DEF IInv
<1> QED
  BY <1>1, LiveInvariance, PTL

\* What CastBallot's goroutine announces counts its own ballot and every
\* earlier one, or, when the count failed, some of the ballots in the table.
THEOREM TotalsAreCurrent == Spec => []TotalsCountTheirBallot
<1>1. IInv => TotalsCountTheirBallot
  BY DEF IInv
<1> QED
  BY <1>1, LiveInvariance, PTL

\* Of the votes announced since a chart's last fetch, one that no event on its
\* way will make up for came before an event the chart ignored, or its event
\* was cut off with a stream, or it came while no stream was listed.
THEOREM ChartsAreTold == Spec => []VotesReachTheChart
<1>1. IInv => VotesReachTheChart
  BY DEF IInv
<1> QED
  BY <1>1, LiveInvariance, PTL
=============================================================================
