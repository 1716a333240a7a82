---------------------------- MODULE LiveResults ----------------------------
(***************************************************************************)
(* The live results of one poll on one server instance: the goroutine each *)
(* cast ballot starts to count and announce the votes, TallyHub with its   *)
(* subscriber channels, the event streams of GET /polls/{id}/live-results, *)
(* and the results charts that listen to them and fetch the tally again.   *)
(* What such a fetch is answered is the subject of Tally.                  *)
(***************************************************************************)
EXTENDS BallotLog, Sequences

CONSTANTS
    Page,       \* results charts on screen or not
    Stream,     \* places for event streams that are open at once
    ChanCap,    \* the capacity of a subscriber's channel
    choice      \* the option each ballot is for

ASSUME LiveAssumption ==
    /\ IsFiniteSet(Ballot)
    /\ ChanCap \in Nat \ {0}
    /\ choice \in [Ballot -> Nat]
    /\ {"none", "connecting"} \intersect Stream = {}

VARIABLES
    announcing, \* the goroutine of each ballot: the next thing it does
    total,      \* the votes it counted
    subs,       \* TallyHub.subs: the streams whose channel is listed
    closed,     \* the streams whose channel is closed, or not yet made
    queue,      \* the events in each channel
    cancelled,  \* the streams whose request context is done
    handling,   \* the streams whose handler has not returned
    source,     \* the EventSource of each page: "none", "connecting" or its stream
    throttled,  \* the pages that began a fetch less than two seconds ago
    rank,       \* history: the rows in the table when each ballot was inserted
    failed,     \* history: ballots whose count ended with an error
    behind,     \* history: ballots announced since a page's chart was mounted or
                \* last began a fetch
    ignored,    \* history: those of them when the page last ignored an event
    missed      \* history: those of them whose events a stream's end took along,
                \* or that were announced when the page had no stream listed

hubVars == <<announcing, total, subs, closed, queue, cancelled, handling>>
pageVars == <<source, throttled, behind, ignored, missed>>
countVars == <<rank, failed>>
vars == <<logVars, hubVars, pageVars, countVars>>

Init ==
    /\ LogInit
    /\ announcing = [b \in Ballot |-> "none"]
    /\ total = [b \in Ballot |-> 0]
    /\ subs = {}
    /\ closed = Stream
    /\ queue = [s \in Stream |-> <<>>]
    /\ cancelled = {}
    /\ handling = {}
    /\ source = [p \in Page |-> "none"]
    /\ throttled = {}
    /\ rank = [b \in Ballot |-> 0]
    /\ failed = {}
    /\ behind = [p \in Page |-> {}]
    /\ ignored = [p \in Page |-> {}]
    /\ missed = [p \in Page |-> {}]

-----------------------------------------------------------------------------
(* Casting a ballot.                                                       *)

\* CastBallot inserts, then starts the goroutine.  A ballot is not announced
\* here when another instance casts it or the driver reports an error.
CastBallot(b) ==
    /\ Commit(b)
    /\ \E next \in {"count", "done"} : announcing' = [announcing EXCEPT ![b] = next]
    /\ rank' = [rank EXCEPT ![b] = Cardinality(log')]
    /\ UNCHANGED <<total, subs, closed, queue, cancelled, handling, pageVars, failed>>

\* A count that began before the INSERT of the goroutine's own ballot.
votesSeenSlip(b) == Cardinality(log \ {b})
votesSeen(b) == Cardinality(log)

\* What the rows of some options add up to.
votesRead(options) == Cardinality({c \in log : choice[c] \in options})

\* GROUP BY choice_index answers with a row for each option.  An error, which
\* the goroutine drops, leaves it the options read before: none, some or all.
CountVotesByPoll(b) ==
    /\ announcing[b] = "count"
    /\ announcing' = [announcing EXCEPT ![b] = "publish"]
    /\ \/ /\ total' = [total EXCEPT ![b] = votesSeen(b)]
          /\ UNCHANGED failed
       \/ /\ \E options \in SUBSET {choice[c] : c \in log} :
                  total' = [total EXCEPT ![b] = votesRead(options)]
          /\ failed' = failed \union {b}
    /\ UNCHANGED <<logVars, subs, closed, queue, cancelled, handling, pageVars, rank>>

-----------------------------------------------------------------------------
(* The hub.                                                                *)

\* A send that does not wait: an event finds room in the channel or is dropped.
offerSlip(q, n) == IF Len(q) <= ChanCap THEN Append(q, n) ELSE q
offer(q, n) == IF Len(q) < ChanCap THEN Append(q, n) ELSE q

\* Sends that wait for room in every channel.
readyToPublishSlip(b) ==
    announcing[b] = "publish" /\ \A s \in subs : Len(queue[s]) < ChanCap
readyToPublish(b) == announcing[b] = "publish"

\* One event to each listed channel that has room, under the read lock.
Publish(b) ==
    /\ readyToPublish(b)
    /\ announcing' = [announcing EXCEPT ![b] = "done"]
    /\ queue' = [s \in Stream |-> IF s \in subs THEN offer(queue[s], total[b]) ELSE queue[s]]
    /\ behind' = [p \in Page |->
                    IF source[p] # "none" THEN behind[p] \union {b} ELSE behind[p]]
    /\ missed' = [p \in Page |->
                    IF source[p] \notin subs \union {"none"}
                    THEN missed[p] \union {b} ELSE missed[p]]
    /\ UNCHANGED <<logVars, total, subs, closed, cancelled, handling, source,
                   throttled, ignored, countVars>>

\* A page's EventSource connects and the handler subscribes; the page fetches
\* nothing then, so it stays as far behind as it was.
Subscribe(p, s) ==
    /\ source[p] = "connecting"
    /\ s \in closed
    /\ s \notin handling
    /\ source' = [source EXCEPT ![p] = s]
    /\ subs' = subs \union {s}
    /\ closed' = closed \ {s}
    /\ cancelled' = cancelled \ {s}
    /\ handling' = handling \union {s}
    /\ queue' = [queue EXCEPT ![s] = <<>>]
    /\ UNCHANGED <<logVars, announcing, total, throttled, behind, ignored, missed,
                   countVars>>

\* The 60 seconds every request has are over.
Timeout(s) ==
    /\ s \in handling \ cancelled
    /\ cancelled' = cancelled \union {s}
    /\ UNCHANGED <<logVars, announcing, total, subs, closed, queue, handling, pageVars,
                   countVars>>

\* The goroutine of a subscription: when the context is done, h.remove, then
\* close(ch).  The slips wait for an idle channel, or close it at once.
toRemoveSlip == {s \in cancelled \intersect subs : queue[s] = <<>>}
toRemove == cancelled \intersect subs
toCloseSlip == cancelled \ closed
toClose == cancelled \ (subs \union closed)

Remove(s) ==
    /\ s \in toRemove
    /\ subs' = subs \ {s}
    /\ UNCHANGED <<logVars, announcing, total, closed, queue, cancelled, handling,
                   pageVars, countVars>>

CloseChannel(s) ==
    /\ s \in toClose
    /\ closed' = closed \union {s}
    /\ UNCHANGED <<logVars, announcing, total, subs, queue, cancelled, handling,
                   pageVars, countVars>>

-----------------------------------------------------------------------------
(* The handler of a stream, and the page that listens to it.               *)

\* fetch: from here on the page is owed nothing announced before.
beginFetch(p) ==
    /\ throttled' = throttled \union {p}
    /\ behind' = [behind EXCEPT ![p] = {}]
    /\ ignored' = [ignored EXCEPT ![p] = {}]
    /\ missed' = [missed EXCEPT ![p] = {}]

\* An event without a vote is taken for one that has no news.
onmessageSlip(p, votes) ==
    IF votes = 0 \/ p \in throttled
    THEN /\ ignored' = IF votes = 0 THEN ignored ELSE [ignored EXCEPT ![p] = behind[p]]
         /\ UNCHANGED <<throttled, behind, missed>>
    ELSE beginFetch(p)

\* An event is ignored within two seconds of a fetch; any other begins one.
onmessage(p, votes) ==
    IF p \in throttled
    THEN /\ ignored' = [ignored EXCEPT ![p] = behind[p]]
         /\ UNCHANGED <<throttled, behind, missed>>
    ELSE beginFetch(p)

\* The select of the handler takes an event and writes it to the client; the
\* client may have gone, and what it wrote last with it.
SendEvent(s) ==
    /\ s \in handling
    /\ queue[s] # <<>>
    /\ queue' = [queue EXCEPT ![s] = Tail(@)]
    /\ \/ \E p \in Page : source[p] = s /\ onmessage(p, Head(queue[s]))
       \/ /\ \A p \in Page : source[p] # s
          /\ UNCHANGED <<throttled, behind, ignored, missed>>
    /\ UNCHANGED <<logVars, announcing, total, subs, closed, cancelled, handling, source,
                   countVars>>

\* Events that are in its channel when a page's stream ends are read by nobody.
cutOff(ending) ==
    [p \in Page |-> IF source[p] \in ending /\ queue[source[p]] # <<>>
                   THEN behind[p] ELSE missed[p]]

\* It returns when the context is done or the channel closed and empty; the
\* browser then connects again.
HandlerReturns(s) ==
    /\ s \in handling
    /\ s \in cancelled \/ (s \in closed /\ queue[s] = <<>>)
    /\ handling' = handling \ {s}
    /\ source' = [p \in Page |-> IF source[p] = s THEN "connecting" ELSE source[p]]
    /\ missed' = cutOff({s})
    /\ UNCHANGED <<logVars, announcing, total, subs, closed, queue, cancelled,
                   throttled, behind, ignored, countVars>>

\* The chart is mounted, with the tally its page was given when it was loaded.
OpenPage(p) ==
    /\ source[p] = "none"
    /\ source' = [source EXCEPT ![p] = "connecting"]
    /\ UNCHANGED <<logVars, hubVars, throttled, behind, ignored, missed, countVars>>

\* It is unmounted, and with it goes all it had fetched and missed.
ClosePage(p) ==
    /\ source[p] # "none"
    /\ source' = [source EXCEPT ![p] = "none"]
    /\ cancelled' = cancelled \union ({source[p]} \intersect handling)
    /\ throttled' = throttled \ {p}
    /\ behind' = [behind EXCEPT ![p] = {}]
    /\ ignored' = [ignored EXCEPT ![p] = {}]
    /\ missed' = [missed EXCEPT ![p] = {}]
    /\ UNCHANGED <<logVars, announcing, total, subs, closed, queue, handling, countVars>>

\* Its connection is lost, and tried again.
Disconnect(p) ==
    /\ source[p] \in Stream
    /\ source' = [source EXCEPT ![p] = "connecting"]
    /\ cancelled' = cancelled \union {source[p]}
    /\ missed' = cutOff({source[p]})
    /\ UNCHANGED <<logVars, announcing, total, subs, closed, queue, handling,
                   throttled, behind, ignored, countVars>>

TwoSecondsPass(p) ==
    /\ p \in throttled
    /\ throttled' = throttled \ {p}
    /\ UNCHANGED <<logVars, hubVars, source, behind, ignored, missed, countVars>>

\* The instance dies and comes back with an empty hub; the goroutines that
\* were counting are gone with it, and shutdown waits for none of them.
Restart ==
    /\ announcing' = [b \in Ballot |-> IF announcing[b] = "none" THEN "none" ELSE "done"]
    /\ subs' = {}
    /\ closed' = Stream
    /\ queue' = [s \in Stream |-> <<>>]
    /\ cancelled' = {}
    /\ handling' = {}
    /\ source' = [p \in Page |-> IF source[p] = "none" THEN "none" ELSE "connecting"]
    /\ missed' = cutOff(handling)
    /\ UNCHANGED <<logVars, total, throttled, behind, ignored, countVars>>

\* The rest of the log's steps: stamps, refused and failed INSERTs.
BallotsMove ==
    /\ \/ LogTick
       \/ \E b \in Ballot : Stamp(b)
       \/ \E B \in SUBSET Ballot : Abort(B)
    /\ UNCHANGED <<hubVars, pageVars, countVars>>

HubStep(s) == Remove(s) \/ CloseChannel(s)

Next ==
    \/ BallotsMove
    \/ \E b \in Ballot : CastBallot(b) \/ CountVotesByPoll(b) \/ Publish(b)
    \/ \E p \in Page, s \in Stream : Subscribe(p, s)
    \/ \E s \in Stream : Timeout(s) \/ HubStep(s) \/ SendEvent(s) \/ HandlerReturns(s)
    \/ \E p \in Page : OpenPage(p) \/ ClosePage(p) \/ Disconnect(p) \/ TwoSecondsPass(p)
    \/ Restart

Spec == Init /\ [][Next]_vars

\* Goroutines that can run are run.  Nothing is assumed of clients: a stalled
\* browser may keep its handler in a write for ever.
GoroutineFairness ==
    /\ \A b \in Ballot : WF_vars(CountVotesByPoll(b)) /\ WF_vars(Publish(b))
    /\ \A s \in Stream : WF_vars(HubStep(s))

FairSpec == Spec /\ GoroutineFairness

-----------------------------------------------------------------------------
(* Properties.                                                             *)

\* Every variable has its shape, and no channel holds more than it can.
TypeOK ==
    /\ LogTypeOK
    /\ announcing \in [Ballot -> {"none", "count", "publish", "done"}]
    /\ total \in [Ballot -> Nat]
    /\ rank \in [Ballot -> Nat]
    /\ failed \subseteq Ballot
    /\ subs \subseteq Stream
    /\ closed \subseteq Stream
    /\ cancelled \subseteq Stream
    /\ handling \subseteq Stream
    /\ queue \in [Stream -> Seq(Nat)]
    /\ \A s \in Stream : Len(queue[s]) <= ChanCap
    /\ source \in [Page -> Stream \union {"none", "connecting"}]
    /\ throttled \subseteq Page
    /\ behind \in [Page -> SUBSET Ballot]
    /\ ignored \in [Page -> SUBSET Ballot]
    /\ missed \in [Page -> SUBSET Ballot]

\* Publish never sends on a closed channel, which would take the instance
\* down: however cancellations and announcements interleave, a channel is off
\* the list before it is closed.
NoSendOnClosedChannel == subs \intersect closed = {}

\* A total about to be announced counts no vote twice, and unless its count
\* failed it counts the ballot it announces and every earlier one, whatever
\* other instances insert and other goroutines count meanwhile.
TotalsCountTheirBallot ==
    \A b \in Ballot : announcing[b] = "publish" =>
        /\ total[b] <= Cardinality(log)
        /\ b \notin failed => rank[b] <= total[b]

\* While nothing is on its way to a chart, it lacks votes announced on this
\* instance since it was mounted for two reasons only: it ignored an event in the two seconds after
\* a fetch and they came before; or its stream ended, at the time limit, by a
\* lost connection or a restart, and their events were unread or they came
\* before the next stream was listed.  Full channels, slow handlers and wrong
\* totals lose none.  What is ignored or missed stays so until an event that
\* the chart does not ignore has it fetch, which may be never.
VotesReachTheChart ==
    \A p \in Page :
        \/ source[p] \in Stream /\ queue[source[p]] # <<>>
        \/ behind[p] \subseteq ignored[p] \union missed[p]

\* A subscription whose client is gone or out of time leaves the hub, whatever
\* is left in its channel: disconnected browsers do not pile up.
SubscriptionsEnd == \A s \in Stream : s \in cancelled ~> s \notin subs

\* No browser, however stalled, keeps an announcement from ending.
AnnouncementsEnd ==
    \A b \in Ballot : announcing[b] \in {"count", "publish"} ~> announcing[b] = "done"
=============================================================================
