# Verification of the TPT voter portal

TLA+ models of the voter portal's server and of the parts of its website that
keep state, the TLC runs that check them on small instances, and TLAPS proofs
that hold for any number of voters, polls, server instances and requests.
`PROJECT.json` lists the runs, the source lines behind every definition, the
disagreements found and the hazards the properties are aimed at.

    tlc -workers 2 -config MCVotingRace.cfg MCVoting     # a run
    tlapm VotingProofs.tla                               # the proofs about voting,
                                                         # and so on for each *Proofs.tla

## The system

A Go server (any number of instances) over one PostgreSQL database, and a
Next.js website. Requests run concurrently; no handler opens a transaction, so
each database call is atomic on its own and everything may happen between two
calls of one request. Nothing but the database is shared by the instances.

| Part | State | Operations | What is hard | What makes it correct |
|---|---|---|---|---|
| Ballot casting (`services/poll.go`, `handlers/poll.go`) | table `ballots` | vote: eligibility, poll, HasVoted, insert; my-receipt | double votes racing past HasVoted, lost answers, insert that commits and reports an error, status and eligibility read long before the insert | one ballot per voter and poll; receipts and refusals tell the truth; no ballot out of time |
| Polls and their life (`services/poll.go`, `scheduler/`) | table `polls` | create; per tick: open due drafts, close expired | several schedulers, errors that are only logged, polls created already expired | no early opening, no reopening, every poll is closed in the end |
| Registration (`services/registration.go`) | table `voters` | upsert, eligibility | repeated registration against an operator's suspension | no ballot without registration, suspension stays |
| Results (`services/tally.go`, `handlers/result.go`) | table `tallies` | results: stored row, or read all ballots and upsert | concurrent computations, results that age | one answer is one snapshot; it is recent |
| Public audit (`services/tally.go`, `AuditProofDisplay.tsx`) | the page's collected entries | count, page, root; load more | three reads per answer, pages cut by OFFSET from a moving order | list and root agree; paging ends |
| Merkle proof, receipt verification (`services/tally.go`) | none | proof, verify | odd levels repeat their last node; the ballot and the set are two reads of a growing table | the path leads to the root, the root binds the set |
| Instant-runoff count (`services/irv.go`) | none | ComputeIRV | ties at the bottom, exhausted ballots, stopping at a majority | agrees with the textbook rule where that is decisive; no winner only on an exact tie |
| Ranked ballot form (`RankedBallotForm.tsx`) | ranks of the options | change a rank, submit | a rank that moves between options, edits while a vote is sent | what is sent is accepted, and is what the voter entered |
| Live results (`services/sse.go`, `handlers/result.go`, `ResultsChart.tsx`) | the hub's list, subscriber channels, page state | subscribe, publish, remove, close, stream, refetch | counts out of order, full channels, close against send, stalled browsers, the 60 s request limit, throttled refetch | no send on a closed channel; an announced vote is lost to a chart only by its throttle or with a stream that ends; subscriptions and announcements end |
| RealMe session (`packages/realme-go`) | a signed cookie | login, callback, logout, guard | expiry while a request is under way, tabs and people that share a cookie jar, assertions without a level, redirects | an issued session lets only who was vouched for through; redirects end |
| Schema (`migrations/`) | constraints | | a later migration against an earlier constraint | every row the code writes is accepted |

Stateless, pure I/O or unreachable, and not modelled: see "Not modelled".

Interactions: a vote passes the RealMe middleware, then registration
(eligibility), then the poll and ballot tables; the scheduler changes the poll
under it; each inserted ballot makes a goroutine count the ballots and publish
an event to the live pages, which refetch the results; the results and the audit
read the ballot table the votes are still growing.

## Modules

| Module | What it is |
|---|---|
| `BallotBox` | abstract: a box that takes one vote per voter and poll, keeps it, and hands out receipts only for votes it holds |
| `Voting` | casting, registration, poll life and scheduler; the detailed specification |
| `VotingInvariant` | the inductive invariant `IInv`, named part by named part |
| `VotingProofs` | the theorems about `Voting` |
| `MCVoting` | instances of `Voting` for TLC |
| `BallotLog` | abstract: one poll's ballots as readers see them: stamped, then committed or lost; `Voting` implements it |
| `BallotLogProofs` | what the proofs about the three readers have in common |
| `Tally`, `MCTally`, `TallyProofs` | `GET /polls/{id}/results` over `BallotLog`, and the theorems about it |
| `Audit`, `MCAudit`, `AuditProofs` | `GET /polls/{id}/audit` and the page that collects it, over `BallotLog` |
| `LiveResults`, `MCLive`, `LiveProofs` | counting goroutines, `TallyHub`, event streams and charts, over `BallotLog` |
| `Rankings` | the options of a poll and the rankings `validateRankings` lets through |
| `RankedBallotForm`, `InstantRunoff`, `MerkleProof` | the form, `ComputeIRV` round by round, `GetMerkleProof` level by level |
| `MCCount` | the three of them for TLC |
| `RankedProofs` | the theorems about the form and the count |
| `MerkleProofs` | the theorems about the proof |
| `Session`, `MCSession`, `SessionProofs` | middleware, login, callback, logout, the cookie and a browser with tabs |

Definitions whose names end in `Slip` are not part of a specification: each is a
plausible mistake in the definition it stands next to, and PROJECT.json pairs it
with the property that notices it.

### Voting

`voters`, `polls` and `ballots` are the tables; `phase[r]` is the next database
call of request `r` or how it ended; `castAt[r]` is the stamp it is about to
insert; `sched[s]` is the next statement of instance `s`'s scheduler; `now` is
the clock. `shown` and `late` are history: receipts shown to voters, and requests
sent to a poll that was closed by then.

One vote is `CheckEligible` (handler), `LoadPoll` (GetPollByID and the status
test), `CheckHasVoted` (HasVoted, body validation, stamping the row: no other
call lies between), `InsertBallot` or `InsertRefused` (the INSERT against UNIQUE
and CHECK), and `Reply`. A constraint error 23505 is "already voted"; any other
is a failure. `DatabaseError` ends a request at any call; `InsertBallot` may also
take effect and be reported as an error; `ReplyLost` loses the receipt; `Crash`
ends all requests of an instance and restarts its scheduler. A lost answer and a
retry need no action of their own: a retry is another attempt of the same voter,
and its body and instance may differ. `MyReceipt` is my-receipt, with
`GetVoterReceipt` for what it finds; `newPoll` is the row `CreatePoll` inserts.

The receipt token is a random UUID and the voter token a SHA-256 over identity,
poll and salt: tokens of different requests, and of different voters or polls,
are taken as different. The poll's type is read again by `validBallot` although
the code keeps it from `LoadPoll`: no step changes it.

Suspension is not done by any code of the portal; the status exists in the
schema and the code tests it, so an operator's UPDATE is modelled as external.

### Tally and Audit

Both extend `BallotLog`, in which a ballot is stamped (`cast_at` is set by the
server before the INSERT) and committed, or aborted, some time later, so that
ballots appear behind later stamps. It is the view of `Voting` that readers have, and
`ImplementsBallotLog` says so of every poll: `stamp` is `castAt`, `pending` the
requests at their INSERT, `log` the rows of the poll. What is shown of the readers
over `BallotLog` is thereby shown of them over `Voting`'s ballots.

An audit root is SHA-256 over sorted commitments of fixed length; it is taken as
collision free and stands for the set of ballots it covers. In `Tally` a request
is `GetTally`, `GetTallyByPoll`, and when no row is stored `GetBallotsByPoll` and
`UpsertTally`; it may fail at each, also after the upsert took effect. `known`,
`floor` and `past` are history. `Audit` has one visitor: other visitors change
nothing she reads. Each answer is `CountBallots`, `SelectPage`, `ComputeRoot`;
`castAtOrders` allows every order of rows with the same stamp, since the query
does not decide between them. An error replaces the page for good, as in the
component; the visitor may leave and reopen the page at any time.

### LiveResults

`announcing[b]` is the next thing the goroutine of ballot `b` does (`CountVotesByPoll`,
`Publish`), `total[b]` what it counted. The query answers with a row for each
option, and an error of it is dropped with the rows read before it still counted, so
that a failed count may come to any part of the votes (`votesRead`): none, all, or
some without its own ballot. `subs` is the hub's list, `queue` the channels, `closed`
those that are closed; `Remove` and `CloseChannel` are the two steps of the goroutine that `Subscribe` starts, with room between them for a `Publish`.
`Publish` is one action because it holds the read lock throughout and its sends
do not wait; `Remove` takes the write lock. `handling` are the handlers that have
not returned: a handler whose client stalled may stay in its write for ever.
`SendEvent` is one turn of its select, together with the chart's `onmessage`
when the browser is still there; an event that was sent but not yet received is
thereby still counted as in the channel. `HandlerReturns` covers both ends of
the select, and the browser connects again. `Restart` empties the hub and stops
its goroutines; other instances publish to their own hubs only, so a ballot cast
elsewhere is one whose goroutine is `"done"` at once.

`rank` and `failed` are history of the counts, `behind`, `ignored` and `missed` of
the charts. `behind[p]` are the votes announced on this instance since chart `p` was
mounted or last began a fetch; only `beginFetch` empties it, and connecting again
does not, since the page fetches nothing then. `ignored[p]` is what it was behind
when it ignored an event, `missed[p]` what it was behind when a stream of its ended
with events unread (at the 60 s limit, by a lost connection or a restart), and what
was announced while it had no stream on the list. `VotesReachTheChart` says that
nothing else is lost. It does not say that what is ignored or missed is made up for:
that takes another event, which the chart does not ignore, and may never happen.

What a fetch brings is the subject of `Tally`: this module follows an announced
vote as far as the fetch it causes.

### Ranked ballots: form, count, proof

`RankedBallotForm` is the form's state and the list it sends; a change of a rank
takes the rank from whatever option had it, and the selectors stay live while a
ballot is being sent; `buildRankings` is the filter, written as a recursive
function over the options. `InstantRunoff` collects any multiset of valid rankings and
runs `ComputeIRV` over it, a round per action. `MerkleProof` lets ballots arrive,
in this poll and in another, between `VerifyReceipt` (`/verify`),
`GetBallotByReceiptToken` and `GetBallotsByPoll` (the two reads of
`/merkle-proof`), and runs the loop of `buildMerkleProof` a level per action. A hash is the tuple of what it was
computed from (SHA-256 taken as collision free), commitments are numbers in the
order of their strings, and the code's `idx ^ 1` is written out. The reference
definitions the results are compared with are recursive functions over other
structures than the code uses: `textbook` over sets of candidates, `merkleRoot`
over the nodes of the tree by level and place, `climb` (what a verifier computes)
and `spelled` (the place a path's directions spell) over the path.

### Session

The server keeps no session: a request carries the cookie the jar had when it
was sent (`carried`), a response the cookie it sets. `at[t]` is what tab `t` waits
for, `request[t]` what it wants in the end. `requireAssuranceLevel`,
`LoginHandler`, `CallbackHandler` and `LogoutHandler` are the handlers;
`Authenticate` is RealMe, where ForceAuthn makes whoever sits there log in anew;
`BackToPage` is a user who gives up, a refused response or a lost answer. An
assertion may come at low or moderate strength, or without an authentication
statement or class, and with or without an FLT: without an FLT no session is made
(`hasFLT`), without a class the session has level 0 and is signed like any other.

`Routes` are the routes that are mounted: `session` takes the ones realme-go's
README mounts, `login` the ones `main.go` mounts. The middleware also names
`/auth/realme/verified`; the package has no handler for that path and its README
mounts none, so a verified route asked for with a session of level 1 ends in a 404.

`vouched` is history, and so is the field `issued` of a token, which no handler can
read: the signature's key is the EntityID, which is public, and no secret is read
from anywhere, so a token that parses need not have been issued by this portal.
`Foreign` are such tokens, and `ForeignCookie` lets the jar come to hold each of them
at any time. What the guard lets through with one of them is whatever it says;
`LetThroughIsVouchedFor` speaks of the sessions that were issued, in their presence.
The tracker of SAML request ids, the signature and the validity of an assertion are
the library's and external.

## What the runs check

| Run | Result | What it shows |
|---|---|---|
| `race` | holds | two requests of one voter on two instances, a second voter whose body is malformed for a ranked poll: at most one ballot per voter, "already voted" is only said to who voted, all receipts shown agree with the table, no ballot without registration, a request that arrives after closing never gets in |
| `retry` | holds | a vote sent twice, through the whole life of its poll: ballots are stamped after their poll's opening, in a poll that was opened (that none gets in which arrives after the close is `race`'s `ClosedAtArrivalIsRefused`), statuses never go back, `Voting` implements `BallotBox` and, for each poll, `BallotLog`; every created poll is closed in the end |
| `ranked` | refuted | no request is refused by a CHECK |
| `tally` | holds | every answer is the count of one moment of the table, and not of one before the first request |
| `frozen` | refuted | a request made after the last vote sees every vote |
| `audit` | holds | all collected entries are under the last root, each further page brings at least one, and an audit during which nothing is committed (with distinct stamps) is exact |
| `shift` | refuted | an audit lists no ballot twice |
| `live` | holds | no send on a closed channel; a total counts no vote twice, and its own ballot and all earlier ones unless its count failed; a chart with nothing on its way lacks only votes from before an event it ignored, cut off with a stream that ended, or announced while it had none, full channels and wrong totals included; every subscription of a gone or timed-out client leaves the hub; no browser keeps an announcement from ending |
| `count` | holds | the form's bodies pass `validateRankings`; the count names the textbook winner whenever that rule meets no tie for last place, and nobody exactly when all who are left are equal; a receipt `/verify` has found has a proof; proofs lead to the root and the root binds the ballots |
| `form` | refuted | the list the form sends is the voter's preferences (one option ranked is enough to refute it; ranked ballots are never stored, as `ranked` shows) |
| `session` | holds | with an issued session nobody is let through beyond what RealMe vouched for within the session's age, whoever shares the browser and whatever other token turns up; redirects between the guard and the login handler end, unless the browser keeps a session of no level |
| `login` | refuted | no redirect leads to a page or method that is not there |

The refuted ones state what the repository says of itself (PROJECT.json quotes
the lines) and show where the code does otherwise:

* **ranked**: ranked ballots are stored with choice index -1, which the CHECK of
  the first migration refuses, so no ranked ballot is ever accepted.
* **frozen**: a stored tally is never recomputed; the first visitor of the
  results page freezes the results. What does hold is
  `AnswersReachTheFirstRequest`.
* **shift**: a ballot committed behind later stamps shifts the pages. What does
  hold is `QuietAuditIsExact`, `EntriesAreUnderTheRoot` and that paging ends.
* **form**: the form keeps the rank of each option and sends that list where the
  server expects the option of each rank. What does hold is `BodyIsAccepted`: a
  permutation and its inverse are both valid rankings, so nobody notices.
* **login**: the middleware redirects to `/auth/realme/login` and RealMe answers
  by POST, while `main.go` mounts `/auth/login` and a GET callback. `session`
  shows what the package promises where its routes are mounted as documented.

Seen while modelling, without a run of its own:

* A ballot may land in a poll that the scheduler closed after its status was
  read; `ClosedAtArrivalIsRefused` is what holds. Two first computations of a
  tally may store the older snapshot last.
* The comment on `ComputeAndStoreTally` says it stores the IRV result, which has
  no column; only the computing request's own answer carries it.
* Totals may be announced out of order, or as a part of the votes after a failed
  count; the chart only takes them as a reason to fetch. An event within two
  seconds of a fetch starts no fetch later, so the last vote of a burst may stay
  unseen, and a fetch is answered with the frozen tally anyway.
* Events in the channel of a stream that ends, and votes announced until the next
  one is listed, are made up for only by the next event; votes whose goroutine a
  restart stops, and votes cast on other instances (the NATS handler of `main.go`
  drops its message), are not announced to a page at all. A visitor who looks at
  the audit and comes back gets the tally of the page's loading again.
* Eliminating all of the last candidates at once differs from eliminating one of
  them: with three first preferences for one and two for each of two others, the
  first wins although the others' voters together may rank them last.
  `AgreesWithTextbook` leaves ties for last place out, so it compares no such case.
* In the guard's redirects a vote comes back as a GET, which its route refuses
  (405).
* An assertion without a class gives a session of no level, which `RequireLogin`
  refuses although its comment says "any assurance level" (middleware.go:10), and
  which `LoginHandler` takes for a login: the browser is sent round until the session
  expires. `RedirectsEnd` excludes it. The login handler mounted at
  `/auth/realme/verified` would do the same to sessions of level 1, and that is what
  the mutant of this property shows.

### Bounds

* `race`: the smallest instance with two requests of one voter on two instances
  and another voter; clock to 2, enough for a poll to open and to expire while a
  request is under way.
* `retry`: one voter, one poll, clock to 3, so that a draft, its opening and its
  end are three different times. A bounded clock only cuts behaviours short: at
  the last tick every poll's closing time has passed.
* `tally`: three requests, so that two may compute at once and a third read what
  they stored; a slot is reused, so requests are unbounded in number. The clock
  stands still there, since no tally depends on it.
* `audit`: four ballots on pages of two is the least in which a late commit
  shifts a full page; four clock values allow distinct stamps. `shift`: three
  ballots on pages of one.
* `live`: two ballots, one chart and two streams, so that the stream of a lost
  connection is still listed while the chart has its next one. The ballots are for
  two options, so that a count may fail with one of them read. Channels hold one
  event instead of four, so that the second vote finds its channel full. Charts
  share nothing but the list, which the streams of one chart already share; the
  clock stands still, since nothing here reads a stamp. The theorems of
  `LiveProofs` hold for any number of each and any capacity.
* `count`: up to seven ballots over three options (the least numbers with ties at
  the bottom, exhausted ballots and majorities in every round) and up to six
  commitments, of which one may be a ballot of another poll (trees of up to three
  levels above the leaves; five and six ballots give odd levels at different
  heights). `MaxElsewhere` and `MaxVerified` are one: a second foreign ballot or
  verified receipt meets the same lookups. The three parts share no state, so a
  behaviour moves one of them. The theorems of `RankedProofs` and `MerkleProofs`
  hold for any values of these bounds.
* `session`: two people who use two tabs; sessions last one tick and the clock goes
  to 1, so that one may expire and be followed by another, beside one foreign token
  of a verified session that outlasts them; `MaxLogins` bounds the accepted
  assertions at two, two being enough for one person's session to replace the
  other's. It also is what makes `RedirectsEnd` a property of people who at some
  time stop signing in: while a second tab logs in and sessions expire again and
  again, a request may be sent back and forth as often.

### Fairness

`SchedulerFairness` (for `EveryPollCloses`) says that time passes and that each of
an instance's two UPDATEs, when it is the next statement again and again,
sometimes succeeds: `Run` ticks every minute for as long as the process lives,
errors do not stop it, and a process that dies is restarted by its supervisor.
It is strong fairness because an error or a crash in between disables the
statement until the next tick.

`GoroutineFairness` (for `SubscriptionsEnd` and `AnnouncementsEnd`) says that a
goroutine that can run is run and that its count query returns. Nothing is
assumed of a handler: the server sets no write timeout, so a browser that stops
reading may hold one for ever, and the two properties hold all the same.

`Session` assumes that a request that has reached the server is answered
(`RedirectsEnd`). No client action is assumed to happen anywhere.

## What is proved

Every safety invariant and every safety action property of a passing run, and
both refinements, are theorems: they hold for all values of the constants that
satisfy the named assumptions. Each proof module has one inductive invariant
(`IInv`), made of named parts, that TLC has checked as an invariant before it was
proved; one lemma or step per action shows that it is kept, and the theorems about
properties follow from it.

**`VotingProofs`**, from `VotingAssumption` (attempts are records of the right
shape, at least two options, a positive clock bound): `TypeCorrect`, `OneVote`,
`AlreadyVotedTruthful`, `TimelyBallots`, `RegisteredVoters`, `LateRefused`,
`ReceiptsAgree`, the action property `OneWay`, and two refinements, `Refinement`
(of `BallotBox`) and `LogRefinement` (of `BallotLog`, for every poll at once;
`LogOfEachPoll` states it as the specification of one poll's log).

None of the invariants is inductive by itself, because the INSERT acts on what
earlier calls read. `InFlightInv` says which part of that is still true when it
runs: the voter's row exists (suspension keeps it), the poll has been opened (it
may be closed by now), its type is the one the body was validated for, and the
stamp lies between the opening and the present. `OpenedInv` gives the opening its
time. `RowsInv` ties a row to the request that inserted it and to the phases this
request can be in, which makes receipt tokens unique and lets `Refinement` show
that a new row's receipt is new. `RecordedInv` and `ShownInv` keep acknowledged
and shown receipts in the table, and `ReceiptsAgree` follows from `ShownInv` and
one ballot per voter. `LateInv` holds because a closed poll never reopens. For
`Refinement` an insert maps to `Record`, a reply or a my-receipt to `Acknowledge`,
and everything else to a stutter. For `LogRefinement` `CheckHasVoted` maps to
`Stamp` in the log of the request's poll, the INSERT to `Commit`, a refusal, an
error or a crash to `Abort`, and nothing changes in the logs of other polls;
`UnstampedInv` (no request is stamped before it has read HasVoted) makes each
stamp the first one.

**`BallotLogProofs`**: `StampsArePast`, that a stamped ballot keeps its stamp, a
committed one stays, and none bears a time that has not been. `TallyProofs`,
`AuditProofs` and `LiveProofs` start from it.

**`TallyProofs`**: `TallyTypes`, `AnswersAreConsistent` and `AnswersAreRecentEnough`,
for any number of requests and ballots. The row of tallies is written from what a
request read some steps before, and whichever of two writers comes last wins; so
`SnapInv` says that what a request holds was the table at some time and has all
the ballots of the first request's, `RowInv` and `AnswerInv` carry that over to the
row and to answers, and `FirstInv` (no row before the first request) is needed
because the first request is the one that fixes what must not be missed.

**`AuditProofs`**: `AuditTypes`, `RootCoversTheEntries`, `QuietAuditsAreExact` and the
action property `LoadMoreAdvances`, for any number of ballots and any page size.
`ReadsInv` says that what has been read is still in the table, `OffsetInv` that a
further page is only asked for where rows are. `QuietInv` is the hard part: while
nothing is committed and stamps are distinct, every entry stands at its *place*,
the number of rows with smaller stamps. The lemmas `OrderedRows`, `PlacesOfRows` and
`PageOfRows` say what the query and its LIMIT and OFFSET return.

**`LiveProofs`**, from `LiveAssumption` and `BallotLogAssumption` (finitely many
ballots, each for an option, a positive capacity, streams that are not the two words
for none):
`LiveTypes`, `NoSendOnClosed`, `TotalsAreCurrent` and `ChartsAreTold`, for any number
of ballots, charts and streams. A channel enters the hub's list open and is closed
only by a step that finds it off the list, so `NoSendOnClosedChannel` is inductive
as it stands. `VotesReachTheChart` is not: it needs `SourcesInv`, that a chart's
stream has a running handler and is shared with no other chart, or a new
subscription could empty a channel somebody still waits on. A chart falls behind
only by a `Publish` that leaves something in its channel (`OfferFills`: an event
that is dropped was dropped by a full channel) or counts as missed, and the last
event leaves a channel only by a fetch, an ignored event, or the end of the stream.
`TotalsCountTheirBallot` needs `CountsInv`, that a goroutine which has yet to count
still finds its ballot and those before it, and `ReadsAreSome`, that the options a
failed count has read hold no more votes than the table.

**`SessionProofs`**, from `SessionAssumption` (the foreign tokens are tokens not
issued here, and `NoFLT` is nobody): `SessionTypes` and the action property
`OnlyVouchedForAreLetThrough`, for any number of tabs and people, any lifetimes and
any foreign tokens. Cookies are copied into requests and out of responses and
outlive the jar's; `SessionsInv` says of every issued one, in the jar or on its way,
that RealMe vouched for its person, at the strength its level stands for, exactly
one lifetime before its expiry. `NotIssued` keeps the foreign tokens apart.

**`RankedProofs`**: `RunoffTypes`, `NoWinnerIsATie`, `TextbookAgreement` and, for the
form, `BodiesAreAccepted`, for any number of options and ballots. `TextbookInv` says
that the textbook count started from the candidates who are left names the winner
of the whole count, as long as that one meets no tie for the last place. A round
keeps it because the only candidate with the fewest votes is the one the textbook
takes out, and a majority ends it because a candidate with more than half of the
votes never becomes the last: removing another moves ballots to her but never
away, and all the others together have fewer. That is a statement about all sets
of candidates that hold her, proved by a set with the fewest members for which it
fails. `NoWinnerIsATie` needs `LastRoundInv` (whoever is left had more votes than
somebody), the bound on rounds `RoundsInv`. The form's `RanksInv` says that no
two options have one rank, and `BuildRankings` that a list without its nulls is
then a valid ranking.

**`MerkleProofs`**: `VerifiedAreProvable`, `ProofsVerify` and `RootsBind`, for trees of
any height. `walked` is what the loop of `buildMerkleProof` maintains: its level is a
level of the tree as defined by nodes, the path so far leads from the leaf to the
current node, and its directions together with the node's place spell the leaf's
place. `RootsBind` goes the other way: equal hashes lie at one level (`SameLevel`), at
one place (`SamePlace`), and have equal hashes below (`SameBelow`), where a repeated
last node is told from a genuine one because two ballots have different
commitments; so equal roots have equal leaves.

The prover has no rule for induction and the library's induction theorems take an
operator, so what a recursive function computes is proved from two facts about
sets of numbers: a set of numbers has a least member (`LeastOf`), and one with 0
and the successor of each of its members holds all numbers (`Inductive`). Each
recursive function first needs a lemma that it exists, by the same argument
(`SomeForEach`, `KeptUpTo`, `LastUpTo`, `NodesUpTo`, `ClimbUpTo`, `SpellUpTo`).

Only model-checked: liveness (`EveryPollCloses`, `SubscriptionsEnd`,
`AnnouncementsEnd`, `RedirectsEnd`), which is out of the prover's reach, and the
five refutations, which are counterexamples. The fairness of the specifications
plays no part in the proofs.

## Not modelled

* **Active-poll cache**: `main.go` constructs it and drops it (`_ = pollCache`), so
  no request reaches it.
* **Idempotency middleware**: nothing mounts it, and its store is an interface
  without an implementation.
* **Admin key**: a stateless comparison.
* **RealMe SAML provider, certificates, mock identity provider**: files read once
  at start, the protocol of an external library, a stand-in for development.
* **Other `nz-common` packages**: API clients, header handling and formatting
  the portal does not call, CORS apart; no state.
* **Shared interface components, layout of the pages**: presentation only.
* **Server assembly**, partly: routes, guards, the 60 s limit, shutdown and one
  scheduler per instance are in the modules they concern; configuration, health
  check and connections are left out.
* **Ranked tallies in the results**: `GetTally`'s branch for ranked polls only
  wraps `ComputeIRV`, and no ranked ballot gets into the table (run `ranked`).

## Plan

What is done, and what is left, in order.

1. `BallotBox`, `Voting` and its proofs. *Done.*
2. `BallotLog`, `Tally`, `Audit` and their proofs. *Done.*
3. `LiveResults` and its proofs. *Done.*
4. `RankedBallotForm`, `InstantRunoff`, `MerkleProof`, `Session` and their proofs.
   *Done.*
5. `Voting` implements `BallotLog` for each poll, which joins the two halves. *Done.*
6. What the refuted properties leave standing, stated sharper: how many entries a
   late commit can hide from an audit, and which votes a stored tally can miss.
