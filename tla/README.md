# A verification development of the consultation system

The repository holds a voting system for a token community: a *governance contract* on the
Radix ledger (`src/scrypto`), a *collector* that follows the ledger's event stream and keeps
weighted vote totals and election results in a D1 database
(`src/apps/consultation/src/server/voting`), and a web client (`src/apps/consultation/src/routes`,
`atom`). The TLA+ modules in this directory model what the contract stores; how the collector turns
it into published results while polls overlap, time out, crash and lose answers; how a ballot is
weighed and an election calculated; and what the pages of the client send and show while several
users act on copies of it all. TLC checks the models on small instances (`*.cfg`); TLAPS checks the
proofs (`*Proofs.tla`) for every value of the constants.

    tlc -workers 2 -config MCVoteTally.cfg MCVoteTally     # one run
    tlapm VoteTallyProofs.tla                              # one module's proofs

## 1. Inventory

| Component | State | Operations | Interacts with | Hard because | Module |
|---|---|---|---|---|---|
| Governance contract (`governance.rs`, `lib.rs`) | temperature checks, proposals, elections, their vote books, parameter sets, counters | make, vote, record outcome, continue, open round, rerun, adjudicate, add/update/retire set, toggle | the collector reads it; the owner drives phases | phase boundaries, revotes over two stores, parameters that change between phases | `Governance`, `BallotBook`, `ParameterSets`, `Consultation` |
| Vote delegation contract (`vote_delegation.rs`) | delegations per delegator, mirror per delegatee | make, remove | nobody reads it yet | two stores pruned lazily by two loops | `VoteDelegation` |
| Poll lease and write fence (`pollLock.ts`, `pollLease.ts`) | one row `poll_lease` | acquire, renew in every batch, release | every write of a poll | expiry under a live owner, delayed and repeated batches | `PollLease` |
| Standard vote tally (`poll.ts`, `ledgerCursor.ts`, `governanceEvents.ts`, `vote-calculation/`) | the cursor in `config`, `vote_calculation_state`, `_account_votes`, `_results` | read a page, cache, count incrementally, commit, advance, backfill | contract (reads), lease (fence), HTTP API (readers) | overlapping polls, at-least-once stream, retries, interruption | `VoteTally`, `VoteLog`, `PublishedTally` |
| Collector schedule (`worker.ts`, `layers.ts`) | none of its own | start a poll every minute, time it out | starts the tally's runs | a timeout with a batch in flight | part of `VoteTally` |
| Majority-judgment collector (`majority-judgment/*.ts`) | election, round, ballot and result tables | projection, live calculation, finalization, rerun, tie resolution | cursor, lease, contract, the operator who reads what it publishes | status written by three components, two of them outside the fence; deferred verdicts; pages that fail again and again | `ElectionCollector`, `ElectionLedger`, `PublishedElection` |
| Majority-judgment calculator (`calculator.ts`) | none | medians, gauges, ranking, seats, tie groups, a recorded draw | the collector, on its ballots | ties at the seat boundary, ids that must not decide | `MajorityJudgment` |
| Vote power snapshot (`votePowerSnapshot.ts`, `voteSourceConfig.ts`, `dex/`) | the configuration of what counts, by epoch | weigh a batch of first-time voters at the start's state version | the ledger's history, the tally | reads at two moments, validators and accounts younger than the start, renewed receipts | `VotePower`, `PoolPositions` |
| Exact decimals (`exactDecimal.ts`, `i192.ts`) | none | truncating and rounding arithmetic, the text the database sorts by | all amounts | rounding that adds up | `ExactAmounts` |
| Web client, voting (`VotingSection.tsx`, `election/$id`, the vote atoms) | the wallet's accounts, the votes read, drafts | a batch of transactions, one account at a time | wallet, ledger, HTTP API | accounts switch under a batch, refreshes under a draft | `WalletBatch`, `VotingSection`, `ElectionPage` |
| Web client, operators (`about/admin`, owner controls) | copies of the registry, the outcome, the status; forms | record, promote, open, rerun, adjudicate; edit sets | contract and collector, other operators | every guard is on a stale copy | `OperatorConsole`, `ParameterEditor` |
| Web client, new checks (`tc/new`) | a form | validate twice, create | contract | two schemas, an account that changes | `TemperatureCheckForm` |
| Ledger client and lists (`governanceComponent.ts`, `-index`) | none | count, page, label, join | contract | two reads at two moments | `EntityLists` |
| HTTP read API, decoding, manifests' text, presentation | none | decode, build, query, render | | conversion | not modelled |

What makes each of them correct:

* **Contract.** The two stores of a vote book tell one story; phases do not overlap; a check has
  one continuation; an election and its rerun are held under the rules of their check; a
  parameter set's version determines its content; decisions are final.
* **Delegation.** List and mirror agree; list length, and total fraction even over expired
  entries, stay bounded; a call changes only the delegation it is about.
* **Elections.** A round is closed once, on all its ballots, and stays so; no election passes its
  gate without a recorded and a weighted pass; the status shows the results and moves forward; a
  rerun never replaces a decided first round; every round is closed in the end.
* **Calculation.** Seats go down the ranking and stop short of a tie; ids decide nothing; a draw
  settles its tie only; a raised grade never harms. A voter's power does not depend on when and with
  whom it is weighed; what pools hold is counted once; sort keys are in the order of the numbers.
* **Client.** Nothing is recorded that was not submitted for that account; a quiet page shows the
  ledger; drafts belong to their user; rounds open only on both verdicts, whatever the copies show;
  what a form accepts can be created; lists leave nothing out.
* **Tally.** The published totals are a count from scratch of a prefix of the votes; they never
  go back; no vote event is passed over; all votes are counted in the end.

The hazards are in `PROJECT.json`, each at the line where it bites, with the properties that
would catch it.

## 2. The modules

    KeyValueStore <- BallotBook, ParameterSets <- Governance <- MCGovernance, GovernanceProofs
    Consultation <- Governance, ElectionLedger, OperatorConsole
    KeyValueStore <- VoteDelegation <- MCVoteDelegation, VoteDelegationProofs
    VoteLog <- PublishedTally
    VoteLog, PollLease <- VoteTally <- MCVoteTally, VoteTallyProofs
    VoteLog <- VoteLogProofs <- VoteTallyProofs
    VoteLog <- ElectionLedger, PublishedElection
    PollLease, ElectionLedger <- ElectionCollector <- MCElectionCollector
    ElectionCollector, VoteLogProofs <- ElectionCollectorProofs
    Unread, Sorting <- MajorityJudgment;  ExactAmounts, Unread <- PoolPositions <- VotePower
    MajorityJudgment, VotePower <- MCCalculations, CalculationProofs
    Sorting <- SetLemmas <- VoteDelegationProofs, CalculationProofs, ClientProofs
    Unread <- WalletBatch <- VotingSection, ElectionPage
    Unread <- OperatorConsole, ParameterEditor, TemperatureCheckForm;  Unread, Sorting <- EntityLists
    VotingSection, ElectionPage, and the four above <- MCClient <- ClientProofs

`Unread` declares one constant, `None`: what was not read, not told, or has no value. `Sorting` is
`Array.sort` and `Array.filter` by counts: the place of a member is the number of those before it.

### The contract: `Governance`, with `BallotBook` and `ParameterSets`

A method of the component is one action. A transaction that fails an assertion leaves no trace,
so assertions are guards. The variables are the fields of the Rust struct: `checks`,
`proposals`, `elections` (functions on the ids given out), `counts` (the three counters),
`registry` (parameter sets); `now` is the ledger's clock, counted in days, the unit of every
duration in the contract. `toggles` only bounds the visibility toggles.

* `BallotBook` is the pair of stores `voters` and `votes` with `vote_count` and `revote_count`.
  The contract writes the same four fields in three methods (one per kind of poll); `Cast` is
  that code once, with what a choice is left open. `Consistent` relates the stores to each other
  and to the counters.
* `ParameterSets` holds validation, resolution (`Resolved` is the snapshot a consultation keeps)
  and the three registry methods. A quorum, threshold and grade floor are one `rule`; `SoundRules`
  are those within the asserted limits.
* A candidate is its position; the candidates' references are compared only to refuse duplicates.
  The display order is checked (`Permutes`) and not kept. Texts, links, authors, the owner's
  badge and the events are left out. A timestamp overflow aborts the transaction and is outside
  every bound. The check's `snapshot` equals its `start`, so that one field stands for both.

`Consultation` is the abstract specification of the course that one consultation takes: four polls
(check, proposal, first round, rerun), each pending, open or over; their ballots; the decision on the
check; the round whose tie has been resolved. It says what may happen in which phase and nothing of
clocks, durations, counters or the consultations beside it. `Course(c)` maps the contract to it, for the
consultation that begins with check *c*: a poll is `Opened` once its record exists and over when its
deadline has come, `BallotsIn` is its book, `DecisionOn` and `TieOf` what is recorded. One tick of the
clock could close two polls at once, if two could be open: that they cannot (no poll opens before the
one ahead of it is over) is part of what the refinement shows.

The contract appears three times: in full as `Governance`, as `ElectionLedger` below for the collector,
and as the part of `OperatorConsole` that accepts or refuses what operators send. All three refine
`Consultation`, each by a `Course` of its own, so that the reduced contracts take no course that the full
one could not in the order of phases, decision and ties.

### `VoteDelegation`

`delegators` is the list per delegator, kept as a set (no method depends on its order);
`delegatees` the mirror. `MakeDelegation` and `RemoveDelegation` prune expired entries as the
code does: from the list by leaving them out of the rewritten list, from the mirror by an
explicit loop. Fractions are whole numbers of units of which `Whole` make one.

### The tally: `VoteTally`, with `PollLease` and `VoteLog`

One standard entity, the ledger's event stream about it, the D1 tables, and a set of runs. A run
is one poll: `pc[r]` names its next asynchronous operation, `job[r]` what it has read or decided,
`req[r]` and `flying[r]` the batch it last sent. Every point where the code awaits a query or an
RPC is a step of its own, so that anything may happen between two of them.

* The ledger: `CreateEntity`, `CastVote`. Event 0 is the creation, event *i* the *i*-th vote.
* A guarded batch (`pollLease.ts`) is sent (`Send`), executed by D1 whole or not at all
  (`Executes`: the fence, then `Applied`), and answered (`BatchAnswered`), or it fails and is
  sent again (`BatchFails`: executed with the answer lost, or not executed), or it arrives after
  its run has been interrupted (`BatchLandsLate`).
* A poll: `Acquire`; `ApplyOverride`, `ReadCursor` or `BootstrapCursor`; `FetchPage`;
  `ProcessEvents`; the cache and state rows; `ReadState`, `FetchVotes`, `ClassifyVotes`,
  `ReadAggregates` and the commit; the cursor's advance; `StartBackfill`, `ListEntities`;
  `Finalize`; `Release`.
* Faults: `Interrupt` (the timeout), `Crash`, `ReadFails`, `BatchFails`, `WorkingLeaseExpires`.
* The lease row has no clock: `lease.live` answers `expires_at > now`, and may become false at
  any moment, which also covers clocks that disagree.
* Votes are numbered from 0 and the slice `lastVoteCount..voteCount` is inclusive (the comment in
  `makeVoteIndexKeys.ts` takes indexes as 1-based), so a slice may hold one vote behind the observed
  count. The next run counts it again in its own place: the totals stay right, only the stored count
  lags, and `TallyIsPrefix` allows one vote more than `db.last`.
* An account's vote power is fixed at the entity's snapshot, so a total is a formal sum: how many
  times each account's power is included. Equality of formal sums is equality for every power.

`PublishedTally` is the abstract specification: votes are cast, and from time to time the totals
of a longer prefix of the log are published. `VoteTally` implements it under
`log <- votes, published <- seen, totals <- db.agg`.

### Elections: `ElectionCollector`, with `ElectionLedger`

`ElectionLedger` is one election as the collector meets it: the ledger's clock, the recorded
outcome, the rounds' starts, the vote logs, whether a tie resolution is recorded, and the stream of
events. An event carries what a read at its own state version returns (`outcome`, `rounds`), because
every projection reads the contract at the event's version. The guards of `StartRound`,
`RecordTie`, ... are those of the contract's methods in `Governance`. Its `Course` has the check open
until `CheckDays` and nothing proposed; which round a tie was of is told by its event. `tally` is the weighted
verdict on the candidate list: unknown until `CacheTally`, the moment `VoteTally` is about.

`ElectionCollector` adds D1 (`db`: the rows of `mj_election`, `mj_round`, `mj_account_ballot` and
`mj_result`, as far as anything is decided on them) and the runs, as in `VoteTally`:

* The stream: `ReadCursor`, `FetchPage` (page, deduplication, watermark), then for each event the
  projection (`InitializeCache`, `ProjectElection`, `ProjectRounds`, `ReadPhase`, `WritePhase`),
  for a vote `Calculate` and `Commit`, for a tie resolution `ResolveTie` and `Commit`; at the end of
  the page `Advance`.
* The finalizer: `ResolveGate`, `SelectRounds`, `CloseSuperseded`, `FinalizeLatest`, with the same
  `ReadPhase`, `WritePhase` and `Commit`; `job.stage` says what comes after them.
* `Commit`, `Advance` and `InitializeCache` are guarded batches. `ProjectElection`, `ProjectRounds`
  and `WritePhase` are plain statements, which a run without the lease executes all the same;
  `ReadPhase` and `WritePhase` are two steps because `setPhaseStatus` reads before it writes.
* A batch is executed in the step that sends it, or its answer is lost (`AnswerLost`). Batches that
  arrive late, the cursor's bootstrap and its override are `VoteTally`'s subject and left out here.
* `Verdict` is the calculator, a constant operator: a round and its ballots to a closed status.
* `Heeds` names the steps (`roundOne`, `rerun`, `tie`) that the operator takes only on the published
  status, as the admin pages do (`Offered`, `Adjudicable`); the others are taken whenever the contract
  allows. The pages' check and the transaction are one step.

Left out: the phases `PENDING` and `RERUN_PENDING`, which wait for a start in the future that this
contract never sets; elections projected before quorums were stored; ballots of accounts without
power, which are not stored; histograms and seats; `mj_round.status`, which no decision reads.

`PublishedElection` is the abstract specification of the results: a round's result is provisional
until it is decided, once, with the verdict on all the votes cast in it, after which nothing is cast
in it; a rerun is decided only after a first round that failed its quorum; a tie may become final.
`ElectionCollector` implements it under `cast <- logs, results <- db.results`.

### An election's result: `MajorityJudgment`

The calculator as operators over the ballots of a round: `Histogram`, `CandidateGauge` (the grade at
the quantile 3/5, the powers above and below it, the band), `Better` (the comparison), `Ordered` and
`GroupStarts` (the sort and its ties), `Straddling` (the tie at the seat boundary), `Calculate` and
`Resolve` (the recorded draw). The calculator keeps no state; the variables are its input, ballots
that are cast and regraded one grade at a time, so that a step can be compared with the one before.
The error paths for malformed input, which no caller reaches, are left out.

### A voter's power: `VotePower`, with `PoolPositions` and `ExactAmounts`

`VotePower` is `votePowerSnapshot.ts`: `Begin` takes a batch of unweighed voters and the epoch of the
configuration that held at the start (`FindEpoch`), `ReadRate`, `ReadBalances`, `ReadValidators`,
`ReadLsuMap` and `Receipts` are its reads, `Weigh` its sum. The ledger is the sequence of its states:
every read is of the start's state version (`world`) except that of the validators, which is of now
(`head`). Meanwhile the ledger moves on (`MoveOn`) and the configuration is deployed anew (`Deploy`).
`LsuMapFails` is the other answer the Gateway may give about a stake unit younger than the start.

`PoolPositions` is the worth of one pool of each kind: fungible shares, receipts on bins (shape
pools), receipts on a range of prices (precision pools). `ExactAmounts` is the arithmetic: I192
truncates, BigNumber rounds half up, and `SortKey` is the padded text. An amount is a natural number
of the smallest unit in any `Base`; one digit stands for the 18 places of an amount and one for
the 20 of a quotient. The 50 digits that other products keep are taken as exact. `Weigh` stores the
batch's powers, each under its sort key; what `parseExactDecimal` refuses (`IsExactDecimal`) has none,
and then nothing of the batch is stored and the poll fails (`StoringFails`). In the code that takes 81
digits; in the instance a key has room for two, which one account of one world fills to the last. The
pools' hard-coded addresses and the breakdown that is logged are left out.

### The client

The pages keep copies and forms. A copy is any earlier state of what it copies: a read is one step
that takes the value of now, and acts much later. `scene` in `MCClient` (and in `MCCalculations`) says
which page (or calculation) a behaviour is about; the pages share no state but the ledger's, of which
each module has its own part.

* `WalletBatch`: accounts connected and selected, the votes read last, and a batch: one transaction
  per account in turn, which the wallet confirms, refuses, or loses sight of (`StatusLost`; it then is
  `loose` and may still be executed). A failed one does not stop those after it.
* `VotingSection`: the form of a check or a proposal. `Following` is the effect that copies the
  recorded vote into a closed form.
* `ElectionPage`: the copy of the published election, its refreshes by a page that waits (`Waiting`: not
  indexed, or its outcome not projected), by "Check now" and after an operator's transaction; the grades
  drafted from a prior ballot (`Initial`) and those picked (`picked`); the rerun with its new votes, which
  sets the first round's aside (`former`); a visit, which starts everything anew and interrupts a batch
  (`Visit`, `Leave`). The refreshes read the election and not the votes, so after a rerun opens the page
  goes on offering, unpicked, the grades of the first round until it reads the votes (`RerunUnread`).
  `UnpickedAreRecorded` compares with the ledger and names that state: there, and only there, the grades
  are the first round's. A refresh of the election that fails, which takes the ballot off the page, is left out.
* `OperatorConsole`: several operators record the outcome, promote, open round and rerun, order a
  tie, each behind what their page shows; `Accepted` is the contract's own check, `Count`, `ResolveGate`
  and `FollowRound` the collector's publications, whose detail is `ElectionCollector`'s. Its `Course` reads
  votes of the check only, since the rounds' ballots are nothing the console decides on.
* `ParameterEditor`: one form per set, filled from a copy of the registry and kept by set and
  version; saves write the whole set. A read that fails closes the panel, the form of a new set too. `Admitted` is the badge the manifest presents.
* `TemperatureCheckForm`: the form's own schema (`Valid`), then the schema of the manifest
  (`Buildable`); which badge the current account holds decides about Abstain.
* `EntityLists`: a page of checks is a count and then entries; the list of elections joins two
  reads, one of them at a single state version.

## 3. The runs

A property that is a conjunction (`TallyInv`, `StoresInv`, `BallotInv`, `RecordsInv`,
`RegistryStaysUsable`, `SectionIsCurrent`, `FormsAreHonoured`, `ListsAreFaithful`,
`EditsAreRespected`) has named parts, and
more than one mutant where the parts fail in different ways.

| Run | Instance | What it shows |
|---|---|---|
| `tally` | 2 runs, 2 voters, 2 single-choice options, pages of 2, 2 votes, 1 fault, 1 retry | safety of the tally, `TallyInv` (the invariant that is proved), refinement of `PublishedTally` |
| `tally_live` | 2 runs, 1 voter, 2 votes, pages of 1, 1 fault, `LEDGER_STATE_VERSION` set, under `FairSpec` | every vote is in the totals in the end; an override places the cursor once, and nothing takes it back |
| `tally_chunk` | 1 run, 2 votes, chunks of 1, no fault | a finding: see section 6 |
| `governance` | 1 check of either kind and its continuation, 2 voters, 2 votes per book, 4 instants, 2 parameter sets | books, phases, decisions, rounds, rerun and tie resolution in every order; refinement of `Consultation`; invalid drafts, selections, gradings and parameters are offered and refused |
| `governance_two` | 2 consultations of either kind, no votes, 2 parameter sets of 2 versions | continuations pair; a version means one content, the default set can be chosen |
| `election` | 2 runs (symmetric), 1 stalled lease owner, 1 voter, 1 ballot per round, pages of 2, an operator who starts the rerun whenever the contract allows | the results implement `PublishedElection` while polls overlap |
| `election_heeding` | 1 run, 2 voters, 2 ballots per round, a visibility toggle, 1 fault, a heeding operator, under `FairSpec` | gate, status against results, ballots against votes, monotone status; rounds are closed in the end |
| `election_gate` | 1 run, 1 voter, no faults, an operator who heeds nothing | a finding: see section 6 |
| `election_stall` | 2 runs, 1 stalled lease owner, a heeding operator | a finding: see section 6 |
| `delegation` | 2 delegators, 4 accounts, thirds, lists of 2, 3 instants | list and mirror |
| `judgment` | 3 voters of powers 1, 1 and 3, 4 candidates, 2 grades, rules for 1 and 2 seats; 3 holders, 4 states of the ledger, 3 configurations, base 4 | seats, ties, draws, raised grades; powers that depend neither on the time nor on the company of the weighing; rounding |
| `client` | 2 accounts, 2 options or 2 candidates of 2 grades, 1 batch, 1 change of accounts, visits and operators' refreshes before it (`BeforeLastSwitch`); 2 operators; 2 admins and 2 sets; a form of 2 profiles; 4 checks in pages of 2 | what pages send and show |

**Bounds.** `MaxVotes = 2` is enough for the tally's hazards: one vote counted and one that
arrives, or is recounted, while it is counted; with two voters the second is a new account or a
revote. Two runs are enough for a deposed owner and its successor; a run that has ended is
scheduled again, so successions are unbounded. `MaxFaults = 1` with all other interleavings means
that every single fault is tried at every step; the proofs have no such bound. `ChunkSize = 3` lets
every slice fit; `tally_chunk` is about one that does not. In the contract, voting days of 1 and 2
and a clock to 3 reach the instant before, at and after every deadline; two votes in a book give the
first vote and the revote; `MaxVersion = 2` gives one update before or after a snapshot; `MaxEntities`
and `MaxVotes` are also the counters' limits, where the checked additions panic. For an election,
phases of one day and a clock to 3 hold the check, the first round and the rerun and the instants
before and after each deadline (`election`, which is about the rounds, leaves out the check's day);
pages of 2 let a round's start and its vote share a page or fall into two; two ballots that mean
`FINAL` and `TIE_UNRESOLVED`, and none, which means a failed quorum, give every verdict. Three voters
over four candidates give a majority, a blocked quorum and ties of two to four that straddle the
last seat. The four ledger states differ in everything a snapshot reads: before the pools exist,
early, after trades and a renewed receipt, and with the price beyond every range. On the client,
one batch over two accounts has a first and a last transaction, each of which may fail, and one
switch of accounts falls between any two steps; four checks in pages of two give a full and a partial
last page and one created between two reads; a form of at most four options crosses each of the
schemas' limits from both sides. `CHECK_DEADLOCK FALSE` is set where the clock, the votes, the
batches or the edits may genuinely stop at a bound.

**Fairness.** Only `tally_live` and `election_heeding` need it. `WF(Work(r))`: the cron starts a poll
each minute, an undisturbed run goes on, D1 answers; a run that never goes on again is a crash, which
is a fault. `WF(AbandonedLeaseExpires)`: a lease that nobody renews has a finite duration. Voters, and
faults, owe nothing. `election_heeding` also assumes that the check's tally is cached in the end
(`WF(CacheTally)`): that is `VoteTally`'s liveness, without which the gate rightly stays shut. Its
operator heeds the published status; one who records a tie resolution before the collector has
found the tie makes `resolveTie` fail at each poll, and the cursor stays where it is. The client's
pages promise safety only: a user may always walk away.

**Mutants.** Each property of each passing run comes with a plausible bug (a definition marked
`mutant` next to the one it replaces) under which TLC finds the property violated.

## 4. What is proved

All proofs are free of assumptions other than those on the constants (`NoneAssumption`,
`BallotsAssumption`, `BoundsAssumption`, `JudgmentAssumption`, `NoneIsNoNumber`, ...), which TLC
evaluates in the runs, and the premises named below. Where a constant stands for a contract outside
the repository, its assumption says what that contract keeps: validators stay registered, a token's
divisibility is fixed, the claims on a bin are part of its total, accounts hold no more pool units
than there are (`ValidatorsStay`, `GrainsStay`, `PoolsAssumption`).

* `VoteLogProofs`: `LastBallotIncremental`, the fact that makes incremental counting sound: the
  last ballots of votes 1..*k* overwritten by those of a later slice, even one that overlaps what
  was counted, are the last ballots of the longer prefix. `LastBallotStable`: later votes do not
  change the count of a slice.
* `VoteTallyProofs`: `TypeCorrect`; then `TallyInvariant`, the inductive invariant `TallyInv`.
  `TallyIsPrefix` alone is not inductive: it says nothing of what a run holds between its reads
  and its commit. `OwnerIsCurrent` adds that: *as long as the lease row names the run*, what it
  has read is still what the tables hold, or its commit has already taken effect and is being
  repeated. Only an owner's batch passes the fence, so a commit either satisfies this or changes
  nothing. `FlyingOnlyWhenLeft` excludes two batches of one run, `CountsVisible` bounds what is
  fetched. From it follow `TallyIsAlwaysPrefix`, `OwnersNeverUnderflow`, `TallyMonotone` and the
  refinement `TallyImplementsPublishedTally`, for any number of runs, voters, votes and faults. All
  but the types have the premise `SlicesFit`: no slice of votes is longer than a chunk of the
  Gateway client. Without it the totals are wrong (`tally_chunk`).

  The cursor has an inductive invariant of its own, `CursorInv`, which needs no premise, because it
  speaks of the stored count only (`CountPassesCursor`: the cursor does not pass `db.last`);
  `PhaseFits` and `ReachFits` say of a run's job which events it has yet to
  act on and how far its page reached, `CursorHeld` that *while it has the lease* every event between
  the cursor and what it will write is either counted or still in its page, and `EnteredOnce` that the
  bootstrap leaves the older votes to a backfill that is not complete. From it alone follows
  `CursorIsMonotone`. `NoVoteIsSkipped` and `DrainedIsCounted` say that the votes are in the totals
  (`TotalsCover`), not merely in the count stored beside them: they combine `CursorInv` with
  `TallyIsPrefix`, and so have the premise `SlicesFit`, without which `tally_chunk` shows the two apart.
* `ElectionCollectorProofs`: `BallotsAreCounted`, from the inductive invariant `CollectorInv`.
  `Placed` is what holds of a job whether or not its run has the lease: the events it still has to act
  on are in the stream, and the ballots it is about to write are those of a prefix of the round's
  votes. `Knows` is what only the lease's owner may rely on: a write never takes a count back, and
  every vote event up to the end of its page is counted, or stands behind a later event of the page
  with the same key (`Covered`), which is why deduplication loses nothing. Both are operators of a
  job, a step, the events and the counts, so that an action's effect is stated of their values before
  and after it. `VotesOrdered` (later events of a round have greater counts) makes the last event of
  a key the one to keep.
* Its second part: `ResultsImplementPublishedElection`, from `ResultsInv`, which adds time.
  A page that is not full was read at the ledger's time together with the stream's end, so all votes of
  the rounds that had ended by then are behind it (`Listed`); a run past its pages that has the lease
  therefore has counted them all (`AllCounted`), and since an ended round takes no further vote, the
  verdict it commits (`Justified`) is on the round's whole log, whenever it commits it. `ClosedEnded`
  says that only an ended round is closed, which is why nothing is cast in a decided one.
* Its third part: what the election's status shows, from `StatusInv`. `GateAlwaysHolds` has the
  premise that round one is started on the published status, `StatusAlwaysShowsResult` and
  `StatusAlwaysAdvances` that the rerun is, too, and all three that no run outlives its lease
  (`MaxStalls = 0`). Each is needed: TLC refutes the gate for an operator who heeds nothing
  (`election_gate`), and a deposed run writes the status it read before its successor's
  (`election_stall`), because these writes are not fenced. `Alone` states what the last premise gives: a
  run at work is the lease's owner. `Gated` and `JobGated` tie the status, in the tables and in a
  job about to write it, to a pass of the check that is recorded and weighed; `CheckSound` ties that to the
  contract's events; `Shown`, `JobShown` and `ClosedInTime` tie it to the results, whose rounds have
  ended by the job's time. An interrupted or crashed run keeps none of these promises, and breaks none.
  `ElectionImplementsConsultation`: the ledger's steps take the course of `Consultation`, and the
  collector's leave it alone, whoever heeds or does not heed the published status. It needs that rounds
  last at least one day, as `validate_governance_parameters` asserts: a round that begins and ends in one
  instant would go from pending to over.
* `VoteDelegationProofs`: `StoresAreSound` (with `DelegationTypes`, `ListsAreBounded`,
  `MirrorIsExact`) and `OnlyTargetTouched`. The bound and the mirror are inductive together with the
  types. `MirroredNeverBeyondWhole`: what a reader of the mirror adds up never exceeds the whole.
  The invariant is of the lists, expired entries included (`ListsWithinWhole`); a delegatee that the
  mirror names is on the list once, so its sum is a part of the list's.
* `SetLemmas`: what several proofs need about finite sets. Sums over them (`MapThenSumSet`): that the
  recursion behind them is well defined, that they do not depend on the order, that parts, unions, groups,
  multiples, and rows and columns of a table add up as they should. An induction over sets is out of the
  provers' reach, because they cannot instantiate a theorem with an operator. Each proof takes instead a
  smallest subset for which the claim would fail, which exists since strict inclusion on the finite subsets
  is well-founded. And sorting by counts: `SortedEnumerates` shows by counting that it lists everybody
  once, in order.
* `GovernanceProofs`: all properties of the contract: `RecordsAreSound`,
  `ContinuationsArePaired`, `PhasesAreInOrder`, `HeldAsCreated`, `RegistryAlwaysUsable` (of
  `VersionsIdentify` and `DefaultStaysSelectable`) and `DecisionsAreFinal`, for any accounts,
  consultations, parameter sets and durations. The inductive invariant `GovernanceInv` says of every
  record what is true of it on its own (`CheckInv`, `ProposalInv`, `ElectionInv`: its book agrees with
  itself and lies inside the phase, what was decided was decided after the deadline and not in the
  future), how records are tied to each other (`Links`), and that a snapshot is of a registered set,
  older than it or equal to it (`Snapshots`); without the last, two snapshots of one version could
  differ. `DecisionsAreFinal` needs the times: a check with an outcome is closed to votes because
  `outcome.at` lies between its deadline and now. `CastKeepsBooks` is the step all kinds of poll share.
* Its second part: the refinement of `Consultation`, `ConsultationsImplementConsultation` for a
  consultation of any id and `CoursesAreTaken` for all at once. Each action of the contract is a step
  of one course and a stutter of the others (`StepsTakeCourse`, from `CheckTakesCourse`,
  `ProposalTakesCourse`, `ElectionTakesCourse`, `CreationTakesCourse` and `TimeTakesCourse`): what
  happens to a proposal or an election concerns one course only, because `Links` ties it to one check. `OnePollIsOpen` is why a tick closes at most one poll; for a rerun it needs the rerun's start
  to be behind the first round's deadline and not in the future, which `ElectionInv` therefore says.
* `CalculationProofs`, gauges: `BetterIsAsymmetric` and `RankingIsWeakOrder`: the comparison of gauges
  is a strict weak order, so that the sort and the groups of ties do not depend on the order the
  candidates come in. `RaisingNeverWorsensGauge`: a histogram that moves up gives a gauge that no
  other overtakes, the step behind `RaisingNeverHurts`.
* `CalculationProofs`, results: the four promises of the calculator, for any electorate, powers, grades,
  seats and quorum: `SeatsAlwaysGoToTheBest`, `AlwaysNeutralToIds`, `RaisingNeverHurtsAnybody` and
  `DrawAlwaysSettlesOnlyTheGroup`. `JudgmentInv` is small (the verdict is the calculator's); the work is in
  what the calculator returns. A sort is written as *the members, each behind all those before it*
  (`Sorted`), so that a place is a count and not the end of a recursion: by `SortedEnumerates` this lists
  everybody once, by `AheadComesFirst` what is closed to the front comes first.
  `ResultByCounts` then puts the whole result in two numbers of a gauge, how many are better
  (`Ahead`) and how many are not worse (`NotBehind`): seated if all of these fit in the seats, tied if the
  last seat is among the equals, in reserve otherwise; the rank is the first number and one. Places and ids
  are gone from it, so an exchange of ids, which keeps the counts, is neutral; a raised gauge lets both
  counts only fall (`CountsFall`). For a draw, sorting by rank and id gives the order of the gauges
  again (`RanksGiveIdOrder`), and the group's places hold the drawn order (`DrawFills`). The groups of
  ties, which the code finds place by place, are a recursive function whose values follow from the
  counts (`GroupStartsAre`), by the least place where they would not.
* `CalculationProofs`, weighing: `PowersAreWhatARecountGives`, from `PowerInv`: the ledger and the list of
  epochs only grow at their ends (`HistoryStays`), so the epoch found for the start and the world at
  the start stay what they were, and what the snapshot in progress has read is what a recount reads
  (`JobAsRecounted`), but for validators registered since, which `LsuMap` leaves out of both.
  `PositionsFollowThePrice` is monotony of the amounts of a precision position through every rounding.
* `CalculationProofs`, sort keys: `KeysAlwaysSortByPower`, for any base and number of digits. The value of a
  place is a recursive function, which the provers take for any choice that fits its equation; `PlaceValues`
  shows that there is one, from tables of the first places that agree (`PlaceTableExists`,
  `PlaceTablesAgree`). The zeros that `toFixed` drops are the ones that the padding puts back, so the key is
  the number's digits (`PaddedFraction`, `KeyIs`); the first place at which the quotients of two
  numbers part is the first digit that differs, and the greater number has the greater one there
  (`DigitsDecide`). Of what is stored, only `PowersAreExact` is needed: a power without a key is refused.
* `CalculationProofs`, pools: `ClaimsNeverOverdraw`: any number of claims on a bin, each truncated twice,
  never add up to more than it holds, in any base. `PoolsAlwaysCountedOnce` builds on it: the table of
  receipts by bins is summed by bins, where each column is bounded by the bin (`BinsNeverOverdrawn`);
  receipts grouped by owner are part of all receipts (`ShapeXrdIsOfReceipts`). For pool units the
  table is of accounts by tokens, and the rounding of a unit's value costs half of the last place for
  each unit (`UnitsWorthHoldings`).
* `ClientProofs`, one inductive invariant for each page, for any accounts, options, candidates,
  operators, admins, sets and profiles. `SignedInv` (a batch still has to send only what was submitted,
  for those accounts) gives `OnlyWhatWasSigned` of both pages with a wallet
  (`SectionSendsWhatWasSigned`, `PageSendsWhatWasSigned`), though transactions are lost and land late.
  `SectionInv` (the copy is of now unless something is being read or was lost; a closed form shows the
  copy) gives `SectionAlwaysCurrent` and `DraftIsAlwaysTheUsers`. `UnpickedAlwaysRecorded` and
  `DraftsSurviveRefreshes` are of the election page. The first is from `PageInv`: a quiet copy is of the
  ledger, of the round before where the rerun has opened since the read (`ViewIsOfLedger`), the ballots
  of the two rounds are told apart by the round they name (`RoundsApart`), and a grade of the draft
  that was not picked is the entry's (`UnpickedAreEntrys`). `ConsoleInv` says how old what an operator's
  page shows, and what its transaction asks for, may be at most, and gives `RoundsAlwaysFollowVerdicts`.
  `CourseInv` adds that what is asked for is of the check's kind, a proposal or an election, which gives
  `ConsoleImplementsConsultation`.
  `EditorInv` says that a form or a save under way is as old as the version it names, and as the
  set was then but for the edits: `EditsAlwaysRespected`. `FormInv` (nobody is taken for an operator who
  is none; what is under way keeps the promises of what is created) gives `FormsAlwaysHonoured`.
  `ListInv` gives `ListsAlwaysFaithful`: what has been read for a list contains everything that was there
  when it was asked for, and checks stay what they are (`HasElections`, `HasChecks`); that the pages are
  slices of the list and reach its end holds for every count and size of a page (`PagesAlwaysPartition`).
  `SectionIsCurrent` is stated of the composition's `Spec`, the others of their page's own.

Only model-checked: `VotesEventuallyCounted` and `RoundsClose`. Liveness under fairness is outside the
prover's reach. Every other property of the passing runs is stated by a theorem. The other way round, the two
refinements `ElectionImplementsConsultation` and `ConsoleImplementsConsultation` are proved and no run
lists them; the one by `Governance` is both proved and run.

## 5. Not modelled

* The HTTP read API. Each request reads committed rows and keeps nothing. `getElectionResponse`
  (`repo.ts:842-998`) takes its answer from statements that are not one transaction, so an answer may
  mix the rows of before and after a commit; the pages that show it are modelled with copies of one
  moment, and what they send is checked by the contract again.
* Several entities at once: the deduplication of a page that mixes them, the backfill in batches of
  five. Each entity's rows are keyed by its id and no statement of one reads those of another, but a
  failing entity stops the page for all (hazard at `poll.ts:176`).
* A Gateway replica whose vote count is older than the stream page (hazard at
  `governanceEvents.ts:169`).
* A first attempt of a batch that D1 executes only after the retry has been answered: the platform
  is taken to execute or to drop an attempt before its failure is reported (hazard at
  `pollLease.ts:63`).
* The rewriting of histograms stored before quorums were kept (`repo.ts:89-165`), seats and histograms
  as stored texts.
* Decoding of Gateway answers, the texts of manifests, links, presentation, the about pages and the
  filter by visibility: conversion without state. Visibility is filtered after paging, so that a page
  of hidden entries is shown as empty.

## 6. Findings

`election_gate`: the projection holds an election at its gate until the finalizer has weighed the
candidate list's check, and the design says that no manifest can force it into voting. The live
calculation does not share that restraint: it publishes `LIVE` with the first ballot. An operator
who starts round one by a manifest of their own, before the weighted tally is known, gets an
election that votes although its check has failed. With an operator who follows the admin pages
`GateHolds` holds (`election_heeding`, and `GateAlwaysHolds` for every instance).

The same commit publishes `RERUN_LIVE` with a rerun's first ballot, where `setPhaseStatus` would have
refused the status of a rerun that no failed first round backs.

`election_stall`: `setPhaseStatus` reads and writes in two plain statements. A poll that outlives
its lease between the two writes the phase it has read over the final status of its successor, and
since a closed result is never closed again no later poll repairs it.

Both concern `mj_election.status`; the results of the rounds keep their promise (`election`), with an
overlapping poll and a premature rerun too.

`tally_chunk`: the votes of a check or proposal are asked for by a list of ids, which the Gateway client
answers in chunks of a hundred; the reader takes the first chunk only, and the count of all of them is
stored as processed. More than a hundred votes between two polls, or before the first one, leave the
rest uncounted for good. The election's reader of the same file takes all chunks.

## 7. Plan

Done, in this order: lease, log, tally with its abstract specification, their proofs; delegation
and its proofs; the contract and its proofs; one election in the collector with its abstract
specification and their proofs; the calculator; vote powers and exact amounts; the pages of the client; the
proofs of the tally's cursor, of the election's status, of the weighing, the pools and the sort keys, of
the pages and lists, and of the election's result; `Consultation` and the proofs that the contract and
both of its reductions implement it.

Next:

* Several entities: events of a page that mix them, the backfill in batches, replicas that lag.
