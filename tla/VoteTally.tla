------------------------------ MODULE VoteTally ------------------------------
(***************************************************************************)
(* The collector's tally of one standard entity (a temperature check or a  *)
(* proposal): polls that read the ledger's event stream from a cursor,     *)
(* recompute the entity's vote aggregates in D1 and advance the cursor,    *)
(* while voters vote, polls overlap, time out, crash and lose answers.     *)
(*                                                                         *)
(* Ledger events have state versions 0, 1, ...: the entity's creation is   *)
(* event 0 and its i-th vote (vote id i - 1) event i.                      *)
(***************************************************************************)
EXTENDS PollLease, VoteLog

CONSTANTS
  Absent,      \* a config row that does not exist, an unset environment value
  Override,    \* LEDGER_STATE_VERSION: a state version, or Absent
  PageSize,    \* PAGE_SIZE: events per stream page
  ChunkSize,   \* keys the Gateway client asks for in one request (100)
  MaxRetries,  \* retries of a batch after a transient D1 failure
  MaxVotes,    \* bound: votes cast
  MaxFaults    \* bound: timeouts, crashes, D1 failures, early lease expiries

ASSUME AbsentAssumption  == Absent \notin Nat
ASSUME OverrideAssumption == Override \in Nat \cup {Absent}
ASSUME BoundsAssumption ==
  /\ PageSize \in Nat \ {0}
  /\ ChunkSize \in Nat \ {0}
  /\ MaxRetries \in Nat
  /\ MaxVotes \in Nat
  /\ MaxFaults \in Nat

VARIABLES
  created,  \* the ledger: whether the entity exists,
  votes,    \* and its votes, in the order of their ids
  db,       \* the D1 tables
  pc,       \* per run: the next operation,
  job,      \* what it has read or decided so far,
  req,      \* the batch it last sent
  flying,   \* and whether that batch is still on its way to D1
  faults,   \* faults that have happened
  seen,     \* history: the number of votes the stored tally reflects
  origin    \* history: where the cursor was last placed from outside the stream

ledgerVars == <<created, votes>>
runVars == <<pc, job, req, flying>>
vars == <<lease, created, votes, db, pc, job, req, flying, faults, seen, origin>>

-----------------------------------------------------------------------------
EventCount == IF created THEN Len(votes) + 1 ELSE 0

NoBallots == [a \in Accounts |-> {}]
NoSums == [v \in Options |-> [a \in Accounts |-> 0]]

\* The rows of config, vote_calculation_state, _account_votes and _results.
Db == [cursor     : Nat \cup {Absent},
       overridden : Nat \cup {Absent},
       state      : {"absent", "pending", "computed"},
       last       : Nat,
       rows       : [Accounts -> SUBSET Options],
       agg        : [Options -> [Accounts -> Int]],
       backfill   : {"pending", "complete"}]

DbInit == [cursor |-> Absent, overridden |-> Absent, state |-> "absent",
           last |-> 0, rows |-> NoBallots, agg |-> NoSums,
           backfill |-> "pending"]

Phases == {"stream", "backfill"}
Todos == SUBSET {"created", "votes"}

Job == [phase : Phases, sv : Nat, next : Nat, full : BOOLEAN, mark : Nat,
        todo : Todos, count : Nat, last : Nat, upto : Nat,
        fetched : [Accounts -> SUBSET Options],
        old : [Accounts -> SUBSET Options],
        agg : [Options -> [Accounts -> Int]]]

JobInit == [phase |-> "stream", sv |-> 0, next |-> 0, full |-> FALSE, mark |-> 0,
            todo |-> {}, count |-> 0, last |-> 0, upto |-> 0,
            fetched |-> NoBallots, old |-> NoBallots, agg |-> NoSums]

BatchKinds == {"override", "bootstrap", "initCache", "createState", "markComputed",
               "commit", "advance", "progress"}

Req == [kind : BatchKinds, live : BOOLEAN, retries : Nat]

ReqInit == [kind |-> "advance", live |-> FALSE, retries |-> 0]

Steps == {"cursor", "page", "events", "initCache", "state", "readState", "mark",
          "fetch", "classify", "aggregate", "commit", "advance", "backfill",
          "list", "progress", "wait", "finalize"}
PCs == Steps \cup {"idle", "release", "done", "dead"}

Active(r) == pc[r] \in Steps
Waiting(r) == pc[r] = "wait"

TypeOK ==
  /\ lease \in Lease
  /\ created \in BOOLEAN
  /\ votes \in Seq(Vote)
  /\ db \in Db
  /\ pc \in [Runs -> PCs]
  /\ job \in [Runs -> Job]
  /\ req \in [Runs -> Req]
  /\ flying \in [Runs -> BOOLEAN]
  /\ faults \in 0..MaxFaults
  /\ seen \in Nat
  /\ origin \in Nat

Init ==
  /\ LeaseInit
  /\ created = FALSE
  /\ votes = <<>>
  /\ db = DbInit
  /\ pc = [r \in Runs |-> "idle"]
  /\ job = [r \in Runs |-> JobInit]
  /\ req = [r \in Runs |-> ReqInit]
  /\ flying = [r \in Runs |-> FALSE]
  /\ faults = 0
  /\ seen = 0
  /\ origin = 0

-----------------------------------------------------------------------------
(***************************************************************************)
(* The ledger                                                              *)
(***************************************************************************)
CreateEntity ==
  /\ ~created
  /\ created' = TRUE
  /\ UNCHANGED <<lease, votes, db, runVars, faults, seen, origin>>

CastVote(a, b) ==
  /\ created
  /\ Len(votes) < MaxVotes
  /\ votes' = Append(votes, [account |-> a, ballot |-> b])
  /\ UNCHANGED <<lease, created, db, runVars, faults, seen, origin>>

-----------------------------------------------------------------------------
(***************************************************************************)
(* Guarded batches                                                         *)
(***************************************************************************)
Goto(r, step) == pc' = [pc EXCEPT ![r] = step]

\* A run hands a batch to D1 and awaits the answer.  What the batch writes is a
\* function of its kind and of the run's job, which stays as it is meanwhile.
Send(r, kind) ==
  /\ Goto(r, "wait")
  /\ req' = [req EXCEPT ![r] =
       [kind |-> kind, live |-> lease.live /\ lease.owner = r, retries |-> 0]]
  /\ flying' = [flying EXCEPT ![r] = TRUE]

\* initializeComponentCache, with the vote count 0 for a creation event and the
\* listed count in the backfill: a row of an entity without votes is computed at
\* once; an existing row never loses its counts or its flag.
CacheState(state, voteCount) ==
  IF voteCount = 0 THEN "computed" ELSE IF state = "absent" THEN "pending" ELSE state

\* Mutant: the stored ballots of re-voters are not deleted.
CommittedKeepingRevotes(d, j) ==
  [d EXCEPT !.rows = [a \in Accounts |-> d.rows[a] \cup j.fetched[a]],
            !.agg = j.agg, !.last = j.count, !.state = "computed"]

\* commitVoteResults: rows of accounts that voted before are deleted, the new
\* ballots inserted, the totals overwritten with those computed in advance.
Committed(d, j) ==
  [d EXCEPT
     !.rows = [a \in Accounts |->
                 IF j.fetched[a] = {} THEN d.rows[a]
                 ELSE (IF j.old[a] = {} THEN d.rows[a] ELSE {}) \cup j.fetched[a]],
     !.agg = j.agg,
     !.last = j.count,
     !.state = "computed"]

\* applyOverride moves the cursor and remembers that it did.
OverrideForgotten(d, sv) == [d EXCEPT !.cursor = sv]  \* mutant: not remembered

OverrideApplied(d, sv) == [d EXCEPT !.cursor = sv, !.overridden = sv]

Applied(d, kind, j) ==
  CASE kind = "override"     -> OverrideApplied(d, j.sv)
    [] kind = "bootstrap"    -> [d EXCEPT !.cursor = j.sv]
    [] kind = "initCache"    ->
         [d EXCEPT !.state = CacheState(@, IF j.phase = "stream" THEN 0 ELSE j.count)]
    [] kind = "createState"  -> [d EXCEPT !.state = IF @ = "absent" THEN "pending" ELSE @]
    [] kind = "markComputed" -> [d EXCEPT !.state = "computed"]
    [] kind = "commit"       -> Committed(d, j)
    [] kind = "advance"      -> [d EXCEPT !.cursor = j.next]
    [] kind = "progress"     -> [d EXCEPT !.backfill = "complete"]

\* D1 executes the batch of run r, whole or not at all.
Executes(r) ==
  LET j == job[r]
      k == req[r].kind
  IN  IF FencePasses(r, req[r].live)
      THEN /\ db' = Applied(db, k, j)
           /\ RenewLease
           /\ seen' = IF k = "commit" THEN j.upto ELSE seen
           /\ origin' = IF k \in {"override", "bootstrap"} THEN j.sv ELSE origin
      ELSE UNCHANGED <<db, lease, seen, origin>>

NotExecuted == UNCHANGED <<db, lease, seen, origin>>

\* The step that follows the acknowledgement of a batch.
AfterBatch(j, kind) ==
  CASE kind \in {"override", "bootstrap"} -> "page"
    [] kind = "initCache" ->
         IF j.phase = "stream"
         THEN IF "votes" \in j.todo THEN "state" ELSE "advance"
         ELSE IF j.count > 0 THEN "state" ELSE "progress"
    [] kind = "createState" -> "readState"
    [] kind \in {"markComputed", "commit"} ->
         IF j.phase = "stream" THEN "advance" ELSE "progress"
    [] kind = "advance"  -> IF j.full THEN "page" ELSE "backfill"
    [] kind = "progress" -> "finalize"

\* A failure ends the poll, except in the backfill, whose failures are logged
\* and left for the next poll.
AfterFailureAdvances(j) ==   \* mutant: a failed action does not end the page
  IF j.phase = "backfill" THEN "finalize" ELSE "advance"

AfterFailureCompletes(j) ==  \* mutant: a failed backfill is recorded as done
  IF j.phase = "backfill" THEN "progress" ELSE "release"

AfterFailure(j) == IF j.phase = "backfill" THEN "finalize" ELSE "release"

Fault ==
  /\ faults < MaxFaults
  /\ faults' = faults + 1

\* What a run keeps once a batch is acknowledged: the results of a vote
\* calculation are local to it, and so is a page to its iteration.
Forget(j, kind) ==
  CASE kind \in {"markComputed", "commit"} ->
         [JobInit EXCEPT !.phase = j.phase, !.sv = j.sv, !.next = j.next,
                         !.full = j.full, !.mark = j.mark]
    [] kind = "advance" -> [JobInit EXCEPT !.sv = j.next, !.mark = j.mark]
    [] OTHER -> j

\* The batch is executed and its answer reaches the run.
BatchAnswered(r) ==
  /\ flying[r] /\ Waiting(r)
  /\ Executes(r)
  /\ flying' = [flying EXCEPT ![r] = FALSE]
  /\ Goto(r, IF FencePasses(r, req[r].live) THEN AfterBatch(job[r], req[r].kind)
             ELSE AfterFailure(job[r]))
  /\ job' = [job EXCEPT ![r] = IF FencePasses(r, req[r].live)
                               THEN Forget(@, req[r].kind) ELSE @]
  /\ UNCHANGED <<ledgerVars, req, faults>>

\* A transient D1 failure: the batch was executed and the answer lost, or it
\* never took effect.  The run sends the same batch again, or gives up.
BatchFails(r) ==
  /\ flying[r] /\ Waiting(r)
  /\ Fault
  /\ Executes(r) \/ NotExecuted
  /\ IF req[r].retries < MaxRetries
     THEN /\ req' = [req EXCEPT ![r].retries = @ + 1]
          /\ UNCHANGED <<pc, flying>>
     ELSE /\ flying' = [flying EXCEPT ![r] = FALSE]
          /\ Goto(r, AfterFailure(job[r]))
          /\ UNCHANGED req
  /\ UNCHANGED <<ledgerVars, job>>

\* The batch of a run that was interrupted or died meanwhile: nobody awaits it,
\* but it may still reach the database.
BatchLandsLate(r) ==
  /\ flying[r] /\ ~Waiting(r)
  /\ Executes(r) \/ NotExecuted
  /\ flying' = [flying EXCEPT ![r] = FALSE]
  /\ UNCHANGED <<ledgerVars, pc, job, req, faults>>

-----------------------------------------------------------------------------
(***************************************************************************)
(* A poll                                                                  *)
(***************************************************************************)
\* A scheduled invocation acquires the lease, or is skipped.
Acquire(r) ==
  /\ pc[r] = "idle"
  /\ AcquireLease(r)
  /\ Goto(r, "cursor")
  /\ UNCHANGED <<ledgerVars, db, job, req, flying, faults, seen, origin>>

\* LedgerCursor.getOrBootstrap: an override not applied before wins; then the
\* stored cursor; then the ledger's current version, the state version of the
\* last event or of a later unrelated transaction.
ApplyOverride(r) ==
  /\ pc[r] = "cursor"
  /\ Override # Absent /\ db.overridden # Override
  /\ job' = [job EXCEPT ![r].sv = Override]
  /\ Send(r, "override")
  /\ UNCHANGED <<lease, ledgerVars, db, faults, seen, origin>>

ReadCursor(r) ==
  /\ pc[r] = "cursor"
  /\ Override = Absent \/ db.overridden = Override
  /\ db.cursor # Absent
  /\ job' = [job EXCEPT ![r].sv = db.cursor]
  /\ Goto(r, "page")
  /\ UNCHANGED <<lease, ledgerVars, db, req, flying, faults, seen, origin>>

BootstrapCursor(r) ==
  /\ pc[r] = "cursor"
  /\ Override = Absent \/ db.overridden = Override
  /\ db.cursor = Absent
  /\ \E s \in Nat \cap ((EventCount - 1)..EventCount) :
       job' = [job EXCEPT ![r].sv = s]
  /\ Send(r, "bootstrap")
  /\ UNCHANGED <<lease, ledgerVars, db, faults, seen, origin>>

\* processPage: an empty page, or a page of the events from sv on.
PageEnd(sv) == IF sv + PageSize <= EventCount THEN sv + PageSize ELSE EventCount

FetchPage(r) ==
  /\ pc[r] = "page"
  /\ IF job[r].sv >= EventCount
     THEN /\ job' = [job EXCEPT ![r].mark = EventCount]
          /\ Goto(r, "backfill")
     ELSE LET end == PageEnd(job[r].sv)
          IN  /\ job' = [job EXCEPT
                   ![r].mark = EventCount,
                   ![r].next = end,
                   ![r].full = (end = job[r].sv + PageSize),
                   ![r].todo = (IF job[r].sv = 0 THEN {"created"} ELSE {})
                                 \cup (IF end > 1 THEN {"votes"} ELSE {})]
              /\ Goto(r, "events")
  /\ UNCHANGED <<lease, ledgerVars, db, req, flying, faults, seen, origin>>

\* processBatch: every vote event reads the entity's current vote count, not
\* its count at the event; the events of one entity collapse into one action.
ProcessEvents(r) ==
  /\ pc[r] = "events"
  /\ job' = [job EXCEPT ![r].count = IF "votes" \in job[r].todo THEN Len(votes) ELSE 0]
  /\ Goto(r, IF "created" \in job[r].todo THEN "initCache" ELSE "state")
  /\ UNCHANGED <<lease, ledgerVars, db, req, flying, faults, seen, origin>>

\* The steps that only send a batch.
SendStep(r) ==
  /\ \E kind \in BatchKinds :
       /\ <<pc[r], kind>> \in {<<"initCache", "initCache">>, <<"state", "createState">>,
                               <<"mark", "markComputed">>, <<"commit", "commit">>,
                               <<"advance", "advance">>, <<"progress", "progress">>}
       /\ Send(r, kind)
  /\ UNCHANGED <<lease, ledgerVars, db, job, faults, seen, origin>>

\* VoteCalculation, after getOrCreateState: nothing to do when the stored count
\* has reached the observed one, except to flag the row computed.
ReadState(r) ==
  /\ pc[r] = "readState"
  /\ job' = [job EXCEPT ![r].last = db.last]
  /\ Goto(r, IF job[r].count > db.last THEN "fetch"
             ELSE IF db.state # "computed" THEN "mark"
             ELSE AfterBatch(job[r], "markComputed"))
  /\ UNCHANGED <<lease, ledgerVars, db, req, flying, faults, seen, origin>>

\* The slice of vote ids last..count, both inclusive: one id past the observed
\* count, which names a vote when one has arrived since.  The client asks for it in
\* chunks of keys, and only the answer to the first chunk is read.
FirstVoteExclusive(j) == j.last + 2  \* mutant: fetch after the last counted id

FirstVote(j) == j.last + 1

SliceEnd(j) ==
  IF j.count + 1 - j.last <= ChunkSize THEN j.count + 1 ELSE j.last + ChunkSize

FetchVotes(r) ==
  /\ pc[r] = "fetch"
  /\ LET from == FirstVote(job[r])
         to   == SliceEnd(job[r])
     IN  job' = [job EXCEPT
           ![r].fetched = [a \in Accounts |-> LastBallot(votes, from, to, a)],
           ![r].upto = IF to <= Len(votes) THEN to ELSE Len(votes)]
  /\ Goto(r, "classify")
  /\ UNCHANGED <<lease, ledgerVars, db, req, flying, faults, seen, origin>>

\* classifyVotes: the stored ballots of the fetched accounts.
ClassifyVotes(r) ==
  /\ pc[r] = "classify"
  /\ job' = [job EXCEPT ![r].old =
       [a \in Accounts |-> IF job[r].fetched[a] = {} THEN {} ELSE db.rows[a]]]
  /\ Goto(r, "aggregate")
  /\ UNCHANGED <<lease, ledgerVars, db, req, flying, faults, seen, origin>>

\* commitVoteResults reads the stored totals, removes the re-voters' previous
\* contributions and adds the fetched ones.  A total below zero is a defect; when
\* one account's share is, the vote powers decide whether the total is.
RemovedNothing(agg, old) == agg  \* mutant: earlier contributions stay in the totals

Removed(agg, old) ==
  [v \in Options |-> [a \in Accounts |-> agg[v][a] - Included(old, v, a)]]

Added(agg, new) ==
  [v \in Options |-> [a \in Accounts |-> agg[v][a] + Included(new, v, a)]]

Underflows(agg) == \E v \in Options, a \in Accounts : agg[v][a] < 0

ReadAggregates(r) ==
  /\ pc[r] = "aggregate"
  /\ LET rest == Removed(db.agg, job[r].old)
     IN  \/ /\ Underflows(rest)
            /\ Goto(r, AfterFailure(job[r]))
            /\ UNCHANGED job
         \/ /\ job' = [job EXCEPT ![r].agg = Added(rest, job[r].fetched)]
            /\ Goto(r, "commit")
  /\ UNCHANGED <<lease, ledgerVars, db, req, flying, faults, seen, origin>>

\* backfillComponentCache: skipped once complete; lists the entities of the
\* ledger, caches the entity if it exists, and records completion.
StartBackfill(r) ==
  /\ pc[r] = "backfill"
  /\ IF db.backfill = "complete"
     THEN /\ Goto(r, "finalize")
          /\ UNCHANGED job
     ELSE /\ job' = [job EXCEPT ![r].phase = "backfill"]
          /\ Goto(r, "list")
  /\ UNCHANGED <<lease, ledgerVars, db, req, flying, faults, seen, origin>>

ListEntities(r) ==
  /\ pc[r] = "list"
  /\ job' = [job EXCEPT ![r].count = Len(votes)]
  /\ Goto(r, IF created THEN "initCache" ELSE "progress")
  /\ UNCHANGED <<lease, ledgerVars, db, req, flying, faults, seen, origin>>

\* The majority-judgment finalizer runs here; it leaves standard tallies alone.
Finalize(r) ==
  /\ pc[r] = "finalize"
  /\ Goto(r, "release")
  /\ UNCHANGED <<lease, ledgerVars, db, job, req, flying, faults, seen, origin>>

Release(r) ==
  /\ pc[r] = "release"
  /\ ReleaseLease(r)
  /\ Goto(r, "done")
  /\ job' = IF flying[r] THEN job ELSE [job EXCEPT ![r] = JobInit]
  /\ UNCHANGED <<ledgerVars, db, req, flying, faults, seen, origin>>

-----------------------------------------------------------------------------
(***************************************************************************)
(* Faults and the schedule                                                 *)
(***************************************************************************)
\* POLL_RUN_DURATION elapses: the run is interrupted and releases the lease; a
\* batch in flight is not recalled.
Interrupt(r) ==
  /\ Active(r)
  /\ Fault
  /\ Goto(r, "release")
  /\ UNCHANGED <<lease, ledgerVars, db, job, req, flying, seen, origin>>

\* A ledger or database read fails for good.
ReadFails(r) ==
  /\ pc[r] \in {"cursor", "page", "events", "readState", "fetch", "classify",
                "aggregate", "backfill", "list"}
  /\ Fault
  /\ Goto(r, IF pc[r] = "backfill" THEN "finalize" ELSE AfterFailure(job[r]))
  /\ UNCHANGED <<lease, ledgerVars, db, job, req, flying, seen, origin>>

\* The isolate is lost, or the release fails (which is logged and ignored).
Crash(r) ==
  /\ Active(r) \/ pc[r] = "release"
  /\ Fault
  /\ Goto(r, "dead")
  /\ UNCHANGED <<lease, ledgerVars, db, job, req, flying, seen, origin>>

\* The lease of a run that has ended runs out; that of a run still at work
\* does so only when the run stalls for longer than the lease lasts.
AtWork(r) == Active(r) \/ pc[r] = "release"

AbandonedLeaseExpires ==
  /\ \A r \in Runs : lease.owner = r => ~AtWork(r)
  /\ LeaseExpires
  /\ UNCHANGED <<ledgerVars, db, runVars, faults, seen, origin>>

WorkingLeaseExpires ==
  /\ \E r \in Runs : lease.owner = r /\ AtWork(r)
  /\ LeaseExpires
  /\ Fault
  /\ UNCHANGED <<ledgerVars, db, runVars, seen, origin>>

\* The cron starts another invocation.  The identity of an ended run whose
\* traces are gone stands for a fresh UUID.
Schedule(r) ==
  /\ pc[r] \in {"done", "dead"}
  /\ ~flying[r]
  /\ lease.owner # r
  /\ Goto(r, "idle")
  /\ job' = [job EXCEPT ![r] = JobInit]
  /\ req' = [req EXCEPT ![r] = ReqInit]
  /\ UNCHANGED <<lease, ledgerVars, db, flying, faults, seen, origin>>

-----------------------------------------------------------------------------
Ledger == CreateEntity \/ \E a \in Accounts, b \in Ballots : CastVote(a, b)

Work(r) ==
  \/ Acquire(r) \/ ApplyOverride(r) \/ ReadCursor(r) \/ BootstrapCursor(r)
  \/ FetchPage(r) \/ ProcessEvents(r) \/ SendStep(r) \/ ReadState(r)
  \/ FetchVotes(r) \/ ClassifyVotes(r) \/ ReadAggregates(r)
  \/ StartBackfill(r) \/ ListEntities(r) \/ Finalize(r) \/ Release(r)
  \/ BatchAnswered(r) \/ BatchLandsLate(r) \/ Schedule(r)

Failure(r) == BatchFails(r) \/ Interrupt(r) \/ ReadFails(r) \/ Crash(r)

Next ==
  \/ Ledger
  \/ \E r \in Runs : Work(r) \/ Failure(r)
  \/ AbandonedLeaseExpires
  \/ WorkingLeaseExpires

Spec == Init /\ [][Next]_vars

\* The cron keeps starting runs, a run that is not disturbed keeps going, D1
\* answers, and an abandoned lease runs out.  Voters and faults owe nothing.
FairSpec ==
  /\ Spec
  /\ \A r \in Runs : WF_vars(Work(r))
  /\ WF_vars(AbandonedLeaseExpires)

-----------------------------------------------------------------------------
(***************************************************************************)
(* Properties                                                              *)
(***************************************************************************)
\* The stored ballots and totals are those of the first k votes, and no others.
CountOf(k) ==
  /\ \A a \in Accounts : db.rows[a] = LastBallot(votes, 1, k, a)
  /\ \A v \in Options, a \in Accounts : db.agg[v][a] = Included(db.rows, v, a)

\* The first n votes are all in the stored totals.
TotalsCover(n) == n <= seen /\ CountOf(seen)

\* The published aggregates are exactly what a count from scratch of a prefix of
\* the vote log would give: every voter counted once, with the last ballot of
\* that prefix.  The prefix is the stored vote count long, or one vote longer
\* (voteCalculation.ts fetches an inclusive range that ends at the count).
TallyIsPrefix ==
  seen \in {db.last, db.last + 1} /\ seen <= Len(votes) /\ CountOf(seen)

\* commitVoteResults never meets the RangeError it throws for a negative total
\* while its run owns the lease: only a deposed run, whose reads may straddle
\* another's commit, can see ballots and totals that disagree.
OwnerNeverUnderflows ==
  \A r \in Runs :
    pc[r] = "aggregate" /\ lease.owner = r => ~Underflows(Removed(db.agg, job[r].old))

\* At-least-once consumption of the stream: once the cursor has moved past a
\* vote event, counting from where it was last placed, that vote is in the stored
\* totals, however polls were interrupted between committing and advancing.
NoVoteSkipped ==
  db.cursor # Absent /\ db.cursor > origin => TotalsCover(db.cursor - 1)

\* poll.ts passes the finalizer a watermark that "proves that every valid
\* pre-deadline vote visible at that ledger point was processed": a run that
\* has drained the stream, with the backfill complete, finds in the totals every
\* vote visible in its last page, even those older than the bootstrapped cursor.
DrainedMeansCounted ==
  \A r \in Runs :
    /\ pc[r] = "finalize" /\ db.backfill = "complete" /\ Override = Absent
    => TotalsCover(job[r].mark - 1)

\* A published tally is never replaced by an older one, whatever stale batch
\* reaches the database late.
TallyNeverRegresses == [][db'.last >= db.last /\ seen' >= seen]_vars

\* The cursor, once set, only moves forward, except where an override that was
\* not applied before moves it, and then the same step records the override.
CursorNeverRewinds ==
  [][db.cursor # Absent /\ db'.cursor < db.cursor
       => db.overridden # Override /\ db'.overridden = Override]_vars

\* poll.ts retries on the next poll whatever a failed one left undone: every
\* vote is in the totals in the end, whether its event or the backfill brings it in.
VotesEventuallyCounted ==
  \A k \in 1..MaxVotes : Len(votes) >= k ~> TotalsCover(k)

\* The tally implements its abstract specification: interrupted, overlapping and
\* repeated polls together publish ever longer prefixes of the vote log.
Abstract == INSTANCE PublishedTally WITH log <- votes, published <- seen, totals <- db.agg

PublishesPrefixes == Abstract!Spec

-----------------------------------------------------------------------------
(***************************************************************************)
(* The inductive invariant: what a run holds agrees with the database as   *)
(* long as the lease row still names the run.                              *)
(***************************************************************************)
\* A run moves on only when its batch is settled; one that ended may leave a
\* batch behind, and a run not yet started has none.
FlyingOnlyWhenLeft ==
  \A r \in Runs : flying[r] => pc[r] \in {"wait", "release", "done", "dead"}

\* Vote counts are read from the ledger, which never forgets a vote.
CountsVisible ==
  /\ Len(votes) <= MaxVotes
  /\ \A r \in Runs : job[r].count <= Len(votes)

StateRead(r) == job[r].last = db.last /\ db.last < job[r].count

SliceFetched(r) ==
  /\ job[r].upto \in {job[r].count, job[r].count + 1} /\ job[r].upto <= Len(votes)
  /\ \A a \in Accounts :
       job[r].fetched[a] = LastBallot(votes, job[r].last + 1, job[r].upto, a)

RowsRead(r) ==
  \A a \in Accounts :
    job[r].old[a] = IF job[r].fetched[a] = {} THEN {} ELSE db.rows[a]

TotalsReady(r) == job[r].agg = Added(Removed(db.agg, job[r].old), job[r].fetched)

\* The commit took effect once and is being repeated after a lost answer.
AlreadyCommitted(r) ==
  /\ db.last = job[r].count
  /\ seen = job[r].upto
  /\ db.agg = job[r].agg
  /\ \A a \in Accounts : job[r].fetched[a] # {} => db.rows[a] = job[r].fetched[a]

CommitPending(r) == pc[r] = "commit" \/ (flying[r] /\ req[r].kind = "commit")

HeldByOwner(r) ==
  /\ pc[r] \in {"fetch", "classify", "aggregate"} => StateRead(r)
  /\ pc[r] \in {"classify", "aggregate"} => SliceFetched(r)
  /\ pc[r] = "aggregate" => RowsRead(r)
  /\ CommitPending(r) =>
       \/ StateRead(r) /\ SliceFetched(r) /\ RowsRead(r) /\ TotalsReady(r)
       \/ AlreadyCommitted(r)

OwnerIsCurrent == \A r \in Runs : lease.owner = r => HeldByOwner(r)

\* No slice is longer than a chunk: the log as a whole is not.
SlicesFit == MaxVotes < ChunkSize

TallyInv ==
  /\ TypeOK
  /\ FlyingOnlyWhenLeft
  /\ CountsVisible
  /\ TallyIsPrefix
  /\ OwnerIsCurrent

-----------------------------------------------------------------------------
(***************************************************************************)
(* The inductive invariant of the cursor: at which step of a poll a run    *)
(* is, and what its owning the lease then says of the cursor d.cursor, the *)
(* place o the stream was entered at, and the n events of the ledger.      *)
(***************************************************************************)
BatchStep(kind) ==
  CASE kind = "createState"  -> "state"
    [] kind = "markComputed" -> "mark"
    [] OTHER -> kind

\* A run stays at the step that sent a batch until the batch is settled.
At(r) == IF flying[r] THEN BatchStep(req[r].kind) ELSE pc[r]

CountSteps == {"initCache", "state", "readState", "mark", "fetch", "classify", "aggregate",
               "commit"}

\* The votes that must be counted before the run records its progress: those of its
\* page, or, in the backfill, those older than the place the stream was entered at.
Goal(j, o) ==
  IF j.phase = "stream" THEN j.next - 1 ELSE IF Override = Absent THEN o - 1 ELSE 0

\* Counted up to the events before sv, unless the stream was entered after them.
Reached(sv, d, o) == sv - 1 <= d.last \/ sv <= o

\* What is so of any run, whoever owns the lease.
PhaseFits(j, step) ==
  /\ step \in {"idle", "cursor", "override", "bootstrap", "page", "events", "advance",
               "backfill"}
     => j.phase = "stream"
  /\ step \in {"list", "progress"} => j.phase = "backfill"

ReachFits(j, step, d, o, n) ==
  /\ step = "bootstrap" => j.sv <= n
  /\ step = "page" => Reached(j.sv, d, o)
  /\ step \in {"backfill", "finalize"} \/ j.phase = "backfill" => Reached(j.mark, d, o)

\* What the lease owner knows besides.
InPage(j, step) ==
  step \in {"events", "advance"} \/ (step \in CountSteps /\ j.phase = "stream")

Placed(j, step, d, o) ==
  /\ step = "override" => j.sv = Override /\ (d.overridden = Override => d.cursor = j.sv)
  /\ step = "bootstrap" =>
       /\ d.cursor \in {Absent, j.sv}
       /\ d.cursor = j.sv => o = j.sv
       /\ Override = Absent => d.backfill = "pending"
  /\ step = "page" => d.cursor = j.sv
  /\ InPage(j, step) => d.cursor = j.sv \/ (step = "advance" /\ d.cursor = j.next)
  /\ step = "backfill" \/ j.phase = "backfill" => d.cursor # Absent

PageHeld(j, step, n) ==
  /\ InPage(j, step) => j.sv < j.next /\ (~j.full => j.next = j.mark)
  /\ step = "events" =>
       /\ j.next <= n
       /\ "votes" \in j.todo \/ (j.next <= 1 /\ "created" \in j.todo)

CountHeld(j, step, d, o) ==
  /\ step = "initCache" /\ j.phase = "stream" => "votes" \in j.todo \/ j.count = 0
  /\ step \in CountSteps => Goal(j, o) <= j.count
  /\ step \in {"fetch", "classify", "aggregate"} => d.last < j.count
  /\ step = "commit" => d.last <= j.count
  /\ step \in {"mark", "advance", "progress"} => Goal(j, o) <= d.last

CursorHeld(j, step, d, o, n) ==
  Placed(j, step, d, o) /\ PageHeld(j, step, n) /\ CountHeld(j, step, d, o)

\* Without an override the stream is entered once, at an event that existed.
EnteredOnce(d, o, n) ==
  /\ d.cursor = Absent => o = 0 /\ d.backfill = "pending"
  /\ o <= n
  /\ d.backfill = "complete" => o - 1 <= d.last

\* The count that is stored beside the totals: the cursor does not pass it.  That the
\* totals are those of as many votes is TallyIsPrefix, and needs slices that fit.
CountPassesCursor ==
  db.cursor # Absent /\ db.cursor > origin => db.last >= db.cursor - 1

CursorInv ==
  /\ TypeOK
  /\ FlyingOnlyWhenLeft
  /\ votes # <<>> => created
  /\ CountPassesCursor
  /\ Override = Absent => EnteredOnce(db, origin, EventCount)
  /\ \A r \in Runs :
       /\ PhaseFits(job[r], At(r))
       /\ Override = Absent => ReachFits(job[r], At(r), db, origin, EventCount)
       /\ lease.owner = r => CursorHeld(job[r], At(r), db, origin, EventCount)

=============================================================================
