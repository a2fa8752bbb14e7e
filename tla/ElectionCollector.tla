--------------------------- MODULE ElectionCollector ---------------------------
(***************************************************************************)
(* The collector's work on one majority-judgment election: polls project   *)
(* the election's events into D1, count its ballots, settle the candidate  *)
(* list's check and close the rounds whose deadline has passed.            *)
(*                                                                         *)
(* Ballots, results and the cursor are written by guarded batches only.    *)
(* The election row, its rounds and its status are also written by plain   *)
(* statements, which a run that has lost the lease can still execute.      *)
(***************************************************************************)
EXTENDS PollLease, ElectionLedger

CONSTANTS
  Verdict(_, _), \* calculateMajorityJudgment: a round and its ballots to a closed status
  PageSize,      \* PAGE_SIZE: events per stream page
  Heeds,         \* the steps the operator takes on the published status only
  MaxFaults,     \* bound: timeouts, crashes, lost answers
  MaxStalls      \* bound: leases that run out while their run is at work

Statuses == {"TC_LIVE", "TC_FAILED", "MJ_PENDING", "LIVE", "ROUND_1_FAILED",
             "RERUN_LIVE", "TIE_UNRESOLVED", "FINAL", "FAILED"}

LiveStatus(k) == IF k = 1 THEN "LIVE" ELSE "RERUN_LIVE"

\* isClosedMajorityJudgmentResult, isPhaseLocked, isPastTemperatureCheckGate
ClosedResults == {"FINAL", "FAILED", "ROUND_1_FAILED", "TIE_UNRESOLVED"}
LockedPhases == {"FINAL", "FAILED", "TC_FAILED", "TIE_UNRESOLVED"}
PastGate == {"LIVE", "ROUND_1_FAILED", "RERUN_LIVE", "TIE_UNRESOLVED", "FINAL", "FAILED"}

OperatorSteps == {"roundOne", "rerun", "tie"}

ASSUME NoneIsNoStatus == None \notin Statuses

BallotSets == [Accounts -> SUBSET Options]

ASSUME VerdictAssumption ==
  \A b \in BallotSets :
    /\ Verdict(1, b) \in {"ROUND_1_FAILED", "TIE_UNRESOLVED", "FINAL"}
    /\ Verdict(2, b) \in {"FAILED", "TIE_UNRESOLVED", "FINAL"}
ASSUME CollectorBounds ==
  /\ PageSize \in Nat \ {0}
  /\ Heeds \subseteq OperatorSteps
  /\ MaxFaults \in Nat /\ MaxStalls \in Nat

VARIABLES
  db,     \* the D1 tables
  pc,     \* per run: the next operation,
  job,    \* and what it has read or decided so far
  faults, \* faults that have happened,
  stalls  \* and stalls

vars == <<lease, ledgerVars, db, pc, job, faults, stalls>>

-----------------------------------------------------------------------------
NoBallots == [a \in Accounts |-> {}]

\* The poll's cursor and the rows of mj_election (status, tc_outcome), mj_round
\* (last_vote_count), mj_account_ballot and mj_result (status).
Db == [cursor  : Nat,
       status  : Statuses \cup {None},
       outcome : Outcomes,
       rounds  : SUBSET Rounds,
       last    : [Rounds -> Nat],
       ballots : [Rounds -> BallotSets],
       results : [Rounds -> Statuses \cup {None}]]

DbInit == [cursor |-> 0, status |-> None, outcome |-> None, rounds |-> {},
           last |-> [k \in Rounds |-> 0], ballots |-> [k \in Rounds |-> NoBallots],
           results |-> [k \in Rounds |-> None]]

\* A calculation to be committed; shown is updateElectionStatus.
Write == [round : Rounds, status : Statuses, count : Nat, ballots : BallotSets,
          shown : BOOLEAN]

WriteInit == [round |-> 1, status |-> "LIVE", count |-> 0, ballots |-> NoBallots,
              shown |-> FALSE]

Job == [stage : {"events", "gate", "rounds"}, next : Nat, full : BOOLEAN, now : Nat,
        todo : SUBSET Nat, phase : Statuses, round : Rounds, write : Write]

JobInit == [stage |-> "events", next |-> 0, full |-> FALSE, now |-> 0, todo |-> {},
            phase |-> "TC_LIVE", round |-> 1, write |-> WriteInit]

Steps == {"cursor", "page", "cache", "election", "rounds", "phase", "setPhase", "calculate",
          "tie", "commit", "advance", "gate", "active", "superseded", "latest"}
PCs == Steps \cup {"idle", "release", "done", "dead"}

AtWork(r) == pc[r] \in Steps \cup {"release"}

TypeOK ==
  /\ lease \in Lease
  /\ LedgerType
  /\ db \in Db
  /\ pc \in [Runs -> PCs]
  /\ job \in [Runs -> Job]
  /\ faults \in 0..MaxFaults
  /\ stalls \in 0..MaxStalls

Init ==
  /\ LeaseInit
  /\ LedgerInit
  /\ db = DbInit
  /\ pc = [r \in Runs |-> "idle"]
  /\ job = [r \in Runs |-> JobInit]
  /\ faults = 0
  /\ stalls = 0

Closed(k) == db.results[k] \in ClosedResults

Goto(r, step) == pc' = [pc EXCEPT ![r] = step]

\* An error ends the poll, which releases its lease.
Fail(r) == Goto(r, "release") /\ UNCHANGED job

-----------------------------------------------------------------------------
(***************************************************************************)
(* Phases                                                                  *)
(***************************************************************************)
\* deriveMajorityJudgmentTemperatureCheckPhase
CheckPhase(recorded) ==
  CASE recorded = "FAILED" -> "TC_FAILED"
    [] recorded = None     -> "TC_LIVE"
    [] recorded = "PASSED" -> "MJ_PENDING"

\* deriveElectionStatus: a recorded pass is held back until the finalizer has
\* seen the weighted tally, whether or not a round has been started.
DerivedStatus(e) ==
  CASE 2 \notin e.rounds -> CheckPhase(IF e.outcome = "FAILED" THEN "FAILED" ELSE None)
    [] 2 \in e.rounds    -> IF e.outcome = "PASSED" THEN "RERUN_LIVE" ELSE "TC_FAILED"

AuthoritativeRecorded(recorded, passed) == recorded  \* mutant: no look at the tally

\* deriveAuthoritativeTemperatureCheckOutcome
Authoritative(recorded, passed) == IF passed THEN recorded ELSE "FAILED"

\* Mutants: a status past the gate is not protected; nor is MJ_PENDING.
PhaseBlockedLate(current, next, roundOneFailed) == current \in LockedPhases

PhaseBlockedFlicker(current, next, roundOneFailed) ==
  \/ current \in LockedPhases
  \/ current \in PastGate /\ next \in {"TC_LIVE", "TC_FAILED"}

\* isPhaseTransitionBlocked, canTransitionFromRoundOneFailure
PhaseBlocked(current, next, roundOneFailed) ==
  \/ current \in LockedPhases
  \/ current \in PastGate /\ next \in {"TC_LIVE", "TC_FAILED"}
  \/ current = "MJ_PENDING" /\ next = "TC_LIVE"
  \/ next = "RERUN_LIVE" /\ ~roundOneFailed /\ current \notin {"ROUND_1_FAILED", "RERUN_LIVE"}
  \/ current = "ROUND_1_FAILED" /\ next # "RERUN_LIVE"

-----------------------------------------------------------------------------
(***************************************************************************)
(* The order of a poll's work                                              *)
(***************************************************************************)
Earliest(S) == CHOOSE i \in S : \A j \in S : i <= j

Current(r) == stream[Earliest(job[r].todo)]

\* The action of an event is done: the next one, or the end of the page.
FinishAction(r) ==
  LET rest == job[r].todo \ {Earliest(job[r].todo)}
  IN  /\ job' = [job EXCEPT ![r].todo = rest]
      /\ Goto(r, IF rest = {} THEN "advance" ELSE "cache")

AfterProjection(r) ==
  CASE Current(r).tag = "voted" -> Goto(r, "calculate") /\ UNCHANGED job
    [] Current(r).tag = "tie"   -> Goto(r, "tie") /\ UNCHANGED job
    [] OTHER -> FinishAction(r)

AfterPhase(r) ==
  CASE job[r].stage = "events" -> AfterProjection(r)
    [] job[r].stage = "gate"   -> Goto(r, "active") /\ UNCHANGED job
    [] job[r].stage = "rounds" -> Goto(r, "release") /\ UNCHANGED job

SetPhase(r, stage, phase) ==
  /\ job' = [job EXCEPT ![r].stage = stage, ![r].phase = phase]
  /\ Goto(r, "phase")

\* A superseded round that did not fail its quorum is what the election shows.
AfterSuperseded(r, status) ==
  IF status = "ROUND_1_FAILED"
  THEN Goto(r, "latest") /\ UNCHANGED job
  ELSE SetPhase(r, "rounds", status)

AfterCommit(r) ==
  CASE job[r].stage = "events" -> FinishAction(r)
    [] job[r].stage # "events" /\ job[r].write.shown -> Goto(r, "release") /\ UNCHANGED job
    [] OTHER -> AfterSuperseded(r, job[r].write.status)

\* commitCalculation: a closed result is not replaced, except by the resolution
\* of its tie.
Refused(write, allowTie) ==
  /\ Closed(write.round)
  /\ ~(allowTie /\ db.results[write.round] = "TIE_UNRESOLVED" /\ write.status = "FINAL")

\* What a calculation reads, and what is checked here, is written by guarded
\* batches only: a commit that passes the fence finds all of it unchanged.
Prepare(r, write, allowTie) ==
  IF Refused(write, allowTie)
  THEN Fail(r)
  ELSE /\ job' = [job EXCEPT ![r].write = write]
       /\ Goto(r, "commit")

Committed(d, w) ==
  [d EXCEPT !.ballots[w.round] = w.ballots,
            !.last[w.round] = w.count,
            !.results[w.round] = w.status,
            !.status = IF w.shown THEN w.status ELSE @]

-----------------------------------------------------------------------------
(***************************************************************************)
(* A poll: the stream                                                      *)
(***************************************************************************)
Acquire(r) ==
  /\ pc[r] = "idle"
  /\ AcquireLease(r)
  /\ Goto(r, "cursor")
  /\ UNCHANGED <<ledgerVars, db, job, faults, stalls>>

ReadCursor(r) ==
  /\ pc[r] = "cursor"
  /\ job' = [job EXCEPT ![r].next = db.cursor]
  /\ Goto(r, "page")
  /\ UNCHANGED <<lease, ledgerVars, db, faults, stalls>>

\* actionKey and dedupeGovernanceActions: of the events of a page with the same
\* key the last one stays; a round's later votes have the greater count.
Key(e) ==
  CASE e.tag \in {"created", "outcome"} -> <<"created", 0>>
    [] e.tag = "voted" -> <<"voted", e.round>>
    [] OTHER -> <<e.tag, 0>>

DedupedFirst(from, to) ==  \* mutant: the first one stays
  {i \in from..to : \A j \in from..(i - 1) : Key(stream[j]) # Key(stream[i])}

Deduped(from, to) ==
  {i \in from..to : \A j \in (i + 1)..to : Key(stream[j]) # Key(stream[i])}

PageEnd(from) == IF from + PageSize <= Len(stream) THEN from + PageSize ELSE Len(stream)

\* The page and the watermark, the ledger's time, come in one response.
FetchPage(r) ==
  /\ pc[r] = "page"
  /\ LET from == job[r].next
         end == PageEnd(from)
     IN  /\ job' = [job EXCEPT ![r].next = end,
                               ![r].full = (end = from + PageSize),
                               ![r].todo = Deduped(from + 1, end),
                               ![r].now = clock]
         /\ Goto(r, IF end = from THEN "gate" ELSE "cache")
  /\ UNCHANGED <<lease, ledgerVars, db, faults, stalls>>

\* projectElection begins with a guarded batch, which initialises the cache of
\* the check's tally; a run without the lease gets no further.
InitializeCache(r) ==
  /\ pc[r] = "cache"
  /\ IF FencePasses(r, lease.live)
     THEN RenewLease /\ Goto(r, "election") /\ UNCHANGED job
     ELSE UNCHANGED lease /\ Fail(r)
  /\ UNCHANGED <<ledgerVars, db, faults, stalls>>

\* The upsert of the election row keeps the status of an existing row.
ProjectElection(r) ==
  /\ pc[r] = "election"
  /\ db' = [db EXCEPT !.outcome = Current(r).outcome,
                      !.status = IF @ = None THEN DerivedStatus(Current(r)) ELSE @]
  /\ Goto(r, "rounds")
  /\ UNCHANGED <<lease, ledgerVars, job, faults, stalls>>

\* The rounds' rows, whose dates and stores never change.
ProjectRounds(r) ==
  /\ pc[r] = "rounds"
  /\ db' = [db EXCEPT !.rounds = @ \cup Current(r).rounds]
  /\ SetPhase(r, "events", DerivedStatus(Current(r)))
  /\ UNCHANGED <<lease, ledgerVars, faults, stalls>>

\* setPhaseStatus reads, decides, and writes in a statement of its own.
ReadPhase(r) ==
  /\ pc[r] = "phase"
  /\ IF PhaseBlocked(db.status, job[r].phase, db.results[1] = "ROUND_1_FAILED")
     THEN AfterPhase(r)
     ELSE Goto(r, "setPhase") /\ UNCHANGED job
  /\ UNCHANGED <<lease, ledgerVars, db, faults, stalls>>

WritePhase(r) ==
  /\ pc[r] = "setPhase"
  /\ db' = [db EXCEPT !.status = job[r].phase]
  /\ AfterPhase(r)
  /\ UNCHANGED <<lease, ledgerVars, faults, stalls>>

\* The stored ballots with those of the votes from the last counted one on.
MergedSlice(k, n) ==  \* mutant: only those
  [a \in Accounts |-> LastBallot(logs[k], db.last[k] + 1, n, a)]

Merged(k, n) ==
  [a \in Accounts |->
     LET b == LastBallot(logs[k], db.last[k] + 1, n, a)
     IN  IF b = {} THEN db.ballots[k][a] ELSE b]

\* MajorityJudgmentCalculation.  Its result is provisional, and it is shown,
\* whatever the election's status says.
Calculate(r) ==
  /\ pc[r] = "calculate"
  /\ LET k == Current(r).round
         n == Current(r).count
     IN  IF n <= db.last[k]
         THEN FinishAction(r)
         ELSE Prepare(r, [round |-> k, status |-> LiveStatus(k), count |-> n,
                          ballots |-> Merged(k, n), shown |-> TRUE], FALSE)
  /\ UNCHANGED <<lease, ledgerVars, db, faults, stalls>>

\* The stored ballots and count of a round, under a new status.
Restated(k, status, shown) ==
  [round |-> k, status |-> status, count |-> db.last[k], ballots |-> db.ballots[k],
   shown |-> shown]

ResolveTie(r) ==
  /\ pc[r] = "tie"
  /\ LET k == Current(r).round
     IN  CASE db.results[k] = "FINAL" -> FinishAction(r)
           [] db.results[k] = "TIE_UNRESOLVED" /\ Current(r).exact ->
                Prepare(r, Restated(k, "FINAL", TRUE), TRUE)
           [] OTHER -> Fail(r)
  /\ UNCHANGED <<lease, ledgerVars, db, faults, stalls>>

Commit(r) ==
  /\ pc[r] = "commit"
  /\ IF FencePasses(r, lease.live)
     THEN db' = Committed(db, job[r].write) /\ RenewLease /\ AfterCommit(r)
     ELSE UNCHANGED <<lease, db>> /\ Fail(r)
  /\ UNCHANGED <<ledgerVars, faults, stalls>>

Advance(r) ==
  /\ pc[r] = "advance"
  /\ IF FencePasses(r, lease.live)
     THEN /\ db' = [db EXCEPT !.cursor = job[r].next]
          /\ RenewLease
          /\ Goto(r, IF job[r].full THEN "page" ELSE "gate")
          /\ UNCHANGED job
     ELSE UNCHANGED <<lease, db>> /\ Fail(r)
  /\ UNCHANGED <<ledgerVars, faults, stalls>>

-----------------------------------------------------------------------------
(***************************************************************************)
(* A poll: the finalizer                                                   *)
(***************************************************************************)
Awaiting == db.status \in {"TC_LIVE", "MJ_PENDING"}

\* resolveTemperatureCheckGate: before the check's deadline the recorded outcome
\* counts; after it the verdict waits for the weighted tally.
ResolveGate(r) ==
  /\ pc[r] = "gate"
  /\ LET ended == job[r].now >= CheckDays
     IN  CASE ~Awaiting \/ (ended /\ ~tally.cached) -> Goto(r, "active") /\ UNCHANGED job
           [] Awaiting /\ ~ended -> SetPhase(r, "gate", CheckPhase(db.outcome))
           [] OTHER -> SetPhase(r, "gate", CheckPhase(Authoritative(db.outcome, tally.passed)))
  /\ UNCHANGED <<lease, ledgerVars, db, faults, stalls>>

\* Mutant: an election that waits for its first round is passed over.
SkippedPending == {None, "TC_LIVE", "MJ_PENDING"} \cup LockedPhases

Skipped == {None, "TC_LIVE"} \cup LockedPhases

LatestRound == IF 2 \in db.rounds THEN 2 ELSE 1

\* getActiveElectionRounds, and what finalizeElection decides from its rows.
SelectRounds(r) ==
  /\ pc[r] = "active"
  /\ IF db.status \in Skipped \/ db.rounds = {}
     THEN Goto(r, "release") /\ UNCHANGED job
     ELSE /\ job' = [job EXCEPT ![r].stage = "rounds", ![r].round = LatestRound]
          /\ Goto(r, IF LatestRound = 2 /\ 1 \in db.rounds /\ job[r].now >= Deadline(1)
                     THEN "superseded" ELSE "latest")
  /\ UNCHANGED <<lease, ledgerVars, db, faults, stalls>>

\* closeRound, of the stored ballots; a closed round is left as it is.
CloseSuperseded(r) ==
  /\ pc[r] = "superseded"
  /\ IF Closed(1)
     THEN AfterSuperseded(r, db.results[1])
     ELSE Prepare(r, Restated(1, Verdict(1, db.ballots[1]), FALSE), FALSE)
  /\ UNCHANGED <<lease, ledgerVars, db, faults, stalls>>

DeadlinePassedEarly(r, k) == TRUE  \* mutant: no look at the deadline

DeadlinePassed(r, k) == job[r].now >= Deadline(k)

FinalizeLatest(r) ==
  /\ pc[r] = "latest"
  /\ LET k == job[r].round
     IN  CASE k = 2 /\ db.results[1] # "ROUND_1_FAILED" -> Goto(r, "release") /\ UNCHANGED job
           [] k = 1 \/ db.results[1] = "ROUND_1_FAILED" ->
                CASE ~DeadlinePassed(r, k) -> SetPhase(r, "rounds", LiveStatus(k))
                  [] DeadlinePassed(r, k) /\ Closed(k) -> Goto(r, "release") /\ UNCHANGED job
                  [] OTHER -> Prepare(r, Restated(k, Verdict(k, db.ballots[k]), TRUE), FALSE)
  /\ UNCHANGED <<lease, ledgerVars, db, faults, stalls>>

Release(r) ==
  /\ pc[r] = "release"
  /\ ReleaseLease(r)
  /\ Goto(r, "done")
  /\ job' = [job EXCEPT ![r] = JobInit]
  /\ UNCHANGED <<ledgerVars, db, faults, stalls>>

\* The cron starts another invocation; the identity of an ended one stands for a
\* fresh UUID once its lease is gone or has run out.
Schedule(r) ==
  /\ pc[r] \in {"done", "dead"}
  /\ lease.owner = r => ~lease.live
  /\ Goto(r, "idle")
  /\ UNCHANGED <<lease, ledgerVars, db, job, faults, stalls>>

-----------------------------------------------------------------------------
(***************************************************************************)
(* Faults                                                                  *)
(***************************************************************************)
Fault == faults < MaxFaults /\ faults' = faults + 1

\* A read fails for good or the poll's time is up.
Interrupt(r) ==
  /\ pc[r] \in Steps
  /\ Fault
  /\ Fail(r)
  /\ UNCHANGED <<lease, ledgerVars, db, stalls>>

Crash(r) ==
  /\ AtWork(r)
  /\ Fault
  /\ Goto(r, "dead")
  /\ job' = [job EXCEPT ![r] = JobInit]
  /\ UNCHANGED <<lease, ledgerVars, db, stalls>>

\* A batch takes effect, and the run that sent it does not live to see it.
AnswerLost(r) ==
  /\ pc[r] \in {"commit", "advance"}
  /\ FencePasses(r, lease.live)
  /\ Fault
  /\ db' = IF pc[r] = "commit" THEN Committed(db, job[r].write)
           ELSE [db EXCEPT !.cursor = job[r].next]
  /\ RenewLease
  /\ Fail(r)
  /\ UNCHANGED <<ledgerVars, stalls>>

AbandonedLeaseExpires ==
  /\ \A r \in Runs : lease.owner = r => ~AtWork(r)
  /\ LeaseExpires
  /\ UNCHANGED <<ledgerVars, db, pc, job, faults, stalls>>

WorkingLeaseExpires ==
  /\ \E r \in Runs : lease.owner = r /\ AtWork(r)
  /\ LeaseExpires
  /\ stalls < MaxStalls
  /\ stalls' = stalls + 1
  /\ UNCHANGED <<ledgerVars, db, pc, job, faults>>

-----------------------------------------------------------------------------
(***************************************************************************)
(* The operator, the voters and the polls                                  *)
(***************************************************************************)
\* The admin pages offer each step in one status of the published election only.
Offered(k) ==
  IF k = 1
  THEN "roundOne" \in Heeds => db.status = "MJ_PENDING"
  ELSE "rerun" \in Heeds => db.status = "ROUND_1_FAILED"

Adjudicable(k, exact) ==
  "tie" \in Heeds => db.status = "TIE_UNRESOLVED" /\ db.results[k] = db.status /\ exact

Operator ==
  \/ \E passed \in BOOLEAN : RecordOutcome(passed)
  \/ \E k \in Rounds : Offered(k) /\ StartRound(k)
  \/ \E k \in Rounds, exact \in BOOLEAN : Adjudicable(k, exact) /\ RecordTie(k, exact)
  \/ ToggleHidden

Ledger ==
  /\ \/ Operator
     \/ \E k \in Rounds, a \in Accounts, b \in Ballots : CastBallot(k, a, b)
     \/ Tick
     \/ CacheTally
  /\ UNCHANGED <<lease, db, pc, job, faults, stalls>>

Work(r) ==
  \/ Acquire(r) \/ ReadCursor(r) \/ FetchPage(r) \/ InitializeCache(r)
  \/ ProjectElection(r) \/ ProjectRounds(r) \/ ReadPhase(r) \/ WritePhase(r)
  \/ Calculate(r) \/ ResolveTie(r) \/ Commit(r) \/ Advance(r)
  \/ ResolveGate(r) \/ SelectRounds(r) \/ CloseSuperseded(r) \/ FinalizeLatest(r)
  \/ Release(r) \/ Schedule(r)

Failure(r) == Interrupt(r) \/ Crash(r) \/ AnswerLost(r)

Next ==
  \/ Ledger
  \/ \E r \in Runs : Work(r) \/ Failure(r)
  \/ AbandonedLeaseExpires
  \/ WorkingLeaseExpires

Spec == Init /\ [][Next]_vars

\* The cron keeps starting runs, an undisturbed run keeps going, an abandoned
\* lease runs out, the check's tally is cached in the end (VoteTally's promise).
FairSpec ==
  /\ Spec
  /\ \A r \in Runs : WF_vars(Work(r))
  /\ WF_vars(AbandonedLeaseExpires)
  /\ WF_vars(CacheTally /\ UNCHANGED <<lease, db, pc, job, faults, stalls>>)

-----------------------------------------------------------------------------
(***************************************************************************)
(* Properties                                                              *)
(***************************************************************************)
\* The ballots a round's result is drawn from are those of a prefix of its vote
\* log, each voter's last one, whatever runs were interrupted or deposed.
BallotsArePrefix ==
  \A k \in Rounds :
    /\ db.last[k] <= Len(logs[k])
    /\ \A a \in Accounts : db.ballots[k][a] = LastBallot(logs[k], 1, db.last[k], a)

\* A vote event that the cursor has passed is counted, though votes of a page are
\* deduplicated and pages are processed again after a failure.
NoBallotSkipped ==
  \A i \in 1..db.cursor :
    stream[i].tag = "voted" => stream[i].count <= db.last[stream[i].round]

\* What the collector holds of the ballots is well typed and is the votes that were cast.
BallotInv == TypeOK /\ BallotsArePrefix /\ NoBallotSkipped

\* The results implement their abstract specification: closed once, on all the
\* round's ballots, a rerun only after a failed first round, and final, except
\* that a tie may be resolved, though polls overlap and a rerun starts too early.
Abstract == INSTANCE PublishedElection WITH cast <- logs, results <- db.results

DecidesOnce == Abstract!Spec

\* projection.ts:102: "The finalizer alone opens MJ": an election past its gate
\* has a recorded and a weighted pass.
GateHolds == db.status \in PastGate => outcome = "PASSED" /\ tally.passed

\* The election's status shows the closed result of its latest decided round.
\* Only the rerun of a failed first round may follow a closed result.
StatusShowsResult ==
  /\ db.status \in ClosedResults => \E k \in Rounds : db.results[k] = db.status
  /\ Closed(2) => db.status = db.results[2]
  /\ Closed(1) /\ ~Closed(2) =>
       \/ db.status = db.results[1]
       \/ db.results[1] = "ROUND_1_FAILED" /\ db.status = "RERUN_LIVE"

Order(status) ==
  CASE status \in {None, "TC_LIVE"} -> 0
    [] status = "MJ_PENDING" -> 1
    [] status = "LIVE" -> 2
    [] status = "ROUND_1_FAILED" -> 3
    [] status = "RERUN_LIVE" -> 4
    [] status = "TIE_UNRESOLVED" -> 5
    [] status \in {"FINAL", "FAILED", "TC_FAILED"} -> 6

\* The published status only moves forward, whatever projections of old events a
\* poll repeats after a crash.
StatusAdvances ==
  [][/\ Order(db'.status) >= Order(db.status)
     /\ db.status \in {"FINAL", "FAILED", "TC_FAILED"} => db'.status = db.status]_vars

\* "A second worker or retry sees the already committed state and performs no
\* semantic change": the status of a decided election stays.
SettledStays ==
  [][db.status \in {"FINAL", "FAILED"} => db'.status = db.status]_vars

\* A round whose deadline has passed is closed in the end.
RoundsClose == \A k \in Rounds : Ended(k) ~> Closed(k)
=============================================================================
