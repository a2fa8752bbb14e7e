--------------------------- MODULE VoteTallyProofs ---------------------------
(***************************************************************************)
(* Proofs about VoteTally for any number of runs, voters, options, votes   *)
(* and faults.                                                             *)
(***************************************************************************)
EXTENDS VoteTally, VoteLogProofs

USE DEF ledgerVars, runVars

-----------------------------------------------------------------------------
(***************************************************************************)
(* Types                                                                   *)
(***************************************************************************)
\* A slice starts and ends at a vote id.
LEMMA SliceEndType ==
  ASSUME NEW j \in Job
  PROVE  j.last + 1 \in Nat \ {0} /\ SliceEnd(j) \in Nat
<1>1. j.count \in Nat /\ j.last \in Nat /\ ChunkSize \in Nat
  BY BoundsAssumption DEF Job
<1>2. QED BY <1>1 DEF SliceEnd

\* The initial state is well typed.
LEMMA InitType == Init => TypeOK
<1> SUFFICES ASSUME Init PROVE TypeOK
  OBVIOUS
<1>1. NoBallots \in [Accounts -> SUBSET Options] /\ NoSums \in [Options -> [Accounts -> Int]]
  BY DEF NoBallots, NoSums
<1>2. DbInit \in Db
  BY <1>1 DEF DbInit, Db
<1>3. JobInit \in Job
  BY <1>1 DEF JobInit, Job, Phases, Todos
<1>4. ReqInit \in Req
  BY DEF ReqInit, Req, BatchKinds
<1>5. lease \in Lease
  BY DEF Init, LeaseInit, LeaseFree, Lease
<1>6. created \in BOOLEAN /\ seen \in Nat /\ origin \in Nat
  BY DEF Init
<1>7. db \in Db /\ job \in [Runs -> Job] /\ req \in [Runs -> Req]
  BY <1>2, <1>3, <1>4 DEF Init
<1>8. pc \in [Runs -> PCs] /\ flying \in [Runs -> BOOLEAN]
  BY DEF Init, PCs
<1>9. faults \in 0..MaxFaults
  BY BoundsAssumption DEF Init
<1>10. votes \in Seq(Vote)
  <2>1. votes = <<>>
    BY DEF Init
  <2>2. QED BY <2>1
<1>11. QED
  BY <1>10, <1>5, <1>6, <1>7, <1>8, <1>9 DEF TypeOK

\* A batch leaves well-formed tables behind.
LEMMA AppliedType ==
  ASSUME NEW d \in Db, NEW kind \in BatchKinds, NEW j \in Job
  PROVE  Applied(d, kind, j) \in Db
<1>1. CASE kind = "override"
  BY <1>1 DEF Applied, OverrideApplied, Db, Job
<1>2. CASE kind = "bootstrap"
  BY <1>2 DEF Applied, Db, Job
<1>3. CASE kind = "initCache"
  BY <1>3 DEF Applied, Db, CacheState
<1>4. CASE kind = "createState"
  BY <1>4 DEF Applied, Db
<1>5. CASE kind = "markComputed"
  BY <1>5 DEF Applied, Db
<1>6. CASE kind = "commit"
  BY <1>6 DEF Applied, Committed, Db, Job
<1>7. CASE kind = "advance"
  BY <1>7 DEF Applied, Db, Job
<1>8. CASE kind = "progress"
  BY <1>8 DEF Applied, Db
<1>9. QED
  BY <1>1, <1>2, <1>3, <1>4, <1>5, <1>6, <1>7, <1>8 DEF BatchKinds

\* A batch that D1 executes, or refuses, leaves tables, lease and histories
\* well typed; only the lease's expiry changes, never its owner.
LEMMA ExecutesType ==
  ASSUME TypeOK, NEW r \in Runs, Executes(r) \/ NotExecuted
  PROVE  /\ db' \in Db /\ lease' \in Lease /\ lease'.owner = lease.owner
         /\ seen' \in Nat /\ origin' \in Nat
<1>1. job[r] \in Job /\ req[r].kind \in BatchKinds
  BY DEF TypeOK, Req
<1>2. Applied(db, req[r].kind, job[r]) \in Db
  BY <1>1, AppliedType DEF TypeOK
<1>3. job[r].upto \in Nat /\ job[r].sv \in Nat
  BY <1>1 DEF Job
<1>4. CASE Executes(r)
  BY <1>2, <1>3, <1>4 DEF Executes, TypeOK, RenewLease, Lease
<1>5. CASE NotExecuted
  BY <1>5 DEF NotExecuted, TypeOK
<1>6. QED BY <1>4, <1>5

\* A job whose settled parts are forgotten after a batch is still a job.
LEMMA ForgetType ==
  ASSUME NEW j \in Job, NEW kind \in BatchKinds
  PROVE  Forget(j, kind) \in Job
<1>1. JobInit \in Job
  BY DEF JobInit, Job, NoBallots, NoSums, Phases, Todos
<1>2. CASE kind \in {"markComputed", "commit"}
  BY <1>1, <1>2 DEF Forget, Job
<1>3. CASE kind = "advance"
  BY <1>1, <1>3 DEF Forget, Job
<1>4. CASE kind \notin {"markComputed", "commit", "advance"}
  BY <1>4 DEF Forget
<1>5. QED BY <1>2, <1>3, <1>4

\* The continuations of a batch, answered or failed, are steps of a run.
LEMMA StepNames ==
  ASSUME NEW j \in Job, NEW kind \in BatchKinds
  PROVE  /\ AfterBatch(j, kind) \in {"page", "state", "advance", "progress", "readState",
                                     "backfill", "finalize"}
         /\ AfterFailure(j) \in {"finalize", "release"}
<1>1. kind = "override" \/ kind = "bootstrap" \/ kind = "initCache" \/ kind = "createState"
      \/ kind = "markComputed" \/ kind = "commit" \/ kind = "advance" \/ kind = "progress"
  BY DEF BatchKinds
<1>2. AfterBatch(j, kind) \in {"page", "state", "advance", "progress", "readState",
                               "backfill", "finalize"}
  BY <1>1, Zenon DEF AfterBatch
<1>3. AfterFailure(j) \in {"finalize", "release"}
  BY DEF AfterFailure
<1>4. QED BY <1>2, <1>3

\* A jump to a step keeps the program counters well typed.
LEMMA GotoType ==
  ASSUME TypeOK, NEW r \in Runs, NEW step \in PCs, Goto(r, step)
  PROVE  pc' \in [Runs -> PCs]
BY DEF Goto, TypeOK

\* Sending a batch keeps the run's bookkeeping well typed.
LEMMA SendType ==
  ASSUME TypeOK, NEW r \in Runs, NEW kind \in BatchKinds, Send(r, kind)
  PROVE  pc' \in [Runs -> PCs] /\ req' \in [Runs -> Req] /\ flying' \in [Runs -> BOOLEAN]
<1>1. pc' \in [Runs -> PCs]
  BY GotoType DEF Send, PCs, Steps
<1>2. [kind |-> kind, live |-> lease.live /\ lease.owner = r, retries |-> 0] \in Req
  BY DEF Req, TypeOK, Lease
<1>3. req' \in [Runs -> Req]
  BY <1>2 DEF Send, TypeOK
<1>4. flying' \in [Runs -> BOOLEAN]
  BY DEF Send, TypeOK
<1>5. QED BY <1>1, <1>3, <1>4

\* The tables, the lease and the histories do not change type when a batch does.
LEMMA AckType ==
  ASSUME TypeOK, NEW r \in Runs
  PROVE  /\ AfterFailure(job[r]) \in PCs
         /\ AfterBatch(job[r], req[r].kind) \in PCs
         /\ AfterBatch(job[r], "markComputed") \in PCs
         /\ Forget(job[r], req[r].kind) \in Job
<1>1. job[r] \in Job /\ req[r].kind \in BatchKinds /\ "markComputed" \in BatchKinds
  BY DEF TypeOK, Req, BatchKinds
<1>2. {"page", "state", "advance", "progress", "readState", "backfill", "finalize",
       "release"} \subseteq PCs
  BY DEF PCs, Steps
<1>3. QED BY <1>1, <1>2, StepNames, ForgetType

\* A job stays one when a step records a count, a total or the phase.
LEMMA JobUpdate ==
  ASSUME NEW j \in Job
  PROVE  /\ \A n \in Nat : [j EXCEPT !.sv = n] \in Job
         /\ \A n \in Nat : [j EXCEPT !.count = n] \in Job
         /\ \A n \in Nat : [j EXCEPT !.last = n] \in Job
         /\ \A n \in Nat : [j EXCEPT !.mark = n] \in Job
         /\ \A totals \in [Options -> [Accounts -> Int]] : [j EXCEPT !.agg = totals] \in Job
         /\ [j EXCEPT !.phase = "backfill"] \in Job
<1>1. \A n \in Nat : [j EXCEPT !.sv = n] \in Job
  BY DEF Job
<1>2. \A n \in Nat : [j EXCEPT !.count = n] \in Job
  BY DEF Job
<1>3. \A n \in Nat : [j EXCEPT !.last = n] \in Job
  BY DEF Job
<1>4. \A n \in Nat : [j EXCEPT !.mark = n] \in Job
  BY DEF Job
<1>5. \A totals \in [Options -> [Accounts -> Int]] : [j EXCEPT !.agg = totals] \in Job
  BY DEF Job
<1>6. [j EXCEPT !.phase = "backfill"] \in Job
  BY DEF Job, Phases
<1>7. QED BY <1>1, <1>2, <1>3, <1>4, <1>5, <1>6

-----------------------------------------------------------------------------
\* Every step of the ledger, of a run and of a fault preserves the types.
LEMMA TypeStep == TypeOK /\ [Next]_vars => TypeOK'
<1> SUFFICES ASSUME TypeOK, [Next]_vars PROVE TypeOK'
  OBVIOUS
<1>1. CASE CreateEntity
  BY <1>1 DEF CreateEntity, TypeOK
<1>2. ASSUME NEW a \in Accounts, NEW b \in Ballots, CastVote(a, b)
      PROVE  TypeOK'
  <2>1. [account |-> a, ballot |-> b] \in Vote
    BY DEF Vote
  <2>2. votes' \in Seq(Vote)
    BY <1>2, <2>1 DEF CastVote, TypeOK
  <2>3. QED BY <1>2, <2>2 DEF CastVote, TypeOK
<1>3. ASSUME NEW r \in Runs, Work(r)
      PROVE  TypeOK'
  <2> job[r] \in Job /\ req[r] \in Req /\ pc[r] \in PCs /\ JobInit \in Job
    BY DEF TypeOK, JobInit, Job, NoBallots, NoSums, Phases, Todos
  <2>1. CASE Acquire(r)
    BY <2>1, GotoType DEF Acquire, AcquireLease, TypeOK, Lease, PCs, Steps
  <2>2. CASE ApplyOverride(r)
    <3>1. Override \in Nat
      BY <2>2, OverrideAssumption DEF ApplyOverride
    <3>2. job' \in [Runs -> Job]
      BY <2>2, <3>1 DEF ApplyOverride, TypeOK, Job
    <3>3. QED BY <2>2, <3>2, SendType DEF ApplyOverride, TypeOK, BatchKinds
  <2>3. CASE ReadCursor(r)
    <3>1. db.cursor \in Nat
      BY <2>3 DEF ReadCursor, TypeOK, Db
    <3>2. job' \in [Runs -> Job]
      BY <2>3, <3>1 DEF ReadCursor, TypeOK, Job
    <3>3. QED BY <2>3, <3>2, GotoType DEF ReadCursor, TypeOK, PCs, Steps
  <2>4. CASE BootstrapCursor(r)
    <3>1. job' \in [Runs -> Job]
      <4>1. PICK s \in Nat : job' = [job EXCEPT ![r] = [job[r] EXCEPT !.sv = s]]
        BY <2>4 DEF BootstrapCursor
      <4>2. QED BY <4>1, JobUpdate DEF TypeOK
    <3>2. QED BY <2>4, <3>1, SendType DEF BootstrapCursor, TypeOK, BatchKinds
  <2>5. CASE FetchPage(r)
    <3>1. EventCount \in Nat /\ Len(votes) \in Nat
      BY DEF EventCount, TypeOK
    <3>2. PageEnd(job[r].sv) \in Nat
      <4>1. job[r].sv \in Nat
        BY DEF TypeOK, Job
      <4>2. QED BY <3>1, <4>1, BoundsAssumption DEF PageEnd
    <3>3. job' \in [Runs -> Job]
      <4> DEFINE end == PageEnd(job[r].sv)
                 page == [job[r] EXCEPT
                   !.mark = EventCount,
                   !.next = end,
                   !.full = (end = job[r].sv + PageSize),
                   !.todo = (IF job[r].sv = 0 THEN {"created"} ELSE {})
                              \cup (IF end > 1 THEN {"votes"} ELSE {})]
      <4>1. CASE job[r].sv >= EventCount
        <5>1. job' = [job EXCEPT ![r] = [job[r] EXCEPT !.mark = EventCount]]
          BY <2>5, <4>1 DEF FetchPage
        <5>2. QED BY <3>1, <5>1, JobUpdate DEF TypeOK
      <4>2. CASE ~ (job[r].sv >= EventCount)
        <5>1. job' = [job EXCEPT ![r] = page]
          BY <2>5, <4>2 DEF FetchPage
        <5>2. page \in Job
          <6> HIDE DEF end
          <6>1. (IF job[r].sv = 0 THEN {"created"} ELSE {})
                  \cup (IF end > 1 THEN {"votes"} ELSE {}) \in Todos
            BY DEF Todos
          <6>2. QED BY <3>1, <3>2, <6>1 DEF Job, end
        <5>3. QED BY <5>1, <5>2 DEF TypeOK
      <4>3. QED BY <4>1, <4>2
    <3>4. pc' \in [Runs -> PCs]
      BY <2>5, GotoType DEF FetchPage, PCs, Steps
    <3>5. QED BY <2>5, <3>3, <3>4 DEF FetchPage, TypeOK
  <2>6. CASE ProcessEvents(r)
    <3>1. Len(votes) \in Nat
      BY DEF TypeOK
    <3>2. job' \in [Runs -> Job]
      <4>1. PICK n \in Nat : job' = [job EXCEPT ![r] = [job[r] EXCEPT !.count = n]]
        BY <2>6, <3>1 DEF ProcessEvents
      <4>2. QED BY <4>1, JobUpdate DEF TypeOK
    <3>3. QED BY <2>6, <3>2, GotoType DEF ProcessEvents, TypeOK, PCs, Steps
  <2>7. CASE SendStep(r)
    BY <2>7, SendType DEF SendStep, TypeOK
  <2>8. CASE ReadState(r)
    <3>1. job' \in [Runs -> Job]
      <4>1. db.last \in Nat
        BY DEF TypeOK, Db
      <4>2. [job[r] EXCEPT !.last = db.last] \in Job
        BY <4>1, JobUpdate
      <4>3. job' = [job EXCEPT ![r] = [job[r] EXCEPT !.last = db.last]]
        BY <2>8 DEF ReadState
      <4>4. QED BY <4>2, <4>3 DEF TypeOK
    <3>2. pc' \in [Runs -> PCs]
      BY <2>8, AckType, GotoType DEF ReadState, PCs, Steps
    <3>3. QED BY <2>8, <3>1, <3>2 DEF ReadState, TypeOK
  <2>9. CASE FetchVotes(r)
    <3>1. ASSUME NEW a \in Accounts
          PROVE  LastBallot(votes, job[r].last + 1, SliceEnd(job[r]), a) \in SUBSET Options
      <4>1. job[r].last + 1 \in Nat \ {0} /\ SliceEnd(job[r]) \in Nat
        BY SliceEndType DEF TypeOK
      <4>2. QED BY <4>1, LastBallotType DEF TypeOK
    <3>2. Len(votes) \in Nat
      BY DEF TypeOK
    <3>3. job' \in [Runs -> Job]
      <4> DEFINE slice == [a \in Accounts |->
                   LastBallot(votes, job[r].last + 1, SliceEnd(job[r]), a)]
                 upto == IF SliceEnd(job[r]) <= Len(votes) THEN SliceEnd(job[r])
                         ELSE Len(votes)
      <4>1. job' = [job EXCEPT ![r] = [job[r] EXCEPT !.fetched = slice, !.upto = upto]]
        BY <2>9 DEF FetchVotes, FirstVote
      <4>2. slice \in [Accounts -> SUBSET Options] /\ upto \in Nat
        <5>1. SliceEnd(job[r]) \in Nat
          BY SliceEndType DEF TypeOK
        <5>2. QED BY <3>1, <3>2, <5>1
      <4> HIDE DEF slice, upto
      <4>3. [job[r] EXCEPT !.fetched = slice, !.upto = upto] \in Job
        BY <4>2 DEF Job
      <4>4. QED BY <4>1, <4>3 DEF TypeOK
    <3>4. QED BY <2>9, <3>3, GotoType DEF FetchVotes, TypeOK, PCs, Steps
  <2>10. CASE ClassifyVotes(r)
    <3>1. job' \in [Runs -> Job]
      BY <2>10 DEF ClassifyVotes, TypeOK, Job, Db
    <3>2. QED BY <2>10, <3>1, GotoType DEF ClassifyVotes, TypeOK, PCs, Steps
  <2>11. CASE ReadAggregates(r)
    <3>1. ASSUME NEW v \in Options, NEW a \in Accounts
          PROVE  /\ db.agg[v][a] \in Int
                 /\ Included(job[r].old, v, a) \in Int /\ Included(job[r].fetched, v, a) \in Int
      BY DEF TypeOK, Db, Included
    <3>2. Added(Removed(db.agg, job[r].old), job[r].fetched) \in [Options -> [Accounts -> Int]]
      BY <3>1 DEF Added, Removed
    <3>3. job' \in [Runs -> Job]
      <4> DEFINE totals == Added(Removed(db.agg, job[r].old), job[r].fetched)
      <4>1. [job[r] EXCEPT !.agg = totals] \in Job
        BY <3>2, JobUpdate
      <4>2. job' = job \/ job' = [job EXCEPT ![r] = [job[r] EXCEPT !.agg = totals]]
        BY <2>11 DEF ReadAggregates
      <4>3. QED BY <4>1, <4>2 DEF TypeOK
    <3>4. pc' \in [Runs -> PCs]
      BY <2>11, AckType, GotoType DEF ReadAggregates, PCs, Steps
    <3>5. QED BY <2>11, <3>3, <3>4 DEF ReadAggregates, TypeOK
  <2>12. CASE StartBackfill(r)
    <3>1. job' \in [Runs -> Job]
      <4>1. [job[r] EXCEPT !.phase = "backfill"] \in Job
        BY JobUpdate
      <4>2. job' = job \/ job' = [job EXCEPT ![r] = [job[r] EXCEPT !.phase = "backfill"]]
        BY <2>12 DEF StartBackfill
      <4>3. QED BY <4>1, <4>2 DEF TypeOK
    <3>2. pc' \in [Runs -> PCs]
      BY <2>12, GotoType DEF StartBackfill, PCs, Steps
    <3>3. QED BY <2>12, <3>1, <3>2 DEF StartBackfill, TypeOK
  <2>13. CASE ListEntities(r)
    <3>1. Len(votes) \in Nat
      BY DEF TypeOK
    <3>2. job' \in [Runs -> Job]
      <4>1. job' = [job EXCEPT ![r] = [job[r] EXCEPT !.count = Len(votes)]]
        BY <2>13 DEF ListEntities
      <4>2. QED BY <3>1, <4>1, JobUpdate DEF TypeOK
    <3>3. QED BY <2>13, <3>2, GotoType DEF ListEntities, TypeOK, PCs, Steps
  <2>14. CASE Finalize(r)
    BY <2>14, GotoType DEF Finalize, TypeOK, PCs
  <2>15. CASE Release(r)
    <3>1. lease' \in Lease
      BY <2>15 DEF Release, ReleaseLease, TypeOK, Lease, LeaseFree
    <3>2. job' \in [Runs -> Job]
      BY <2>15 DEF Release, TypeOK
    <3>3. QED BY <2>15, <3>1, <3>2, GotoType DEF Release, TypeOK, PCs
  <2>16. CASE BatchAnswered(r)
    <3>1. pc' \in [Runs -> PCs]
      BY <2>16, AckType, GotoType DEF BatchAnswered
    <3>2. job' \in [Runs -> Job]
      BY <2>16, AckType DEF BatchAnswered, TypeOK
    <3>3. QED BY <2>16, <3>1, <3>2, ExecutesType DEF BatchAnswered, TypeOK
  <2>17. CASE BatchLandsLate(r)
    BY <2>17, ExecutesType DEF BatchLandsLate, TypeOK
  <2>18. CASE Schedule(r)
    <3>1. ReqInit \in Req
      BY DEF ReqInit, Req, BatchKinds
    <3>2. QED BY <2>18, <3>1, GotoType DEF Schedule, TypeOK, PCs
  <2>19. QED
    BY <1>3, <2>1, <2>2, <2>3, <2>4, <2>5, <2>6, <2>7, <2>8, <2>9, <2>10, <2>11, <2>12,
       <2>13, <2>14, <2>15, <2>16, <2>17, <2>18 DEF Work
<1>4. ASSUME NEW r \in Runs, Failure(r)
      PROVE  TypeOK'
  <2> req[r] \in Req
    BY DEF TypeOK
  <2>1. Fault => faults' \in 0..MaxFaults
    BY BoundsAssumption DEF Fault, TypeOK
  <2>2. CASE BatchFails(r)
    <3>1. req' \in [Runs -> Req]
      <4>1. [req[r] EXCEPT !.retries = @ + 1] \in Req
        BY DEF Req
      <4>2. req' = req \/ req' = [req EXCEPT ![r] = [req[r] EXCEPT !.retries = @ + 1]]
        BY <2>2 DEF BatchFails
      <4>3. QED BY <4>1, <4>2 DEF TypeOK
    <3>2. pc' \in [Runs -> PCs] /\ flying' \in [Runs -> BOOLEAN]
      BY <2>2, AckType, GotoType DEF BatchFails, TypeOK
    <3>3. QED BY <2>1, <2>2, <3>1, <3>2, ExecutesType DEF BatchFails, TypeOK
  <2>3. CASE Interrupt(r)
    BY <2>1, <2>3, GotoType DEF Interrupt, TypeOK, PCs
  <2>4. CASE ReadFails(r)
    <3>1. pc' \in [Runs -> PCs]
      BY <2>4, AckType, GotoType DEF ReadFails, PCs, Steps
    <3>2. QED BY <2>1, <2>4, <3>1 DEF ReadFails, TypeOK
  <2>5. CASE Crash(r)
    BY <2>1, <2>5, GotoType DEF Crash, TypeOK, PCs
  <2>6. QED BY <1>4, <2>2, <2>3, <2>4, <2>5 DEF Failure
<1>5. CASE AbandonedLeaseExpires
  BY <1>5 DEF AbandonedLeaseExpires, LeaseExpires, TypeOK, Lease
<1>6. CASE WorkingLeaseExpires
  <2>1. lease' \in Lease
    BY <1>6 DEF WorkingLeaseExpires, LeaseExpires, TypeOK, Lease
  <2>2. faults' \in 0..MaxFaults
    BY <1>6, BoundsAssumption DEF WorkingLeaseExpires, Fault, TypeOK
  <2>3. QED BY <1>6, <2>1, <2>2 DEF WorkingLeaseExpires, TypeOK
<1>7. CASE UNCHANGED vars
  BY <1>7 DEF vars, TypeOK
<1>8. QED BY <1>1, <1>2, <1>3, <1>4, <1>5, <1>6, <1>7 DEF Next, Ledger

\* No step of the ledger, of a run or of a fault leaves a variable out of its type.
THEOREM TypeCorrect == Spec => []TypeOK
<1>1. Init => TypeOK
  BY InitType
<1>2. TypeOK /\ [Next]_vars => TypeOK'
  BY TypeStep
<1>3. QED BY <1>1, <1>2, PTL DEF Spec

-----------------------------------------------------------------------------
(***************************************************************************)
(* The stored tally                                                        *)
(***************************************************************************)
\* A batch that carries the fence of the lease owner, executed once or again,
\* leaves a tally that is a prefix of the log and no shorter than before; one
\* that lacks it changes nothing.
LEMMA ExecuteStep ==
  ASSUME TallyInv, NEW r \in Runs, flying[r], Executes(r), votes' = votes
  PROVE  /\ lease'.owner = lease.owner
         /\ FencePasses(r, req[r].live) => lease.owner = r
         /\ ~ FencePasses(r, req[r].live) => db' = db /\ seen' = seen
         /\ FencePasses(r, req[r].live) /\ req[r].kind = "commit" =>
              /\ db'.last = job[r].count /\ seen' = job[r].upto /\ db'.agg = job[r].agg
              /\ \A a \in Accounts : job[r].fetched[a] # {} => db'.rows[a] = job[r].fetched[a]
         /\ TallyIsPrefix'
         /\ db'.last >= db.last /\ seen' >= seen
<1> DEFINE j == job[r]
<1>1. /\ TypeOK /\ TallyIsPrefix /\ OwnerIsCurrent
      /\ j \in Job /\ req[r].kind \in BatchKinds /\ db \in Db /\ db' \in Db
      /\ lease'.owner = lease.owner /\ seen \in Nat /\ votes \in Seq(Vote)
  BY ExecutesType DEF TallyInv, TypeOK, Req
<1>2. db.last \in Nat /\ db.rows \in [Accounts -> SUBSET Options]
      /\ db.agg \in [Options -> [Accounts -> Int]]
  BY <1>1 DEF Db
<1>3. CASE ~ FencePasses(r, req[r].live)
  <2>1. db' = db /\ seen' = seen
    BY <1>3 DEF Executes
  <2>2. TallyIsPrefix'
    BY <2>1, <1>1 DEF TallyIsPrefix, CountOf
  <2>3. QED BY <1>1, <1>2, <1>3, <2>1, <2>2
<1>4. CASE FencePasses(r, req[r].live) /\ req[r].kind # "commit"
  <2>1. db' = Applied(db, req[r].kind, j) /\ seen' = seen /\ lease.owner = r
    BY <1>4 DEF Executes, FencePasses
  <2>2. db'.last = db.last /\ db'.rows = db.rows /\ db'.agg = db.agg
    BY <2>1, <1>1, <1>4 DEF Applied, OverrideApplied, Db, BatchKinds
  <2>3. TallyIsPrefix'
    BY <2>1, <2>2, <1>1 DEF TallyIsPrefix, CountOf, Included
  <2>4. QED BY <1>1, <1>2, <1>4, <2>1, <2>2, <2>3
<1>5. CASE FencePasses(r, req[r].live) /\ req[r].kind = "commit"
  <2>1. db' = Committed(db, j) /\ seen' = j.upto /\ lease.owner = r
    BY <1>5 DEF Executes, FencePasses, Applied
  <2>2. /\ db'.last = j.count /\ db'.agg = j.agg
        /\ \A a \in Accounts :
             db'.rows[a] = IF j.fetched[a] = {} THEN db.rows[a]
                           ELSE (IF j.old[a] = {} THEN db.rows[a] ELSE {}) \cup j.fetched[a]
    BY <2>1, <1>1 DEF Committed, Db
  <2>3. HeldByOwner(r) /\ CommitPending(r)
    BY <2>1, <1>1, <1>5 DEF OwnerIsCurrent, CommitPending
  <2>4. j.count \in Nat /\ j.upto \in Nat /\ j.last \in Nat
    BY <1>1 DEF Job
  <2>5. CASE StateRead(r) /\ SliceFetched(r) /\ RowsRead(r) /\ TotalsReady(r)
    <3>1. j.last = db.last /\ db.last < j.count
          /\ j.upto \in {j.count, j.count + 1} /\ j.upto <= Len(votes)
      BY <2>5 DEF StateRead, SliceFetched
    <3>2. seen \in {db.last, db.last + 1} /\ seen <= Len(votes)
      BY <1>1 DEF TallyIsPrefix, CountOf
    <3>3. db.last <= seen /\ seen <= j.upto
      BY <1>1, <1>2, <2>4, <3>1, <3>2
    <3>4. \A a \in Accounts : db'.rows[a] = IF j.fetched[a] = {} THEN db.rows[a] ELSE j.fetched[a]
      <4> SUFFICES ASSUME NEW a \in Accounts
                   PROVE  db'.rows[a] = IF j.fetched[a] = {} THEN db.rows[a] ELSE j.fetched[a]
        OBVIOUS
      <4>1. j.old[a] = IF j.fetched[a] = {} THEN {} ELSE db.rows[a]
        BY <2>5 DEF RowsRead
      <4>2. db'.rows[a] = IF j.fetched[a] = {} THEN db.rows[a]
                          ELSE (IF j.old[a] = {} THEN db.rows[a] ELSE {}) \cup j.fetched[a]
        BY <2>2
      <4>3. CASE j.fetched[a] = {}
        BY <4>2, <4>3
      <4>4. CASE j.fetched[a] # {}
        <5>1. j.old[a] = db.rows[a]
          BY <4>1, <4>4
        <5>2. (IF j.old[a] = {} THEN db.rows[a] ELSE {}) = {}
          BY <5>1
        <5>3. QED BY <4>2, <4>4, <5>2
      <4>5. QED BY <4>3, <4>4
    <3>5. ASSUME NEW a \in Accounts
          PROVE  db'.rows[a] = LastBallot(votes, 1, j.upto, a)
      <4>1. j.fetched[a] = LastBallot(votes, db.last + 1, j.upto, a)
        BY <2>5, <3>1 DEF SliceFetched
      <4>2. db.rows[a] = LastBallot(votes, 1, seen, a)
        BY <1>1 DEF TallyIsPrefix, CountOf
      <4>3. LastBallot(votes, 1, j.upto, a) =
              IF LastBallot(votes, db.last + 1, j.upto, a) = {}
              THEN LastBallot(votes, 1, seen, a)
              ELSE LastBallot(votes, db.last + 1, j.upto, a)
        <5>1. seen \in Nat /\ j.upto \in Nat /\ db.last \in Nat /\ votes \in Seq(Vote)
              /\ db.last <= seen /\ seen <= j.upto /\ j.upto <= Len(votes)
          BY <1>1, <1>2, <2>4, <3>1, <3>3
        <5> HIDE DEF j
        <5>2. QED BY <5>1, LastBallotIncremental
      <4>4. QED BY <3>4, <4>1, <4>2, <4>3
    <3>6. ASSUME NEW v \in Options, NEW a \in Accounts
          PROVE  db'.agg[v][a] = Included(db'.rows, v, a)
      <4>1. db'.agg[v][a] = db.agg[v][a] - Included(j.old, v, a) + Included(j.fetched, v, a)
        BY <2>2, <2>5 DEF TotalsReady, Added, Removed
      <4>2. db.agg[v][a] = Included(db.rows, v, a)
        BY <1>1 DEF TallyIsPrefix, CountOf
      <4>3. j.old[a] = IF j.fetched[a] = {} THEN {} ELSE db.rows[a]
        BY <2>5 DEF RowsRead
      <4>4. db'.rows[a] = IF j.fetched[a] = {} THEN db.rows[a] ELSE j.fetched[a]
        BY <3>4
      <4>5. QED BY <4>1, <4>2, <4>3, <4>4 DEF Included
    <3>7. TallyIsPrefix'
      BY <2>1, <2>2, <3>1, <3>5, <3>6 DEF TallyIsPrefix, CountOf
    <3>8. \A a \in Accounts : j.fetched[a] # {} => db'.rows[a] = j.fetched[a]
      BY <3>4
    <3>9. QED BY <1>1, <1>2, <1>5, <2>1, <2>2, <2>4, <3>1, <3>3, <3>7, <3>8
  <2>6. CASE AlreadyCommitted(r)
    <3>1. /\ db.last = j.count /\ seen = j.upto /\ db.agg = j.agg
          /\ \A a \in Accounts : j.fetched[a] # {} => db.rows[a] = j.fetched[a]
      BY <2>6 DEF AlreadyCommitted
    <3>2. \A a \in Accounts : db'.rows[a] = db.rows[a]
      BY <2>2, <3>1
    <3>3. TallyIsPrefix'
      <4>1. seen' \in {db'.last, db'.last + 1} /\ seen' <= Len(votes')
        BY <1>1, <2>1, <2>2, <3>1 DEF TallyIsPrefix, CountOf
      <4>2. \A a \in Accounts : db'.rows[a] = LastBallot(votes', 1, seen', a)
        BY <1>1, <2>1, <3>1, <3>2 DEF TallyIsPrefix, CountOf
      <4>3. \A v \in Options, a \in Accounts : db'.agg[v][a] = Included(db'.rows, v, a)
        BY <1>1, <2>2, <3>1, <3>2 DEF TallyIsPrefix, CountOf, Included
      <4>4. QED BY <4>1, <4>2, <4>3 DEF TallyIsPrefix, CountOf
    <3>4. \A a \in Accounts : j.fetched[a] # {} => db'.rows[a] = j.fetched[a]
      BY <3>1, <3>2
    <3>5. db'.last >= db.last /\ seen' >= seen
      BY <1>1, <1>2, <2>1, <2>2, <3>1
    <3>6. QED BY <1>1, <1>5, <2>1, <2>2, <3>3, <3>4, <3>5
  <2>7. QED BY <2>3, <2>5, <2>6 DEF HeldByOwner
<1>6. QED BY <1>3, <1>4, <1>5

\* What a run holds stays current while the tables, the log and its own job do
\* not change and it does not enter a step that relies on something new.
LEMMA HeldStable ==
  ASSUME NEW q \in Runs, HeldByOwner(q),
         job'[q] = job[q], db' = db, votes' = votes, seen' = seen,
         CommitPending(q)' => CommitPending(q),
         pc'[q] \in {"fetch", "classify", "aggregate"} => pc'[q] = pc[q]
  PROVE  HeldByOwner(q)'
<1>1. StateRead(q) => StateRead(q)'
  BY DEF StateRead
<1>2. SliceFetched(q) => SliceFetched(q)'
  BY DEF SliceFetched
<1>3. RowsRead(q) => RowsRead(q)'
  BY DEF RowsRead
<1>4. TotalsReady(q) => TotalsReady(q)'
  BY DEF TotalsReady, Added, Removed, Included
<1>5. AlreadyCommitted(q) => AlreadyCommitted(q)'
  BY DEF AlreadyCommitted
<1>6. QED BY <1>1, <1>2, <1>3, <1>4, <1>5 DEF HeldByOwner

\* The prefix property reads nothing but the tables, the log and the history.
LEMMA PrefixStable ==
  ASSUME TallyIsPrefix, db' = db, votes' = votes, seen' = seen
  PROVE  TallyIsPrefix'
BY DEF TallyIsPrefix, CountOf, Included

\* The step of one run.
OnlyRun(r) ==
  \A q \in Runs \ {r} : pc'[q] = pc[q] /\ job'[q] = job[q] /\ req'[q] = req[q]
                        /\ flying'[q] = flying[q]

\* A step of a run that leaves the tally a prefix and, unless the run owns the
\* lease, leaves the tables alone disturbs no owner but possibly itself.
LEMMA RunStep ==
  ASSUME TallyInv, TypeOK', NEW r \in Runs, OnlyRun(r), votes' = votes, TallyIsPrefix',
         lease.owner # r => db' = db /\ seen' = seen,
         lease'.owner \in {lease.owner, NoRun, r},
         flying'[r] => pc'[r] \in {"wait", "release", "done", "dead"},
         job'[r].count <= Len(votes),
         lease'.owner = r => HeldByOwner(r)'
  PROVE  TallyInv'
<1>1. FlyingOnlyWhenLeft'
  BY DEF TallyInv, FlyingOnlyWhenLeft, OnlyRun
<1>2. CountsVisible'
  BY DEF TallyInv, CountsVisible, OnlyRun
<1>3. ASSUME NEW q \in Runs, lease'.owner = q
      PROVE  HeldByOwner(q)'
  <2>1. CASE q = r
    BY <1>3, <2>1
  <2>2. CASE q # r
    <3>1. lease.owner = q
      BY <1>3, <2>2, RunsAssumption
    <3>2. HeldByOwner(q)
      BY <3>1 DEF TallyInv, OwnerIsCurrent
    <3>3. db' = db /\ seen' = seen
      BY <2>2, <3>1
    <3>4. pc'[q] = pc[q] /\ job'[q] = job[q] /\ req'[q] = req[q] /\ flying'[q] = flying[q]
      BY <2>2 DEF OnlyRun
    <3>5. CommitPending(q)' => CommitPending(q)
      BY <3>4 DEF CommitPending
    <3>6. QED BY <3>2, <3>3, <3>4, <3>5, HeldStable
  <2>3. QED BY <2>1, <2>2
<1>4. OwnerIsCurrent'
  BY <1>3 DEF OwnerIsCurrent
<1>5. QED BY <1>1, <1>2, <1>4 DEF TallyInv

\* The same for the steps that do not touch the tables at all.
LEMMA QuietStep ==
  ASSUME TallyInv, TypeOK', NEW r \in Runs, OnlyRun(r), votes' = votes,
         db' = db, seen' = seen, lease'.owner \in {lease.owner, NoRun, r},
         flying'[r] => pc'[r] \in {"wait", "release", "done", "dead"},
         job'[r].count <= Len(votes),
         lease'.owner = r => HeldByOwner(r)'
  PROVE  TallyInv'
<1>1. TallyIsPrefix'
  BY PrefixStable DEF TallyInv
<1>2. QED BY <1>1, RunStep

\* A step whose run keeps its job and only moves to a step that relies on
\* nothing it does not hold already.
LEMMA KeepingStep ==
  ASSUME TallyInv, TypeOK', NEW r \in Runs, OnlyRun(r), votes' = votes,
         db' = db, seen' = seen, lease'.owner \in {lease.owner, NoRun},
         job'[r] = job[r],
         flying'[r] => pc'[r] \in {"wait", "release", "done", "dead"},
         CommitPending(r)' => CommitPending(r),
         pc'[r] \in {"fetch", "classify", "aggregate"} => pc'[r] = pc[r]
  PROVE  TallyInv'
<1>1. lease'.owner = r => HeldByOwner(r)'
  <2>1. SUFFICES ASSUME lease'.owner = r PROVE HeldByOwner(r)'
    OBVIOUS
  <2>2. lease.owner = r
    BY <2>1, RunsAssumption
  <2>3. HeldByOwner(r)
    BY <2>2 DEF TallyInv, OwnerIsCurrent
  <2>4. QED BY <2>3, HeldStable
<1>2. job'[r].count <= Len(votes)
  BY DEF TallyInv, CountsVisible
<1>3. QED BY <1>1, <1>2, QuietStep

\* Voting: slices and counts taken earlier stay what they were.
LEMMA CastStep ==
  ASSUME TallyInv, TypeOK', NEW a \in Accounts, NEW b \in Ballots, CastVote(a, b)
  PROVE  TallyInv'
<1> DEFINE x == [account |-> a, ballot |-> b]
<1>1. votes' = Append(votes, x) /\ x \in Vote /\ votes \in Seq(Vote)
  BY DEF CastVote, TallyInv, TypeOK, Vote
<1>2. UNCHANGED <<lease, db, pc, job, req, flying, seen>>
  BY DEF CastVote
<1>3. Len(votes') = Len(votes) + 1 /\ Len(votes) \in Nat
  BY <1>1
<1>4. \A from \in Nat \ {0}, to \in 0..Len(votes), q \in Accounts :
        LastBallot(votes', from, to, q) = LastBallot(votes, from, to, q)
  BY <1>1, LastBallotStable
<1>5. FlyingOnlyWhenLeft'
  BY <1>2 DEF TallyInv, FlyingOnlyWhenLeft
<1>6. CountsVisible'
  BY <1>2, <1>3, BoundsAssumption DEF TallyInv, CountsVisible, CastVote, TypeOK, Job
<1>7. TallyIsPrefix'
  <2>1. seen \in 0..Len(votes)
    BY <1>3 DEF TallyInv, TypeOK, TallyIsPrefix, CountOf
  <2>2. \A q \in Accounts : LastBallot(votes', 1, seen, q) = LastBallot(votes, 1, seen, q)
    BY <2>1, <1>4
  <2>3. seen' \in {db'.last, db'.last + 1} /\ seen' <= Len(votes')
    BY <1>2, <1>3, <2>1 DEF TallyInv, TallyIsPrefix, CountOf
  <2>4. QED BY <1>2, <2>2, <2>3 DEF TallyInv, TallyIsPrefix, CountOf, Included
<1>8. ASSUME NEW q \in Runs, lease'.owner = q
      PROVE  HeldByOwner(q)'
  <2>1. HeldByOwner(q) /\ job[q] \in Job
    BY <1>2, <1>8 DEF TallyInv, OwnerIsCurrent, TypeOK
  <2>2. SliceFetched(q) => SliceFetched(q)'
    <3>1. SUFFICES ASSUME SliceFetched(q) PROVE SliceFetched(q)'
      OBVIOUS
    <3>2. job[q].upto \in 0..Len(votes) /\ job[q].last + 1 \in Nat \ {0}
      BY <2>1, <3>1, <1>3 DEF SliceFetched, Job
    <3>3. \A p \in Accounts : LastBallot(votes', job[q].last + 1, job[q].upto, p)
                              = LastBallot(votes, job[q].last + 1, job[q].upto, p)
      BY <3>2, <1>4
    <3>4. job'[q].upto \in {job'[q].count, job'[q].count + 1} /\ job'[q].upto <= Len(votes')
      BY <1>2, <1>3, <3>1, <3>2 DEF SliceFetched
    <3>5. QED BY <1>2, <3>1, <3>3, <3>4 DEF SliceFetched
  <2>3. /\ StateRead(q) => StateRead(q)'
        /\ RowsRead(q) => RowsRead(q)'
        /\ AlreadyCommitted(q) => AlreadyCommitted(q)'
        /\ CommitPending(q)' => CommitPending(q)
    BY <1>2 DEF StateRead, RowsRead, AlreadyCommitted, CommitPending
  <2>4. TotalsReady(q) => TotalsReady(q)'
    BY <1>2 DEF TotalsReady, Added, Removed, Included
  <2>5. pc'[q] = pc[q]
    BY <1>2
  <2>6. QED BY <2>1, <2>2, <2>3, <2>4, <2>5 DEF HeldByOwner
<1>9. QED BY <1>5, <1>6, <1>7, <1>8 DEF TallyInv, OwnerIsCurrent

\* Before anything happened the empty tally counts the empty prefix.
LEMMA TallyInvInit == Init => TallyInv
<1> SUFFICES ASSUME Init PROVE TallyInv
  OBVIOUS
<1>1. TypeOK
  BY InitType
<1>2. FlyingOnlyWhenLeft
  BY DEF Init, FlyingOnlyWhenLeft
<1>3. Len(votes) = 0 /\ votes = <<>>
  BY DEF Init
<1>4. CountsVisible
  <2>1. \A r \in Runs : job[r].count = 0
    BY DEF Init, JobInit
  <2>2. 0 <= Len(votes)
    BY <1>3
  <2>3. Len(votes) <= MaxVotes
    BY <1>3, BoundsAssumption
  <2>4. QED BY <2>1, <2>2, <2>3, Zenon DEF CountsVisible
<1>5. TallyIsPrefix
  <2>1. \A a \in Accounts : LastBallot(votes, 1, 0, a) = {}
    <3>1. \A a \in Accounts : CastBy(votes, 1, 0, a) = {}
      BY DEF CastBy
    <3>2. QED BY <3>1 DEF LastBallot
  <2>2. seen = 0 /\ db = DbInit
    BY DEF Init
  <2>3. db.last = 0 /\ (\A a \in Accounts : db.rows[a] = {})
        /\ (\A v \in Options, a \in Accounts : db.agg[v][a] = 0)
    BY <2>2 DEF DbInit, NoBallots, NoSums
  <2>4. \A a \in Accounts : db.rows[a] = LastBallot(votes, 1, seen, a)
    BY <2>1, <2>2, <2>3
  <2>5. \A v \in Options, a \in Accounts : db.agg[v][a] = Included(db.rows, v, a)
    BY <2>3 DEF Included
  <2>6. seen \in {db.last, db.last + 1} /\ seen <= Len(votes)
    BY <1>3, <2>2, <2>3
  <2>7. QED BY <2>4, <2>5, <2>6 DEF TallyIsPrefix, CountOf
<1>6. OwnerIsCurrent
  BY RunsAssumption DEF Init, LeaseInit, LeaseFree, OwnerIsCurrent
<1>7. QED BY <1>1, <1>2, <1>4, <1>5, <1>6 DEF TallyInv

\* The facts about run r that its steps start from.
LEMMA RunFacts ==
  ASSUME TallyInv, NEW r \in Runs
  PROVE  /\ TypeOK /\ job[r] \in Job /\ req[r] \in Req /\ pc[r] \in PCs
         /\ job[r].count \in Nat /\ job[r].count <= Len(votes) /\ Len(votes) \in Nat
         /\ flying[r] => pc[r] \in {"wait", "release", "done", "dead"}
         /\ JobInit.count = 0
BY DEF TallyInv, TypeOK, CountsVisible, FlyingOnlyWhenLeft, Job, JobInit

\* Reading the stored vote count: a run goes on to fetch only votes after it.
LEMMA ReadStateStep ==
  ASSUME TallyInv, TypeOK', NEW r \in Runs, ReadState(r)
  PROVE  TallyInv'
<1>1. /\ OnlyRun(r) /\ UNCHANGED <<votes, db, seen, lease, flying>>
      /\ job'[r] = [job[r] EXCEPT !.last = db.last] /\ pc[r] = "readState"
  BY DEF ReadState, OnlyRun, Goto, TallyInv, TypeOK
<1>2. ~ flying[r] /\ job'[r].count = job[r].count /\ job'[r].last = db.last
  BY <1>1, RunFacts DEF Job
<1>3. pc'[r] # "fetch" => pc'[r] \notin {"classify", "aggregate", "commit"}
  <2>1. AfterBatch(job[r], "markComputed") \in {"page", "state", "advance", "progress",
                                               "readState", "backfill", "finalize"}
    BY RunFacts, StepNames DEF BatchKinds
  <2>2. pc'[r] \in {"fetch", "mark", AfterBatch(job[r], "markComputed")}
    BY DEF ReadState, Goto, TallyInv, TypeOK
  <2>3. QED BY <2>1, <2>2
<1>4. pc'[r] = "fetch" => job[r].count > db.last
  <2>1. AfterBatch(job[r], "markComputed") # "fetch"
    BY RunFacts, StepNames DEF BatchKinds
  <2>2. QED BY <2>1 DEF ReadState, Goto, TallyInv, TypeOK
<1>5. HeldByOwner(r)'
  <2>1. ~ CommitPending(r)'
    BY <1>1, <1>2, <1>3 DEF CommitPending
  <2>2. pc'[r] = "fetch" => StateRead(r)'
    <3>1. db.last \in Nat /\ job[r].count \in Nat
      BY RunFacts DEF TypeOK, Db
    <3>2. QED BY <1>1, <1>2, <1>4, <3>1 DEF StateRead
  <2>3. QED BY <1>3, <2>1, <2>2 DEF HeldByOwner
<1>6. QED BY <1>1, <1>2, <1>5, RunFacts, QuietStep

\* Fetching a slice: what the run holds is the slice's last ballot of each voter.
LEMMA FetchVotesStep ==
  ASSUME SlicesFit, TallyInv, TypeOK', NEW r \in Runs, FetchVotes(r)
  PROVE  TallyInv'
<1>0. SliceEnd(job[r]) = job[r].count + 1
  BY RunFacts, BoundsAssumption DEF SlicesFit, TallyInv, CountsVisible, Job, SliceEnd
<1> DEFINE from == job[r].last + 1
           to == job[r].count + 1
           upto == IF to <= Len(votes) THEN to ELSE Len(votes)
           slice == [a \in Accounts |-> LastBallot(votes, from, to, a)]
<1>1. /\ OnlyRun(r) /\ UNCHANGED <<votes, db, seen, lease, flying>>
      /\ job'[r] = [job[r] EXCEPT !.fetched = slice, !.upto = upto]
      /\ pc[r] = "fetch" /\ pc'[r] = "classify"
  BY <1>0 DEF FetchVotes, FirstVote, OnlyRun, Goto, TallyInv, TypeOK
<1>2. /\ ~ flying[r] /\ job'[r].count = job[r].count /\ job'[r].last = job[r].last
      /\ job'[r].fetched = slice /\ job'[r].upto = upto
  <2> HIDE DEF slice, upto
  <2>1. QED BY <1>1, RunFacts DEF Job
<1>3. upto \in {job[r].count, job[r].count + 1} /\ upto <= Len(votes)
  BY RunFacts
<1>4. ASSUME NEW a \in Accounts
      PROVE  slice[a] = LastBallot(votes, from, upto, a)
  <2>1. votes \in Seq(Vote) /\ from \in Nat \ {0} /\ Len(votes) \in Nat /\ to \in Nat
    <3>1. votes \in Seq(Vote) /\ Len(votes) \in Nat /\ job[r].count \in Nat
      BY RunFacts DEF TypeOK
    <3>2. job[r].last \in Nat
      BY RunFacts DEF Job
    <3>3. QED BY <3>1, <3>2
  <2>2. CASE to <= Len(votes)
    BY <2>2
  <2>3. CASE ~ (to <= Len(votes))
    <3>1. to = Len(votes) + 1
      BY <2>3, RunFacts
    <3>2. slice[a] = LastBallot(votes, from, Len(votes) + 1, a)
      BY <3>1
    <3>3. upto = Len(votes)
      BY <2>3
    <3> HIDE DEF from, slice, upto
    <3>4. QED BY <2>1, <3>2, <3>3, LastBallotClipped
  <2>4. QED BY <2>2, <2>3
<1>5. lease.owner = r => HeldByOwner(r)'
  <2>1. lease.owner = r => StateRead(r)
    BY <1>1 DEF TallyInv, OwnerIsCurrent, HeldByOwner
  <2>2. StateRead(r) => StateRead(r)'
    BY <1>1, <1>2 DEF StateRead
  <2>3. SliceFetched(r)'
    <3> HIDE DEF slice, upto
    <3>1. QED BY <1>1, <1>2, <1>3, <1>4 DEF SliceFetched
  <2>4. ~ CommitPending(r)'
    BY <1>1, <1>2 DEF CommitPending
  <2>5. QED BY <1>1, <2>1, <2>2, <2>3, <2>4 DEF HeldByOwner
<1>6. QED
  <2> HIDE DEF slice, upto
  <2>1. QED BY <1>1, <1>2, <1>5, RunFacts, QuietStep

\* Reading the stored ballots of the voters in the slice.
LEMMA ClassifyVotesStep ==
  ASSUME TallyInv, TypeOK', NEW r \in Runs, ClassifyVotes(r)
  PROVE  TallyInv'
<1> DEFINE old == [a \in Accounts |-> IF job[r].fetched[a] = {} THEN {} ELSE db.rows[a]]
<1>1. /\ OnlyRun(r) /\ UNCHANGED <<votes, db, seen, lease, flying>>
      /\ job'[r] = [job[r] EXCEPT !.old = old]
      /\ pc[r] = "classify" /\ pc'[r] = "aggregate"
  BY DEF ClassifyVotes, OnlyRun, Goto, TallyInv, TypeOK
<1>2. /\ ~ flying[r] /\ job'[r].count = job[r].count /\ job'[r].last = job[r].last
      /\ job'[r].fetched = job[r].fetched /\ job'[r].upto = job[r].upto /\ job'[r].old = old
  <2> HIDE DEF old
  <2>1. QED BY <1>1, RunFacts DEF Job
<1>3. lease.owner = r => HeldByOwner(r)'
  <2>1. lease.owner = r => StateRead(r) /\ SliceFetched(r)
    BY <1>1 DEF TallyInv, OwnerIsCurrent, HeldByOwner
  <2>2. StateRead(r) /\ SliceFetched(r) => StateRead(r)' /\ SliceFetched(r)'
    BY <1>1, <1>2 DEF StateRead, SliceFetched
  <2>3. RowsRead(r)'
    BY <1>1, <1>2 DEF RowsRead
  <2>4. ~ CommitPending(r)'
    BY <1>1, <1>2 DEF CommitPending
  <2>5. QED BY <1>1, <2>1, <2>2, <2>3, <2>4 DEF HeldByOwner
<1>4. QED
  <2> HIDE DEF old
  <2>1. QED BY <1>1, <1>2, <1>3, RunFacts, QuietStep

\* Computing the new totals from the stored ones and the ballots read before.
LEMMA ReadAggregatesStep ==
  ASSUME TallyInv, TypeOK', NEW r \in Runs, ReadAggregates(r)
  PROVE  TallyInv'
<1> DEFINE totals == Added(Removed(db.agg, job[r].old), job[r].fetched)
<1>1. /\ OnlyRun(r) /\ UNCHANGED <<votes, db, seen, lease, flying>> /\ pc[r] = "aggregate"
  BY DEF ReadAggregates, OnlyRun, Goto, TallyInv, TypeOK
<1>2. ~ flying[r]
  BY <1>1, RunFacts
<1> DEFINE Throws == pc' = [pc EXCEPT ![r] = AfterFailure(job[r])] /\ job' = job
           Computes == /\ job' = [job EXCEPT ![r] = [job[r] EXCEPT !.agg = totals]]
                       /\ pc' = [pc EXCEPT ![r] = "commit"]
<1>3. CASE Throws
  <2>1. job'[r] = job[r] /\ pc'[r] \in {"finalize", "release"}
    BY <1>3, RunFacts, StepNames DEF TypeOK, BatchKinds
  <2>2. ~ CommitPending(r)'
    BY <1>1, <1>2, <2>1 DEF CommitPending
  <2>3. QED BY <1>1, <1>2, <2>1, <2>2, KeepingStep
<1>4. CASE Computes
  <2>1. job'[r] = [job[r] EXCEPT !.agg = totals] /\ pc'[r] = "commit"
    BY <1>4, RunFacts DEF TypeOK
  <2>2. /\ job'[r].count = job[r].count /\ job'[r].last = job[r].last
        /\ job'[r].fetched = job[r].fetched /\ job'[r].upto = job[r].upto
        /\ job'[r].old = job[r].old /\ job'[r].agg = totals
    <3> HIDE DEF totals
    <3>1. QED BY <2>1, RunFacts DEF Job
  <2>3. lease.owner = r => HeldByOwner(r)'
    <3>1. lease.owner = r => StateRead(r) /\ SliceFetched(r) /\ RowsRead(r)
      BY <1>1 DEF TallyInv, OwnerIsCurrent, HeldByOwner
    <3>2. StateRead(r) => StateRead(r)'
      BY <1>1, <2>2 DEF StateRead
    <3>3. SliceFetched(r) => SliceFetched(r)'
      BY <1>1, <2>2 DEF SliceFetched
    <3>4. RowsRead(r) => RowsRead(r)'
      BY <1>1, <2>2 DEF RowsRead
    <3>5. TotalsReady(r)'
      BY <1>1, <2>2 DEF TotalsReady, Added, Removed, Included
    <3>6. QED BY <2>1, <3>1, <3>2, <3>3, <3>4, <3>5 DEF HeldByOwner
  <2>4. QED
    <3> HIDE DEF totals
    <3>1. QED BY <1>1, <1>2, <2>2, <2>3, RunFacts, QuietStep
<1>5. Throws \/ Computes
  BY DEF ReadAggregates, Goto
<1>6. QED BY <1>3, <1>4, <1>5

\* The steps that put a batch of run r on its way.
LEMMA SendingStep ==
  ASSUME TallyInv, TypeOK', NEW r \in Runs, NEW kind \in BatchKinds, Send(r, kind),
         UNCHANGED <<votes, db, seen, lease>>, OnlyRun(r),
         job'[r].count = job[r].count,
         kind = "commit" => pc[r] = "commit" /\ job'[r] = job[r]
  PROVE  TallyInv'
<1>1. pc'[r] = "wait" /\ req'[r].kind = kind
  BY DEF Send, Goto, TallyInv, TypeOK
<1>2. CASE kind = "commit"
  <2>1. CommitPending(r)
    BY <1>2 DEF CommitPending
  <2>2. QED BY <1>1, <1>2, <2>1, KeepingStep
<1>3. CASE kind # "commit"
  <2>1. ~ CommitPending(r)'
    BY <1>1, <1>3 DEF CommitPending
  <2>2. HeldByOwner(r)'
    BY <1>1, <2>1 DEF HeldByOwner
  <2>3. QED BY <1>1, <2>2, RunFacts, QuietStep
<1>4. QED BY <1>2, <1>3

\* A step of a run between batches, at whose end it holds nothing yet or
\* nothing any more.
LEMMA IdleStep ==
  ASSUME TallyInv, TypeOK', NEW r \in Runs, OnlyRun(r), UNCHANGED <<votes, db, seen>>,
         lease'.owner \in {lease.owner, NoRun, r}, ~ flying'[r], job'[r].count <= Len(votes),
         pc'[r] \notin {"fetch", "classify", "aggregate", "commit"}
  PROVE  TallyInv'
<1>1. HeldByOwner(r)'
  BY DEF HeldByOwner, CommitPending
<1>2. QED BY <1>1, QuietStep

\* Answers, lost answers and batches that land late.
LEMMA BatchAnsweredStep ==
  ASSUME TallyInv, TypeOK', NEW r \in Runs, BatchAnswered(r)
  PROVE  TallyInv'
<1>1. /\ OnlyRun(r) /\ votes' = votes /\ flying[r] /\ ~ flying'[r] /\ Executes(r)
      /\ pc'[r] = IF FencePasses(r, req[r].live) THEN AfterBatch(job[r], req[r].kind)
                  ELSE AfterFailure(job[r])
      /\ job'[r] = IF FencePasses(r, req[r].live) THEN Forget(job[r], req[r].kind) ELSE job[r]
  BY DEF BatchAnswered, OnlyRun, Goto, TallyInv, TypeOK
<1>2. pc'[r] \notin {"fetch", "classify", "aggregate", "commit"}
  BY <1>1, RunFacts, StepNames DEF Req
<1>3. job'[r].count <= Len(votes)
  <2>1. Forget(job[r], req[r].kind).count \in {job[r].count, 0}
    BY RunFacts DEF Forget, Job, JobInit
  <2>2. QED BY <1>1, <2>1, RunFacts
<1>4. /\ TallyIsPrefix' /\ lease'.owner = lease.owner
      /\ lease.owner # r => db' = db /\ seen' = seen
  BY <1>1, ExecuteStep
<1>5. HeldByOwner(r)'
  BY <1>1, <1>2 DEF HeldByOwner, CommitPending
<1>6. QED BY <1>1, <1>3, <1>4, <1>5, RunStep

\* A lost answer: executed or not, the batch may be retried by the same run.
LEMMA BatchFailsStep ==
  ASSUME TallyInv, TypeOK', NEW r \in Runs, BatchFails(r)
  PROVE  TallyInv'
<1>1. /\ OnlyRun(r) /\ votes' = votes /\ job' = job /\ flying[r] /\ pc[r] = "wait"
      /\ req'[r].kind = req[r].kind
      /\ (Executes(r) \/ NotExecuted)
      /\ pc'[r] = "wait" \/ (pc'[r] = AfterFailure(job[r]) /\ ~ flying'[r])
  <2>1. /\ UNCHANGED <<votes, job>> /\ flying[r] /\ pc[r] = "wait"
        /\ (Executes(r) \/ NotExecuted)
    BY DEF BatchFails, Waiting
  <2>2. CASE req[r].retries < MaxRetries
    <3>1. req' = [req EXCEPT ![r] = [req[r] EXCEPT !.retries = @ + 1]] /\ UNCHANGED <<pc, flying>>
      BY <2>2 DEF BatchFails
    <3>2. req'[r].kind = req[r].kind /\ OnlyRun(r)
      BY <2>1, <3>1, RunFacts DEF OnlyRun, TypeOK, Req
    <3>3. QED BY <2>1, <3>1, <3>2
  <2>3. CASE ~ (req[r].retries < MaxRetries)
    <3>1. flying' = [flying EXCEPT ![r] = FALSE] /\ Goto(r, AfterFailure(job[r])) /\ req' = req
      BY <2>3 DEF BatchFails
    <3>2. OnlyRun(r) /\ pc'[r] = AfterFailure(job[r]) /\ ~ flying'[r]
      BY <2>1, <3>1, RunFacts DEF OnlyRun, Goto, TypeOK
    <3>3. QED BY <2>1, <3>1, <3>2
  <2>4. QED BY <2>2, <2>3
<1>2. /\ pc'[r] \notin {"fetch", "classify", "aggregate", "commit"}
      /\ flying'[r] => pc'[r] = "wait"
  BY <1>1, RunFacts, StepNames DEF BatchKinds
<1>3. CommitPending(r)' => CommitPending(r) /\ req[r].kind = "commit"
  BY <1>1, <1>2 DEF CommitPending
<1>4. CASE NotExecuted
  BY <1>1, <1>2, <1>3, <1>4, KeepingStep DEF NotExecuted
<1>5. CASE Executes(r)
  <2>1. /\ TallyIsPrefix' /\ lease'.owner = lease.owner
        /\ lease.owner # r => db' = db /\ seen' = seen
    BY <1>1, <1>5, ExecuteStep
  <2>2. lease'.owner = r => HeldByOwner(r)'
    <3>1. SUFFICES ASSUME lease.owner = r PROVE HeldByOwner(r)'
      BY <2>1
    <3>2. CASE FencePasses(r, req[r].live)
      <4>1. req[r].kind = "commit" => AlreadyCommitted(r)'
        BY <1>1, <1>5, <3>2, ExecuteStep DEF AlreadyCommitted
      <4>2. QED BY <1>2, <1>3, <4>1 DEF HeldByOwner
    <3>3. CASE ~ FencePasses(r, req[r].live)
      <4>1. db' = db /\ seen' = seen
        BY <1>1, <1>5, <3>3, ExecuteStep
      <4>2. HeldByOwner(r)
        BY <3>1 DEF TallyInv, OwnerIsCurrent
      <4>3. QED BY <1>1, <1>2, <1>3, <4>1, <4>2, HeldStable
    <3>4. QED BY <3>2, <3>3
  <2>3. job'[r].count <= Len(votes)
    BY <1>1, RunFacts
  <2>4. QED BY <1>1, <1>2, <2>1, <2>2, <2>3, RunStep
<1>6. QED BY <1>1, <1>4, <1>5

\* A batch that lands after its run was interrupted.
LEMMA BatchLandsLateStep ==
  ASSUME TallyInv, TypeOK', NEW r \in Runs, BatchLandsLate(r)
  PROVE  TallyInv'
<1>1. /\ OnlyRun(r) /\ votes' = votes /\ job' = job /\ pc' = pc /\ req' = req
      /\ flying[r] /\ ~ flying'[r] /\ pc[r] \in {"wait", "release", "done", "dead"}
      /\ (Executes(r) \/ NotExecuted)
  BY RunFacts DEF BatchLandsLate, OnlyRun, TypeOK
<1>2. HeldByOwner(r)' /\ ~ CommitPending(r)'
  BY <1>1 DEF HeldByOwner, CommitPending
<1>3. CASE NotExecuted
  BY <1>1, <1>2, <1>3, RunFacts, QuietStep DEF NotExecuted
<1>4. CASE Executes(r)
  <2>1. /\ TallyIsPrefix' /\ lease'.owner = lease.owner
        /\ lease.owner # r => db' = db /\ seen' = seen
    BY <1>1, <1>4, ExecuteStep
  <2>2. QED BY <1>1, <1>2, <2>1, RunFacts, RunStep
<1>5. QED BY <1>1, <1>3, <1>4

-----------------------------------------------------------------------------
\* Every step preserves the inductive invariant.
LEMMA TallyInvStep == SlicesFit /\ TallyInv /\ [Next]_vars => TallyInv'
<1> SUFFICES ASSUME SlicesFit, TallyInv, [Next]_vars PROVE TallyInv'
  OBVIOUS
<1> TypeOK'
  BY TypeStep DEF TallyInv
<1>1. CASE CreateEntity
  <2>1. UNCHANGED <<lease, votes, db, pc, job, req, flying, seen>>
    BY <1>1 DEF CreateEntity
  <2>2. CountsVisible' /\ FlyingOnlyWhenLeft' /\ TallyIsPrefix'
    BY <2>1, PrefixStable DEF TallyInv, CountsVisible, FlyingOnlyWhenLeft
  <2>3. OwnerIsCurrent'
    BY <2>1, HeldStable DEF TallyInv, OwnerIsCurrent, CommitPending
  <2>4. QED BY <2>2, <2>3 DEF TallyInv
<1>2. ASSUME NEW a \in Accounts, NEW b \in Ballots, CastVote(a, b)
      PROVE  TallyInv'
  BY <1>2, CastStep
<1>3. ASSUME NEW r \in Runs, Work(r)
      PROVE  TallyInv'
  <2> TypeOK /\ job[r] \in Job
    BY RunFacts
  <2>1. CASE Acquire(r)
    <3>1. /\ OnlyRun(r) /\ UNCHANGED <<votes, db, seen, job, flying>>
          /\ lease'.owner = r /\ pc[r] = "idle" /\ pc'[r] = "cursor"
      BY <2>1 DEF Acquire, AcquireLease, OnlyRun, Goto, TypeOK
    <3>2. QED BY <3>1, RunFacts, IdleStep
  <2>2. CASE ApplyOverride(r)
    <3>1. /\ OnlyRun(r) /\ Send(r, "override") /\ UNCHANGED <<votes, db, seen, lease>>
          /\ job'[r].count = job[r].count
      BY <2>2 DEF ApplyOverride, OnlyRun, Send, Goto, TypeOK, Job
    <3>2. QED BY <3>1, SendingStep DEF BatchKinds
  <2>3. CASE ReadCursor(r)
    <3>1. /\ OnlyRun(r) /\ UNCHANGED <<votes, db, seen, lease, flying>>
          /\ pc[r] = "cursor" /\ pc'[r] = "page" /\ job'[r].count = job[r].count
      BY <2>3 DEF ReadCursor, OnlyRun, Goto, TypeOK, Job
    <3>2. QED BY <3>1, RunFacts, IdleStep
  <2>4. CASE BootstrapCursor(r)
    <3>1. /\ OnlyRun(r) /\ Send(r, "bootstrap") /\ UNCHANGED <<votes, db, seen, lease>>
      BY <2>4 DEF BootstrapCursor, OnlyRun, Send, Goto, TypeOK
    <3>2. job'[r].count = job[r].count
      <4>1. PICK s \in Nat : job'[r] = [job[r] EXCEPT !.sv = s]
        BY <2>4 DEF BootstrapCursor, TypeOK
      <4>2. QED BY <4>1 DEF Job
    <3>3. QED BY <3>1, <3>2, SendingStep DEF BatchKinds
  <2>5. CASE FetchPage(r)
    <3>1. /\ OnlyRun(r) /\ UNCHANGED <<votes, db, seen, lease, flying>>
          /\ pc[r] = "page" /\ pc'[r] \in {"backfill", "events"}
      BY <2>5 DEF FetchPage, OnlyRun, Goto, TypeOK
    <3>2. job'[r].count = job[r].count
      BY <2>5 DEF FetchPage, TypeOK, Job
    <3>3. QED BY <3>1, <3>2, RunFacts, IdleStep
  <2>6. CASE ProcessEvents(r)
    <3>1. /\ OnlyRun(r) /\ UNCHANGED <<votes, db, seen, lease, flying>>
          /\ pc[r] = "events" /\ pc'[r] \in {"initCache", "state"}
      BY <2>6 DEF ProcessEvents, OnlyRun, Goto, TypeOK
    <3>2. job'[r].count \in {Len(votes), 0}
      BY <2>6 DEF ProcessEvents, TypeOK, Job
    <3>3. job'[r].count <= Len(votes)
      BY <3>2, RunFacts
    <3>4. QED BY <3>1, <3>3, RunFacts, IdleStep
  <2>7. CASE SendStep(r)
    <3>1. PICK kind \in BatchKinds :
            /\ Send(r, kind)
            /\ <<pc[r], kind>> \in {<<"initCache", "initCache">>, <<"state", "createState">>,
                   <<"mark", "markComputed">>, <<"commit", "commit">>,
                   <<"advance", "advance">>, <<"progress", "progress">>}
      BY <2>7 DEF SendStep
    <3>2. kind = "commit" => pc[r] = "commit"
      BY <3>1
    <3>3. OnlyRun(r) /\ UNCHANGED <<votes, db, seen, lease, job>>
      BY <2>7, <3>1 DEF SendStep, OnlyRun, Send, Goto, TypeOK
    <3>4. QED BY <3>1, <3>2, <3>3, SendingStep
  <2>8. CASE ReadState(r)
    BY <2>8, ReadStateStep
  <2>9. CASE FetchVotes(r)
    BY <2>9, FetchVotesStep
  <2>10. CASE ClassifyVotes(r)
    BY <2>10, ClassifyVotesStep
  <2>11. CASE ReadAggregates(r)
    BY <2>11, ReadAggregatesStep
  <2>12. CASE StartBackfill(r)
    <3>1. /\ OnlyRun(r) /\ UNCHANGED <<votes, db, seen, lease, flying>>
          /\ pc[r] = "backfill" /\ pc'[r] \in {"finalize", "list"}
      BY <2>12 DEF StartBackfill, OnlyRun, Goto, TypeOK
    <3>2. job'[r].count = job[r].count
      BY <2>12 DEF StartBackfill, TypeOK, Job
    <3>3. QED BY <3>1, <3>2, RunFacts, IdleStep
  <2>13. CASE ListEntities(r)
    <3>1. /\ OnlyRun(r) /\ UNCHANGED <<votes, db, seen, lease, flying>>
          /\ pc[r] = "list" /\ pc'[r] \in {"initCache", "progress"}
      BY <2>13 DEF ListEntities, OnlyRun, Goto, TypeOK
    <3>2. job'[r].count = Len(votes)
      BY <2>13 DEF ListEntities, TypeOK, Job
    <3>3. QED BY <3>1, <3>2, RunFacts, IdleStep
  <2>14. CASE Finalize(r)
    <3>1. /\ OnlyRun(r) /\ UNCHANGED <<votes, db, seen, lease, flying, job>>
          /\ pc[r] = "finalize" /\ pc'[r] = "release"
      BY <2>14 DEF Finalize, OnlyRun, Goto, TypeOK
    <3>2. QED BY <3>1, RunFacts, IdleStep
  <2>15. CASE Release(r)
    <3>1. /\ OnlyRun(r) /\ UNCHANGED <<votes, db, seen, flying>>
          /\ lease'.owner \in {lease.owner, NoRun} /\ lease'.owner # r
          /\ pc[r] = "release" /\ pc'[r] = "done"
          /\ job'[r] = job[r] \/ job'[r] = JobInit
      BY <2>15, RunsAssumption
      DEF Release, ReleaseLease, LeaseFree, OnlyRun, Goto, TypeOK, Lease
    <3>2. job'[r].count <= Len(votes)
      BY <3>1, RunFacts
    <3>3. QED BY <3>1, <3>2, QuietStep
  <2>16. CASE BatchAnswered(r)
    BY <2>16, BatchAnsweredStep
  <2>17. CASE BatchLandsLate(r)
    BY <2>17, BatchLandsLateStep
  <2>18. CASE Schedule(r)
    <3>1. /\ OnlyRun(r) /\ UNCHANGED <<votes, db, seen, lease, flying>> /\ ~ flying[r]
          /\ pc'[r] = "idle" /\ job'[r] = JobInit
      BY <2>18 DEF Schedule, OnlyRun, Goto, TypeOK
    <3>2. QED BY <3>1, RunFacts, IdleStep
  <2>19. QED
    BY <1>3, <2>1, <2>2, <2>3, <2>4, <2>5, <2>6, <2>7, <2>8, <2>9, <2>10, <2>11, <2>12,
       <2>13, <2>14, <2>15, <2>16, <2>17, <2>18 DEF Work
<1>4. ASSUME NEW r \in Runs, Failure(r)
      PROVE  TallyInv'
  <2> TypeOK /\ job[r] \in Job
    BY RunFacts
  <2>1. CASE BatchFails(r)
    BY <2>1, BatchFailsStep
  <2>2. CASE Interrupt(r)
    <3>1. /\ OnlyRun(r) /\ UNCHANGED <<votes, db, seen, lease, job, req, flying>>
          /\ pc'[r] = "release"
      BY <2>2 DEF Interrupt, OnlyRun, Goto, TypeOK
    <3>2. CommitPending(r)' => CommitPending(r)
      BY <3>1 DEF CommitPending
    <3>3. QED BY <3>1, <3>2, KeepingStep
  <2>3. CASE ReadFails(r)
    <3>1. /\ OnlyRun(r) /\ UNCHANGED <<votes, db, seen, lease, job, req, flying>>
          /\ pc'[r] \in {"finalize", "release"} /\ pc[r] \notin {"wait", "release", "done", "dead"}
      BY <2>3, StepNames DEF ReadFails, OnlyRun, Goto, TypeOK, BatchKinds
    <3>2. QED BY <3>1, RunFacts, IdleStep
  <2>4. CASE Crash(r)
    <3>1. /\ OnlyRun(r) /\ UNCHANGED <<votes, db, seen, lease, job, req, flying>>
          /\ pc'[r] = "dead"
      BY <2>4 DEF Crash, OnlyRun, Goto, TypeOK
    <3>2. CommitPending(r)' => CommitPending(r)
      BY <3>1 DEF CommitPending
    <3>3. QED BY <3>1, <3>2, KeepingStep
  <2>5. QED BY <1>4, <2>1, <2>2, <2>3, <2>4 DEF Failure
<1>5. CASE AbandonedLeaseExpires \/ WorkingLeaseExpires \/ UNCHANGED vars
  <2>1. UNCHANGED <<votes, db, pc, job, req, flying, seen>> /\ lease'.owner = lease.owner
    BY <1>5 DEF AbandonedLeaseExpires, WorkingLeaseExpires, LeaseExpires, vars, TallyInv,
                TypeOK, Lease
  <2>2. CountsVisible' /\ FlyingOnlyWhenLeft' /\ TallyIsPrefix'
    BY <2>1, PrefixStable DEF TallyInv, CountsVisible, FlyingOnlyWhenLeft
  <2>3. OwnerIsCurrent'
    BY <2>1, HeldStable DEF TallyInv, OwnerIsCurrent, CommitPending
  <2>4. QED BY <2>2, <2>3 DEF TallyInv
<1>6. QED BY <1>1, <1>2, <1>3, <1>4, <1>5 DEF Next, Ledger

\* What a run holds agrees with the tables as long as the lease names it.
THEOREM TallyInvariant == SlicesFit => (Spec => []TallyInv)
<1> SUFFICES ASSUME SlicesFit PROVE Spec => []TallyInv
  OBVIOUS
<1>1. Init => TallyInv
  BY TallyInvInit
<1>2. TallyInv /\ [Next]_vars => TallyInv'
  BY TallyInvStep
<1>3. QED BY <1>1, <1>2, PTL DEF Spec

\* However many polls overlap, stall, crash and repeat their batches, the stored
\* aggregates count exactly a prefix of the vote log, each voter's last ballot once.
THEOREM TallyIsAlwaysPrefix == SlicesFit => (Spec => []TallyIsPrefix)
<1> SUFFICES ASSUME SlicesFit PROVE Spec => []TallyIsPrefix
  OBVIOUS
<1>1. TallyInv => TallyIsPrefix
  BY DEF TallyInv
<1>2. QED BY <1>1, TallyInvariant, PTL

\* The poll that owns the lease never computes a negative total.
THEOREM OwnersNeverUnderflow == SlicesFit => (Spec => []OwnerNeverUnderflows)
<1> SUFFICES ASSUME SlicesFit PROVE Spec => []OwnerNeverUnderflows
  OBVIOUS
<1>1. TallyInv => OwnerNeverUnderflows
  <2> SUFFICES ASSUME TallyInv, NEW r \in Runs, pc[r] = "aggregate", lease.owner = r,
                      NEW v \in Options, NEW a \in Accounts
               PROVE  ~ (Removed(db.agg, job[r].old)[v][a] < 0)
    BY DEF OwnerNeverUnderflows, Underflows
  <2>1. job[r].old[a] = IF job[r].fetched[a] = {} THEN {} ELSE db.rows[a]
    BY DEF TallyInv, OwnerIsCurrent, HeldByOwner, RowsRead
  <2>2. db.agg[v][a] = Included(db.rows, v, a)
    BY DEF TallyInv, TallyIsPrefix, CountOf
  <2>3. Removed(db.agg, job[r].old)[v][a] = db.agg[v][a] - Included(job[r].old, v, a)
    BY DEF Removed
  <2>4. QED BY <2>1, <2>2, <2>3 DEF Included
<1>2. QED BY <1>1, TallyInvariant, PTL

\* Only D1, executing a batch, changes the published tally.
LEMMA TallyChangesInBatches ==
  ASSUME TallyInv, [Next]_vars
  PROVE  \/ db' = db /\ seen' = seen
         \/ votes' = votes /\ \E r \in Runs : flying[r] /\ Executes(r)
<1>1. CASE Ledger \/ UNCHANGED vars \/ AbandonedLeaseExpires \/ WorkingLeaseExpires
  BY <1>1 DEF Ledger, CreateEntity, CastVote, vars, AbandonedLeaseExpires, WorkingLeaseExpires
<1>2. ASSUME NEW r \in Runs, Work(r)
      PROVE  \/ db' = db /\ seen' = seen
             \/ votes' = votes /\ flying[r] /\ Executes(r)
  BY <1>2 DEF Work, Acquire, ApplyOverride, ReadCursor, BootstrapCursor, FetchPage,
     ProcessEvents, SendStep, ReadState, FetchVotes, ClassifyVotes, ReadAggregates,
     StartBackfill, ListEntities, Finalize, Release, BatchAnswered, BatchLandsLate, Schedule,
     NotExecuted
<1>3. ASSUME NEW r \in Runs, Failure(r)
      PROVE  \/ db' = db /\ seen' = seen
             \/ votes' = votes /\ flying[r] /\ Executes(r)
  BY <1>3 DEF Failure, BatchFails, Interrupt, ReadFails, Crash, NotExecuted
<1>4. QED BY <1>1, <1>2, <1>3 DEF Next

\* A published tally is never replaced by an older one.
THEOREM TallyMonotone == SlicesFit => (Spec => TallyNeverRegresses)
<1> SUFFICES ASSUME SlicesFit PROVE Spec => TallyNeverRegresses
  OBVIOUS
<1>1. TallyInv /\ [Next]_vars => [db'.last >= db.last /\ seen' >= seen]_vars
  <2> SUFFICES ASSUME TallyInv, [Next]_vars PROVE db'.last >= db.last /\ seen' >= seen
    OBVIOUS
  <2>1. CASE db' = db /\ seen' = seen
    BY <2>1 DEF TallyInv, TypeOK, Db
  <2>2. CASE votes' = votes /\ \E r \in Runs : flying[r] /\ Executes(r)
    BY <2>2, ExecuteStep
  <2>3. QED BY <2>1, <2>2, TallyChangesInBatches
<1>2. QED BY <1>1, TallyInvariant, PTL DEF Spec, TallyNeverRegresses

-----------------------------------------------------------------------------
(***************************************************************************)
(* Refinement                                                              *)
(***************************************************************************)
\* Totals that agree with the ballots of a prefix are its reference count.
LEMMA TotalsAreTally ==
  ASSUME NEW agg \in [Options -> [Accounts -> Int]], NEW log, NEW k,
         \A v \in Options, a \in Accounts :
           agg[v][a] = IF v \in LastBallot(log, 1, k, a) THEN 1 ELSE 0
  PROVE  agg = TallyOf(log, k)
<1> DEFINE counted == [a \in Accounts |-> LastBallot(log, 1, k, a)]
<1>1. \A v \in Options, a \in Accounts : agg[v][a] = Included(counted, v, a)
  BY DEF Included
<1> HIDE DEF counted
<1>2. agg = [v \in Options |-> [a \in Accounts |-> Included(counted, v, a)]]
  <2>1. \A v \in Options : agg[v] = [a \in Accounts |-> Included(counted, v, a)]
    BY <1>1
  <2>2. QED BY <2>1
<1>3. QED BY <1>2 DEF TallyOf, counted

\* The empty tables publish the empty prefix.
LEMMA RefinedInit == Init => Abstract!Init
<1> SUFFICES ASSUME Init PROVE Abstract!Init
  OBVIOUS
<1>1. TallyInv
  BY TallyInvInit
<1>2. db.agg = TallyOf(votes, seen)
  <2>1. db.agg \in [Options -> [Accounts -> Int]]
    BY <1>1 DEF TallyInv, TypeOK, Db
  <2>2. \A v \in Options, a \in Accounts :
          db.agg[v][a] = IF v \in LastBallot(votes, 1, seen, a) THEN 1 ELSE 0
    BY <1>1 DEF TallyInv, TallyIsPrefix, CountOf, Included
  <2>3. QED BY <2>1, <2>2, TotalsAreTally
<1>3. votes = <<>> /\ seen = 0
  BY DEF Init
<1>4. QED BY <1>2, <1>3 DEF Abstract!Init, Abstract!TallyOf, TallyOf, Abstract!LastBallot,
            LastBallot, Abstract!CastBy, CastBy, Abstract!LastOf, LastOf, Abstract!Included,
            Included

\* Only voters change the vote log.
LEMMA VotesOnlyCast ==
  ASSUME [Next]_vars, votes' # votes
  PROVE  Ledger
<1>1. ASSUME NEW r \in Runs, Work(r)
      PROVE  votes' = votes
  BY <1>1 DEF Work, Acquire, ApplyOverride, ReadCursor, BootstrapCursor, FetchPage,
     ProcessEvents, SendStep, ReadState, FetchVotes, ClassifyVotes, ReadAggregates,
     StartBackfill, ListEntities, Finalize, Release, BatchAnswered, BatchLandsLate, Schedule
<1>2. ASSUME NEW r \in Runs, Failure(r)
      PROVE  votes' = votes
  BY <1>2 DEF Failure, BatchFails, Interrupt, ReadFails, Crash
<1>3. AbandonedLeaseExpires \/ WorkingLeaseExpires \/ UNCHANGED vars => votes' = votes
  BY DEF AbandonedLeaseExpires, WorkingLeaseExpires, vars
<1>4. QED BY <1>1, <1>2, <1>3 DEF Next

\* Every step publishes a longer prefix, records a vote, or is invisible.
LEMMA RefinedStep ==
  TallyInv /\ TallyInv' /\ [Next]_vars => [Abstract!Next]_(Abstract!abstractVars)
<1> SUFFICES ASSUME TallyInv, TallyInv', [Next]_vars
             PROVE  Abstract!Next \/ UNCHANGED Abstract!abstractVars
  OBVIOUS
<1>1. db.agg = TallyOf(votes, seen) /\ db'.agg = TallyOf(votes', seen')
  <2>1. db.agg \in [Options -> [Accounts -> Int]] /\ db'.agg \in [Options -> [Accounts -> Int]]
    BY DEF TallyInv, TypeOK, Db
  <2>2. db.agg = TallyOf(votes, seen)
    <3>1. \A v \in Options, a \in Accounts :
            db.agg[v][a] = IF v \in LastBallot(votes, 1, seen, a) THEN 1 ELSE 0
      BY DEF TallyInv, TallyIsPrefix, CountOf, Included
    <3>2. QED BY <2>1, <3>1, TotalsAreTally
  <2>3. db'.agg = TallyOf(votes', seen')
    <3>1. \A v \in Options, a \in Accounts :
            db'.agg[v][a] = IF v \in LastBallot(votes', 1, seen', a) THEN 1 ELSE 0
      BY DEF TallyInv, TallyIsPrefix, CountOf, Included
    <3>2. QED BY <2>1, <3>1, TotalsAreTally
  <2>4. QED BY <2>2, <2>3
<1>2. CASE votes' = votes
  <2>1. seen' >= seen /\ seen \in Nat /\ seen' \in Nat /\ seen' <= Len(votes) /\ Len(votes) \in Nat
    <3>1. seen \in Nat /\ seen' \in Nat /\ seen' <= Len(votes) /\ Len(votes) \in Nat
      BY <1>2 DEF TallyInv, TypeOK, TallyIsPrefix, CountOf
    <3>2. seen' >= seen
      BY <1>2, <3>1, TallyChangesInBatches, ExecuteStep
    <3>3. QED BY <3>1, <3>2
  <2>2. CASE seen' = seen
    BY <1>1, <1>2, <2>2 DEF Abstract!abstractVars
  <2>3. CASE seen' # seen
    <3>1. seen' \in (seen + 1)..Len(votes)
      BY <2>1, <2>3
    <3>2. db'.agg = Abstract!TallyOf(votes, seen')
      BY <1>1, <1>2 DEF Abstract!TallyOf, TallyOf, Abstract!LastBallot,
            LastBallot, Abstract!CastBy, CastBy, Abstract!LastOf, LastOf, Abstract!Included,
            Included
    <3>3. QED BY <1>2, <3>1, <3>2 DEF Abstract!Next, Abstract!Publish
  <2>4. QED BY <2>2, <2>3
<1>3. CASE votes' # votes
  <2>1. PICK a \in Accounts, b \in Ballots : CastVote(a, b)
    <3>1. Ledger
      BY <1>3, VotesOnlyCast
    <3>2. QED BY <1>3, <3>1 DEF Ledger, CreateEntity
  <2>2. QED BY <2>1 DEF CastVote, Abstract!Next, Abstract!Cast
<1>4. QED BY <1>2, <1>3

\* Polls together behave, towards the readers of the results, like a publisher
\* of ever longer prefixes of the vote log.
THEOREM TallyImplementsPublishedTally == SlicesFit => (Spec => PublishesPrefixes)
<1> SUFFICES ASSUME SlicesFit PROVE Spec => PublishesPrefixes
  OBVIOUS
<1>1. Init => Abstract!Init
  BY RefinedInit
<1>2. TallyInv /\ TallyInv' /\ [Next]_vars => [Abstract!Next]_(Abstract!abstractVars)
  BY RefinedStep
<1>3. QED BY <1>1, <1>2, TallyInvariant, PTL DEF Spec, PublishesPrefixes, Abstract!Spec

-----------------------------------------------------------------------------
(***************************************************************************)
(* The cursor                                                              *)
(***************************************************************************)
\* What a batch makes of the cursor, the stored count and the backfill flag.
LEMMA AppliedFields ==
  ASSUME NEW d \in Db, NEW j \in Job, NEW kind \in BatchKinds
  PROVE  /\ Applied(d, kind, j).cursor =
              IF kind \in {"override", "bootstrap"} THEN j.sv
              ELSE IF kind = "advance" THEN j.next ELSE d.cursor
         /\ Applied(d, kind, j).overridden = IF kind = "override" THEN j.sv ELSE d.overridden
         /\ Applied(d, kind, j).last = IF kind = "commit" THEN j.count ELSE d.last
         /\ Applied(d, kind, j).backfill =
              IF kind = "progress" THEN "complete" ELSE d.backfill
<1>1. CASE kind = "override"
  BY <1>1 DEF Applied, OverrideApplied, Db
<1>2. CASE kind = "bootstrap"
  BY <1>2 DEF Applied, Db
<1>3. CASE kind = "initCache"
  BY <1>3 DEF Applied, Db
<1>4. CASE kind = "createState"
  BY <1>4 DEF Applied, Db
<1>5. CASE kind = "markComputed"
  BY <1>5 DEF Applied, Db
<1>6. CASE kind = "commit"
  BY <1>6 DEF Applied, Committed, Db
<1>7. CASE kind = "advance"
  BY <1>7 DEF Applied, Db
<1>8. CASE kind = "progress"
  BY <1>8 DEF Applied, Db
<1>9. QED
  BY <1>1, <1>2, <1>3, <1>4, <1>5, <1>6, <1>7, <1>8 DEF BatchKinds

\* The place where the stream was entered, after a batch.
Entered(kind, j, o) == IF kind \in {"override", "bootstrap"} THEN j.sv ELSE o

\* Past the origin the cursor never stands before an uncounted vote.
Counted(d, o) == d.cursor # Absent /\ d.cursor > o => d.last >= d.cursor - 1

\* The step a batch is sent from, by its kind.
LEMMA BatchSteps ==
  /\ BatchStep("override") = "override" /\ BatchStep("bootstrap") = "bootstrap"
  /\ BatchStep("initCache") = "initCache" /\ BatchStep("createState") = "state"
  /\ BatchStep("markComputed") = "mark" /\ BatchStep("commit") = "commit"
  /\ BatchStep("advance") = "advance" /\ BatchStep("progress") = "progress"
BY DEF BatchStep

\* A batch of the lease owner moves the cursor forward, except where an override is
\* applied for the first time; what it leaves behind suits the run if it has to send
\* the batch again, and every other run's reach.
LEMMA CursorBatch ==
  ASSUME NEW d \in Db, NEW j \in Job, NEW kind \in BatchKinds, NEW o \in Nat, NEW n \in Nat,
         NEW d2 \in Db, d2 = Applied(d, kind, j), NEW o2 \in Nat, o2 = Entered(kind, j, o),
         Counted(d, o), Override = Absent => EnteredOnce(d, o, n),
         PhaseFits(j, BatchStep(kind)),
         Override = Absent => ReachFits(j, BatchStep(kind), d, o, n),
         CursorHeld(j, BatchStep(kind), d, o, n),
         Override = Absent => kind # "override"
  PROVE  /\ Counted(d2, o2)
         /\ Override = Absent => EnteredOnce(d2, o2, n) /\ o2 >= o
         /\ d2.last >= d.last
         /\ CursorHeld(j, BatchStep(kind), d2, o2, n)
         /\ d.cursor # Absent /\ d2.cursor < d.cursor
              => d.overridden # Override /\ d2.overridden = Override
<1> DEFINE s == BatchStep(kind)
<1>1. /\ j.phase \in {"stream", "backfill"} /\ j.sv \in Nat /\ j.next \in Nat
      /\ j.count \in Nat /\ j.mark \in Nat /\ j.full \in BOOLEAN
      /\ d.last \in Nat /\ d2.last \in Nat /\ d.cursor \in Nat \cup {Absent}
      /\ d2.cursor \in Nat \cup {Absent} /\ Absent \notin Nat
      /\ Override \in Nat \cup {Absent}
  BY AbsentAssumption, OverrideAssumption DEF Job, Db, Phases
<1>2. /\ d2.cursor = IF kind \in {"override", "bootstrap"} THEN j.sv
                     ELSE IF kind = "advance" THEN j.next ELSE d.cursor
      /\ d2.overridden = IF kind = "override" THEN j.sv ELSE d.overridden
      /\ d2.last = IF kind = "commit" THEN j.count ELSE d.last
      /\ d2.backfill = IF kind = "progress" THEN "complete" ELSE d.backfill
  BY AppliedFields
<1>3. /\ Placed(j, s, d, o) /\ PageHeld(j, s, n) /\ CountHeld(j, s, d, o)
  BY DEF CursorHeld
<1>4. CASE kind = "override"
  <2>1. s = "override" /\ j.phase = "stream" /\ j.sv = Override
        /\ (d.overridden = Override => d.cursor = j.sv)
    BY <1>3, <1>4, BatchSteps DEF PhaseFits, Placed
  <2>2. d2.cursor = j.sv /\ o2 = j.sv /\ d2.last = d.last /\ d2.overridden = j.sv
        /\ Override # Absent
    BY <1>2, <1>4 DEF Entered
  <2> HIDE DEF s
  <2>3. Counted(d2, o2)
    BY <1>1, <2>2 DEF Counted
  <2>4. CursorHeld(j, s, d2, o2, n)
    BY <1>1, <2>1, <2>2 DEF CursorHeld, Placed, PageHeld, CountHeld, InPage, CountSteps
  <2>5. QED BY <1>1, <2>1, <2>2, <2>3, <2>4 DEF s
<1>5. CASE kind = "bootstrap"
  <2>1. s = "bootstrap" /\ j.phase = "stream" /\ d.cursor \in {Absent, j.sv}
        /\ (d.cursor = j.sv => o = j.sv) /\ (Override = Absent => d.backfill = "pending")
        /\ (Override = Absent => j.sv <= n)
    BY <1>3, <1>5, BatchSteps DEF PhaseFits, Placed, ReachFits
  <2>2. d2.cursor = j.sv /\ o2 = j.sv /\ d2.last = d.last /\ d2.backfill = d.backfill
    BY <1>2, <1>5 DEF Entered
  <2> HIDE DEF s
  <2>3. Counted(d2, o2)
    BY <1>1, <2>2 DEF Counted
  <2>4. CursorHeld(j, s, d2, o2, n)
    BY <1>1, <2>1, <2>2 DEF CursorHeld, Placed, PageHeld, CountHeld, InPage, CountSteps
  <2>5. Override = Absent => EnteredOnce(d2, o2, n) /\ o2 >= o
    BY <1>1, <2>1, <2>2 DEF EnteredOnce
  <2>6. QED BY <1>1, <2>1, <2>2, <2>3, <2>4, <2>5 DEF s
<1>6. CASE kind = "advance"
  <2>1. s = "advance" /\ j.phase = "stream" /\ d.cursor \in {j.sv, j.next} /\ j.sv < j.next
        /\ j.next - 1 <= d.last
    BY <1>3, <1>6, BatchSteps DEF PhaseFits, Placed, PageHeld, CountHeld, InPage, Goal
  <2>2. d2.cursor = j.next /\ o2 = o /\ d2.last = d.last /\ d2.backfill = d.backfill
    BY <1>2, <1>6 DEF Entered
  <2> HIDE DEF s
  <2>3. Counted(d2, o2)
    BY <1>1, <2>1, <2>2 DEF Counted
  <2>4. CursorHeld(j, s, d2, o2, n)
    BY <1>1, <1>3, <2>1, <2>2 DEF CursorHeld, Placed, PageHeld, CountHeld, InPage, Goal, CountSteps
  <2>5. Override = Absent => EnteredOnce(d2, o2, n) /\ o2 >= o
    BY <1>1, <2>1, <2>2 DEF EnteredOnce
  <2>6. QED BY <1>1, <2>1, <2>2, <2>3, <2>4, <2>5 DEF s
<1>7. CASE kind = "commit"
  <2>1. s = "commit" /\ d.last <= j.count /\ Goal(j, o) <= j.count
    BY <1>3, <1>7, BatchSteps DEF CountHeld, CountSteps
  <2>2. d2.cursor = d.cursor /\ o2 = o /\ d2.last = j.count /\ d2.backfill = d.backfill
    BY <1>2, <1>7 DEF Entered
  <2> HIDE DEF s
  <2>3. Counted(d2, o2)
    BY <1>1, <2>1, <2>2 DEF Counted
  <2>4. CursorHeld(j, s, d2, o2, n)
    BY <1>1, <1>3, <2>1, <2>2 DEF CursorHeld, Placed, PageHeld, CountHeld, InPage, CountSteps
  <2>5. Override = Absent => EnteredOnce(d2, o2, n) /\ o2 >= o
    BY <1>1, <2>1, <2>2 DEF EnteredOnce
  <2>6. QED BY <1>1, <2>1, <2>2, <2>3, <2>4, <2>5 DEF s
<1>8. CASE kind = "progress"
  <2>1. s = "progress" /\ j.phase = "backfill" /\ Goal(j, o) <= d.last /\ d.cursor # Absent
    BY <1>3, <1>8, BatchSteps DEF PhaseFits, CountHeld, Placed
  <2>2. d2.cursor = d.cursor /\ o2 = o /\ d2.last = d.last
    BY <1>2, <1>8 DEF Entered
  <2> HIDE DEF s
  <2>3. Counted(d2, o2)
    BY <1>1, <2>1, <2>2 DEF Counted
  <2>4. CursorHeld(j, s, d2, o2, n)
    BY <1>1, <1>3, <2>1, <2>2 DEF CursorHeld, Placed, PageHeld, CountHeld, InPage, CountSteps
  <2>5. Override = Absent => EnteredOnce(d2, o2, n) /\ o2 >= o
    BY <1>1, <2>1, <2>2 DEF EnteredOnce, Goal
  <2>6. QED BY <1>1, <2>1, <2>2, <2>3, <2>4, <2>5 DEF s
<1>9. CASE kind \in {"initCache", "createState", "markComputed"}
  <2>1. s \in {"initCache", "state", "mark"}
    BY <1>9, BatchSteps
  <2>2. d2.cursor = d.cursor /\ o2 = o /\ d2.last = d.last /\ d2.backfill = d.backfill
        /\ d2.overridden = d.overridden
    BY <1>2, <1>9 DEF Entered
  <2> HIDE DEF s
  <2>3. Counted(d2, o2)
    BY <1>1, <2>1, <2>2 DEF Counted
  <2>4. CursorHeld(j, s, d2, o2, n)
    BY <1>3, <2>1, <2>2 DEF CursorHeld, Placed, CountHeld
  <2>5. Override = Absent => EnteredOnce(d2, o2, n) /\ o2 >= o
    BY <1>1, <2>1, <2>2 DEF EnteredOnce
  <2>6. QED BY <1>1, <2>1, <2>2, <2>3, <2>4, <2>5 DEF s
<1>10. QED
  BY <1>4, <1>5, <1>6, <1>7, <1>8, <1>9 DEF BatchKinds

\* After a settled batch the run is at a step that what it holds suits.
LEMMA CursorBatchDone ==
  ASSUME NEW d \in Db, NEW j \in Job, NEW kind \in BatchKinds, NEW o \in Nat, NEW n \in Nat,
         NEW d2 \in Db, d2 = Applied(d, kind, j), NEW o2 \in Nat, o2 = Entered(kind, j, o),
         PhaseFits(j, BatchStep(kind)),
         Override = Absent => ReachFits(j, BatchStep(kind), d2, o2, n),
         CursorHeld(j, BatchStep(kind), d2, o2, n)
  PROVE  /\ PhaseFits(Forget(j, kind), AfterBatch(j, kind))
         /\ Override = Absent => ReachFits(Forget(j, kind), AfterBatch(j, kind), d2, o2, n)
         /\ CursorHeld(Forget(j, kind), AfterBatch(j, kind), d2, o2, n)
<1> DEFINE s == BatchStep(kind)
           j2 == Forget(j, kind)
           s2 == AfterBatch(j, kind)
<1>1. /\ j.phase \in {"stream", "backfill"} /\ j.sv \in Nat /\ j.next \in Nat
      /\ j.count \in Nat /\ j.mark \in Nat /\ j.full \in BOOLEAN
      /\ d.last \in Nat /\ d2.last \in Nat /\ d.cursor \in Nat \cup {Absent}
      /\ d2.cursor \in Nat \cup {Absent} /\ Absent \notin Nat
      /\ Override \in Nat \cup {Absent}
  BY AbsentAssumption, OverrideAssumption DEF Job, Db, Phases
<1>2. /\ d2.cursor = IF kind \in {"override", "bootstrap"} THEN j.sv
                     ELSE IF kind = "advance" THEN j.next ELSE d.cursor
      /\ d2.overridden = IF kind = "override" THEN j.sv ELSE d.overridden
      /\ d2.last = IF kind = "commit" THEN j.count ELSE d.last
      /\ d2.backfill = IF kind = "progress" THEN "complete" ELSE d.backfill
  BY AppliedFields
<1>3. /\ Placed(j, s, d2, o2) /\ PageHeld(j, s, n) /\ CountHeld(j, s, d2, o2)
  BY DEF CursorHeld
<1>4. CASE kind \in {"override", "bootstrap"}
  <2>1. s \in {"override", "bootstrap"} /\ j.phase = "stream"
    BY <1>4, BatchSteps DEF PhaseFits
  <2>2. s2 = "page" /\ j2 = j /\ d2.cursor = j.sv /\ o2 = j.sv
    BY <1>2, <1>4 DEF AfterBatch, Forget, Entered
  <2> HIDE DEF s, s2, j2
  <2>3. CursorHeld(j2, s2, d2, o2, n)
    BY <1>1, <2>1, <2>2 DEF CursorHeld, Placed, PageHeld, CountHeld, InPage, CountSteps
  <2>4. PhaseFits(j2, s2) /\ ReachFits(j2, s2, d2, o2, n)
    BY <1>1, <2>1, <2>2 DEF PhaseFits, ReachFits, Reached
  <2>5. QED BY <2>3, <2>4 DEF s2, j2
<1>5. CASE kind = "initCache"
  <2>1. /\ s = "initCache" /\ j2 = j
        /\ s2 = IF j.phase = "stream"
                THEN IF "votes" \in j.todo THEN "state" ELSE "advance"
                ELSE IF j.count > 0 THEN "state" ELSE "progress"
    BY <1>5, BatchSteps DEF AfterBatch, Forget
  <2> HIDE DEF s, s2, j2
  <2>2. (s2 = "advance" => j.phase = "stream" /\ j.count = 0)
        /\ (s2 = "progress" => j.phase = "backfill" /\ j.count = 0)
        /\ s2 \in {"state", "advance", "progress"}
        /\ Goal(j, o2) <= j.count
    BY <1>1, <1>3, <2>1 DEF CountHeld, CountSteps
  <2>3. Goal(j, o2) \in Int
    BY <1>1 DEF Goal
  <2>4. CursorHeld(j2, s2, d2, o2, n)
    <3>1. Placed(j2, s2, d2, o2) /\ PageHeld(j2, s2, n)
      BY <1>1, <1>3, <2>1, <2>2 DEF Placed, PageHeld, InPage, CountSteps
    <3>2. CountHeld(j2, s2, d2, o2)
      BY <1>1, <2>1, <2>2, <2>3 DEF CountHeld, CountSteps
    <3>3. QED BY <3>1, <3>2 DEF CursorHeld
  <2>5. PhaseFits(j2, s2) /\ (Override = Absent => ReachFits(j2, s2, d2, o2, n))
    BY <1>1, <2>1, <2>2 DEF PhaseFits, ReachFits, s
  <2>6. QED BY <2>4, <2>5 DEF s2, j2
<1>6. CASE kind = "createState"
  <2>1. s = "state" /\ s2 = "readState" /\ j2 = j
    BY <1>6, BatchSteps DEF AfterBatch, Forget
  <2> HIDE DEF s, s2, j2
  <2>2. CursorHeld(j2, s2, d2, o2, n)
    BY <1>1, <1>3, <2>1 DEF CursorHeld, Placed, PageHeld, CountHeld, InPage, CountSteps
  <2>3. PhaseFits(j2, s2) /\ (Override = Absent => ReachFits(j2, s2, d2, o2, n))
    BY <1>1, <2>1 DEF PhaseFits, ReachFits, s
  <2>4. QED BY <2>2, <2>3 DEF s2, j2
<1>7. CASE kind \in {"markComputed", "commit"}
  <2>1. s \in {"mark", "commit"} /\ s2 = (IF j.phase = "stream" THEN "advance" ELSE "progress")
        /\ (kind = "commit" => s = "commit") /\ (kind # "commit" => s = "mark")
    BY <1>7, BatchSteps DEF AfterBatch
  <2>2. /\ j2.phase = j.phase /\ j2.sv = j.sv /\ j2.next = j.next /\ j2.full = j.full
        /\ j2.mark = j.mark
    BY <1>7 DEF Forget, JobInit
  <2> HIDE DEF s, s2, j2
  <2>3. Goal(j2, o2) <= d2.last
    BY <1>1, <1>2, <1>3, <1>7, <2>1, <2>2 DEF CountHeld, Goal, CountSteps
  <2>4. CursorHeld(j2, s2, d2, o2, n)
    <3>1. Placed(j2, s2, d2, o2) /\ PageHeld(j2, s2, n)
      BY <1>1, <1>3, <2>1, <2>2 DEF Placed, PageHeld, InPage, CountSteps
    <3>2. CountHeld(j2, s2, d2, o2)
      BY <1>1, <2>1, <2>2, <2>3 DEF CountHeld, CountSteps
    <3>3. QED BY <3>1, <3>2 DEF CursorHeld
  <2>5. PhaseFits(j2, s2) /\ (Override = Absent => ReachFits(j2, s2, d2, o2, n))
    BY <1>1, <2>1, <2>2 DEF PhaseFits, ReachFits, s
  <2>6. QED BY <2>4, <2>5 DEF s2, j2
<1>8. CASE kind = "advance"
  <2>1. s = "advance" /\ s2 = (IF j.full THEN "page" ELSE "backfill") /\ j.phase = "stream"
    BY <1>8, BatchSteps DEF AfterBatch, PhaseFits
  <2>2. j2.phase = "stream" /\ j2.sv = j.next /\ j2.mark = j.mark
    BY <1>8 DEF Forget, JobInit
  <2>3. d2.cursor = j.next
    BY <1>2, <1>8
  <2> HIDE DEF s, s2, j2
  <2>4. j.next - 1 <= d2.last /\ (~j.full => j.next = j.mark)
    BY <1>3, <2>1 DEF CountHeld, PageHeld, InPage, Goal
  <2>5. CursorHeld(j2, s2, d2, o2, n)
    BY <1>1, <2>1, <2>2, <2>3 DEF CursorHeld, Placed, PageHeld, CountHeld, InPage, CountSteps
  <2>6. PhaseFits(j2, s2) /\ ReachFits(j2, s2, d2, o2, n)
    BY <1>1, <2>1, <2>2, <2>4 DEF PhaseFits, ReachFits, Reached
  <2>7. QED BY <2>5, <2>6 DEF s2, j2
<1>9. CASE kind = "progress"
  <2>1. s = "progress" /\ s2 = "finalize" /\ j2 = j /\ j.phase = "backfill"
    BY <1>9, BatchSteps DEF AfterBatch, Forget, PhaseFits
  <2> HIDE DEF s, s2, j2
  <2>2. CursorHeld(j2, s2, d2, o2, n)
    BY <1>1, <1>3, <2>1 DEF CursorHeld, Placed, PageHeld, CountHeld, InPage, CountSteps
  <2>3. PhaseFits(j2, s2) /\ (Override = Absent => ReachFits(j2, s2, d2, o2, n))
    BY <1>1, <2>1 DEF PhaseFits, ReachFits, s
  <2>4. QED BY <2>2, <2>3 DEF s2, j2
<1>10. QED
  BY <1>4, <1>5, <1>6, <1>7, <1>8, <1>9 DEF BatchKinds
\* The number of ledger events, which never falls.
LEMMA EventsType ==
  ASSUME TypeOK
  PROVE  EventCount \in Nat /\ Len(votes) \in Nat /\ EventCount <= Len(votes) + 1
BY DEF TypeOK, EventCount

\* What a run has reached and holds is kept when votes arrive, and its reach when
\* others count more.
LEMMA ReachKept ==
  ASSUME NEW j \in Job, NEW s, NEW d \in Db, NEW d2 \in Db, NEW o \in Nat, NEW o2 \in Nat,
         NEW n \in Nat, NEW n2 \in Nat, n <= n2, d.last <= d2.last, o <= o2,
         ReachFits(j, s, d, o, n)
  PROVE  ReachFits(j, s, d2, o2, n2)
<1>1. j.sv \in Nat /\ j.mark \in Nat /\ d.last \in Nat /\ d2.last \in Nat
  BY DEF Job, Db
<1>2. \A sv \in Nat : Reached(sv, d, o) => Reached(sv, d2, o2)
  BY <1>1 DEF Reached
<1>3. QED BY <1>1, <1>2 DEF ReachFits

\* So is what it promises about the votes before the cursor.
LEMMA HeldKept ==
  ASSUME NEW j \in Job, NEW s, NEW d, NEW o, NEW n \in Nat, NEW n2 \in Nat, n <= n2,
         CursorHeld(j, s, d, o, n)
  PROVE  CursorHeld(j, s, d, o, n2)
<1>1. j.next \in Nat
  BY DEF Job
<1>2. PageHeld(j, s, n2)
  BY <1>1 DEF CursorHeld, PageHeld
<1>3. QED BY <1>2 DEF CursorHeld

\* A step of one run that leaves the cursor where no vote is skipped, and unless the
\* run owns the lease leaves the tables alone, needs a look only at that run.
LEMMA CursorRunStep ==
  ASSUME CursorInv, TypeOK', NEW r \in Runs, OnlyRun(r), UNCHANGED ledgerVars, CountPassesCursor',
         Override = Absent => EnteredOnce(db', origin', EventCount) /\ origin' >= origin,
         db'.last >= db.last,
         lease.owner # r => db' = db /\ origin' = origin,
         lease'.owner \in {lease.owner, NoRun, r},
         flying'[r] => pc'[r] \in {"wait", "release", "done", "dead"},
         PhaseFits(job'[r], At(r)'),
         Override = Absent => ReachFits(job'[r], At(r)', db', origin', EventCount),
         lease'.owner = r => CursorHeld(job'[r], At(r)', db', origin', EventCount)
  PROVE  CursorInv'
<1>1. FlyingOnlyWhenLeft' /\ EventCount' = EventCount /\ (votes' # <<>> => created')
  BY DEF CursorInv, FlyingOnlyWhenLeft, OnlyRun, EventCount
<1>2. ASSUME NEW q \in Runs
      PROVE  /\ PhaseFits(job'[q], At(q)')
             /\ Override = Absent => ReachFits(job'[q], At(q)', db', origin', EventCount)
             /\ lease'.owner = q => CursorHeld(job'[q], At(q)', db', origin', EventCount)
  <2>1. CASE q = r
    BY <2>1
  <2>2. CASE q # r
    <3>1. job'[q] = job[q] /\ At(q)' = At(q)
      BY <2>2 DEF OnlyRun, At
    <3>2. PhaseFits(job[q], At(q))
          /\ (Override = Absent => ReachFits(job[q], At(q), db, origin, EventCount))
          /\ (lease.owner = q => CursorHeld(job[q], At(q), db, origin, EventCount))
      BY DEF CursorInv
    <3>3. Override = Absent => ReachFits(job[q], At(q), db', origin', EventCount)
      <4>1. SUFFICES ASSUME Override = Absent
                     PROVE  ReachFits(job[q], At(q), db', origin', EventCount)
        OBVIOUS
      <4>2. /\ db \in Db /\ db' \in Db /\ origin \in Nat /\ origin' \in Nat /\ job[q] \in Job
            /\ EventCount \in Nat /\ db.last <= db'.last /\ origin <= origin'
        BY <4>1, EventsType DEF CursorInv, TypeOK, Db
      <4>3. EventCount <= EventCount
        BY <4>2
      <4>4. QED BY <3>2, <4>1, <4>2, <4>3, ReachKept
    <3>4. lease'.owner = q => lease.owner = q /\ db' = db /\ origin' = origin
      BY <2>2, RunsAssumption
    <3>5. QED BY <3>1, <3>2, <3>3, <3>4
  <2>3. QED BY <2>1, <2>2
<1>3. QED BY <1>1, <1>2 DEF CursorInv

\* The same for the steps that leave the tables alone.
LEMMA CursorQuietStep ==
  ASSUME CursorInv, TypeOK', NEW r \in Runs, OnlyRun(r), UNCHANGED <<created, votes, db, origin>>,
         lease'.owner \in {lease.owner, NoRun, r},
         flying'[r] => pc'[r] \in {"wait", "release", "done", "dead"},
         PhaseFits(job'[r], At(r)'),
         Override = Absent => ReachFits(job'[r], At(r)', db, origin, EventCount),
         lease'.owner = r => CursorHeld(job'[r], At(r)', db, origin, EventCount)
  PROVE  CursorInv'
<1>1. CountPassesCursor'
  BY DEF CursorInv, CountPassesCursor
<1>2. db'.last >= db.last /\ origin' >= origin
  BY DEF CursorInv, TypeOK, Db
<1>3. Override = Absent => EnteredOnce(db', origin', EventCount)
  BY DEF CursorInv
<1>4. QED BY <1>1, <1>2, <1>3, CursorRunStep

\* The facts about run r that its steps start from.
LEMMA CursorFacts ==
  ASSUME CursorInv, NEW r \in Runs
  PROVE  /\ TypeOK /\ job[r] \in Job /\ pc[r] \in PCs /\ req[r].kind \in BatchKinds
         /\ job[r].phase \in {"stream", "backfill"} /\ db.last \in Nat
         /\ job[r].sv \in Nat /\ job[r].next \in Nat /\ job[r].count \in Nat
         /\ job[r].mark \in Nat /\ db.cursor \in Nat \cup {Absent} /\ Absent \notin Nat
         /\ origin \in Nat /\ EventCount \in Nat /\ Len(votes) \in Nat
         /\ flying[r] => pc[r] \in {"wait", "release", "done", "dead"}
         /\ ~flying[r] => At(r) = pc[r]
         /\ PhaseFits(job[r], At(r))
         /\ Override = Absent => ReachFits(job[r], At(r), db, origin, EventCount)
         /\ lease.owner = r => CursorHeld(job[r], At(r), db, origin, EventCount)
BY EventsType, AbsentAssumption
DEF CursorInv, TypeOK, FlyingOnlyWhenLeft, Job, Req, Db, At, Phases

\* A run that keeps its job and leaves its work keeps what it needs to hold.
LEMMA LeavingFits ==
  ASSUME NEW j \in Job, NEW s, NEW s2 \in {"finalize", "release", "done", "dead"},
         NEW d, NEW o, NEW n,
         s2 = "finalize" => j.phase = "backfill" \/ s \in {"backfill", "finalize"}
  PROVE  /\ PhaseFits(j, s2)
         /\ ReachFits(j, s, d, o, n) => ReachFits(j, s2, d, o, n)
         /\ CursorHeld(j, s, d, o, n) => CursorHeld(j, s2, d, o, n)
<1>1. PhaseFits(j, s2)
  BY DEF PhaseFits
<1>2. ReachFits(j, s, d, o, n) => ReachFits(j, s2, d, o, n)
  BY DEF ReachFits
<1>3. CursorHeld(j, s, d, o, n) => CursorHeld(j, s2, d, o, n)
  BY DEF CursorHeld, Placed, PageHeld, CountHeld, InPage, CountSteps
<1>4. QED BY <1>1, <1>2, <1>3

\* A fresh job holds nothing before the cursor is read, nor once the run ended.
LEMMA FreshFits ==
  ASSUME NEW s \in {"idle", "cursor", "done"}, NEW d, NEW o, NEW n, NEW j, j.phase = "stream"
  PROVE  PhaseFits(j, s) /\ ReachFits(j, s, d, o, n) /\ CursorHeld(j, s, d, o, n)
<1>1. PhaseFits(j, s) /\ ReachFits(j, s, d, o, n)
  BY DEF PhaseFits, ReachFits
<1>2. CursorHeld(j, s, d, o, n)
  BY DEF CursorHeld, Placed, PageHeld, CountHeld, InPage, CountSteps
<1>3. QED BY <1>1, <1>2

\* A batch that reaches D1, executed or refused by the fence.
LEMMA CursorExecutes ==
  ASSUME CursorInv, TypeOK', NEW r \in Runs, flying[r], Executes(r)
  PROVE  /\ lease'.owner = lease.owner
         /\ FencePasses(r, req[r].live) => lease.owner = r
         /\ ~FencePasses(r, req[r].live) => db' = db /\ origin' = origin
         /\ CountPassesCursor'
         /\ Override = Absent => EnteredOnce(db', origin', EventCount) /\ origin' >= origin
         /\ db'.last >= db.last
         /\ lease.owner = r => CursorHeld(job[r], At(r), db', origin', EventCount)
         /\ FencePasses(r, req[r].live) =>
              /\ db' = Applied(db, req[r].kind, job[r])
              /\ origin' = Entered(req[r].kind, job[r], origin)
         /\ db.cursor # Absent /\ db'.cursor < db.cursor
              => db.overridden # Override /\ db'.overridden = Override
<1>1. /\ db \in Db /\ db' \in Db /\ origin \in Nat /\ origin' \in Nat /\ job[r] \in Job
      /\ req[r].kind \in BatchKinds /\ EventCount \in Nat /\ At(r) = BatchStep(req[r].kind)
      /\ TypeOK
  BY CursorFacts DEF TypeOK, At
<1>2. lease'.owner = lease.owner
  BY <1>1, ExecutesType
<1>3. CASE ~FencePasses(r, req[r].live)
  <2>1. db' = db /\ origin' = origin
    BY <1>3 DEF Executes
  <2>2. CountPassesCursor' /\ db'.last >= db.last /\ origin' >= origin
        /\ ~(db.cursor # Absent /\ db'.cursor < db.cursor)
    BY <1>1, <2>1, AbsentAssumption DEF CursorInv, CountPassesCursor, Db
  <2>3. QED BY <1>2, <1>3, <2>1, <2>2, CursorFacts DEF CursorInv
<1>4. CASE FencePasses(r, req[r].live)
  <2>1. /\ lease.owner = r /\ db' = Applied(db, req[r].kind, job[r])
        /\ origin' = Entered(req[r].kind, job[r], origin)
    BY <1>4 DEF Executes, FencePasses, Entered
  <2>2. /\ Counted(db, origin) /\ (Override = Absent => EnteredOnce(db, origin, EventCount))
        /\ PhaseFits(job[r], BatchStep(req[r].kind))
        /\ Override = Absent =>
             ReachFits(job[r], BatchStep(req[r].kind), db, origin, EventCount)
        /\ CursorHeld(job[r], BatchStep(req[r].kind), db, origin, EventCount)
    BY <1>1, <2>1 DEF CursorInv, CountPassesCursor, Counted
  <2>3. Override = Absent => req[r].kind # "override"
    <3>1. req[r].kind = "override" => job[r].sv = Override
      BY <2>2, BatchSteps DEF CursorHeld, Placed
    <3>2. QED BY <1>1, <3>1, AbsentAssumption DEF Job
  <2>4. /\ Counted(db', origin')
        /\ Override = Absent => EnteredOnce(db', origin', EventCount) /\ origin' >= origin
        /\ db'.last >= db.last
        /\ CursorHeld(job[r], BatchStep(req[r].kind), db', origin', EventCount)
        /\ db.cursor # Absent /\ db'.cursor < db.cursor
             => db.overridden # Override /\ db'.overridden = Override
    BY <1>1, <2>1, <2>2, <2>3, CursorBatch
  <2>5. CountPassesCursor'
    BY <2>4 DEF Counted, CountPassesCursor
  <2>6. QED BY <1>1, <1>2, <1>4, <2>1, <2>4, <2>5
<1>5. QED BY <1>3, <1>4

\* The run's own reach after its batch reached D1.
LEMMA ReachAfterBatch ==
  ASSUME CursorInv, TypeOK', NEW r \in Runs, flying[r], Executes(r), Override = Absent
  PROVE  ReachFits(job[r], At(r), db', origin', EventCount)
<1>1. /\ db \in Db /\ db' \in Db /\ origin \in Nat /\ origin' \in Nat /\ job[r] \in Job
      /\ EventCount \in Nat /\ ReachFits(job[r], At(r), db, origin, EventCount)
  BY CursorFacts DEF TypeOK
<1>2. db.last <= db'.last /\ origin <= origin' /\ EventCount <= EventCount
  BY <1>1, CursorExecutes DEF Db
<1>3. QED BY <1>1, <1>2, ReachKept

\* The answer to a batch: what it took in is counted, or the run leaves the drain.
LEMMA CursorAnswered ==
  ASSUME CursorInv, TypeOK', NEW r \in Runs, BatchAnswered(r)
  PROVE  CursorInv'
<1> DEFINE j == job[r]
           kind == req[r].kind
           n == EventCount
<1>1. /\ OnlyRun(r) /\ UNCHANGED ledgerVars /\ flying[r] /\ ~flying'[r] /\ Executes(r)
      /\ pc'[r] = IF FencePasses(r, req[r].live) THEN AfterBatch(j, kind) ELSE AfterFailure(j)
      /\ job'[r] = IF FencePasses(r, req[r].live) THEN Forget(j, kind) ELSE j
  BY DEF BatchAnswered, OnlyRun, Goto, CursorInv, TypeOK
<1>2. /\ j \in Job /\ kind \in BatchKinds /\ db \in Db /\ db' \in Db /\ origin \in Nat
      /\ origin' \in Nat /\ n \in Nat /\ At(r) = BatchStep(kind) /\ At(r)' = pc'[r]
  BY <1>1, CursorFacts DEF TypeOK, At
<1>3. /\ CountPassesCursor' /\ db'.last >= db.last /\ lease'.owner = lease.owner
      /\ Override = Absent => EnteredOnce(db', origin', n) /\ origin' >= origin
      /\ lease.owner # r => db' = db /\ origin' = origin
  BY <1>1, CursorExecutes
<1>4. /\ PhaseFits(j, BatchStep(kind))
      /\ Override = Absent => ReachFits(j, BatchStep(kind), db', origin', n)
      /\ lease.owner = r => CursorHeld(j, BatchStep(kind), db', origin', n)
  BY <1>1, <1>2, CursorFacts, CursorExecutes, ReachAfterBatch
<1> HIDE DEF j, kind, n
<1>5. /\ PhaseFits(job'[r], At(r)')
      /\ Override = Absent => ReachFits(job'[r], At(r)', db', origin', n)
      /\ lease'.owner = r => CursorHeld(job'[r], At(r)', db', origin', n)
  <2>1. CASE FencePasses(r, req[r].live)
    <3>1. lease.owner = r /\ db' = Applied(db, kind, j) /\ origin' = Entered(kind, j, origin)
      BY <1>1, <2>1, CursorExecutes DEF kind, j
    <3>2. /\ PhaseFits(Forget(j, kind), AfterBatch(j, kind))
          /\ Override = Absent =>
               ReachFits(Forget(j, kind), AfterBatch(j, kind), db', origin', n)
          /\ CursorHeld(Forget(j, kind), AfterBatch(j, kind), db', origin', n)
      BY <1>2, <1>4, <3>1, CursorBatchDone
    <3>3. QED BY <1>1, <1>2, <2>1, <3>2
  <2>2. CASE ~FencePasses(r, req[r].live)
    <3>1. job'[r] = j /\ At(r)' = AfterFailure(j)
      BY <1>1, <1>2, <2>2
    <3>2. /\ AfterFailure(j) \in {"finalize", "release", "done", "dead"}
          /\ AfterFailure(j) = "finalize" => j.phase = "backfill"
      BY DEF AfterFailure
    <3>3. QED BY <1>2, <1>3, <1>4, <3>1, <3>2, LeavingFits
  <2>3. QED BY <2>1, <2>2
<1>6. QED BY <1>1, <1>3, <1>5, CursorRunStep DEF n

\* A batch that fails on its way, executed or not, is tried again or ends the drain.
LEMMA CursorFails ==
  ASSUME CursorInv, TypeOK', NEW r \in Runs, BatchFails(r)
  PROVE  CursorInv'
<1>1. /\ OnlyRun(r) /\ UNCHANGED ledgerVars /\ job' = job /\ flying[r]
      /\ Executes(r) \/ NotExecuted
      /\ \/ pc'[r] = "wait" /\ flying'[r] /\ req'[r].kind = req[r].kind
         \/ pc'[r] = AfterFailure(job[r]) /\ ~flying'[r]
  <2>1. CASE req[r].retries < MaxRetries
    <3>1. req' = [req EXCEPT ![r] = [req[r] EXCEPT !.retries = @ + 1]] /\ UNCHANGED <<pc, flying>>
          /\ pc[r] = "wait"
      BY <2>1 DEF BatchFails, Waiting
    <3>2. req'[r].kind = req[r].kind /\ OnlyRun(r)
      BY <2>1, <3>1, CursorFacts DEF OnlyRun, TypeOK, Req, BatchFails
    <3>3. QED BY <3>1, <3>2 DEF BatchFails
  <2>2. CASE ~(req[r].retries < MaxRetries)
    BY <2>2, CursorFacts DEF BatchFails, OnlyRun, Goto, TypeOK
  <2>3. QED BY <2>1, <2>2
<1>2. /\ CountPassesCursor' /\ db'.last >= db.last /\ lease'.owner = lease.owner
      /\ Override = Absent => EnteredOnce(db', origin', EventCount) /\ origin' >= origin
      /\ lease.owner # r => db' = db /\ origin' = origin
      /\ PhaseFits(job[r], At(r))
      /\ Override = Absent => ReachFits(job[r], At(r), db', origin', EventCount)
      /\ lease.owner = r => CursorHeld(job[r], At(r), db', origin', EventCount)
  <2>1. CASE Executes(r)
    BY <1>1, <2>1, CursorFacts, CursorExecutes, ReachAfterBatch
  <2>2. CASE NotExecuted
    <3>1. db' = db /\ lease' = lease /\ origin' = origin
      BY <2>2 DEF NotExecuted
    <3>2. CountPassesCursor' /\ db'.last >= db.last /\ origin' >= origin
      BY <3>1, CursorFacts DEF CursorInv, CountPassesCursor
    <3>3. QED BY <3>1, <3>2, CursorFacts DEF CursorInv
  <2>3. QED BY <1>1, <2>1, <2>2
<1>3. /\ flying'[r] => pc'[r] = "wait"
      /\ PhaseFits(job[r], At(r)')
      /\ Override = Absent => ReachFits(job[r], At(r)', db', origin', EventCount)
      /\ lease'.owner = r => CursorHeld(job[r], At(r)', db', origin', EventCount)
  <2>1. CASE pc'[r] = "wait" /\ flying'[r] /\ req'[r].kind = req[r].kind
    <3>1. At(r)' = At(r)
      BY <1>1, <2>1 DEF At
    <3>2. QED BY <1>2, <2>1, <3>1
  <2>2. CASE pc'[r] = AfterFailure(job[r]) /\ ~flying'[r]
    <3>1. At(r)' = AfterFailure(job[r])
      BY <2>2 DEF At
    <3>2. /\ AfterFailure(job[r]) \in {"finalize", "release", "done", "dead"}
          /\ AfterFailure(job[r]) = "finalize" => job[r].phase = "backfill"
      BY DEF AfterFailure
    <3>3. job[r] \in Job
      BY CursorFacts
    <3>4. QED BY <1>2, <2>2, <3>1, <3>2, <3>3, LeavingFits
  <2>3. QED BY <1>1, <2>1, <2>2
<1>4. QED BY <1>1, <1>2, <1>3, CursorRunStep

\* A batch that lands late finds its run gone, or gone from the drain.
LEMMA CursorLandsLate ==
  ASSUME CursorInv, TypeOK', NEW r \in Runs, BatchLandsLate(r)
  PROVE  CursorInv'
<1>1. /\ OnlyRun(r) /\ UNCHANGED ledgerVars /\ job' = job /\ pc' = pc /\ flying[r] /\ ~flying'[r]
      /\ pc[r] \in {"release", "done", "dead"} /\ At(r)' = pc[r]
      /\ Executes(r) \/ NotExecuted
  BY CursorFacts DEF BatchLandsLate, OnlyRun, TypeOK, Waiting, At
<1>2. /\ CountPassesCursor' /\ db'.last >= db.last /\ lease'.owner = lease.owner
      /\ Override = Absent => EnteredOnce(db', origin', EventCount) /\ origin' >= origin
      /\ lease.owner # r => db' = db /\ origin' = origin
      /\ Override = Absent => ReachFits(job[r], At(r), db', origin', EventCount)
      /\ lease.owner = r => CursorHeld(job[r], At(r), db', origin', EventCount)
  <2>1. CASE Executes(r)
    BY <1>1, <2>1, CursorFacts, CursorExecutes, ReachAfterBatch
  <2>2. CASE NotExecuted
    <3>1. db' = db /\ lease' = lease /\ origin' = origin
      BY <2>2 DEF NotExecuted
    <3>2. CountPassesCursor' /\ db'.last >= db.last /\ origin' >= origin
      BY <3>1, CursorFacts DEF CursorInv, CountPassesCursor
    <3>3. QED BY <3>1, <3>2, CursorFacts DEF CursorInv
  <2>3. QED BY <1>1, <2>1, <2>2
<1>3. /\ PhaseFits(job[r], At(r)')
      /\ Override = Absent => ReachFits(job[r], At(r)', db', origin', EventCount)
      /\ lease'.owner = r => CursorHeld(job[r], At(r)', db', origin', EventCount)
  <2>1. job[r] \in Job
    BY CursorFacts
  <2>2. QED BY <1>1, <1>2, <2>1, LeavingFits
<1>4. QED BY <1>1, <1>2, <1>3, CursorRunStep

\* A run that reads a page and the count of the entity's votes knows how many votes
\* its page asks for.
LEMMA CursorFetchPage ==
  ASSUME CursorInv, TypeOK', NEW r \in Runs, FetchPage(r)
  PROVE  CursorInv'
<1> DEFINE j == job[r]
           n == EventCount
<1>1. /\ OnlyRun(r) /\ UNCHANGED <<created, votes, db, origin, lease, flying>>
      /\ pc[r] = "page" /\ ~flying[r] /\ At(r) = "page" /\ At(r)' = pc'[r]
  BY CursorFacts DEF FetchPage, OnlyRun, Goto, TypeOK, At
<1>2. /\ j \in Job /\ j.phase = "stream" /\ j.sv \in Nat /\ n \in Nat /\ db.last \in Nat
      /\ origin \in Nat /\ Absent \notin Nat
      /\ Override = Absent => Reached(j.sv, db, origin)
      /\ lease.owner = r => db.cursor = j.sv
  BY <1>1, CursorFacts DEF PhaseFits, ReachFits, CursorHeld, Placed
<1>3. CASE j.sv >= n
  <2>1. job'[r] = [j EXCEPT !.mark = n] /\ pc'[r] = "backfill"
    BY <1>3, CursorFacts DEF FetchPage, Goto, TypeOK
  <2> HIDE DEF j, n
  <2>2. job'[r].phase = "stream" /\ job'[r].mark = n
    BY <1>2, <2>1 DEF Job
  <2>3. PhaseFits(job'[r], At(r)')
    BY <1>1, <2>1, <2>2 DEF PhaseFits
  <2>4. Override = Absent => ReachFits(job'[r], At(r)', db, origin, n)
    BY <1>1, <1>2, <1>3, <2>1, <2>2 DEF ReachFits, Reached
  <2>5. lease'.owner = r => CursorHeld(job'[r], At(r)', db, origin, n)
    BY <1>1, <1>2, <2>1, <2>2
    DEF CursorHeld, Placed, PageHeld, CountHeld, InPage, CountSteps
  <2>6. QED BY <1>1, <2>3, <2>4, <2>5, CursorQuietStep DEF n
<1>4. CASE ~(j.sv >= n)
  <2> DEFINE end == PageEnd(j.sv)
             todo == (IF j.sv = 0 THEN {"created"} ELSE {})
                       \cup (IF end > 1 THEN {"votes"} ELSE {})
             full == (end = j.sv + PageSize)
  <2>1. job'[r] = [j EXCEPT !.mark = n, !.next = end, !.full = full, !.todo = todo]
        /\ pc'[r] = "events"
    BY <1>4, CursorFacts DEF FetchPage, Goto, TypeOK
  <2>2. /\ end \in Nat /\ end <= n /\ j.sv < end
        /\ end # j.sv + PageSize => end = n
    BY <1>2, <1>4, BoundsAssumption DEF PageEnd
  <2>3. "votes" \in todo \/ (end <= 1 /\ "created" \in todo)
    BY <1>2, <2>2
  <2>4. ~full => end = n
    BY <2>2
  <2> HIDE DEF j, n, end, todo, full
  <2>5. /\ job'[r].phase = "stream" /\ job'[r].mark = n /\ job'[r].next = end
        /\ job'[r].full = full /\ job'[r].todo = todo /\ job'[r].sv = j.sv
    BY <1>2, <2>1 DEF Job
  <2>6. PhaseFits(job'[r], At(r)')
    BY <1>1, <2>1, <2>5 DEF PhaseFits
  <2>7. ReachFits(job'[r], At(r)', db, origin, n)
    BY <1>1, <2>1, <2>5 DEF ReachFits
  <2>8. lease'.owner = r => CursorHeld(job'[r], At(r)', db, origin, n)
    <3>1. SUFFICES ASSUME lease.owner = r
                   PROVE  CursorHeld(job'[r], "events", db, origin, n)
      BY <1>1, <2>1
    <3>2. Placed(job'[r], "events", db, origin)
      BY <1>2, <2>5, <3>1 DEF Placed, InPage, CountSteps
    <3>3. PageHeld(job'[r], "events", n)
      BY <2>2, <2>3, <2>4, <2>5 DEF PageHeld, InPage, CountSteps
    <3>4. CountHeld(job'[r], "events", db, origin)
      BY DEF CountHeld, CountSteps
    <3>5. QED BY <3>2, <3>3, <3>4 DEF CursorHeld
  <2>9. QED BY <1>1, <2>6, <2>7, <2>8, CursorQuietStep DEF n
<1>5. QED BY <1>3, <1>4

\* The run looks at a page of events and how many votes there are.
LEMMA CursorProcessEvents ==
  ASSUME CursorInv, TypeOK', NEW r \in Runs, ProcessEvents(r)
  PROVE  CursorInv'
<1> DEFINE j == job[r]
<1>1. /\ OnlyRun(r) /\ UNCHANGED <<created, votes, db, origin, lease, flying>>
      /\ pc[r] = "events" /\ ~flying[r] /\ At(r) = "events" /\ At(r)' = pc'[r]
      /\ job'[r] = [j EXCEPT !.count = IF "votes" \in j.todo THEN Len(votes) ELSE 0]
      /\ pc'[r] = IF "created" \in j.todo THEN "initCache" ELSE "state"
  BY CursorFacts DEF ProcessEvents, OnlyRun, Goto, TypeOK, At
<1>2. /\ j \in Job /\ j.phase = "stream" /\ j.sv \in Nat /\ j.next \in Nat
      /\ EventCount <= Len(votes) + 1 /\ Len(votes) \in Nat
      /\ EventCount \in Nat
  BY <1>1, CursorFacts, EventsType DEF PhaseFits
<1> HIDE DEF j
<1>3. /\ job'[r].phase = "stream" /\ job'[r].sv = j.sv /\ job'[r].next = j.next
      /\ job'[r].full = j.full /\ job'[r].mark = j.mark /\ job'[r].todo = j.todo
      /\ job'[r].count = (IF "votes" \in j.todo THEN Len(votes) ELSE 0)
  BY <1>1, <1>2 DEF Job
<1>4. PhaseFits(job'[r], At(r)') /\ ReachFits(job'[r], At(r)', db, origin, EventCount)
  BY <1>1, <1>3 DEF PhaseFits, ReachFits
<1>5. lease'.owner = r => CursorHeld(job'[r], At(r)', db, origin, EventCount)
  <2>1. SUFFICES ASSUME lease.owner = r
                 PROVE  CursorHeld(job'[r], At(r)', db, origin, EventCount)
    BY <1>1
  <2>2. Placed(j, "events", db, origin) /\ PageHeld(j, "events", EventCount)
    BY <1>1, <2>1, CursorFacts DEF CursorHeld, j
  <2>3. /\ db.cursor = j.sv /\ j.sv < j.next /\ (~j.full => j.next = j.mark)
        /\ j.next <= EventCount /\ ("votes" \in j.todo \/ (j.next <= 1 /\ "created" \in j.todo))
    BY <2>2 DEF Placed, PageHeld, InPage
  <2>4. Placed(job'[r], At(r)', db, origin) /\ PageHeld(job'[r], At(r)', EventCount)
    BY <1>1, <1>3, <2>3 DEF Placed, PageHeld, InPage
  <2>5. CountHeld(job'[r], At(r)', db, origin)
    BY <1>1, <1>2, <1>3, <2>3 DEF CountHeld, Goal, CountSteps
  <2>6. QED BY <2>4, <2>5 DEF CursorHeld
<1>6. QED BY <1>1, <1>4, <1>5, CursorQuietStep
\* The cursor is read, moved by an override, or placed where the ledger is now.
LEMMA CursorRead ==
  ASSUME CursorInv, TypeOK', NEW r \in Runs,
         ApplyOverride(r) \/ ReadCursor(r) \/ BootstrapCursor(r)
  PROVE  CursorInv'
<1> DEFINE j == job[r]
           n == EventCount
<1>1. /\ OnlyRun(r) /\ UNCHANGED <<created, votes, db, origin, lease>>
      /\ pc[r] = "cursor" /\ ~flying[r] /\ At(r) = "cursor"
  BY CursorFacts DEF ApplyOverride, ReadCursor, BootstrapCursor, Send, OnlyRun, Goto, TypeOK
<1>2. /\ j \in Job /\ j.phase = "stream" /\ n \in Nat /\ db.last \in Nat
      /\ origin \in Nat /\ Absent \notin Nat
  BY <1>1, CursorFacts DEF PhaseFits
<1>3. PICK sv : job'[r] = [j EXCEPT !.sv = sv]
                /\ (ApplyOverride(r) => sv = Override)
                /\ (ReadCursor(r) => sv = db.cursor)
                /\ (BootstrapCursor(r) => sv \in Nat /\ sv <= n)
  <2>1. CASE ApplyOverride(r)
    <3>1. job'[r] = [j EXCEPT !.sv = Override] /\ ~ReadCursor(r) /\ ~BootstrapCursor(r)
      BY <2>1, CursorFacts DEF ApplyOverride, ReadCursor, BootstrapCursor, TypeOK
    <3>2. QED BY <3>1
  <2>2. CASE ReadCursor(r)
    <3>1. job'[r] = [j EXCEPT !.sv = db.cursor] /\ ~ApplyOverride(r) /\ ~BootstrapCursor(r)
      BY <2>2, CursorFacts DEF ApplyOverride, ReadCursor, BootstrapCursor, TypeOK
    <3>2. QED BY <3>1
  <2>3. CASE BootstrapCursor(r)
    <3>1. PICK s \in Nat \cap ((EventCount - 1)..EventCount) :
            job' = [job EXCEPT ![r].sv = s]
      BY <2>3 DEF BootstrapCursor
    <3>2. job'[r] = [j EXCEPT !.sv = s] /\ ~ApplyOverride(r) /\ ~ReadCursor(r)
      BY <2>3, <3>1, CursorFacts DEF ApplyOverride, ReadCursor, BootstrapCursor, TypeOK
    <3>3. s \in Nat /\ s <= n
      BY <1>2, <3>1
    <3>4. QED BY <3>2, <3>3
  <2>4. QED BY <2>1, <2>2, <2>3
<1> HIDE DEF j, n
<1>4. job'[r].sv = sv /\ job'[r].phase = "stream"
  BY <1>2, <1>3 DEF Job
<1>5. CASE ApplyOverride(r)
  <2>1. At(r)' = "override" /\ pc'[r] = "wait" /\ db.overridden # Override
    BY <1>5, CursorFacts, BatchSteps DEF ApplyOverride, Send, Goto, At, TypeOK
  <2>2. PhaseFits(job'[r], "override") /\ ReachFits(job'[r], "override", db, origin, n)
    BY <1>4 DEF PhaseFits, ReachFits
  <2>3. CursorHeld(job'[r], "override", db, origin, n)
    BY <1>3, <1>4, <1>5, <2>1
    DEF CursorHeld, Placed, PageHeld, CountHeld, InPage, CountSteps
  <2>4. QED BY <1>1, <2>1, <2>2, <2>3, CursorQuietStep DEF n
<1>6. CASE ReadCursor(r)
  <2>1. At(r)' = "page" /\ pc'[r] = "page" /\ db.cursor # Absent /\ ~flying'[r]
    BY <1>1, <1>6, CursorFacts DEF ReadCursor, Goto, At, TypeOK
  <2>2. PhaseFits(job'[r], "page")
    BY <1>4 DEF PhaseFits
  <2>3. ReachFits(job'[r], "page", db, origin, n)
    <3>1. Reached(sv, db, origin)
      BY <1>2, <1>3, <1>6, <2>1, CursorFacts DEF Reached, CursorInv, CountPassesCursor
    <3>2. QED BY <1>4, <3>1 DEF ReachFits
  <2>4. CursorHeld(job'[r], "page", db, origin, n)
    BY <1>3, <1>4, <1>6
    DEF CursorHeld, Placed, PageHeld, CountHeld, InPage, CountSteps
  <2>5. QED BY <1>1, <2>1, <2>2, <2>3, <2>4, CursorQuietStep DEF n
<1>7. CASE BootstrapCursor(r)
  <2>1. At(r)' = "bootstrap" /\ pc'[r] = "wait" /\ db.cursor = Absent
    BY <1>7, CursorFacts, BatchSteps DEF BootstrapCursor, Send, Goto, At, TypeOK
  <2>2. PhaseFits(job'[r], "bootstrap") /\ ReachFits(job'[r], "bootstrap", db, origin, n)
    BY <1>3, <1>4, <1>7 DEF PhaseFits, ReachFits
  <2>3. Override = Absent => db.backfill = "pending"
    BY <2>1 DEF CursorInv, EnteredOnce
  <2>4. sv # Absent
    BY <1>2, <1>3, <1>7
  <2>5. CursorHeld(job'[r], "bootstrap", db, origin, n)
    BY <1>3, <1>4, <1>7, <2>1, <2>3, <2>4
    DEF CursorHeld, Placed, PageHeld, CountHeld, InPage, CountSteps
  <2>6. QED BY <1>1, <2>1, <2>2, <2>5, CursorQuietStep DEF n
<1>8. QED BY <1>5, <1>6, <1>7

\* Sending a batch leaves a run at the step it sends it from.
LEMMA CursorSendStep ==
  ASSUME CursorInv, TypeOK', NEW r \in Runs, SendStep(r)
  PROVE  CursorInv'
<1>1. /\ OnlyRun(r) /\ UNCHANGED <<created, votes, db, origin, lease, job>>
      /\ pc'[r] = "wait"
  BY CursorFacts DEF SendStep, Send, OnlyRun, Goto, TypeOK
<1>2. At(r)' = At(r)
  <2>1. PICK kind \in BatchKinds :
          /\ <<pc[r], kind>> \in {<<"initCache", "initCache">>, <<"state", "createState">>,
                 <<"mark", "markComputed">>, <<"commit", "commit">>,
                 <<"advance", "advance">>, <<"progress", "progress">>}
          /\ Send(r, kind)
    BY DEF SendStep
  <2>2. pc[r] = BatchStep(kind) /\ pc[r] \notin {"wait", "release", "done", "dead"}
    BY <2>1, BatchSteps
  <2>3. At(r) = BatchStep(kind)
    BY <2>2, CursorFacts DEF At
  <2>4. flying'[r] /\ req'[r].kind = kind
    BY <2>1, CursorFacts DEF Send, TypeOK
  <2>5. QED BY <2>3, <2>4 DEF At
<1>3. QED BY <1>1, <1>2, CursorFacts, CursorQuietStep

\* The stored count read from D1 decides whether there is anything left to count.
LEMMA CursorReadState ==
  ASSUME CursorInv, TypeOK', NEW r \in Runs, ReadState(r)
  PROVE  CursorInv'
<1> DEFINE j == job[r]
           s2 == IF j.count > db.last THEN "fetch"
                 ELSE IF db.state # "computed" THEN "mark"
                 ELSE IF j.phase = "stream" THEN "advance" ELSE "progress"
<1>1. /\ OnlyRun(r) /\ UNCHANGED <<created, votes, db, origin, lease, flying>>
      /\ pc[r] = "readState" /\ ~flying[r] /\ At(r) = "readState" /\ At(r)' = pc'[r]
      /\ job'[r] = [j EXCEPT !.last = db.last] /\ pc'[r] = s2
  BY CursorFacts DEF ReadState, OnlyRun, Goto, TypeOK, At, AfterBatch
<1>2. /\ j \in Job /\ j.phase \in {"stream", "backfill"} /\ j.count \in Nat /\ db.last \in Nat
      /\ j.next \in Nat /\ origin \in Nat
      /\ PhaseFits(j, "readState")
      /\ Override = Absent => ReachFits(j, "readState", db, origin, EventCount)
      /\ lease.owner = r => CursorHeld(j, "readState", db, origin, EventCount)
  BY <1>1, CursorFacts
<1>3. /\ s2 \in {"fetch", "mark", "advance", "progress"}
      /\ s2 = "fetch" <=> j.count > db.last
      /\ s2 = "advance" => j.phase = "stream"
      /\ s2 = "progress" => j.phase # "stream"
  OBVIOUS
<1> HIDE DEF j, s2
<1>4. /\ job'[r].phase = j.phase /\ job'[r].sv = j.sv /\ job'[r].next = j.next
      /\ job'[r].full = j.full /\ job'[r].mark = j.mark /\ job'[r].count = j.count
  BY <1>1, <1>2 DEF Job
<1>5. PhaseFits(job'[r], s2)
  BY <1>2, <1>3, <1>4 DEF PhaseFits
<1>6. Override = Absent => ReachFits(job'[r], s2, db, origin, EventCount)
  BY <1>2, <1>3, <1>4 DEF ReachFits
<1>7. lease.owner = r => CursorHeld(job'[r], s2, db, origin, EventCount)
  <2>1. SUFFICES ASSUME lease.owner = r
                 PROVE  CursorHeld(job'[r], s2, db, origin, EventCount)
    OBVIOUS
  <2>2. /\ Placed(j, "readState", db, origin) /\ PageHeld(j, "readState", EventCount)
        /\ Goal(j, origin) <= j.count
    BY <1>2, <2>1 DEF CursorHeld, CountHeld, CountSteps
  <2>3. Placed(job'[r], s2, db, origin) /\ PageHeld(job'[r], s2, EventCount)
    BY <1>3, <1>4, <2>2 DEF Placed, PageHeld, InPage, CountSteps
  <2>4. Goal(job'[r], origin) = Goal(j, origin) /\ Goal(j, origin) \in Int
    BY <1>2, <1>4 DEF Goal
  <2>5. CountHeld(job'[r], s2, db, origin)
    BY <1>2, <1>3, <1>4, <2>2, <2>4 DEF CountHeld, CountSteps
  <2>6. QED BY <2>3, <2>5 DEF CursorHeld
<1>8. QED BY <1>1, <1>5, <1>6, <1>7, CursorQuietStep

\* Fetching, classifying and adding up move a run on with the count it goes for.
LEMMA CursorCounting ==
  ASSUME CursorInv, TypeOK', NEW r \in Runs,
         FetchVotes(r) \/ ClassifyVotes(r) \/ ReadAggregates(r)
  PROVE  CursorInv'
<1> DEFINE j == job[r]
<1>1. /\ OnlyRun(r) /\ UNCHANGED <<created, votes, db, origin, lease, flying>>
      /\ ~flying[r] /\ At(r) = pc[r] /\ At(r)' = pc'[r]
      /\ \/ pc[r] = "fetch" /\ pc'[r] = "classify"
         \/ pc[r] = "classify" /\ pc'[r] = "aggregate"
         \/ pc[r] = "aggregate" /\ pc'[r] = "commit"
         \/ pc[r] = "aggregate" /\ pc'[r] = AfterFailure(j)
  BY CursorFacts DEF FetchVotes, ClassifyVotes, ReadAggregates, OnlyRun, Goto, TypeOK, At
<1>2. /\ job'[r].phase = j.phase /\ job'[r].sv = j.sv /\ job'[r].next = j.next
      /\ job'[r].full = j.full /\ job'[r].mark = j.mark /\ job'[r].count = j.count
  <2>1. CASE FetchVotes(r)
    <3>1. PICK x, y : job'[r] = [j EXCEPT !.fetched = x, !.upto = y]
      BY <2>1, CursorFacts DEF FetchVotes, TypeOK
    <3> HIDE DEF j
    <3>2. QED BY <3>1, CursorFacts DEF Job, j
  <2>2. CASE ClassifyVotes(r)
    BY <2>2, CursorFacts DEF ClassifyVotes, TypeOK, Job
  <2>3. CASE ReadAggregates(r)
    <3>1. job'[r] = j \/ \E x : job'[r] = [j EXCEPT !.agg = x]
      BY <2>3, CursorFacts DEF ReadAggregates, TypeOK
    <3>2. j \in Job
      BY CursorFacts
    <3> HIDE DEF j
    <3>3. QED BY <3>1, <3>2 DEF Job
  <2>4. QED BY <2>1, <2>2, <2>3
<1>3. /\ j \in Job /\ j.phase \in {"stream", "backfill"} /\ j.count \in Nat /\ db.last \in Nat
      /\ j.next \in Nat /\ origin \in Nat
      /\ PhaseFits(j, pc[r])
      /\ Override = Absent => ReachFits(j, pc[r], db, origin, EventCount)
      /\ lease.owner = r => CursorHeld(j, pc[r], db, origin, EventCount)
  BY <1>1, CursorFacts
<1> HIDE DEF j
<1>4. CASE pc'[r] \in {"classify", "aggregate", "commit"}
  <2>1. PhaseFits(job'[r], pc'[r])
    BY <1>4 DEF PhaseFits
  <2>2. Override = Absent => ReachFits(job'[r], pc'[r], db, origin, EventCount)
    BY <1>2, <1>3, <1>4 DEF ReachFits
  <2>3. lease.owner = r => CursorHeld(job'[r], pc'[r], db, origin, EventCount)
    <3>1. SUFFICES ASSUME lease.owner = r
                   PROVE  CursorHeld(job'[r], pc'[r], db, origin, EventCount)
      OBVIOUS
    <3>2. pc[r] \in {"fetch", "classify", "aggregate"}
      BY <1>1
    <3>3. /\ Placed(j, pc[r], db, origin) /\ PageHeld(j, pc[r], EventCount)
          /\ Goal(j, origin) <= j.count /\ db.last < j.count
      BY <1>3, <3>1, <3>2 DEF CursorHeld, CountHeld, CountSteps
    <3>4. Placed(job'[r], pc'[r], db, origin) /\ PageHeld(job'[r], pc'[r], EventCount)
      BY <1>2, <1>4, <3>2, <3>3 DEF Placed, PageHeld, InPage, CountSteps
    <3>5. CountHeld(job'[r], pc'[r], db, origin)
      BY <1>2, <1>3, <1>4, <3>3 DEF CountHeld, CountSteps, Goal
    <3>6. QED BY <3>4, <3>5 DEF CursorHeld
  <2>4. QED BY <1>1, <2>1, <2>2, <2>3, CursorQuietStep
<1>5. CASE pc'[r] = AfterFailure(j)
  <2>1. /\ AfterFailure(j) \in {"finalize", "release", "done", "dead"}
        /\ AfterFailure(j) = "finalize" => j.phase = "backfill"
    BY DEF AfterFailure
  <2>2. /\ PhaseFits(j, pc'[r])
        /\ Override = Absent => ReachFits(j, pc'[r], db, origin, EventCount)
        /\ lease.owner = r => CursorHeld(j, pc'[r], db, origin, EventCount)
    BY <1>3, <1>5, <2>1, LeavingFits
  <2>3. PhaseFits(job'[r], pc'[r])
    BY <1>2, <2>2 DEF PhaseFits
  <2>4. Override = Absent => ReachFits(job'[r], pc'[r], db, origin, EventCount)
    BY <1>2, <2>2 DEF ReachFits
  <2>5. lease.owner = r => CursorHeld(job'[r], pc'[r], db, origin, EventCount)
    BY <1>2, <1>5, <2>1, <2>2
    DEF CursorHeld, Placed, PageHeld, CountHeld, InPage, CountSteps
  <2>6. QED BY <1>1, <1>5, <2>1, <2>3, <2>4, <2>5, CursorQuietStep
<1>6. QED BY <1>1, <1>4, <1>5

\* The backfill counts what is older than the place the stream was entered at.
LEMMA CursorBackfill ==
  ASSUME CursorInv, TypeOK', NEW r \in Runs, StartBackfill(r) \/ ListEntities(r)
  PROVE  CursorInv'
<1> DEFINE j == job[r]
           n == EventCount
<1>1. /\ OnlyRun(r) /\ UNCHANGED <<created, votes, db, origin, lease, flying>>
      /\ ~flying[r] /\ At(r) = pc[r] /\ At(r)' = pc'[r]
      /\ \/ pc[r] = "backfill" /\ pc'[r] = "finalize" /\ job'[r] = j
         \/ pc[r] = "backfill" /\ pc'[r] = "list" /\ job'[r] = [j EXCEPT !.phase = "backfill"]
         \/ pc[r] = "list" /\ pc'[r] = "initCache" /\ job'[r] = [j EXCEPT !.count = Len(votes)]
         \/ /\ pc[r] = "list" /\ pc'[r] = "progress" /\ ~created
            /\ job'[r] = [j EXCEPT !.count = Len(votes)]
  BY CursorFacts DEF StartBackfill, ListEntities, OnlyRun, Goto, TypeOK, At
<1>2. /\ j \in Job /\ j.phase \in {"stream", "backfill"} /\ db.last \in Nat /\ n \in Nat
      /\ origin \in Nat /\ Len(votes) \in Nat /\ n <= Len(votes) + 1
      /\ PhaseFits(j, pc[r])
      /\ Override = Absent => ReachFits(j, pc[r], db, origin, n)
      /\ lease.owner = r => CursorHeld(j, pc[r], db, origin, n)
      /\ Override = Absent => origin <= n
  BY <1>1, CursorFacts, EventsType DEF CursorInv, EnteredOnce
<1>3. ~created => n = 0
  BY DEF EventCount
<1> HIDE DEF j, n
<1>4. CASE pc[r] = "backfill" /\ pc'[r] = "finalize" /\ job'[r] = j
  <2>1. /\ PhaseFits(j, pc'[r])
        /\ Override = Absent => ReachFits(j, pc'[r], db, origin, n)
        /\ lease.owner = r => CursorHeld(j, pc'[r], db, origin, n)
    BY <1>2, <1>4, LeavingFits
  <2>2. QED BY <1>1, <1>4, <2>1, CursorQuietStep DEF n
<1>5. CASE pc[r] = "backfill" /\ pc'[r] = "list" /\ job'[r] = [j EXCEPT !.phase = "backfill"]
  <2>1. job'[r].phase = "backfill" /\ job'[r].mark = j.mark
    BY <1>2, <1>5 DEF Job
  <2>2. PhaseFits(job'[r], pc'[r])
    BY <1>5, <2>1 DEF PhaseFits
  <2>3. Override = Absent => ReachFits(job'[r], pc'[r], db, origin, n)
    BY <1>2, <1>5, <2>1 DEF ReachFits
  <2>4. lease.owner = r => CursorHeld(job'[r], pc'[r], db, origin, n)
    BY <1>2, <1>5, <2>1 DEF CursorHeld, Placed, PageHeld, CountHeld, InPage, CountSteps
  <2>5. QED BY <1>1, <1>5, <2>2, <2>3, <2>4, CursorQuietStep DEF n
<1>6. CASE /\ pc[r] = "list" /\ job'[r] = [j EXCEPT !.count = Len(votes)]
           /\ pc'[r] = "initCache" \/ (pc'[r] = "progress" /\ ~created)
  <2>1. /\ job'[r].phase = "backfill" /\ job'[r].mark = j.mark /\ job'[r].count = Len(votes)
        /\ j.phase = "backfill"
    BY <1>2, <1>6 DEF Job, PhaseFits
  <2>2. PhaseFits(job'[r], pc'[r])
    BY <1>6, <2>1 DEF PhaseFits
  <2>3. Override = Absent => ReachFits(job'[r], pc'[r], db, origin, n)
    BY <1>2, <1>6, <2>1 DEF ReachFits
  <2>4. lease.owner = r => CursorHeld(job'[r], pc'[r], db, origin, n)
    <3>1. /\ Goal(job'[r], origin) <= Len(votes)
          /\ ~created => Goal(job'[r], origin) <= db.last
      BY <1>2, <1>3, <2>1 DEF Goal
    <3>2. lease.owner = r => db.cursor # Absent
      BY <1>2, <2>1 DEF CursorHeld, Placed
    <3>3. QED
      BY <1>6, <2>1, <3>1, <3>2
      DEF CursorHeld, Placed, PageHeld, CountHeld, InPage, CountSteps
  <2>5. QED BY <1>1, <1>6, <2>2, <2>3, <2>4, CursorQuietStep DEF n
<1>7. QED BY <1>1, <1>4, <1>5, <1>6
\* A run that starts, or ended, holds nothing.
LEMMA CursorFresh ==
  ASSUME CursorInv, TypeOK', NEW r \in Runs, Acquire(r) \/ Schedule(r)
  PROVE  CursorInv'
<1>1. /\ OnlyRun(r) /\ UNCHANGED <<created, votes, db, origin>>
      /\ lease'.owner \in {lease.owner, r} /\ ~flying[r] /\ ~flying'[r] /\ At(r)' = pc'[r]
      /\ pc'[r] \in {"cursor", "idle"} /\ job'[r].phase = "stream"
  <2>1. CASE Acquire(r)
    <3>1. PhaseFits(job[r], "idle") /\ ~flying[r]
      BY <2>1, CursorFacts DEF Acquire
    <3>2. QED
      BY <2>1, <3>1, CursorFacts DEF Acquire, AcquireLease, OnlyRun, Goto, TypeOK, At, PhaseFits
  <2>2. CASE Schedule(r)
    BY <2>2, CursorFacts DEF Schedule, OnlyRun, Goto, TypeOK, At, JobInit
  <2>3. QED BY <2>1, <2>2
<1>2. /\ PhaseFits(job'[r], At(r)')
      /\ ReachFits(job'[r], At(r)', db, origin, EventCount)
      /\ CursorHeld(job'[r], At(r)', db, origin, EventCount)
  BY <1>1, FreshFits
<1>3. QED BY <1>1, <1>2, CursorQuietStep

\* The end of a poll, in order, interrupted, failed or crashed.
LEMMA CursorLeaves ==
  ASSUME CursorInv, TypeOK', NEW r \in Runs,
         Finalize(r) \/ Interrupt(r) \/ ReadFails(r) \/ Crash(r)
  PROVE  CursorInv'
<1>1. /\ OnlyRun(r) /\ UNCHANGED <<created, votes, db, origin, lease, job, req, flying>>
      /\ pc'[r] \in {"finalize", "release", "dead"}
      /\ flying[r] => pc'[r] \in {"release", "dead"}
      /\ pc'[r] = "finalize" => job[r].phase = "backfill" \/ At(r) = "backfill"
  <2>1. CASE Finalize(r)
    BY <2>1, CursorFacts DEF Finalize, OnlyRun, Goto, TypeOK
  <2>2. CASE Interrupt(r)
    BY <2>2, CursorFacts DEF Interrupt, OnlyRun, Goto, TypeOK
  <2>3. CASE ReadFails(r)
    BY <2>3, CursorFacts DEF ReadFails, OnlyRun, Goto, TypeOK, AfterFailure
  <2>4. CASE Crash(r)
    BY <2>4, CursorFacts DEF Crash, OnlyRun, Goto, TypeOK
  <2>5. QED BY <2>1, <2>2, <2>3, <2>4
<1>2. job[r] \in Job
  BY CursorFacts
<1>3. CASE flying[r]
  <2>1. At(r)' = At(r)
    BY <1>1, <1>3 DEF At
  <2>2. QED BY <1>1, <1>3, <2>1, CursorFacts, CursorQuietStep
<1>4. CASE ~flying[r]
  <2>1. At(r)' = pc'[r] /\ ~flying'[r]
    BY <1>1, <1>4 DEF At
  <2>2. /\ PhaseFits(job[r], pc'[r])
        /\ Override = Absent => ReachFits(job[r], pc'[r], db, origin, EventCount)
        /\ lease.owner = r => CursorHeld(job[r], pc'[r], db, origin, EventCount)
    <3>1. PICK s : s = At(r)
      OBVIOUS
    <3>2. /\ Override = Absent => ReachFits(job[r], s, db, origin, EventCount)
          /\ lease.owner = r => CursorHeld(job[r], s, db, origin, EventCount)
          /\ pc'[r] = "finalize" => job[r].phase = "backfill" \/ s = "backfill"
      BY <1>1, <3>1, CursorFacts
    <3>3. QED BY <1>1, <1>2, <3>2, LeavingFits
  <2>3. QED BY <1>1, <2>1, <2>2, CursorQuietStep
<1>5. QED BY <1>3, <1>4

\* A run that releases the lease owns nothing afterwards.
LEMMA CursorRelease ==
  ASSUME CursorInv, TypeOK', NEW r \in Runs, Release(r)
  PROVE  CursorInv'
<1>1. /\ OnlyRun(r) /\ UNCHANGED <<created, votes, db, origin, req, flying>>
      /\ lease'.owner \in {lease.owner, NoRun} /\ lease'.owner # r
      /\ pc[r] = "release" /\ pc'[r] = "done"
      /\ IF flying[r] THEN job'[r] = job[r] ELSE job'[r] = JobInit
  BY RunsAssumption, CursorFacts
  DEF Release, ReleaseLease, LeaseFree, OnlyRun, Goto, TypeOK, Lease
<1>2. CASE flying[r]
  <2>1. At(r)' = At(r)
    BY <1>1, <1>2 DEF At
  <2>2. QED BY <1>1, <1>2, <2>1, CursorFacts, CursorQuietStep
<1>3. CASE ~flying[r]
  <2>1. At(r)' = "done" /\ job'[r].phase = "stream"
    BY <1>1, <1>3 DEF At, JobInit
  <2>2. PhaseFits(job'[r], At(r)') /\ ReachFits(job'[r], At(r)', db, origin, EventCount)
    BY <2>1, FreshFits
  <2>3. QED BY <1>1, <2>2, CursorQuietStep
<1>4. QED BY <1>2, <1>3

\* New events only raise what a place in the stream is compared with.
LEMMA CursorLedgerStep ==
  ASSUME CursorInv, TypeOK', Ledger
  PROVE  CursorInv'
<1>1. /\ UNCHANGED <<db, pc, job, req, flying, origin, lease>>
      /\ EventCount \in Nat /\ EventCount' \in Nat /\ EventCount <= EventCount'
      /\ votes' # <<>> => created'
  <2>1. CASE CreateEntity
    <3>1. votes = <<>> /\ created' = TRUE /\ votes' = votes /\ ~created
      BY <2>1 DEF CreateEntity, CursorInv
    <3>2. QED BY <2>1, <3>1, EventsType DEF CreateEntity, CursorInv, EventCount
  <2>2. ASSUME NEW a \in Accounts, NEW b \in Ballots, CastVote(a, b)
        PROVE  /\ UNCHANGED <<db, pc, job, req, flying, origin, lease>>
               /\ EventCount \in Nat /\ EventCount' \in Nat /\ EventCount <= EventCount'
               /\ votes' # <<>> => created'
    <3>1. [account |-> a, ballot |-> b] \in Vote
      BY DEF Vote
    <3>2. Len(votes') = Len(votes) + 1 /\ Len(votes) \in Nat /\ created /\ created' = created
      BY <2>2, <3>1 DEF CastVote, CursorInv, TypeOK
    <3>3. QED BY <2>2, <3>2 DEF CastVote, EventCount
  <2>3. QED BY <2>1, <2>2 DEF Ledger
<1>2. FlyingOnlyWhenLeft' /\ CountPassesCursor'
  BY <1>1 DEF CursorInv, FlyingOnlyWhenLeft, CountPassesCursor
<1>3. Override = Absent => EnteredOnce(db', origin', EventCount')
  BY <1>1, CursorFacts DEF CursorInv, EnteredOnce, TypeOK
<1>4. ASSUME NEW q \in Runs
      PROVE  /\ PhaseFits(job'[q], At(q)')
             /\ Override = Absent => ReachFits(job'[q], At(q)', db', origin', EventCount')
             /\ lease'.owner = q => CursorHeld(job'[q], At(q)', db', origin', EventCount')
  <2>1. job'[q] = job[q] /\ At(q)' = At(q)
    BY <1>1 DEF At
  <2>2. db \in Db /\ db.last <= db.last /\ origin \in Nat /\ origin <= origin /\ job[q] \in Job
    BY CursorFacts DEF CursorInv, TypeOK
  <2>3. Override = Absent => ReachFits(job[q], At(q), db, origin, EventCount')
    BY <1>1, <2>2, CursorFacts, ReachKept
  <2>4. lease.owner = q => CursorHeld(job[q], At(q), db, origin, EventCount')
    BY <1>1, <2>2, CursorFacts, HeldKept
  <2>5. QED BY <1>1, <2>1, <2>3, <2>4, CursorFacts
<1>5. QED BY <1>1, <1>2, <1>3, <1>4 DEF CursorInv

\* Steps that touch neither tables nor runs.
LEMMA CursorIdleStep ==
  ASSUME CursorInv, TypeOK', lease'.owner = lease.owner,
         UNCHANGED <<created, votes, db, pc, job, req, flying, origin>>
  PROVE  CursorInv'
<1>1. EventCount' = EventCount /\ FlyingOnlyWhenLeft' /\ CountPassesCursor'
  BY DEF CursorInv, FlyingOnlyWhenLeft, CountPassesCursor, EventCount
<1>2. \A q \in Runs : At(q)' = At(q)
  BY DEF At
<1>3. QED BY <1>1, <1>2 DEF CursorInv

\* The empty stream has been read from its start.
LEMMA CursorInvInit == Init => CursorInv
<1> SUFFICES ASSUME Init PROVE CursorInv
  OBVIOUS
<1>1. TypeOK
  BY InitType
<1>2. /\ FlyingOnlyWhenLeft /\ votes = <<>> /\ EventCount = 0 /\ origin = 0
      /\ db.cursor = Absent /\ db.last = 0 /\ db.backfill = "pending"
  BY DEF Init, FlyingOnlyWhenLeft, EventCount, DbInit
<1>3. ASSUME NEW r \in Runs
      PROVE  /\ PhaseFits(job[r], At(r))
             /\ ReachFits(job[r], At(r), db, origin, EventCount)
             /\ CursorHeld(job[r], At(r), db, origin, EventCount)
  <2>1. At(r) = "idle" /\ job[r].phase = "stream"
    BY DEF Init, At, JobInit
  <2>2. QED BY <2>1, FreshFits
<1>4. CountPassesCursor /\ EnteredOnce(db, origin, EventCount)
  BY <1>2 DEF CountPassesCursor, EnteredOnce
<1>5. QED BY <1>1, <1>2, <1>3, <1>4 DEF CursorInv

\* Every step keeps the cursor where the lease owner left it, behind what is counted.
LEMMA CursorInvStep == CursorInv /\ [Next]_vars => CursorInv'
<1> SUFFICES ASSUME CursorInv, [Next]_vars PROVE CursorInv'
  OBVIOUS
<1>1. TypeOK'
  BY TypeStep DEF CursorInv
<1>2. CASE Ledger
  BY <1>1, <1>2, CursorLedgerStep
<1>3. ASSUME NEW r \in Runs, Work(r)
      PROVE  CursorInv'
  <2>1. CASE Acquire(r) \/ Schedule(r)
    BY <1>1, <2>1, CursorFresh
  <2>2. CASE ApplyOverride(r) \/ ReadCursor(r) \/ BootstrapCursor(r)
    BY <1>1, <2>2, CursorRead
  <2>3. CASE FetchPage(r)
    BY <1>1, <2>3, CursorFetchPage
  <2>4. CASE ProcessEvents(r)
    BY <1>1, <2>4, CursorProcessEvents
  <2>5. CASE SendStep(r)
    BY <1>1, <2>5, CursorSendStep
  <2>6. CASE ReadState(r)
    BY <1>1, <2>6, CursorReadState
  <2>7. CASE FetchVotes(r) \/ ClassifyVotes(r) \/ ReadAggregates(r)
    BY <1>1, <2>7, CursorCounting
  <2>8. CASE StartBackfill(r) \/ ListEntities(r)
    BY <1>1, <2>8, CursorBackfill
  <2>9. CASE Finalize(r)
    BY <1>1, <2>9, CursorLeaves
  <2>10. CASE Release(r)
    BY <1>1, <2>10, CursorRelease
  <2>11. CASE BatchAnswered(r)
    BY <1>1, <2>11, CursorAnswered
  <2>12. CASE BatchLandsLate(r)
    BY <1>1, <2>12, CursorLandsLate
  <2>13. QED
    BY <1>3, <2>1, <2>2, <2>3, <2>4, <2>5, <2>6, <2>7, <2>8, <2>9, <2>10, <2>11, <2>12 DEF Work
<1>4. ASSUME NEW r \in Runs, Failure(r)
      PROVE  CursorInv'
  BY <1>1, <1>4, CursorFails, CursorLeaves DEF Failure
<1>5. CASE AbandonedLeaseExpires \/ WorkingLeaseExpires \/ UNCHANGED vars
  <2>1. /\ UNCHANGED <<created, votes, db, pc, job, req, flying, origin>>
        /\ lease'.owner = lease.owner
    BY <1>5 DEF AbandonedLeaseExpires, WorkingLeaseExpires, LeaseExpires, vars, CursorInv,
                TypeOK, Lease
  <2>2. QED BY <1>1, <2>1, CursorIdleStep
<1>6. QED BY <1>2, <1>3, <1>4, <1>5 DEF Next

\* The lease owner knows where the cursor is, and has counted what it passes.
THEOREM CursorInvariant == Spec => []CursorInv
<1>1. Init => CursorInv
  BY CursorInvInit
<1>2. CursorInv /\ [Next]_vars => CursorInv'
  BY CursorInvStep
<1>3. QED BY <1>1, <1>2, PTL DEF Spec

\* The totals are those of at least as many votes as the stored count says.
LEMMA CountIsOfTotals ==
  ASSUME TallyInv, NEW n \in Int, n <= db.last
  PROVE  TotalsCover(n)
<1>1. seen \in {db.last, db.last + 1} /\ CountOf(seen) /\ db.last \in Nat
  BY DEF TallyInv, TallyIsPrefix, TypeOK, Db
<1>2. QED BY <1>1 DEF TotalsCover

\* Every vote event that the cursor has passed since it was last placed is in the stored
\* totals, wherever polls were interrupted between committing and advancing.
THEOREM NoVoteIsSkipped == SlicesFit => (Spec => []NoVoteSkipped)
<1> SUFFICES ASSUME SlicesFit PROVE Spec => []NoVoteSkipped
  OBVIOUS
<1>1. CursorInv /\ TallyInv => NoVoteSkipped
  <2> SUFFICES ASSUME CursorInv, TallyInv, db.cursor # Absent, db.cursor > origin
               PROVE  TotalsCover(db.cursor - 1)
    BY DEF NoVoteSkipped
  <2>1. db.cursor \in Nat /\ db.cursor - 1 <= db.last
    BY DEF CursorInv, CountPassesCursor, TypeOK, Db
  <2>2. QED BY <2>1, CountIsOfTotals
<1>2. QED BY <1>1, CursorInvariant, TallyInvariant, PTL

\* A poll that has drained the stream and completed the backfill finds in the stored
\* totals every vote that its watermark covers.
THEOREM DrainedIsCounted == SlicesFit => (Spec => []DrainedMeansCounted)
<1> SUFFICES ASSUME SlicesFit PROVE Spec => []DrainedMeansCounted
  OBVIOUS
<1>1. CursorInv /\ TallyInv => DrainedMeansCounted
  <2> SUFFICES ASSUME CursorInv, TallyInv, NEW r \in Runs, pc[r] = "finalize",
                      Override = Absent, db.backfill = "complete"
               PROVE  TotalsCover(job[r].mark - 1)
    BY DEF DrainedMeansCounted
  <2>1. At(r) = "finalize"
    BY CursorFacts
  <2>2. Reached(job[r].mark, db, origin)
    BY <2>1, CursorFacts DEF ReachFits
  <2>3. origin - 1 <= db.last
    BY DEF CursorInv, EnteredOnce
  <2>4. job[r].mark - 1 \in Int /\ job[r].mark - 1 <= db.last
    BY <2>2, <2>3, CursorFacts DEF Reached
  <2>5. QED BY <2>4, CountIsOfTotals
<1>2. QED BY <1>1, CursorInvariant, TallyInvariant, PTL

\* Only D1, executing a batch, moves the cursor.
LEMMA CursorMovesInBatches ==
  ASSUME [Next]_vars
  PROVE  db' = db \/ \E r \in Runs : flying[r] /\ Executes(r)
<1>1. CASE Ledger \/ UNCHANGED vars \/ AbandonedLeaseExpires \/ WorkingLeaseExpires
  BY <1>1 DEF Ledger, CreateEntity, CastVote, vars, AbandonedLeaseExpires, WorkingLeaseExpires
<1>2. ASSUME NEW r \in Runs, Work(r)
      PROVE  db' = db \/ (flying[r] /\ Executes(r))
  BY <1>2 DEF Work, Acquire, ApplyOverride, ReadCursor, BootstrapCursor, FetchPage,
     ProcessEvents, SendStep, ReadState, FetchVotes, ClassifyVotes, ReadAggregates,
     StartBackfill, ListEntities, Finalize, Release, BatchAnswered, BatchLandsLate, Schedule,
     NotExecuted
<1>3. ASSUME NEW r \in Runs, Failure(r)
      PROVE  db' = db \/ (flying[r] /\ Executes(r))
  BY <1>3 DEF Failure, BatchFails, Interrupt, ReadFails, Crash, NotExecuted
<1>4. QED BY <1>1, <1>2, <1>3 DEF Next

\* A repeated, late or stale batch never takes the cursor back; an override does, once.
THEOREM CursorIsMonotone == Spec => CursorNeverRewinds
<1>1. CursorInv /\ CursorInv' /\ [Next]_vars =>
        [db.cursor # Absent /\ db'.cursor < db.cursor
           => db.overridden # Override /\ db'.overridden = Override]_vars
  <2> SUFFICES ASSUME CursorInv, CursorInv', [Next]_vars,
                      db.cursor # Absent, db'.cursor < db.cursor
               PROVE  db.overridden # Override /\ db'.overridden = Override
    OBVIOUS
  <2>1. CASE db' = db
    BY <2>1 DEF CursorInv, TypeOK, Db
  <2>2. CASE \E r \in Runs : flying[r] /\ Executes(r)
    BY <2>2, CursorExecutes DEF CursorInv
  <2>3. QED BY <2>1, <2>2, CursorMovesInBatches
<1>2. QED BY <1>1, CursorInvariant, PTL DEF Spec, CursorNeverRewinds
=============================================================================
