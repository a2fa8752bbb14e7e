------------------------ MODULE ElectionCollectorProofs ------------------------
(***************************************************************************)
(* Proofs about ElectionCollector for any number of runs, voters, ballots, *)
(* events and faults, and any durations and page size.                     *)
(*                                                                         *)
(* What a run holds is described by operators of its job and step, of the  *)
(* events and of the counts, so that a step's effect on it is stated of    *)
(* their values before and after the step.                                 *)
(***************************************************************************)
EXTENDS ElectionCollector, VoteLogProofs

-----------------------------------------------------------------------------
(***************************************************************************)
(* The inductive invariant                                                 *)
(***************************************************************************)
\* Event e, if it is a vote, is among those that last counts.
Counted(e, last) == e.tag = "voted" => e.count <= last[e.round]

\* The event whose action a job is at.
First(j, events) == events[Earliest(j.todo)]

\* At an action of a page.
InPage(j, step) ==
  \/ step \in {"cache", "election", "rounds", "calculate", "tie"}
  \/ step \in {"phase", "setPhase", "commit"} /\ j.stage = "events"

\* These are the ballots of the first n votes of a log.
OfPrefix(ballots, n, log) ==
  /\ n <= Len(log)
  /\ \A a \in Accounts : ballots[a] = LastBallot(log, 1, n, a)

\* An event's count is that of its round's votes when it was emitted.
VotesLogged ==
  \A i \in 1..Len(stream) :
    stream[i].tag = "voted" => stream[i].count \in 1..Len(logs[stream[i].round])

\* Later events of a round have greater counts.
VotesOrdered ==
  \A i, n \in 1..Len(stream) :
    i < n /\ stream[i].tag = "voted" /\ stream[n].tag = "voted"
    /\ stream[i].round = stream[n].round
      => stream[i].count < stream[n].count

\* What a write of event e may be.
WriteFits(write, e) ==
  \/ e.tag = "tie"
  \/ e.tag = "voted" /\ write.round = e.round /\ write.count = e.count

\* Where a job is, whether or not its run has the lease.
Placed(j, step, events, votes) ==
  /\ j.next <= Len(events)
  /\ j.todo \subseteq 1..Len(events)
  /\ InPage(j, step) => j.todo # {}
  /\ step = "calculate" => j.stage = "events" /\ First(j, events).tag = "voted"
  /\ step = "tie" => j.stage = "events" /\ First(j, events).tag = "tie"
  /\ step \in {"superseded", "latest"} => j.stage = "rounds"
  /\ step = "commit" =>
       /\ j.stage \in {"events", "rounds"}
       /\ OfPrefix(j.write.ballots, j.write.count, votes[j.write.round])
       /\ j.stage = "events" => WriteFits(j.write, First(j, events))

\* Event i is counted, or a later event of the page stands for it.
Covered(i, j, events, last) ==
  \/ Counted(events[i], last)
  \/ \E n \in j.todo : i <= n /\ Key(events[i]) = Key(events[n])

\* What the lease's owner knows of the counts.
Knows(j, step, events, last) ==
  /\ step = "commit" => last[j.write.round] <= j.write.count
  /\ step \in {"page", "advance"} => \A i \in 1..j.next : Counted(events[i], last)
  /\ InPage(j, step) => \A i \in 1..j.next : Covered(i, j, events, last)

RunsPlaced == \A r \in Runs : Placed(job[r], pc[r], stream, logs)

OwnerKnows == \A r \in Runs : lease.owner = r => Knows(job[r], pc[r], stream, db.last)

CollectorInv ==
  /\ BallotInv
  /\ VotesLogged /\ VotesOrdered
  /\ db.cursor <= Len(stream)
  /\ RunsPlaced
  /\ OwnerKnows

-----------------------------------------------------------------------------
(***************************************************************************)
(* Pages                                                                   *)
(***************************************************************************)
\* The events of a page that are still to be acted on have an earliest one.
LEMMA EarliestExists ==
  ASSUME NEW n \in Nat, NEW T, T \subseteq 1..n, T # {}
  PROVE  Earliest(T) \in T /\ \A i \in T : Earliest(T) <= i
<1> DEFINE mirrored == {n + 1 - i : i \in T}
<1>1. mirrored \subseteq 1..n /\ mirrored # {}
  <2>1. \A i \in T : i \in 1..n /\ n + 1 - i \in 1..n
    OBVIOUS
  <2>2. PICK i \in T : TRUE
    OBVIOUS
  <2>3. QED BY <2>1, <2>2
<1>2. PICK m \in mirrored : \A i \in mirrored : i <= m
  <2> HIDE DEF mirrored
  <2>1. QED BY <1>1, LastPositionExists
<1>3. PICK x \in T : m = n + 1 - x
  BY <1>2
<1>4. \A i \in T : x <= i
  <2> SUFFICES ASSUME NEW i \in T PROVE x <= i
    OBVIOUS
  <2>1. n + 1 - i <= n + 1 - x
    BY <1>2, <1>3
  <2>2. i \in Int /\ x \in Int
    OBVIOUS
  <2>3. QED BY <2>1, <2>2
<1>5. QED BY <1>4 DEF Earliest

\* Deduplication keeps, for every event of a page, a later one with its key.
LEMMA DedupedCovers ==
  ASSUME NEW from \in Nat, NEW to \in Nat, to <= Len(stream), NEW i \in (from + 1)..to
  PROVE  \E n \in Deduped(from + 1, to) : i <= n /\ Key(stream[i]) = Key(stream[n])
<1> DEFINE same == {n \in i..to : Key(stream[n]) = Key(stream[i])}
<1>1. same \subseteq 1..to /\ same # {}
  OBVIOUS
<1>2. PICK m \in same : \A n \in same : n <= m
  <2> HIDE DEF same
  <2>1. QED BY <1>1, LastPositionExists
<1>3. \A n \in (m + 1)..to : Key(stream[n]) # Key(stream[m])
  <2> SUFFICES ASSUME NEW n \in (m + 1)..to, Key(stream[n]) = Key(stream[m]) PROVE FALSE
    OBVIOUS
  <2>1. n \in same
    BY <1>2
  <2>2. n <= m
    BY <1>2, <2>1
  <2>3. QED BY <2>2, <1>2
<1>4. m \in Deduped(from + 1, to)
  BY <1>2, <1>3 DEF Deduped
<1>5. QED BY <1>2, <1>4

\* Only the votes of one round share a vote's key.
LEMMA VoteKeys ==
  ASSUME NEW e \in Event, NEW f \in Event, Key(e) = Key(f), e.tag = "voted"
  PROVE  f.tag = "voted" /\ f.round = e.round
BY DEF Key, Event, Tags

\* A page starts behind the cursor and ends within the stream.
LEMMA PageBounds ==
  ASSUME NEW from \in Nat, from <= Len(stream), stream \in Seq(Event)
  PROVE  /\ PageEnd(from) \in Nat /\ from <= PageEnd(from) /\ PageEnd(from) <= Len(stream)
         /\ Deduped(from + 1, PageEnd(from)) \subseteq 1..PageEnd(from)
         /\ PageEnd(from) # from => Deduped(from + 1, PageEnd(from)) # {}
<1>1. /\ PageEnd(from) \in Nat /\ from <= PageEnd(from) /\ PageEnd(from) <= Len(stream)
  BY CollectorBounds DEF PageEnd
<1>2. Deduped(from + 1, PageEnd(from)) \subseteq 1..PageEnd(from)
  BY <1>1 DEF Deduped
<1>3. ASSUME PageEnd(from) # from
      PROVE  Deduped(from + 1, PageEnd(from)) # {}
  <2> DEFINE to == PageEnd(from)
  <2>1. to \in (from + 1)..to
    BY <1>1, <1>3
  <2> HIDE DEF to
  <2>2. QED BY <1>1, <2>1, DedupedCovers DEF to
<1>4. QED BY <1>1, <1>2, <1>3

-----------------------------------------------------------------------------
(***************************************************************************)
(* Types                                                                   *)
(***************************************************************************)
\* The initial state is well typed.
LEMMA InitType == Init => TypeOK
<1> SUFFICES ASSUME Init PROVE TypeOK
  OBVIOUS
<1>1. NoBallots \in BallotSets
  BY DEF NoBallots, BallotSets
<1>2. DbInit \in Db
  BY <1>1 DEF DbInit, Db, Outcomes
<1>3. WriteInit \in Write
  BY <1>1 DEF WriteInit, Write, Rounds, Statuses
<1>4. JobInit \in Job
  BY <1>3 DEF JobInit, Job, Rounds, Statuses
<1>5. Created \in Event
  BY DEF Created, Event, Tags, Rounds, Outcomes
<1>6. stream \in Seq(Event)
  BY <1>5 DEF Init, LedgerInit
<1>7. logs \in [Rounds -> Seq(Vote)]
  BY DEF Init, LedgerInit
<1>8. LedgerType
  <2>1. clock \in 0..MaxTime /\ outcome \in Outcomes /\ tied \in BOOLEAN
    <3>1. clock = 0 /\ outcome = None /\ tied = FALSE
      BY DEF Init, LedgerInit
    <3>2. 0 \in 0..MaxTime
      BY LedgerBounds
    <3>3. QED BY <3>1, <3>2 DEF Outcomes
  <2>2. starts \in [Rounds -> Nat \cup {None}]
    BY DEF Init, LedgerInit
  <2>3. tally \in [passed : BOOLEAN, cached : BOOLEAN]
    BY DEF Init, LedgerInit
  <2>4. QED BY <1>6, <1>7, <2>1, <2>2, <2>3 DEF LedgerType
<1>9. lease \in Lease
  BY DEF Init, LeaseInit, LeaseFree, Lease
<1>10. faults \in 0..MaxFaults /\ stalls \in 0..MaxStalls
  BY CollectorBounds DEF Init
<1>11. pc \in [Runs -> PCs] /\ job \in [Runs -> Job] /\ db \in Db
  BY <1>2, <1>4 DEF Init, PCs
<1>12. QED BY <1>8, <1>9, <1>10, <1>11 DEF TypeOK

\* The job of a run that starts is well typed.
LEMMA JobInitType == JobInit \in Job
<1>1. NoBallots \in BallotSets
  BY DEF NoBallots, BallotSets
<1>2. WriteInit \in Write
  BY <1>1 DEF WriteInit, Write, Rounds, Statuses
<1>3. QED BY <1>2 DEF JobInit, Job, Rounds, Statuses

\* A commit's effect on the tables, column by column.
LEMMA CommittedFields ==
  ASSUME NEW d \in Db, NEW w \in Write
  PROVE  /\ Committed(d, w).cursor = d.cursor
         /\ Committed(d, w).outcome = d.outcome
         /\ Committed(d, w).rounds = d.rounds
         /\ Committed(d, w).ballots = [d.ballots EXCEPT ![w.round] = w.ballots]
         /\ Committed(d, w).last = [d.last EXCEPT ![w.round] = w.count]
         /\ Committed(d, w).results = [d.results EXCEPT ![w.round] = w.status]
         /\ Committed(d, w).status = IF w.shown THEN w.status ELSE d.status
BY DEF Committed, Db

\* A commit leaves well-formed tables.
LEMMA CommittedType ==
  ASSUME NEW d \in Db, NEW w \in Write
  PROVE  Committed(d, w) \in Db
<1>1. /\ [d.ballots EXCEPT ![w.round] = w.ballots] \in [Rounds -> BallotSets]
      /\ [d.last EXCEPT ![w.round] = w.count] \in [Rounds -> Nat]
      /\ [d.results EXCEPT ![w.round] = w.status] \in [Rounds -> Statuses \cup {None}]
  BY DEF Db, Write
<1>2. Committed(d, w) =
        [[[[d EXCEPT !.ballots = [d.ballots EXCEPT ![w.round] = w.ballots]]
             EXCEPT !.last = [d.last EXCEPT ![w.round] = w.count]]
             EXCEPT !.results = [d.results EXCEPT ![w.round] = w.status]]
             EXCEPT !.status = IF w.shown THEN w.status ELSE d.status]
  BY DEF Committed, Db
<1>3. QED BY <1>1, <1>2 DEF Db, Write

\* The fields of a job.
LEMMA JobFields ==
  ASSUME NEW j \in Job
  PROVE  /\ j.stage \in {"events", "gate", "rounds"} /\ j.next \in Nat /\ j.now \in Nat
         /\ j.todo \subseteq Nat /\ j.round \in Rounds /\ j.phase \in Statuses
         /\ j.write \in Write
         /\ j.write.round \in Rounds /\ j.write.count \in Nat /\ j.write.status \in Statuses
         /\ j.write.ballots \in BallotSets
BY DEF Job, Write

\* The fields of the tables.
LEMMA DbFields ==
  ASSUME db \in Db
  PROVE  /\ db.cursor \in Nat /\ db.status \in Statuses \cup {None} /\ db.outcome \in Outcomes
         /\ db.rounds \subseteq Rounds
         /\ db.last \in [Rounds -> Nat] /\ db.ballots \in [Rounds -> BallotSets]
         /\ db.results \in [Rounds -> Statuses \cup {None}]
BY DEF Db

\* The fields of an event.
LEMMA EventFields ==
  ASSUME NEW e \in Event
  PROVE  /\ e.tag \in Tags /\ e.round \in Rounds /\ e.count \in Nat /\ e.outcome \in Outcomes
         /\ e.rounds \subseteq Rounds
BY DEF Event

\* Every status that a projection or a calculation decides on is one.
LEMMA StatusTypes ==
  /\ \A e \in Event : DerivedStatus(e) \in Statuses
  /\ \A recorded \in Outcomes : CheckPhase(recorded) \in Statuses
  /\ \A recorded \in Outcomes, passed \in BOOLEAN : Authoritative(recorded, passed) \in Outcomes
  /\ \A k \in Rounds : LiveStatus(k) \in Statuses
  /\ \A k \in Rounds, b \in BallotSets : Verdict(k, b) \in Statuses
<1>1. \A recorded \in Outcomes : CheckPhase(recorded) \in Statuses
  BY DEF CheckPhase, Outcomes, Statuses
<1>2. \A e \in Event : DerivedStatus(e) \in Statuses
  BY <1>1, EventFields DEF DerivedStatus, Outcomes, Statuses
<1>3. \A recorded \in Outcomes, passed \in BOOLEAN : Authoritative(recorded, passed) \in Outcomes
  BY DEF Authoritative, Outcomes
<1>4. \A k \in Rounds : LiveStatus(k) \in Statuses
  BY DEF LiveStatus, Statuses
<1>5. \A k \in Rounds, b \in BallotSets : Verdict(k, b) \in Statuses
  BY VerdictAssumption DEF Rounds, Statuses
<1>6. QED BY <1>1, <1>2, <1>3, <1>4, <1>5

\* A job with another field is a job.
LEMMA JobUpdates ==
  ASSUME NEW j \in Job
  PROVE  /\ \A n \in Nat : [j EXCEPT !.next = n] \in Job
         /\ \A S \in SUBSET Nat : [j EXCEPT !.todo = S] \in Job
         /\ \A w \in Write : [j EXCEPT !.write = w] \in Job
         /\ \A stage \in {"events", "gate", "rounds"} :
              /\ \A phase \in Statuses : [j EXCEPT !.stage = stage, !.phase = phase] \in Job
              /\ \A k \in Rounds : [j EXCEPT !.stage = stage, !.round = k] \in Job
         /\ \A n \in Nat, now \in Nat, full \in BOOLEAN, S \in SUBSET Nat :
              [j EXCEPT !.next = n, !.full = full, !.todo = S, !.now = now] \in Job
<1>1. \A n \in Nat : [j EXCEPT !.next = n] \in Job
  BY DEF Job
<1>2. \A S \in SUBSET Nat : [j EXCEPT !.todo = S] \in Job
  BY DEF Job
<1>3. \A w \in Write : [j EXCEPT !.write = w] \in Job
  BY DEF Job
<1>4. \A stage \in {"events", "gate", "rounds"}, phase \in Statuses :
        [j EXCEPT !.stage = stage, !.phase = phase] \in Job
  BY DEF Job
<1>5. \A stage \in {"events", "gate", "rounds"}, k \in Rounds :
        [j EXCEPT !.stage = stage, !.round = k] \in Job
  BY DEF Job
<1>6. \A n \in Nat, now \in Nat, full \in BOOLEAN, S \in SUBSET Nat :
        [j EXCEPT !.next = n, !.full = full, !.todo = S, !.now = now] \in Job
  BY DEF Job
<1>7. QED BY <1>1, <1>2, <1>3, <1>4, <1>5, <1>6

-----------------------------------------------------------------------------
(***************************************************************************)
(* A run's step                                                            *)
(***************************************************************************)
\* Run r goes on with job j at a step; the other runs stay where they are.
Moves(r, j, step) == job' = [job EXCEPT ![r] = j] /\ pc' = [pc EXCEPT ![r] = step]

\* The parts of the invariant that a run's step relies on.
LEMMA CollectorFacts ==
  ASSUME CollectorInv
  PROVE  /\ TypeOK /\ BallotsArePrefix /\ NoBallotSkipped
         /\ lease \in Lease /\ db \in Db
         /\ clock \in Nat /\ starts \in [Rounds -> Nat \cup {None}]
         /\ stream \in Seq(Event) /\ Len(stream) \in Nat
         /\ logs \in [Rounds -> Seq(Vote)]
         /\ \A k \in Rounds : logs[k] \in Seq(Vote) /\ Len(logs[k]) \in Nat
         /\ \A r \in Runs : /\ job[r] \in Job /\ pc[r] \in PCs
                            /\ Placed(job[r], pc[r], stream, logs)
                            /\ lease.owner = r => Knows(job[r], pc[r], stream, db.last)
<1>1. TypeOK /\ BallotsArePrefix /\ NoBallotSkipped
  BY DEF CollectorInv, BallotInv
<1>2. /\ lease \in Lease /\ db \in Db
      /\ clock \in Nat /\ starts \in [Rounds -> Nat \cup {None}]
      /\ stream \in Seq(Event)
      /\ logs \in [Rounds -> Seq(Vote)]
      /\ \A r \in Runs : job[r] \in Job /\ pc[r] \in PCs
  BY <1>1, LedgerBounds DEF TypeOK, LedgerType
<1>3. \A k \in Rounds : logs[k] \in Seq(Vote) /\ Len(logs[k]) \in Nat
  BY <1>2
<1>4. Len(stream) \in Nat
  BY <1>2
<1>5. \A r \in Runs : /\ Placed(job[r], pc[r], stream, logs)
                      /\ lease.owner = r => Knows(job[r], pc[r], stream, db.last)
  BY DEF CollectorInv, RunsPlaced, OwnerKnows
<1>6. QED BY <1>1, <1>2, <1>3, <1>4, <1>5

\* A run's step keeps the invariant if it keeps what the tables hold of the
\* ballots, its own job fits, and no other run has the lease when counts change.
LEMMA RunStep ==
  ASSUME CollectorInv, NEW r \in Runs, NEW j \in Job, NEW step \in PCs, Moves(r, j, step),
         UNCHANGED ledgerVars,
         lease' \in Lease, db' \in Db, faults' \in 0..MaxFaults, stalls' \in 0..MaxStalls,
         \A s \in Runs \ {r} : lease'.owner = s => lease.owner = s /\ db'.last = db.last,
         BallotsArePrefix', NoBallotSkipped', db'.cursor <= Len(stream),
         Placed(j, step, stream, logs),
         lease'.owner = r => Knows(j, step, stream, db'.last)
  PROVE  CollectorInv'
<1>1. /\ job' \in [Runs -> Job] /\ pc' \in [Runs -> PCs]
      /\ job'[r] = j /\ pc'[r] = step
      /\ \A s \in Runs \ {r} : job'[s] = job[s] /\ pc'[s] = pc[s]
  BY CollectorFacts DEF TypeOK, Moves
<1>2. stream' = stream /\ logs' = logs
  BY DEF ledgerVars, contractVars
<1>3. TypeOK'
  <2>1. LedgerType'
    BY CollectorFacts DEF TypeOK, LedgerType, ledgerVars, contractVars
  <2>2. QED BY <1>1, <2>1 DEF TypeOK
<1>4. VotesLogged' /\ VotesOrdered'
  BY <1>2 DEF CollectorInv, VotesLogged, VotesOrdered
<1>5. RunsPlaced'
  <2> SUFFICES ASSUME NEW s \in Runs PROVE Placed(job'[s], pc'[s], stream', logs')
    BY DEF RunsPlaced
  <2>1. CASE s = r
    BY <1>1, <1>2, <2>1
  <2>2. CASE s # r
    BY <1>1, <1>2, <2>2, CollectorFacts
  <2>3. QED BY <2>1, <2>2
<1>6. OwnerKnows'
  <2> SUFFICES ASSUME NEW s \in Runs, lease'.owner = s
               PROVE  Knows(job'[s], pc'[s], stream', db'.last)
    BY DEF OwnerKnows
  <2>1. CASE s = r
    BY <1>1, <1>2, <2>1
  <2>2. CASE s # r
    BY <1>1, <1>2, <2>2, CollectorFacts
  <2>3. QED BY <2>1, <2>2
<1>7. (db.cursor <= Len(stream))'
  BY <1>2
<1>8. QED BY <1>3, <1>4, <1>5, <1>6, <1>7 DEF CollectorInv, BallotInv

\* The same of a step that leaves the counts, the ballots and the cursor alone.
LEMMA QuietStep ==
  ASSUME CollectorInv, NEW r \in Runs, NEW j \in Job, NEW step \in PCs, Moves(r, j, step),
         UNCHANGED ledgerVars,
         lease' \in Lease, lease'.owner \in {lease.owner, r, NoRun},
         faults' \in 0..MaxFaults, stalls' \in 0..MaxStalls,
         db' \in Db, db'.last = db.last, db'.ballots = db.ballots, db'.cursor = db.cursor,
         Placed(j, step, stream, logs),
         lease'.owner = r => Knows(j, step, stream, db.last)
  PROVE  CollectorInv'
<1>1. stream' = stream /\ logs' = logs
  BY DEF ledgerVars, contractVars
<1>2. BallotsArePrefix' /\ NoBallotSkipped' /\ db'.cursor <= Len(stream)
  BY <1>1 DEF CollectorInv, BallotInv, BallotsArePrefix, NoBallotSkipped
<1>3. \A s \in Runs \ {r} : lease'.owner = s => lease.owner = s /\ db'.last = db.last
  BY RunsAssumption
<1>4. Knows(j, step, stream, db.last) => Knows(j, step, stream, db'.last)
  OBVIOUS
<1>5. QED BY <1>2, <1>3, <1>4, RunStep

\* Outside the pages of the stream a job only has to lie within it.
LEMMA OutsidePages ==
  ASSUME NEW j, NEW step, NEW events, NEW votes, NEW last,
         j.next <= Len(events), j.todo \subseteq 1..Len(events),
         \/ step \in {"cursor", "idle", "release", "done", "dead", "gate", "active"}
         \/ step \in {"phase", "setPhase"} /\ j.stage # "events"
         \/ step \in {"superseded", "latest"} /\ j.stage = "rounds"
  PROVE  Placed(j, step, events, votes) /\ Knows(j, step, events, last)
BY DEF Placed, Knows, InPage

\* The first event of a page is one of the stream, and none of its others is earlier.
LEMMA FirstFacts ==
  ASSUME CollectorInv, NEW r \in Runs, InPage(job[r], pc[r])
  PROVE  /\ Earliest(job[r].todo) \in job[r].todo
         /\ Earliest(job[r].todo) \in 1..Len(stream)
         /\ First(job[r], stream) = stream[Earliest(job[r].todo)]
         /\ First(job[r], stream) = Current(r)
         /\ First(job[r], stream) \in Event
         /\ \A n \in job[r].todo : Earliest(job[r].todo) <= n
<1>1. job[r].todo # {} /\ job[r].todo \subseteq 1..Len(stream)
  BY CollectorFacts DEF Placed
<1>2. Len(stream) \in Nat /\ stream \in Seq(Event)
  BY CollectorFacts
<1>3. Earliest(job[r].todo) \in job[r].todo /\ \A n \in job[r].todo : Earliest(job[r].todo) <= n
  BY <1>1, <1>2, EarliestExists
<1>4. QED BY <1>1, <1>2, <1>3 DEF First, Current

\* Run r goes on in a way that fits the stream, the logs and these counts.
Goes(r, last) ==
  \E j \in Job, step \in PCs :
    /\ Moves(r, j, step)
    /\ Placed(j, step, stream, logs)
    /\ lease.owner = r => Knows(j, step, stream, last)

\* A step that goes on and leaves counts, ballots and cursor alone keeps the invariant.
LEMMA QuietGo ==
  ASSUME CollectorInv, NEW r \in Runs, Goes(r, db.last),
         UNCHANGED ledgerVars,
         lease' \in Lease, lease'.owner = lease.owner \/ lease'.owner = NoRun,
         faults' \in 0..MaxFaults, stalls' \in 0..MaxStalls,
         db' \in Db, db'.last = db.last, db'.ballots = db.ballots, db'.cursor = db.cursor
  PROVE  CollectorInv'
<1>1. PICK j \in Job, step \in PCs :
        /\ Moves(r, j, step)
        /\ Placed(j, step, stream, logs)
        /\ lease.owner = r => Knows(j, step, stream, db.last)
  BY DEF Goes
<1>2. lease'.owner = r => Knows(j, step, stream, db.last)
  BY <1>1, RunsAssumption
<1>3. QED BY <1>1, <1>2, QuietStep

\* A run may always go on to a step outside the pages with the job it has.
LEMMA GoesOutside ==
  ASSUME CollectorInv, NEW last, NEW r \in Runs, NEW step \in PCs, UNCHANGED job, Goto(r, step),
         \/ step \in {"cursor", "idle", "release", "done", "dead", "gate", "active"}
         \/ step \in {"phase", "setPhase"} /\ job[r].stage # "events"
         \/ step \in {"superseded", "latest"} /\ job[r].stage = "rounds"
  PROVE  Goes(r, last)
<1>1. job[r] \in Job /\ job[r].next <= Len(stream) /\ job[r].todo \subseteq 1..Len(stream)
  BY CollectorFacts DEF Placed
<1>2. Moves(r, job[r], step)
  BY CollectorFacts DEF Moves, Goto, TypeOK
<1>3. Placed(job[r], step, stream, logs) /\ Knows(job[r], step, stream, last)
  BY <1>1, OutsidePages
<1>4. QED BY <1>1, <1>2, <1>3 DEF Goes

\* A poll that fails goes on to release its lease.
LEMMA FailGoes ==
  ASSUME CollectorInv, NEW last, NEW r \in Runs, Fail(r)
  PROVE  Goes(r, last)
BY GoesOutside DEF Fail, PCs

\* A run that stays at an action of a page knows what it knew.
LEMMA StaysInPage ==
  ASSUME CollectorInv, NEW r \in Runs, NEW step \in PCs, UNCHANGED job, Goto(r, step),
         InPage(job[r], pc[r]),
         \/ step \in {"cache", "election", "rounds"}
         \/ step \in {"phase", "setPhase"}
         \/ step \in {"calculate", "tie"} /\ job[r].stage = "events"
            /\ Current(r).tag = (IF step = "tie" THEN "tie" ELSE "voted")
  PROVE  Goes(r, db.last)
<1>1. /\ job[r] \in Job /\ job[r].next <= Len(stream) /\ job[r].todo \subseteq 1..Len(stream)
      /\ job[r].todo # {}
  BY CollectorFacts DEF Placed
<1>2. Moves(r, job[r], step)
  BY CollectorFacts DEF Moves, Goto, TypeOK
<1>3. Placed(job[r], step, stream, logs)
  BY <1>1, FirstFacts DEF Placed
<1>4. lease.owner = r => Knows(job[r], step, stream, db.last)
  BY CollectorFacts DEF Knows
<1>5. QED BY <1>1, <1>2, <1>3, <1>4 DEF Goes

\* An action done, the events that the counts have caught up with need no other.
LEMMA FinishGoes ==
  ASSUME CollectorInv, NEW r \in Runs, InPage(job[r], pc[r]), FinishAction(r),
         NEW last \in [Rounds -> Nat],
         lease.owner = r =>
           /\ Counted(First(job[r], stream), last)
           /\ \A i \in 1..job[r].next : Covered(i, job[r], stream, last)
  PROVE  Goes(r, last)
<1> DEFINE first == Earliest(job[r].todo)
           rest == job[r].todo \ {first}
           j == [job[r] EXCEPT !.todo = rest]
           step == IF rest = {} THEN "advance" ELSE "cache"
<1>1. /\ job[r] \in Job /\ job[r].next <= Len(stream) /\ job[r].todo \subseteq 1..Len(stream)
      /\ job[r].next \in Nat /\ Len(stream) \in Nat /\ stream \in Seq(Event)
  BY CollectorFacts, JobFields DEF Placed
<1>2. j \in Job
  <2>1. rest \in SUBSET Nat
    BY <1>1
  <2> HIDE DEF rest
  <2>2. QED BY <1>1, <2>1, JobUpdates
<1>3. j.todo = rest /\ j.next = job[r].next
  BY <1>1 DEF Job
<1>4. Moves(r, j, step)
  BY CollectorFacts DEF Moves, FinishAction, Goto, TypeOK
<1>5. step \in PCs
  BY DEF PCs, Steps
<1>6. Placed(j, step, stream, logs)
  BY <1>1, <1>3 DEF Placed, InPage
<1>7. ASSUME lease.owner = r, NEW i \in 1..job[r].next
      PROVE  Counted(stream[i], last) \/ \E n \in rest : i <= n /\ Key(stream[i]) = Key(stream[n])
  <2>1. CASE Counted(stream[i], last)
    BY <2>1
  <2>2. CASE ~ Counted(stream[i], last)
    <3>1. PICK n \in job[r].todo : i <= n /\ Key(stream[i]) = Key(stream[n])
      BY <1>7, <2>2 DEF Covered
    <3>2. CASE n = first
      <4>1. /\ i \in 1..Len(stream) /\ n \in 1..Len(stream)
            /\ stream[i] \in Event /\ stream[n] \in Event
        BY <1>1
      <4>2. stream[i].tag = "voted"
        BY <2>2 DEF Counted
      <4>3. stream[n].tag = "voted" /\ stream[n].round = stream[i].round
        BY <3>1, <4>1, <4>2, VoteKeys
      <4>4. stream[i].count <= stream[n].count
        BY <3>1, <4>1, <4>2, <4>3, EventFields DEF CollectorInv, VotesOrdered
      <4>5. stream[n].count <= last[stream[n].round]
        BY <1>7, <3>2, <4>3, FirstFacts DEF Counted
      <4>6. stream[i].count <= last[stream[i].round]
        <5>1. /\ stream[i].count \in Nat /\ stream[n].count \in Nat /\ stream[i].round \in Rounds
              /\ last[stream[i].round] \in Nat
          BY <4>1, EventFields
        <5>2. QED BY <4>3, <4>4, <4>5, <5>1
      <4>7. QED BY <2>2, <4>6 DEF Counted
    <3>3. CASE n # first
      BY <3>1, <3>3
    <3>4. QED BY <3>2, <3>3
  <2>3. QED BY <2>1, <2>2
<1>8. lease.owner = r => Knows(j, step, stream, last)
  <2> SUFFICES ASSUME lease.owner = r PROVE Knows(j, step, stream, last)
    OBVIOUS
  <2> HIDE DEF j, rest
  <2>1. CASE rest = {}
    BY <1>3, <1>7, <2>1 DEF Knows, InPage
  <2>2. CASE rest # {}
    BY <1>3, <1>7, <2>2 DEF Knows, InPage, Covered
  <2>3. QED BY <2>1, <2>2
<1>9. QED BY <1>2, <1>4, <1>5, <1>6, <1>8 DEF Goes

\* A phase to be set keeps the run in its page, or lies outside the pages.
LEMMA SetPhaseGoes ==
  ASSUME CollectorInv, NEW r \in Runs, NEW stage \in {"events", "gate", "rounds"},
         NEW phase \in Statuses, SetPhase(r, stage, phase),
         NEW last, stage = "events" => InPage(job[r], pc[r]) /\ last = db.last
  PROVE  Goes(r, last)
<1> DEFINE j == [job[r] EXCEPT !.stage = stage, !.phase = phase]
<1>1. /\ job[r] \in Job /\ job[r].next <= Len(stream) /\ job[r].todo \subseteq 1..Len(stream)
      /\ InPage(job[r], pc[r]) => job[r].todo # {}
  BY CollectorFacts DEF Placed
<1>2. j \in Job
  BY <1>1, JobUpdates
<1>3. j.stage = stage /\ j.next = job[r].next /\ j.todo = job[r].todo
  BY <1>1 DEF Job
<1>4. Moves(r, j, "phase")
  <2>1. job' = [job EXCEPT ![r] = j]
    BY CollectorFacts DEF SetPhase, TypeOK
  <2>2. QED BY <2>1 DEF Moves, SetPhase, Goto
<1>5. "phase" \in PCs
  BY DEF PCs, Steps
<1> HIDE DEF j
<1>6. CASE stage # "events"
  <2>1. Placed(j, "phase", stream, logs) /\ Knows(j, "phase", stream, last)
    BY <1>1, <1>3, <1>6 DEF Placed, Knows, InPage
  <2>2. QED BY <1>2, <1>4, <1>5, <2>1 DEF Goes
<1>7. CASE stage = "events"
  <2>1. Placed(j, "phase", stream, logs)
    BY <1>1, <1>3, <1>7 DEF Placed
  <2>2. lease.owner = r => Knows(j, "phase", stream, last)
    BY <1>3, <1>7, CollectorFacts DEF Knows, Covered
  <2>3. QED BY <1>2, <1>4, <1>5, <2>1, <2>2 DEF Goes
<1>8. QED BY <1>6, <1>7

\* After a phase a poll does the event's action or goes on outside the pages.
LEMMA PhaseGoes ==
  ASSUME CollectorInv, NEW r \in Runs, pc[r] \in {"phase", "setPhase"}, AfterPhase(r)
  PROVE  Goes(r, db.last)
<1>1. CASE job[r].stage = "events"
  <2>1. InPage(job[r], pc[r])
    BY <1>1 DEF InPage
  <2>2. AfterProjection(r)
    BY <1>1 DEF AfterPhase
  <2>3. CASE Current(r).tag = "voted"
    BY <1>1, <2>1, <2>2, <2>3, StaysInPage DEF AfterProjection, PCs, Steps
  <2>4. CASE Current(r).tag = "tie"
    BY <1>1, <2>1, <2>2, <2>4, StaysInPage DEF AfterProjection, PCs, Steps
  <2>5. CASE Current(r).tag \notin {"voted", "tie"}
    <3>1. FinishAction(r)
      BY <2>2, <2>5 DEF AfterProjection
    <3>2. Counted(First(job[r], stream), db.last)
      BY <2>1, <2>5, FirstFacts DEF Counted
    <3>3. lease.owner = r => \A i \in 1..job[r].next : Covered(i, job[r], stream, db.last)
      BY <2>1, CollectorFacts DEF Knows
    <3>4. db.last \in [Rounds -> Nat]
      BY CollectorFacts, DbFields
    <3>5. QED BY <2>1, <3>1, <3>2, <3>3, <3>4, FinishGoes
  <2>6. QED BY <2>3, <2>4, <2>5
<1>2. CASE job[r].stage = "gate"
  BY <1>2, GoesOutside DEF AfterPhase, PCs, Steps
<1>3. CASE job[r].stage = "rounds"
  BY <1>3, GoesOutside DEF AfterPhase, PCs, Steps
<1>4. job[r].stage \in {"events", "gate", "rounds"}
  BY CollectorFacts, JobFields
<1>5. QED BY <1>1, <1>2, <1>3, <1>4

\* A prepared write holds a prefix, no shorter than the one that is counted.
LEMMA PrepareGoes ==
  ASSUME CollectorInv, NEW r \in Runs, NEW w \in Write, NEW allowTie \in BOOLEAN,
         Prepare(r, w, allowTie),
         OfPrefix(w.ballots, w.count, logs[w.round]), db.last[w.round] <= w.count,
         job[r].stage \in {"events", "rounds"},
         job[r].stage = "events" => InPage(job[r], pc[r]) /\ WriteFits(w, Current(r))
  PROVE  Goes(r, db.last)
<1>1. CASE Refused(w, allowTie)
  BY <1>1, FailGoes DEF Prepare
<1>2. CASE ~ Refused(w, allowTie)
  <2> DEFINE j == [job[r] EXCEPT !.write = w]
  <2>1. /\ job[r] \in Job /\ job[r].next <= Len(stream) /\ job[r].todo \subseteq 1..Len(stream)
        /\ InPage(job[r], pc[r]) => job[r].todo # {}
    BY CollectorFacts DEF Placed
  <2>2. j \in Job
    BY <2>1, JobUpdates
  <2>3. j.stage = job[r].stage /\ j.next = job[r].next /\ j.todo = job[r].todo /\ j.write = w
    BY <2>1 DEF Job
  <2>4. Moves(r, j, "commit")
    BY <1>2, CollectorFacts DEF Moves, Prepare, Goto, TypeOK
  <2>5. "commit" \in PCs
    BY DEF PCs, Steps
  <2> HIDE DEF j
  <2>6. job[r].stage = "events" => WriteFits(w, First(j, stream))
    BY <2>3, FirstFacts DEF First
  <2>7. Placed(j, "commit", stream, logs)
    BY <2>1, <2>3, <2>6 DEF Placed, InPage
  <2>8. lease.owner = r => Knows(j, "commit", stream, db.last)
    BY <2>3, CollectorFacts DEF Knows, Covered, InPage
  <2>9. QED BY <2>2, <2>4, <2>5, <2>7, <2>8 DEF Goes
<1>3. QED BY <1>1, <1>2

-----------------------------------------------------------------------------
(***************************************************************************)
(* A poll's steps on the stream                                            *)
(***************************************************************************)
\* Event numbers within the stream are those of events.
LEMMA Events ==
  ASSUME CollectorInv, NEW i \in 1..Len(stream)
  PROVE  stream[i] \in Event
BY CollectorFacts

\* Taking the lease promises nothing of the counts.
LEMMA AcquireStep ==
  ASSUME CollectorInv, NEW r \in Runs, Acquire(r)
  PROVE  CollectorInv'
<1>1. Placed(job[r], "cursor", stream, logs) /\ Knows(job[r], "cursor", stream, db.last)
  BY CollectorFacts, OutsidePages DEF Placed
<1>2. Moves(r, job[r], "cursor") /\ "cursor" \in PCs
  BY CollectorFacts DEF Acquire, Moves, Goto, TypeOK, PCs, Steps
<1>3. /\ lease' \in Lease /\ lease'.owner = r /\ UNCHANGED <<ledgerVars, db, faults, stalls>>
  BY DEF Acquire, AcquireLease, Lease
<1>4. QED BY <1>1, <1>2, <1>3, QuietStep, CollectorFacts DEF TypeOK

\* The cursor read, everything before it is counted.
LEMMA ReadCursorStep ==
  ASSUME CollectorInv, NEW r \in Runs, ReadCursor(r)
  PROVE  CollectorInv'
<1> DEFINE j == [job[r] EXCEPT !.next = db.cursor]
<1>1. /\ job[r] \in Job /\ job[r].todo \subseteq 1..Len(stream)
      /\ db.cursor \in Nat /\ db.cursor <= Len(stream)
  BY CollectorFacts, DbFields DEF Placed, CollectorInv
<1>2. j \in Job
  BY <1>1, JobUpdates
<1>3. j.next = db.cursor /\ j.todo = job[r].todo
  BY <1>1 DEF Job
<1>4. Moves(r, j, "page") /\ "page" \in PCs
  BY CollectorFacts DEF ReadCursor, Moves, Goto, TypeOK, PCs, Steps
<1> HIDE DEF j
<1>5. Placed(j, "page", stream, logs)
  BY <1>1, <1>3 DEF Placed, InPage
<1>6. Knows(j, "page", stream, db.last)
  BY <1>3, CollectorFacts DEF Knows, InPage, NoBallotSkipped, Counted
<1>7. UNCHANGED <<lease, ledgerVars, db, faults, stalls>>
  BY DEF ReadCursor
<1>8. Goes(r, db.last)
  BY <1>2, <1>4, <1>5, <1>6 DEF Goes
<1>9. QED BY <1>7, <1>8, QuietGo, CollectorFacts DEF TypeOK

\* A page fetched, each of its events is represented among those to be acted on.
LEMMA FetchPageStep ==
  ASSUME CollectorInv, NEW r \in Runs, FetchPage(r)
  PROVE  CollectorInv'
<1> DEFINE from == job[r].next
           end == PageEnd(from)
           todo == Deduped(from + 1, end)
           full == (end = from + PageSize)
           j == [job[r] EXCEPT !.next = end, !.full = full, !.todo = todo, !.now = clock]
           step == IF end = from THEN "gate" ELSE "cache"
<1>1. /\ pc[r] = "page" /\ job[r] \in Job /\ from \in Nat /\ from <= Len(stream)
      /\ clock \in Nat /\ Len(stream) \in Nat
  BY CollectorFacts, JobFields DEF FetchPage, Placed
<1>2. /\ end \in Nat /\ from <= end /\ end <= Len(stream)
      /\ todo \subseteq 1..end
      /\ end # from => todo # {}
  <2> HIDE DEF from
  <2>1. stream \in Seq(Event)
    BY CollectorFacts
  <2>2. QED BY <1>1, <2>1, PageBounds
<1>3. j \in Job /\ j.next = end /\ j.todo = todo
  <2> HIDE DEF end, todo, full
  <2>1. todo \in SUBSET Nat
    BY <1>2
  <2>2. full \in BOOLEAN
    BY DEF full
  <2>3. j \in Job
    BY <1>1, <1>2, <2>1, <2>2, JobUpdates
  <2>4. j.next = end /\ j.todo = todo
    BY <1>1 DEF Job
  <2>5. QED BY <2>3, <2>4
<1>4. Moves(r, j, step)
  <2>1. job' = [job EXCEPT ![r].next = end, ![r].full = full, ![r].todo = todo, ![r].now = clock]
    BY Zenon DEF FetchPage
  <2>2. pc' = [pc EXCEPT ![r] = step]
    BY Zenon DEF FetchPage, Goto
  <2>3. job \in [Runs -> Job]
    BY CollectorFacts DEF TypeOK
  <2> HIDE DEF end, todo, full, step
  <2>4. job' = [job EXCEPT ![r] = j]
    BY <2>1, <2>3
  <2>5. QED BY <2>2, <2>4 DEF Moves
<1>5. step \in PCs
  BY DEF PCs, Steps
<1>6. UNCHANGED <<lease, ledgerVars, db, faults, stalls>>
  BY DEF FetchPage
<1> HIDE DEF from, end, todo, full, j
<1>7. Placed(j, step, stream, logs)
  <2>1. todo \subseteq 1..Len(stream)
    BY <1>1, <1>2
  <2>2. step = "gate" \/ (step = "cache" /\ todo # {})
    BY <1>2
  <2> HIDE DEF step
  <2>3. QED BY <1>2, <1>3, <2>1, <2>2 DEF Placed, InPage
<1>8. ASSUME lease.owner = r
      PROVE  Knows(j, step, stream, db.last)
  <2>1. \A i \in 1..from : Counted(stream[i], db.last)
    BY <1>1, <1>8, CollectorFacts DEF Knows, from
  <2>2. \A i \in (from + 1)..end : \E n \in todo : i <= n /\ Key(stream[i]) = Key(stream[n])
    BY <1>1, <1>2, DedupedCovers DEF todo
  <2>3. \A i \in 1..end : i \in 1..from \/ i \in (from + 1)..end
    BY <1>1, <1>2
  <2>4. \A i \in 1..j.next : Covered(i, j, stream, db.last)
    BY <1>3, <2>1, <2>2, <2>3 DEF Covered
  <2>5. QED BY <2>4 DEF Knows, InPage
<1>9. Goes(r, db.last)
  BY <1>3, <1>4, <1>5, <1>7, <1>8 DEF Goes
<1>10. QED BY <1>6, <1>9, QuietGo, CollectorFacts DEF TypeOK

\* Renewing the lease leaves its owner.
LEMMA RenewFacts ==
  ASSUME lease \in Lease, RenewLease
  PROVE  lease' \in Lease /\ lease'.owner = lease.owner
BY DEF Lease, RenewLease

\* The projection's steps leave the counts alone.
LEMMA ProjectionSteps ==
  ASSUME CollectorInv, NEW r \in Runs,
         InitializeCache(r) \/ ProjectElection(r) \/ ProjectRounds(r)
  PROVE  CollectorInv'
<1> TypeOK /\ db \in Db /\ lease \in Lease
  BY CollectorFacts
<1>1. CASE InitializeCache(r)
  <2>1. InPage(job[r], pc[r]) /\ UNCHANGED <<ledgerVars, db, faults, stalls>>
    BY <1>1 DEF InitializeCache, InPage
  <2>2. Goes(r, db.last)
    BY <1>1, <2>1, StaysInPage, FailGoes DEF InitializeCache, PCs, Steps
  <2>3. lease' \in Lease /\ lease'.owner = lease.owner
    BY <1>1, RenewFacts DEF InitializeCache
  <2>4. QED BY <2>1, <2>2, <2>3, QuietGo DEF TypeOK
<1>2. CASE ProjectElection(r)
  <2>1. InPage(job[r], pc[r]) /\ UNCHANGED <<lease, ledgerVars, job, faults, stalls>>
    BY <1>2 DEF ProjectElection, InPage
  <2>2. Goes(r, db.last)
    BY <1>2, <2>1, StaysInPage DEF ProjectElection, PCs, Steps
  <2>3. Current(r).outcome \in Outcomes /\ DerivedStatus(Current(r)) \in Statuses
    BY <2>1, FirstFacts, EventFields, StatusTypes
  <2>4. /\ db' \in Db /\ db'.last = db.last /\ db'.ballots = db.ballots
        /\ db'.cursor = db.cursor
    BY <1>2, <2>3 DEF ProjectElection, Db
  <2>5. QED BY <2>1, <2>2, <2>4, QuietGo DEF TypeOK
<1>3. CASE ProjectRounds(r)
  <2>1. InPage(job[r], pc[r]) /\ UNCHANGED <<lease, ledgerVars, faults, stalls>>
    BY <1>3 DEF ProjectRounds, InPage
  <2>2. DerivedStatus(Current(r)) \in Statuses /\ Current(r).rounds \subseteq Rounds
    BY <2>1, FirstFacts, EventFields, StatusTypes
  <2>3. Goes(r, db.last)
    BY <1>3, <2>1, <2>2, SetPhaseGoes DEF ProjectRounds
  <2>4. /\ db' \in Db /\ db'.last = db.last /\ db'.ballots = db.ballots
        /\ db'.cursor = db.cursor
    BY <1>3, <2>2 DEF ProjectRounds, Db
  <2>5. QED BY <2>1, <2>3, <2>4, QuietGo DEF TypeOK
<1>4. QED BY <1>1, <1>2, <1>3

\* Nor does the phase, read and written.
LEMMA PhaseSteps ==
  ASSUME CollectorInv, NEW r \in Runs, ReadPhase(r) \/ WritePhase(r)
  PROVE  CollectorInv'
<1> TypeOK /\ db \in Db /\ lease \in Lease /\ job[r] \in Job
  BY CollectorFacts
<1>1. CASE ReadPhase(r)
  <2>1. UNCHANGED <<lease, ledgerVars, db, faults, stalls>> /\ pc[r] = "phase"
    BY <1>1 DEF ReadPhase
  <2>2. ASSUME Goto(r, "setPhase"), UNCHANGED job
        PROVE  Goes(r, db.last)
    <3>1. CASE job[r].stage = "events"
      BY <2>1, <2>2, <3>1, StaysInPage DEF InPage, PCs, Steps
    <3>2. CASE job[r].stage # "events"
      BY <2>2, <3>2, GoesOutside DEF PCs, Steps
    <3>3. QED BY <3>1, <3>2
  <2>3. Goes(r, db.last)
    BY <1>1, <2>1, <2>2, PhaseGoes DEF ReadPhase
  <2>4. QED BY <2>1, <2>3, QuietGo DEF TypeOK
<1>2. CASE WritePhase(r)
  <2>1. UNCHANGED <<lease, ledgerVars, faults, stalls>> /\ pc[r] = "setPhase"
    BY <1>2 DEF WritePhase
  <2>2. Goes(r, db.last)
    BY <1>2, <2>1, PhaseGoes DEF WritePhase
  <2>3. /\ db' \in Db /\ db'.last = db.last /\ db'.ballots = db.ballots
        /\ db'.cursor = db.cursor
    BY <1>2, JobFields DEF WritePhase, Db
  <2>4. QED BY <2>1, <2>2, <2>3, QuietGo DEF TypeOK
<1>3. QED BY <1>1, <1>2

\* The stored ballots of a prefix, updated with the slice up to a later vote, are
\* the ballots of the longer prefix.
LEMMA MergedIsPrefix ==
  ASSUME CollectorInv, NEW k \in Rounds, NEW n \in Nat, db.last[k] <= n, n <= Len(logs[k])
  PROVE  Merged(k, n) \in BallotSets /\ OfPrefix(Merged(k, n), n, logs[k])
<1>1. /\ logs[k] \in Seq(Vote) /\ Len(logs[k]) \in Nat
      /\ db.last[k] \in Nat /\ db.ballots[k] \in BallotSets
  BY CollectorFacts, DbFields
<1>2. \A a \in Accounts : db.ballots[k][a] = LastBallot(logs[k], 1, db.last[k], a)
  BY CollectorFacts DEF BallotsArePrefix
<1>3. ASSUME NEW a \in Accounts
      PROVE  /\ LastBallot(logs[k], db.last[k] + 1, n, a) \in SUBSET Options
             /\ Merged(k, n)[a] = LastBallot(logs[k], 1, n, a)
             /\ Merged(k, n)[a] \in SUBSET Options
  <2>1. LastBallot(logs[k], db.last[k] + 1, n, a) \in SUBSET Options
    <3>1. db.last[k] + 1 \in Nat \ {0}
      BY <1>1
    <3>2. QED BY <1>1, <3>1, LastBallotType
  <2>2. LastBallot(logs[k], 1, n, a) =
          IF LastBallot(logs[k], db.last[k] + 1, n, a) = {} THEN db.ballots[k][a]
          ELSE LastBallot(logs[k], db.last[k] + 1, n, a)
    <3>1. db.last[k] <= db.last[k]
      BY <1>1
    <3>2. QED BY <1>1, <1>2, <3>1, LastBallotIncremental
  <2>3. Merged(k, n)[a] = LastBallot(logs[k], 1, n, a)
    BY <2>2 DEF Merged
  <2>4. LastBallot(logs[k], 1, n, a) \in SUBSET Options
    BY <1>1, <2>1, <2>2 DEF BallotSets
  <2>5. QED BY <2>1, <2>3, <2>4
<1>4. Merged(k, n) \in BallotSets
  <2>1. Merged(k, n) = [a \in Accounts |-> Merged(k, n)[a]]
    BY DEF Merged
  <2>2. QED BY <1>3, <2>1 DEF BallotSets
<1>5. QED BY <1>3, <1>4 DEF OfPrefix

\* A round's stored ballots under another status are still those of its prefix.
LEMMA RestatedIsPrefix ==
  ASSUME CollectorInv, NEW k \in Rounds, NEW status \in Statuses, NEW shown \in BOOLEAN
  PROVE  /\ Restated(k, status, shown) \in Write
         /\ Restated(k, status, shown).round = k
         /\ Restated(k, status, shown).status = status
         /\ Restated(k, status, shown).shown = shown
         /\ Restated(k, status, shown).ballots = db.ballots[k]
         /\ Restated(k, status, shown).count = db.last[k]
         /\ OfPrefix(db.ballots[k], db.last[k], logs[k])
         /\ db.last[k] <= db.last[k]
<1>1. db.last[k] \in Nat /\ db.ballots[k] \in BallotSets
  BY CollectorFacts, DbFields
<1>2. OfPrefix(db.ballots[k], db.last[k], logs[k])
  BY CollectorFacts DEF BallotsArePrefix, OfPrefix
<1>3. QED BY <1>1, <1>2 DEF Restated, Write

\* So a restated write may be prepared.
LEMMA RestatedFits ==
  ASSUME CollectorInv, NEW k \in Rounds, NEW status \in Statuses, NEW shown \in BOOLEAN,
         NEW w, w = Restated(k, status, shown)
  PROVE  /\ w \in Write
         /\ OfPrefix(w.ballots, w.count, logs[w.round])
         /\ db.last[w.round] <= w.count
BY RestatedIsPrefix

\* A calculation finds its event counted, or prepares the longer prefix.
LEMMA CalculateStep ==
  ASSUME CollectorInv, NEW r \in Runs, Calculate(r)
  PROVE  CollectorInv'
<1> DEFINE e == Current(r)
<1>1. /\ pc[r] = "calculate" /\ InPage(job[r], pc[r])
      /\ UNCHANGED <<lease, ledgerVars, db, faults, stalls>>
  BY DEF Calculate, InPage
<1>2. /\ job[r].stage = "events" /\ e.tag = "voted"
      /\ e \in Event /\ e.round \in Rounds /\ e.count \in Nat
      /\ e = First(job[r], stream)
  BY <1>1, FirstFacts, EventFields, CollectorFacts DEF Placed
<1>3. e.count <= Len(logs[e.round])
  <2>1. PICK i \in 1..Len(stream) : e = stream[i]
    BY <1>1, FirstFacts
  <2>2. e.count \in 1..Len(logs[e.round])
    BY <1>2, <2>1 DEF CollectorInv, VotesLogged
  <2>3. QED BY <2>2
<1>4. db.last \in [Rounds -> Nat]
  BY CollectorFacts, DbFields
<1> HIDE DEF e
<1>5. CASE e.count <= db.last[e.round]
  <2>1. FinishAction(r)
    BY <1>5 DEF Calculate, e
  <2>2. Counted(First(job[r], stream), db.last)
    BY <1>2, <1>5 DEF Counted
  <2>3. lease.owner = r => \A i \in 1..job[r].next : Covered(i, job[r], stream, db.last)
    BY <1>1, CollectorFacts DEF Knows
  <2>4. Goes(r, db.last)
    BY <1>1, <1>4, <2>1, <2>2, <2>3, FinishGoes
  <2>5. QED BY <1>1, <2>4, QuietGo, CollectorFacts DEF TypeOK
<1>6. CASE ~ (e.count <= db.last[e.round])
  <2> DEFINE w == [round |-> e.round, status |-> LiveStatus(e.round), count |-> e.count,
                   ballots |-> Merged(e.round, e.count), shown |-> TRUE]
  <2>1. Prepare(r, w, FALSE)
    BY <1>6 DEF Calculate, e
  <2>2. db.last[e.round] <= e.count
    BY <1>2, <1>4, <1>6
  <2>3. /\ Merged(e.round, e.count) \in BallotSets
        /\ OfPrefix(Merged(e.round, e.count), e.count, logs[e.round])
    BY <1>2, <1>3, <2>2, MergedIsPrefix
  <2>4. w \in Write
    BY <1>2, <2>3, StatusTypes DEF Write
  <2>5. /\ OfPrefix(w.ballots, w.count, logs[w.round]) /\ db.last[w.round] <= w.count
        /\ WriteFits(w, Current(r))
    BY <1>2, <2>2, <2>3 DEF WriteFits, e
  <2> HIDE DEF w
  <2>6. Goes(r, db.last)
    BY <1>1, <1>2, <2>1, <2>4, <2>5, PrepareGoes
  <2>7. QED BY <1>1, <2>6, QuietGo, CollectorFacts DEF TypeOK
<1>7. QED BY <1>5, <1>6

\* A tie's resolution restates the ballots.
LEMMA ResolveTieStep ==
  ASSUME CollectorInv, NEW r \in Runs, ResolveTie(r)
  PROVE  CollectorInv'
<1> DEFINE k == Current(r).round
<1>1. /\ pc[r] = "tie" /\ InPage(job[r], pc[r])
      /\ UNCHANGED <<lease, ledgerVars, db, faults, stalls>>
  BY DEF ResolveTie, InPage
<1>2. job[r].stage = "events" /\ Current(r).tag = "tie" /\ k \in Rounds
  BY <1>1, FirstFacts, EventFields, CollectorFacts DEF Placed
<1>3. CASE FinishAction(r)
  <2>1. Counted(First(job[r], stream), db.last)
    BY <1>1, <1>2, FirstFacts DEF Counted
  <2>2. lease.owner = r => \A i \in 1..job[r].next : Covered(i, job[r], stream, db.last)
    BY <1>1, CollectorFacts DEF Knows
  <2>3. db.last \in [Rounds -> Nat]
    BY CollectorFacts, DbFields
  <2>4. Goes(r, db.last)
    BY <1>1, <1>3, <2>1, <2>2, <2>3, FinishGoes
  <2>5. QED BY <1>1, <2>4, QuietGo, CollectorFacts DEF TypeOK
<1>4. CASE Prepare(r, Restated(k, "FINAL", TRUE), TRUE)
  <2>1. "FINAL" \in Statuses
    BY DEF Statuses
  <2> DEFINE w == Restated(k, "FINAL", TRUE)
  <2>2. /\ w \in Write
        /\ OfPrefix(w.ballots, w.count, logs[w.round]) /\ db.last[w.round] <= w.count
    <3> HIDE DEF k
    <3>1. QED BY <1>2, <2>1, RestatedFits
  <2>3. WriteFits(w, Current(r))
    BY <1>2 DEF WriteFits
  <2> HIDE DEF w
  <2>4. Goes(r, db.last)
    BY <1>1, <1>2, <1>4, <2>2, <2>3, PrepareGoes DEF w
  <2>5. QED BY <1>1, <2>4, QuietGo, CollectorFacts DEF TypeOK
<1>5. CASE Fail(r)
  BY <1>1, <1>5, FailGoes, QuietGo, CollectorFacts DEF TypeOK
<1>6. QED BY <1>3, <1>4, <1>5 DEF ResolveTie

\* A vote counted stays counted when the counts grow.
LEMMA CountedMonotone ==
  ASSUME NEW e \in Event, NEW last \in [Rounds -> Nat], NEW later \in [Rounds -> Nat],
         \A k \in Rounds : last[k] <= later[k], Counted(e, last)
  PROVE  Counted(e, later)
<1>1. e.round \in Rounds /\ e.count \in Nat /\ last[e.round] \in Nat /\ later[e.round] \in Nat
  BY EventFields
<1>2. QED BY <1>1 DEF Counted

\* The owner's commit makes a longer prefix of the round counted.
LEMMA CommitCounts ==
  ASSUME CollectorInv, NEW r \in Runs, pc[r] = "commit", lease.owner = r,
         db' = Committed(db, job[r].write), UNCHANGED ledgerVars
  PROVE  /\ db' \in Db /\ db'.last \in [Rounds -> Nat]
         /\ \A k \in Rounds : db.last[k] <= db'.last[k]
         /\ db'.last[job[r].write.round] = job[r].write.count
         /\ BallotsArePrefix' /\ NoBallotSkipped' /\ db'.cursor <= Len(stream)
<1> DEFINE w == job[r].write
<1>1. /\ w \in Write /\ w.round \in Rounds /\ w.count \in Nat /\ db \in Db
      /\ db.last \in [Rounds -> Nat] /\ db.ballots \in [Rounds -> BallotSets]
      /\ stream' = stream /\ logs' = logs
  BY CollectorFacts, JobFields, DbFields DEF ledgerVars, contractVars
<1>2. db.last[w.round] <= w.count /\ OfPrefix(w.ballots, w.count, logs[w.round])
  BY CollectorFacts DEF Knows, Placed
<1> HIDE DEF w
<1>3. /\ db' \in Db
      /\ db'.cursor = db.cursor
      /\ db'.ballots = [db.ballots EXCEPT ![w.round] = w.ballots]
      /\ db'.last = [db.last EXCEPT ![w.round] = w.count]
  BY <1>1, CommittedFields, CommittedType DEF w
<1>4. db'.last \in [Rounds -> Nat] /\ \A k \in Rounds : db.last[k] <= db'.last[k]
  BY <1>1, <1>2, <1>3
<1>5. BallotsArePrefix'
  <2>1. ASSUME NEW k \in Rounds
        PROVE  OfPrefix(db'.ballots[k], db'.last[k], logs[k])
    <3>1. CASE k = w.round
      BY <1>1, <1>2, <1>3, <3>1
    <3>2. CASE k # w.round
      BY <1>1, <1>3, <3>2, CollectorFacts DEF BallotsArePrefix, OfPrefix
    <3>3. QED BY <3>1, <3>2
  <2>2. QED BY <1>1, <2>1 DEF BallotsArePrefix, OfPrefix
<1>6. NoBallotSkipped'
  <2>1. ASSUME NEW i \in 1..db.cursor
        PROVE  Counted(stream[i], db'.last)
    <3>1. stream[i] \in Event
      <4>1. i \in 1..Len(stream)
        BY CollectorFacts, DbFields DEF CollectorInv
      <4>2. QED BY <4>1, Events
    <3>2. Counted(stream[i], db.last)
      BY CollectorFacts DEF NoBallotSkipped, Counted
    <3>3. QED BY <1>1, <1>4, <3>1, <3>2, CountedMonotone
  <2>2. QED BY <1>1, <1>3, <2>1 DEF NoBallotSkipped, Counted
<1>7. QED BY <1>1, <1>3, <1>4, <1>5, <1>6 DEF CollectorInv, w

\* The owner's write keeps the invariant if the run goes on with the new counts.
LEMMA OwnerGo ==
  ASSUME CollectorInv, NEW r \in Runs, Goes(r, db'.last), UNCHANGED ledgerVars,
         lease.owner = r, lease' \in Lease, lease'.owner = lease.owner,
         faults' \in 0..MaxFaults, stalls' \in 0..MaxStalls,
         db' \in Db, BallotsArePrefix', NoBallotSkipped', db'.cursor <= Len(stream)
  PROVE  CollectorInv'
<1>1. PICK j \in Job, step \in PCs :
        /\ Moves(r, j, step)
        /\ Placed(j, step, stream, logs)
        /\ lease.owner = r => Knows(j, step, stream, db'.last)
  BY DEF Goes
<1>2. \A s \in Runs \ {r} : lease'.owner = s => lease.owner = s /\ db'.last = db.last
  OBVIOUS
<1>3. lease'.owner = r => Knows(j, step, stream, db'.last)
  BY <1>1
<1>4. QED BY <1>1, <1>2, <1>3, RunStep

\* What a poll does after its commit agrees with the counts it has committed.
LEMMA AfterCommitGoes ==
  ASSUME CollectorInv, NEW r \in Runs, pc[r] = "commit", lease.owner = r, AfterCommit(r),
         NEW last \in [Rounds -> Nat], \A k \in Rounds : db.last[k] <= last[k],
         last[job[r].write.round] = job[r].write.count
  PROVE  Goes(r, last)
<1>1. job[r] \in Job /\ job[r].write.status \in Statuses /\ db.last \in [Rounds -> Nat]
  BY CollectorFacts, JobFields, DbFields
<1>2. job[r].stage \in {"events", "rounds"}
  BY CollectorFacts DEF Placed
<1>3. CASE job[r].stage = "events"
  <2>1. InPage(job[r], pc[r]) /\ FinishAction(r)
    BY <1>3 DEF InPage, AfterCommit
  <2>2. Counted(First(job[r], stream), last)
    <3>1. WriteFits(job[r].write, First(job[r], stream))
      BY <1>3, CollectorFacts DEF Placed
    <3>2. First(job[r], stream).count \in Nat
      BY <2>1, FirstFacts, EventFields
    <3>3. QED BY <3>1, <3>2 DEF WriteFits, Counted
  <2>3. \A i \in 1..job[r].next : Covered(i, job[r], stream, last)
    <3> SUFFICES ASSUME NEW i \in 1..job[r].next PROVE Covered(i, job[r], stream, last)
      OBVIOUS
    <3>1. Covered(i, job[r], stream, db.last)
      BY <2>1, CollectorFacts DEF Knows
    <3>2. i \in 1..Len(stream)
      BY CollectorFacts, JobFields DEF Placed
    <3>3. stream[i] \in Event
      BY <3>2, Events
    <3>4. Counted(stream[i], db.last) => Counted(stream[i], last)
      BY <1>1, <3>3, CountedMonotone
    <3>5. QED BY <3>1, <3>4 DEF Covered
  <2>4. QED BY <2>1, <2>2, <2>3, FinishGoes
<1>4. CASE job[r].stage = "rounds" /\ job[r].write.shown
  <2>1. Goto(r, "release") /\ UNCHANGED job
    BY <1>4 DEF AfterCommit
  <2>2. QED BY <2>1, GoesOutside DEF PCs
<1>5. CASE job[r].stage = "rounds" /\ ~ job[r].write.shown
  <2>1. AfterSuperseded(r, job[r].write.status)
    BY <1>5 DEF AfterCommit
  <2>2. CASE job[r].write.status = "ROUND_1_FAILED"
    <3>1. Goto(r, "latest") /\ UNCHANGED job
      BY <2>1, <2>2 DEF AfterSuperseded
    <3>2. QED BY <1>5, <3>1, GoesOutside DEF PCs, Steps
  <2>3. CASE job[r].write.status # "ROUND_1_FAILED"
    <3>1. SetPhase(r, "rounds", job[r].write.status)
      BY <2>1, <2>3 DEF AfterSuperseded
    <3>2. QED BY <1>1, <3>1, SetPhaseGoes
  <2>4. QED BY <2>2, <2>3
<1>6. QED BY <1>2, <1>3, <1>4, <1>5

\* A commit is the owner's, or fails.
LEMMA CommitStep ==
  ASSUME CollectorInv, NEW r \in Runs, Commit(r)
  PROVE  CollectorInv'
<1>1. pc[r] = "commit" /\ UNCHANGED <<ledgerVars, faults, stalls>> /\ lease \in Lease
  BY CollectorFacts DEF Commit
<1>2. CASE FencePasses(r, lease.live)
  <2>1. /\ lease.owner = r /\ db' = Committed(db, job[r].write) /\ RenewLease
        /\ AfterCommit(r)
    BY <1>2 DEF Commit, FencePasses
  <2>2. Goes(r, db'.last)
    BY <1>1, <2>1, CommitCounts, AfterCommitGoes
  <2>3. lease' \in Lease /\ lease'.owner = lease.owner
    BY <1>1, <2>1, RenewFacts
  <2>4. faults' \in 0..MaxFaults /\ stalls' \in 0..MaxStalls
    BY <1>1, CollectorFacts DEF TypeOK
  <2>5. QED BY <1>1, <2>1, <2>2, <2>3, <2>4, CommitCounts, OwnerGo
<1>3. CASE ~ FencePasses(r, lease.live)
  BY <1>1, <1>3, FailGoes, QuietGo, CollectorFacts DEF Commit, TypeOK
<1>4. QED BY <1>2, <1>3

\* The owner advances its cursor past counted events only.
LEMMA AdvanceCounts ==
  ASSUME CollectorInv, NEW r \in Runs, pc[r] = "advance", lease.owner = r,
         db' = [db EXCEPT !.cursor = job[r].next], UNCHANGED ledgerVars
  PROVE  /\ db' \in Db /\ db'.last = db.last
         /\ BallotsArePrefix' /\ NoBallotSkipped' /\ db'.cursor <= Len(stream)
<1>1. job[r].next \in Nat /\ job[r].next <= Len(stream) /\ db \in Db
  BY CollectorFacts, JobFields DEF Placed
<1>2. stream' = stream /\ logs' = logs
  BY DEF ledgerVars, contractVars
<1>3. /\ db' \in Db /\ db'.last = db.last /\ db'.ballots = db.ballots
      /\ db'.cursor = job[r].next
  BY <1>1 DEF Db
<1>4. \A i \in 1..job[r].next : Counted(stream[i], db.last)
  BY CollectorFacts DEF Knows
<1>5. NoBallotSkipped'
  BY <1>2, <1>3, <1>4 DEF NoBallotSkipped, Counted
<1>6. BallotsArePrefix'
  BY <1>2, <1>3, CollectorFacts DEF BallotsArePrefix
<1>7. QED BY <1>1, <1>3, <1>5, <1>6

\* A page's end is the owner's, or fails.
LEMMA AdvanceStep ==
  ASSUME CollectorInv, NEW r \in Runs, Advance(r)
  PROVE  CollectorInv'
<1>1. pc[r] = "advance" /\ UNCHANGED <<ledgerVars, faults, stalls>> /\ lease \in Lease
  BY CollectorFacts DEF Advance
<1>2. CASE FencePasses(r, lease.live)
  <2>1. /\ lease.owner = r /\ db' = [db EXCEPT !.cursor = job[r].next] /\ RenewLease
        /\ UNCHANGED job /\ Goto(r, IF job[r].full THEN "page" ELSE "gate")
    BY <1>2 DEF Advance, FencePasses
  <2>2. db'.last = db.last
    BY <1>1, <2>1, AdvanceCounts
  <2>3. Goes(r, db.last)
    <3>1. CASE job[r].full
      <4>1. Moves(r, job[r], "page") /\ "page" \in PCs
        BY <2>1, <3>1, CollectorFacts DEF Moves, Goto, TypeOK, PCs, Steps
      <4>2. Placed(job[r], "page", stream, logs)
        BY CollectorFacts DEF Placed, InPage
      <4>3. Knows(job[r], "page", stream, db.last)
        BY <1>1, <2>1, CollectorFacts DEF Knows, InPage
      <4>4. QED BY <4>1, <4>2, <4>3, CollectorFacts DEF Goes
    <3>2. CASE ~ job[r].full
      BY <2>1, <3>2, GoesOutside DEF PCs, Steps
    <3>3. QED BY <3>1, <3>2
  <2>4. lease' \in Lease /\ lease'.owner = lease.owner
    BY <1>1, <2>1, RenewFacts
  <2>5. faults' \in 0..MaxFaults /\ stalls' \in 0..MaxStalls
    BY <1>1, CollectorFacts DEF TypeOK
  <2>6. QED BY <1>1, <2>1, <2>2, <2>3, <2>4, <2>5, AdvanceCounts, OwnerGo
<1>3. CASE ~ FencePasses(r, lease.live)
  BY <1>1, <1>3, FailGoes, QuietGo, CollectorFacts DEF Advance, TypeOK
<1>4. QED BY <1>2, <1>3

-----------------------------------------------------------------------------
(***************************************************************************)
(* The finalizer's steps                                                   *)
(***************************************************************************)
\* The check's phase and the selection of rounds leave the counts alone.
LEMMA FinalizerStarts ==
  ASSUME CollectorInv, NEW r \in Runs, ResolveGate(r) \/ SelectRounds(r)
  PROVE  CollectorInv'
<1> TypeOK /\ db \in Db /\ lease \in Lease /\ job[r] \in Job
  BY CollectorFacts
<1>1. CASE ResolveGate(r)
  <2>1. UNCHANGED <<lease, ledgerVars, db, faults, stalls>>
    BY <1>1 DEF ResolveGate
  <2>2. db.outcome \in Outcomes /\ tally.passed \in BOOLEAN
    BY DbFields DEF TypeOK, LedgerType
  <2>3. /\ CheckPhase(db.outcome) \in Statuses
        /\ CheckPhase(Authoritative(db.outcome, tally.passed)) \in Statuses
    BY <2>2, StatusTypes
  <2>4. \/ Goto(r, "active") /\ UNCHANGED job
        \/ SetPhase(r, "gate", CheckPhase(db.outcome))
        \/ SetPhase(r, "gate", CheckPhase(Authoritative(db.outcome, tally.passed)))
    BY <1>1 DEF ResolveGate
  <2>5. Goes(r, db.last)
    BY <2>3, <2>4, GoesOutside, SetPhaseGoes DEF PCs, Steps
  <2>6. QED BY <2>1, <2>5, QuietGo DEF TypeOK
<1>2. CASE SelectRounds(r)
  <2>1. UNCHANGED <<lease, ledgerVars, db, faults, stalls>>
    BY <1>2 DEF SelectRounds
  <2>2. CASE Goto(r, "release") /\ UNCHANGED job
    <3>1. Goes(r, db.last)
      BY <2>2, GoesOutside DEF PCs
    <3>2. QED BY <2>1, <3>1, QuietGo DEF TypeOK
  <2>3. CASE /\ job' = [job EXCEPT ![r].stage = "rounds", ![r].round = LatestRound]
             /\ Goto(r, "superseded") \/ Goto(r, "latest")
    <3> DEFINE j == [job[r] EXCEPT !.stage = "rounds", !.round = LatestRound]
    <3>1. LatestRound \in Rounds
      BY DEF LatestRound, Rounds
    <3>2. j \in Job
      BY <3>1, JobUpdates
    <3>3. j.stage = "rounds" /\ j.next = job[r].next /\ j.todo = job[r].todo
      BY DEF Job
    <3>4. job' = [job EXCEPT ![r] = j]
      BY <2>3 DEF TypeOK
    <3>5. PICK step \in {"superseded", "latest"} : Moves(r, j, step)
      BY <2>3, <3>4 DEF Moves, Goto
    <3> HIDE DEF j
    <3>6. Placed(j, step, stream, logs) /\ Knows(j, step, stream, db.last)
      BY <3>3, <3>5, CollectorFacts DEF Placed, Knows, InPage
    <3>7. step \in PCs
      BY <3>5 DEF PCs, Steps
    <3>8. Goes(r, db.last)
      BY <3>2, <3>5, <3>6, <3>7 DEF Goes
    <3>9. QED BY <2>1, <3>8, QuietGo DEF TypeOK
  <2>4. QED BY <1>2, <2>2, <2>3 DEF SelectRounds
<1>3. QED BY <1>1, <1>2

\* Closing a round restates its ballots.
LEMMA RoundSteps ==
  ASSUME CollectorInv, NEW r \in Runs, CloseSuperseded(r) \/ FinalizeLatest(r)
  PROVE  CollectorInv'
<1> TypeOK /\ db \in Db /\ lease \in Lease /\ job[r] \in Job
  BY CollectorFacts
<1>1. /\ UNCHANGED <<lease, ledgerVars, db, faults, stalls>>
      /\ pc[r] \in {"superseded", "latest"}
  BY DEF CloseSuperseded, FinalizeLatest
<1>2. job[r].stage = "rounds"
  BY <1>1, CollectorFacts DEF Placed
<1>3. \A k \in Rounds : Verdict(k, db.ballots[k]) \in Statuses
  BY StatusTypes, DbFields
<1>4. ASSUME NEW k \in Rounds, NEW shown \in BOOLEAN,
             Prepare(r, Restated(k, Verdict(k, db.ballots[k]), shown), FALSE)
      PROVE  Goes(r, db.last)
  <2>1. PICK w : w = Restated(k, Verdict(k, db.ballots[k]), shown)
    OBVIOUS
  <2>2. w \in Write /\ OfPrefix(w.ballots, w.count, logs[w.round]) /\ db.last[w.round] <= w.count
    BY <1>3, <2>1, RestatedFits
  <2>3. QED BY <1>2, <1>4, <2>1, <2>2, PrepareGoes
<1>5. CASE CloseSuperseded(r)
  <2>1. CASE Closed(1)
    <3>1. AfterSuperseded(r, db.results[1])
      BY <1>5, <2>1 DEF CloseSuperseded
    <3>2. db.results[1] \in Statuses
      BY <2>1 DEF Closed, ClosedResults, Statuses
    <3>3. Goes(r, db.last)
      BY <1>2, <3>1, <3>2, GoesOutside, SetPhaseGoes DEF AfterSuperseded, PCs, Steps
    <3>4. QED BY <1>1, <3>3, QuietGo DEF TypeOK
  <2>2. CASE ~ Closed(1)
    <3>1. Goes(r, db.last)
      BY <1>4, <1>5, <2>2 DEF CloseSuperseded, Rounds
    <3>2. QED BY <1>1, <3>1, QuietGo DEF TypeOK
  <2>3. QED BY <2>1, <2>2
<1>6. CASE FinalizeLatest(r)
  <2> DEFINE k == job[r].round
  <2>1. k \in Rounds /\ LiveStatus(k) \in Statuses
    BY JobFields, StatusTypes
  <2>2. \/ Goto(r, "release") /\ UNCHANGED job
        \/ SetPhase(r, "rounds", LiveStatus(k))
        \/ Prepare(r, Restated(k, Verdict(k, db.ballots[k]), TRUE), FALSE)
    BY <1>6, <2>1 DEF FinalizeLatest, Rounds
  <2> HIDE DEF k
  <2>3. Goes(r, db.last)
    BY <1>4, <2>1, <2>2, GoesOutside, SetPhaseGoes DEF PCs
  <2>4. QED BY <1>1, <2>3, QuietGo DEF TypeOK
<1>7. QED BY <1>5, <1>6

-----------------------------------------------------------------------------
(***************************************************************************)
(* Ends, faults and the ledger                                             *)
(***************************************************************************)
\* A run that has ended holds nothing.
LEMMA FreshJob ==
  ASSUME CollectorInv, NEW r \in Runs, NEW step \in {"idle", "done", "dead"}, NEW last,
         Goto(r, step), job' = [job EXCEPT ![r] = JobInit]
  PROVE  Goes(r, last)
<1>1. JobInit \in Job /\ JobInit.next = 0 /\ JobInit.todo = {}
  BY JobInitType DEF JobInit
<1>2. 0 <= Len(stream)
  BY CollectorFacts
<1>3. Placed(JobInit, step, stream, logs) /\ Knows(JobInit, step, stream, last)
  BY <1>1, <1>2 DEF Placed, Knows, InPage
<1>4. Moves(r, JobInit, step) /\ step \in PCs
  BY DEF Moves, Goto, PCs
<1>5. QED BY <1>1, <1>3, <1>4 DEF Goes

\* A released or rescheduled run, or one that a fault ends, keeps the invariant.
LEMMA EndSteps ==
  ASSUME CollectorInv, NEW r \in Runs, Release(r) \/ Schedule(r) \/ Interrupt(r) \/ Crash(r)
  PROVE  CollectorInv'
<1> TypeOK /\ db \in Db /\ lease \in Lease
  BY CollectorFacts
<1> faults \in 0..MaxFaults /\ stalls \in 0..MaxStalls /\ MaxFaults \in Nat
  BY CollectorBounds DEF TypeOK
<1>1. CASE Release(r)
  <2>1. UNCHANGED <<ledgerVars, db, faults, stalls>>
    BY <1>1 DEF Release
  <2>2. lease' \in Lease /\ (lease'.owner = lease.owner \/ lease'.owner = NoRun)
    BY <1>1 DEF Release, ReleaseLease, Lease, LeaseFree
  <2>3. Goes(r, db.last)
    BY <1>1, FreshJob DEF Release
  <2>4. QED BY <2>1, <2>2, <2>3, QuietGo
<1>2. CASE Schedule(r)
  <2>1. Goes(r, db.last)
    BY <1>2, GoesOutside DEF Schedule, PCs
  <2>2. QED BY <1>2, <2>1, QuietGo DEF Schedule
<1>3. CASE Interrupt(r)
  <2>1. Goes(r, db.last)
    BY <1>3, FailGoes DEF Interrupt
  <2>2. faults' \in 0..MaxFaults
    BY <1>3 DEF Interrupt, Fault
  <2>3. QED BY <1>3, <2>1, <2>2, QuietGo DEF Interrupt
<1>4. CASE Crash(r)
  <2>1. Goes(r, db.last)
    BY <1>4, FreshJob DEF Crash
  <2>2. faults' \in 0..MaxFaults
    BY <1>4 DEF Crash, Fault
  <2>3. QED BY <1>4, <2>1, <2>2, QuietGo DEF Crash
<1>5. QED BY <1>1, <1>2, <1>3, <1>4

\* A batch whose answer is lost has counted what it committed, and nothing else.
LEMMA AnswerLostStep ==
  ASSUME CollectorInv, NEW r \in Runs, AnswerLost(r)
  PROVE  CollectorInv'
<1>1. /\ lease.owner = r /\ lease \in Lease /\ RenewLease /\ Fail(r)
      /\ UNCHANGED <<ledgerVars, stalls>>
  BY CollectorFacts DEF AnswerLost, FencePasses
<1>2. lease' \in Lease /\ lease'.owner = lease.owner
  BY <1>1, RenewFacts
<1>3. faults' \in 0..MaxFaults /\ stalls' \in 0..MaxStalls
  BY <1>1, CollectorFacts, CollectorBounds DEF AnswerLost, Fault, TypeOK
<1>4. Goes(r, db'.last)
  BY <1>1, FailGoes
<1>5. db' \in Db /\ BallotsArePrefix' /\ NoBallotSkipped' /\ db'.cursor <= Len(stream)
  <2>1. CASE pc[r] = "commit"
    BY <1>1, <2>1, CommitCounts DEF AnswerLost
  <2>2. CASE pc[r] = "advance"
    BY <1>1, <2>2, AdvanceCounts DEF AnswerLost
  <2>3. QED BY <2>1, <2>2 DEF AnswerLost
<1>6. QED BY <1>1, <1>2, <1>3, <1>4, <1>5, OwnerGo

\* The lease's expiry takes nothing from its owner but the fence.
LEMMA ExpirySteps ==
  ASSUME CollectorInv, AbandonedLeaseExpires \/ WorkingLeaseExpires \/ UNCHANGED vars
  PROVE  CollectorInv'
<1>1. /\ UNCHANGED <<ledgerVars, db, pc, job, faults>>
      /\ lease' \in Lease /\ lease'.owner = lease.owner
      /\ stalls' \in 0..MaxStalls
  <2>1. lease \in Lease /\ stalls \in 0..MaxStalls
    BY CollectorFacts DEF TypeOK
  <2>2. LeaseExpires => lease' \in Lease /\ lease'.owner = lease.owner
    BY <2>1 DEF LeaseExpires, Lease
  <2>3. CASE AbandonedLeaseExpires
    BY <2>1, <2>2, <2>3 DEF AbandonedLeaseExpires
  <2>4. CASE WorkingLeaseExpires
    BY <2>1, <2>2, <2>4, CollectorBounds DEF WorkingLeaseExpires
  <2>5. CASE UNCHANGED vars
    BY <2>1, <2>5 DEF vars
  <2>6. QED BY <2>3, <2>4, <2>5
<1>2. stream' = stream /\ logs' = logs
  BY <1>1 DEF ledgerVars, contractVars
<1>3. TypeOK'
  <2>1. LedgerType'
    BY <1>1, CollectorFacts DEF TypeOK, LedgerType, ledgerVars, contractVars
  <2>2. QED BY <1>1, <2>1, CollectorFacts DEF TypeOK
<1>4. BallotsArePrefix' /\ NoBallotSkipped'
  BY <1>1, <1>2, CollectorFacts DEF BallotsArePrefix, NoBallotSkipped
<1>5. VotesLogged' /\ VotesOrdered' /\ (db.cursor <= Len(stream))'
  BY <1>1, <1>2 DEF CollectorInv, VotesLogged, VotesOrdered
<1>6. RunsPlaced' /\ OwnerKnows'
  BY <1>1, <1>2 DEF CollectorInv, RunsPlaced, OwnerKnows
<1>7. QED BY <1>3, <1>4, <1>5, <1>6 DEF CollectorInv, BallotInv

\* The ballots of a prefix do not change when a vote is cast behind it.
LEMMA PrefixStable ==
  ASSUME NEW log \in Seq(Vote), NEW x \in Vote, NEW n \in Nat, NEW ballots,
         OfPrefix(ballots, n, log)
  PROVE  OfPrefix(ballots, n, Append(log, x))
<1>1. n \in 0..Len(log) /\ 1 \in Nat \ {0} /\ n <= Len(Append(log, x))
  BY DEF OfPrefix
<1>2. \A a \in Accounts : LastBallot(Append(log, x), 1, n, a) = LastBallot(log, 1, n, a)
  BY <1>1, LastBallotStable
<1>3. QED BY <1>1, <1>2 DEF OfPrefix

\* What runs hold and know of events and votes is not affected by further ones.
LEMMA EmitKeeps ==
  ASSUME CollectorInv, NEW e \in Event, stream' = Append(stream, e),
         logs' \in [Rounds -> Seq(Vote)],
         \A k \in Rounds : logs'[k] = logs[k] \/ \E x \in Vote : logs'[k] = Append(logs[k], x),
         UNCHANGED <<lease, db, pc, job>>
  PROVE  BallotsArePrefix' /\ NoBallotSkipped' /\ RunsPlaced' /\ OwnerKnows'
         /\ db'.cursor <= Len(stream')
<1>1. /\ stream \in Seq(Event) /\ Len(stream) \in Nat
      /\ Len(stream') = Len(stream) + 1
      /\ \A i \in 1..Len(stream) : stream'[i] = stream[i]
  BY CollectorFacts
<1>2. ASSUME NEW k \in Rounds, NEW n \in Nat, NEW ballots, OfPrefix(ballots, n, logs[k])
      PROVE  OfPrefix(ballots, n, logs'[k])
  BY <1>2, CollectorFacts, PrefixStable
<1>3. BallotsArePrefix'
  <2>1. ASSUME NEW k \in Rounds
        PROVE  OfPrefix(db.ballots[k], db.last[k], logs'[k])
    <3>1. db.last[k] \in Nat /\ OfPrefix(db.ballots[k], db.last[k], logs[k])
      BY CollectorFacts, DbFields DEF BallotsArePrefix, OfPrefix
    <3>2. QED BY <1>2, <3>1
  <2>2. QED BY <2>1 DEF BallotsArePrefix, OfPrefix
<1>4. db.cursor \in Nat /\ db.cursor <= Len(stream)
  BY CollectorFacts, DbFields DEF CollectorInv
<1>5. NoBallotSkipped' /\ db'.cursor <= Len(stream')
  BY <1>1, <1>4, CollectorFacts DEF NoBallotSkipped
<1>6. ASSUME NEW r \in Runs
      PROVE  /\ Placed(job[r], pc[r], stream', logs')
             /\ lease.owner = r => Knows(job[r], pc[r], stream', db.last)
  <2>1. /\ Placed(job[r], pc[r], stream, logs)
        /\ lease.owner = r => Knows(job[r], pc[r], stream, db.last)
        /\ job[r].next \in Nat /\ job[r].write.round \in Rounds /\ job[r].write.count \in Nat
    BY CollectorFacts, JobFields
  <2>2. /\ job[r].next <= Len(stream) /\ job[r].todo \subseteq 1..Len(stream)
        /\ job[r].next <= Len(stream') /\ job[r].todo \subseteq 1..Len(stream')
    BY <1>1, <2>1 DEF Placed
  <2>3. InPage(job[r], pc[r]) => First(job[r], stream') = First(job[r], stream)
    BY <1>1, FirstFacts DEF First
  <2>4. OfPrefix(job[r].write.ballots, job[r].write.count, logs[job[r].write.round])
          => OfPrefix(job[r].write.ballots, job[r].write.count, logs'[job[r].write.round])
    BY <1>2, <2>1
  <2>5. Placed(job[r], pc[r], stream', logs')
    BY <2>1, <2>2, <2>3, <2>4 DEF Placed, InPage
  <2>6. /\ \A i \in 1..job[r].next : stream'[i] = stream[i]
        /\ \A n \in job[r].todo : stream'[n] = stream[n]
    BY <1>1, <2>1, <2>2
  <2>7. lease.owner = r => Knows(job[r], pc[r], stream', db.last)
    BY <2>1, <2>6 DEF Knows, Covered
  <2>8. QED BY <2>5, <2>7
<1>7. RunsPlaced' /\ OwnerKnows'
  BY <1>6 DEF RunsPlaced, OwnerKnows
<1>8. QED BY <1>3, <1>5, <1>7

\* A step of the ledger, the operator's or a voter's: the event it emits, with the
\* rounds started, and the vote it adds to an open round, if any.
LEMMA LedgerCases ==
  ASSUME CollectorInv, Ledger
  PROVE  /\ UNCHANGED <<lease, db, pc, job, faults, stalls>>
         /\ clock \in 0..MaxTime /\ clock' \in 0..MaxTime
         /\ LedgerType'
         /\ \/ UNCHANGED <<stream, logs, starts>>
            \/ /\ UNCHANGED logs
               /\ \E e \in Event :
                    /\ e.tag # "voted" /\ e.rounds = StartedRounds(starts')
                    /\ stream' = Append(stream, e)
            \/ /\ UNCHANGED <<clock, starts>>
               /\ \E k \in Rounds, x \in Vote, e \in Event :
                    /\ starts[k] # None /\ ~ Ended(k)
                    /\ logs' = [logs EXCEPT ![k] = Append(@, x)]
                    /\ e.tag = "voted" /\ e.round = k /\ e.count = Len(logs[k]) + 1
                    /\ e.rounds = StartedRounds(starts)
                    /\ stream' = Append(stream, e)
<1> TypeOK /\ LedgerType
  BY CollectorFacts DEF TypeOK
<1> clock \in 0..MaxTime /\ MaxTime \in Nat /\ stream \in Seq(Event)
  BY LedgerBounds DEF LedgerType
<1>1. UNCHANGED <<lease, db, pc, job, faults, stalls>>
  BY DEF Ledger
<1>2. ASSUME NEW tag \in Tags \ {"voted"}, NEW k \in Rounds, NEW exact \in BOOLEAN,
             Emit(tag, k, 0, exact), UNCHANGED <<clock, logs, tally>>,
             outcome' \in Outcomes, starts' \in [Rounds -> Nat \cup {None}], tied' \in BOOLEAN
      PROVE  /\ LedgerType' /\ clock' \in 0..MaxTime /\ UNCHANGED logs
             /\ \E e \in Event :
                  /\ e.tag # "voted" /\ e.rounds = StartedRounds(starts')
                  /\ stream' = Append(stream, e)
  <2>1. PICK e : e = [tag |-> tag, round |-> k, count |-> 0, exact |-> exact,
                      outcome |-> outcome', rounds |-> StartedRounds(starts')]
    OBVIOUS
  <2>2. e \in Event /\ e.tag # "voted" /\ e.rounds = StartedRounds(starts')
    BY <1>2, <2>1 DEF Event, StartedRounds
  <2>3. stream' = Append(stream, e)
    BY <1>2, <2>1 DEF Emit
  <2>4. stream' \in Seq(Event)
    BY <2>2, <2>3
  <2>5. LedgerType'
    BY <1>2, <2>4 DEF LedgerType
  <2>6. QED BY <1>2, <2>2, <2>3, <2>5
<1>3. ASSUME NEW passed \in BOOLEAN, RecordOutcome(passed)
      PROVE  /\ LedgerType' /\ clock' \in 0..MaxTime /\ UNCHANGED logs
             /\ \E e \in Event :
                  /\ e.tag # "voted" /\ e.rounds = StartedRounds(starts')
                  /\ stream' = Append(stream, e)
  <2>1. outcome' \in Outcomes /\ starts' = starts /\ tied' = tied
    BY <1>3 DEF RecordOutcome, Outcomes
  <2>2. Emit("outcome", 1, 0, FALSE) /\ UNCHANGED <<clock, logs, tally>>
    BY <1>3 DEF RecordOutcome
  <2>3. "outcome" \in Tags \ {"voted"} /\ 1 \in Rounds
    BY DEF Tags, Rounds
  <2>4. QED BY <1>2, <2>1, <2>2, <2>3 DEF LedgerType
<1>4. ASSUME NEW k \in Rounds, StartRound(k)
      PROVE  /\ LedgerType' /\ clock' \in 0..MaxTime /\ UNCHANGED logs
             /\ \E e \in Event :
                  /\ e.tag # "voted" /\ e.rounds = StartedRounds(starts')
                  /\ stream' = Append(stream, e)
  <2>1. outcome' \in Outcomes /\ tied' \in BOOLEAN /\ starts' \in [Rounds -> Nat \cup {None}]
    BY <1>4 DEF StartRound, LedgerType
  <2>2. Emit("started", k, 0, FALSE) /\ UNCHANGED <<clock, logs, tally>>
    BY <1>4 DEF StartRound
  <2>3. "started" \in Tags \ {"voted"}
    BY DEF Tags
  <2>4. QED BY <1>2, <2>1, <2>2, <2>3
<1>5. ASSUME NEW k \in Rounds, NEW exact \in BOOLEAN, RecordTie(k, exact)
      PROVE  /\ LedgerType' /\ clock' \in 0..MaxTime /\ UNCHANGED logs
             /\ \E e \in Event :
                  /\ e.tag # "voted" /\ e.rounds = StartedRounds(starts')
                  /\ stream' = Append(stream, e)
  <2>1. outcome' \in Outcomes /\ tied' \in BOOLEAN /\ starts' \in [Rounds -> Nat \cup {None}]
    BY <1>5 DEF RecordTie, LedgerType
  <2>2. Emit("tie", k, 0, exact) /\ UNCHANGED <<clock, logs, tally>>
    BY <1>5 DEF RecordTie
  <2>3. "tie" \in Tags \ {"voted"}
    BY DEF Tags
  <2>4. QED BY <1>2, <2>1, <2>2, <2>3
<1>6. ASSUME ToggleHidden
      PROVE  /\ LedgerType' /\ clock' \in 0..MaxTime /\ UNCHANGED logs
             /\ \E e \in Event :
                  /\ e.tag # "voted" /\ e.rounds = StartedRounds(starts')
                  /\ stream' = Append(stream, e)
  <2>1. outcome' \in Outcomes /\ tied' \in BOOLEAN /\ starts' \in [Rounds -> Nat \cup {None}]
    BY <1>6 DEF ToggleHidden, LedgerType
  <2>2. Emit("toggled", 1, 0, FALSE) /\ UNCHANGED <<clock, logs, tally>>
    BY <1>6 DEF ToggleHidden
  <2>3. "toggled" \in Tags \ {"voted"} /\ 1 \in Rounds
    BY DEF Tags, Rounds
  <2>4. QED BY <1>2, <2>1, <2>2, <2>3
<1>7. ASSUME NEW k \in Rounds, NEW a \in Accounts, NEW b \in Ballots, CastBallot(k, a, b)
      PROVE  /\ LedgerType' /\ clock' \in 0..MaxTime
             /\ UNCHANGED <<clock, starts>> /\ starts[k] # None /\ ~ Ended(k)
             /\ \E x \in Vote, e \in Event :
                  /\ logs' = [logs EXCEPT ![k] = Append(@, x)]
                  /\ e.tag = "voted" /\ e.round = k /\ e.count = Len(logs[k]) + 1
                  /\ e.rounds = StartedRounds(starts)
                  /\ stream' = Append(stream, e)
  <2>1. PICK x \in Vote : logs' = [logs EXCEPT ![k] = Append(@, x)]
    BY <1>7 DEF CastBallot, Vote
  <2>2. logs \in [Rounds -> Seq(Vote)] /\ logs[k] \in Seq(Vote) /\ Len(logs[k]) \in Nat
    BY DEF LedgerType
  <2>3. logs' \in [Rounds -> Seq(Vote)]
    BY <2>1, <2>2
  <2>4. UNCHANGED <<outcome, starts, tied, clock, tally>>
    BY <1>7 DEF CastBallot
  <2>5. PICK e : e = [tag |-> "voted", round |-> k, count |-> Len(logs[k]) + 1,
                      exact |-> FALSE, outcome |-> outcome',
                      rounds |-> StartedRounds(starts')]
    OBVIOUS
  <2>6. Len(logs[k]) + 1 \in Nat
    BY <2>2
  <2>7. e \in Event
    BY <2>4, <2>5, <2>6 DEF Event, StartedRounds, Tags, LedgerType
  <2>8. stream' = Append(stream, e)
    BY <1>7, <2>5 DEF CastBallot, Emit
  <2>9. stream' \in Seq(Event)
    BY <2>7, <2>8
  <2>10. LedgerType'
    BY <2>3, <2>4, <2>9 DEF LedgerType
  <2>11. starts[k] # None /\ ~ Ended(k)
    BY <1>7 DEF CastBallot
  <2>12. e.tag = "voted" /\ e.round = k /\ e.count = Len(logs[k]) + 1
         /\ e.rounds = StartedRounds(starts)
    BY <2>4, <2>5
  <2>13. QED BY <2>1, <2>4, <2>7, <2>8, <2>10, <2>11, <2>12
<1>8. CASE Tick \/ CacheTally
  <2>1. clock' \in 0..MaxTime /\ UNCHANGED <<contractVars, stream>>
    BY <1>8 DEF Tick, CacheTally
  <2>2. tally' \in [passed : BOOLEAN, cached : BOOLEAN]
    BY <1>8 DEF Tick, CacheTally, LedgerType
  <2>3. LedgerType' /\ UNCHANGED <<stream, logs, starts>>
    BY <2>1, <2>2 DEF LedgerType, contractVars
  <2>4. QED BY <1>1, <2>1, <2>3
<1>9. QED BY <1>1, <1>3, <1>4, <1>5, <1>6, <1>7, <1>8 DEF Ledger, Operator

\* The ledger's steps keep the invariant: no event or vote disturbs an earlier one.
LEMMA LedgerSteps ==
  ASSUME CollectorInv, Ledger
  PROVE  CollectorInv'
<1>1. /\ UNCHANGED <<lease, db, pc, job, faults, stalls>>
      /\ LedgerType'
  BY LedgerCases
<1>2. TypeOK'
  BY <1>1, CollectorFacts DEF TypeOK
<1>3. logs \in [Rounds -> Seq(Vote)] /\ stream \in Seq(Event) /\ Len(stream) \in Nat
  BY CollectorFacts
<1>4. logs' \in [Rounds -> Seq(Vote)]
  BY <1>1 DEF LedgerType
<1>5. CASE UNCHANGED <<stream, logs, starts>>
  <2>1. BallotsArePrefix' /\ NoBallotSkipped'
    BY <1>1, <1>5, CollectorFacts DEF BallotsArePrefix, NoBallotSkipped
  <2>2. VotesLogged' /\ VotesOrdered' /\ (db.cursor <= Len(stream))'
    BY <1>1, <1>5 DEF CollectorInv, VotesLogged, VotesOrdered
  <2>3. RunsPlaced' /\ OwnerKnows'
    BY <1>1, <1>5 DEF CollectorInv, RunsPlaced, OwnerKnows
  <2>4. QED BY <1>2, <2>1, <2>2, <2>3 DEF CollectorInv, BallotInv
<1>6. ASSUME UNCHANGED logs, NEW e \in Event, e.tag # "voted", stream' = Append(stream, e)
      PROVE  CollectorInv'
  <2>1. /\ Len(stream') = Len(stream) + 1 /\ stream'[Len(stream) + 1] = e
        /\ \A i \in 1..Len(stream) : stream'[i] = stream[i]
    BY <1>3, <1>6
  <2>2. \A i \in 1..Len(stream') : stream'[i].tag = "voted" => i \in 1..Len(stream)
    BY <1>3, <1>6, <2>1
  <2>3. VotesLogged' /\ VotesOrdered'
    BY <1>6, <2>1, <2>2 DEF CollectorInv, VotesLogged, VotesOrdered
  <2>4. BallotsArePrefix' /\ NoBallotSkipped' /\ RunsPlaced' /\ OwnerKnows'
        /\ db'.cursor <= Len(stream')
    BY <1>1, <1>4, <1>6, EmitKeeps
  <2>5. QED BY <1>2, <2>3, <2>4 DEF CollectorInv, BallotInv
<1>7. ASSUME NEW k \in Rounds, NEW x \in Vote, NEW e \in Event,
             logs' = [logs EXCEPT ![k] = Append(@, x)],
             e.tag = "voted", e.round = k, e.count = Len(logs[k]) + 1,
             stream' = Append(stream, e)
      PROVE  CollectorInv'
  <2>1. /\ Len(stream') = Len(stream) + 1 /\ stream'[Len(stream) + 1] = e
        /\ \A i \in 1..Len(stream) : stream'[i] = stream[i]
    BY <1>3, <1>7
  <2>2. \A n \in Rounds : /\ logs[n] \in Seq(Vote) /\ Len(logs[n]) \in Nat
                          /\ logs'[n] = IF n = k THEN Append(logs[k], x) ELSE logs[n]
    BY <1>3, <1>7
  <2>3. \A n \in Rounds : Len(logs'[n]) = IF n = k THEN Len(logs[k]) + 1 ELSE Len(logs[n])
    <3>1. logs[k] \in Seq(Vote)
      BY <2>2
    <3>2. Len(Append(logs[k], x)) = Len(logs[k]) + 1
      BY <3>1
    <3>3. QED BY <2>2, <3>2
  <2>4. \A i \in 1..Len(stream) : stream[i] \in Event /\ stream[i].round \in Rounds
                                  /\ stream[i].count \in Nat
    BY Events, EventFields
  <2>5. \A i \in 1..Len(stream') : i \in 1..Len(stream) \/ i = Len(stream) + 1
    BY <1>3, <2>1
  <2>6. \A i \in 1..Len(stream) :
          stream[i].tag = "voted" => stream[i].count \in 1..Len(logs[stream[i].round])
    BY DEF CollectorInv, VotesLogged
  <2>7. VotesLogged'
    <3> SUFFICES ASSUME NEW i \in 1..Len(stream'), stream'[i].tag = "voted"
                 PROVE  stream'[i].count \in 1..Len(logs'[stream'[i].round])
      BY DEF VotesLogged
    <3>1. CASE i \in 1..Len(stream)
      <4>1. stream'[i] = stream[i] /\ stream[i].count \in 1..Len(logs[stream[i].round])
        BY <2>1, <2>6, <3>1
      <4>2. QED BY <2>2, <2>3, <2>4, <3>1, <4>1
    <3>2. CASE i = Len(stream) + 1
      BY <1>7, <2>1, <2>2, <2>3, <3>2
    <3>3. QED BY <2>5, <3>1, <3>2
  <2>8. VotesOrdered'
    <3> SUFFICES ASSUME NEW i \in 1..Len(stream'), NEW n \in 1..Len(stream'), i < n,
                        stream'[i].tag = "voted", stream'[n].tag = "voted",
                        stream'[i].round = stream'[n].round
                 PROVE  stream'[i].count < stream'[n].count
      BY DEF VotesOrdered
    <3>1. i \in 1..Len(stream)
      BY <1>3, <2>1
    <3>2. CASE n \in 1..Len(stream)
      BY <2>1, <3>1, <3>2 DEF CollectorInv, VotesOrdered
    <3>3. CASE n = Len(stream) + 1
      <4>1. stream[i].count \in 1..Len(logs[k])
        BY <1>7, <2>1, <2>6, <3>1, <3>3
      <4>2. QED BY <1>7, <2>1, <2>2, <3>1, <3>3, <4>1
    <3>4. QED BY <2>5, <3>2, <3>3
  <2>9. \A n \in Rounds : logs'[n] = logs[n] \/ \E y \in Vote : logs'[n] = Append(logs[n], y)
    BY <2>2
  <2>10. BallotsArePrefix' /\ NoBallotSkipped' /\ RunsPlaced' /\ OwnerKnows'
         /\ db'.cursor <= Len(stream')
    BY <1>1, <1>4, <1>7, <2>9, EmitKeeps
  <2>11. QED BY <1>2, <2>7, <2>8, <2>10 DEF CollectorInv, BallotInv
<1>8. QED BY <1>5, <1>6, <1>7, LedgerCases

-----------------------------------------------------------------------------
(***************************************************************************)
(* Theorems                                                                *)
(***************************************************************************)
\* The invariant holds initially.
LEMMA CollectorInvInit == Init => CollectorInv
<1> SUFFICES ASSUME Init PROVE CollectorInv
  OBVIOUS
<1>1. TypeOK
  BY InitType
<1>2. db = DbInit /\ stream = <<Created>> /\ logs = [k \in Rounds |-> <<>>]
  BY DEF Init, LedgerInit
<1>3. /\ db.cursor = 0 /\ db.last = [k \in Rounds |-> 0]
      /\ db.ballots = [k \in Rounds |-> NoBallots]
  BY <1>2 DEF DbInit
<1>4. BallotsArePrefix
  <2> SUFFICES ASSUME NEW k \in Rounds
               PROVE  OfPrefix(db.ballots[k], db.last[k], logs[k])
    BY DEF BallotsArePrefix, OfPrefix
  <2>1. db.ballots[k] = NoBallots /\ db.last[k] = 0 /\ logs[k] = <<>>
    BY <1>2, <1>3
  <2>2. \A a \in Accounts : LastBallot(<<>>, 1, 0, a) = {}
    BY DEF LastBallot, CastBy
  <2>3. QED BY <2>1, <2>2 DEF OfPrefix, NoBallots
<1>5. NoBallotSkipped
  BY <1>3 DEF NoBallotSkipped
<1>6. Len(stream) = 1 /\ stream[1].tag = "created"
  BY <1>2 DEF Created
<1>7. VotesLogged /\ VotesOrdered
  BY <1>6 DEF VotesLogged, VotesOrdered
<1>8. lease.owner = NoRun
  BY DEF Init, LeaseInit, LeaseFree
<1>9. OwnerKnows
  BY <1>8, RunsAssumption DEF OwnerKnows
<1>10. RunsPlaced
  <2> SUFFICES ASSUME NEW r \in Runs PROVE Placed(job[r], pc[r], stream, logs)
    BY DEF RunsPlaced
  <2>1. job[r] = JobInit /\ pc[r] = "idle"
    BY DEF Init
  <2>2. QED BY <1>6, <2>1 DEF Placed, InPage, JobInit
<1>11. QED BY <1>1, <1>3, <1>4, <1>5, <1>6, <1>7, <1>9, <1>10 DEF CollectorInv, BallotInv

\* Every step keeps it.
LEMMA CollectorInvStep == CollectorInv /\ [Next]_vars => CollectorInv'
<1> SUFFICES ASSUME CollectorInv, [Next]_vars PROVE CollectorInv'
  OBVIOUS
<1>1. CASE Ledger
  BY <1>1, LedgerSteps
<1>2. ASSUME NEW r \in Runs, Work(r)
      PROVE  CollectorInv'
  BY <1>2, AcquireStep, ReadCursorStep, FetchPageStep, ProjectionSteps, PhaseSteps,
     CalculateStep, ResolveTieStep, CommitStep, AdvanceStep, FinalizerStarts, RoundSteps,
     EndSteps DEF Work
<1>3. ASSUME NEW r \in Runs, Failure(r)
      PROVE  CollectorInv'
  BY <1>3, EndSteps, AnswerLostStep DEF Failure
<1>4. CASE AbandonedLeaseExpires \/ WorkingLeaseExpires \/ UNCHANGED vars
  BY <1>4, ExpirySteps
<1>5. QED BY <1>1, <1>2, <1>3, <1>4 DEF Next

\* What the collector holds and what its runs know agree with the ledger.
THEOREM CollectorInvariant == Spec => []CollectorInv
<1>1. QED BY CollectorInvInit, CollectorInvStep, PTL DEF Spec

\* However polls overlap, stall and crash, the stored ballots of each round are
\* each voter's last one in a prefix of its votes, and no vote event that the
\* cursor has passed is uncounted.
THEOREM BallotsAreCounted == Spec => []BallotInv
<1>1. CollectorInv => BallotInv
  BY DEF CollectorInv
<1>2. QED BY <1>1, CollectorInvariant, PTL

-----------------------------------------------------------------------------
(***************************************************************************)
(* The results that polls publish implement PublishedElection, for any     *)
(* number of runs, voters, ballots, events and faults.                     *)
(*                                                                         *)
(* A poll decides a round from what it has read at its page's time; by     *)
(* then it has counted every vote of the rounds that had ended.            *)
(***************************************************************************)

-----------------------------------------------------------------------------
(***************************************************************************)
(* The inductive invariant                                                 *)
(***************************************************************************)
\* Round k, opened at these times, has ended at this time.
EndedAt(k, now, opened) == opened[k] # None /\ now >= opened[k] + RoundDays[k]

\* Every vote of a round has its event, and only a started round has votes.
VotesShown ==
  \A k \in Rounds :
    /\ Len(logs[k]) > 0 =>
         \E i \in 1..Len(stream) :
           /\ stream[i].tag = "voted" /\ stream[i].round = k
           /\ stream[i].count = Len(logs[k])
    /\ starts[k] = None => logs[k] = <<>>

\* The rounds that events and tables show have been started.
ShownStarted ==
  /\ db.rounds \subseteq StartedRounds(starts)
  /\ \A i \in 1..Len(stream) : stream[i].rounds \subseteq StartedRounds(starts)

\* Only a round whose deadline has passed is closed.
ClosedEnded == \A k \in Rounds : Closed(k) => Ended(k)

\* All votes of the rounds that had ended are behind a job.
Listed(j, events, opened) ==
  \A k \in Rounds : EndedAt(k, j.now, opened) =>
    \A i \in 1..Len(events) : events[i].tag = "voted" /\ events[i].round = k => i <= j.next

\* What a job knows of the ledger's time, whether or not its run has the lease.
Timely(j, step, events, opened, time) ==
  /\ j.now <= time
  /\ (InPage(j, step) \/ step = "advance") /\ ~ j.full => Listed(j, events, opened)
  /\ step = "latest" => opened[j.round] # None
  /\ step = "superseded" => opened[j.round] # None /\ EndedAt(1, j.now, opened)
  /\ step = "commit" /\ ~ j.write.shown => opened[j.round] # None

\* Done with the stream's pages.
PastPages(j, step) ==
  \/ step \in {"gate", "active", "superseded", "latest"}
  \/ step \in {"phase", "setPhase", "commit"} /\ j.stage # "events"

\* The rounds that had ended are counted to the last vote.
AllCounted(now, opened, votes, last) ==
  \A k \in Rounds : EndedAt(k, now, opened) => last[k] = Len(votes[k])

\* A write is a provisional result, a resolution, or the verdict on an ended round.
Justified(stage, w, now, opened, last, results) ==
  \/ /\ stage = "events" /\ w.status = LiveStatus(w.round)
     /\ results[w.round] \notin ClosedResults
  \/ /\ stage = "events" /\ w.status = "FINAL"
     /\ results[w.round] = "TIE_UNRESOLVED"
  \/ /\ stage = "rounds" /\ w.status = Verdict(w.round, w.ballots)
     /\ results[w.round] \notin ClosedResults
     /\ EndedAt(w.round, now, opened) /\ w.count = last[w.round]
     /\ w.round = 2 => results[1] = "ROUND_1_FAILED"

\* What the lease's owner may rely on when it decides.
MayDecide(j, step, opened, votes, last, results) ==
  /\ PastPages(j, step) => AllCounted(j.now, opened, votes, last)
  /\ step = "commit" => Justified(j.stage, j.write, j.now, opened, last, results)

RunsTimely == \A r \in Runs : Timely(job[r], pc[r], stream, starts, clock)

OwnerDecides ==
  \A r \in Runs : lease.owner = r => MayDecide(job[r], pc[r], starts, logs, db.last, db.results)

ResultsInv ==
  /\ CollectorInv
  /\ VotesShown /\ ShownStarted /\ ClosedEnded
  /\ RunsTimely
  /\ OwnerDecides

-----------------------------------------------------------------------------
(***************************************************************************)
(* A run's step                                                            *)
(***************************************************************************)
\* The parts of the invariant that a run's step relies on.
LEMMA ResultsFacts ==
  ASSUME ResultsInv
  PROVE  /\ CollectorInv /\ ShownStarted /\ ClosedEnded /\ VotesShown
         /\ \A r \in Runs :
              /\ Timely(job[r], pc[r], stream, starts, clock)
              /\ lease.owner = r => MayDecide(job[r], pc[r], starts, logs, db.last, db.results)
BY DEF ResultsInv, RunsTimely, OwnerDecides

\* A run's step keeps the invariant if its own job fits, what it stores has been
\* started or ended, and no other run has the lease when counts or results change.
LEMMA ResultsStep ==
  ASSUME ResultsInv, CollectorInv', NEW r \in Runs, NEW j \in Job, NEW step \in PCs,
         Moves(r, j, step), UNCHANGED ledgerVars,
         \A s \in Runs \ {r} :
           lease'.owner = s =>
             lease.owner = s /\ db'.last = db.last /\ db'.results = db.results,
         db'.rounds \subseteq StartedRounds(starts), ClosedEnded',
         Timely(j, step, stream, starts, clock),
         lease'.owner = r => MayDecide(j, step, starts, logs, db'.last, db'.results)
  PROVE  ResultsInv'
<1>1. /\ job'[r] = j /\ pc'[r] = step
      /\ \A s \in Runs \ {r} : job'[s] = job[s] /\ pc'[s] = pc[s]
  BY ResultsFacts, CollectorFacts DEF TypeOK, Moves
<1>2. stream' = stream /\ logs' = logs /\ starts' = starts /\ clock' = clock
  BY DEF ledgerVars, contractVars
<1>3. VotesShown' /\ ShownStarted'
  BY <1>2, ResultsFacts DEF VotesShown, ShownStarted
<1>4. RunsTimely'
  <2> SUFFICES ASSUME NEW s \in Runs PROVE Timely(job'[s], pc'[s], stream', starts', clock')
    BY DEF RunsTimely
  <2>1. CASE s = r
    BY <1>1, <1>2, <2>1
  <2>2. CASE s # r
    BY <1>1, <1>2, <2>2, ResultsFacts
  <2>3. QED BY <2>1, <2>2
<1>5. OwnerDecides'
  <2> SUFFICES ASSUME NEW s \in Runs, lease'.owner = s
               PROVE  MayDecide(job'[s], pc'[s], starts', logs', db'.last, db'.results)
    BY DEF OwnerDecides
  <2>1. CASE s = r
    BY <1>1, <1>2, <2>1
  <2>2. CASE s # r
    BY <1>1, <1>2, <2>2, ResultsFacts
  <2>3. QED BY <2>1, <2>2
<1>6. QED BY <1>3, <1>4, <1>5 DEF ResultsInv

\* Run r goes on in a way that fits the ledger's time, these counts and results.
GoesTimely(r, last, results) ==
  \E j \in Job, step \in PCs :
    /\ Moves(r, j, step)
    /\ Timely(j, step, stream, starts, clock)
    /\ lease.owner = r => MayDecide(j, step, starts, logs, last, results)

\* A step that goes on and leaves counts and results alone keeps the invariant.
LEMMA QuietlyTimely ==
  ASSUME ResultsInv, CollectorInv', NEW r \in Runs, GoesTimely(r, db.last, db.results),
         UNCHANGED ledgerVars,
         lease'.owner = lease.owner \/ lease'.owner = NoRun,
         db'.last = db.last, db'.results = db.results,
         db'.rounds \subseteq StartedRounds(starts)
  PROVE  ResultsInv'
<1>1. PICK j \in Job, step \in PCs :
        /\ Moves(r, j, step)
        /\ Timely(j, step, stream, starts, clock)
        /\ lease.owner = r => MayDecide(j, step, starts, logs, db.last, db.results)
  BY DEF GoesTimely
<1>2. lease'.owner = r => MayDecide(j, step, starts, logs, db'.last, db'.results)
  BY <1>1, RunsAssumption
<1>3. ClosedEnded'
  BY ResultsFacts DEF ClosedEnded, Closed, Ended, Deadline, ledgerVars, contractVars
<1>4. \A s \in Runs \ {r} :
        lease'.owner = s => lease.owner = s /\ db'.last = db.last /\ db'.results = db.results
  BY RunsAssumption
<1>5. QED BY <1>1, <1>2, <1>3, <1>4, ResultsStep

\* A run may always go on to a step where nothing is decided with the job it has.
LEMMA GoesUndecided ==
  ASSUME ResultsInv, NEW r \in Runs,
         NEW step \in {"cursor", "page", "idle", "release", "done", "dead"},
         UNCHANGED job, Goto(r, step), NEW last, NEW results
  PROVE  GoesTimely(r, last, results)
<1>1. Moves(r, job[r], step) /\ job[r] \in Job /\ step \in PCs
  BY ResultsFacts, CollectorFacts DEF Moves, Goto, TypeOK, PCs, Steps
<1>2. job[r].now <= clock
  BY ResultsFacts DEF Timely
<1>3. Timely(job[r], step, stream, starts, clock)
  BY <1>2 DEF Timely, InPage
<1>4. MayDecide(job[r], step, starts, logs, last, results)
  BY DEF MayDecide, PastPages
<1>5. QED BY <1>1, <1>3, <1>4 DEF GoesTimely

\* A run keeps what it knows of the time while it stays in the pages, or past them.
LEMMA GoesAlong ==
  ASSUME ResultsInv, NEW r \in Runs, NEW step \in PCs, UNCHANGED job, Goto(r, step),
         step \notin {"superseded", "latest", "commit"},
         InPage(job[r], step) => InPage(job[r], pc[r]),
         step = "advance" => InPage(job[r], pc[r]),
         PastPages(job[r], step) => PastPages(job[r], pc[r])
  PROVE  GoesTimely(r, db.last, db.results)
<1>1. Moves(r, job[r], step) /\ job[r] \in Job
  BY ResultsFacts, CollectorFacts DEF Moves, Goto, TypeOK
<1>2. Timely(job[r], step, stream, starts, clock)
  BY ResultsFacts DEF Timely
<1>3. lease.owner = r => MayDecide(job[r], step, starts, logs, db.last, db.results)
  BY ResultsFacts DEF MayDecide
<1>4. QED BY <1>1, <1>2, <1>3 DEF GoesTimely

\* An action done, the page's time stands.
LEMMA FinishTimely ==
  ASSUME ResultsInv, NEW r \in Runs, InPage(job[r], pc[r]), FinishAction(r),
         NEW last, NEW results
  PROVE  GoesTimely(r, last, results)
<1> DEFINE rest == job[r].todo \ {Earliest(job[r].todo)}
           j == [job[r] EXCEPT !.todo = rest]
           step == IF rest = {} THEN "advance" ELSE "cache"
<1>1. job[r] \in Job /\ Timely(job[r], pc[r], stream, starts, clock)
  BY ResultsFacts, CollectorFacts
<1>2. j \in Job
  <2>1. rest \in SUBSET Nat
    BY <1>1, JobFields
  <2> HIDE DEF rest
  <2>2. QED BY <1>1, <2>1, JobUpdates
<1>3. j.now = job[r].now /\ j.next = job[r].next /\ j.full = job[r].full
  BY <1>1 DEF Job
<1>4. Moves(r, j, step)
  BY ResultsFacts, CollectorFacts DEF Moves, FinishAction, Goto, TypeOK
<1>5. step \in {"advance", "cache"} /\ step \in PCs
  BY DEF PCs, Steps
<1> HIDE DEF j, step, rest
<1>6. Timely(j, step, stream, starts, clock)
  BY <1>1, <1>3, <1>5 DEF Timely, Listed
<1>7. MayDecide(j, step, starts, logs, last, results)
  BY <1>5 DEF MayDecide, PastPages
<1>8. QED BY <1>2, <1>4, <1>5, <1>6, <1>7 DEF GoesTimely

\* A phase is set in the pages, or past them.
LEMMA SetPhaseTimely ==
  ASSUME ResultsInv, NEW r \in Runs, NEW stage \in {"events", "gate", "rounds"},
         NEW phase \in Statuses, SetPhase(r, stage, phase), NEW last, NEW results,
         stage = "events" => InPage(job[r], pc[r]),
         lease.owner = r /\ stage # "events" => AllCounted(job[r].now, starts, logs, last)
  PROVE  GoesTimely(r, last, results)
<1> DEFINE j == [job[r] EXCEPT !.stage = stage, !.phase = phase]
<1>1. job[r] \in Job /\ Timely(job[r], pc[r], stream, starts, clock)
  BY ResultsFacts, CollectorFacts
<1>2. j \in Job
  BY <1>1, JobUpdates
<1>3. j.stage = stage /\ j.next = job[r].next /\ j.now = job[r].now /\ j.full = job[r].full
  BY <1>1 DEF Job
<1>4. Moves(r, j, "phase")
  <2>1. job' = [job EXCEPT ![r] = j]
    BY ResultsFacts, CollectorFacts DEF SetPhase, TypeOK
  <2>2. QED BY <2>1 DEF Moves, SetPhase, Goto
<1>5. "phase" \in PCs
  BY DEF PCs, Steps
<1> HIDE DEF j
<1>6. Timely(j, "phase", stream, starts, clock)
  BY <1>1, <1>3 DEF Timely, Listed, InPage
<1>7. lease.owner = r => MayDecide(j, "phase", starts, logs, last, results)
  BY <1>3 DEF MayDecide, PastPages
<1>8. QED BY <1>2, <1>4, <1>5, <1>6, <1>7 DEF GoesTimely

\* After a phase a poll is still in the pages, or past them.
LEMMA PhaseTimely ==
  ASSUME ResultsInv, NEW r \in Runs, pc[r] \in {"phase", "setPhase"}, AfterPhase(r)
  PROVE  GoesTimely(r, db.last, db.results)
<1>1. CASE job[r].stage = "events"
  <2>1. InPage(job[r], pc[r]) /\ AfterProjection(r)
    BY <1>1 DEF InPage, AfterPhase
  <2>2. CASE FinishAction(r)
    BY <2>1, <2>2, FinishTimely
  <2>3. CASE UNCHANGED job /\ (Goto(r, "calculate") \/ Goto(r, "tie"))
    BY <2>1, <2>3, GoesAlong DEF PCs, Steps, PastPages
  <2>4. QED BY <2>1, <2>2, <2>3 DEF AfterProjection
<1>2. CASE job[r].stage = "gate"
  <2>1. Goto(r, "active") /\ UNCHANGED job
    BY <1>2 DEF AfterPhase
  <2>2. QED BY <1>2, <2>1, GoesAlong DEF PCs, Steps, PastPages, InPage
<1>3. CASE job[r].stage = "rounds"
  BY <1>3, GoesUndecided DEF AfterPhase
<1>4. job[r].stage \in {"events", "gate", "rounds"}
  BY ResultsFacts, CollectorFacts, JobFields
<1>5. QED BY <1>1, <1>2, <1>3, <1>4

\* A write is prepared with its justification.
LEMMA PrepareTimely ==
  ASSUME ResultsInv, NEW r \in Runs, NEW w \in Write, NEW allowTie \in BOOLEAN,
         Prepare(r, w, allowTie),
         job[r].stage = "events" => InPage(job[r], pc[r]),
         job[r].stage # "events" => PastPages(job[r], pc[r]),
         ~ w.shown => starts[job[r].round] # None,
         ~ Refused(w, allowTie) =>
           Justified(job[r].stage, w, job[r].now, starts, db.last, db.results)
  PROVE  GoesTimely(r, db.last, db.results)
<1>1. CASE Refused(w, allowTie)
  BY <1>1, GoesUndecided DEF Prepare, Fail
<1>2. CASE ~ Refused(w, allowTie)
  <2> DEFINE j == [job[r] EXCEPT !.write = w]
  <2>1. /\ job[r] \in Job /\ Timely(job[r], pc[r], stream, starts, clock)
        /\ lease.owner = r => MayDecide(job[r], pc[r], starts, logs, db.last, db.results)
    BY ResultsFacts, CollectorFacts
  <2>2. j \in Job
    BY <2>1, JobUpdates
  <2>3. /\ j.stage = job[r].stage /\ j.next = job[r].next /\ j.now = job[r].now
        /\ j.full = job[r].full /\ j.round = job[r].round /\ j.write = w
    BY <2>1 DEF Job
  <2>4. Moves(r, j, "commit") /\ "commit" \in PCs
    BY <1>2, ResultsFacts, CollectorFacts DEF Moves, Prepare, Goto, TypeOK, PCs, Steps
  <2> HIDE DEF j
  <2>5. Timely(j, "commit", stream, starts, clock)
    BY <2>1, <2>3 DEF Timely, Listed, InPage
  <2>6. lease.owner = r => MayDecide(j, "commit", starts, logs, db.last, db.results)
    BY <1>2, <2>1, <2>3 DEF MayDecide, PastPages
  <2>7. QED BY <2>2, <2>4, <2>5, <2>6 DEF GoesTimely
<1>3. QED BY <1>1, <1>2

-----------------------------------------------------------------------------
(***************************************************************************)
(* A poll's steps on the stream                                            *)
(***************************************************************************)
\* Before its page a poll decides nothing.
LEMMA EarlySteps ==
  ASSUME ResultsInv, CollectorInv', NEW r \in Runs, Acquire(r) \/ ReadCursor(r)
  PROVE  ResultsInv'
<1>1. /\ UNCHANGED <<ledgerVars, db>>
      /\ db.rounds \subseteq StartedRounds(starts) /\ ClosedEnded'
  BY ResultsFacts DEF Acquire, ReadCursor, ShownStarted, ClosedEnded, Closed, Ended, Deadline,
     ledgerVars, contractVars
<1>2. job[r] \in Job /\ Timely(job[r], pc[r], stream, starts, clock)
  BY ResultsFacts, CollectorFacts
<1>3. CASE Acquire(r)
  <2>1. Moves(r, job[r], "cursor") /\ "cursor" \in PCs /\ lease'.owner = r
    BY <1>3, ResultsFacts, CollectorFacts
    DEF Acquire, AcquireLease, Moves, Goto, TypeOK, PCs, Steps
  <2>2. /\ Timely(job[r], "cursor", stream, starts, clock)
        /\ MayDecide(job[r], "cursor", starts, logs, db.last, db.results)
    BY <1>2 DEF Timely, MayDecide, InPage, PastPages
  <2>3. QED BY <1>1, <1>2, <2>1, <2>2, ResultsStep
<1>4. CASE ReadCursor(r)
  <2> DEFINE j == [job[r] EXCEPT !.next = db.cursor]
  <2>1. j \in Job
    BY <1>2, JobUpdates, ResultsFacts, CollectorFacts, DbFields
  <2>2. j.now = job[r].now
    BY <1>2 DEF Job
  <2>3. Moves(r, j, "page") /\ "page" \in PCs /\ lease' = lease
    BY <1>4, ResultsFacts, CollectorFacts DEF ReadCursor, Moves, Goto, TypeOK, PCs, Steps
  <2> HIDE DEF j
  <2>4. /\ Timely(j, "page", stream, starts, clock)
        /\ MayDecide(j, "page", starts, logs, db.last, db.results)
    BY <1>2, <2>2 DEF Timely, MayDecide, InPage, PastPages
  <2>5. GoesTimely(r, db.last, db.results)
    BY <2>1, <2>3, <2>4 DEF GoesTimely
  <2>6. QED BY <1>1, <2>3, <2>5, QuietlyTimely
<1>5. QED BY <1>3, <1>4

\* Where every vote event is counted, every round is counted to its last vote.
LEMMA EventsCounted ==
  ASSUME ResultsInv, NEW k \in Rounds,
         \A i \in 1..Len(stream) :
           stream[i].tag = "voted" /\ stream[i].round = k => Counted(stream[i], db.last)
  PROVE  db.last[k] = Len(logs[k])
<1>1. /\ db.last[k] \in Nat /\ Len(logs[k]) \in Nat /\ db.last[k] <= Len(logs[k])
  BY ResultsFacts, CollectorFacts, DbFields DEF BallotsArePrefix
<1>2. CASE Len(logs[k]) = 0
  BY <1>1, <1>2
<1>3. CASE Len(logs[k]) > 0
  <2>1. PICK i \in 1..Len(stream) :
          stream[i].tag = "voted" /\ stream[i].round = k /\ stream[i].count = Len(logs[k])
    BY <1>3, ResultsFacts DEF VotesShown
  <2>2. Len(logs[k]) <= db.last[k]
    BY <2>1 DEF Counted
  <2>3. QED BY <1>1, <2>2
<1>4. QED BY <1>1, <1>2, <1>3

\* A page that is not full reaches the stream's end, at the ledger's time.
LEMMA FetchPageTimely ==
  ASSUME ResultsInv, CollectorInv', NEW r \in Runs, FetchPage(r)
  PROVE  ResultsInv'
<1> DEFINE from == job[r].next
           end == PageEnd(from)
           todo == Deduped(from + 1, end)
           full == (end = from + PageSize)
           j == [job[r] EXCEPT !.next = end, !.full = full, !.todo = todo, !.now = clock]
           step == IF end = from THEN "gate" ELSE "cache"
<1>1. /\ pc[r] = "page" /\ job[r] \in Job /\ from \in Nat /\ from <= Len(stream)
      /\ clock \in Nat /\ Len(stream) \in Nat /\ stream \in Seq(Event)
  BY ResultsFacts, CollectorFacts, JobFields DEF FetchPage, Placed
<1>2. /\ end \in Nat /\ todo \subseteq 1..end
  <2> HIDE DEF from
  <2>1. QED BY <1>1, PageBounds
<1>3. /\ (end = from => end = Len(stream))
      /\ (~ full => end = Len(stream))
  <2> HIDE DEF from
  <2>1. QED BY <1>1, CollectorBounds DEF PageEnd
<1>4. j \in Job /\ j.next = end /\ j.now = clock /\ (j.full <=> full)
  <2> HIDE DEF end, todo, full
  <2>1. todo \in SUBSET Nat
    BY <1>2
  <2>2. full \in BOOLEAN
    BY DEF full
  <2>3. j \in Job
    BY <1>1, <1>2, <2>1, <2>2, JobUpdates
  <2>4. j.next = end /\ j.now = clock /\ j.full = full
    BY <1>1 DEF Job
  <2>5. QED BY <2>3, <2>4
<1>5. Moves(r, j, step)
  <2>1. job' = [job EXCEPT ![r].next = end, ![r].full = full, ![r].todo = todo, ![r].now = clock]
    BY Zenon DEF FetchPage
  <2>2. pc' = [pc EXCEPT ![r] = step]
    BY Zenon DEF FetchPage, Goto
  <2>3. job \in [Runs -> Job]
    BY ResultsFacts, CollectorFacts DEF TypeOK
  <2> HIDE DEF end, todo, full, step
  <2>4. job' = [job EXCEPT ![r] = j]
    BY <2>1, <2>3
  <2>5. QED BY <2>2, <2>4 DEF Moves
<1>6. step \in PCs /\ step \in {"gate", "cache"} /\ (step = "gate" => end = from)
  BY DEF PCs, Steps
<1>7. UNCHANGED <<lease, ledgerVars, db>>
  BY DEF FetchPage
<1> HIDE DEF end, todo, full, j, step
<1>8. Timely(j, step, stream, starts, clock)
  BY <1>1, <1>3, <1>4, <1>6 DEF Timely, Listed
<1>9. ASSUME lease.owner = r
      PROVE  MayDecide(j, step, starts, logs, db.last, db.results)
  <2>1. ASSUME step = "gate"
        PROVE  AllCounted(j.now, starts, logs, db.last)
    <3>1. \A i \in 1..Len(stream) : Counted(stream[i], db.last)
      BY <1>1, <1>3, <1>6, <1>9, <2>1, ResultsFacts, CollectorFacts DEF Knows
    <3>2. QED BY <3>1, EventsCounted DEF AllCounted
  <2>2. QED BY <1>6, <2>1 DEF MayDecide, PastPages
<1>10. GoesTimely(r, db.last, db.results)
  BY <1>4, <1>5, <1>6, <1>8, <1>9 DEF GoesTimely
<1>11. QED BY <1>7, <1>10, QuietlyTimely, ResultsFacts DEF ShownStarted

\* Events show started rounds only.
LEMMA ProjectionTimely ==
  ASSUME ResultsInv, CollectorInv', NEW r \in Runs,
         InitializeCache(r) \/ ProjectElection(r) \/ ProjectRounds(r)
  PROVE  ResultsInv'
<1> db \in Db /\ lease \in Lease /\ CollectorInv
  BY ResultsFacts, CollectorFacts
<1> db.rounds \subseteq StartedRounds(starts)
  BY ResultsFacts DEF ShownStarted
<1>1. CASE InitializeCache(r)
  <2>1. UNCHANGED <<ledgerVars, db>> /\ UNCHANGED job /\ InPage(job[r], pc[r])
    BY <1>1 DEF InitializeCache, InPage, Fail
  <2>2. Goto(r, "election") \/ Goto(r, "release")
    BY <1>1 DEF InitializeCache, Fail
  <2>3. lease'.owner = lease.owner
    BY <1>1, RenewFacts DEF InitializeCache
  <2>4. GoesTimely(r, db.last, db.results)
    BY <2>1, <2>2, GoesAlong, GoesUndecided DEF PCs, Steps, PastPages
  <2>5. QED BY <2>1, <2>3, <2>4, QuietlyTimely
<1>2. CASE ProjectElection(r)
  <2>1. /\ UNCHANGED <<lease, ledgerVars, job>> /\ InPage(job[r], pc[r])
        /\ Goto(r, "rounds")
    BY <1>2 DEF ProjectElection, InPage
  <2>2. db'.last = db.last /\ db'.results = db.results /\ db'.rounds = db.rounds
    BY <1>2 DEF ProjectElection, Db
  <2>3. GoesTimely(r, db.last, db.results)
    BY <2>1, GoesAlong DEF PCs, Steps, PastPages
  <2>4. QED BY <2>1, <2>2, <2>3, QuietlyTimely
<1>3. CASE ProjectRounds(r)
  <2>1. UNCHANGED <<lease, ledgerVars>> /\ InPage(job[r], pc[r])
    BY <1>3 DEF ProjectRounds, InPage
  <2>2. Current(r).rounds \subseteq StartedRounds(starts)
    BY <2>1, FirstFacts, ResultsFacts DEF ShownStarted, First
  <2>3. /\ db'.last = db.last /\ db'.results = db.results
        /\ db'.rounds = db.rounds \cup Current(r).rounds
    BY <1>3 DEF ProjectRounds, Db
  <2>4. DerivedStatus(Current(r)) \in Statuses
    BY <2>1, FirstFacts, StatusTypes
  <2>5. GoesTimely(r, db.last, db.results)
    BY <1>3, <2>1, <2>4, SetPhaseTimely DEF ProjectRounds
  <2>6. QED BY <2>1, <2>2, <2>3, <2>5, QuietlyTimely
<1>4. QED BY <1>1, <1>2, <1>3

\* A phase decides no round.
LEMMA PhaseStepsTimely ==
  ASSUME ResultsInv, CollectorInv', NEW r \in Runs, ReadPhase(r) \/ WritePhase(r)
  PROVE  ResultsInv'
<1> db \in Db /\ CollectorInv
  BY ResultsFacts, CollectorFacts
<1> db.rounds \subseteq StartedRounds(starts)
  BY ResultsFacts DEF ShownStarted
<1>1. CASE ReadPhase(r)
  <2>1. UNCHANGED <<lease, ledgerVars, db>> /\ pc[r] = "phase"
    BY <1>1 DEF ReadPhase
  <2>2. CASE Goto(r, "setPhase") /\ UNCHANGED job
    <3>1. GoesTimely(r, db.last, db.results)
      BY <2>1, <2>2, GoesAlong DEF PCs, Steps, InPage, PastPages
    <3>2. QED BY <2>1, <3>1, QuietlyTimely
  <2>3. CASE AfterPhase(r)
    <3>1. GoesTimely(r, db.last, db.results)
      BY <2>1, <2>3, PhaseTimely
    <3>2. QED BY <2>1, <3>1, QuietlyTimely
  <2>4. QED BY <1>1, <2>2, <2>3 DEF ReadPhase
<1>2. CASE WritePhase(r)
  <2>1. UNCHANGED <<lease, ledgerVars>> /\ pc[r] = "setPhase" /\ AfterPhase(r)
    BY <1>2 DEF WritePhase
  <2>2. db'.last = db.last /\ db'.results = db.results /\ db'.rounds = db.rounds
    BY <1>2 DEF WritePhase, Db
  <2>3. GoesTimely(r, db.last, db.results)
    BY <2>1, PhaseTimely
  <2>4. QED BY <2>1, <2>2, <2>3, QuietlyTimely
<1>3. QED BY <1>1, <1>2

\* A calculation's write is provisional; a resolution's replaces a tie.
LEMMA CalculationsTimely ==
  ASSUME ResultsInv, CollectorInv', NEW r \in Runs, Calculate(r) \/ ResolveTie(r)
  PROVE  ResultsInv'
<1>1. UNCHANGED <<lease, ledgerVars, db>> /\ InPage(job[r], pc[r])
  BY DEF Calculate, ResolveTie, InPage
<1>2. job[r].stage = "events" /\ Current(r) \in Event /\ Current(r).round \in Rounds
      /\ Current(r).count \in Nat
  BY <1>1, ResultsFacts, CollectorFacts, FirstFacts, EventFields DEF Placed, Calculate, ResolveTie
<1>3. CASE FinishAction(r)
  <2>1. GoesTimely(r, db.last, db.results)
    BY <1>1, <1>3, FinishTimely
  <2>2. QED BY <1>1, <2>1, QuietlyTimely, ResultsFacts DEF ShownStarted
<1>4. CASE Fail(r)
  <2>1. GoesTimely(r, db.last, db.results)
    BY <1>4, GoesUndecided DEF Fail
  <2>2. QED BY <1>1, <2>1, QuietlyTimely, ResultsFacts DEF ShownStarted
<1>5. CASE Calculate(r) /\ ~ FinishAction(r)
  <2> DEFINE k == Current(r).round
             n == Current(r).count
             w == [round |-> k, status |-> LiveStatus(k), count |-> n,
                   ballots |-> Merged(k, n), shown |-> TRUE]
  <2>1. ~ (n <= db.last[k]) /\ Prepare(r, w, FALSE)
    BY <1>5 DEF Calculate
  <2>2. w \in Write
    <3>1. db.last[k] <= n
      BY <1>2, <2>1, ResultsFacts, CollectorFacts, DbFields
    <3>2. n <= Len(logs[k])
      <4>1. PICK i \in 1..Len(stream) : Current(r) = stream[i]
        BY <1>1, ResultsFacts, FirstFacts
      <4>2. Current(r).tag = "voted"
        BY <1>1, <1>5, ResultsFacts, CollectorFacts, FirstFacts DEF Placed, Calculate
      <4>3. n \in 1..Len(logs[k])
        BY <4>1, <4>2, ResultsFacts DEF CollectorInv, VotesLogged
      <4>4. QED BY <4>3
    <3>3. Merged(k, n) \in BallotSets
      BY <1>2, <3>1, <3>2, ResultsFacts, MergedIsPrefix
    <3>4. QED BY <1>2, <3>3, StatusTypes DEF Write
  <2>3. w.round = k /\ w.status = LiveStatus(k) /\ w.shown
    OBVIOUS
  <2> HIDE DEF w, k, n
  <2>4. ~ Refused(w, FALSE) =>
          Justified(job[r].stage, w, job[r].now, starts, db.last, db.results)
    BY <1>2, <2>3 DEF Refused, Closed, Justified
  <2>5. GoesTimely(r, db.last, db.results)
    BY <1>1, <1>2, <2>1, <2>2, <2>3, <2>4, PrepareTimely
  <2>6. QED BY <1>1, <2>5, QuietlyTimely, ResultsFacts DEF ShownStarted
<1>6. CASE ResolveTie(r) /\ ~ FinishAction(r) /\ ~ Fail(r)
  <2> DEFINE k == Current(r).round
  <2>1. PICK w : w = Restated(k, "FINAL", TRUE)
    OBVIOUS
  <2>2. Prepare(r, w, TRUE) /\ db.results[k] = "TIE_UNRESOLVED"
    BY <1>6, <2>1 DEF ResolveTie
  <2>3. w \in Write
    <3> HIDE DEF k
    <3>1. k \in Rounds /\ "FINAL" \in Statuses
      BY <1>2 DEF k, Statuses
    <3>2. QED BY <2>1, <3>1, ResultsFacts, RestatedFits
  <2>4. w.round = k /\ w.status = "FINAL" /\ w.shown
    BY <2>1 DEF Restated
  <2> HIDE DEF k
  <2>5. Justified(job[r].stage, w, job[r].now, starts, db.last, db.results)
    BY <1>2, <2>2, <2>4 DEF Justified
  <2>6. GoesTimely(r, db.last, db.results)
    BY <1>1, <1>2, <2>2, <2>3, <2>4, <2>5, PrepareTimely
  <2>7. QED BY <1>1, <2>6, QuietlyTimely, ResultsFacts DEF ShownStarted
<1>7. QED BY <1>3, <1>4, <1>5, <1>6

\* What the owner's commit does to counts and results.
LEMMA CommitFacts ==
  ASSUME ResultsInv, NEW r \in Runs, pc[r] = "commit", lease.owner = r,
         db' = Committed(db, job[r].write), UNCHANGED ledgerVars
  PROVE  /\ job[r].write \in Write /\ job[r].write.round \in Rounds
         /\ Justified(job[r].stage, job[r].write, job[r].now, starts, db.last, db.results)
         /\ db.results \in [Rounds -> Statuses \cup {None}]
         /\ db'.results = [db.results EXCEPT ![job[r].write.round] = job[r].write.status]
         /\ db'.rounds = db.rounds
         /\ job[r].stage \in {"events", "rounds"}
         /\ job[r].stage = "rounds" =>
              /\ db'.last = db.last
              /\ AllCounted(job[r].now, starts, logs, db.last)
<1> DEFINE w == job[r].write
<1>1. /\ w \in Write /\ w.round \in Rounds /\ w.count \in Nat /\ db \in Db
      /\ db.last \in [Rounds -> Nat] /\ db.results \in [Rounds -> Statuses \cup {None}]
  BY ResultsFacts, CollectorFacts, JobFields, DbFields
<1>2. /\ Justified(job[r].stage, w, job[r].now, starts, db.last, db.results)
      /\ PastPages(job[r], pc[r]) => AllCounted(job[r].now, starts, logs, db.last)
  BY ResultsFacts DEF MayDecide
<1>3. job[r].stage \in {"events", "rounds"}
  BY <1>2 DEF Justified
<1> HIDE DEF w
<1>4. /\ db'.results = [db.results EXCEPT ![w.round] = w.status]
      /\ db'.last = [db.last EXCEPT ![w.round] = w.count]
      /\ db'.rounds = db.rounds
  BY <1>1, CommittedFields DEF w
<1>5. ASSUME job[r].stage = "rounds"
      PROVE  db'.last = db.last /\ AllCounted(job[r].now, starts, logs, db.last)
  <2>1. w.count = db.last[w.round]
    BY <1>2, <1>5 DEF Justified
  <2>2. db'.last = db.last
    BY <1>1, <1>4, <2>1
  <2>3. QED BY <1>2, <1>5, <2>2 DEF PastPages
<1>6. QED BY <1>1, <1>2, <1>3, <1>4, <1>5 DEF w

\* A provisional status, of either round, is not a closed one.
LEMMA LiveIsOpen == \A k \in Rounds : LiveStatus(k) \notin ClosedResults
BY DEF LiveStatus, ClosedResults

\* A round is closed after its deadline only.
LEMMA CommitEnds ==
  ASSUME ResultsInv, NEW r \in Runs, pc[r] = "commit", lease.owner = r,
         db' = Committed(db, job[r].write), UNCHANGED ledgerVars
  PROVE  ClosedEnded'
<1> DEFINE w == job[r].write
<1>1. /\ w.round \in Rounds /\ db.results \in [Rounds -> Statuses \cup {None}]
      /\ Justified(job[r].stage, w, job[r].now, starts, db.last, db.results)
      /\ db'.results = [db.results EXCEPT ![w.round] = w.status]
  BY CommitFacts
<1>2. job[r].now <= clock /\ job[r].now \in Nat /\ clock \in Nat
  BY ResultsFacts, CollectorFacts, JobFields DEF Timely
<1>3. \A k \in Rounds : Ended(k)' <=> Ended(k)
  BY DEF Ended, Deadline, ledgerVars, contractVars
<1> HIDE DEF w
<1>4. ASSUME NEW k \in Rounds, db'.results[k] \in ClosedResults
      PROVE  Ended(k)
  <2>1. CASE k # w.round
    BY <1>1, <1>4, <2>1, ResultsFacts DEF ClosedEnded, Closed
  <2>2. CASE k = w.round
    <3>1. w.status \in ClosedResults
      BY <1>1, <1>4, <2>2
    <3>2. CASE db.results[k] = "TIE_UNRESOLVED"
      BY <3>2, ResultsFacts DEF ClosedEnded, Closed, ClosedResults
    <3>3. CASE db.results[k] # "TIE_UNRESOLVED"
      <4>1. EndedAt(k, job[r].now, starts)
        BY <1>1, <2>2, <3>1, <3>3, LiveIsOpen DEF Justified
      <4>2. starts[k] \in Nat /\ RoundDays[k] \in Nat
        BY <4>1, LedgerBounds, ResultsFacts, CollectorFacts DEF EndedAt
      <4>3. QED BY <1>2, <4>1, <4>2 DEF EndedAt, Ended, Deadline
    <3>4. QED BY <3>2, <3>3
  <2>3. QED BY <2>1, <2>2
<1>5. QED BY <1>3, <1>4 DEF ClosedEnded, Closed

\* After its commit a run is still in its page, or past the pages.
LEMMA AfterCommitTimely ==
  ASSUME ResultsInv, NEW r \in Runs, pc[r] = "commit", lease.owner = r, AfterCommit(r),
         db' = Committed(db, job[r].write), UNCHANGED ledgerVars
  PROVE  GoesTimely(r, db'.last, db'.results)
<1>1. job[r] \in Job /\ job[r].write.status \in Statuses
  BY ResultsFacts, CollectorFacts, JobFields
<1>2. CASE job[r].stage = "events"
  <2>1. InPage(job[r], pc[r]) /\ FinishAction(r)
    BY <1>2 DEF InPage, AfterCommit
  <2>2. QED BY <2>1, FinishTimely
<1>3. CASE job[r].stage = "rounds"
  <2>1. db'.last = db.last /\ AllCounted(job[r].now, starts, logs, db'.last)
    BY <1>3, CommitFacts
  <2>2. CASE job[r].write.shown
    <3>1. Goto(r, "release") /\ UNCHANGED job
      BY <1>3, <2>2 DEF AfterCommit
    <3>2. QED BY <3>1, GoesUndecided
  <2>3. CASE ~ job[r].write.shown
    <3>1. AfterSuperseded(r, job[r].write.status)
      BY <1>3, <2>3 DEF AfterCommit
    <3>2. CASE Goto(r, "latest") /\ UNCHANGED job
      <4>1. Moves(r, job[r], "latest") /\ "latest" \in PCs
        BY <3>2, ResultsFacts, CollectorFacts DEF Moves, Goto, TypeOK, PCs, Steps
      <4>2. Timely(job[r], "latest", stream, starts, clock)
        BY <2>3, ResultsFacts DEF Timely, InPage
      <4>3. MayDecide(job[r], "latest", starts, logs, db'.last, db'.results)
        BY <2>1 DEF MayDecide
      <4>4. QED BY <1>1, <4>1, <4>2, <4>3 DEF GoesTimely
    <3>3. CASE SetPhase(r, "rounds", job[r].write.status)
      BY <1>1, <2>1, <3>3, SetPhaseTimely
    <3>4. QED BY <3>1, <3>2, <3>3 DEF AfterSuperseded
  <2>4. QED BY <2>2, <2>3
<1>4. QED BY <1>2, <1>3, CommitFacts

\* The owner's write keeps the invariant if the run goes on with its effects.
LEMMA OwnerTimely ==
  ASSUME ResultsInv, CollectorInv', NEW r \in Runs, GoesTimely(r, db'.last, db'.results),
         UNCHANGED ledgerVars, lease.owner = r, lease'.owner = lease.owner,
         db'.rounds = db.rounds, ClosedEnded'
  PROVE  ResultsInv'
<1>1. PICK j \in Job, step \in PCs :
        /\ Moves(r, j, step)
        /\ Timely(j, step, stream, starts, clock)
        /\ lease.owner = r => MayDecide(j, step, starts, logs, db'.last, db'.results)
  BY DEF GoesTimely
<1>2. db'.rounds \subseteq StartedRounds(starts)
  BY ResultsFacts DEF ShownStarted
<1>3. \A s \in Runs \ {r} :
        lease'.owner = s => lease.owner = s /\ db'.last = db.last /\ db'.results = db.results
  OBVIOUS
<1>4. lease'.owner = r => MayDecide(j, step, starts, logs, db'.last, db'.results)
  BY <1>1
<1>5. QED BY <1>1, <1>2, <1>3, <1>4, ResultsStep

\* A commit, whether or not its answer arrives.
LEMMA CommitTimely ==
  ASSUME ResultsInv, CollectorInv', NEW r \in Runs, Commit(r)
  PROVE  ResultsInv'
<1>1. pc[r] = "commit" /\ UNCHANGED ledgerVars /\ lease \in Lease
  BY ResultsFacts, CollectorFacts DEF Commit
<1>2. CASE FencePasses(r, lease.live)
  <2>1. /\ lease.owner = r /\ db' = Committed(db, job[r].write) /\ RenewLease
        /\ AfterCommit(r)
    BY <1>2 DEF Commit, FencePasses
  <2>2. lease'.owner = lease.owner
    BY <1>1, <2>1, RenewFacts
  <2>3. ClosedEnded' /\ db'.rounds = db.rounds
    BY <1>1, <2>1, CommitEnds, CommitFacts
  <2>4. GoesTimely(r, db'.last, db'.results)
    BY <1>1, <2>1, AfterCommitTimely
  <2>5. QED BY <1>1, <2>1, <2>2, <2>3, <2>4, OwnerTimely
<1>3. CASE ~ FencePasses(r, lease.live)
  <2>1. UNCHANGED <<lease, db, job>> /\ Goto(r, "release")
    BY <1>3 DEF Commit, Fail
  <2>2. GoesTimely(r, db.last, db.results)
    BY <2>1, GoesUndecided
  <2>3. QED BY <1>1, <2>1, <2>2, QuietlyTimely, ResultsFacts DEF ShownStarted
<1>4. QED BY <1>2, <1>3

\* A page that is not full leaves, once it is done, every ended round counted.
LEMMA AdvanceTimely ==
  ASSUME ResultsInv, CollectorInv', NEW r \in Runs, Advance(r)
  PROVE  ResultsInv'
<1>1. /\ pc[r] = "advance" /\ UNCHANGED <<ledgerVars, job>>
      /\ lease \in Lease /\ db \in Db /\ job[r] \in Job
      /\ db.rounds \subseteq StartedRounds(starts)
  BY ResultsFacts, CollectorFacts DEF Advance, ShownStarted, Fail
<1>2. CASE FencePasses(r, lease.live)
  <2>1. /\ lease.owner = r /\ RenewLease
        /\ Goto(r, IF job[r].full THEN "page" ELSE "gate")
    BY <1>2 DEF Advance, FencePasses
  <2>2. db'.last = db.last /\ db'.results = db.results /\ db'.rounds = db.rounds
    BY <1>1, <1>2 DEF Advance, Db
  <2>3. lease'.owner = lease.owner
    BY <1>1, <2>1, RenewFacts
  <2>4. CASE job[r].full
    <3>1. GoesTimely(r, db.last, db.results)
      BY <1>1, <2>1, <2>4, GoesUndecided
    <3>2. QED BY <1>1, <2>2, <2>3, <3>1, QuietlyTimely
  <2>5. CASE ~ job[r].full
    <3>1. \A i \in 1..job[r].next : Counted(stream[i], db.last)
      BY <1>1, <2>1, ResultsFacts, CollectorFacts DEF Knows
    <3>2. Listed(job[r], stream, starts)
      BY <1>1, <2>5, ResultsFacts DEF Timely
    <3>3. AllCounted(job[r].now, starts, logs, db.last)
      <4> SUFFICES ASSUME NEW k \in Rounds, EndedAt(k, job[r].now, starts)
                   PROVE  db.last[k] = Len(logs[k])
        BY DEF AllCounted
      <4>1. ASSUME NEW i \in 1..Len(stream), stream[i].tag = "voted", stream[i].round = k
            PROVE  Counted(stream[i], db.last)
        <5>1. i <= job[r].next
          BY <3>2, <4>1 DEF Listed
        <5>2. i \in 1..job[r].next
          BY <1>1, <5>1, JobFields
        <5>3. QED BY <3>1, <5>2
      <4>2. QED BY <4>1, EventsCounted
    <3>4. Moves(r, job[r], "gate") /\ "gate" \in PCs
      BY <1>1, <2>1, <2>5, ResultsFacts, CollectorFacts DEF Moves, Goto, TypeOK, PCs, Steps
    <3>5. Timely(job[r], "gate", stream, starts, clock)
      BY ResultsFacts DEF Timely, InPage
    <3>6. MayDecide(job[r], "gate", starts, logs, db.last, db.results)
      BY <3>3 DEF MayDecide
    <3>7. GoesTimely(r, db.last, db.results)
      BY <1>1, <3>4, <3>5, <3>6 DEF GoesTimely
    <3>8. QED BY <1>1, <2>2, <2>3, <3>7, QuietlyTimely
  <2>6. QED BY <2>4, <2>5
<1>3. CASE ~ FencePasses(r, lease.live)
  <2>1. UNCHANGED <<lease, db>> /\ Goto(r, "release")
    BY <1>3 DEF Advance, Fail
  <2>2. GoesTimely(r, db.last, db.results)
    BY <1>1, <2>1, GoesUndecided
  <2>3. QED BY <1>1, <2>1, <2>2, QuietlyTimely
<1>4. QED BY <1>2, <1>3

-----------------------------------------------------------------------------
(***************************************************************************)
(* The finalizer's steps, ends and faults                                  *)
(***************************************************************************)
\* The check's phase is settled past the pages.
LEMMA GateTimely ==
  ASSUME ResultsInv, CollectorInv', NEW r \in Runs, ResolveGate(r)
  PROVE  ResultsInv'
<1>1. /\ UNCHANGED <<lease, ledgerVars, db>> /\ PastPages(job[r], pc[r])
      /\ db.rounds \subseteq StartedRounds(starts)
      /\ lease.owner = r => AllCounted(job[r].now, starts, logs, db.last)
  BY ResultsFacts DEF ResolveGate, PastPages, ShownStarted, MayDecide
<1>2. db.outcome \in Outcomes /\ tally.passed \in BOOLEAN
  BY ResultsFacts, CollectorFacts, DbFields DEF TypeOK, LedgerType
<1>3. /\ CheckPhase(db.outcome) \in Statuses
      /\ CheckPhase(Authoritative(db.outcome, tally.passed)) \in Statuses
  BY <1>2, StatusTypes
<1>4. \/ Goto(r, "active") /\ UNCHANGED job
      \/ SetPhase(r, "gate", CheckPhase(db.outcome))
      \/ SetPhase(r, "gate", CheckPhase(Authoritative(db.outcome, tally.passed)))
  BY DEF ResolveGate
<1>5. CASE Goto(r, "active") /\ UNCHANGED job
  <2>1. GoesTimely(r, db.last, db.results)
    BY <1>1, <1>5, GoesAlong DEF PCs, Steps, InPage
  <2>2. QED BY <1>1, <2>1, QuietlyTimely
<1>6. CASE ~ (Goto(r, "active") /\ UNCHANGED job)
  <2>1. GoesTimely(r, db.last, db.results)
    BY <1>1, <1>3, <1>4, <1>6, SetPhaseTimely
  <2>2. QED BY <1>1, <2>1, QuietlyTimely
<1>7. QED BY <1>5, <1>6

\* The rounds selected have been started, and a superseded one has ended.
LEMMA SelectTimely ==
  ASSUME ResultsInv, CollectorInv', NEW r \in Runs, SelectRounds(r)
  PROVE  ResultsInv'
<1>1. /\ UNCHANGED <<lease, ledgerVars, db>> /\ pc[r] = "active" /\ job[r] \in Job
      /\ db.rounds \subseteq StartedRounds(starts) /\ db.rounds \subseteq Rounds
      /\ job[r].now <= clock
  BY ResultsFacts, CollectorFacts, DbFields DEF SelectRounds, ShownStarted, Timely
<1>2. CASE Goto(r, "release") /\ UNCHANGED job
  <2>1. GoesTimely(r, db.last, db.results)
    BY <1>2, GoesUndecided
  <2>2. QED BY <1>1, <2>1, QuietlyTimely
<1>3. CASE ~ (db.status \in Skipped \/ db.rounds = {})
  <2> DEFINE j == [job[r] EXCEPT !.stage = "rounds", !.round = LatestRound]
             step == IF LatestRound = 2 /\ 1 \in db.rounds /\ job[r].now >= Deadline(1)
                     THEN "superseded" ELSE "latest"
  <2>1. LatestRound \in db.rounds /\ LatestRound \in Rounds
    BY <1>1, <1>3 DEF LatestRound, Rounds
  <2>2. starts[LatestRound] # None
    BY <1>1, <2>1 DEF StartedRounds
  <2>3. step = "superseded" => EndedAt(1, job[r].now, starts)
    BY <1>1 DEF StartedRounds, EndedAt, Deadline
  <2>4. j \in Job
    BY <1>1, <2>1, JobUpdates
  <2>5. j.round = LatestRound /\ j.now = job[r].now
    BY <1>1 DEF Job
  <2>6. Moves(r, j, step)
    <3>1. /\ job' = [job EXCEPT ![r].stage = "rounds", ![r].round = LatestRound]
          /\ Goto(r, step)
      BY <1>3 DEF SelectRounds
    <3>2. job' = [job EXCEPT ![r] = j]
      BY <3>1, ResultsFacts, CollectorFacts DEF TypeOK
    <3> HIDE DEF j, step
    <3>3. QED BY <3>1, <3>2 DEF Moves, Goto
  <2>7. step \in {"superseded", "latest"} /\ step \in PCs
    BY DEF PCs, Steps
  <2> HIDE DEF j, step
  <2>8. Timely(j, step, stream, starts, clock)
    BY <1>1, <2>2, <2>3, <2>5, <2>7 DEF Timely, InPage
  <2>9. lease.owner = r => MayDecide(j, step, starts, logs, db.last, db.results)
    BY <1>1, <2>5, <2>7, ResultsFacts DEF MayDecide, PastPages
  <2>10. GoesTimely(r, db.last, db.results)
    BY <2>4, <2>6, <2>7, <2>8, <2>9 DEF GoesTimely
  <2>11. QED BY <1>1, <2>10, QuietlyTimely
<1>4. QED BY <1>2, <1>3 DEF SelectRounds

\* A verdict is drawn from all the ballots of a round that has ended.
LEMMA CloseTimely ==
  ASSUME ResultsInv, NEW r \in Runs, pc[r] \in {"superseded", "latest"},
         NEW k \in Rounds, NEW w, Prepare(r, w, FALSE),
         \/ w = Restated(k, Verdict(k, db.ballots[k]), TRUE)
         \/ w = Restated(k, Verdict(k, db.ballots[k]), FALSE),
         EndedAt(k, job[r].now, starts), k = 2 => db.results[1] = "ROUND_1_FAILED"
  PROVE  GoesTimely(r, db.last, db.results)
<1>1. PICK shown \in BOOLEAN : w = Restated(k, Verdict(k, db.ballots[k]), shown)
  OBVIOUS
<1>2. Verdict(k, db.ballots[k]) \in Statuses
  BY StatusTypes, ResultsFacts, CollectorFacts, DbFields
<1>3. /\ w \in Write /\ w.round = k /\ w.status = Verdict(k, db.ballots[k])
      /\ w.ballots = db.ballots[k] /\ w.count = db.last[k]
  BY <1>1, <1>2, RestatedIsPrefix, ResultsFacts
<1>4. job[r].stage = "rounds" /\ starts[job[r].round] # None
  BY ResultsFacts, CollectorFacts DEF Placed, Timely
<1>5. ~ Refused(w, FALSE) =>
        Justified(job[r].stage, w, job[r].now, starts, db.last, db.results)
  BY <1>3, <1>4 DEF Refused, Closed, Justified
<1>6. PastPages(job[r], pc[r])
  BY DEF PastPages
<1>7. QED BY <1>3, <1>4, <1>5, <1>6, PrepareTimely

\* The finalizer's decisions.
LEMMA RoundsTimely ==
  ASSUME ResultsInv, CollectorInv', NEW r \in Runs, CloseSuperseded(r) \/ FinalizeLatest(r)
  PROVE  ResultsInv'
<1>1. /\ UNCHANGED <<lease, ledgerVars, db>> /\ pc[r] \in {"superseded", "latest"}
      /\ job[r] \in Job /\ job[r].round \in Rounds
      /\ db.rounds \subseteq StartedRounds(starts)
      /\ lease.owner = r => AllCounted(job[r].now, starts, logs, db.last)
      /\ starts[job[r].round] # None
  BY ResultsFacts, CollectorFacts, JobFields
  DEF CloseSuperseded, FinalizeLatest, ShownStarted, MayDecide, PastPages, Timely
<1>2. CASE CloseSuperseded(r)
  <2>1. pc[r] = "superseded" /\ EndedAt(1, job[r].now, starts)
    BY <1>2, ResultsFacts DEF CloseSuperseded, Timely
  <2>2. CASE Closed(1)
    <3>1. AfterSuperseded(r, db.results[1]) /\ db.results[1] \in Statuses
      BY <1>2, <2>2 DEF CloseSuperseded, Closed, ClosedResults, Statuses
    <3>2. CASE Goto(r, "latest") /\ UNCHANGED job
      <4>1. Moves(r, job[r], "latest") /\ "latest" \in PCs
        BY <3>2, ResultsFacts, CollectorFacts DEF Moves, Goto, TypeOK, PCs, Steps
      <4>2. Timely(job[r], "latest", stream, starts, clock)
        BY <1>1, ResultsFacts DEF Timely, InPage
      <4>3. lease.owner = r => MayDecide(job[r], "latest", starts, logs, db.last, db.results)
        BY <1>1 DEF MayDecide
      <4>4. GoesTimely(r, db.last, db.results)
        BY <1>1, <4>1, <4>2, <4>3 DEF GoesTimely
      <4>5. QED BY <1>1, <4>4, QuietlyTimely
    <3>3. CASE SetPhase(r, "rounds", db.results[1])
      <4>1. GoesTimely(r, db.last, db.results)
        BY <1>1, <3>1, <3>3, SetPhaseTimely
      <4>2. QED BY <1>1, <4>1, QuietlyTimely
    <3>4. QED BY <3>1, <3>2, <3>3 DEF AfterSuperseded
  <2>3. CASE ~ Closed(1)
    <3>1. PICK k \in Rounds : k = 1
      BY DEF Rounds
    <3>2. PICK w : w = Restated(k, Verdict(k, db.ballots[k]), FALSE)
      OBVIOUS
    <3>3. Prepare(r, w, FALSE) /\ EndedAt(k, job[r].now, starts)
      BY <1>2, <2>1, <2>3, <3>1, <3>2 DEF CloseSuperseded
    <3>4. k = 2 => db.results[1] = "ROUND_1_FAILED"
      BY <3>1
    <3>5. GoesTimely(r, db.last, db.results)
      BY <1>1, <3>2, <3>3, <3>4, CloseTimely
    <3>6. QED BY <1>1, <3>5, QuietlyTimely
  <2>4. QED BY <2>2, <2>3
<1>3. CASE FinalizeLatest(r)
  <2> DEFINE k == job[r].round
  <2>1. \/ Goto(r, "release") /\ UNCHANGED job
        \/ SetPhase(r, "rounds", LiveStatus(k))
        \/ /\ Prepare(r, Restated(k, Verdict(k, db.ballots[k]), TRUE), FALSE)
           /\ DeadlinePassed(r, k) /\ (k = 1 \/ db.results[1] = "ROUND_1_FAILED")
    BY <1>1, <1>3 DEF FinalizeLatest, Rounds
  <2>2. DeadlinePassed(r, k) => EndedAt(k, job[r].now, starts)
    BY <1>1 DEF DeadlinePassed, Deadline, EndedAt
  <2>3. k \in Rounds /\ LiveStatus(k) \in Statuses /\ "rounds" \in {"events", "gate", "rounds"}
    BY <1>1, StatusTypes
  <2> HIDE DEF k
  <2>4. GoesTimely(r, db.last, db.results)
    <3>1. CASE Goto(r, "release") /\ UNCHANGED job
      BY <3>1, GoesUndecided
    <3>2. CASE SetPhase(r, "rounds", LiveStatus(k))
      BY <1>1, <2>3, <3>2, SetPhaseTimely
    <3>3. CASE /\ Prepare(r, Restated(k, Verdict(k, db.ballots[k]), TRUE), FALSE)
               /\ DeadlinePassed(r, k) /\ (k = 1 \/ db.results[1] = "ROUND_1_FAILED")
      <4>1. PICK w : w = Restated(k, Verdict(k, db.ballots[k]), TRUE)
        OBVIOUS
      <4>2. Prepare(r, w, FALSE)
        BY <3>3, <4>1
      <4>3. EndedAt(k, job[r].now, starts) /\ (k = 2 => db.results[1] = "ROUND_1_FAILED")
        BY <2>2, <3>3
      <4>4. QED BY <1>1, <2>3, <4>1, <4>2, <4>3, CloseTimely
    <3>4. QED BY <2>1, <3>1, <3>2, <3>3
  <2>5. QED BY <1>1, <2>4, QuietlyTimely
<1>4. QED BY <1>2, <1>3

\* A run that has ended knows nothing of the time.
LEMMA FreshTimely ==
  ASSUME ResultsInv, NEW r \in Runs, NEW step \in {"idle", "done", "dead"},
         Goto(r, step), job' = [job EXCEPT ![r] = JobInit]
  PROVE  GoesTimely(r, db.last, db.results)
<1>1. JobInit \in Job /\ JobInit.now = 0 /\ 0 <= clock
  BY JobInitType, ResultsFacts, CollectorFacts DEF JobInit
<1>2. Moves(r, JobInit, step) /\ step \in PCs
  BY DEF Moves, Goto, PCs
<1>3. Timely(JobInit, step, stream, starts, clock)
  BY <1>1 DEF Timely, InPage
<1>4. MayDecide(JobInit, step, starts, logs, db.last, db.results)
  BY DEF MayDecide, PastPages
<1>5. QED BY <1>1, <1>2, <1>3, <1>4 DEF GoesTimely

\* Ends and faults decide nothing.
LEMMA EndsTimely ==
  ASSUME ResultsInv, CollectorInv', NEW r \in Runs,
         Release(r) \/ Schedule(r) \/ Interrupt(r) \/ Crash(r)
  PROVE  ResultsInv'
<1>1. /\ UNCHANGED <<ledgerVars, db>>
      /\ db.rounds \subseteq StartedRounds(starts)
      /\ lease'.owner = lease.owner \/ lease'.owner = NoRun
  BY ResultsFacts
  DEF Release, ReleaseLease, LeaseFree, Schedule, Interrupt, Crash, ShownStarted
<1>2. GoesTimely(r, db.last, db.results)
  <2>1. CASE Release(r) \/ Crash(r)
    BY <2>1, FreshTimely DEF Release, Crash
  <2>2. CASE Schedule(r) \/ Interrupt(r)
    BY <2>2, GoesUndecided DEF Schedule, Interrupt, Fail
  <2>3. QED BY <2>1, <2>2
<1>3. QED BY <1>1, <1>2, QuietlyTimely

\* A batch whose answer is lost has decided what it committed.
LEMMA AnswerLostTimely ==
  ASSUME ResultsInv, CollectorInv', NEW r \in Runs, AnswerLost(r)
  PROVE  ResultsInv'
<1>1. /\ lease.owner = r /\ lease \in Lease /\ RenewLease
      /\ UNCHANGED <<ledgerVars, job>> /\ Goto(r, "release") /\ db \in Db
  BY ResultsFacts, CollectorFacts DEF AnswerLost, FencePasses, Fail
<1>2. lease'.owner = lease.owner
  BY <1>1, RenewFacts
<1>3. GoesTimely(r, db'.last, db'.results)
  BY <1>1, GoesUndecided
<1>4. CASE pc[r] = "commit"
  <2>1. db' = Committed(db, job[r].write)
    BY <1>4 DEF AnswerLost
  <2>2. ClosedEnded' /\ db'.rounds = db.rounds
    BY <1>1, <1>4, <2>1, CommitEnds, CommitFacts
  <2>3. QED BY <1>1, <1>2, <1>3, <2>2, OwnerTimely
<1>5. CASE pc[r] # "commit"
  <2>1. db'.last = db.last /\ db'.results = db.results /\ db'.rounds = db.rounds
    BY <1>1, <1>5 DEF AnswerLost, Db
  <2>2. QED BY <1>1, <1>2, <1>3, <2>1, QuietlyTimely, ResultsFacts DEF ShownStarted
<1>6. QED BY <1>4, <1>5

\* Nor does the lease's expiry.
LEMMA ExpiryTimely ==
  ASSUME ResultsInv, CollectorInv',
         AbandonedLeaseExpires \/ WorkingLeaseExpires \/ UNCHANGED vars
  PROVE  ResultsInv'
<1>1. /\ UNCHANGED <<ledgerVars, db, pc, job>>
      /\ lease'.owner = lease.owner
  <2>1. lease \in Lease
    BY ResultsFacts, CollectorFacts
  <2>2. LeaseExpires => lease'.owner = lease.owner
    BY <2>1 DEF LeaseExpires, Lease
  <2>3. QED BY <2>2 DEF AbandonedLeaseExpires, WorkingLeaseExpires, vars
<1>2. stream' = stream /\ logs' = logs /\ starts' = starts /\ clock' = clock
  BY <1>1 DEF ledgerVars, contractVars
<1>3. VotesShown' /\ ShownStarted' /\ RunsTimely' /\ OwnerDecides'
  BY <1>1, <1>2 DEF ResultsInv, VotesShown, ShownStarted, RunsTimely, OwnerDecides
<1>4. ClosedEnded'
  BY <1>1, <1>2, ResultsFacts DEF ClosedEnded, Closed, Ended, Deadline
<1>5. QED BY <1>3, <1>4 DEF ResultsInv

-----------------------------------------------------------------------------
(***************************************************************************)
(* The ledger's steps                                                      *)
(***************************************************************************)
\* Time goes on, and a round that has been started has been started for good.
LEMMA LedgerTimes ==
  ASSUME ResultsInv, Ledger
  PROVE  /\ clock \in Nat /\ clock' \in Nat /\ clock <= clock'
         /\ \A k \in Rounds : starts[k] # None => starts'[k] = starts[k]
<1>1. clock \in Nat /\ starts \in [Rounds -> Nat \cup {None}]
  BY ResultsFacts, CollectorFacts
<1>2. ASSUME NEW k \in Rounds, StartRound(k)
      PROVE  clock' = clock /\ \A n \in Rounds : starts[n] # None => starts'[n] = starts[n]
  BY <1>1, <1>2 DEF StartRound, MayStart
<1>3. CASE \E k \in Rounds : StartRound(k)
  BY <1>1, <1>2, <1>3
<1>4. CASE ~ \E k \in Rounds : StartRound(k)
  <2>1. starts' = starts /\ (clock' = clock \/ clock' = clock + 1)
    BY <1>4 DEF Ledger, Operator, RecordOutcome, RecordTie, ToggleHidden, CastBallot, Tick,
       CacheTally, contractVars
  <2>2. QED BY <1>1, <2>1
<1>5. QED BY <1>3, <1>4

\* A round that had ended gets no further vote, and one just started has none.
LEMMA EndedRounds ==
  ASSUME ResultsInv, Ledger, NEW now \in Nat, now <= clock, NEW k \in Rounds,
         EndedAt(k, now, starts')
  PROVE  /\ logs'[k] = logs[k]
         /\ EndedAt(k, now, starts) \/ logs[k] = <<>>
<1>1. /\ clock \in Nat /\ starts \in [Rounds -> Nat \cup {None}] /\ RoundDays[k] \in Nat
      /\ logs \in [Rounds -> Seq(Vote)]
  BY ResultsFacts, CollectorFacts, LedgerBounds
<1>2. EndedAt(k, now, starts) \/ starts[k] = None
  BY LedgerTimes, ResultsFacts DEF EndedAt
<1>3. EndedAt(k, now, starts) => Ended(k)
  <2>1. ASSUME starts[k] # None, now >= starts[k] + RoundDays[k]
        PROVE  clock >= starts[k] + RoundDays[k]
    BY <1>1, <2>1
  <2>2. QED BY <2>1 DEF EndedAt, Ended, Deadline
<1>4. starts[k] = None => logs[k] = <<>>
  BY ResultsFacts DEF VotesShown
<1>5. CASE logs' = logs
  BY <1>2, <1>4, <1>5
<1>6. CASE logs' # logs
  <2>1. PICK n \in Rounds, x \in Vote :
          starts[n] # None /\ ~ Ended(n) /\ logs' = [logs EXCEPT ![n] = Append(@, x)]
    BY <1>6, ResultsFacts, LedgerCases
  <2>2. starts' = starts
    BY <1>6, ResultsFacts, LedgerCases
  <2>3. Ended(k)
    BY <1>3, <2>2
  <2>4. k # n
    BY <2>1, <2>3
  <2>5. QED BY <1>1, <1>2, <1>4, <2>1, <2>4
<1>7. QED BY <1>5, <1>6

\* A vote that is cast has its event, and events show the rounds started.
LEMMA LedgerShows ==
  ASSUME ResultsInv, CollectorInv', Ledger
  PROVE  VotesShown' /\ ShownStarted'
<1>1. /\ stream \in Seq(Event) /\ Len(stream) \in Nat /\ logs \in [Rounds -> Seq(Vote)]
      /\ \A k \in Rounds : logs[k] \in Seq(Vote) /\ Len(logs[k]) \in Nat
  BY ResultsFacts, CollectorFacts
<1>2. \A k \in Rounds :
        /\ Len(logs[k]) > 0 =>
             \E i \in 1..Len(stream) :
               /\ stream[i].tag = "voted" /\ stream[i].round = k
               /\ stream[i].count = Len(logs[k])
        /\ starts[k] = None => logs[k] = <<>>
  BY ResultsFacts DEF VotesShown
<1>3. StartedRounds(starts) \subseteq StartedRounds(starts')
  BY LedgerTimes, NoneAssumption DEF StartedRounds
<1>4. db' = db /\ db.rounds \subseteq StartedRounds(starts')
  BY <1>3, ResultsFacts, LedgerCases DEF ShownStarted
<1>5. \A i \in 1..Len(stream) : stream[i].rounds \subseteq StartedRounds(starts')
  BY <1>3, ResultsFacts DEF ShownStarted
<1>6. \A k \in Rounds : starts'[k] = None => starts[k] = None
  BY LedgerTimes
<1>7. CASE UNCHANGED <<stream, logs, starts>>
  <2>1. VotesShown'
    BY <1>2, <1>7 DEF VotesShown
  <2>2. ShownStarted'
    BY <1>4, <1>5, <1>7 DEF ShownStarted
  <2>3. QED BY <2>1, <2>2
<1>8. ASSUME NEW e \in Event, e.rounds = StartedRounds(starts'), stream' = Append(stream, e)
      PROVE  /\ ShownStarted' /\ Len(stream') = Len(stream) + 1
             /\ \A i \in 1..Len(stream) : i \in 1..Len(stream') /\ stream'[i] = stream[i]
             /\ stream'[Len(stream) + 1] = e
  <2>1. /\ Len(stream') = Len(stream) + 1 /\ stream'[Len(stream) + 1] = e
        /\ \A i \in 1..Len(stream) : i \in 1..Len(stream') /\ stream'[i] = stream[i]
        /\ \A i \in 1..Len(stream') : i \in 1..Len(stream) \/ i = Len(stream) + 1
    BY <1>1, <1>8
  <2>2. \A i \in 1..Len(stream') : stream'[i].rounds \subseteq StartedRounds(starts')
    BY <1>5, <1>8, <2>1
  <2>3. QED BY <1>4, <2>1, <2>2 DEF ShownStarted
<1>9. ASSUME UNCHANGED logs, NEW e \in Event, e.rounds = StartedRounds(starts'),
             stream' = Append(stream, e)
      PROVE  VotesShown' /\ ShownStarted'
  <2>1. /\ ShownStarted'
        /\ \A i \in 1..Len(stream) : i \in 1..Len(stream') /\ stream'[i] = stream[i]
    BY <1>8, <1>9
  <2>2. VotesShown'
    BY <1>2, <1>6, <1>9, <2>1 DEF VotesShown
  <2>3. QED BY <2>1, <2>2
<1>10. ASSUME NEW k \in Rounds, NEW x \in Vote, NEW e \in Event, UNCHANGED starts,
              starts[k] # None, logs' = [logs EXCEPT ![k] = Append(@, x)],
              e.tag = "voted", e.round = k, e.count = Len(logs[k]) + 1,
              e.rounds = StartedRounds(starts), stream' = Append(stream, e)
       PROVE  VotesShown' /\ ShownStarted'
  <2>1. /\ ShownStarted' /\ Len(stream') = Len(stream) + 1
        /\ \A i \in 1..Len(stream) : i \in 1..Len(stream') /\ stream'[i] = stream[i]
        /\ stream'[Len(stream) + 1] = e
    BY <1>8, <1>10
  <2>2. logs'[k] = Append(logs[k], x) /\ Len(logs'[k]) = Len(logs[k]) + 1
    <3>1. logs[k] \in Seq(Vote)
      BY <1>1
    <3>2. Len(Append(logs[k], x)) = Len(logs[k]) + 1
      BY <3>1
    <3>3. QED BY <1>1, <1>10, <3>2
  <2>3. \A n \in Rounds : n # k => logs'[n] = logs[n]
    BY <1>1, <1>10
  <2>4. ASSUME NEW n \in Rounds
        PROVE  /\ Len(logs'[n]) > 0 =>
                    \E i \in 1..Len(stream') :
                      /\ stream'[i].tag = "voted" /\ stream'[i].round = n
                      /\ stream'[i].count = Len(logs'[n])
               /\ starts'[n] = None => logs'[n] = <<>>
    <3>1. CASE n = k
      <4>1. Len(stream) + 1 \in 1..Len(stream')
        BY <1>1, <2>1
      <4>2. QED BY <1>10, <2>1, <2>2, <3>1, <4>1
    <3>2. CASE n # k
      BY <1>2, <1>6, <2>1, <2>3, <3>2
    <3>3. QED BY <3>1, <3>2
  <2>5. VotesShown'
    BY <2>4 DEF VotesShown
  <2>6. QED BY <2>1, <2>5
<1>11. QED BY <1>7, <1>9, <1>10, ResultsFacts, LedgerCases

\* The ledger moves on, and what runs know of the rounds that had ended stands.
LEMMA LedgerTimely ==
  ASSUME ResultsInv, CollectorInv', Ledger
  PROVE  ResultsInv'
<1>1. UNCHANGED <<lease, db, pc, job, faults, stalls>>
  BY ResultsFacts, LedgerCases
<1>2. /\ clock \in Nat /\ clock' \in Nat /\ clock <= clock'
      /\ \A k \in Rounds : starts[k] # None => starts'[k] = starts[k]
  BY LedgerTimes
<1>3. /\ starts \in [Rounds -> Nat \cup {None}] /\ RoundDays \in [Rounds -> Nat]
      /\ stream \in Seq(Event) /\ Len(stream) \in Nat /\ logs \in [Rounds -> Seq(Vote)]
  BY ResultsFacts, CollectorFacts, LedgerBounds
<1>4. ClosedEnded'
  <2> SUFFICES ASSUME NEW k \in Rounds, Closed(k) PROVE Ended(k)'
    BY <1>1 DEF ClosedEnded, Closed
  <2>1. Ended(k) /\ RoundDays[k] \in Nat
    BY <1>3, ResultsFacts DEF ClosedEnded
  <2>2. starts[k] # None /\ starts[k] \in Nat /\ clock >= starts[k] + RoundDays[k]
    BY <1>3, <2>1 DEF Ended, Deadline
  <2>3. starts'[k] # None /\ clock' >= starts'[k] + RoundDays[k]
    BY <1>2, <2>1, <2>2
  <2>4. QED BY <2>3 DEF Ended, Deadline
<1>5. ASSUME NEW r \in Runs
      PROVE  Timely(job[r], pc[r], stream', starts', clock')
  <2> DEFINE j == job[r]
             step == pc[r]
  <2>1. /\ Timely(j, step, stream, starts, clock) /\ Placed(j, step, stream, logs)
        /\ j.now \in Nat /\ j.next \in Nat /\ j.round \in Rounds /\ j.now <= clock
        /\ 1 \in Rounds
    BY ResultsFacts, CollectorFacts, JobFields DEF Timely, Rounds
  <2> HIDE DEF j, step
  <2>2. j.now <= clock'
    BY <1>2, <2>1
  <2>3. starts[j.round] # None => starts'[j.round] # None
    BY <1>2, <2>1
  <2>4. EndedAt(1, j.now, starts) => EndedAt(1, j.now, starts')
    BY <1>2, <2>1 DEF EndedAt
  <2>5. ASSUME Listed(j, stream, starts)
        PROVE  Listed(j, stream', starts')
    <3> SUFFICES ASSUME NEW k \in Rounds, EndedAt(k, j.now, starts'), NEW i \in 1..Len(stream'),
                        stream'[i].tag = "voted", stream'[i].round = k
                 PROVE  i <= j.next
      BY DEF Listed
    <3>1. logs'[k] = logs[k] /\ (EndedAt(k, j.now, starts) \/ logs[k] = <<>>)
      BY <2>1, EndedRounds
    <3>2. i \in 1..Len(stream) /\ stream'[i] = stream[i]
      <4>1. CASE stream' = stream
        BY <4>1
      <4>2. CASE stream' # stream
        <5>1. PICK e \in Event : stream' = Append(stream, e) /\ (e.tag = "voted" => e.round # k)
          <6>1. CASE logs' = logs
            <7>1. ~ \E n \in Rounds, x \in Vote : logs' = [logs EXCEPT ![n] = Append(@, x)]
              <8> SUFFICES ASSUME NEW n \in Rounds, NEW x \in Vote,
                                  logs' = [logs EXCEPT ![n] = Append(@, x)]
                           PROVE  FALSE
                OBVIOUS
              <8>1. logs[n] \in Seq(Vote) /\ logs[n] = Append(logs[n], x)
                BY <1>3, <6>1
              <8>2. Len(Append(logs[n], x)) = Len(logs[n]) + 1 /\ Len(logs[n]) \in Nat
                BY <8>1
              <8>3. QED BY <8>1, <8>2
            <7>2. QED BY <4>2, <7>1, ResultsFacts, LedgerCases
          <6>2. CASE logs' # logs
            <7>1. PICK n \in Rounds, x \in Vote, e \in Event :
                    /\ logs' = [logs EXCEPT ![n] = Append(@, x)]
                    /\ e.round = n /\ stream' = Append(stream, e)
              BY <6>2, ResultsFacts, LedgerCases
            <7>2. n # k
              <8>1. CASE n = k
                <9>1. logs[k] \in Seq(Vote) /\ logs[k] = Append(logs[k], x)
                  BY <1>3, <3>1, <7>1, <8>1
                <9>2. Len(Append(logs[k], x)) = Len(logs[k]) + 1 /\ Len(logs[k]) \in Nat
                  BY <9>1
                <9>3. QED BY <9>1, <9>2
              <8>2. QED BY <8>1
            <7>3. QED BY <7>1, <7>2
          <6>3. QED BY <6>1, <6>2
        <5>2. /\ Len(stream') = Len(stream) + 1 /\ stream'[Len(stream) + 1] = e
              /\ \A n \in 1..Len(stream) : stream'[n] = stream[n]
          BY <1>3, <5>1
        <5>3. i # Len(stream) + 1
          BY <5>1, <5>2
        <5>4. i \in 1..Len(stream)
          BY <1>3, <5>2, <5>3
        <5>5. QED BY <5>2, <5>4
      <4>3. QED BY <4>1, <4>2
    <3>3. CASE EndedAt(k, j.now, starts)
      BY <2>5, <3>2, <3>3 DEF Listed
    <3>4. CASE logs[k] = <<>>
      <4>1. stream[i].count \in 1..Len(logs[k])
        BY <3>2, ResultsFacts DEF CollectorInv, VotesLogged
      <4>2. QED BY <3>4, <4>1
    <3>5. QED BY <3>1, <3>3, <3>4
  <2>6. Timely(j, step, stream', starts', clock')
    BY <2>1, <2>2, <2>3, <2>4, <2>5 DEF Timely
  <2>7. QED BY <2>6 DEF j, step
<1>6. ASSUME NEW r \in Runs, lease.owner = r
      PROVE  MayDecide(job[r], pc[r], starts', logs', db.last, db.results)
  <2> DEFINE j == job[r]
             step == pc[r]
  <2>1. /\ MayDecide(j, step, starts, logs, db.last, db.results)
        /\ j.now \in Nat /\ j.now <= clock /\ j.write.round \in Rounds
    BY <1>6, ResultsFacts, CollectorFacts, JobFields DEF Timely
  <2> HIDE DEF j, step
  <2>2. ASSUME AllCounted(j.now, starts, logs, db.last)
        PROVE  AllCounted(j.now, starts', logs', db.last)
    <3> SUFFICES ASSUME NEW k \in Rounds, EndedAt(k, j.now, starts')
                 PROVE  db.last[k] = Len(logs'[k])
      BY DEF AllCounted
    <3>1. logs'[k] = logs[k] /\ (EndedAt(k, j.now, starts) \/ logs[k] = <<>>)
      BY <2>1, EndedRounds
    <3>2. CASE EndedAt(k, j.now, starts)
      BY <2>2, <3>1, <3>2 DEF AllCounted
    <3>3. CASE logs[k] = <<>>
      <4>1. db.last[k] \in Nat /\ db.last[k] <= Len(logs[k])
        BY ResultsFacts, CollectorFacts, DbFields DEF BallotsArePrefix
      <4>2. QED BY <3>1, <3>3, <4>1
    <3>4. QED BY <3>1, <3>2, <3>3
  <2>3. EndedAt(j.write.round, j.now, starts) => EndedAt(j.write.round, j.now, starts')
    BY <1>2, <2>1 DEF EndedAt
  <2>4. MayDecide(j, step, starts', logs', db.last, db.results)
    BY <2>1, <2>2, <2>3 DEF MayDecide, Justified
  <2>5. QED BY <2>4 DEF j, step
<1>7. RunsTimely' /\ OwnerDecides'
  BY <1>1, <1>5, <1>6 DEF RunsTimely, OwnerDecides
<1>8. QED BY <1>4, <1>7, LedgerShows DEF ResultsInv

-----------------------------------------------------------------------------
(***************************************************************************)
(* The invariant                                                           *)
(***************************************************************************)
\* The invariant holds initially.
LEMMA ResultsInvInit == Init => ResultsInv
<1> SUFFICES ASSUME Init PROVE ResultsInv
  OBVIOUS
<1>1. CollectorInv
  BY CollectorInvInit
<1>2. /\ db = DbInit /\ stream = <<Created>> /\ logs = [k \in Rounds |-> <<>>]
      /\ lease.owner = NoRun /\ clock = 0
  BY DEF Init, LedgerInit, LeaseInit, LeaseFree
<1>3. VotesShown
  BY <1>2 DEF VotesShown
<1>4. Len(stream) = 1 /\ stream[1].rounds = {}
  BY <1>2 DEF Created
<1>5. ShownStarted
  BY <1>2, <1>4 DEF ShownStarted, DbInit
<1>6. ClosedEnded
  <2>1. \A k \in Rounds : db.results[k] = None
    BY <1>2 DEF DbInit
  <2>2. QED BY <2>1, NoneIsNoStatus DEF ClosedEnded, Closed, ClosedResults, Statuses
<1>7. RunsTimely
  <2> SUFFICES ASSUME NEW r \in Runs PROVE Timely(job[r], pc[r], stream, starts, clock)
    BY DEF RunsTimely
  <2>1. job[r] = JobInit /\ pc[r] = "idle" /\ JobInit.now = 0
    BY DEF Init, JobInit
  <2>2. QED BY <1>2, <2>1 DEF Timely, InPage
<1>8. OwnerDecides
  BY <1>2, RunsAssumption DEF OwnerDecides
<1>9. QED BY <1>1, <1>3, <1>5, <1>6, <1>7, <1>8 DEF ResultsInv

\* Every step keeps it.
LEMMA ResultsInvStep == ResultsInv /\ [Next]_vars => ResultsInv'
<1> SUFFICES ASSUME ResultsInv, [Next]_vars PROVE ResultsInv'
  OBVIOUS
<1>1. CollectorInv'
  BY ResultsFacts, CollectorInvStep
<1>2. CASE Ledger
  BY <1>1, <1>2, LedgerTimely
<1>3. ASSUME NEW r \in Runs, Work(r)
      PROVE  ResultsInv'
  BY <1>1, <1>3, EarlySteps, FetchPageTimely, ProjectionTimely, PhaseStepsTimely,
     CalculationsTimely, CommitTimely, AdvanceTimely, GateTimely, SelectTimely,
     RoundsTimely, EndsTimely DEF Work
<1>4. ASSUME NEW r \in Runs, Failure(r)
      PROVE  ResultsInv'
  BY <1>1, <1>4, EndsTimely, AnswerLostTimely DEF Failure
<1>5. CASE AbandonedLeaseExpires \/ WorkingLeaseExpires \/ UNCHANGED vars
  BY <1>1, <1>5, ExpiryTimely
<1>6. QED BY <1>2, <1>3, <1>4, <1>5 DEF Next

\* What a poll decides of a round, it decides after the round's deadline and with
\* every vote of the round counted.
THEOREM ResultsInvariant == Spec => []ResultsInv
<1>1. QED BY ResultsInvInit, ResultsInvStep, PTL DEF Spec

-----------------------------------------------------------------------------
(***************************************************************************)
(* Refinement                                                              *)
(***************************************************************************)
\* Only the lease's owner, in a guarded batch, changes the results.
LEMMA ResultsOnlyCommitted ==
  ASSUME ResultsInv, [Next]_vars, db'.results # db.results
  PROVE  \E r \in Runs :
           /\ pc[r] = "commit" /\ lease.owner = r
           /\ db' = Committed(db, job[r].write) /\ UNCHANGED ledgerVars
<1>1. db \in Db
  BY ResultsFacts, CollectorFacts
<1>2. ASSUME NEW r \in Runs, Commit(r) \/ AnswerLost(r)
      PROVE  /\ pc[r] = "commit" /\ lease.owner = r
             /\ db' = Committed(db, job[r].write) /\ UNCHANGED ledgerVars
  <2>1. CASE Commit(r)
    BY <2>1 DEF Commit, FencePasses
  <2>2. CASE AnswerLost(r)
    <3>1. pc[r] = "commit"
      BY <1>1, <2>2 DEF AnswerLost, Db
    <3>2. QED BY <2>2, <3>1 DEF AnswerLost, FencePasses
  <2>3. QED BY <1>2, <2>1, <2>2
<1>3. ASSUME NEW r \in Runs, ProjectElection(r) \/ ProjectRounds(r) \/ WritePhase(r) \/ Advance(r)
      PROVE  FALSE
  BY <1>1, <1>3 DEF ProjectElection, ProjectRounds, WritePhase, Advance, Db
<1>4. ASSUME NEW r \in Runs, Work(r) \/ Failure(r)
      PROVE  Commit(r) \/ AnswerLost(r)
  BY <1>3, <1>4 DEF Work, Failure, Acquire, ReadCursor, FetchPage, InitializeCache, ReadPhase,
     Calculate, ResolveTie, ResolveGate, SelectRounds, CloseSuperseded, FinalizeLatest, Release,
     Schedule, Interrupt, Crash
<1>5. ~ (Ledger \/ AbandonedLeaseExpires \/ WorkingLeaseExpires \/ UNCHANGED vars)
  BY DEF Ledger, AbandonedLeaseExpires, WorkingLeaseExpires, vars
<1>6. QED BY <1>2, <1>4, <1>5 DEF Next

\* Only voters change the votes.
LEMMA VotesOnlyFromLedger ==
  ASSUME [Next]_vars, logs' # logs
  PROVE  Ledger
<1>1. ASSUME NEW r \in Runs, Work(r) \/ Failure(r)
      PROVE  UNCHANGED ledgerVars
  BY <1>1 DEF Work, Failure, Acquire, ReadCursor, FetchPage, InitializeCache, ProjectElection,
     ProjectRounds, ReadPhase, WritePhase, Calculate, ResolveTie, Commit, Advance, ResolveGate,
     SelectRounds, CloseSuperseded, FinalizeLatest, Release, Schedule, Interrupt, Crash, AnswerLost
<1>2. AbandonedLeaseExpires \/ WorkingLeaseExpires \/ UNCHANGED vars => UNCHANGED ledgerVars
  BY DEF AbandonedLeaseExpires, WorkingLeaseExpires, vars
<1>3. UNCHANGED ledgerVars => logs' = logs
  BY DEF ledgerVars, contractVars
<1>4. QED BY <1>1, <1>2, <1>3 DEF Next

\* The ballots of all of a round's votes are those the abstract specification
\* draws its verdict from.
LEMMA WholeLogBallots ==
  ASSUME NEW ballots \in BallotSets, NEW log, OfPrefix(ballots, Len(log), log)
  PROVE  ballots = Abstract!BallotsOf(log)
<1>1. \A a \in Accounts : ballots[a] = Abstract!LastBallot(log, 1, Len(log), a)
  BY DEF OfPrefix, Abstract!LastBallot, LastBallot, Abstract!CastBy, CastBy, Abstract!LastOf, LastOf
<1>2. QED BY <1>1 DEF Abstract!BallotsOf, BallotSets

\* The owner's commit publishes a provisional result, resolves a tie, or decides.
LEMMA RefinedCommit ==
  ASSUME ResultsInv, NEW r \in Runs, pc[r] = "commit", lease.owner = r,
         db' = Committed(db, job[r].write), UNCHANGED ledgerVars
  PROVE  Abstract!Next
<1> DEFINE w == job[r].write
           k == w.round
<1>1. /\ w \in Write /\ k \in Rounds
      /\ Justified(job[r].stage, w, job[r].now, starts, db.last, db.results)
      /\ db'.results = [db.results EXCEPT ![k] = w.status]
      /\ job[r].stage = "rounds" => AllCounted(job[r].now, starts, logs, db.last)
  BY CommitFacts
<1>2. w.ballots \in BallotSets /\ OfPrefix(w.ballots, w.count, logs[k])
  BY ResultsFacts, CollectorFacts, JobFields DEF Placed
<1>3. logs' = logs
  BY DEF ledgerVars, contractVars
<1> HIDE DEF w, k
<1>4. k \in Abstract!Rounds /\ Abstract!ClosedStatuses = ClosedResults
  BY <1>1 DEF Abstract!Rounds, Rounds, Abstract!ClosedStatuses, ClosedResults
<1>5. k = w.round
  BY DEF k, w
<1>6. CASE w.status = LiveStatus(k) /\ db.results[k] \notin ClosedResults
  <2>1. Abstract!Publish(k)
    BY <1>1, <1>3, <1>4, <1>6 DEF Abstract!Publish, Abstract!Decided, LiveStatus
  <2>2. QED BY <1>4, <2>1 DEF Abstract!Next
<1>7. CASE w.status = "FINAL" /\ db.results[k] = "TIE_UNRESOLVED"
  <2>1. Abstract!Resolve(k)
    BY <1>1, <1>3, <1>7 DEF Abstract!Resolve
  <2>2. QED BY <1>4, <2>1 DEF Abstract!Next
<1>8. CASE /\ job[r].stage = "rounds" /\ w.status = Verdict(k, w.ballots)
           /\ db.results[k] \notin ClosedResults
           /\ EndedAt(k, job[r].now, starts) /\ w.count = db.last[k]
           /\ k = 2 => db.results[1] = "ROUND_1_FAILED"
  <2>1. w.count = Len(logs[k])
    BY <1>1, <1>8 DEF AllCounted
  <2>2. w.ballots = Abstract!BallotsOf(logs[k])
    BY <1>2, <2>1, WholeLogBallots
  <2>3. Abstract!Decide(k)
    BY <1>1, <1>3, <1>4, <1>8, <2>2 DEF Abstract!Decide, Abstract!Decided
  <2>4. QED BY <1>4, <2>3 DEF Abstract!Next
<1>9. QED BY <1>1, <1>5, <1>6, <1>7, <1>8 DEF Justified

\* No result is published before there is a vote.
LEMMA RefinedInit == Init => Abstract!Init
<1> SUFFICES ASSUME Init PROVE Abstract!Init
  OBVIOUS
<1>1. logs = [k \in Rounds |-> <<>>] /\ db.results = [k \in Rounds |-> None]
  BY DEF Init, LedgerInit, DbInit
<1>2. QED BY <1>1 DEF Abstract!Init, Abstract!Rounds, Rounds

\* Every step casts a vote in an undecided round, publishes, decides or resolves,
\* or is invisible.
LEMMA RefinedStep == ResultsInv /\ [Next]_vars => [Abstract!Next]_(Abstract!electionVars)
<1> SUFFICES ASSUME ResultsInv, [Next]_vars
             PROVE  Abstract!Next \/ UNCHANGED Abstract!electionVars
  OBVIOUS
<1>1. CASE logs' = logs /\ db'.results = db.results
  BY <1>1 DEF Abstract!electionVars
<1>2. CASE logs' # logs
  <2>1. PICK k \in Rounds, x \in Vote : ~ Ended(k) /\ logs' = [logs EXCEPT ![k] = Append(@, x)]
    BY <1>2, VotesOnlyFromLedger, ResultsFacts, LedgerCases
  <2>2. db' = db
    BY <1>2, VotesOnlyFromLedger, ResultsFacts, LedgerCases
  <2>3. ~ Closed(k)
    BY <2>1, ResultsFacts DEF ClosedEnded
  <2>4. k \in Abstract!Rounds /\ x \in Abstract!Vote
    BY DEF Abstract!Rounds, Rounds, Abstract!Vote, Vote
  <2>5. ~ Abstract!Decided(k)
    BY <2>3 DEF Abstract!Decided, Abstract!ClosedStatuses, Closed, ClosedResults
  <2>6. Abstract!CastIn(k)
    BY <2>1, <2>2, <2>4, <2>5 DEF Abstract!CastIn
  <2>7. QED BY <2>4, <2>6 DEF Abstract!Next
<1>3. CASE db'.results # db.results
  BY <1>3, ResultsOnlyCommitted, RefinedCommit
<1>4. QED BY <1>1, <1>2, <1>3

\* Polls together, however they overlap, stall, crash and repeat each other's work,
\* close each round once, with the verdict on all its votes, a rerun only after a
\* failed first round, and change a closed result only to resolve its tie.
THEOREM ResultsImplementPublishedElection == Spec => DecidesOnce
<1>1. Init => Abstract!Init
  BY RefinedInit
<1>2. ResultsInv /\ [Next]_vars => [Abstract!Next]_(Abstract!electionVars)
  BY RefinedStep
<1>3. QED BY <1>1, <1>2, ResultsInvariant, PTL DEF Spec, DecidesOnce, Abstract!Spec


-----------------------------------------------------------------------------
(***************************************************************************)
(* The published status: the inductive invariant                           *)
(***************************************************************************)
\* The runs that go on have the lease, and it holds.
Alone == \A r \in Runs : AtWork(r) => lease.owner = r /\ lease.live

\* A recorded and a weighted pass; and what rules one out for good.
Passed == outcome = "PASSED" /\ tally.passed
Refuted == outcome = "FAILED" \/ ~ tally.passed

\* The operator waits with the second round, too.
RerunHeeded == "rerun" \in Heeds

Onwards == PastGate \cup {"MJ_PENDING"}

\* The steps at which a poll's page is known.
Deciding == Steps \ {"cursor", "page"}

\* What the contract and its events say of the check; a round has been started
\* after a pass only.
CheckSound ==
  /\ outcome # None => clock >= CheckDays
  /\ \A i \in 1..Len(stream) :
       /\ stream[i].outcome \in {None, outcome}
       /\ stream[i].rounds # {} => stream[i].outcome = "PASSED"
  /\ \A k \in Rounds : starts[k] # None => Passed

\* What the tables d say of the check.
Gated(d) ==
  /\ d.outcome \in {None, outcome}
  /\ d.status \in Onwards => Passed

\* The status of the tables d follows the rounds and their results.
Shown(d) ==
  /\ starts[1] # None => d.status \notin {None, "TC_LIVE", "TC_FAILED"}
  /\ starts[2] # None => starts[1] # None /\ d.results[1] = "ROUND_1_FAILED"
  /\ d.status = "RERUN_LIVE" => d.results[1] = "ROUND_1_FAILED"
  /\ d.results[2] # "ROUND_1_FAILED"
  /\ d.status \in ClosedResults => \E k \in Rounds : d.results[k] = d.status
  /\ d.results[2] \in ClosedResults => d.status = d.results[2]
  /\ d.results[1] \in ClosedResults /\ d.results[2] \notin ClosedResults =>
       \/ d.status = d.results[1]
       \/ d.results[1] = "ROUND_1_FAILED" /\ d.status = "RERUN_LIVE"

\* A phase that a poll may be about to publish on the tables d.
PhaseFits(phase, d) ==
  /\ phase \in {"TC_LIVE", "TC_FAILED", "MJ_PENDING", "LIVE", "RERUN_LIVE"}
  /\ phase = "TC_FAILED" => Refuted
  /\ phase = "MJ_PENDING" => d.status \in {"TC_LIVE", "MJ_PENDING"}
  /\ phase = "LIVE" => starts[1] # None /\ d.results[1] \notin ClosedResults
  /\ phase = "RERUN_LIVE" => starts[2] # None

\* The rounds closed had ended at the page's time.
ClosedInTime(j, d) ==
  \A k \in Rounds : d.results[k] \in ClosedResults => EndedAt(k, j.now, starts)

\* A recorded outcome that a job knows is not younger than its page.
JobGated(j, step, d) ==
  /\ step \in Deciding =>
       /\ d.outcome # None => j.now >= CheckDays
       /\ \A i \in j.todo : stream[i].outcome # None => j.now >= CheckDays
  /\ step \in {"phase", "setPhase"} /\ j.phase \in Onwards => Passed
  /\ step = "commit" => starts[j.write.round] # None

\* What a job is about to write fits the tables d.
JobShown(j, step, d) ==
  /\ step \in Deciding => ClosedInTime(j, d)
  /\ step \in {"phase", "setPhase"} => PhaseFits(j.phase, d)
  /\ step = "setPhase" => ~ PhaseBlocked(d.status, j.phase, d.results[1] = "ROUND_1_FAILED")
  /\ step = "superseded" => starts[2] # None
  /\ step = "commit" => j.write.shown

JobFits(j, step, d) == JobGated(j, step, d) /\ (RerunHeeded => JobShown(j, step, d))

DbFits(d) == Gated(d) /\ (RerunHeeded => Shown(d))

RunsFit == \A r \in Runs : JobFits(job[r], pc[r], db)

StatusInv == ResultsInv /\ Alone /\ CheckSound /\ DbFits(db) /\ RunsFit

-----------------------------------------------------------------------------
(***************************************************************************)
(* The published status: a run's step                                      *)
(***************************************************************************)
\* The parts of the invariant that a step relies on.
LEMMA StatusFacts ==
  ASSUME StatusInv
  PROVE  /\ ResultsInv /\ CollectorInv /\ CheckSound /\ DbFits(db)
         /\ lease \in Lease /\ db \in Db /\ stream \in Seq(Event) /\ Len(stream) \in Nat
         /\ db.outcome \in Outcomes /\ db.status \in Statuses \cup {None}
         /\ db.results \in [Rounds -> Statuses \cup {None}] /\ db.rounds \subseteq Rounds
         /\ outcome \in Outcomes /\ tally.passed \in BOOLEAN /\ clock \in Nat
         /\ starts \in [Rounds -> Nat \cup {None}]
         /\ \A r \in Runs :
              /\ job[r] \in Job /\ pc[r] \in PCs /\ job[r].write \in Write
              /\ JobFits(job[r], pc[r], db)
              /\ Timely(job[r], pc[r], stream, starts, clock)
              /\ Placed(job[r], pc[r], stream, logs)
              /\ AtWork(r) => lease.owner = r /\ lease.live
<1>1. ResultsInv /\ CollectorInv /\ CheckSound /\ DbFits(db) /\ Alone /\ RunsFit
  BY ResultsFacts DEF StatusInv
<1>2. /\ db \in Db /\ stream \in Seq(Event) /\ Len(stream) \in Nat /\ clock \in Nat
      /\ starts \in [Rounds -> Nat \cup {None}] /\ TypeOK /\ lease \in Lease
  BY <1>1, CollectorFacts
<1>3. outcome \in Outcomes /\ tally.passed \in BOOLEAN
  BY <1>2 DEF TypeOK, LedgerType
<1>4. \A r \in Runs : /\ job[r] \in Job /\ pc[r] \in PCs /\ job[r].write \in Write
                      /\ Placed(job[r], pc[r], stream, logs)
                      /\ Timely(job[r], pc[r], stream, starts, clock)
  BY <1>1, CollectorFacts, ResultsFacts, JobFields
<1>5. QED BY <1>1, <1>2, <1>3, <1>4, DbFields DEF Alone, RunsFit

\* While a run goes on, no other one does.
LEMMA OneAtWork ==
  ASSUME StatusInv, NEW r \in Runs, AtWork(r)
  PROVE  /\ lease.owner = r /\ lease.live
         /\ \A s \in Runs \ {r} : ~ AtWork(s)
BY StatusFacts

\* A run's step keeps the invariant if its job and the tables fit.
LEMMA StatusStep ==
  ASSUME StatusInv, ResultsInv', NEW r \in Runs, NEW j \in Job, NEW step \in PCs,
         Moves(r, j, step), UNCHANGED ledgerVars,
         \A s \in Runs \ {r} : AtWork(s) => lease' = lease /\ db' = db,
         step \in Steps \cup {"release"} => lease'.owner = r /\ lease'.live,
         DbFits(db'), JobFits(j, step, db')
  PROVE  StatusInv'
<1>1. /\ job'[r] = j /\ pc'[r] = step
      /\ \A s \in Runs \ {r} : job'[s] = job[s] /\ pc'[s] = pc[s]
  BY StatusFacts, CollectorFacts DEF TypeOK, Moves
<1>2. /\ stream' = stream /\ outcome' = outcome /\ starts' = starts /\ clock' = clock
      /\ tally' = tally
  BY DEF ledgerVars, contractVars
<1>3. CheckSound'
  BY <1>2, StatusFacts DEF CheckSound, Passed
<1>4. Alone'
  BY <1>1, StatusFacts DEF Alone, AtWork
<1>5. DbFits(db)'
  BY <1>2 DEF DbFits, Gated, Shown, Passed
<1>6. JobFits(job[r], pc[r], db)'
  BY <1>1, <1>2
  DEF JobFits, JobGated, JobShown, PhaseFits, ClosedInTime, EndedAt, Passed, Refuted
<1>7. ASSUME NEW s \in Runs \ {r}
      PROVE  JobFits(job[s], pc[s], db)'
  <2>1. CASE AtWork(s)
    <3>1. db' = db /\ JobFits(job[s], pc[s], db)
      BY <2>1, StatusFacts
    <3>2. QED BY <1>1, <1>2, <3>1
      DEF JobFits, JobGated, JobShown, PhaseFits, ClosedInTime, EndedAt, Passed, Refuted
  <2>2. CASE ~ AtWork(s)
    <3>1. pc'[s] \notin Steps
      BY <1>1, <2>2 DEF AtWork
    <3>2. QED BY <3>1 DEF JobFits, JobGated, JobShown, Deciding, Steps
  <2>3. QED BY <2>1, <2>2
<1>8. RunsFit'
  BY <1>6, <1>7 DEF RunsFit
<1>9. QED BY <1>3, <1>4, <1>5, <1>8 DEF StatusInv

\* Run r goes on in a way that fits the tables d.
GoesFit(r, d) ==
  \E j \in Job, step \in PCs : Moves(r, j, step) /\ JobFits(j, step, d)

\* A step that goes on, and leaves the lease and the tables in order, keeps the invariant.
LEMMA StatusGoesOn ==
  ASSUME StatusInv, ResultsInv', NEW r \in Runs, AtWork(r), UNCHANGED ledgerVars,
         lease' = lease, GoesFit(r, db'), DbFits(db')
  PROVE  StatusInv'
<1>1. PICK j \in Job, step \in PCs : Moves(r, j, step) /\ JobFits(j, step, db')
  BY DEF GoesFit
<1>2. QED BY <1>1, OneAtWork, StatusStep

\* Renewing a lease that holds changes nothing.
LEMMA RenewalKeeps ==
  ASSUME StatusInv, NEW r \in Runs, AtWork(r)
  PROVE  /\ RenewLease => lease' = lease
         /\ FencePasses(r, lease.live)
<1>1. lease.owner = r /\ lease.live /\ lease \in Lease
  BY OneAtWork, StatusFacts
<1>2. [lease EXCEPT !.live = TRUE] = lease
  BY <1>1 DEF Lease
<1>3. QED BY <1>1, <1>2 DEF RenewLease, FencePasses

\* A run may go on with the job it has, if it is not about to write.
LEMMA GoesOnFit ==
  ASSUME StatusInv, NEW r \in Runs, NEW step \in PCs, UNCHANGED job, Goto(r, step),
         step \notin {"phase", "setPhase", "commit", "superseded"},
         step \in Deciding => pc[r] \in Deciding,
         NEW d, d.outcome = db.outcome,
         RerunHeeded /\ step \in Deciding => ClosedInTime(job[r], d)
  PROVE  GoesFit(r, d)
<1>1. Moves(r, job[r], step) /\ job[r] \in Job
  BY StatusFacts, CollectorFacts DEF Moves, Goto, TypeOK
<1>2. JobFits(job[r], pc[r], db)
  BY StatusFacts
<1>3. JobGated(job[r], step, d)
  BY <1>2 DEF JobFits, JobGated
<1>4. RerunHeeded => JobShown(job[r], step, d)
  BY DEF JobShown
<1>5. QED BY <1>1, <1>3, <1>4 DEF GoesFit, JobFits

\* The tables that a job at work knows are closed in time.
LEMMA InTime ==
  ASSUME StatusInv, NEW r \in Runs, pc[r] \in Deciding, RerunHeeded
  PROVE  ClosedInTime(job[r], db)
BY StatusFacts DEF JobFits, JobShown

\* An action done, the rest of the page still fits.
LEMMA FinishFit ==
  ASSUME StatusInv, NEW r \in Runs, pc[r] \in Deciding, FinishAction(r),
         NEW d, d.outcome = db.outcome, RerunHeeded => ClosedInTime(job[r], d)
  PROVE  GoesFit(r, d)
<1> DEFINE rest == job[r].todo \ {Earliest(job[r].todo)}
           j == [job[r] EXCEPT !.todo = rest]
           step == IF rest = {} THEN "advance" ELSE "cache"
<1>1. job[r] \in Job /\ JobFits(job[r], pc[r], db)
  BY StatusFacts
<1>2. j \in Job
  <2>1. rest \in SUBSET Nat
    BY <1>1, JobFields
  <2> HIDE DEF rest
  <2>2. QED BY <1>1, <2>1, JobUpdates
<1>3. j.now = job[r].now /\ j.todo = rest
  BY <1>1 DEF Job
<1>4. Moves(r, j, step)
  BY StatusFacts, CollectorFacts DEF Moves, FinishAction, Goto, TypeOK
<1>5. step \in {"advance", "cache"} /\ step \in PCs
  BY DEF PCs, Steps
<1>6. rest \subseteq job[r].todo
  OBVIOUS
<1> HIDE DEF j, step, rest
<1>7. JobGated(j, step, d)
  BY <1>1, <1>3, <1>5, <1>6 DEF JobFits, JobGated
<1>8. RerunHeeded => JobShown(j, step, d)
  BY <1>3, <1>5 DEF JobShown, ClosedInTime
<1>9. QED BY <1>2, <1>4, <1>5, <1>7, <1>8 DEF GoesFit, JobFits

\* A phase that fits is set.
LEMMA SetPhaseFit ==
  ASSUME StatusInv, NEW r \in Runs, pc[r] \in Deciding,
         NEW stage \in {"events", "gate", "rounds"}, NEW phase \in Statuses,
         SetPhase(r, stage, phase), phase \in Onwards => Passed,
         NEW d, \/ d.outcome = db.outcome
                \/ d.outcome # None => job[r].now >= CheckDays,
         RerunHeeded => ClosedInTime(job[r], d) /\ PhaseFits(phase, d)
  PROVE  GoesFit(r, d)
<1> DEFINE j == [job[r] EXCEPT !.stage = stage, !.phase = phase]
<1>1. job[r] \in Job /\ JobFits(job[r], pc[r], db)
  BY StatusFacts
<1>2. j \in Job
  BY <1>1, JobUpdates
<1>3. j.phase = phase /\ j.todo = job[r].todo /\ j.now = job[r].now
  BY <1>1 DEF Job
<1>4. Moves(r, j, "phase")
  <2>1. job' = [job EXCEPT ![r] = j]
    BY StatusFacts, CollectorFacts DEF SetPhase, TypeOK
  <2>2. QED BY <2>1 DEF Moves, SetPhase, Goto
<1>5. "phase" \in PCs
  BY DEF PCs, Steps
<1> HIDE DEF j
<1>6. JobGated(j, "phase", d)
  BY <1>1, <1>3 DEF JobFits, JobGated
<1>7. RerunHeeded => JobShown(j, "phase", d)
  BY <1>3 DEF JobShown, ClosedInTime
<1>8. QED BY <1>2, <1>4, <1>5, <1>6, <1>7 DEF GoesFit, JobFits

\* A write of a started round is prepared.
LEMMA PrepareFit ==
  ASSUME StatusInv, NEW r \in Runs, pc[r] \in Deciding, NEW w \in Write, NEW allowTie \in BOOLEAN,
         Prepare(r, w, allowTie), starts[w.round] # None, RerunHeeded => w.shown
  PROVE  GoesFit(r, db)
<1>1. CASE Refused(w, allowTie)
  <2>1. Goto(r, "release") /\ UNCHANGED job /\ "release" \in PCs /\ "release" \notin Deciding
    BY <1>1 DEF Prepare, Fail, PCs, Deciding, Steps
  <2>2. QED BY <2>1, GoesOnFit
<1>2. CASE ~ Refused(w, allowTie)
  <2> DEFINE j == [job[r] EXCEPT !.write = w]
  <2>1. job[r] \in Job /\ JobFits(job[r], pc[r], db)
    BY StatusFacts
  <2>2. j \in Job
    BY <2>1, JobUpdates
  <2>3. j.write = w /\ j.todo = job[r].todo /\ j.now = job[r].now
    BY <2>1 DEF Job
  <2>4. Moves(r, j, "commit") /\ "commit" \in PCs
    BY <1>2, StatusFacts, CollectorFacts DEF Moves, Prepare, Goto, TypeOK, PCs, Steps
  <2> HIDE DEF j
  <2>5. JobGated(j, "commit", db)
    BY <2>1, <2>3 DEF JobFits, JobGated
  <2>6. RerunHeeded => JobShown(j, "commit", db)
    BY <2>3, InTime DEF JobShown, ClosedInTime
  <2>7. QED BY <2>2, <2>4, <2>5, <2>6 DEF GoesFit, JobFits
<1>3. QED BY <1>1, <1>2

\* After a phase a poll goes on in its page, or past it.
LEMMA AfterPhaseFit ==
  ASSUME StatusInv, NEW r \in Runs, pc[r] \in Deciding, AfterPhase(r),
         NEW d, d.outcome = db.outcome, RerunHeeded => ClosedInTime(job[r], d)
  PROVE  GoesFit(r, d)
<1>1. \/ FinishAction(r)
      \/ UNCHANGED job /\ \E step \in {"calculate", "tie", "active", "release"} : Goto(r, step)
  <2>1. job[r].stage \in {"events", "gate", "rounds"}
    BY StatusFacts, JobFields
  <2>2. QED BY <2>1 DEF AfterPhase, AfterProjection
<1>2. CASE FinishAction(r)
  BY <1>2, FinishFit
<1>3. ASSUME UNCHANGED job, NEW step \in {"calculate", "tie", "active", "release"}, Goto(r, step)
      PROVE  GoesFit(r, d)
  <2>1. step \in PCs
    BY DEF PCs, Steps
  <2>2. QED BY <1>3, <2>1, GoesOnFit
<1>4. QED BY <1>1, <1>2, <1>3

-----------------------------------------------------------------------------
(***************************************************************************)
(* The published status: a poll's steps on the stream                      *)
(***************************************************************************)
\* Before its page a poll knows nothing of the check.
LEMMA EarlyFit ==
  ASSUME StatusInv, ResultsInv', NEW r \in Runs, Acquire(r) \/ ReadCursor(r)
  PROVE  StatusInv'
<1>1. DbFits(db) /\ job[r] \in Job /\ UNCHANGED <<ledgerVars, db>>
  BY StatusFacts DEF Acquire, ReadCursor
<1>2. \A j \in Job, step \in {"cursor", "page"} : JobFits(j, step, db)
  BY DEF JobFits, JobGated, JobShown, Deciding
<1>3. CASE Acquire(r)
  <2>1. Moves(r, job[r], "cursor") /\ "cursor" \in PCs
    BY <1>3, StatusFacts, CollectorFacts DEF Acquire, Moves, Goto, TypeOK, PCs, Steps
  <2>2. \A s \in Runs \ {r} : ~ AtWork(s)
    BY <1>3, StatusFacts DEF Acquire, AcquireLease, CanAcquire
  <2>3. lease'.owner = r /\ lease'.live
    BY <1>3 DEF Acquire, AcquireLease
  <2>4. DbFits(db') /\ JobFits(job[r], "cursor", db')
    BY <1>1, <1>2
  <2>5. QED BY <1>1, <2>1, <2>2, <2>3, <2>4, StatusStep
<1>4. CASE ReadCursor(r)
  <2> DEFINE j == [job[r] EXCEPT !.next = db.cursor]
  <2>1. j \in Job
    BY <1>1, JobUpdates, StatusFacts, CollectorFacts, DbFields
  <2>2. Moves(r, j, "page") /\ "page" \in PCs /\ lease' = lease /\ AtWork(r)
    BY <1>4, StatusFacts, CollectorFacts DEF ReadCursor, Moves, Goto, TypeOK, PCs, Steps, AtWork
  <2> HIDE DEF j
  <2>3. GoesFit(r, db')
    BY <1>1, <1>2, <2>1, <2>2 DEF GoesFit
  <2>4. QED BY <1>1, <2>2, <2>3, StatusGoesOn
<1>5. QED BY <1>3, <1>4

\* A page comes with the ledger's time: whatever is recorded was recorded after the
\* check's deadline, and whatever is closed was closed after the round's.
LEMMA FetchPageFit ==
  ASSUME StatusInv, ResultsInv', NEW r \in Runs, FetchPage(r)
  PROVE  StatusInv'
<1> DEFINE from == job[r].next
           end == PageEnd(from)
           todo == Deduped(from + 1, end)
           full == (end = from + PageSize)
           j == [job[r] EXCEPT !.next = end, !.full = full, !.todo = todo, !.now = clock]
           step == IF end = from THEN "gate" ELSE "cache"
<1>1. /\ pc[r] = "page" /\ job[r] \in Job /\ from \in Nat /\ from <= Len(stream)
      /\ clock \in Nat /\ Len(stream) \in Nat /\ stream \in Seq(Event)
      /\ UNCHANGED <<lease, ledgerVars, db>>
  BY StatusFacts, JobFields DEF FetchPage, Placed
<1>2. end \in Nat /\ end <= Len(stream) /\ todo \subseteq 1..end
  <2> HIDE DEF from
  <2>1. QED BY <1>1, PageBounds
<1>3. j \in Job /\ j.now = clock /\ j.todo = todo
  <2> HIDE DEF end, todo, full
  <2>1. todo \in SUBSET Nat
    BY <1>2
  <2>2. full \in BOOLEAN
    BY DEF full
  <2>3. j \in Job
    BY <1>1, <1>2, <2>1, <2>2, JobUpdates
  <2>4. j.now = clock /\ j.todo = todo
    BY <1>1 DEF Job
  <2>5. QED BY <2>3, <2>4
<1>4. Moves(r, j, step)
  <2>1. job' = [job EXCEPT ![r].next = end, ![r].full = full, ![r].todo = todo, ![r].now = clock]
    BY Zenon DEF FetchPage
  <2>2. pc' = [pc EXCEPT ![r] = step]
    BY Zenon DEF FetchPage, Goto
  <2>3. job \in [Runs -> Job]
    BY StatusFacts, CollectorFacts DEF TypeOK
  <2> HIDE DEF end, todo, full, step
  <2>4. job' = [job EXCEPT ![r] = j]
    BY <2>1, <2>3
  <2>5. QED BY <2>2, <2>4 DEF Moves
<1>5. step \in PCs /\ step \in {"gate", "cache"}
  BY DEF PCs, Steps
<1>6. todo \subseteq 1..Len(stream)
  <2> HIDE DEF todo, end
  <2>1. QED BY <1>1, <1>2
<1> HIDE DEF end, todo, full, j, step
<1>7. JobGated(j, step, db)
  <2>1. outcome # None => clock >= CheckDays
    BY StatusFacts DEF CheckSound
  <2>2. db.outcome # None => j.now >= CheckDays
    BY <1>3, <2>1, StatusFacts DEF DbFits, Gated
  <2>3. \A i \in j.todo : stream[i].outcome # None => j.now >= CheckDays
    BY <1>3, <1>6, <2>1, StatusFacts DEF CheckSound
  <2>4. QED BY <1>5, <2>2, <2>3 DEF JobGated
<1>8. ClosedInTime(j, db)
  BY <1>3, StatusFacts, ResultsFacts DEF ClosedInTime, ClosedEnded, Closed, Ended, Deadline, EndedAt
<1>9. RerunHeeded => JobShown(j, step, db)
  BY <1>5, <1>8 DEF JobShown
<1>10. GoesFit(r, db')
  BY <1>1, <1>3, <1>4, <1>5, <1>7, <1>9 DEF GoesFit, JobFits
<1>11. AtWork(r) /\ DbFits(db')
  BY <1>1, StatusFacts DEF AtWork, Steps
<1>12. QED BY <1>1, <1>10, <1>11, StatusGoesOn

\* The event a poll is at shows the check's outcome, if it was recorded, and the
\* rounds only if they were started.
LEMMA CurrentFacts ==
  ASSUME StatusInv, NEW r \in Runs, InPage(job[r], pc[r]), pc[r] \in Deciding
  PROVE  /\ Current(r) \in Event
         /\ Current(r).outcome \in {None, outcome}
         /\ Current(r).outcome # None => job[r].now >= CheckDays
         /\ Current(r).rounds # {} => outcome = "PASSED" /\ Current(r).outcome = "PASSED"
         /\ Current(r).rounds \subseteq StartedRounds(starts)
<1>1. Earliest(job[r].todo) \in job[r].todo /\ Current(r) \in Event
      /\ Earliest(job[r].todo) \in 1..Len(stream)
  BY StatusFacts, FirstFacts DEF First, Current, Placed
<1>2. Current(r) = stream[Earliest(job[r].todo)]
  BY DEF Current
<1>3. JobGated(job[r], pc[r], db) /\ CheckSound /\ ShownStarted
  BY StatusFacts, ResultsFacts DEF JobFits
<1>4. Current(r).outcome # None => job[r].now >= CheckDays
  BY <1>1, <1>2, <1>3 DEF JobGated
<1>5. /\ Current(r).outcome \in {None, outcome}
      /\ Current(r).rounds # {} => Current(r).outcome = "PASSED"
  BY <1>1, <1>2, <1>3 DEF CheckSound
<1>6. Current(r).rounds \subseteq StartedRounds(starts)
  BY <1>1, <1>2, <1>3 DEF ShownStarted
<1>7. QED BY <1>1, <1>4, <1>5, <1>6, NoneIsNoOutcome

\* The phase a projection derives.
LEMMA DerivedFacts ==
  ASSUME StatusInv, NEW r \in Runs, InPage(job[r], pc[r]), pc[r] \in Deciding
  PROVE  /\ DerivedStatus(Current(r)) \in {"TC_LIVE", "TC_FAILED", "RERUN_LIVE"}
         /\ DerivedStatus(Current(r)) = "TC_FAILED" => Refuted
         /\ DerivedStatus(Current(r)) = "RERUN_LIVE" => starts[2] # None /\ Passed
<1>1. /\ Current(r).outcome \in {None, outcome}
      /\ Current(r).rounds # {} => Current(r).outcome = "PASSED"
      /\ Current(r).rounds \subseteq StartedRounds(starts)
  BY CurrentFacts
<1>2. CASE 2 \notin Current(r).rounds
  <2>1. CASE Current(r).outcome = "FAILED"
    BY <1>1, <1>2, <2>1, NoneIsNoOutcome DEF DerivedStatus, CheckPhase, Refuted
  <2>2. CASE Current(r).outcome # "FAILED"
    BY <1>2, <2>2, NoneIsNoOutcome DEF DerivedStatus, CheckPhase
  <2>3. QED BY <2>1, <2>2
<1>3. CASE 2 \in Current(r).rounds
  <2>1. DerivedStatus(Current(r)) = "RERUN_LIVE"
    BY <1>1, <1>3 DEF DerivedStatus
  <2>2. 2 \in Rounds /\ starts[2] # None
    BY <1>1, <1>3 DEF StartedRounds, Rounds
  <2>3. QED BY <2>1, <2>2, StatusFacts DEF CheckSound
<1>4. QED BY <1>2, <1>3

\* One status follows another.
Advances(from, to) ==
  /\ Order(to) >= Order(from)
  /\ from \in {"FINAL", "FAILED", "TC_FAILED"} => to = from

\* A status follows itself.
LEMMA StaysPut == ASSUME NEW s \in Statuses \cup {None} PROVE Advances(s, s)
<1>1. Order(s) \in Nat
  BY NoneIsNoStatus DEF Order, Statuses
<1>2. QED BY <1>1 DEF Advances

\* Tables that differ in no status fit as well.
LEMMA SameStatusFits ==
  ASSUME StatusInv, db'.outcome = db.outcome, db'.status = db.status, db'.results = db.results
  PROVE  DbFits(db')
BY StatusFacts DEF DbFits, Gated, Shown

\* A closed round has been started.
LEMMA ClosedStarted ==
  ASSUME StatusInv
  PROVE  /\ db.results[1] \in ClosedResults => starts[1] # None
         /\ db.results[2] \in ClosedResults => starts[2] # None
BY StatusFacts, ResultsFacts DEF ClosedEnded, Closed, Ended, Rounds

\* The first projection of an election, before any round, shows its check.
LEMMA ProjectionShown ==
  ASSUME StatusInv, RerunHeeded, NEW r \in Runs, ProjectElection(r)
  PROVE  Shown(db') /\ Advances(db.status, db'.status)
<1>1. pc[r] = "election" /\ db \in Db /\ db.status \in Statuses \cup {None}
  BY StatusFacts DEF ProjectElection
<1>2. /\ db'.results = db.results
      /\ db'.status = IF db.status = None THEN DerivedStatus(Current(r)) ELSE db.status
  BY <1>1 DEF ProjectElection, Db
<1>3. Shown(db)
  BY StatusFacts DEF DbFits
<1>4. CASE db.status # None
  BY <1>1, <1>2, <1>3, <1>4, StaysPut DEF Shown
<1>5. CASE db.status = None
  <2>1. starts[1] = None /\ starts[2] = None
    BY <1>3, <1>5 DEF Shown
  <2>2. db.results[1] \notin ClosedResults /\ db.results[2] \notin ClosedResults
    BY <2>1, ClosedStarted
  <2>3. InPage(job[r], pc[r]) /\ pc[r] \in Deciding
    BY <1>1 DEF InPage, Deciding, Steps
  <2>4. db'.status \in {"TC_LIVE", "TC_FAILED"}
    BY <1>2, <1>5, <2>1, <2>3, DerivedFacts
  <2>5. Shown(db')
    BY <1>2, <1>3, <2>1, <2>2, <2>4 DEF Shown, ClosedResults
  <2>6. Order(db.status) = 0 /\ Order(db'.status) \in Nat
    BY <1>5, <2>4, NoneIsNoStatus DEF Order, Statuses
  <2>7. db.status \notin {"FINAL", "FAILED", "TC_FAILED"}
    BY <1>5, NoneIsNoStatus DEF Statuses
  <2>8. QED BY <2>5, <2>6, <2>7 DEF Advances
<1>6. QED BY <1>4, <1>5

\* The status that a phase replaces is an earlier one.
LEMMA PhaseShown ==
  ASSUME StatusInv, RerunHeeded, NEW r \in Runs, WritePhase(r)
  PROVE  Shown(db') /\ Advances(db.status, db'.status)
<1> DEFINE phase == job[r].phase
           s == db.status
           one == db.results[1]
           two == db.results[2]
<1>1. pc[r] = "setPhase" /\ db \in Db /\ s \in Statuses \cup {None}
  BY StatusFacts DEF WritePhase
<1>2. db'.results = db.results /\ db'.status = phase
  BY <1>1 DEF WritePhase, Db
<1>3. PhaseFits(phase, db) /\ ~ PhaseBlocked(s, phase, one = "ROUND_1_FAILED")
  BY <1>1, StatusFacts DEF JobFits, JobShown
<1>4. /\ starts[1] # None => s \notin {None, "TC_LIVE", "TC_FAILED"}
      /\ starts[2] # None => starts[1] # None /\ one = "ROUND_1_FAILED"
      /\ s = "RERUN_LIVE" => one = "ROUND_1_FAILED"
      /\ two # "ROUND_1_FAILED"
      /\ s \in ClosedResults => one = s \/ two = s
      /\ two \in ClosedResults => s = two
      /\ one \in ClosedResults /\ two \notin ClosedResults =>
           s = one \/ (one = "ROUND_1_FAILED" /\ s = "RERUN_LIVE")
  <2>1. Shown(db)
    BY StatusFacts DEF DbFits
  <2>2. s \in ClosedResults => one = s \/ two = s
    BY <2>1 DEF Shown, Rounds
  <2>3. QED BY <2>1, <2>2 DEF Shown
<1>5. /\ one \in ClosedResults => starts[1] # None
      /\ two \in ClosedResults => starts[2] # None
  BY ClosedStarted
<1>6. s \in Onwards => ~ Refuted
  BY StatusFacts DEF DbFits, Gated, Passed, Refuted
<1>7. s \in Statuses \/ s = None
  BY <1>1
<1> HIDE DEF phase, s, one, two
<1>8. CASE phase \in {"TC_LIVE", "TC_FAILED"}
  <2>1. s \in {None, "TC_LIVE"}
    BY <1>3, <1>6, <1>7, <1>8, NoneIsNoStatus
    DEF PhaseBlocked, PhaseFits, LockedPhases, PastGate, Onwards, Statuses
  <2>2. starts[1] = None /\ starts[2] = None
    BY <1>4, <2>1
  <2>3. Shown(db')
    BY <1>2, <1>4, <1>5, <1>8, <2>2 DEF Shown, ClosedResults, one, two
  <2>4. Advances(s, phase)
    BY <1>8, <2>1, NoneIsNoStatus DEF Advances, Order, Statuses
  <2>5. QED BY <1>2, <2>3, <2>4 DEF s
<1>9. CASE phase = "MJ_PENDING"
  <2>1. s \in {"TC_LIVE", "MJ_PENDING"}
    BY <1>3, <1>9 DEF PhaseFits, s
  <2>2. one \notin ClosedResults /\ two \notin ClosedResults /\ starts[2] = None
    BY <1>4, <1>5, <2>1 DEF ClosedResults
  <2>3. Shown(db')
    BY <1>2, <1>4, <1>9, <2>2, NoneIsNoStatus DEF Shown, ClosedResults, Statuses, one, two
  <2>4. Advances(s, phase)
    BY <1>9, <2>1, NoneIsNoStatus DEF Advances, Order, Statuses
  <2>5. QED BY <1>2, <2>3, <2>4 DEF s
<1>10. CASE phase = "LIVE"
  <2>1. starts[1] # None /\ one \notin ClosedResults
    BY <1>3, <1>10 DEF PhaseFits, one
  <2>2. one # "ROUND_1_FAILED" /\ starts[2] = None /\ two \notin ClosedResults
    BY <1>4, <1>5, <2>1 DEF ClosedResults
  <2>3. s \in {"MJ_PENDING", "LIVE"}
    BY <1>4, <1>7, <2>1, <2>2 DEF Statuses, ClosedResults
  <2>4. Shown(db')
    BY <1>2, <1>4, <1>10, <2>1, <2>2, NoneIsNoStatus DEF Shown, ClosedResults, Statuses, one, two
  <2>5. Advances(s, phase)
    BY <1>10, <2>3, NoneIsNoStatus DEF Advances, Order, Statuses
  <2>6. QED BY <1>2, <2>4, <2>5 DEF s
<1>11. CASE phase = "RERUN_LIVE"
  <2>1. starts[2] # None /\ starts[1] # None /\ one = "ROUND_1_FAILED"
    BY <1>3, <1>4, <1>11 DEF PhaseFits
  <2>2. two \notin ClosedResults
    BY <1>3, <1>4 DEF PhaseBlocked, LockedPhases, ClosedResults
  <2>3. s \in {"ROUND_1_FAILED", "RERUN_LIVE"}
    BY <1>4, <2>1, <2>2 DEF ClosedResults
  <2>4. Shown(db')
    BY <1>2, <1>4, <1>11, <2>1, <2>2, NoneIsNoStatus DEF Shown, ClosedResults, Statuses, one, two
  <2>5. Advances(s, phase)
    BY <1>11, <2>3, NoneIsNoStatus DEF Advances, Order, Statuses
  <2>6. QED BY <1>2, <2>4, <2>5 DEF s
<1>12. QED BY <1>3, <1>8, <1>9, <1>10, <1>11 DEF PhaseFits

\* The result that is committed is of a later status than the one published.
LEMMA CommitShown ==
  ASSUME StatusInv, RerunHeeded, NEW r \in Runs, pc[r] = "commit", lease.owner = r,
         db' = Committed(db, job[r].write), UNCHANGED ledgerVars
  PROVE  Shown(db') /\ Advances(db.status, db'.status)
<1> DEFINE w == job[r].write
           k == w.round
           new == w.status
           s == db.status
           one == db.results[1]
           two == db.results[2]
<1>1. /\ w \in Write /\ k \in Rounds
      /\ Justified(job[r].stage, w, job[r].now, starts, db.last, db.results)
      /\ db.results \in [Rounds -> Statuses \cup {None}]
      /\ db'.results = [db.results EXCEPT ![k] = new]
  BY CommitFacts, StatusFacts
<1>2. starts[k] # None /\ w.shown
  BY StatusFacts DEF JobFits, JobGated, JobShown
<1>3. db'.status = new
  BY <1>1, <1>2, CommittedFields, StatusFacts
<1>4. /\ starts[1] # None => s \notin {None, "TC_LIVE", "TC_FAILED"}
      /\ starts[2] # None => starts[1] # None /\ one = "ROUND_1_FAILED"
      /\ s = "RERUN_LIVE" => one = "ROUND_1_FAILED"
      /\ two # "ROUND_1_FAILED"
      /\ s \in ClosedResults => one = s \/ two = s
      /\ two \in ClosedResults => s = two
      /\ one \in ClosedResults /\ two \notin ClosedResults =>
           s = one \/ (one = "ROUND_1_FAILED" /\ s = "RERUN_LIVE")
  <2>1. Shown(db)
    BY StatusFacts DEF DbFits
  <2>2. s \in ClosedResults => one = s \/ two = s
    BY <2>1 DEF Shown, Rounds
  <2>3. QED BY <2>1, <2>2 DEF Shown
<1>5. /\ one \in ClosedResults => starts[1] # None
      /\ two \in ClosedResults => starts[2] # None
  BY ClosedStarted
<1>6. s \in Statuses \/ s = None
  BY StatusFacts
<1>7. /\ k = 1 => db'.results[1] = new /\ db'.results[2] = two
      /\ k = 2 => db'.results[1] = one /\ db'.results[2] = new
  BY <1>1 DEF Rounds
<1>8. k = 1 \/ k = 2
  BY <1>1 DEF Rounds
<1>9. /\ db'.status \in ClosedResults =>
           db'.results[1] = db'.status \/ db'.results[2] = db'.status
      /\ starts[1] # None => db'.status \notin {None, "TC_LIVE", "TC_FAILED"}
      /\ starts[2] # None => starts[1] # None /\ db'.results[1] = "ROUND_1_FAILED"
      /\ db'.status = "RERUN_LIVE" => db'.results[1] = "ROUND_1_FAILED"
      /\ db'.results[2] # "ROUND_1_FAILED"
      /\ db'.results[2] \in ClosedResults => db'.status = db'.results[2]
      /\ db'.results[1] \in ClosedResults /\ db'.results[2] \notin ClosedResults =>
           \/ db'.status = db'.results[1]
           \/ db'.results[1] = "ROUND_1_FAILED" /\ db'.status = "RERUN_LIVE"
      => Shown(db')
  BY DEF Shown, Rounds
<1>10. \/ /\ new = LiveStatus(k) /\ db.results[k] \notin ClosedResults
       \/ /\ new = "FINAL" /\ db.results[k] = "TIE_UNRESOLVED"
       \/ /\ k = 1 => new \in {"ROUND_1_FAILED", "TIE_UNRESOLVED", "FINAL"}
          /\ k = 2 => new \in {"FAILED", "TIE_UNRESOLVED", "FINAL"}
          /\ db.results[k] \notin ClosedResults
  <2>1. w.ballots \in BallotSets
    BY <1>1 DEF Write
  <2>2. new = Verdict(k, w.ballots) =>
          /\ k = 1 => new \in {"ROUND_1_FAILED", "TIE_UNRESOLVED", "FINAL"}
          /\ k = 2 => new \in {"FAILED", "TIE_UNRESOLVED", "FINAL"}
    BY <2>1, VerdictAssumption
  <2>3. QED BY <1>1, <2>2 DEF Justified
<1> HIDE DEF w, k, new, s, one, two
<1>11. CASE k = 1
  <2>1. db.results[k] = one
    BY <1>11 DEF one
  <2>2. starts[1] # None
    BY <1>2, <1>11
  <2>3. CASE one = "TIE_UNRESOLVED" /\ new = "FINAL"
    <3>1. starts[2] = None /\ two \notin ClosedResults /\ s = "TIE_UNRESOLVED"
      BY <1>4, <1>5, <2>3 DEF ClosedResults
    <3>2. Shown(db')
      BY <1>3, <1>4, <1>7, <1>9, <1>11, <2>3, <3>1, NoneIsNoStatus
      DEF ClosedResults, Statuses
    <3>3. Advances(s, new)
      BY <2>3, <3>1, NoneIsNoStatus DEF Advances, Order, Statuses
    <3>4. QED BY <1>3, <3>2, <3>3 DEF s
  <2>4. CASE /\ one \notin ClosedResults
             /\ new \in {"LIVE", "ROUND_1_FAILED", "TIE_UNRESOLVED", "FINAL"}
    <3>1. starts[2] = None /\ two \notin ClosedResults /\ s \in {"MJ_PENDING", "LIVE"}
      BY <1>4, <1>5, <1>6, <2>2, <2>4 DEF ClosedResults, Statuses
    <3>2. Shown(db')
      BY <1>3, <1>4, <1>7, <1>9, <1>11, <2>4, <3>1, NoneIsNoStatus
      DEF ClosedResults, Statuses
    <3>3. Advances(s, new)
      BY <2>4, <3>1, NoneIsNoStatus DEF Advances, Order, Statuses
    <3>4. QED BY <1>3, <3>2, <3>3 DEF s
  <2>5. QED BY <1>10, <1>11, <2>1, <2>3, <2>4 DEF LiveStatus
<1>12. CASE k = 2
  <2>1. db.results[k] = two
    BY <1>12 DEF two
  <2>2. starts[2] # None /\ starts[1] # None /\ one = "ROUND_1_FAILED"
    BY <1>2, <1>4, <1>12
  <2>3. CASE two = "TIE_UNRESOLVED" /\ new = "FINAL"
    <3>1. s = "TIE_UNRESOLVED"
      BY <1>4, <2>3 DEF ClosedResults
    <3>2. Shown(db')
      BY <1>3, <1>7, <1>9, <1>12, <2>2, <2>3, NoneIsNoStatus DEF ClosedResults, Statuses
    <3>3. Advances(s, new)
      BY <2>3, <3>1, NoneIsNoStatus DEF Advances, Order, Statuses
    <3>4. QED BY <1>3, <3>2, <3>3 DEF s
  <2>4. CASE /\ two \notin ClosedResults
             /\ new \in {"RERUN_LIVE", "FAILED", "TIE_UNRESOLVED", "FINAL"}
    <3>1. s \in {"ROUND_1_FAILED", "RERUN_LIVE"}
      BY <1>4, <2>2, <2>4 DEF ClosedResults
    <3>2. Shown(db')
      BY <1>3, <1>7, <1>9, <1>12, <2>2, <2>4, NoneIsNoStatus DEF ClosedResults, Statuses
    <3>3. Advances(s, new)
      BY <2>4, <3>1, NoneIsNoStatus DEF Advances, Order, Statuses
    <3>4. QED BY <1>3, <3>2, <3>3 DEF s
  <2>5. QED BY <1>10, <1>12, <2>1, <2>3, <2>4 DEF LiveStatus
<1>13. QED BY <1>8, <1>11, <1>12

\* The projection, in its page.
LEMMA ProjectionFit ==
  ASSUME StatusInv, ResultsInv', NEW r \in Runs,
         InitializeCache(r) \/ ProjectElection(r) \/ ProjectRounds(r)
  PROVE  StatusInv'
<1> /\ db \in Db /\ JobFits(job[r], pc[r], db) /\ DbFits(db) /\ job[r] \in Job
  BY StatusFacts
<1>1. /\ AtWork(r) /\ pc[r] \in Deciding /\ InPage(job[r], pc[r])
      /\ UNCHANGED ledgerVars
  BY DEF InitializeCache, ProjectElection, ProjectRounds, AtWork, Deciding, Steps, InPage
<1>2. RerunHeeded => ClosedInTime(job[r], db)
  BY <1>1, InTime
<1>3. CASE InitializeCache(r)
  <2>1. lease' = lease /\ Goto(r, "election") /\ UNCHANGED <<job, db>>
    BY <1>1, <1>3, RenewalKeeps DEF InitializeCache
  <2>2. GoesFit(r, db)
    BY <1>1, <1>2, <2>1, GoesOnFit DEF PCs, Steps
  <2>3. GoesFit(r, db')
    BY <2>1, <2>2
  <2>4. QED BY <1>1, <2>1, <2>3, StatusGoesOn
<1>4. CASE ProjectElection(r)
  <2>1. /\ lease' = lease /\ Goto(r, "rounds") /\ UNCHANGED job
        /\ db'.outcome = Current(r).outcome /\ db'.results = db.results
        /\ db'.status = IF db.status = None THEN DerivedStatus(Current(r)) ELSE db.status
    BY <1>4 DEF ProjectElection, Db
  <2>2. Gated(db')
    <3>1. db'.outcome \in {None, outcome}
      BY <1>1, <2>1, CurrentFacts
    <3>2. db'.status \in Onwards => Passed
      BY <1>1, <2>1, DerivedFacts DEF DbFits, Gated, Onwards, PastGate
    <3>3. QED BY <3>1, <3>2 DEF Gated
  <2>3. DbFits(db')
    BY <1>4, <2>2, ProjectionShown DEF DbFits
  <2>4. JobGated(job[r], "rounds", db')
    <3>1. db'.outcome # None => job[r].now >= CheckDays
      BY <1>1, <2>1, CurrentFacts
    <3>2. QED BY <1>1, <3>1 DEF JobFits, JobGated
  <2>5. RerunHeeded => JobShown(job[r], "rounds", db')
    BY <1>2, <2>1 DEF JobShown, ClosedInTime
  <2>6. Moves(r, job[r], "rounds") /\ "rounds" \in PCs
    BY <2>1, StatusFacts, CollectorFacts DEF Moves, Goto, TypeOK, PCs, Steps
  <2>7. GoesFit(r, db')
    BY <2>4, <2>5, <2>6 DEF GoesFit, JobFits
  <2>8. QED BY <1>1, <2>1, <2>3, <2>7, StatusGoesOn
<1>5. CASE ProjectRounds(r)
  <2>1. /\ lease' = lease /\ SetPhase(r, "events", DerivedStatus(Current(r)))
        /\ db'.outcome = db.outcome /\ db'.results = db.results /\ db'.status = db.status
    BY <1>5 DEF ProjectRounds, Db
  <2>2. PICK phase \in Statuses : phase = DerivedStatus(Current(r))
    BY <1>1, CurrentFacts, StatusTypes
  <2>3. /\ phase \in {"TC_LIVE", "TC_FAILED", "RERUN_LIVE"}
        /\ phase = "TC_FAILED" => Refuted
        /\ phase = "RERUN_LIVE" => starts[2] # None /\ Passed
    BY <1>1, <2>2, DerivedFacts
  <2>4. /\ phase \in Onwards => Passed
        /\ RerunHeeded => ClosedInTime(job[r], db') /\ PhaseFits(phase, db')
    BY <1>2, <2>1, <2>3 DEF Onwards, PastGate, PhaseFits, ClosedInTime
  <2>5. SetPhase(r, "events", phase) /\ "events" \in {"events", "gate", "rounds"}
    BY <2>1, <2>2
  <2>6. GoesFit(r, db')
    BY <1>1, <2>1, <2>4, <2>5, SetPhaseFit
  <2>7. DbFits(db')
    BY <2>1, SameStatusFits
  <2>8. QED BY <1>1, <2>1, <2>6, <2>7, StatusGoesOn
<1>6. QED BY <1>3, <1>4, <1>5

\* A phase is published only if it fits what is published.
LEMMA PhaseStepsFit ==
  ASSUME StatusInv, ResultsInv', NEW r \in Runs, ReadPhase(r) \/ WritePhase(r)
  PROVE  StatusInv'
<1> /\ db \in Db /\ JobFits(job[r], pc[r], db) /\ DbFits(db) /\ job[r] \in Job
  BY StatusFacts
<1>1. /\ AtWork(r) /\ pc[r] \in Deciding /\ pc[r] \in {"phase", "setPhase"}
      /\ UNCHANGED <<lease, ledgerVars>>
  BY DEF ReadPhase, WritePhase, AtWork, Deciding, Steps
<1>2. RerunHeeded => ClosedInTime(job[r], db)
  BY <1>1, InTime
<1>3. CASE ReadPhase(r) /\ AfterPhase(r)
  <2>1. GoesFit(r, db) /\ db' = db
    BY <1>1, <1>2, <1>3, AfterPhaseFit DEF ReadPhase
  <2>2. GoesFit(r, db')
    BY <2>1
  <2>3. QED BY <1>1, <2>1, <2>2, StatusGoesOn
<1>4. CASE ReadPhase(r) /\ ~ AfterPhase(r)
  <2>1. /\ pc[r] = "phase" /\ db' = db /\ Goto(r, "setPhase") /\ UNCHANGED job
        /\ ~ PhaseBlocked(db.status, job[r].phase, db.results[1] = "ROUND_1_FAILED")
    BY <1>4 DEF ReadPhase
  <2>2. Moves(r, job[r], "setPhase") /\ "setPhase" \in PCs
    BY <2>1, StatusFacts, CollectorFacts DEF Moves, Goto, TypeOK, PCs, Steps
  <2>3. JobGated(job[r], "setPhase", db')
    BY <1>1, <2>1 DEF JobFits, JobGated
  <2>4. RerunHeeded => JobShown(job[r], "setPhase", db')
    BY <1>1, <2>1 DEF JobFits, JobShown
  <2>5. GoesFit(r, db')
    BY <2>2, <2>3, <2>4 DEF GoesFit, JobFits
  <2>6. QED BY <1>1, <2>1, <2>5, StatusGoesOn
<1>5. CASE WritePhase(r)
  <2>1. /\ pc[r] = "setPhase" /\ AfterPhase(r)
        /\ db'.outcome = db.outcome /\ db'.results = db.results /\ db'.status = job[r].phase
    BY <1>5 DEF WritePhase, Db
  <2>2. Gated(db')
    BY <2>1 DEF DbFits, Gated, JobFits, JobGated
  <2>3. DbFits(db')
    BY <1>5, <2>2, PhaseShown DEF DbFits
  <2>4. RerunHeeded => ClosedInTime(job[r], db')
    BY <1>2, <2>1 DEF ClosedInTime
  <2>5. GoesFit(r, db')
    BY <1>1, <2>1, <2>4, AfterPhaseFit
  <2>6. QED BY <1>1, <2>3, <2>5, StatusGoesOn
<1>6. QED BY <1>3, <1>4, <1>5

\* What a poll calculates or resolves is of a round that has been started.
LEMMA CalculationsFit ==
  ASSUME StatusInv, ResultsInv', NEW r \in Runs, Calculate(r) \/ ResolveTie(r)
  PROVE  StatusInv'
<1>1. /\ AtWork(r) /\ pc[r] \in Deciding /\ InPage(job[r], pc[r])
      /\ UNCHANGED <<lease, ledgerVars, db>> /\ DbFits(db)
      /\ Current(r) \in Event /\ Current(r).round \in Rounds /\ Current(r).count \in Nat
  <2>1. /\ pc[r] \in {"calculate", "tie"} /\ UNCHANGED <<lease, ledgerVars, db>>
    BY DEF Calculate, ResolveTie
  <2>2. AtWork(r) /\ pc[r] \in Deciding /\ InPage(job[r], pc[r])
    BY <2>1 DEF AtWork, Deciding, Steps, InPage
  <2>3. QED BY <2>1, <2>2, CurrentFacts, EventFields, StatusFacts
<1>2. RerunHeeded => ClosedInTime(job[r], db)
  BY <1>1, InTime
<1>3. GoesFit(r, db)
  <2>1. CASE FinishAction(r)
    BY <1>1, <1>2, <2>1, FinishFit
  <2>2. CASE Fail(r)
    <3>1. Goto(r, "release") /\ UNCHANGED job /\ "release" \in PCs /\ "release" \notin Deciding
      BY <2>2 DEF Fail, PCs, Deciding, Steps
    <3>2. QED BY <3>1, GoesOnFit
  <2>3. CASE Calculate(r) /\ ~ FinishAction(r)
    <3> DEFINE k == Current(r).round
               n == Current(r).count
    <3>1. PICK w : w = [round |-> k, status |-> LiveStatus(k), count |-> n,
                        ballots |-> Merged(k, n), shown |-> TRUE]
      OBVIOUS
    <3>2. ~ (n <= db.last[k]) /\ Prepare(r, w, FALSE)
      BY <2>3, <3>1 DEF Calculate
    <3>3. Earliest(job[r].todo) \in 1..Len(stream) /\ Current(r) = stream[Earliest(job[r].todo)]
      BY <1>1, StatusFacts, FirstFacts
    <3>4. Current(r).tag = "voted"
      BY <1>1, <2>3, StatusFacts, FirstFacts DEF Placed, Calculate
    <3>5. n \in 1..Len(logs[k])
      BY <3>3, <3>4, StatusFacts DEF CollectorInv, VotesLogged
    <3> HIDE DEF k, n
    <3>6. k \in Rounds /\ n \in Nat
      BY <1>1 DEF k, n
    <3>7. starts[k] # None
      <4>1. logs[k] # <<>>
        BY <3>5
      <4>2. QED BY <3>6, <4>1, StatusFacts, ResultsFacts DEF VotesShown
    <3>8. w \in Write /\ w.round = k /\ w.shown
      <4>1. db.last[k] <= n /\ n <= Len(logs[k])
        BY <3>2, <3>5, <3>6, StatusFacts, CollectorFacts, DbFields
      <4>2. Merged(k, n) \in BallotSets
        BY <3>6, <4>1, StatusFacts, MergedIsPrefix
      <4>3. QED BY <3>1, <3>6, <4>2, StatusTypes DEF Write
    <3>9. QED BY <1>1, <3>2, <3>7, <3>8, PrepareFit
  <2>4. CASE ResolveTie(r) /\ ~ FinishAction(r) /\ ~ Fail(r)
    <3> DEFINE k == Current(r).round
    <3>1. PICK w : w = Restated(k, "FINAL", TRUE)
      OBVIOUS
    <3>2. Prepare(r, w, TRUE) /\ db.results[k] = "TIE_UNRESOLVED"
      BY <2>4, <3>1 DEF ResolveTie
    <3> HIDE DEF k
    <3>3. k \in Rounds /\ "FINAL" \in Statuses
      BY <1>1 DEF k, Statuses
    <3>4. w \in Write /\ w.round = k /\ w.shown
      BY <3>1, <3>3, StatusFacts, RestatedIsPrefix
    <3>5. starts[k] # None
      BY <3>2, <3>3, StatusFacts, ResultsFacts DEF ClosedEnded, Closed, ClosedResults, Ended
    <3>6. QED BY <1>1, <3>2, <3>4, <3>5, PrepareFit
  <2>5. QED BY <2>1, <2>2, <2>3, <2>4
<1>4. GoesFit(r, db')
  BY <1>1, <1>3
<1>5. QED BY <1>1, <1>4, StatusGoesOn

\* A commit leaves the tables fitting, and its rounds closed in time.
LEMMA CommitFit ==
  ASSUME StatusInv, NEW r \in Runs, pc[r] = "commit",
         db' = Committed(db, job[r].write), UNCHANGED ledgerVars
  PROVE  /\ db'.outcome = db.outcome
         /\ DbFits(db')
         /\ RerunHeeded => ClosedInTime(job[r], db')
<1> DEFINE w == job[r].write
<1>1. /\ AtWork(r) /\ lease.owner = r /\ pc[r] \in Deciding
  BY OneAtWork DEF AtWork, Deciding, Steps
<1>2. /\ w \in Write /\ w.round \in Rounds
      /\ Justified(job[r].stage, w, job[r].now, starts, db.last, db.results)
      /\ db.results \in [Rounds -> Statuses \cup {None}]
      /\ db'.results = [db.results EXCEPT ![w.round] = w.status]
  BY <1>1, CommitFacts, StatusFacts
<1>3. starts[w.round] # None
  BY StatusFacts DEF JobFits, JobGated
<1>4. db'.outcome = db.outcome
  BY <1>2, CommittedFields, StatusFacts
<1>5. Gated(db')
  BY <1>2, <1>3, <1>4, StatusFacts DEF Gated, DbFits, CheckSound
<1>6. DbFits(db')
  BY <1>1, <1>5, CommitShown DEF DbFits
<1> HIDE DEF w
<1>7. ASSUME RerunHeeded
      PROVE  ClosedInTime(job[r], db')
  <2> SUFFICES ASSUME NEW k \in Rounds, db'.results[k] \in ClosedResults
               PROVE  EndedAt(k, job[r].now, starts)
    BY DEF ClosedInTime
  <2>1. CASE db.results[k] \in ClosedResults
    BY <1>1, <1>7, <2>1, InTime DEF ClosedInTime
  <2>2. CASE db.results[k] \notin ClosedResults
    <3>1. k = w.round /\ w.status \in ClosedResults
      BY <1>2, <2>2
    <3>2. QED BY <1>2, <2>2, <3>1, LiveIsOpen DEF Justified, ClosedResults
  <2>3. QED BY <2>1, <2>2
<1>8. QED BY <1>4, <1>6, <1>7

\* A superseded round's phase is published only where reruns are not heeded.
LEMMA AfterSupersededFit ==
  ASSUME StatusInv, NEW r \in Runs, pc[r] \in Deciding, NEW status \in Statuses,
         AfterSuperseded(r, status), Passed,
         NEW d, d.outcome = db.outcome,
         RerunHeeded => ClosedInTime(job[r], d) /\ status = "ROUND_1_FAILED"
  PROVE  GoesFit(r, d)
<1>1. CASE status = "ROUND_1_FAILED"
  <2>1. Goto(r, "latest") /\ UNCHANGED job /\ "latest" \in PCs
    BY <1>1 DEF AfterSuperseded, PCs, Steps
  <2>2. QED BY <2>1, GoesOnFit
<1>2. CASE status # "ROUND_1_FAILED"
  <2>1. SetPhase(r, "rounds", status) /\ "rounds" \in {"events", "gate", "rounds"}
        /\ ~ RerunHeeded
    BY <1>2 DEF AfterSuperseded
  <2>2. QED BY <2>1, SetPhaseFit
<1>3. QED BY <1>1, <1>2

\* Commits.
LEMMA CommitStepFit ==
  ASSUME StatusInv, ResultsInv', NEW r \in Runs, Commit(r)
  PROVE  StatusInv'
<1>1. /\ pc[r] = "commit" /\ AtWork(r) /\ pc[r] \in Deciding /\ UNCHANGED ledgerVars
      /\ FencePasses(r, lease.live)
  <2>1. pc[r] = "commit" /\ UNCHANGED ledgerVars
    BY DEF Commit
  <2>2. AtWork(r) /\ pc[r] \in Deciding
    BY <2>1 DEF AtWork, Deciding, Steps
  <2>3. QED BY <2>1, <2>2, RenewalKeeps
<1>2. db' = Committed(db, job[r].write) /\ lease' = lease /\ AfterCommit(r)
  BY <1>1, RenewalKeeps DEF Commit
<1>3. /\ db'.outcome = db.outcome /\ DbFits(db')
      /\ RerunHeeded => ClosedInTime(job[r], db')
  BY <1>1, <1>2, CommitFit
<1>4. GoesFit(r, db')
  <2>1. CASE FinishAction(r)
    BY <1>1, <1>3, <2>1, FinishFit
  <2>2. CASE Goto(r, "release") /\ UNCHANGED job
    <3>1. "release" \in PCs /\ "release" \notin Deciding
      BY DEF PCs, Deciding, Steps
    <3>2. QED BY <1>3, <2>2, <3>1, GoesOnFit
  <2>3. CASE ~ job[r].write.shown /\ AfterSuperseded(r, job[r].write.status)
    <3>1. ~ RerunHeeded /\ starts[job[r].write.round] # None
      BY <1>1, <2>3, StatusFacts DEF JobFits, JobGated, JobShown
    <3>2. job[r].write.status \in Statuses /\ job[r].write.round \in Rounds
      BY StatusFacts DEF Write
    <3>3. Passed
      BY <3>1, <3>2, StatusFacts DEF CheckSound
    <3>4. QED BY <1>1, <1>3, <2>3, <3>1, <3>2, <3>3, AfterSupersededFit
  <2>4. QED BY <1>2, <2>1, <2>2, <2>3 DEF AfterCommit
<1>5. QED BY <1>1, <1>2, <1>3, <1>4, StatusGoesOn

\* The cursor's advance.
LEMMA AdvanceFit ==
  ASSUME StatusInv, ResultsInv', NEW r \in Runs, Advance(r)
  PROVE  StatusInv'
<1>1. /\ pc[r] = "advance" /\ AtWork(r) /\ pc[r] \in Deciding /\ UNCHANGED <<ledgerVars, job>>
      /\ FencePasses(r, lease.live)
  <2>1. pc[r] = "advance" /\ UNCHANGED <<ledgerVars, job>>
    BY DEF Advance, Fail
  <2>2. AtWork(r) /\ pc[r] \in Deciding
    BY <2>1 DEF AtWork, Deciding, Steps
  <2>3. QED BY <2>1, <2>2, RenewalKeeps
<1>2. /\ lease' = lease /\ db' = [db EXCEPT !.cursor = job[r].next]
      /\ \E step \in {"page", "gate"} : Goto(r, step)
  BY <1>1, RenewalKeeps DEF Advance
<1>3. db'.outcome = db.outcome /\ db'.status = db.status /\ db'.results = db.results
  BY <1>2, StatusFacts DEF Db
<1>4. RerunHeeded => ClosedInTime(job[r], db')
  BY <1>1, <1>3, InTime DEF ClosedInTime
<1>5. PICK step \in {"page", "gate"} : Goto(r, step)
  BY <1>2
<1>6. step \in PCs
  BY <1>5 DEF PCs, Steps
<1>7. GoesFit(r, db')
  BY <1>1, <1>3, <1>4, <1>5, <1>6, GoesOnFit
<1>8. QED BY <1>1, <1>2, <1>3, <1>7, SameStatusFits, StatusGoesOn

-----------------------------------------------------------------------------
(***************************************************************************)
(* The published status: the finalizer, ends and faults                    *)
(***************************************************************************)
\* The gate opens on a recorded and a weighted pass: an outcome that a poll knows
\* of was recorded before its page, so that the check's deadline has passed.
LEMMA GateFit ==
  ASSUME StatusInv, ResultsInv', NEW r \in Runs, ResolveGate(r)
  PROVE  StatusInv'
<1>1. /\ pc[r] = "gate" /\ AtWork(r) /\ pc[r] \in Deciding
      /\ UNCHANGED <<lease, ledgerVars, db>>
  BY DEF ResolveGate, AtWork, Deciding, Steps
<1>2. /\ JobGated(job[r], pc[r], db) /\ DbFits(db) /\ db.outcome \in Outcomes
      /\ job[r].now \in Nat /\ CheckDays \in Nat /\ tally.passed \in BOOLEAN
      /\ db.outcome \in {None, outcome}
  BY StatusFacts, JobFields, LedgerBounds DEF JobFits, DbFits, Gated
<1>3. RerunHeeded => ClosedInTime(job[r], db)
  BY <1>1, InTime
<1>4. \/ Goto(r, "active") /\ UNCHANGED job
      \/ /\ Awaiting /\ ~ (job[r].now >= CheckDays)
         /\ SetPhase(r, "gate", CheckPhase(db.outcome))
      \/ /\ Awaiting
         /\ SetPhase(r, "gate", CheckPhase(Authoritative(db.outcome, tally.passed)))
  BY DEF ResolveGate
<1>5. CASE Goto(r, "active") /\ UNCHANGED job
  <2>1. "active" \in PCs
    BY DEF PCs, Steps
  <2>2. GoesFit(r, db')
    BY <1>1, <1>3, <1>5, <2>1, GoesOnFit
  <2>3. QED BY <1>1, <1>2, <2>2, StatusGoesOn
<1>6. ASSUME Awaiting, NEW phase \in {"TC_LIVE", "TC_FAILED", "MJ_PENDING"},
             SetPhase(r, "gate", phase), phase = "TC_FAILED" => Refuted,
             phase = "MJ_PENDING" => Passed
      PROVE  StatusInv'
  <2>1. phase \in Statuses /\ "gate" \in {"events", "gate", "rounds"}
    BY DEF Statuses
  <2>2. PhaseFits(phase, db)
    BY <1>6 DEF PhaseFits, Awaiting
  <2>3. phase \in Onwards => Passed
    BY <1>6 DEF Onwards, PastGate
  <2>4. GoesFit(r, db)
    BY <1>1, <1>3, <1>6, <2>1, <2>2, <2>3, SetPhaseFit
  <2>5. GoesFit(r, db')
    BY <1>1, <2>4
  <2>6. QED BY <1>1, <1>2, <2>5, StatusGoesOn
<1>7. CASE /\ Awaiting /\ ~ (job[r].now >= CheckDays)
           /\ SetPhase(r, "gate", CheckPhase(db.outcome))
  <2>1. db.outcome = None
    BY <1>1, <1>2, <1>7 DEF JobGated
  <2>2. CheckPhase(db.outcome) = "TC_LIVE"
    BY <2>1, NoneIsNoOutcome DEF CheckPhase
  <2>3. QED BY <1>6, <1>7, <2>2
<1>8. CASE /\ Awaiting
           /\ SetPhase(r, "gate", CheckPhase(Authoritative(db.outcome, tally.passed)))
  <2> DEFINE verdict == Authoritative(db.outcome, tally.passed)
  <2>1. verdict = IF tally.passed THEN db.outcome ELSE "FAILED"
    BY DEF Authoritative
  <2>2. verdict \in Outcomes
    BY <1>2, <2>1 DEF Outcomes
  <2>3. verdict = "FAILED" => Refuted
    BY <1>2, <2>1, NoneIsNoOutcome DEF Refuted
  <2>4. verdict = "PASSED" => Passed
    BY <1>2, <2>1, NoneIsNoOutcome DEF Passed
  <2> HIDE DEF verdict
  <2>5. PICK phase : phase = CheckPhase(verdict)
    OBVIOUS
  <2>6. /\ phase \in {"TC_LIVE", "TC_FAILED", "MJ_PENDING"}
        /\ phase = "TC_FAILED" => Refuted
        /\ phase = "MJ_PENDING" => Passed
    <3>1. CASE verdict = "FAILED"
      BY <2>3, <2>5, <3>1 DEF CheckPhase
    <3>2. CASE verdict = None
      BY <2>5, <3>2, NoneIsNoOutcome DEF CheckPhase
    <3>3. CASE verdict = "PASSED"
      BY <2>4, <2>5, <3>3, NoneIsNoOutcome DEF CheckPhase
    <3>4. QED BY <2>2, <3>1, <3>2, <3>3 DEF Outcomes
  <2>7. SetPhase(r, "gate", phase)
    BY <1>8, <2>5 DEF verdict
  <2>8. QED BY <1>6, <1>8, <2>6, <2>7
<1>9. QED BY <1>4, <1>5, <1>7, <1>8

\* A superseded round is one whose rerun has been started.
LEMMA SelectFit ==
  ASSUME StatusInv, ResultsInv', NEW r \in Runs, SelectRounds(r)
  PROVE  StatusInv'
<1>1. /\ pc[r] = "active" /\ AtWork(r) /\ pc[r] \in Deciding
      /\ UNCHANGED <<lease, ledgerVars, db>>
  BY DEF SelectRounds, AtWork, Deciding, Steps
<1>2. /\ JobFits(job[r], pc[r], db) /\ DbFits(db) /\ job[r] \in Job
      /\ db.rounds \subseteq StartedRounds(starts) /\ db.rounds \subseteq Rounds
  BY StatusFacts, ResultsFacts DEF ShownStarted
<1>3. RerunHeeded => ClosedInTime(job[r], db)
  BY <1>1, InTime
<1>4. CASE Goto(r, "release") /\ UNCHANGED job
  <2>1. "release" \in PCs /\ "release" \notin Deciding
    BY DEF PCs, Deciding, Steps
  <2>2. GoesFit(r, db')
    BY <1>1, <1>4, <2>1, GoesOnFit
  <2>3. QED BY <1>1, <1>2, <2>2, StatusGoesOn
<1>5. CASE ~ (db.status \in Skipped \/ db.rounds = {})
  <2> DEFINE j == [job[r] EXCEPT !.stage = "rounds", !.round = LatestRound]
             step == IF LatestRound = 2 /\ 1 \in db.rounds /\ job[r].now >= Deadline(1)
                     THEN "superseded" ELSE "latest"
  <2>1. LatestRound \in Rounds
    BY DEF LatestRound, Rounds
  <2>2. step = "superseded" => starts[2] # None
    <3>1. LatestRound = 2 => 2 \in db.rounds
      BY DEF LatestRound
    <3>2. QED BY <1>2, <3>1 DEF StartedRounds
  <2>3. j \in Job
    BY <1>2, <2>1, JobUpdates
  <2>4. j.todo = job[r].todo /\ j.now = job[r].now
    BY <1>2 DEF Job
  <2>5. Moves(r, j, step)
    <3>1. /\ job' = [job EXCEPT ![r].stage = "rounds", ![r].round = LatestRound]
          /\ Goto(r, step)
      BY <1>5 DEF SelectRounds
    <3>2. job' = [job EXCEPT ![r] = j]
      BY <3>1, StatusFacts, CollectorFacts DEF TypeOK
    <3> HIDE DEF j, step
    <3>3. QED BY <3>1, <3>2 DEF Moves, Goto
  <2>6. step \in {"superseded", "latest"} /\ step \in PCs
    BY DEF PCs, Steps
  <2> HIDE DEF j, step
  <2>7. JobGated(j, step, db)
    BY <1>1, <1>2, <2>4, <2>6 DEF JobFits, JobGated
  <2>8. RerunHeeded => JobShown(j, step, db)
    BY <1>3, <2>2, <2>4, <2>6 DEF JobShown, ClosedInTime
  <2>9. GoesFit(r, db')
    BY <1>1, <2>3, <2>5, <2>6, <2>7, <2>8 DEF GoesFit, JobFits
  <2>10. QED BY <1>1, <1>2, <2>9, StatusGoesOn
<1>6. QED BY <1>4, <1>5 DEF SelectRounds

\* The finalizer publishes a round as live before its deadline only.
LEMMA RoundsFit ==
  ASSUME StatusInv, ResultsInv', NEW r \in Runs, CloseSuperseded(r) \/ FinalizeLatest(r)
  PROVE  StatusInv'
<1>1. /\ pc[r] \in {"superseded", "latest"} /\ AtWork(r) /\ pc[r] \in Deciding
      /\ UNCHANGED <<lease, ledgerVars, db>>
  BY DEF CloseSuperseded, FinalizeLatest, AtWork, Deciding, Steps
<1>2. /\ JobFits(job[r], pc[r], db) /\ DbFits(db) /\ CheckSound
      /\ job[r] \in Job /\ job[r].round \in Rounds /\ starts[job[r].round] # None
      /\ 1 \in Rounds /\ 2 \in Rounds
  BY <1>1, StatusFacts, JobFields DEF Timely, Rounds
<1>3. RerunHeeded => ClosedInTime(job[r], db)
  BY <1>1, InTime
<1>4. ASSUME GoesFit(r, db)
      PROVE  StatusInv'
  <2>1. GoesFit(r, db')
    BY <1>1, <1>4
  <2>2. QED BY <1>1, <1>2, <2>1, StatusGoesOn
<1>5. ASSUME NEW k \in Rounds, starts[k] # None, NEW shown \in BOOLEAN,
             RerunHeeded => shown = TRUE,
             Prepare(r, Restated(k, Verdict(k, db.ballots[k]), shown), FALSE)
      PROVE  GoesFit(r, db)
  <2>1. PICK w : w = Restated(k, Verdict(k, db.ballots[k]), shown)
    OBVIOUS
  <2>2. Verdict(k, db.ballots[k]) \in Statuses
    BY StatusTypes, StatusFacts, DbFields
  <2>3. w \in Write /\ w.round = k /\ w.shown = shown
    BY <1>5, <2>1, <2>2, StatusFacts, RestatedIsPrefix
  <2>4. Prepare(r, w, FALSE)
    BY <1>5, <2>1
  <2>5. RerunHeeded => w.shown
    BY <1>5, <2>3
  <2>6. QED BY <1>1, <1>5, <2>3, <2>4, <2>5, PrepareFit
<1>6. CASE CloseSuperseded(r)
  <2>1. pc[r] = "superseded" /\ starts[1] # None
    BY <1>6, StatusFacts DEF CloseSuperseded, Timely, EndedAt
  <2>2. Passed
    BY <1>2, <2>1 DEF CheckSound
  <2>3. RerunHeeded => db.results[1] = "ROUND_1_FAILED"
    BY <1>2, <2>1 DEF JobFits, JobShown, DbFits, Shown
  <2>4. CASE Closed(1)
    <3>1. AfterSuperseded(r, db.results[1]) /\ db.results[1] \in Statuses
      BY <1>6, <2>4 DEF CloseSuperseded, Closed, ClosedResults, Statuses
    <3>2. GoesFit(r, db)
      BY <1>1, <1>3, <2>2, <2>3, <3>1, AfterSupersededFit
    <3>3. QED BY <1>4, <3>2
  <2>5. CASE ~ Closed(1)
    <3>1. ~ RerunHeeded
      BY <2>3, <2>5 DEF Closed, ClosedResults
    <3>2. Prepare(r, Restated(1, Verdict(1, db.ballots[1]), FALSE), FALSE)
      BY <1>6, <2>5 DEF CloseSuperseded
    <3>3. GoesFit(r, db)
      BY <1>2, <1>5, <2>1, <3>1, <3>2
    <3>4. QED BY <1>4, <3>3
  <2>6. QED BY <2>4, <2>5
<1>7. CASE FinalizeLatest(r)
  <2> DEFINE k == job[r].round
  <2>1. \/ Goto(r, "release") /\ UNCHANGED job
        \/ SetPhase(r, "rounds", LiveStatus(k)) /\ ~ DeadlinePassed(r, k)
        \/ Prepare(r, Restated(k, Verdict(k, db.ballots[k]), TRUE), FALSE)
    BY <1>2, <1>7 DEF FinalizeLatest, Rounds
  <2>2. CASE Goto(r, "release") /\ UNCHANGED job
    <3>1. "release" \in PCs /\ "release" \notin Deciding
      BY DEF PCs, Deciding, Steps
    <3>2. GoesFit(r, db)
      BY <2>2, <3>1, GoesOnFit
    <3>3. QED BY <1>4, <3>2
  <2>3. CASE SetPhase(r, "rounds", LiveStatus(k)) /\ ~ DeadlinePassed(r, k)
    <3>1. PICK phase \in Statuses : phase = LiveStatus(k)
      BY <1>2, StatusTypes
    <3>2. /\ k = 1 => phase = "LIVE"
          /\ k = 2 => phase = "RERUN_LIVE"
          /\ k = 1 \/ k = 2
      BY <1>2, <3>1 DEF LiveStatus, Rounds
    <3>3. Passed
      BY <1>2 DEF CheckSound
    <3>4. ASSUME RerunHeeded
          PROVE  PhaseFits(phase, db)
      <4>1. ~ EndedAt(k, job[r].now, starts)
        BY <2>3 DEF DeadlinePassed, Deadline, EndedAt
      <4>2. db.results[k] \notin ClosedResults
        BY <1>2, <1>3, <3>4, <4>1 DEF ClosedInTime
      <4>3. CASE k = 1
        BY <1>2, <3>2, <4>2, <4>3 DEF PhaseFits
      <4>4. CASE k = 2
        BY <1>2, <3>2, <4>4 DEF PhaseFits
      <4>5. QED BY <3>2, <4>3, <4>4
    <3>5. SetPhase(r, "rounds", phase) /\ "rounds" \in {"events", "gate", "rounds"}
      BY <2>3, <3>1
    <3>6. GoesFit(r, db)
      BY <1>1, <1>3, <3>3, <3>4, <3>5, SetPhaseFit
    <3>7. QED BY <1>4, <3>6
  <2>4. CASE Prepare(r, Restated(k, Verdict(k, db.ballots[k]), TRUE), FALSE)
    <3>1. GoesFit(r, db)
      BY <1>2, <1>5, <2>4
    <3>2. QED BY <1>4, <3>1
  <2>5. QED BY <2>1, <2>2, <2>3, <2>4
<1>8. QED BY <1>6, <1>7

\* Ends and faults publish nothing.
LEMMA EndsFit ==
  ASSUME StatusInv, ResultsInv', NEW r \in Runs,
         Release(r) \/ Schedule(r) \/ Interrupt(r) \/ Crash(r)
  PROVE  StatusInv'
<1>1. /\ UNCHANGED <<ledgerVars, db>> /\ DbFits(db) /\ job[r] \in Job /\ JobInit \in Job
      /\ job \in [Runs -> Job]
  BY StatusFacts, CollectorFacts, JobInitType
  DEF Release, Schedule, Interrupt, Crash, TypeOK
<1>2. \A j \in Job, step \in PCs : step \notin Steps => JobFits(j, step, db)
  BY DEF JobFits, JobGated, JobShown, Deciding, Steps
<1>3. CASE Schedule(r)
  <2>1. Moves(r, job[r], "idle") /\ lease' = lease
    BY <1>1, <1>3 DEF Schedule, Moves, Goto
  <2>2. "idle" \in PCs /\ "idle" \notin Steps \cup {"release"}
    BY DEF PCs, Steps
  <2>3. DbFits(db') /\ JobFits(job[r], "idle", db')
    BY <1>1, <1>2, <2>2
  <2>4. QED BY <1>1, <2>1, <2>2, <2>3, StatusStep
<1>4. CASE Interrupt(r)
  <2>1. Moves(r, job[r], "release") /\ lease' = lease /\ AtWork(r)
    BY <1>1, <1>4 DEF Interrupt, Fail, Moves, Goto, AtWork
  <2>2. "release" \in PCs /\ "release" \notin Steps
    BY DEF PCs, Steps
  <2>3. GoesFit(r, db')
    BY <1>1, <1>2, <2>1, <2>2 DEF GoesFit
  <2>4. QED BY <1>1, <2>1, <2>3, StatusGoesOn
<1>5. ASSUME NEW step \in {"done", "dead"}, AtWork(r), Moves(r, JobInit, step)
      PROVE  StatusInv'
  <2>1. step \in PCs /\ step \notin Steps \cup {"release"}
    BY DEF PCs, Steps
  <2>2. \A s \in Runs \ {r} : ~ AtWork(s)
    BY <1>5, OneAtWork
  <2>3. DbFits(db') /\ JobFits(JobInit, step, db')
    BY <1>1, <1>2, <2>1
  <2>4. QED BY <1>1, <1>5, <2>1, <2>2, <2>3, StatusStep
<1>6. CASE Release(r)
  <2>1. Moves(r, JobInit, "done") /\ AtWork(r)
    BY <1>6 DEF Release, Moves, Goto, AtWork
  <2>2. QED BY <1>5, <2>1
<1>7. CASE Crash(r)
  <2>1. Moves(r, JobInit, "dead") /\ AtWork(r)
    BY <1>7 DEF Crash, Moves, Goto
  <2>2. QED BY <1>5, <2>1
<1>8. QED BY <1>3, <1>4, <1>6, <1>7

\* A batch whose answer is lost has published what it committed.
LEMMA AnswerLostFit ==
  ASSUME StatusInv, ResultsInv', NEW r \in Runs, AnswerLost(r)
  PROVE  StatusInv'
<1>1. /\ pc[r] \in {"commit", "advance"} /\ AtWork(r) /\ UNCHANGED ledgerVars /\ RenewLease
      /\ Goto(r, "release") /\ UNCHANGED job
  <2>1. /\ pc[r] \in {"commit", "advance"} /\ UNCHANGED ledgerVars /\ RenewLease
        /\ Goto(r, "release") /\ UNCHANGED job
    BY DEF AnswerLost, Fail
  <2>2. QED BY <2>1 DEF AtWork, Steps
<1>2. lease' = lease
  BY <1>1, RenewalKeeps
<1>3. db'.outcome = db.outcome /\ DbFits(db')
  <2>1. CASE pc[r] = "commit"
    BY <1>1, <2>1, CommitFit DEF AnswerLost
  <2>2. CASE pc[r] # "commit"
    <3>1. db' = [db EXCEPT !.cursor = job[r].next]
      BY <2>2 DEF AnswerLost
    <3>2. db'.outcome = db.outcome /\ db'.status = db.status /\ db'.results = db.results
      BY <3>1, StatusFacts DEF Db
    <3>3. QED BY <3>2, SameStatusFits
  <2>3. QED BY <2>1, <2>2
<1>4. "release" \in PCs /\ "release" \notin Deciding
  BY DEF PCs, Deciding, Steps
<1>5. GoesFit(r, db')
  BY <1>1, <1>3, <1>4, GoesOnFit
<1>6. QED BY <1>1, <1>2, <1>3, <1>5, StatusGoesOn

\* A lease runs out only when its run is gone, if no run stalls.
LEMMA ExpiryFit ==
  ASSUME StatusInv, ResultsInv', MaxStalls = 0,
         AbandonedLeaseExpires \/ WorkingLeaseExpires \/ UNCHANGED vars
  PROVE  StatusInv'
<1>1. CASE UNCHANGED vars
  BY <1>1 DEF vars, ledgerVars, contractVars, StatusInv, Alone, AtWork, CheckSound, Passed,
     DbFits, Gated, Shown, RunsFit, JobFits, JobGated, JobShown, PhaseFits, ClosedInTime, Refuted
<1>2. ~ WorkingLeaseExpires
  <2>1. stalls \in 0..MaxStalls
    BY StatusFacts, CollectorFacts DEF TypeOK
  <2>2. ~ (stalls < MaxStalls)
    BY <2>1
  <2>3. QED BY <2>2 DEF WorkingLeaseExpires
<1>3. CASE AbandonedLeaseExpires
  <2>1. UNCHANGED <<ledgerVars, db, pc, job>>
    BY <1>3 DEF AbandonedLeaseExpires
  <2>2. \A r \in Runs : ~ AtWork(r)
    BY <1>3, StatusFacts DEF AbandonedLeaseExpires
  <2>3. Alone'
    BY <2>1, <2>2 DEF Alone, AtWork
  <2>4. CheckSound' /\ DbFits(db)' /\ RunsFit'
    BY <2>1 DEF ledgerVars, contractVars, StatusInv, CheckSound, Passed,
       DbFits, Gated, Shown, RunsFit, JobFits, JobGated, JobShown, PhaseFits, ClosedInTime, Refuted
  <2>5. QED BY <2>3, <2>4 DEF StatusInv
<1>4. QED BY <1>1, <1>2, <1>3

-----------------------------------------------------------------------------
(***************************************************************************)
(* The published status: the ledger's steps                                *)
(***************************************************************************)
\* An event shows the outcome and the rounds that its transaction left.
LEMMA LedgerEvents ==
  ASSUME Ledger
  PROVE  \/ stream' = stream
         \/ \E e : /\ stream' = Append(stream, e)
                   /\ e.outcome = outcome' /\ e.rounds = StartedRounds(starts')
<1>1. ASSUME NEW tag, NEW k, NEW count, NEW exact, Emit(tag, k, count, exact)
      PROVE  \E e : /\ stream' = Append(stream, e)
                    /\ e.outcome = outcome' /\ e.rounds = StartedRounds(starts')
  BY <1>1 DEF Emit
<1>2. CASE Operator
  <2>1. ASSUME NEW passed \in BOOLEAN, RecordOutcome(passed)
        PROVE  Emit("outcome", 1, 0, FALSE)
    BY <2>1 DEF RecordOutcome
  <2>2. ASSUME NEW k \in Rounds, StartRound(k)
        PROVE  Emit("started", k, 0, FALSE)
    BY <2>2 DEF StartRound
  <2>3. ASSUME NEW k \in Rounds, NEW exact \in BOOLEAN, RecordTie(k, exact)
        PROVE  Emit("tie", k, 0, exact)
    BY <2>3 DEF RecordTie
  <2>4. ToggleHidden => Emit("toggled", 1, 0, FALSE)
    BY DEF ToggleHidden
  <2>5. QED BY <1>1, <1>2, <2>1, <2>2, <2>3, <2>4 DEF Operator
<1>3. ASSUME NEW k \in Rounds, NEW a \in Accounts, NEW b \in Ballots, CastBallot(k, a, b)
      PROVE  Emit("voted", k, Len(logs[k]) + 1, FALSE)
  BY <1>3 DEF CastBallot
<1>4. CASE Tick \/ CacheTally
  BY <1>4 DEF Tick, CacheTally
<1>5. QED BY <1>1, <1>2, <1>3, <1>4 DEF Ledger

\* What a step of the ledger does to the check and the rounds.
LEMMA LedgerCheck ==
  ASSUME StatusInv, Ledger
  PROVE  /\ tally'.passed = tally.passed
         /\ \/ outcome' = outcome
            \/ /\ outcome = None /\ outcome' \in {"PASSED", "FAILED"}
               /\ clock >= CheckDays
         /\ \/ starts' = starts
            \/ /\ outcome' = outcome
               /\ \E k \in Rounds :
                    Offered(k) /\ MayStart(k) /\ starts' = [starts EXCEPT ![k] = clock]
<1>1. tally \in [passed : BOOLEAN, cached : BOOLEAN]
  BY StatusFacts, CollectorFacts DEF TypeOK, LedgerType
<1>2. tally'.passed = tally.passed
  BY <1>1 DEF Ledger, Operator, RecordOutcome, StartRound, RecordTie, ToggleHidden, CastBallot,
     Tick, CacheTally
<1>3. CASE \E passed \in BOOLEAN : RecordOutcome(passed)
  BY <1>2, <1>3 DEF RecordOutcome
<1>4. CASE \E k \in Rounds : Offered(k) /\ StartRound(k)
  BY <1>2, <1>4 DEF StartRound
<1>5. CASE /\ ~ \E passed \in BOOLEAN : RecordOutcome(passed)
           /\ ~ \E k \in Rounds : Offered(k) /\ StartRound(k)
  <2>1. outcome' = outcome /\ starts' = starts
    BY <1>5 DEF Ledger, Operator, RecordTie, ToggleHidden, CastBallot, Tick, CacheTally,
       contractVars
  <2>2. QED BY <1>2, <2>1
<1>6. QED BY <1>3, <1>4, <1>5

\* The ledger moves on, and what the tables and the jobs know of it stands, if the
\* operator waits for the gate.
LEMMA LedgerFit ==
  ASSUME StatusInv, ResultsInv', "roundOne" \in Heeds, Ledger
  PROVE  StatusInv'
<1>1. /\ UNCHANGED <<lease, db, pc, job>> /\ DbFits(db) /\ CheckSound
      /\ stream \in Seq(Event) /\ Len(stream) \in Nat /\ CheckDays \in Nat
      /\ starts \in [Rounds -> Nat \cup {None}] /\ clock \in Nat /\ clock \notin {None}
      /\ outcome \in Outcomes
  BY StatusFacts, LedgerCases, LedgerBounds, NoneAssumption
<1>2. /\ clock' \in Nat /\ clock <= clock'
      /\ \A k \in Rounds : starts[k] # None => starts'[k] = starts[k]
  BY StatusFacts, LedgerTimes
<1>3. /\ outcome # None => outcome' = outcome
      /\ outcome' # None => clock' >= CheckDays
      /\ Passed => Passed'
      /\ Refuted => Refuted'
  <2>1. outcome # None => clock >= CheckDays
    BY <1>1 DEF CheckSound
  <2>2. outcome' # None => clock' >= CheckDays
    BY <1>1, <1>2, <2>1, LedgerCheck
  <2>3. QED BY <2>2, LedgerCheck, NoneIsNoOutcome DEF Passed, Refuted
<1>4. \A k \in Rounds : starts[k] = None /\ starts'[k] # None =>
        Offered(k) /\ MayStart(k)
  <2>1. CASE starts' = starts
    BY <2>1
  <2>2. ASSUME NEW n \in Rounds, Offered(n), MayStart(n), starts' = [starts EXCEPT ![n] = clock]
        PROVE  \A k \in Rounds : starts[k] = None /\ starts'[k] # None =>
                 Offered(k) /\ MayStart(k)
    BY <1>1, <2>2
  <2>3. QED BY <2>1, <2>2, LedgerCheck
<1>5. 1 \in Rounds /\ 2 \in Rounds /\ \A k \in Rounds : k = 1 \/ k = 2
  BY DEF Rounds
<1>6. /\ starts[1] = None /\ starts'[1] # None => db.status = "MJ_PENDING"
      /\ starts[2] = None /\ starts'[2] # None =>
           /\ starts[1] # None
           /\ RerunHeeded => db.status = "ROUND_1_FAILED"
  BY <1>4, <1>5 DEF Offered, MayStart, Ended, RerunHeeded
<1>7. \A k \in Rounds : starts'[k] # None => Passed'
  <2>1. starts[1] # None \/ starts[2] # None => Passed
    BY <1>1, <1>5 DEF CheckSound
  <2>2. db.status = "MJ_PENDING" => Passed
    BY <1>1 DEF DbFits, Gated, Onwards
  <2>3. QED BY <1>3, <1>5, <1>6, <2>1, <2>2
<1>8. CheckSound'
  <2>1. \A i \in 1..Len(stream) :
          /\ stream[i].outcome \in {None, outcome'}
          /\ stream[i].rounds # {} => stream[i].outcome = "PASSED"
    BY <1>1, <1>3 DEF CheckSound
  <2>2. CASE stream' = stream
    BY <1>3, <1>7, <2>1, <2>2 DEF CheckSound
  <2>3. ASSUME NEW e, stream' = Append(stream, e), e.outcome = outcome',
               e.rounds = StartedRounds(starts')
        PROVE  CheckSound'
    <3>1. \A i \in 1..Len(stream') :
            \/ i \in 1..Len(stream) /\ stream'[i] = stream[i]
            \/ stream'[i] = e
      BY <1>1, <2>3
    <3>2. e.rounds # {} => outcome' = "PASSED"
      BY <1>7, <2>3 DEF StartedRounds, Passed
    <3>3. \A i \in 1..Len(stream') :
            /\ stream'[i].outcome \in {None, outcome'}
            /\ stream'[i].rounds # {} => stream'[i].outcome = "PASSED"
      BY <2>1, <2>3, <3>1, <3>2
    <3>4. QED BY <1>3, <1>7, <3>3 DEF CheckSound
  <2>4. QED BY <2>2, <2>3, LedgerEvents
<1>9. DbFits(db)'
  <2>1. Gated(db)'
    BY <1>1, <1>3 DEF DbFits, Gated
  <2>2. ASSUME RerunHeeded
        PROVE  Shown(db)'
    <3>1. Shown(db)
      BY <1>1, <2>2 DEF DbFits
    <3>2. db.status = "ROUND_1_FAILED" => db.results[1] = "ROUND_1_FAILED"
      BY <3>1 DEF Shown, ClosedResults, Rounds
    <3>3. starts'[1] # None => db.status \notin {None, "TC_LIVE", "TC_FAILED"}
      BY <1>5, <1>6, <3>1, NoneIsNoStatus DEF Shown, Statuses
    <3>4. starts'[2] # None => starts'[1] # None /\ db.results[1] = "ROUND_1_FAILED"
      BY <1>2, <1>5, <1>6, <2>2, <3>1, <3>2 DEF Shown
    <3>5. QED BY <1>1, <3>1, <3>3, <3>4 DEF Shown
  <2>3. QED BY <2>1, <2>2 DEF DbFits
<1>10. ASSUME NEW r \in Runs
       PROVE  JobFits(job[r], pc[r], db)'
  <2>1. /\ JobFits(job[r], pc[r], db) /\ job[r].todo \subseteq 1..Len(stream)
        /\ job[r].write.round \in Rounds /\ job[r].now \in Nat
    BY StatusFacts, JobFields DEF Placed
  <2>2. \A i \in 1..Len(stream) : stream'[i] = stream[i]
    BY <1>1, LedgerEvents
  <2>3. JobGated(job[r], pc[r], db)'
    <3>1. \A i \in job[r].todo : stream'[i] = stream[i]
      BY <2>1, <2>2
    <3>2. starts[job[r].write.round] # None => starts'[job[r].write.round] # None
      BY <1>2, <2>1
    <3>3. QED BY <1>1, <1>3, <2>1, <3>1, <3>2 DEF JobFits, JobGated
  <2>4. ASSUME RerunHeeded
        PROVE  JobShown(job[r], pc[r], db)'
    <3>1. JobShown(job[r], pc[r], db)
      BY <2>1, <2>4 DEF JobFits
    <3>2. \A k \in Rounds :
            EndedAt(k, job[r].now, starts) => EndedAt(k, job[r].now, starts')
      BY <1>2 DEF EndedAt
    <3>3. /\ starts[1] # None => starts'[1] # None
          /\ starts[2] # None => starts'[2] # None
      BY <1>2, <1>5
    <3>4. QED BY <1>1, <1>3, <3>1, <3>2, <3>3 DEF JobShown, ClosedInTime, PhaseFits
  <2>5. QED BY <2>3, <2>4 DEF JobFits
<1>11. Alone' /\ RunsFit'
  BY <1>1, <1>10 DEF StatusInv, Alone, AtWork, RunsFit
<1>12. QED BY <1>8, <1>9, <1>11 DEF StatusInv

-----------------------------------------------------------------------------
(***************************************************************************)
(* The published status: theorems                                          *)
(***************************************************************************)
\* The invariant holds initially.
LEMMA StatusInvInit == Init => StatusInv
<1> SUFFICES ASSUME Init PROVE StatusInv
  OBVIOUS
<1>1. ResultsInv
  BY ResultsInvInit
<1>2. /\ db = DbInit /\ stream = <<Created>> /\ outcome = None
      /\ starts = [k \in Rounds |-> None]
      /\ \A r \in Runs : pc[r] = "idle"
  BY DEF Init, LedgerInit
<1>3. /\ db.outcome = None /\ db.status = None
      /\ \A k \in Rounds : starts[k] = None /\ db.results[k] = None
      /\ 1 \in Rounds /\ 2 \in Rounds
  BY <1>2 DEF DbInit, Rounds
<1>4. None \notin Onwards /\ None \notin ClosedResults /\ None \notin Statuses
  BY NoneIsNoStatus DEF Onwards, PastGate, ClosedResults, Statuses
<1>5. Alone /\ RunsFit
  <2>1. \A r \in Runs : pc[r] \notin Steps \cup {"release"}
    BY <1>2 DEF Steps
  <2>2. QED BY <2>1 DEF Alone, AtWork, RunsFit, JobFits, JobGated, JobShown, Deciding, Steps
<1>6. CheckSound
  <2>1. Len(stream) = 1 /\ stream[1].outcome = None /\ stream[1].rounds = {}
    BY <1>2 DEF Created
  <2>2. QED BY <1>2, <1>3, <2>1 DEF CheckSound
<1>7. DbFits(db)
  <2>1. Gated(db)
    BY <1>3, <1>4 DEF Gated
  <2>2. Shown(db)
    BY <1>3, <1>4 DEF Shown, Statuses
  <2>3. QED BY <2>1, <2>2 DEF DbFits
<1>8. QED BY <1>1, <1>5, <1>6, <1>7 DEF StatusInv

\* Every step keeps it, if the operator waits for the gate and no run outlives its lease.
LEMMA StatusInvStep ==
  ASSUME "roundOne" \in Heeds, MaxStalls = 0
  PROVE  StatusInv /\ [Next]_vars => StatusInv'
<1> SUFFICES ASSUME StatusInv, [Next]_vars PROVE StatusInv'
  OBVIOUS
<1>1. ResultsInv'
  BY StatusFacts, ResultsInvStep
<1>2. CASE Ledger
  BY <1>1, <1>2, LedgerFit
<1>3. ASSUME NEW r \in Runs, Work(r)
      PROVE  StatusInv'
  BY <1>1, <1>3, EarlyFit, FetchPageFit, ProjectionFit, PhaseStepsFit, CalculationsFit,
     CommitStepFit, AdvanceFit, GateFit, SelectFit, RoundsFit, EndsFit DEF Work
<1>4. ASSUME NEW r \in Runs, Failure(r)
      PROVE  StatusInv'
  BY <1>1, <1>4, EndsFit, AnswerLostFit DEF Failure
<1>5. CASE AbandonedLeaseExpires \/ WorkingLeaseExpires \/ UNCHANGED vars
  BY <1>1, <1>5, ExpiryFit
<1>6. QED BY <1>2, <1>3, <1>4, <1>5 DEF Next

\* The status that polls publish agrees with the contract, the check's tally and the
\* rounds' results, if the operator waits for the gate and no run outlives its lease.
THEOREM StatusInvariant ==
  ASSUME "roundOne" \in Heeds, MaxStalls = 0
  PROVE  Spec => []StatusInv
<1>1. QED BY StatusInvInit, StatusInvStep, PTL DEF Spec

\* Only the finalizer opens the election: a published status past the gate means a
\* recorded and a weighted pass.
THEOREM GateAlwaysHolds ==
  ASSUME "roundOne" \in Heeds, MaxStalls = 0
  PROVE  Spec => []GateHolds
<1>1. StatusInv => GateHolds
  BY StatusFacts DEF DbFits, Gated, Passed, Onwards, GateHolds
<1>2. QED BY <1>1, StatusInvariant, PTL

\* The published status is the result of the latest decided round, or of its rerun
\* under way, if the operator waits with the second round, too.
THEOREM StatusAlwaysShowsResult ==
  ASSUME {"roundOne", "rerun"} \subseteq Heeds, MaxStalls = 0
  PROVE  Spec => []StatusShowsResult
<1>1. StatusInv => StatusShowsResult
  BY StatusFacts DEF DbFits, Shown, RerunHeeded, StatusShowsResult, Closed
<1>2. "roundOne" \in Heeds
  OBVIOUS
<1>3. Spec => []StatusInv
  BY <1>2, StatusInvariant
<1>4. QED BY <1>1, <1>3, PTL

\* Only projections, phases and commits change the published status.
LEMMA StatusMoves ==
  ASSUME StatusInv, RerunHeeded, [Next]_vars
  PROVE  Advances(db.status, db'.status)
<1>1. db \in Db /\ Advances(db.status, db.status)
  BY StatusFacts, StaysPut
<1>2. CASE db' = db
  BY <1>1, <1>2
<1>3. ASSUME NEW r \in Runs, Work(r) \/ Failure(r), db' # db
      PROVE  Advances(db.status, db'.status)
  <2>1. \/ ProjectElection(r) \/ ProjectRounds(r) \/ WritePhase(r) \/ Commit(r) \/ Advance(r)
        \/ AnswerLost(r)
    BY <1>3 DEF Work, Failure, Acquire, ReadCursor, FetchPage, InitializeCache, ReadPhase,
       Calculate, ResolveTie, ResolveGate, SelectRounds, CloseSuperseded, FinalizeLatest, Release,
       Schedule, Interrupt, Crash
  <2>2. CASE ProjectElection(r)
    BY <2>2, ProjectionShown
  <2>3. CASE WritePhase(r)
    BY <2>3, PhaseShown
  <2>4. CASE /\ Commit(r) \/ AnswerLost(r)
             /\ pc[r] = "commit"
    <3>1. AtWork(r) /\ UNCHANGED ledgerVars
      BY <2>4 DEF AtWork, Steps, Commit, AnswerLost
    <3>2. lease.owner = r /\ FencePasses(r, lease.live)
      BY <3>1, OneAtWork, RenewalKeeps
    <3>3. db' = Committed(db, job[r].write)
      BY <2>4, <3>2 DEF Commit, AnswerLost
    <3>4. QED BY <2>4, <3>1, <3>2, <3>3, CommitShown
  <2>5. CASE ProjectRounds(r) \/ Advance(r) \/ (AnswerLost(r) /\ pc[r] # "commit")
    <3>1. db'.status = db.status
      BY <1>1, <1>3, <2>5 DEF ProjectRounds, Advance, AnswerLost, Db
    <3>2. QED BY <1>1, <3>1
  <2>6. Commit(r) => pc[r] = "commit"
    BY DEF Commit
  <2>7. QED BY <2>1, <2>2, <2>3, <2>4, <2>5, <2>6
<1>4. Ledger \/ AbandonedLeaseExpires \/ WorkingLeaseExpires \/ UNCHANGED vars => db' = db
  BY DEF Ledger, AbandonedLeaseExpires, WorkingLeaseExpires, vars
<1>5. QED BY <1>2, <1>3, <1>4 DEF Next

\* The published status moves forward only, whatever projections of old events polls
\* repeat after faults, and a final one stays.
THEOREM StatusAlwaysAdvances ==
  ASSUME {"roundOne", "rerun"} \subseteq Heeds, MaxStalls = 0
  PROVE  Spec => StatusAdvances
<1>1. StatusInv /\ [Next]_vars =>
        [/\ Order(db'.status) >= Order(db.status)
         /\ db.status \in {"FINAL", "FAILED", "TC_FAILED"} => db'.status = db.status]_vars
  BY StatusMoves DEF RerunHeeded, Advances
<1>2. "roundOne" \in Heeds
  OBVIOUS
<1>3. Spec => []StatusInv
  BY <1>2, StatusInvariant
<1>4. QED BY <1>1, <1>3, PTL DEF Spec, StatusAdvances

-----------------------------------------------------------------------------
(***************************************************************************)
(* The ledger's election is a consultation: a clock, deadlines and the     *)
(* events take the course that Consultation states.                        *)
(***************************************************************************)
\* The phases of the ledger's election in terms of its clock: what has happened could happen.
CourseInv ==
  /\ outcome # None => clock >= CheckDays
  /\ starts[1] # None => outcome = "PASSED"
  /\ starts[2] # None => Ended(1)
  /\ ~tied => TieRounds = {}

\* What the course is told of the ledger.
SamePhases == \A poll \in Polls : Phase(poll)' = Phase(poll)
SameBallots == \A poll \in Polls : BallotsIn(poll)' = BallotsIn(poll)

\* A step that changes none of it is no step of the course.
LEMMA CourseStays ==
  ASSUME SamePhases, SameBallots, Decision' = Decision, Adjudicated' = Adjudicated
  PROVE  UNCHANGED Course!courseVars
BY DEF SamePhases, SameBallots, Course!courseVars

\* The steps of the course.
LEMMA CourseOpens ==
  ASSUME NEW poll \in Polls, Phase(poll) = "pending", Phase(poll)' = "open",
         \A q \in Polls : q # poll => Phase(q)' = Phase(q),
         SameBallots, Decision' = Decision, Adjudicated' = Adjudicated,
         poll # "Check", poll # "Proposal",
         poll = "RoundOne" => Decision = TRUE,
         poll = "Rerun" => Phase("RoundOne") = "over" /\ Adjudicated = None
  PROVE  Course!Next
<1>1. Phase("Proposal") = "pending"
  BY DEF Phase
<1>2. QED BY <1>1 DEF SameBallots, Polls, Course!Next, Course!OpenPoll, Course!Due, Course!Polls

\* A round or the check is over from its deadline on.
LEMMA CourseCloses ==
  ASSUME NEW poll \in Polls, Phase(poll) = "open", Phase(poll)' = "over",
         \A q \in Polls : q # poll => Phase(q)' = Phase(q),
         SameBallots, Decision' = Decision, Adjudicated' = Adjudicated
  PROVE  Course!Next
BY DEF SameBallots, Polls, Course!Next, Course!ClosePoll, Course!Polls

\* A ballot falls into an open round.
LEMMA CourseCasts ==
  ASSUME NEW poll \in Polls, Phase(poll) = "open", SamePhases,
         \A q \in Polls : q # poll => BallotsIn(q)' = BallotsIn(q),
         Decision' = Decision, Adjudicated' = Adjudicated
  PROVE  Course!Next
BY DEF SamePhases, Polls, Course!Next, Course!CastVote, Course!Polls

\* The outcome of the check is recorded once the check is over.
LEMMA CourseDecides ==
  ASSUME NEW passed \in BOOLEAN, Phase("Check") = "over", SamePhases, SameBallots,
         Decision = None, Decision' = passed, Adjudicated' = Adjudicated
  PROVE  Course!Next
BY DEF SamePhases, SameBallots, Polls, Course!Next, Course!Decide

\* A tie is resolved once its round is over.
LEMMA CourseAdjudicates ==
  ASSUME NEW k \in Rounds, Phase(PollOf(k)) = "over", SamePhases, SameBallots,
         Decision' = Decision, Adjudicated = None, Adjudicated' = PollOf(k)
  PROVE  Course!Next
BY DEF SamePhases, SameBallots, Polls, PollOf, Rounds, Course!Next, Course!Adjudicate

\* The rounds, by their names.
LEMMA RoundPolls ==
  ASSUME NEW k \in Rounds
  PROVE  /\ PollOf(k) \in Polls
         /\ Phase(PollOf(k)) = RoundPhase(k) /\ Phase(PollOf(k))' = RoundPhase(k)'
         /\ BallotsIn(PollOf(k)) = logs[k] /\ BallotsIn(PollOf(k))' = logs'[k]
         /\ \A q \in Polls : q = "Check" \/ q = "Proposal" \/ q = PollOf(1) \/ q = PollOf(2)
BY DEF PollOf, Polls, Phase, BallotsIn, Rounds

\* Clock, outcome, starts and logs decide about phases, ballots and the decision.
LEMMA PhasesFollow ==
  /\ UNCHANGED <<clock, starts>> => SamePhases
  /\ UNCHANGED logs => SameBallots
  /\ UNCHANGED outcome => Decision' = Decision
BY DEF SamePhases, SameBallots, Phase, RoundPhase, Ended, Deadline, BallotsIn, Decision

\* An event that is no tie resolution adds none.
LEMMA TiesFollow ==
  ASSUME LedgerType, NEW e, stream' = Append(stream, e)
  PROVE  TieRounds' = IF e.tag = "tie" THEN TieRounds \cup {e.round} ELSE TieRounds
<1>1. stream \in Seq(Event) /\ Len(stream) \in Nat /\ DOMAIN stream = 1..Len(stream)
  BY DEF LedgerType
<1>2. /\ DOMAIN stream' = 1..(Len(stream) + 1) /\ stream'[Len(stream) + 1] = e
      /\ \A i \in DOMAIN stream : stream'[i] = stream[i]
  BY <1>1
<1>3. DOMAIN stream' = DOMAIN stream \cup {Len(stream) + 1}
  BY <1>1, <1>2
<1>4. {j \in DOMAIN stream' : stream'[j].tag = "tie"} =
        {j \in DOMAIN stream : stream[j].tag = "tie"} \cup
        (IF e.tag = "tie" THEN {Len(stream) + 1} ELSE {})
  BY <1>2, <1>3
<1>5. TieRounds' = {stream'[i].round : i \in {j \in DOMAIN stream' : stream'[j].tag = "tie"}}
  BY DEF TieRounds
<1>6. QED BY <1>2, <1>4, <1>5 DEF TieRounds

\* The collector's own steps leave the ledger alone.
LEMMA OnlyLedgerMoves ==
  ASSUME [Next]_vars
  PROVE  Ledger \/ UNCHANGED ledgerVars
<1>1. ASSUME NEW r \in Runs, Work(r) PROVE UNCHANGED ledgerVars
  BY <1>1 DEF Work, Acquire, ReadCursor, FetchPage, InitializeCache, ProjectElection,
     ProjectRounds, ReadPhase, WritePhase, Calculate, ResolveTie, Commit, Advance, ResolveGate,
     SelectRounds, CloseSuperseded, FinalizeLatest, Release, Schedule
<1>2. ASSUME NEW r \in Runs, Failure(r) PROVE UNCHANGED ledgerVars
  BY <1>2 DEF Failure, Interrupt, Crash, AnswerLost
<1>3. CASE AbandonedLeaseExpires \/ WorkingLeaseExpires \/ UNCHANGED vars
  BY <1>3 DEF AbandonedLeaseExpires, WorkingLeaseExpires, vars
<1>4. QED BY <1>1, <1>2, <1>3 DEF Next

LedgerFacts ==
  /\ clock \in Nat /\ CheckDays \in Nat
  /\ \A k \in Rounds : /\ RoundDays[k] \in Nat \ {0}
                       /\ starts[k] = None \/ starts[k] \in Nat
                       /\ starts[k] # None => Deadline(k) \in Nat
  /\ DOMAIN starts = Rounds /\ DOMAIN logs = Rounds
  /\ LedgerType

\* What the steps below need to know of the ledger, from the invariant of the collector.
LEMMA LedgerIsTyped == CollectorInv => LedgerFacts
<1> SUFFICES ASSUME CollectorInv PROVE LedgerFacts
  OBVIOUS
<1>1. LedgerType
  BY CollectorFacts DEF TypeOK
<1>2. QED BY <1>1, LedgerBounds, NoneAssumption DEF LedgerType, LedgerFacts, Deadline

\* A step of the ledger is one of the course, or none, and keeps the invariant.
Takes == CourseInv' /\ (Course!Next \/ UNCHANGED Course!courseVars)

\* The recorded outcome.
LEMMA OutcomeTakesCourse ==
  ASSUME LedgerFacts, CourseInv, NEW passed \in BOOLEAN, RecordOutcome(passed)
  PROVE  Takes
<1>1. UNCHANGED <<starts, tied, clock, logs>> /\ clock >= CheckDays /\ outcome = None
  BY DEF RecordOutcome
<1>2. outcome' = IF passed THEN "PASSED" ELSE "FAILED"
  BY DEF RecordOutcome
<1>3. TieRounds' = TieRounds
  BY TiesFollow DEF RecordOutcome, Emit, LedgerFacts
<1>4. Adjudicated' = Adjudicated
  BY <1>1, <1>3 DEF Adjudicated
<1>5. Decision = None /\ Decision' = passed
  BY <1>1, <1>2, NoneIsNoOutcome DEF Decision
<1>6. Phase("Check") = "over"
  BY <1>1 DEF Phase
<1>7. Course!Next
  BY <1>1, <1>4, <1>5, <1>6, PhasesFollow, CourseDecides
<1>8. starts[1] = None /\ starts[2] = None
  BY <1>1, NoneIsNoOutcome DEF CourseInv, Ended
<1>9. CourseInv'
  BY <1>1, <1>3, <1>8 DEF CourseInv
<1>10. QED BY <1>7, <1>9 DEF Takes

\* A round that is started: the first after a pass, the second after the end of the first.
LEMMA StartTakesCourse ==
  ASSUME LedgerFacts, CourseInv, NEW k \in Rounds, StartRound(k)
  PROVE  Takes
<1>1. /\ UNCHANGED <<outcome, tied, clock, logs>> /\ outcome = "PASSED" /\ starts[k] = None
      /\ starts' = [starts EXCEPT ![k] = clock]
      /\ k = 2 => Ended(1) /\ ~tied
  BY DEF StartRound, MayStart
<1>2. TieRounds' = TieRounds
  BY TiesFollow DEF StartRound, Emit, LedgerFacts
<1>3. Adjudicated' = Adjudicated /\ Decision' = Decision /\ SameBallots
  BY <1>1, <1>2, PhasesFollow DEF Adjudicated
<1>4. /\ starts'[k] = clock /\ \A j \in Rounds : j # k => starts'[j] = starts[j]
      /\ clock # None /\ clock \in Nat /\ RoundDays[k] \in Nat \ {0}
  BY <1>1, NoneAssumption DEF LedgerFacts
<1>5. RoundPhase(k) = "pending" /\ RoundPhase(k)' = "open"
  BY <1>1, <1>4 DEF RoundPhase, Ended, Deadline
<1>6. \A j \in Rounds : j # k => RoundPhase(j)' = RoundPhase(j) /\ (Ended(j)' <=> Ended(j))
  BY <1>1, <1>4 DEF RoundPhase, Ended, Deadline
<1>7. \A q \in Polls : q # PollOf(k) => Phase(q)' = Phase(q)
  <2> TAKE q \in Polls
  <2> HAVE q # PollOf(k)
  <2>1. CASE q = "Check" \/ q = "Proposal"
    BY <1>1, <2>1 DEF Phase
  <2>2. CASE q = PollOf(1)
    BY <1>6, <2>2, RoundPolls DEF Rounds
  <2>3. CASE q = PollOf(2)
    BY <1>6, <2>3, RoundPolls DEF Rounds
  <2>4. QED BY <2>1, <2>2, <2>3 DEF Polls, PollOf
<1>8. PollOf(k) = "RoundOne" => Decision = TRUE
  BY <1>1, NoneIsNoOutcome DEF Decision
<1>9. PollOf(k) = "Rerun" => Phase("RoundOne") = "over" /\ Adjudicated = None
  <2> HAVE PollOf(k) = "Rerun"
  <2>1. k = 2
    BY DEF PollOf, Rounds
  <2>2. QED BY <1>1, <2>1 DEF Phase, RoundPhase, Adjudicated, Ended
<1>10. Course!Next
  <2>1. PollOf(k) \in Polls /\ PollOf(k) # "Check" /\ PollOf(k) # "Proposal"
    BY DEF PollOf, Polls
  <2>2. Phase(PollOf(k)) = "pending" /\ Phase(PollOf(k))' = "open"
    BY <1>5, RoundPolls
  <2>3. QED BY <1>3, <1>7, <1>8, <1>9, <2>1, <2>2, CourseOpens
<1>11. CourseInv'
  <2>1. CASE k = 1
    <3>1. starts[2] = None
      BY <1>1, <2>1 DEF CourseInv, Ended
    <3>2. starts'[2] = None
      BY <1>4, <2>1, <3>1 DEF Rounds
    <3>3. QED BY <1>1, <1>2, <3>2 DEF CourseInv
  <2>2. CASE k = 2
    <3>1. starts'[1] = starts[1] /\ Ended(1)'
      BY <1>1, <1>4, <1>6, <2>2 DEF Rounds
    <3>2. QED BY <1>1, <1>2, <3>1 DEF CourseInv
  <2>3. QED BY <2>1, <2>2 DEF Rounds
<1>12. QED BY <1>10, <1>11 DEF Takes

\* A ballot.
LEMMA BallotTakesCourse ==
  ASSUME LedgerFacts, CourseInv, NEW k \in Rounds, NEW a, NEW b, CastBallot(k, a, b)
  PROVE  Takes
<1>1. /\ UNCHANGED <<outcome, starts, tied, clock>> /\ starts[k] # None /\ ~Ended(k)
      /\ \A j \in Rounds : j # k => logs'[j] = logs[j]
  BY DEF CastBallot, LedgerFacts
<1>2. TieRounds' = TieRounds
  BY TiesFollow DEF CastBallot, Emit, LedgerFacts
<1>3. SamePhases /\ Decision' = Decision /\ Adjudicated' = Adjudicated
  BY <1>1, <1>2, PhasesFollow DEF Adjudicated
<1>4. PollOf(k) \in Polls /\ Phase(PollOf(k)) = "open"
  BY <1>1, RoundPolls DEF RoundPhase
<1>5. \A q \in Polls : q # PollOf(k) => BallotsIn(q)' = BallotsIn(q)
  <2> TAKE q \in Polls
  <2> HAVE q # PollOf(k)
  <2>1. CASE q = "Check" \/ q = "Proposal"
    BY <2>1 DEF BallotsIn
  <2>2. CASE q = PollOf(1)
    BY <1>1, <2>2, RoundPolls DEF Rounds
  <2>3. CASE q = PollOf(2)
    BY <1>1, <2>3, RoundPolls DEF Rounds
  <2>4. QED BY <2>1, <2>2, <2>3 DEF Polls, PollOf
<1>6. Course!Next
  BY <1>3, <1>4, <1>5, CourseCasts
<1>7. CourseInv'
  BY <1>1, <1>2 DEF CourseInv, Ended, Deadline
<1>8. QED BY <1>6, <1>7 DEF Takes

\* A tie that is resolved, with its event.
LEMMA TieTakesCourse ==
  ASSUME LedgerFacts, CourseInv, NEW k \in Rounds, NEW exact, RecordTie(k, exact)
  PROVE  Takes
<1>1. UNCHANGED <<outcome, starts, clock, logs>> /\ Ended(k) /\ ~tied /\ tied'
  BY DEF RecordTie
<1>2. TieRounds' = {k}
  BY <1>1, TiesFollow DEF RecordTie, Emit, LedgerFacts, CourseInv
<1>3. Adjudicated = None /\ Adjudicated' = PollOf(k)
  BY <1>1, <1>2 DEF Adjudicated, Rounds, PollOf
<1>4. SamePhases /\ SameBallots /\ Decision' = Decision
  BY <1>1, PhasesFollow
<1>5. Phase(PollOf(k)) = "over"
  BY <1>1, RoundPolls DEF RoundPhase, Ended
<1>6. Course!Next
  BY <1>3, <1>4, <1>5, CourseAdjudicates
<1>7. CourseInv'
  BY <1>1 DEF CourseInv, Ended, Deadline
<1>8. QED BY <1>6, <1>7 DEF Takes

\* The other events, and the steps that leave the ledger alone.
LEMMA OthersTakeCourse ==
  ASSUME LedgerFacts, CourseInv, ToggleHidden \/ CacheTally \/ UNCHANGED ledgerVars
  PROVE  Takes
<1>1. UNCHANGED <<clock, contractVars>>
  BY DEF ToggleHidden, CacheTally, ledgerVars, contractVars
<1>2. TieRounds' = TieRounds
  <2>1. CASE ToggleHidden
    BY <2>1, TiesFollow DEF ToggleHidden, Emit, LedgerFacts
  <2>2. CASE CacheTally \/ UNCHANGED ledgerVars
    BY <2>2 DEF CacheTally, ledgerVars, TieRounds
  <2>3. QED BY <2>1, <2>2
<1>3. /\ SamePhases /\ SameBallots /\ Decision' = Decision /\ Adjudicated' = Adjudicated
  BY <1>1, <1>2, PhasesFollow DEF Adjudicated, contractVars
<1>4. CourseInv'
  BY <1>1, <1>2 DEF CourseInv, Ended, Deadline, contractVars
<1>5. QED BY <1>3, <1>4, CourseStays DEF Takes

\* The clock, which ends what has reached its deadline: at most one poll at a time.
LEMMA TickTakesCourse ==
  ASSUME LedgerFacts, CourseInv, Tick
  PROVE  Takes
<1>1. UNCHANGED <<outcome, starts, tied, logs, stream>> /\ clock' = clock + 1
  BY DEF Tick, contractVars
<1>2. /\ SameBallots /\ Decision' = Decision /\ Adjudicated' = Adjudicated
      /\ TieRounds' = TieRounds
  BY <1>1, PhasesFollow DEF Adjudicated, TieRounds
<1>3. \A k \in Rounds : /\ Ended(k) => Ended(k)'
                        /\ \/ RoundPhase(k)' = RoundPhase(k)
                           \/ RoundPhase(k) = "open" /\ RoundPhase(k)' = "over"
  BY <1>1 DEF LedgerFacts, RoundPhase, Ended, Deadline
<1>4. \/ Phase("Check")' = Phase("Check")
      \/ Phase("Check") = "open" /\ Phase("Check")' = "over"
  BY <1>1 DEF LedgerFacts, Phase
<1>5. CourseInv'
  BY <1>1, <1>2, <1>3 DEF CourseInv, LedgerFacts, Rounds
<1>6. \A q \in Polls : \/ Phase(q)' = Phase(q)
                       \/ Phase(q) = "open" /\ Phase(q)' = "over"
  <2> TAKE q \in Polls
  <2>1. CASE q = PollOf(1)
    BY <1>3, <2>1, RoundPolls DEF Rounds
  <2>2. CASE q = PollOf(2)
    BY <1>3, <2>2, RoundPolls DEF Rounds
  <2>3. CASE q = "Proposal"
    BY <2>3 DEF Phase
  <2>4. QED BY <1>4, <2>1, <2>2, <2>3 DEF Polls, PollOf
<1>7. \A p, q \in Polls : Phase(p) = "open" /\ Phase(q) = "open" => p = q
  <2>1. Phase("Check") = "open" => starts[1] = None /\ starts[2] = None
    BY NoneIsNoOutcome DEF Phase, CourseInv, LedgerFacts, Ended
  <2>2. Phase("Rerun") = "open" => Phase("RoundOne") = "over" /\ Phase("Check") = "over"
    BY <2>1 DEF Phase, RoundPhase, CourseInv, Ended
  <2>3. Phase("RoundOne") = "open" => Phase("Check") # "open"
    BY <2>1 DEF Phase, RoundPhase
  <2>4. Phase("Proposal") # "open"
    BY DEF Phase
  <2>5. QED BY <2>1, <2>2, <2>3, <2>4 DEF Polls
<1>8. CASE SamePhases
  BY <1>2, <1>5, <1>8, CourseStays DEF Takes
<1>9. CASE ~SamePhases
  <2>1. PICK p \in Polls : Phase(p)' # Phase(p)
    BY <1>9 DEF SamePhases
  <2>2. /\ Phase(p) = "open" /\ Phase(p)' = "over"
        /\ \A q \in Polls : q # p => Phase(q)' = Phase(q)
    BY <1>6, <1>7, <2>1
  <2>3. Course!Next
    BY <1>2, <2>2, CourseCloses
  <2>4. QED BY <1>5, <2>3 DEF Takes
<1>10. QED BY <1>8, <1>9

\* The election as the collector meets it begins as a consultation does, with an open check.
LEMMA CourseStarts == Init => CourseInv /\ Course!Init
<1> SUFFICES ASSUME Init PROVE CourseInv /\ Course!Init
  OBVIOUS
<1>1. /\ clock = 0 /\ outcome = None /\ starts = [k \in Rounds |-> None] /\ tied = FALSE
      /\ logs = [k \in Rounds |-> <<>>] /\ stream = <<Created>>
  BY DEF Init, LedgerInit
<1>2. starts[1] = None /\ starts[2] = None /\ logs[1] = <<>> /\ logs[2] = <<>>
  BY <1>1 DEF Rounds
<1>3. TieRounds = {}
  BY <1>1 DEF TieRounds, Created
<1>4. CourseInv
  BY <1>1, <1>2, <1>3 DEF CourseInv
<1>5. \A q \in Polls : /\ q # "Check" => Phase(q) = "pending"
                       /\ BallotsIn(q) = <<>>
  BY <1>2 DEF Polls, Phase, RoundPhase, BallotsIn
<1>6. Phase("Check") \in {"open", "over"}
  BY DEF Phase
<1>7. Decision = None /\ Adjudicated = None
  BY <1>1 DEF Decision, Adjudicated
<1>8. Course!Init
  BY <1>5, <1>6, <1>7 DEF Course!Init, Course!Polls, Polls
<1>9. QED BY <1>4, <1>8

\* Every step, of the ledger, of the operator or of a run.
LEMMA StepTakesCourse ==
  ASSUME CollectorInv, CourseInv, [Next]_vars
  PROVE  Takes
<1>1. LedgerFacts
  BY LedgerIsTyped
<1>2. CASE Ledger
  BY <1>1, <1>2, OutcomeTakesCourse, StartTakesCourse, BallotTakesCourse, TieTakesCourse,
     OthersTakeCourse, TickTakesCourse DEF Ledger, Operator
<1>3. CASE UNCHANGED ledgerVars
  BY <1>1, <1>3, OthersTakeCourse
<1>4. QED BY <1>2, <1>3, OnlyLedgerMoves

\* For any number of runs, voters, ballots and faults, and whether or not the operator heeds the
\* published status, the election as the collector meets it is a behaviour of Consultation,
\* which the contract implements.
THEOREM ElectionImplementsConsultation == Spec => Course!Spec
<1>1. Init => CourseInv /\ Course!Init
  BY CourseStarts
<1>2. CollectorInv /\ CourseInv /\ [Next]_vars => CourseInv' /\ [Course!Next]_(Course!courseVars)
  BY StepTakesCourse DEF Takes
<1>3. QED BY <1>1, <1>2, CollectorInvariant, PTL DEF Spec, Course!Spec
=============================================================================
