------------------------------ MODULE PollLease ------------------------------
(***************************************************************************)
(* The single row of table poll_lease that serialises the collector's      *)
(* polls (pollLock.ts) and fences their writes (pollLease.ts).             *)
(*                                                                         *)
(* Time is abstracted to the one question the code asks of it: whether     *)
(* expires_at > Date.now().  lease.live answers it, and LeaseExpires may   *)
(* falsify it at any moment, so a run may stall for any time between two   *)
(* of its steps, and the clocks of two isolates may disagree about when    *)
(* the lease has run out.                                                  *)
(***************************************************************************)

CONSTANTS
  Runs,   \* poll invocations; each owns a fresh UUID
  NoRun   \* the owner '' of a released lease

ASSUME RunsAssumption == NoRun \notin Runs

VARIABLE lease

Lease == [owner : Runs \cup {NoRun}, live : BOOLEAN]

\* Mutant: a released row whose owner is NULL, which the column forbids.
LeaseFreeNull == [owner |-> "null", live |-> FALSE]

LeaseFree == [owner |-> NoRun, live |-> FALSE]

LeaseInit == lease = LeaseFree

-----------------------------------------------------------------------------
\* acquireLock: the upsert takes effect when the stored lease has expired (a
\* released one has expires_at = 0) or is already the caller's.
CanAcquireReleased(r) == lease.owner \in {NoRun, r}  \* mutant: no look at expires_at

CanAcquire(r) == ~lease.live \/ lease.owner = r

AcquireLease(r) ==
  /\ CanAcquire(r)
  /\ lease' = [owner |-> r, live |-> TRUE]

\* releaseLock: UPDATE ... WHERE owner = self, so that a deposed run's late
\* release leaves its successor's lease alone.
ReleaseLease(r) ==
  lease' = IF lease.owner = r THEN LeaseFree ELSE lease

\* The lease's duration passes with no renewal.
LeaseExpires ==
  /\ lease.live
  /\ lease' = [lease EXCEPT !.live = FALSE]

\* guardedBatch: the renewal that leads the batch matches the row only when the
\* run still owns it and it had not expired at the time bound into the batch;
\* otherwise assertOwnership writes NULL and the whole batch aborts.
FencePassesUnowned(r, liveWhenBound) == liveWhenBound  \* mutant: no look at the owner

FencePasses(r, liveWhenBound) == lease.owner = r /\ liveWhenBound

RenewLease == lease' = [lease EXCEPT !.live = TRUE]
=============================================================================
