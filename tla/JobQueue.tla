------------------------------ MODULE JobQueue ------------------------------
(***************************************************************************)
(* The database-backed job queue: app/queue/queue_service.ts, the worker   *)
(* loop of commands/queue_work.ts, and the staff actions that retry or     *)
(* discard a failed job (app/controllers/admin/job_controller.ts,          *)
(* commands/queue_retry.ts).                                               *)
(*                                                                         *)
(* Every database statement the code awaits is a step of its own, because  *)
(* each await is a point where another process runs or this one dies.      *)
(* Time is abstract: a reservation is "fresh" until Age makes it older     *)
(* than the visibility timeout, and a row whose available_at lies in the   *)
(* future becomes due by BecomeDue.                                        *)
(***************************************************************************)
EXTENDS Integers, FiniteSets

CONSTANTS
  Jobs,          \* row ids, handed out in ascending order
  Workers,       \* queue:work processes; a restarted process keeps its name
  Staff,         \* people retrying or discarding failed jobs
  MaxAttempts,   \* jobs.max_attempts
  Limit,         \* worker concurrency: jobs claimed per poll
  CrashPoints,   \* the positions of a worker at which it may be killed
  Overrun,       \* may a live worker outlast the visibility timeout?
  MaxStops,      \* bound on kills and shutdowns together
  None

Positions == {"poll", "reclaim", "read", "claim", "stamp", "work"}
Stages == {"none", "run", "done", "release"}

ASSUME QueueAssumption ==
  /\ Jobs \subseteq Nat
  /\ MaxAttempts \in Nat \ {0}
  /\ Limit \in Nat \ {0}
  /\ MaxStops \in Nat
  /\ CrashPoints \subseteq Positions
  /\ Overrun \in BOOLEAN
  /\ None \notin Workers
  /\ None \notin Jobs

VARIABLES
  row,       \* the jobs table
  pc,        \* where each worker is in its loop; "down" when not running
  stopping,  \* SIGTERM received: finish the batch, claim nothing more
  expired,   \* held rows a worker read as expired and has yet to release
  cands,     \* candidates a worker read and has yet to try
  seen,      \* attempts on the in-memory instance of each candidate
  stamping,  \* the job a worker has swapped in but not yet stamped
  batch,     \* how far each claimed job is, per worker
  desk,      \* what each member of staff is doing, and to which job
  handled,   \* history: the handler of this job returned at least once
  discarded, \* history: staff deleted this job
  hopeless,  \* history: the last try threw UnrecoverableJobError
  overwritten, \* history: jobs a worker has in hand whose tries another saved since
  undercut,  \* history: jobs another released while this worker worked on them
  misjudged, \* history: jobs last saved on the strength of an overwritten read
  stops      \* kills and shutdowns so far

workerVars == <<pc, stopping, expired, cands, seen, stamping, batch>>
verdicts == <<handled, discarded, hopeless>>
reads == <<overwritten, undercut, misjudged>>
history == <<verdicts, reads>>
vars == <<row, workerVars, desk, history, stops>>

BlankRow(state, due) == [state |-> state, by |-> None, at |-> "none",
                         attempts |-> 0, failed |-> FALSE, due |-> due]
NoRow == BlankRow("unsent", FALSE)

Present(j) == row[j].state = "queued"
Held(j) == Present(j) /\ row[j].by # None
Failed(j) == Present(j) /\ row[j].failed

\* The update statements. Each one touches only the columns it names, and none
\* at all when the row has been deleted.
Write(j, new) == row' = IF Present(j) THEN [row EXCEPT ![j] = new] ELSE row
Stamped(r, w) == [r EXCEPT !.by = w, !.at = "fresh"]
ReleasedThroughModel(r) == r                             \* mutant: nothing dirty
Released(r) == [r EXCEPT !.by = None, !.at = "none"]
RequeuedSpent(r) == [r EXCEPT !.failed = FALSE, !.due = TRUE]        \* mutant
Requeued(r) == [r EXCEPT !.failed = FALSE, !.attempts = 0, !.due = TRUE]
Taken(r, w) == [r EXCEPT !.by = w]
Aged(r) == [r EXCEPT !.at = "stale"]
MadeDue(r) == [r EXCEPT !.due = TRUE]
Parked(r, attempts) == [r EXCEPT !.attempts = attempts, !.failed = TRUE]
PutOff(r, attempts) == [r EXCEPT !.attempts = attempts, !.due = FALSE]
Gone == BlankRow("gone", FALSE)

Idle == [j \in Jobs |-> "none"]
Batch(w) == {j \in Jobs : batch[w][j] # "none"}
Works(w, j) == batch[w][j] # "none" \/ stamping[w] = j

\* The jobs a worker has in hand and has not failed yet.
InHand(w, j) == j \in cands[w] \/ stamping[w] = j \/ batch[w][j] \in {"run", "done"}

\* History: whom a save of the tries, or a release, leaves with an outdated read
\* or an undercut hold. Who wrote is done with what it had itself.
SavedUnder(others, j) ==
  overwritten' = [w \in Workers |->
    IF w \notin others THEN overwritten[w] \ {j}
    ELSE IF InHand(w, j) THEN overwritten[w] \cup {j} ELSE overwritten[w]]
ReleasedUnder(others, j) ==
  undercut' = [w \in Workers |->
    IF w \notin others THEN undercut[w] \ {j}
    ELSE IF Works(w, j) THEN undercut[w] \cup {j} ELSE undercut[w]]

Init ==
  /\ row = [j \in Jobs |-> NoRow]
  /\ pc = [w \in Workers |-> "poll"]
  /\ stopping = [w \in Workers |-> FALSE]
  /\ expired = [w \in Workers |-> {}]
  /\ cands = [w \in Workers |-> {}]
  /\ seen = [w \in Workers |-> [j \in Jobs |-> 0]]
  /\ stamping = [w \in Workers |-> None]
  /\ batch = [w \in Workers |-> Idle]
  /\ desk = [s \in Staff |-> [at |-> "idle", job |-> None]]
  /\ handled = [j \in Jobs |-> FALSE]
  /\ discarded = [j \in Jobs |-> FALSE]
  /\ hopeless = [j \in Jobs |-> FALSE]
  /\ overwritten = [w \in Workers |-> {}]
  /\ undercut = [w \in Workers |-> {}]
  /\ misjudged = {}
  /\ stops = 0

-----------------------------------------------------------------------------
(* dispatch: a row exists once its transaction commits, due now or later.  *)
Dispatch(j) ==
  /\ row[j].state = "unsent"
  /\ \A i \in Jobs : i < j => row[i].state # "unsent"
  /\ \E delayed \in BOOLEAN :
       row' = [row EXCEPT ![j] = BlankRow("queued", ~delayed)]
  /\ UNCHANGED <<workerVars, desk, history, stops>>

-----------------------------------------------------------------------------
(* reserve, one step per statement.                                        *)

Expired(j) == Held(j) /\ ~row[j].failed /\ row[j].at = "stale"

ReadHeld(w) ==
  /\ pc[w] = "poll"
  /\ ~stopping[w]
  /\ expired' = [expired EXCEPT ![w] = {j \in Jobs : Expired(j)}]
  /\ pc' = [pc EXCEPT ![w] = "reclaim"]
  /\ UNCHANGED <<row, stopping, cands, seen, stamping, batch, desk, history, stops>>

ReleaseExpired(w, j) ==
  /\ pc[w] = "reclaim"
  /\ j \in expired[w]
  /\ expired' = [expired EXCEPT ![w] = @ \ {j}]
  /\ Write(j, Released(row[j]))
  /\ ReleasedUnder(Workers \ {w}, j)
  /\ UNCHANGED <<pc, stopping, cands, seen, stamping, batch, desk, verdicts,
                 overwritten, misjudged, stops>>

Candidate(j) == Present(j) /\ row[j].by = None /\ ~row[j].failed /\ row[j].due

\* The candidates in id order, at most three times the limit of them.
FirstCandidates ==
  {j \in Jobs : /\ Candidate(j)
                /\ Cardinality({i \in Jobs : Candidate(i) /\ i < j}) < 3 * Limit}

ReadCandidates(w) ==
  /\ pc[w] = "reclaim"
  /\ expired[w] = {}
  /\ cands' = [cands EXCEPT ![w] = FirstCandidates]
  /\ seen' = [seen EXCEPT ![w] =
       [j \in Jobs |-> IF j \in FirstCandidates THEN row[j].attempts ELSE 0]]
  /\ pc' = [pc EXCEPT ![w] = "claim"]
  /\ UNCHANGED <<row, stopping, expired, stamping, batch, desk, history, stops>>

\* The compare-and-swap looks at reserved_by and at nothing else.
StillThere(j) == Present(j)                             \* mutant: no swap
Unreserved(j) == Present(j) /\ row[j].by = None

Claim(w, j) ==
  /\ pc[w] = "claim"
  /\ Cardinality(Batch(w)) < Limit
  /\ j \in cands[w] /\ \A i \in cands[w] : j <= i
  /\ cands' = [cands EXCEPT ![w] = @ \ {j}]
  /\ IF Unreserved(j)
     THEN /\ Write(j, Taken(row[j], w))
          /\ stamping' = [stamping EXCEPT ![w] = j]
          /\ pc' = [pc EXCEPT ![w] = "stamp"]
     ELSE UNCHANGED <<row, stamping, pc>>
  /\ UNCHANGED <<stopping, expired, seen, batch, desk, history, stops>>

Stamp(w) ==
  /\ pc[w] = "stamp"
  /\ LET j == stamping[w] IN
       /\ Write(j, Stamped(row[j], w))
       /\ batch' = [batch EXCEPT ![w][j] = "run"]
  /\ stamping' = [stamping EXCEPT ![w] = None]
  /\ pc' = [pc EXCEPT ![w] = "claim"]
  /\ UNCHANGED <<stopping, expired, cands, seen, desk, history, stops>>

\* The loop over the candidates ends: the batch runs, or the poll was empty.
EndReserve(w) ==
  /\ pc[w] = "claim"
  /\ cands[w] = {} \/ Cardinality(Batch(w)) >= Limit
  /\ cands' = [cands EXCEPT ![w] = {}]
  /\ pc' = [pc EXCEPT ![w] = IF Batch(w) = {} THEN "poll" ELSE "work"]
  /\ overwritten' = [overwritten EXCEPT ![w] = @ \cap Batch(w)]
  /\ UNCHANGED <<row, stopping, expired, seen, stamping, batch, desk, verdicts,
                 undercut, misjudged, stops>>

-----------------------------------------------------------------------------
(* The jobs of a batch run together and settle one by one.                 *)

HandlerReturns(w, j) ==
  /\ pc[w] = "work"
  /\ batch[w][j] = "run"
  /\ handled' = [handled EXCEPT ![j] = TRUE]
  /\ batch' = [batch EXCEPT ![w][j] = "done"]
  /\ UNCHANGED <<row, pc, stopping, expired, cands, seen, stamping, desk,
                 discarded, hopeless, reads, stops>>

StartedOrReturned(w, j) == batch[w][j] \in {"run", "done"}             \* mutant
Returned(w, j) == batch[w][j] = "done"

Complete(w, j) ==
  /\ pc[w] = "work"
  /\ Returned(w, j)
  /\ Write(j, Gone)
  /\ batch' = [batch EXCEPT ![w][j] = "none"]
  /\ overwritten' = [overwritten EXCEPT ![w] = @ \ {j}]
  /\ undercut' = [undercut EXCEPT ![w] = @ \ {j}]
  /\ misjudged' = misjudged \ {j}
  /\ UNCHANGED <<pc, stopping, expired, cands, seen, stamping, desk, verdicts, stops>>

SpentEarly(attempts) == attempts + 1 >= MaxAttempts                    \* mutant
Spent(attempts) == attempts >= MaxAttempts

\* fail(): the instance's own count goes up, so what is saved is one more than
\* this worker read, whatever the row says by now. The catch around the handler
\* covers complete() as well, so a delete that fails is a failed try. Unrecoverable errors include
\* a job name no handler is registered for.
FailSave(w, j) ==
  /\ pc[w] = "work"
  /\ batch[w][j] \in {"run", "done"}
  /\ \E unrecoverable \in BOOLEAN :
       LET attempts == seen[w][j] + 1 IN
       /\ IF unrecoverable \/ Spent(attempts)
          THEN Write(j, Parked(row[j], attempts))
          ELSE Write(j, PutOff(row[j], attempts))
       /\ hopeless' = [hopeless EXCEPT ![j] = unrecoverable]
  /\ batch' = [batch EXCEPT ![w][j] = "release"]
  /\ SavedUnder(Workers \ {w}, j)
  /\ misjudged' = IF Present(j) /\ j \in overwritten[w] THEN misjudged \cup {j}
                  ELSE misjudged \ {j}
  /\ UNCHANGED <<pc, stopping, expired, cands, seen, stamping, desk,
                 handled, discarded, undercut, stops>>

FailRelease(w, j) ==
  /\ pc[w] = "work"
  /\ batch[w][j] = "release"
  /\ Write(j, Released(row[j]))
  /\ batch' = [batch EXCEPT ![w][j] = "none"]
  /\ ReleasedUnder(Workers \ {w}, j)
  /\ UNCHANGED <<pc, stopping, expired, cands, seen, stamping, desk, verdicts,
                 overwritten, misjudged, stops>>

BatchSettled(w) ==
  /\ pc[w] = "work"
  /\ Batch(w) = {}
  /\ pc' = [pc EXCEPT ![w] = "poll"]
  /\ UNCHANGED <<row, stopping, expired, cands, seen, stamping, batch, desk, history, stops>>

-----------------------------------------------------------------------------
(* Shutdown, kill, restart and the passage of time.                        *)

Shutdown(w) ==
  /\ pc[w] # "down" /\ ~stopping[w]
  /\ stops < MaxStops
  /\ stops' = stops + 1
  /\ stopping' = [stopping EXCEPT ![w] = TRUE]
  /\ UNCHANGED <<row, pc, expired, cands, seen, stamping, batch, desk, history>>

Exit(w) ==
  /\ pc[w] = "poll" /\ stopping[w]
  /\ pc' = [pc EXCEPT ![w] = "down"]
  /\ UNCHANGED <<row, stopping, expired, cands, seen, stamping, batch, desk, history, stops>>

Crash(w) ==
  /\ pc[w] \in CrashPoints
  /\ stops < MaxStops
  /\ stops' = stops + 1
  /\ pc' = [pc EXCEPT ![w] = "down"]
  /\ expired' = [expired EXCEPT ![w] = {}]
  /\ cands' = [cands EXCEPT ![w] = {}]
  /\ seen' = [seen EXCEPT ![w] = [j \in Jobs |-> 0]]
  /\ stamping' = [stamping EXCEPT ![w] = None]
  /\ batch' = [batch EXCEPT ![w] = Idle]
  /\ overwritten' = [overwritten EXCEPT ![w] = {}]
  /\ undercut' = [undercut EXCEPT ![w] = {}]
  /\ UNCHANGED <<row, stopping, desk, verdicts, misjudged>>

Restart(w) ==
  /\ pc[w] = "down"
  /\ pc' = [pc EXCEPT ![w] = "poll"]
  /\ stopping' = [stopping EXCEPT ![w] = FALSE]
  /\ UNCHANGED <<row, expired, cands, seen, stamping, batch, desk, history, stops>>

\* reserved_at passes the cutoff. Unless Overrun, only once nobody works on it.
Age(j) ==
  /\ Held(j) /\ row[j].at = "fresh"
  /\ Overrun \/ \A w \in Workers : ~Works(w, j)
  /\ Write(j, Aged(row[j]))
  /\ UNCHANGED <<workerVars, desk, history, stops>>

BecomeDue(j) ==
  /\ Present(j) /\ ~row[j].due
  /\ Write(j, MadeDue(row[j]))
  /\ UNCHANGED <<workerVars, desk, history, stops>>

-----------------------------------------------------------------------------
(* Staff: load the row, check that it failed, then retry or discard it.    *)

Load(s, j) ==
  /\ desk[s].at = "idle"
  /\ Failed(j)
  /\ \E choice \in {"retry", "discard"} : desk' = [desk EXCEPT ![s] = [at |-> choice, job |-> j]]
  /\ UNCHANGED <<row, workerVars, history, stops>>

RetrySave(s) ==
  /\ desk[s].at = "retry"
  /\ Write(desk[s].job, Requeued(row[desk[s].job]))
  /\ desk' = [desk EXCEPT ![s].at = "release"]
  /\ SavedUnder(Workers, desk[s].job)
  /\ misjudged' = misjudged \ {desk[s].job}
  /\ UNCHANGED <<workerVars, verdicts, undercut, stops>>

RetryRelease(s) ==
  /\ desk[s].at = "release"
  /\ Write(desk[s].job, Released(row[desk[s].job]))
  /\ desk' = [desk EXCEPT ![s] = [at |-> "idle", job |-> None]]
  /\ ReleasedUnder(Workers, desk[s].job)
  /\ UNCHANGED <<workerVars, verdicts, overwritten, misjudged, stops>>

Discard(s) ==
  /\ desk[s].at = "discard"
  /\ Write(desk[s].job, Gone)
  /\ discarded' = [discarded EXCEPT ![desk[s].job] = TRUE]
  /\ desk' = [desk EXCEPT ![s] = [at |-> "idle", job |-> None]]
  /\ UNCHANGED <<workerVars, handled, hopeless, reads, stops>>

-----------------------------------------------------------------------------
WorkerStep(w) ==
  \/ ReadHeld(w) \/ ReadCandidates(w) \/ Stamp(w) \/ EndReserve(w) \/ BatchSettled(w)
  \/ \E j \in Jobs : \/ ReleaseExpired(w, j) \/ Claim(w, j) \/ HandlerReturns(w, j)
                     \/ Complete(w, j) \/ FailSave(w, j) \/ FailRelease(w, j)

StaffStep(s) == (\E j \in Jobs : Load(s, j)) \/ RetrySave(s) \/ RetryRelease(s) \/ Discard(s)

Next ==
  \/ \E w \in Workers : WorkerStep(w) \/ Shutdown(w) \/ Exit(w) \/ Crash(w) \/ Restart(w)
  \/ \E j \in Jobs : Dispatch(j) \/ Age(j) \/ BecomeDue(j)
  \/ \E s \in Staff : StaffStep(s)

Spec == Init /\ [][Next]_vars

\* A worker process keeps taking steps, a supervisor restarts one that exited,
\* every handler settles each job of its batch, and clocks advance. A handler
\* is not obliged to succeed.
Fairness ==
  /\ \A w \in Workers :
       /\ WF_vars(ReadHeld(w) \/ ReadCandidates(w) \/ Stamp(w) \/ EndReserve(w)
                  \/ BatchSettled(w) \/ \E j \in Jobs : ReleaseExpired(w, j) \/ Claim(w, j))
       /\ \A j \in Jobs : WF_vars(HandlerReturns(w, j) \/ Complete(w, j)
                                  \/ FailSave(w, j) \/ FailRelease(w, j))
       /\ WF_vars(Exit(w)) /\ WF_vars(Restart(w))
  /\ \A j \in Jobs : WF_vars(Age(j)) /\ WF_vars(BecomeDue(j))

FairSpec == Spec /\ Fairness

-----------------------------------------------------------------------------
Row == [state : {"unsent", "queued", "gone"}, by : Workers \cup {None},
        at : {"none", "fresh", "stale"}, attempts : 0..MaxAttempts,
        failed : BOOLEAN, due : BOOLEAN]
Desk == [at : {"idle", "retry", "release", "discard"}, job : Jobs \cup {None}]

ReadsOK ==
  /\ overwritten \in [Workers -> SUBSET Jobs]
  /\ undercut \in [Workers -> SUBSET Jobs]
  /\ misjudged \subseteq Jobs

\* Every column and every worker's memory keeps its shape; in particular an
\* attempt count never passes max_attempts, however stale the instance that
\* wrote it (QueueService.fail).
TypeOK ==
  /\ row \in [Jobs -> Row]
  /\ pc \in [Workers -> Positions \cup {"down"}]
  /\ stopping \in [Workers -> BOOLEAN]
  /\ expired \in [Workers -> SUBSET Jobs]
  /\ cands \in [Workers -> SUBSET Jobs]
  /\ seen \in [Workers -> [Jobs -> 0..(MaxAttempts - 1)]]
  /\ stamping \in [Workers -> Jobs \cup {None}]
  /\ batch \in [Workers -> [Jobs -> Stages]]
  /\ desk \in [Staff -> Desk]
  /\ handled \in [Jobs -> BOOLEAN]
  /\ discarded \in [Jobs -> BOOLEAN]
  /\ hopeless \in [Jobs -> BOOLEAN]
  /\ stops \in 0..MaxStops
  /\ ReadsOK

\* At-least-once delivery: a row leaves the table only after its handler has
\* returned, or because staff discarded it. No crash, reclaim or race between
\* holders loses a job.
NothingLost ==
  \A j \in Jobs : row[j].state = "gone" => handled[j] \/ discarded[j]

\* A row that workers may still pick up always has an attempt left, so
\* isFinalAttempt and the parking test in fail() agree on which try is the last,
\* through retries, reclaims and stale holders.
SpareAttempts ==
  \A j \in Jobs : Present(j) /\ ~row[j].failed => row[j].attempts < MaxAttempts

\* A job is parked for a reason: its attempts are spent, or its last try threw
\* an error that no retry can cure. The exception is the job last saved by a
\* worker on whose read another had already saved a try or a retry.
ParkedForCause ==
  \A j \in Jobs : Failed(j) =>
    row[j].attempts >= MaxAttempts \/ hopeless[j] \/ j \in misjudged

\* A row tells staff the truth about its tries: the count stays within its
\* bounds, whoever wrote it last, and no job is parked that had tries left and
\* an error worth retrying (fail).
RowsTellTheTruth == TypeOK /\ ParkedForCause

\* The swap keeps two workers off one job, through kills, reclaims and staff's
\* retries: a worker takes a job that another works on only after somebody
\* released it under that holder, be it a worker that had read the reservation as
\* expired or a retry (claim, release; queue_service.ts:27-30 names no exception).
TakenOnlyWhenFree ==
  [][\A v, w \in Workers, j \in Jobs :
       v # w /\ Works(v, j) /\ ~Works(w, j) /\ Works(w, j)' => j \in undercut[v]]_vars

\* So whenever two do hold one job, one of them holds it on a released reservation.
HeldApart ==
  \A v, w \in Workers, j \in Jobs :
    v # w /\ Works(v, j) /\ Works(w, j) => j \in undercut[v] \cup undercut[w]

\* Every failed try adds one to what the row says, and is a try of a job that
\* had not failed, unless another saved a try or a retry since the worker read.
EveryTryCounts ==
  [][\A w \in Workers, j \in Jobs :
       FailSave(w, j) /\ Present(j) /\ j \notin overwritten[w] =>
         ~Failed(j) /\ row'[j].attempts = row[j].attempts + 1]_vars

\* The attempt count of a live row goes down only when staff retry the job, or
\* when the worker that saves it was overtaken.
AttemptsOnlyGrow ==
  [][\A j \in Jobs : row'[j].attempts < row[j].attempts =>
       \/ row'[j].state = "gone"
       \/ \E s \in Staff : RetrySave(s)
       \/ \E w \in Workers : FailSave(w, j) /\ j \in overwritten[w]]_vars

\* A failed job stays put until someone looks at it: the only worker that still
\* takes it is one whose candidate list is older than the failure.
FailedNeverReserved ==
  [][\A j \in Jobs, w \in Workers :
       Failed(j) /\ row[j].by # w /\ row'[j].by = w => j \in overwritten[w]]_vars

\* Several workers on one table: two of them share a job only after a release
\* under its holder, and a try is miscounted, a count turned back or a failed
\* job taken only on a read that somebody has since overwritten (claim, fail,
\* reclaimExpired, retry).
SwapAndCountHold ==
  TakenOnlyWhenFree /\ EveryTryCounts /\ AttemptsOnlyGrow /\ FailedNeverReserved

\* Every job put on the queue is eventually worked off or parked as failed.
EventuallySettled ==
  \A j \in Jobs : row[j].state = "queued" ~> (row[j].state = "gone" \/ Failed(j))

\* A reservation nobody is working on is eventually handed back, unless the job
\* has failed: a failed row is staff's to release.
Orphaned(j) == Held(j) /\ ~row[j].failed /\ \A w \in Workers : ~Works(w, j)
DeadReservationsReclaimed ==
  \A j \in Jobs : Orphaned(j) ~> ~Orphaned(j)

\* No job waits for ever, for a worker or on a dead one.
NothingStandsStill == EventuallySettled /\ DeadReservationsReclaimed
=============================================================================
