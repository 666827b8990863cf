--------------------------- MODULE JobQueueProofs ---------------------------
(***************************************************************************)
(* Theorems about JobQueue for every set of jobs, workers and staff, every *)
(* attempt limit and every pattern of kills and overruns.                  *)
(***************************************************************************)
EXTENDS JobQueue, TLAPS

\* A row is sound: nobody holds a row that does not exist, and a row that may
\* still be worked has an attempt left.
GoodRow(r) ==
  /\ r \in Row
  /\ r.state # "queued" => r.by = None /\ r.attempts = 0
  /\ r.state = "queued" /\ ~r.failed => r.attempts < MaxAttempts

RowInv == row \in [Jobs -> Row] /\ \A j \in Jobs : GoodRow(row[j])

\* A worker has a job to stamp exactly while it is at "stamp", and staff name a
\* job while they act.
Shape ==
  /\ \A w \in Workers : pc[w] = "stamp" <=> stamping[w] # None
  /\ \A s \in Staff : desk[s].at # "idle" => desk[s].job \in Jobs

\* TypeOK is inductive only together with GoodRow: the count a candidate read
\* shows must leave room for one more attempt.
TypeInv == TypeOK /\ Shape /\ RowInv

USE QueueAssumption

LEMMA InitTypeInv == Init => TypeInv
<1> SUFFICES ASSUME Init PROVE TypeInv
  OBVIOUS
<1>1. GoodRow(NoRow)
  BY DEF GoodRow, NoRow, BlankRow, Row
<1>2. RowInv
  BY <1>1 DEF Init, RowInv, GoodRow
<1> QED
  BY <1>2 DEF Init, TypeInv, TypeOK, ReadsOK, Shape, RowInv, Positions, Stages, Idle, Desk

LEMMA WriteRow ==
  ASSUME RowInv, NEW j \in Jobs, NEW new, Write(j, new), Present(j) => GoodRow(new)
  PROVE  RowInv'
<1>1. CASE Present(j)
  <2>1. row' = [row EXCEPT ![j] = new] BY <1>1 DEF Write
  <2>2. new \in Row BY <1>1 DEF GoodRow
  <2>3. row' \in [Jobs -> Row] BY <2>1, <2>2 DEF RowInv
  <2>4. \A i \in Jobs : row'[i] = IF i = j THEN new ELSE row[i]
    BY <2>1 DEF RowInv
  <2> QED BY <1>1, <2>3, <2>4 DEF RowInv, GoodRow
<1>2. CASE ~Present(j)
  BY <1>2 DEF Write, RowInv, GoodRow
<1> QED BY <1>1, <1>2

\* What the update statements leave in a row they find.
LEMMA RowEdits ==
  ASSUME RowInv, NEW j \in Jobs, Present(j)
  PROVE  /\ GoodRow(Released(row[j]))
         /\ GoodRow(Requeued(row[j]))
         /\ GoodRow(Aged(row[j]))
         /\ GoodRow(MadeDue(row[j]))
<1> DEFINE r == row[j]
<1>1. r \in Row /\ r.state = "queued" /\ (~r.failed => r.attempts < MaxAttempts)
  BY DEF RowInv, GoodRow, Present
<1> HIDE DEF r
<1>2. GoodRow(Released(r)) BY <1>1 DEF GoodRow, Row, Released
<1>3. GoodRow(Requeued(r))
  <2>1. 0 \in 0..MaxAttempts /\ 0 < MaxAttempts OBVIOUS
  <2>2. Requeued(r) \in Row BY <1>1, <2>1 DEF Row, Requeued
  <2>3. Requeued(r).state = "queued" /\ Requeued(r).attempts = 0
    BY <1>1 DEF Row, Requeued
  <2> QED BY <2>1, <2>2, <2>3 DEF GoodRow
<1>4. GoodRow(Aged(r)) BY <1>1 DEF GoodRow, Row, Aged
<1>5. GoodRow(MadeDue(r)) BY <1>1 DEF GoodRow, Row, MadeDue
<1> QED BY <1>2, <1>3, <1>4, <1>5 DEF r

LEMMA ClaimEdits ==
  ASSUME RowInv, NEW j \in Jobs, Present(j), NEW w \in Workers
  PROVE  GoodRow(Stamped(row[j], w)) /\ GoodRow(Taken(row[j], w))
<1> DEFINE r == row[j]
<1>1. r \in Row /\ r.state = "queued" /\ (~r.failed => r.attempts < MaxAttempts)
  BY DEF RowInv, GoodRow, Present
<1> HIDE DEF r
<1>2. GoodRow(Stamped(r, w)) BY <1>1 DEF GoodRow, Row, Stamped
<1>3. GoodRow(Taken(r, w)) BY <1>1 DEF GoodRow, Row, Taken
<1> QED BY <1>2, <1>3 DEF r

LEMMA GoneGood == GoodRow(Gone)
  BY DEF GoodRow, Gone, BlankRow, Row

\* What a step leaves of the history of reads and holds.
LEMMA StepReads == TypeInv /\ [Next]_vars => ReadsOK'
<1> SUFFICES ASSUME TypeInv, [Next]_vars PROVE ReadsOK'
  OBVIOUS
<1>0. /\ ReadsOK /\ \A s \in Staff : desk[s].at # "idle" => desk[s].job \in Jobs
  BY DEF TypeInv, TypeOK, Shape
<1> USE <1>0 DEF ReadsOK, history, reads
<1>1. ASSUME NEW w \in Workers, WorkerStep(w) PROVE ReadsOK'
  <2>1. CASE ReadHeld(w) \/ ReadCandidates(w) \/ Stamp(w) \/ BatchSettled(w)
    BY <2>1 DEF ReadHeld, ReadCandidates, Stamp, BatchSettled
  <2>2. CASE EndReserve(w) BY <2>2 DEF EndReserve
  <2>3. ASSUME NEW j \in Jobs, Claim(w, j) \/ HandlerReturns(w, j) PROVE ReadsOK'
    BY <2>3 DEF Claim, HandlerReturns
  <2>4. ASSUME NEW j \in Jobs, ReleaseExpired(w, j) \/ FailRelease(w, j) PROVE ReadsOK'
    BY <2>4 DEF ReleaseExpired, FailRelease, ReleasedUnder
  <2>5. ASSUME NEW j \in Jobs, Complete(w, j) PROVE ReadsOK' BY <2>5 DEF Complete
  <2>6. ASSUME NEW j \in Jobs, FailSave(w, j) PROVE ReadsOK'
    BY <2>6 DEF FailSave, SavedUnder
  <2> QED BY <1>1, <2>1, <2>2, <2>3, <2>4, <2>5, <2>6 DEF WorkerStep
<1>2. ASSUME NEW w \in Workers, Shutdown(w) \/ Exit(w) \/ Restart(w) PROVE ReadsOK'
  BY <1>2 DEF Shutdown, Exit, Restart
<1>3. ASSUME NEW w \in Workers, Crash(w) PROVE ReadsOK' BY <1>3 DEF Crash
<1>4. ASSUME NEW j \in Jobs, Dispatch(j) \/ Age(j) \/ BecomeDue(j) PROVE ReadsOK'
  BY <1>4 DEF Dispatch, Age, BecomeDue
<1>5. ASSUME NEW s \in Staff, StaffStep(s) PROVE ReadsOK'
  <2>1. ASSUME NEW j \in Jobs, Load(s, j) PROVE ReadsOK' BY <2>1 DEF Load
  <2>2. CASE RetrySave(s) BY <2>2 DEF RetrySave, SavedUnder
  <2>3. CASE RetryRelease(s) BY <2>3 DEF RetryRelease, ReleasedUnder
  <2>4. CASE Discard(s) BY <2>4 DEF Discard
  <2> QED BY <1>5, <2>1, <2>2, <2>3, <2>4 DEF StaffStep
<1>6. CASE UNCHANGED vars BY <1>6 DEF vars
<1> QED BY <1>1, <1>2, <1>3, <1>4, <1>5, <1>6 DEF Next

LEMMA StepTypeInv == TypeInv /\ [Next]_vars => TypeInv'
<1> SUFFICES ASSUME TypeInv, [Next]_vars PROVE TypeInv'
  OBVIOUS
<1>r. ReadsOK' BY StepReads
<1> USE <1>r DEF TypeInv, TypeOK, Shape, history, verdicts
<1>0. ASSUME UNCHANGED row PROVE RowInv'
  BY <1>0 DEF RowInv, GoodRow
<1>1. ASSUME NEW w \in Workers, ReadHeld(w) PROVE TypeInv'
  BY <1>0, <1>1 DEF ReadHeld, Positions
<1>2. ASSUME NEW w \in Workers, ReadCandidates(w) PROVE TypeInv'
  <2>1. \A j \in FirstCandidates : row[j].attempts \in 0..(MaxAttempts - 1)
    BY DEF FirstCandidates, Candidate, RowInv, GoodRow, Row, Present
  <2>2. seen' \in [Workers -> [Jobs -> 0..(MaxAttempts - 1)]]
    <3> DEFINE f == [j \in Jobs |-> IF j \in FirstCandidates THEN row[j].attempts ELSE 0]
    <3>1. f \in [Jobs -> 0..(MaxAttempts - 1)] BY <2>1
    <3>2. seen' = [seen EXCEPT ![w] = f] BY <1>2 DEF ReadCandidates
    <3> HIDE DEF f
    <3> QED BY <3>1, <3>2
  <2>3. cands' \in [Workers -> SUBSET Jobs]
    BY <1>2 DEF ReadCandidates, FirstCandidates
  <2> QED BY <1>0, <1>2, <2>2, <2>3 DEF ReadCandidates, Positions
<1>3. ASSUME NEW w \in Workers, Stamp(w) PROVE TypeInv'
  <2>1. stamping[w] \in Jobs
    BY <1>3 DEF Stamp
  <2>2. RowInv'
    BY <1>3, <2>1, WriteRow, ClaimEdits DEF Stamp
  <2> QED BY <1>3, <2>1, <2>2 DEF Stamp, RowInv, Positions, Stages
<1>4. ASSUME NEW w \in Workers, EndReserve(w) PROVE TypeInv'
  BY <1>0, <1>4 DEF EndReserve, Positions
<1>5. ASSUME NEW w \in Workers, BatchSettled(w) PROVE TypeInv'
  BY <1>0, <1>5 DEF BatchSettled, Positions
<1>6. ASSUME NEW w \in Workers, NEW j \in Jobs, ReleaseExpired(w, j) PROVE TypeInv'
  <2>1. RowInv'
    BY <1>6, WriteRow, RowEdits DEF ReleaseExpired
  <2> QED BY <1>6, <2>1 DEF ReleaseExpired, RowInv
<1>7. ASSUME NEW w \in Workers, NEW j \in Jobs, Claim(w, j) PROVE TypeInv'
  <2>1. CASE Unreserved(j)
    <3>2. RowInv'
      BY <1>7, <2>1, WriteRow, ClaimEdits DEF Claim
    <3>3. stamping' \in [Workers -> Jobs \cup {None}]
      BY <1>7, <2>1 DEF Claim
    <3>5. pc' \in [Workers -> Positions \cup {"down"}]
      BY <1>7, <2>1 DEF Claim, Positions
    <3>6. cands' \in [Workers -> SUBSET Jobs]
      BY <1>7, <2>1 DEF Claim
    <3>4. Shape'
      BY <1>7, <2>1 DEF Claim
    <3> QED BY <1>7, <3>2, <3>3, <3>4, <3>5, <3>6 DEF Claim, RowInv
  <2>2. CASE ~Unreserved(j)
    BY <1>0, <1>7, <2>2 DEF Claim
  <2> QED BY <2>1, <2>2
<1>8. ASSUME NEW w \in Workers, NEW j \in Jobs, HandlerReturns(w, j) PROVE TypeInv'
  BY <1>0, <1>8 DEF HandlerReturns, Stages
<1>9. ASSUME NEW w \in Workers, NEW j \in Jobs, Complete(w, j) PROVE TypeInv'
  <2>1. RowInv'
    BY <1>9, WriteRow, GoneGood DEF Complete
  <2> QED BY <1>9, <2>1 DEF Complete, RowInv, Stages
<1>10. ASSUME NEW w \in Workers, NEW j \in Jobs, FailSave(w, j) PROVE TypeInv'
  <2> DEFINE a == seen[w][j] + 1
  <2>1. a \in 0..MaxAttempts /\ (~Spent(a) => a < MaxAttempts)
    BY DEF Spent
  <2>2. PICK u \in BOOLEAN :
          /\ IF u \/ Spent(a)
             THEN Write(j, Parked(row[j], a))
             ELSE Write(j, PutOff(row[j], a))
          /\ hopeless' = [hopeless EXCEPT ![j] = u]
    BY <1>10 DEF FailSave
  <2> HIDE DEF a
  <2>3. Present(j) => GoodRow(Parked(row[j], a))
    BY <2>1 DEF RowInv, GoodRow, Row, Present, Parked
  <2>4. Present(j) /\ ~Spent(a) => GoodRow(PutOff(row[j], a))
    BY <2>1 DEF RowInv, GoodRow, Row, Present, PutOff
  <2>5. RowInv'
    BY <2>2, <2>3, <2>4, WriteRow
  <2> QED BY <1>10, <2>2, <2>5 DEF FailSave, RowInv, Stages
<1>11. ASSUME NEW w \in Workers, NEW j \in Jobs, FailRelease(w, j) PROVE TypeInv'
  <2>1. RowInv'
    BY <1>11, WriteRow, RowEdits DEF FailRelease
  <2>2. batch' \in [Workers -> [Jobs -> Stages]]
    BY <1>11 DEF FailRelease, Stages
  <2> QED BY <1>11, <2>1, <2>2 DEF FailRelease, RowInv
<1>12. ASSUME NEW w \in Workers, Shutdown(w) \/ Exit(w) \/ Restart(w) PROVE TypeInv'
  <2>1. CASE Shutdown(w) BY <1>0, <2>1 DEF Shutdown
  <2>2. CASE Exit(w) BY <1>0, <2>2 DEF Exit, Positions
  <2>3. CASE Restart(w) BY <1>0, <2>3 DEF Restart, Positions
  <2> QED BY <1>12, <2>1, <2>2, <2>3
<1>13. ASSUME NEW w \in Workers, Crash(w) PROVE TypeInv'
  <2>1. Idle \in [Jobs -> Stages] BY DEF Idle, Stages
  <2>2. batch' \in [Workers -> [Jobs -> Stages]] BY <1>13, <2>1 DEF Crash
  <2>3. seen' \in [Workers -> [Jobs -> 0..(MaxAttempts - 1)]]
    <3>1. [j \in Jobs |-> 0] \in [Jobs -> 0..(MaxAttempts - 1)] OBVIOUS
    <3> QED BY <1>13, <3>1 DEF Crash
  <2> QED BY <1>0, <1>13, <2>2, <2>3 DEF Crash, Positions
<1>14. ASSUME NEW j \in Jobs, Dispatch(j) PROVE TypeInv'
  <2>1. PICK d \in BOOLEAN : row' = [row EXCEPT ![j] = BlankRow("queued", ~d)]
    BY <1>14 DEF Dispatch
  <2>2. GoodRow(BlankRow("queued", ~d))
    BY DEF GoodRow, BlankRow, Row
  <2>3. RowInv'
    BY <2>1, <2>2 DEF RowInv, GoodRow
  <2> QED BY <1>14, <2>3 DEF Dispatch, RowInv, workerVars
<1>15. ASSUME NEW j \in Jobs, Age(j) \/ BecomeDue(j) PROVE TypeInv'
  <2>1. RowInv'
    BY <1>15, WriteRow, RowEdits DEF Age, BecomeDue
  <2> QED BY <1>15, <2>1 DEF Age, BecomeDue, RowInv, workerVars
<1>16. ASSUME NEW s \in Staff, StaffStep(s) PROVE TypeInv'
  <2>1. ASSUME NEW j \in Jobs, Load(s, j) PROVE TypeInv'
    BY <1>0, <2>1 DEF Load, Desk, workerVars
  <2>2. CASE RetrySave(s)
    <3>1. RowInv' BY <2>2, WriteRow, RowEdits DEF RetrySave
    <3> QED BY <2>2, <3>1 DEF RetrySave, RowInv, Desk, workerVars
  <2>3. CASE RetryRelease(s)
    <3>1. RowInv' BY <2>3, WriteRow, RowEdits DEF RetryRelease
    <3> QED BY <2>3, <3>1 DEF RetryRelease, RowInv, Desk, workerVars
  <2>4. CASE Discard(s)
    <3>1. RowInv' BY <2>4, WriteRow, GoneGood DEF Discard
    <3> QED BY <2>4, <3>1 DEF Discard, RowInv, Desk, workerVars
  <2> QED BY <1>16, <2>1, <2>2, <2>3, <2>4 DEF StaffStep
<1>17. CASE UNCHANGED vars
  BY <1>0, <1>17 DEF vars, workerVars
<1> QED
  BY <1>1, <1>2, <1>3, <1>4, <1>5, <1>6, <1>7, <1>8, <1>9, <1>10, <1>11, <1>12,
     <1>13, <1>14, <1>15, <1>16, <1>17 DEF Next, WorkerStep

\* Every attempt count stays within max_attempts, and every row a worker may
\* still pick up has an attempt left, whatever the interleaving, the kills, the
\* overruns and the retries (QueueService.fail and retry).
THEOREM AttemptsBounded == Spec => [](TypeOK /\ SpareAttempts)
<1>1. Init => TypeInv
  BY InitTypeInv
<1>2. TypeInv /\ [Next]_vars => TypeInv'
  BY StepTypeInv
<1>3. TypeInv => TypeOK /\ SpareAttempts
  BY DEF TypeInv, RowInv, GoodRow, SpareAttempts, Present
<1> QED
  BY <1>1, <1>2, <1>3, PTL DEF Spec

-----------------------------------------------------------------------------
\* A worker about to delete a row has seen its handler return.
HandledBeforeDone ==
  \A w \in Workers, j \in Jobs : batch[w][j] = "done" => handled[j]

LostInv == NothingLost /\ HandledBeforeDone

\* Only Complete and Discard take a row away.
LEMMA RowStays ==
  ASSUME TypeInv, NEW j \in Jobs, NEW new, Write(j, new), new.state = row[j].state
  PROVE  \A i \in Jobs : row'[i].state = row[i].state
  BY DEF TypeInv, RowInv, Write

\* The columns the invariants below read, after each update.
LEMMA Columns ==
  ASSUME NEW r \in Row
  PROVE  /\ Released(r).state = r.state /\ Released(r).by = None /\ Released(r).at = "none"
         /\ Requeued(r).state = r.state
         /\ MadeDue(r).state = r.state /\ MadeDue(r).by = r.by
         /\ MadeDue(r).at = r.at
         /\ Aged(r).state = r.state
  BY DEF Row, Released, Requeued, Aged, MadeDue

LEMMA ClaimColumns ==
  ASSUME NEW r \in Row, NEW w
  PROVE  /\ Stamped(r, w).state = r.state /\ Stamped(r, w).by = w
         /\ Stamped(r, w).at = "fresh"
         /\ Taken(r, w).state = r.state /\ Taken(r, w).by = w
         /\ Taken(r, w).at = r.at
  BY DEF Row, Stamped, Taken

LEMMA TryColumns ==
  ASSUME NEW r \in Row, NEW a
  PROVE  /\ Parked(r, a).state = r.state
         /\ Parked(r, a).by = r.by
         /\ Parked(r, a).at = r.at
         /\ PutOff(r, a).state = r.state
         /\ PutOff(r, a).by = r.by
         /\ PutOff(r, a).at = r.at
  BY DEF Row, Parked, PutOff

LEMMA RowTyped == TypeInv => \A j \in Jobs : row[j] \in Row
  BY DEF TypeInv, RowInv

LEMMA StepLostInv == TypeInv /\ LostInv /\ [Next]_vars => LostInv'
<1> SUFFICES ASSUME TypeInv, LostInv, [Next]_vars PROVE LostInv'
  OBVIOUS
<1>0. /\ batch \in [Workers -> [Jobs -> Stages]] /\ handled \in [Jobs -> BOOLEAN]
      /\ discarded \in [Jobs -> BOOLEAN] /\ row \in [Jobs -> Row]
      /\ stamping \in [Workers -> Jobs \cup {None}]
      /\ \A w \in Workers : pc[w] = "stamp" <=> stamping[w] # None
      /\ \A s \in Staff : desk[s].at # "idle" => desk[s].job \in Jobs
  BY DEF TypeInv, TypeOK, Shape, RowInv
<1> USE <1>0 DEF LostInv, NothingLost, HandledBeforeDone, history, verdicts, workerVars
<1>1. ASSUME NEW w \in Workers,
             \/ ReadHeld(w) \/ ReadCandidates(w) \/ EndReserve(w) \/ BatchSettled(w)
             \/ Shutdown(w) \/ Exit(w) \/ Restart(w)
      PROVE  LostInv'
  BY <1>1 DEF ReadHeld, ReadCandidates, EndReserve, BatchSettled, Shutdown, Exit, Restart
<1>2. ASSUME NEW w \in Workers, Stamp(w) PROVE LostInv'
  <2>1. PICK j \in Jobs : j = stamping[w]
    BY <1>2 DEF Stamp
  <2>2. Stamped(row[j], w).state = row[j].state
    BY RowTyped, ClaimColumns
  <2>3. Write(j, Stamped(row[j], w))
    BY <1>2, <2>1 DEF Stamp
  <2>4. \A i \in Jobs : row'[i].state = row[i].state
    BY <2>2, <2>3, RowStays
  <2> QED BY <1>2, <2>1, <2>4 DEF Stamp
<1>3. ASSUME NEW w \in Workers, NEW j \in Jobs, ReleaseExpired(w, j) PROVE LostInv'
  <2>1. \A i \in Jobs : row'[i].state = row[i].state
    BY <1>3, RowStays, RowTyped, Columns DEF ReleaseExpired
  <2> QED BY <1>3, <2>1 DEF ReleaseExpired
<1>4. ASSUME NEW w \in Workers, NEW j \in Jobs, Claim(w, j) PROVE LostInv'
  <2>1. \A i \in Jobs : row'[i].state = row[i].state
    BY <1>4, RowStays, RowTyped, ClaimColumns DEF Claim
  <2> QED BY <1>4, <2>1 DEF Claim
<1>5. ASSUME NEW w \in Workers, NEW j \in Jobs, HandlerReturns(w, j) PROVE LostInv'
  BY <1>5 DEF HandlerReturns
<1>6. ASSUME NEW w \in Workers, NEW j \in Jobs, Complete(w, j) PROVE LostInv'
  <2>1. handled[j] BY <1>6 DEF Complete, Returned
  <2>2. \A i \in Jobs : i # j => row'[i] = row[i]
    BY <1>6 DEF Complete, Write
  <2> QED BY <1>6, <2>1, <2>2 DEF Complete
<1>7. ASSUME NEW w \in Workers, NEW j \in Jobs, FailSave(w, j) PROVE LostInv'
  <2> DEFINE a == seen[w][j] + 1
  <2>1. \/ Write(j, Parked(row[j], a))
        \/ Write(j, PutOff(row[j], a))
    BY <1>7 DEF FailSave
  <2> HIDE DEF a
  <2>2. /\ Parked(row[j], a).state = row[j].state
        /\ PutOff(row[j], a).state = row[j].state
    BY RowTyped, TryColumns
  <2>3. \A i \in Jobs : row'[i].state = row[i].state
    BY <2>1, <2>2, RowStays
  <2> QED BY <1>7, <2>3 DEF FailSave
<1>8. ASSUME NEW w \in Workers, NEW j \in Jobs, FailRelease(w, j) PROVE LostInv'
  <2>1. \A i \in Jobs : row'[i].state = row[i].state
    BY <1>8, RowStays, RowTyped, Columns DEF FailRelease
  <2> QED BY <1>8, <2>1 DEF FailRelease
<1>9. ASSUME NEW w \in Workers, Crash(w) PROVE LostInv'
  BY <1>9 DEF Crash, Idle
<1>10. ASSUME NEW j \in Jobs, Dispatch(j) \/ Age(j) \/ BecomeDue(j) PROVE LostInv'
  <2>1. CASE Dispatch(j)
    BY <2>1 DEF Dispatch, BlankRow
  <2>2. CASE Age(j) \/ BecomeDue(j)
    <3>0. Aged(row[j]).state = row[j].state /\ MadeDue(row[j]).state = row[j].state
      BY RowTyped, Columns
    <3>1. \A i \in Jobs : row'[i].state = row[i].state
      BY <2>2, <3>0, RowStays DEF Age, BecomeDue
    <3> QED BY <2>2, <3>1 DEF Age, BecomeDue
  <2> QED BY <1>10, <2>1, <2>2
<1>11. ASSUME NEW s \in Staff, StaffStep(s) PROVE LostInv'
  <2>1. ASSUME NEW j \in Jobs, Load(s, j) PROVE LostInv'
    BY <2>1 DEF Load
  <2>2. CASE RetrySave(s) \/ RetryRelease(s)
    <3>1. PICK j \in Jobs : j = desk[s].job
      BY <2>2 DEF RetrySave, RetryRelease
    <3>2. Write(j, Requeued(row[j])) \/ Write(j, Released(row[j]))
      BY <2>2, <3>1 DEF RetrySave, RetryRelease
    <3>3. Requeued(row[j]).state = row[j].state /\ Released(row[j]).state = row[j].state
      BY RowTyped, Columns
    <3>4. \A i \in Jobs : row'[i].state = row[i].state
      BY <3>2, <3>3, RowStays
    <3> QED BY <2>2, <3>4 DEF RetrySave, RetryRelease
  <2>3. CASE Discard(s)
    <3>1. desk[s].job \in Jobs BY <2>3 DEF Discard
    <3>2. \A i \in Jobs : i # desk[s].job => row'[i] = row[i]
      BY <2>3, <3>1 DEF Discard, Write
    <3> QED BY <2>3, <3>1, <3>2 DEF Discard
  <2> QED BY <1>11, <2>1, <2>2, <2>3 DEF StaffStep
<1>12. CASE UNCHANGED vars
  BY <1>12 DEF vars
<1> QED
  BY <1>1, <1>2, <1>3, <1>4, <1>5, <1>6, <1>7, <1>8, <1>9, <1>10, <1>11, <1>12
  DEF Next, WorkerStep

\* At-least-once delivery: whatever is killed, reclaimed, overrun or raced, a row
\* leaves the table only after its handler returned or because staff discarded
\* it (QueueService.complete, AdminJobController.destroy).
THEOREM AtLeastOnce == Spec => []NothingLost
<1>1. Init => TypeInv /\ LostInv
  <2>1. Init => LostInv
    BY DEF Init, LostInv, NothingLost, HandledBeforeDone, NoRow, BlankRow, Idle
  <2> QED BY <2>1, InitTypeInv
<1>2. TypeInv /\ LostInv /\ [Next]_vars => (TypeInv /\ LostInv)'
  BY StepTypeInv, StepLostInv
<1>3. LostInv => NothingLost
  BY DEF LostInv
<1> QED
  BY <1>1, <1>2, <1>3, PTL DEF Spec

-----------------------------------------------------------------------------
(* Any number of workers. What a worker read of a row stays true of it until *)
(* somebody else saves a try or a retry there, and what it holds stays       *)
(* reserved until somebody else releases it.                                 *)

\* A worker holds candidates only while it claims, and jobs from there on.
HandsShape(w) ==
  /\ pc[w] \notin {"claim", "stamp"} => cands[w] = {}
  /\ pc[w] \notin {"claim", "stamp", "work"} => \A j \in Jobs : batch[w][j] = "none"

HandsInv == \A w \in Workers : HandsShape(w)

\* What the two invariants below read of the state, typed.
LEMMA Typed ==
  ASSUME TypeInv
  PROVE  /\ batch \in [Workers -> [Jobs -> Stages]]
         /\ stamping \in [Workers -> Jobs \cup {None}] /\ None \notin Jobs /\ None \notin Workers
         /\ cands \in [Workers -> SUBSET Jobs] /\ row \in [Jobs -> Row]
         /\ pc \in [Workers -> Positions \cup {"down"}]
         /\ seen \in [Workers -> [Jobs -> 0..(MaxAttempts - 1)]]
         /\ \A w \in Workers : pc[w] = "stamp" <=> stamping[w] # None
         /\ hopeless \in [Jobs -> BOOLEAN]
         /\ overwritten \in [Workers -> SUBSET Jobs] /\ undercut \in [Workers -> SUBSET Jobs]
         /\ \A j \in Jobs : row[j] \in Row /\ (row[j].state # "queued" => row[j].by = None)
         /\ \A s \in Staff : desk[s].at # "idle" => desk[s].job \in Jobs
  BY DEF TypeInv, TypeOK, ReadsOK, Shape, RowInv, GoodRow

LEMMA StepHandsInv == TypeInv /\ HandsInv /\ [Next]_vars => HandsInv'
<1> SUFFICES ASSUME TypeInv, HandsInv, [Next]_vars PROVE HandsInv'
  OBVIOUS
<1>0. /\ batch \in [Workers -> [Jobs -> Stages]] /\ cands \in [Workers -> SUBSET Jobs]
      /\ pc \in [Workers -> Positions \cup {"down"}]
      /\ \A w \in Workers : pc[w] = "stamp" <=> stamping[w] # None
  BY Typed
<1> USE <1>0 DEF HandsInv, HandsShape
<1>1. ASSUME NEW w \in Workers, WorkerStep(w) PROVE HandsInv'
  <2>1. CASE ReadHeld(w) BY <2>1 DEF ReadHeld
  <2>2. CASE ReadCandidates(w) BY <2>2 DEF ReadCandidates
  <2>3. CASE Stamp(w) BY <2>3 DEF Stamp
  <2>4. CASE EndReserve(w) BY <2>4 DEF EndReserve, Batch
  <2>5. CASE BatchSettled(w) BY <2>5 DEF BatchSettled, Batch
  <2>6. ASSUME NEW j \in Jobs, ReleaseExpired(w, j) \/ Complete(w, j) \/ FailRelease(w, j)
        PROVE  HandsInv'
    BY <2>6 DEF ReleaseExpired, Complete, FailRelease
  <2>7. ASSUME NEW j \in Jobs, Claim(w, j) PROVE HandsInv' BY <2>7 DEF Claim
  <2>8. ASSUME NEW j \in Jobs, HandlerReturns(w, j) \/ FailSave(w, j) PROVE HandsInv'
    BY <2>8 DEF HandlerReturns, FailSave
  <2> QED BY <1>1, <2>1, <2>2, <2>3, <2>4, <2>5, <2>6, <2>7, <2>8 DEF WorkerStep
<1>2. ASSUME NEW w \in Workers, Shutdown(w) \/ Exit(w) \/ Restart(w) \/ Crash(w)
      PROVE  HandsInv'
  BY <1>2 DEF Shutdown, Exit, Restart, Crash, Idle
<1>3. ASSUME NEW j \in Jobs, Dispatch(j) \/ Age(j) \/ BecomeDue(j) PROVE HandsInv'
  BY <1>3 DEF Dispatch, Age, BecomeDue, workerVars
<1>4. ASSUME NEW s \in Staff, StaffStep(s) PROVE HandsInv'
  BY <1>4 DEF StaffStep, Load, RetrySave, RetryRelease, Discard, workerVars
<1>5. CASE UNCHANGED vars BY <1>5 DEF vars, workerVars
<1> QED BY <1>1, <1>2, <1>3, <1>4, <1>5 DEF Next

\* A row is in a worker's hands only once it has been on the queue.
Sent == \A w \in Workers, j \in Jobs : InHand(w, j) => row[j].state # "unsent"

\* What a worker read of the tries still stands, unless it was overwritten.
ReadHolds ==
  \A w \in Workers, j \in Jobs :
    InHand(w, j) /\ Present(j) /\ j \notin overwritten[w] =>
      ~row[j].failed /\ row[j].attempts = seen[w][j]

TriesInv == Sent /\ ReadHolds /\ ParkedForCause

\* An update that leaves the tries alone: all but those of fail() and retry().
SameTries(old, new) ==
  \/ new.state = "gone"
  \/ new.state = old.state /\ new.failed = old.failed /\ new.attempts = old.attempts

LEMMA EditsSameTries ==
  ASSUME NEW r \in Row, NEW w
  PROVE  \A new \in {r, Released(r), Aged(r), MadeDue(r), Stamped(r, w), Taken(r, w), Gone} :
           SameTries(r, new)
<1>1. SameTries(r, r) /\ SameTries(r, Gone) BY DEF SameTries, Gone, BlankRow
<1>2. SameTries(r, Released(r)) BY DEF SameTries, Row, Released
<1>3. SameTries(r, Aged(r)) BY DEF SameTries, Row, Aged
<1>4. SameTries(r, MadeDue(r)) BY DEF SameTries, Row, MadeDue
<1>5. SameTries(r, Stamped(r, w)) BY DEF SameTries, Row, Stamped
<1>6. SameTries(r, Taken(r, w)) BY DEF SameTries, Row, Taken
<1> QED BY <1>1, <1>2, <1>3, <1>4, <1>5, <1>6

LEMMA WritesOne ==
  ASSUME TypeInv, NEW j \in Jobs, NEW new, Write(j, new)
  PROVE  \A i \in Jobs : row'[i] = row[i] \/ (i = j /\ row'[i] = new)
  BY DEF Write, TypeInv, RowInv

LEMMA WriteSameTries ==
  ASSUME TypeInv, NEW j \in Jobs, NEW w, NEW new, Write(j, new),
         new \in {Released(row[j]), Aged(row[j]), MadeDue(row[j]), Stamped(row[j], w),
                  Taken(row[j], w), Gone}
  PROVE  \A i \in Jobs : SameTries(row[i], row'[i])
<1>1. SameTries(row[j], new) BY RowTyped, EditsSameTries
<1>2. \A i \in Jobs : SameTries(row[i], row[i]) BY DEF SameTries
<1> QED BY <1>1, <1>2, WritesOne

\* A step that leaves the tries alone and puts nothing in a worker's hands.
LEMMA TriesKept ==
  ASSUME TypeInv, TriesInv, \A i \in Jobs : SameTries(row[i], row'[i]),
         \A w \in Workers, i \in Jobs : InHand(w, i)' =>
           InHand(w, i) /\ seen'[w][i] = seen[w][i]
             /\ (i \in overwritten[w] => i \in overwritten'[w]),
         hopeless' = hopeless,
         \A i \in Jobs : i \in misjudged => i \in misjudged' \/ row'[i].state = "gone"
  PROVE  TriesInv'
<1>1. Sent' BY DEF TriesInv, Sent, SameTries
<1>2. ReadHolds'
  <2> SUFFICES ASSUME NEW w \in Workers, NEW j \in Jobs, InHand(w, j)', Present(j)',
                      j \notin overwritten'[w]
               PROVE  ~row'[j].failed /\ row'[j].attempts = seen'[w][j]
    BY DEF ReadHolds
  <2>1. InHand(w, j) /\ seen'[w][j] = seen[w][j] /\ j \notin overwritten[w] OBVIOUS
  <2>2. /\ row'[j].state = row[j].state /\ row'[j].failed = row[j].failed
        /\ row'[j].attempts = row[j].attempts
    BY DEF SameTries, Present
  <2>3. ~row[j].failed /\ row[j].attempts = seen[w][j]
    BY <2>1, <2>2 DEF TriesInv, ReadHolds, Present
  <2> QED BY <2>1, <2>2, <2>3
<1>3. ParkedForCause'
  <2> SUFFICES ASSUME NEW j \in Jobs, Failed(j)'
               PROVE  row'[j].attempts >= MaxAttempts \/ hopeless'[j] \/ j \in misjudged'
    BY DEF ParkedForCause
  <2>1. /\ row'[j].state = row[j].state /\ row'[j].failed = row[j].failed
        /\ row'[j].attempts = row[j].attempts /\ row'[j].state # "gone"
    BY DEF SameTries, Failed, Present
  <2>2. Failed(j) BY <2>1 DEF Failed, Present
  <2> QED BY <2>1, <2>2 DEF TriesInv, ParkedForCause
<1> QED BY <1>1, <1>2, <1>3 DEF TriesInv

\* The four steps that change the tries or read them anew.
LEMMA ReadCandidatesTries ==
  ASSUME TypeInv, HandsInv, TriesInv, NEW w \in Workers, ReadCandidates(w)
  PROVE  TriesInv'
<1>0. /\ stamping[w] = None /\ None \notin Jobs /\ \A j \in Jobs : batch[w][j] = "none"
      /\ cands \in [Workers -> SUBSET Jobs] /\ seen \in [Workers -> [Jobs -> 0..(MaxAttempts - 1)]]
  BY Typed DEF ReadCandidates, HandsInv, HandsShape
<1>1. /\ cands' = [cands EXCEPT ![w] = FirstCandidates] /\ batch' = batch
      /\ stamping' = stamping /\ row' = row /\ hopeless' = hopeless
      /\ misjudged' = misjudged /\ overwritten' = overwritten
      /\ \A v \in Workers : v # w => seen'[v] = seen[v]
      /\ \A j \in FirstCandidates : seen'[w][j] = row[j].attempts
  <2>1. FirstCandidates \subseteq Jobs BY DEF FirstCandidates
  <2> QED BY <1>0, <2>1 DEF ReadCandidates, history, verdicts, reads
<1>2. \A j \in FirstCandidates : Present(j) /\ ~row[j].failed
  BY DEF FirstCandidates, Candidate
<1>3. \A v \in Workers, j \in Jobs :
        InHand(v, j)' => IF v = w THEN j \in FirstCandidates ELSE InHand(v, j)
  BY <1>0, <1>1 DEF InHand
<1>4. Sent' BY <1>1, <1>2, <1>3 DEF TriesInv, Sent, Present
<1>5. ReadHolds' BY <1>1, <1>2, <1>3 DEF TriesInv, ReadHolds, Present
<1>6. ParkedForCause' BY <1>1 DEF TriesInv, ParkedForCause, Failed, Present
<1> QED BY <1>4, <1>5, <1>6 DEF TriesInv

\* What fail() saves, given the count the worker read.
LEMMA FailSaves ==
  ASSUME TypeInv, NEW w \in Workers, NEW j \in Jobs, FailSave(w, j)
  PROVE  /\ \A i \in Jobs : i # j => row'[i] = row[i] /\ hopeless'[i] = hopeless[i]
         /\ row'[j].state = row[j].state
         /\ Present(j) =>
              /\ row'[j].attempts = seen[w][j] + 1
              /\ row'[j].failed => \/ row[j].failed \/ hopeless'[j]
                                   \/ seen[w][j] + 1 >= MaxAttempts
         /\ \A i \in Jobs : row'[i].by = row[i].by
<1> DEFINE a == seen[w][j] + 1
<1>0. row[j] \in Row /\ row \in [Jobs -> Row] /\ hopeless \in [Jobs -> BOOLEAN]
  BY Typed
<1>1. PICK u \in BOOLEAN :
        /\ \/ Write(j, Parked(row[j], a)) /\ (u \/ Spent(a))
           \/ Write(j, PutOff(row[j], a))
        /\ hopeless' = [hopeless EXCEPT ![j] = u]
  BY DEF FailSave
<1>2. hopeless'[j] = u /\ \A i \in Jobs : i # j => hopeless'[i] = hopeless[i]
  BY <1>0, <1>1
<1>3. /\ Parked(row[j], a).attempts = a /\ PutOff(row[j], a).attempts = a
      /\ Parked(row[j], a).state = row[j].state /\ PutOff(row[j], a).state = row[j].state
      /\ PutOff(row[j], a).failed = row[j].failed
      /\ Parked(row[j], a).by = row[j].by /\ PutOff(row[j], a).by = row[j].by
  <2> HIDE DEF a
  <2> QED BY <1>0 DEF Row, Parked, PutOff
<1>4. PICK new : /\ Write(j, new) /\ new \in {Parked(row[j], a), PutOff(row[j], a)}
                 /\ new = PutOff(row[j], a) \/ u \/ Spent(a)
  BY <1>1
<1>5. \A i \in Jobs : row'[i] = row[i] \/ (i = j /\ row'[i] = new)
  BY <1>4, WritesOne
<1>6. Present(j) => row'[j] = new BY <1>0, <1>4 DEF Write
<1>7. new.state = row[j].state /\ new.attempts = a /\ new.by = row[j].by
  BY <1>3, <1>4
<1>8. new.failed => row[j].failed \/ u \/ Spent(a) BY <1>3, <1>4
<1>9. Present(j) => /\ row'[j].attempts = a
                    /\ row'[j].failed => row[j].failed \/ hopeless'[j] \/ a >= MaxAttempts
  BY <1>2, <1>6, <1>7, <1>8 DEF Spent
<1> HIDE DEF a
<1>10. \A i \in Jobs : i # j => row'[i] = row[i] BY <1>5
<1>11. row'[j].state = row[j].state BY <1>5, <1>7
<1>12. \A i \in Jobs : row'[i].by = row[i].by BY <1>5, <1>7
<1> QED BY <1>2, <1>9, <1>10, <1>11, <1>12 DEF a

LEMMA FailSaveTries ==
  ASSUME TypeInv, HandsInv, TriesInv, NEW w \in Workers, NEW j \in Jobs, FailSave(w, j)
  PROVE  TriesInv'
<1>0. /\ batch \in [Workers -> [Jobs -> Stages]] /\ None \notin Jobs
      /\ stamping[w] = None /\ cands[w] = {} /\ InHand(w, j)
      /\ row[j].attempts \in Int /\ seen[w][j] \in Int
  <2>1. row[j] \in Row /\ seen[w][j] \in 0..(MaxAttempts - 1) BY Typed
  <2>2. row[j].attempts \in Int /\ seen[w][j] \in Int BY <2>1 DEF Row
  <2>3. pc[w] = "work" /\ batch[w][j] \in {"run", "done"} BY DEF FailSave
  <2>4. cands[w] = {} BY <2>3 DEF HandsInv, HandsShape
  <2>5. InHand(w, j) BY <2>3 DEF InHand
  <2> QED BY <2>2, <2>3, <2>4, <2>5, Typed
<1>1. /\ batch' = [batch EXCEPT ![w][j] = "release"] /\ cands' = cands
      /\ stamping' = stamping /\ seen' = seen
      /\ misjudged' = IF Present(j) /\ j \in overwritten[w] THEN misjudged \cup {j}
                      ELSE misjudged \ {j}
      /\ \A v \in Workers : overwritten'[v] =
           IF v = w THEN overwritten[v] \ {j}
           ELSE IF InHand(v, j) THEN overwritten[v] \cup {j} ELSE overwritten[v]
  BY DEF FailSave, SavedUnder
<1>2. \A v \in Workers, i \in Jobs : InHand(v, i)' => InHand(v, i) /\ ~(v = w /\ i = j)
  BY <1>0, <1>1 DEF InHand
<1>3. /\ \A i \in Jobs : i # j => row'[i] = row[i] /\ hopeless'[i] = hopeless[i]
      /\ row'[j].state = row[j].state
      /\ Present(j) => /\ row'[j].attempts = seen[w][j] + 1
                       /\ row'[j].failed => \/ row[j].failed \/ hopeless'[j]
                                            \/ seen[w][j] + 1 >= MaxAttempts
  BY FailSaves
<1>4. Sent' BY <1>2, <1>3 DEF TriesInv, Sent
<1>5. ReadHolds'
  <2> SUFFICES ASSUME NEW v \in Workers, NEW i \in Jobs, InHand(v, i)', Present(i)',
                      i \notin overwritten'[v]
               PROVE  ~row'[i].failed /\ row'[i].attempts = seen'[v][i]
    BY DEF ReadHolds
  <2>1. InHand(v, i) /\ ~(v = w /\ i = j) BY <1>2
  <2>2. i # j BY <1>1, <2>1
  <2>3. i \notin overwritten[v] BY <1>1, <2>2
  <2>4. row'[i] = row[i] BY <1>3, <2>2
  <2> QED BY <1>1, <2>1, <2>3, <2>4 DEF TriesInv, ReadHolds, Present
<1>6. ParkedForCause'
  <2> SUFFICES ASSUME NEW i \in Jobs, Failed(i)'
               PROVE  row'[i].attempts >= MaxAttempts \/ hopeless'[i] \/ i \in misjudged'
    BY DEF ParkedForCause
  <2>1. CASE i # j
    <3>1. Failed(i) /\ row'[i] = row[i] BY <1>3, <2>1 DEF Failed, Present
    <3> QED BY <1>1, <1>3, <2>1, <3>1 DEF TriesInv, ParkedForCause
  <2>2. CASE i = j
    <3>1. Present(j) BY <1>3, <2>2 DEF Failed, Present
    <3>2. CASE j \in overwritten[w] BY <1>1, <2>2, <3>1, <3>2
    <3>3. CASE j \notin overwritten[w]
      <4>1. ~row[j].failed BY <1>0, <3>1, <3>3 DEF TriesInv, ReadHolds
      <4> QED BY <1>3, <2>2, <3>1, <4>1 DEF Failed
    <3> QED BY <3>2, <3>3
  <2> QED BY <2>1, <2>2
<1> QED BY <1>4, <1>5, <1>6 DEF TriesInv

LEMMA RetrySaveTries ==
  ASSUME TypeInv, TriesInv, NEW s \in Staff, RetrySave(s)
  PROVE  TriesInv'
<1>1. PICK j \in Jobs : j = desk[s].job BY Typed DEF RetrySave
<1>2. Write(j, Requeued(row[j])) BY <1>1 DEF RetrySave
<1>3. ~Requeued(row[j]).failed /\ Requeued(row[j]).state = row[j].state
  <2>1. row[j] \in Row BY Typed
  <2> QED BY <2>1 DEF Requeued, Row
<1>4. /\ \A i \in Jobs : i # j => row'[i] = row[i] /\ row'[j].state = row[j].state
      /\ row'[j].state = row[j].state
  BY <1>2, <1>3, WritesOne
<1>5. Present(j)' => ~row'[j].failed
  <2>1. Present(j)' => Present(j) BY <1>4 DEF Present
  <2>2. Present(j) => row'[j] = Requeued(row[j]) BY <1>2, Typed DEF Write
  <2> QED BY <1>3, <2>1, <2>2
<1>6. /\ UNCHANGED <<batch, cands, stamping, seen>> /\ hopeless' = hopeless
      /\ misjudged' = misjudged \ {j}
      /\ \A v \in Workers : overwritten'[v] =
           IF InHand(v, j) THEN overwritten[v] \cup {j} ELSE overwritten[v]
  BY <1>1 DEF RetrySave, SavedUnder, workerVars, verdicts
<1>7. \A v \in Workers, i \in Jobs : InHand(v, i)' <=> InHand(v, i)
  BY <1>6 DEF InHand
<1>8. Sent' BY <1>4, <1>7 DEF TriesInv, Sent
<1>9. ReadHolds'
  <2> SUFFICES ASSUME NEW v \in Workers, NEW i \in Jobs, InHand(v, i)', Present(i)',
                      i \notin overwritten'[v]
               PROVE  ~row'[i].failed /\ row'[i].attempts = seen'[v][i]
    BY DEF ReadHolds
  <2>1. InHand(v, i) /\ i # j /\ i \notin overwritten[v] BY <1>6, <1>7
  <2>2. row'[i] = row[i] BY <1>4, <2>1
  <2> QED BY <1>6, <2>1, <2>2 DEF TriesInv, ReadHolds, Present
<1>10. ParkedForCause'
  BY <1>4, <1>5, <1>6 DEF TriesInv, ParkedForCause, Failed, Present
<1> QED BY <1>8, <1>9, <1>10 DEF TriesInv

LEMMA DispatchTries ==
  ASSUME TypeInv, TriesInv, NEW j \in Jobs, Dispatch(j)
  PROVE  TriesInv'
<1>1. PICK d \in BOOLEAN : row' = [row EXCEPT ![j] = BlankRow("queued", ~d)]
  BY DEF Dispatch
<1>2. /\ row'[j].state = "queued" /\ ~row'[j].failed /\ row[j].state = "unsent"
      /\ \A i \in Jobs : i # j => row'[i] = row[i]
  BY <1>1, Typed DEF Dispatch, BlankRow
<1>3. /\ UNCHANGED <<batch, cands, stamping, seen, overwritten>> /\ hopeless' = hopeless
      /\ misjudged' = misjudged
  BY DEF Dispatch, workerVars, history, verdicts, reads
<1>4. \A v \in Workers, i \in Jobs : InHand(v, i)' => InHand(v, i) /\ i # j
  BY <1>2, <1>3 DEF InHand, TriesInv, Sent
<1>5. Sent' BY <1>2, <1>4 DEF TriesInv, Sent
<1>6. ReadHolds' BY <1>2, <1>3, <1>4 DEF TriesInv, ReadHolds, Present
<1>7. ParkedForCause' BY <1>2, <1>3 DEF TriesInv, ParkedForCause, Failed, Present
<1> QED BY <1>5, <1>6, <1>7 DEF TriesInv

LEMMA StepTriesInv == TypeInv /\ HandsInv /\ TriesInv /\ [Next]_vars => TriesInv'
<1> SUFFICES ASSUME TypeInv, HandsInv, TriesInv, [Next]_vars PROVE TriesInv'
  OBVIOUS
<1>0. /\ batch \in [Workers -> [Jobs -> Stages]] /\ None \notin Jobs
      /\ stamping \in [Workers -> Jobs \cup {None}] /\ cands \in [Workers -> SUBSET Jobs]
      /\ overwritten \in [Workers -> SUBSET Jobs]
      /\ seen \in [Workers -> [Jobs -> 0..(MaxAttempts - 1)]]
      /\ \A w \in Workers : pc[w] = "stamp" <=> stamping[w] # None
  BY Typed
<1> USE DEF history, verdicts, reads
<1>a. ASSUME UNCHANGED row PROVE \A i \in Jobs : SameTries(row[i], row'[i])
  BY <1>a DEF SameTries
<1>1. ASSUME NEW w \in Workers, WorkerStep(w) PROVE TriesInv'
  <2>1. CASE ReadHeld(w) \/ BatchSettled(w)
    <3>1. \A v \in Workers, i \in Jobs : InHand(v, i)' <=> InHand(v, i)
      BY <2>1 DEF ReadHeld, BatchSettled, InHand
    <3> QED BY <1>a, <2>1, <3>1, TriesKept DEF ReadHeld, BatchSettled
  <2>2. CASE ReadCandidates(w) BY <2>2, ReadCandidatesTries
  <2>3. CASE Stamp(w)
    <3>1. PICK j \in Jobs : j = stamping[w] /\ Write(j, Stamped(row[j], w))
      BY <1>0, <2>3 DEF Stamp
    <3>2. \A i \in Jobs : SameTries(row[i], row'[i]) BY <3>1, WriteSameTries
    <3>3. \A v \in Workers, i \in Jobs : InHand(v, i)' => InHand(v, i)
      BY <1>0, <2>3, <3>1 DEF Stamp, InHand
    <3> QED BY <2>3, <3>2, <3>3, TriesKept DEF Stamp
  <2>4. CASE EndReserve(w)
    <3>1. \A v \in Workers, i \in Jobs : InHand(v, i)' =>
            InHand(v, i) /\ (i \in overwritten[v] => i \in overwritten'[v])
      <4>1. pc[w] = "claim" /\ stamping[w] = None BY <1>0, <2>4 DEF EndReserve
      <4> QED BY <1>0, <2>4, <4>1 DEF EndReserve, InHand, Batch
    <3> QED BY <1>a, <2>4, <3>1, TriesKept DEF EndReserve
  <2>5. ASSUME NEW j \in Jobs, ReleaseExpired(w, j) PROVE TriesInv'
    <3>1. \A i \in Jobs : SameTries(row[i], row'[i])
      BY <2>5, WriteSameTries DEF ReleaseExpired
    <3>2. \A v \in Workers, i \in Jobs : InHand(v, i)' <=> InHand(v, i)
      BY <2>5 DEF ReleaseExpired, InHand
    <3> QED BY <2>5, <3>1, <3>2, TriesKept DEF ReleaseExpired
  <2>6. ASSUME NEW j \in Jobs, Claim(w, j) PROVE TriesInv'
    <3>1. \A i \in Jobs : SameTries(row[i], row'[i])
      <4>1. CASE Unreserved(j) BY <2>6, <4>1, WriteSameTries DEF Claim
      <4>2. CASE ~Unreserved(j) BY <2>6, <4>2, <1>a DEF Claim
      <4> QED BY <4>1, <4>2
    <3>2. \A v \in Workers, i \in Jobs : InHand(v, i)' => InHand(v, i)
      BY <1>0, <2>6 DEF Claim, InHand
    <3> QED BY <2>6, <3>1, <3>2, TriesKept DEF Claim
  <2>7. ASSUME NEW j \in Jobs, HandlerReturns(w, j) PROVE TriesInv'
    <3>1. \A v \in Workers, i \in Jobs : InHand(v, i)' => InHand(v, i)
      BY <1>0, <2>7 DEF HandlerReturns, InHand
    <3> QED BY <1>a, <2>7, <3>1, TriesKept DEF HandlerReturns
  <2>8. ASSUME NEW j \in Jobs, Complete(w, j) PROVE TriesInv'
    <3>1. \A i \in Jobs : SameTries(row[i], row'[i])
      BY <2>8, WriteSameTries DEF Complete
    <3>2. Sent' /\ \A v \in Workers, i \in Jobs : InHand(v, i)' => InHand(v, i) /\ (v = w => i # j)
      <4>1. pc[w] = "work" /\ cands[w] = {} /\ stamping[w] = None
        BY <1>0, <2>8 DEF Complete, HandsInv, HandsShape
      <4>2. \A v \in Workers, i \in Jobs : InHand(v, i)' => InHand(v, i) /\ (v = w => i # j)
        BY <1>0, <2>8, <4>1 DEF Complete, InHand
      <4> QED BY <3>1, <4>2 DEF TriesInv, Sent, SameTries
    <3>3. row'[j].state # "queued"
      BY <2>8, Typed DEF Complete, Write, Present, Gone, BlankRow
    <3>4. batch[w][j] = "done" BY <2>8 DEF Complete, Returned
    <3>5. row'[j].state = "gone"
      <4>1. row[j].state # "unsent" BY <3>4 DEF TriesInv, Sent, InHand
      <4>2. row[j].state \in {"unsent", "queued", "gone"} BY Typed DEF Row
      <4> QED BY <2>8, <4>1, <4>2, Typed DEF Complete, Write, Present, Gone, BlankRow
    <3> QED BY <1>0, <2>8, <3>1, <3>2, <3>5, TriesKept DEF Complete
  <2>9. ASSUME NEW j \in Jobs, FailSave(w, j) PROVE TriesInv' BY <2>9, FailSaveTries
  <2>10. ASSUME NEW j \in Jobs, FailRelease(w, j) PROVE TriesInv'
    <3>1. \A i \in Jobs : SameTries(row[i], row'[i])
      BY <2>10, WriteSameTries DEF FailRelease
    <3>2. \A v \in Workers, i \in Jobs : InHand(v, i)' => InHand(v, i)
      BY <1>0, <2>10 DEF FailRelease, InHand
    <3> QED BY <2>10, <3>1, <3>2, TriesKept DEF FailRelease
  <2> QED
    BY <1>1, <2>1, <2>2, <2>3, <2>4, <2>5, <2>6, <2>7, <2>8, <2>9, <2>10 DEF WorkerStep
<1>2. ASSUME NEW w \in Workers, Shutdown(w) \/ Exit(w) \/ Restart(w) PROVE TriesInv'
  <2>1. \A v \in Workers, i \in Jobs : InHand(v, i)' <=> InHand(v, i)
    BY <1>2 DEF Shutdown, Exit, Restart, InHand
  <2> QED BY <1>a, <1>2, <2>1, TriesKept DEF Shutdown, Exit, Restart
<1>3. ASSUME NEW w \in Workers, Crash(w) PROVE TriesInv'
  <2>1. \A v \in Workers, i \in Jobs : InHand(v, i)' =>
          InHand(v, i) /\ seen'[v][i] = seen[v][i] /\ overwritten'[v] = overwritten[v]
    BY <1>0, <1>3 DEF Crash, InHand, Idle
  <2> QED BY <1>a, <1>3, <2>1, TriesKept DEF Crash
<1>4. ASSUME NEW j \in Jobs, Dispatch(j) PROVE TriesInv' BY <1>4, DispatchTries
<1>5. ASSUME NEW j \in Jobs, Age(j) \/ BecomeDue(j) PROVE TriesInv'
  <2>1. \A i \in Jobs : SameTries(row[i], row'[i])
    <3>1. CASE Age(j) BY <3>1, WriteSameTries DEF Age
    <3>2. CASE BecomeDue(j) BY <3>2, WriteSameTries DEF BecomeDue
    <3> QED BY <1>5, <3>1, <3>2
  <2>2. UNCHANGED <<cands, stamping, batch, seen, overwritten, hopeless, misjudged>>
    BY <1>5 DEF Age, BecomeDue, workerVars
  <2>3. \A v \in Workers, i \in Jobs : InHand(v, i)' <=> InHand(v, i)
    BY <2>2 DEF InHand
  <2> QED BY <2>1, <2>2, <2>3, TriesKept
<1>6. ASSUME NEW s \in Staff, StaffStep(s) PROVE TriesInv'
  <2>0. /\ UNCHANGED <<cands, stamping, batch, seen>>
        /\ \A v \in Workers, i \in Jobs : InHand(v, i)' <=> InHand(v, i)
    BY <1>6 DEF StaffStep, Load, RetrySave, RetryRelease, Discard, workerVars, InHand
  <2>1. ASSUME NEW j \in Jobs, Load(s, j) PROVE TriesInv'
    BY <1>a, <2>0, <2>1, TriesKept DEF Load
  <2>2. CASE RetrySave(s) BY <2>2, RetrySaveTries
  <2>3. CASE RetryRelease(s) \/ Discard(s)
    <3>1. PICK j \in Jobs : j = desk[s].job BY <2>3, Typed DEF RetryRelease, Discard
    <3>2. Write(j, Released(row[j])) \/ Write(j, Gone)
      BY <2>3, <3>1 DEF RetryRelease, Discard
    <3>3. \A i \in Jobs : SameTries(row[i], row'[i]) BY <3>2, WriteSameTries
    <3> QED BY <2>0, <2>3, <3>3, TriesKept DEF RetryRelease, Discard
  <2> QED BY <1>6, <2>1, <2>2, <2>3 DEF StaffStep
<1>7. CASE UNCHANGED vars
  <2>1. UNCHANGED <<row, cands, stamping, batch, seen, overwritten, hopeless, misjudged>>
    BY <1>7 DEF vars, workerVars
  <2>2. \A v \in Workers, i \in Jobs : InHand(v, i)' <=> InHand(v, i)
    BY <2>1 DEF InHand
  <2> QED BY <1>a, <2>1, <2>2, TriesKept
<1> QED BY <1>1, <1>2, <1>3, <1>4, <1>5, <1>6, <1>7 DEF Next

-----------------------------------------------------------------------------
\* A reservation stands as long as nobody released it under its holder.
HoldHolds ==
  \A w \in Workers, j \in Jobs :
    Works(w, j) /\ Present(j) /\ j \notin undercut[w] => row[j].by # None

WorksSent == \A w \in Workers, j \in Jobs : Works(w, j) => row[j].state # "unsent"

ApartInv == WorksSent /\ HoldHolds /\ HeldApart

\* A step that hands no job out and takes no reservation away from a holder
\* without marking it.
LEMMA ApartKept ==
  ASSUME TypeInv, ApartInv,
         \A i \in Jobs : /\ row[i].state # "unsent" => row'[i].state # "unsent"
                         /\ Present(i)' => Present(i) \/ row[i].state = "unsent",
         \A w \in Workers, i \in Jobs : Works(w, i)' =>
           Works(w, i) /\ (i \in undercut[w] => i \in undercut'[w]),
         \A w \in Workers, i \in Jobs :
           Works(w, i)' /\ Present(i)' /\ row[i].by # None =>
             row'[i].by # None \/ i \in undercut'[w]
  PROVE  ApartInv'
<1>1. WorksSent' BY DEF ApartInv, WorksSent
<1>2. HoldHolds'
  <2> SUFFICES ASSUME NEW w \in Workers, NEW j \in Jobs, Works(w, j)', Present(j)',
                      j \notin undercut'[w]
               PROVE  row'[j].by # None
    BY DEF HoldHolds
  <2>1. Works(w, j) /\ j \notin undercut[w] OBVIOUS
  <2>2. Present(j) BY <2>1 DEF ApartInv, WorksSent
  <2>3. row[j].by # None BY <2>1, <2>2 DEF ApartInv, HoldHolds
  <2> QED BY <2>3
<1>3. HeldApart' BY DEF ApartInv, HeldApart
<1> QED BY <1>1, <1>2, <1>3 DEF ApartInv

\* What becomes of a row's state and holder in each update but the claim's.
LEMMA WriteHolder ==
  ASSUME TypeInv, NEW j \in Jobs, NEW new, Write(j, new),
         new.state = row[j].state \/ new.state = "gone"
  PROVE  /\ \A i \in Jobs : /\ row[i].state # "unsent" => row'[i].state # "unsent"
                            /\ Present(i)' => Present(i)
         /\ \A i \in Jobs : i # j => row'[i] = row[i]
         /\ Present(j)' => row'[j] = new
<1>1. \A i \in Jobs : row'[i] = row[i] \/ (i = j /\ row'[i] = new) BY WritesOne
<1>2. \A i \in Jobs : /\ row[i].state # "unsent" => row'[i].state # "unsent"
                      /\ Present(i)' => Present(i)
  BY <1>1 DEF Present
<1>3. Present(j) => row'[j] = new BY Typed DEF Write
<1> QED BY <1>1, <1>2, <1>3

LEMMA ClaimApart ==
  ASSUME TypeInv, HandsInv, TriesInv, ApartInv, NEW w \in Workers, NEW j \in Jobs,
         Claim(w, j), Unreserved(j)
  PROVE  /\ ApartInv'
         /\ \A v \in Workers : v # w /\ Works(v, j) => j \in undercut[v]
         /\ \A v \in Workers, i \in Jobs : Works(v, i)' <=> Works(v, i) \/ (v = w /\ i = j)
<1>0. /\ stamping \in [Workers -> Jobs \cup {None}] /\ None \notin Workers /\ None \notin Jobs
      /\ pc[w] = "claim" /\ stamping[w] = None /\ row \in [Jobs -> Row]
  BY Typed DEF Claim
<1>1. Present(j) /\ row[j].by = None BY DEF Unreserved
<1>2. \A v \in Workers : Works(v, j) => j \in undercut[v]
  BY <1>1 DEF ApartInv, HoldHolds
<1>3. /\ row' = [row EXCEPT ![j] = Taken(row[j], w)] /\ batch' = batch
      /\ stamping' = [stamping EXCEPT ![w] = j] /\ undercut' = undercut
  BY <1>1 DEF Claim, Write, history, reads
<1>4. \A v \in Workers, i \in Jobs : Works(v, i)' <=> Works(v, i) \/ (v = w /\ i = j)
  BY <1>0, <1>3 DEF Works
<1>5. /\ row'[j].by = w /\ row'[j].state = row[j].state
      /\ \A i \in Jobs : i # j => row'[i] = row[i]
  <2>1. row[j] \in Row BY <1>0
  <2>2. Taken(row[j], w).by = w /\ Taken(row[j], w).state = row[j].state
    BY <2>1, ClaimColumns
  <2> QED BY <1>0, <1>3, <2>2
<1>6. WorksSent' BY <1>1, <1>4, <1>5 DEF ApartInv, WorksSent, Present
<1>7. HoldHolds' BY <1>0, <1>3, <1>4, <1>5 DEF ApartInv, HoldHolds, Present
<1>8. HeldApart' BY <1>2, <1>3, <1>4 DEF ApartInv, HeldApart
<1> QED BY <1>2, <1>4, <1>6, <1>7, <1>8 DEF ApartInv

\* A step hands a job that one worker works on to another only if it was released
\* under the first.
TakesFree ==
  \A v, w \in Workers, j \in Jobs :
    v # w /\ Works(v, j) /\ ~Works(w, j) /\ Works(w, j)' => j \in undercut[v]

LEMMA StepApartInv ==
  ASSUME TypeInv, HandsInv, TriesInv, ApartInv, [Next]_vars
  PROVE  ApartInv' /\ TakesFree
<1>0. /\ batch \in [Workers -> [Jobs -> Stages]] /\ None \notin Jobs
      /\ stamping \in [Workers -> Jobs \cup {None}]
      /\ undercut \in [Workers -> SUBSET Jobs] /\ None \notin Workers
      /\ \A w \in Workers : pc[w] = "stamp" <=> stamping[w] # None
  BY Typed
<1>f. ASSUME \A v \in Workers, i \in Jobs : Works(v, i)' => Works(v, i) PROVE TakesFree
  BY <1>f DEF TakesFree
<1> USE DEF history, verdicts, reads
<1>1. ASSUME NEW w \in Workers,
             \/ ReadHeld(w) \/ ReadCandidates(w) \/ EndReserve(w) \/ BatchSettled(w)
             \/ Shutdown(w) \/ Exit(w) \/ Restart(w)
      PROVE  ApartInv' /\ TakesFree
  <2>1. UNCHANGED <<row, batch, stamping, undercut>>
    BY <1>1 DEF ReadHeld, ReadCandidates, EndReserve, BatchSettled, Shutdown, Exit, Restart
  <2>2. \A v \in Workers, i \in Jobs : Works(v, i)' <=> Works(v, i) BY <2>1 DEF Works
  <2> QED BY <1>f, <2>1, <2>2, ApartKept DEF Present
<1>2. ASSUME NEW w \in Workers, Stamp(w) PROVE ApartInv' /\ TakesFree
  <2>1. PICK j \in Jobs : j = stamping[w] /\ Write(j, Stamped(row[j], w))
    BY <1>0, <1>2 DEF Stamp
  <2>2. Stamped(row[j], w).by = w /\ Stamped(row[j], w).state = row[j].state
    BY RowTyped, ClaimColumns
  <2>3. /\ \A i \in Jobs : /\ row[i].state # "unsent" => row'[i].state # "unsent"
                           /\ Present(i)' => Present(i)
        /\ \A i \in Jobs : i # j => row'[i] = row[i]
        /\ Present(j)' => row'[j] = Stamped(row[j], w)
    BY <2>1, <2>2, WriteHolder
  <2>4. \A v \in Workers, i \in Jobs : Works(v, i)' <=> Works(v, i)
    BY <1>0, <1>2, <2>1 DEF Stamp, Works
  <2>5. undercut' = undercut BY <1>2 DEF Stamp
  <2> QED BY <1>0, <1>f, <2>2, <2>3, <2>4, <2>5, ApartKept
<1>3. ASSUME NEW w \in Workers, NEW j \in Jobs, ReleaseExpired(w, j) \/ FailRelease(w, j)
      PROVE  ApartInv' /\ TakesFree
  <2>1. Write(j, Released(row[j])) /\ ReleasedUnder(Workers \ {w}, j)
    BY <1>3 DEF ReleaseExpired, FailRelease
  <2>2. Released(row[j]).state = row[j].state BY RowTyped, Columns
  <2>3. /\ \A i \in Jobs : /\ row[i].state # "unsent" => row'[i].state # "unsent"
                           /\ Present(i)' => Present(i)
        /\ \A i \in Jobs : i # j => row'[i] = row[i]
    BY <2>1, <2>2, WriteHolder
  <2>4. \A v \in Workers, i \in Jobs : Works(v, i)' => Works(v, i) /\ ~(v = w /\ i = j)
    <3>1. CASE ReleaseExpired(w, j)
      <4>1. pc[w] = "reclaim" /\ UNCHANGED <<batch, stamping>> BY <3>1 DEF ReleaseExpired
      <4>2. ~Works(w, j) BY <1>0, <4>1 DEF HandsInv, HandsShape, Works
      <4> QED BY <4>1, <4>2 DEF Works
    <3>2. CASE FailRelease(w, j)
      <4>1. /\ pc[w] = "work" /\ stamping' = stamping
            /\ batch' = [batch EXCEPT ![w][j] = "none"]
        BY <3>2 DEF FailRelease
      <4> QED BY <1>0, <4>1 DEF Works
    <3> QED BY <1>3, <3>1, <3>2
  <2>5. \A v \in Workers, i \in Jobs : Works(v, i)' =>
          /\ i \in undercut[v] => i \in undercut'[v]
          /\ i = j => i \in undercut'[v]
    BY <2>1, <2>4 DEF ReleasedUnder
  <2> QED BY <1>f, <2>3, <2>4, <2>5, ApartKept
<1>4. ASSUME NEW w \in Workers, NEW j \in Jobs, Claim(w, j) PROVE ApartInv' /\ TakesFree
  <2>1. CASE Unreserved(j)
    <3>1. /\ ApartInv'
          /\ \A v \in Workers : v # w /\ Works(v, j) => j \in undercut[v]
          /\ \A v \in Workers, i \in Jobs : Works(v, i)' <=> Works(v, i) \/ (v = w /\ i = j)
      BY <1>4, <2>1, ClaimApart
    <3> QED BY <3>1 DEF TakesFree
  <2>2. CASE ~Unreserved(j)
    <3>1. UNCHANGED <<row, batch, stamping, undercut>> BY <1>4, <2>2 DEF Claim
    <3>2. \A v \in Workers, i \in Jobs : Works(v, i)' <=> Works(v, i) BY <3>1 DEF Works
    <3> QED BY <1>f, <3>1, <3>2, ApartKept DEF Present
  <2> QED BY <2>1, <2>2
<1>5. ASSUME NEW w \in Workers, NEW j \in Jobs, HandlerReturns(w, j) \/ FailSave(w, j)
      PROVE  ApartInv' /\ TakesFree
  <2>1. \A v \in Workers, i \in Jobs : Works(v, i)' <=> Works(v, i)
    BY <1>0, <1>5 DEF HandlerReturns, FailSave, Works
  <2>2. \A i \in Jobs : row'[i].by = row[i].by /\ row'[i].state = row[i].state
    <3>1. CASE HandlerReturns(w, j) BY <3>1 DEF HandlerReturns
    <3>2. CASE FailSave(w, j)
      <4>1. /\ \A i \in Jobs : i # j => row'[i] = row[i]
            /\ row'[j].state = row[j].state
            /\ \A i \in Jobs : row'[i].by = row[i].by
        BY <3>2, FailSaves
      <4> QED BY <4>1
    <3> QED BY <1>5, <3>1, <3>2
  <2>3. undercut' = undercut BY <1>5 DEF HandlerReturns, FailSave
  <2> QED BY <1>f, <2>1, <2>2, <2>3, ApartKept DEF Present
<1>6. ASSUME NEW w \in Workers, NEW j \in Jobs, Complete(w, j) PROVE ApartInv' /\ TakesFree
  <2>1. Write(j, Gone) /\ Gone.state = "gone" BY <1>6 DEF Complete, Gone, BlankRow
  <2>2. /\ \A i \in Jobs : /\ row[i].state # "unsent" => row'[i].state # "unsent"
                           /\ Present(i)' => Present(i)
        /\ \A i \in Jobs : i # j => row'[i] = row[i]
        /\ Present(j)' => row'[j] = Gone
    BY <2>1, WriteHolder
  <2>3. ~Present(j)' BY <2>1, <2>2 DEF Present
  <2>4. \A v \in Workers, i \in Jobs : Works(v, i)' =>
          Works(v, i) /\ (i \in undercut[v] => i \in undercut'[v])
    <3>1. pc[w] = "work" /\ stamping[w] = None BY <1>0, <1>6 DEF Complete
    <3>2. \A v \in Workers, i \in Jobs : Works(v, i)' => Works(v, i) /\ ~(v = w /\ i = j)
      BY <1>0, <1>6, <3>1 DEF Complete, Works
    <3> QED BY <1>0, <1>6, <3>2 DEF Complete
  <2> QED BY <1>f, <2>2, <2>3, <2>4, ApartKept
<1>7. ASSUME NEW w \in Workers, Crash(w) PROVE ApartInv' /\ TakesFree
  <2>1. \A v \in Workers, i \in Jobs : Works(v, i)' => Works(v, i) /\ undercut'[v] = undercut[v]
    BY <1>0, <1>7 DEF Crash, Works, Idle
  <2>2. row' = row BY <1>7 DEF Crash
  <2> QED BY <1>f, <2>1, <2>2, ApartKept DEF Present
<1>8. ASSUME NEW j \in Jobs, Dispatch(j) \/ Age(j) \/ BecomeDue(j) PROVE ApartInv' /\ TakesFree
  <2>1. UNCHANGED <<batch, stamping, undercut>>
    BY <1>8 DEF Dispatch, Age, BecomeDue, workerVars
  <2>2. \A v \in Workers, i \in Jobs : Works(v, i)' <=> Works(v, i) BY <2>1 DEF Works
  <2>3. CASE Dispatch(j)
    <3>1. PICK d \in BOOLEAN : row' = [row EXCEPT ![j] = BlankRow("queued", ~d)]
      BY <2>3 DEF Dispatch
    <3>2. /\ row[j].state = "unsent" /\ row[j].by = None /\ row'[j].state = "queued"
          /\ \A i \in Jobs : i # j => row'[i] = row[i]
      BY <2>3, <3>1, Typed DEF Dispatch, BlankRow
    <3> QED BY <1>f, <2>1, <2>2, <3>2, ApartKept DEF Present
  <2>4. CASE Age(j) \/ BecomeDue(j)
    <3>1. PICK new : /\ Write(j, new) /\ new.state = row[j].state
                     /\ new.by = row[j].by
      <4>1. /\ Aged(row[j]).state = row[j].state /\ Aged(row[j]).by = row[j].by
            /\ MadeDue(row[j]).state = row[j].state /\ MadeDue(row[j]).by = row[j].by
        BY Typed DEF Row, Aged, MadeDue
      <4> QED BY <2>4, <4>1 DEF Age, BecomeDue
    <3>2. /\ \A i \in Jobs : /\ row[i].state # "unsent" => row'[i].state # "unsent"
                             /\ Present(i)' => Present(i)
          /\ \A i \in Jobs : i # j => row'[i] = row[i]
          /\ Present(j)' => row'[j] = new
      BY <3>1, WriteHolder
    <3> QED BY <1>f, <2>1, <2>2, <3>1, <3>2, ApartKept
  <2> QED BY <1>8, <2>3, <2>4
<1>9. ASSUME NEW s \in Staff, StaffStep(s) PROVE ApartInv' /\ TakesFree
  <2>1. UNCHANGED <<batch, stamping>>
    BY <1>9 DEF StaffStep, Load, RetrySave, RetryRelease, Discard, workerVars
  <2>2. \A v \in Workers, i \in Jobs : Works(v, i)' <=> Works(v, i) BY <2>1 DEF Works
  <2>3. ASSUME NEW j \in Jobs, Load(s, j) PROVE ApartInv' /\ TakesFree
    <3>1. UNCHANGED <<row, undercut>> BY <2>3 DEF Load
    <3> QED BY <1>f, <2>2, <3>1, ApartKept DEF Present
  <2>4. CASE RetrySave(s) \/ RetryRelease(s) \/ Discard(s)
    <3>1. PICK j \in Jobs : j = desk[s].job
      BY <2>4, Typed DEF RetrySave, RetryRelease, Discard
    <3>2. PICK new : /\ Write(j, new)
                     /\ \/ /\ new.state = row[j].state /\ new.by = row[j].by
                           /\ undercut' = undercut
                        \/ new.state = row[j].state /\ ReleasedUnder(Workers, j)
                        \/ new.state = "gone" /\ undercut' = undercut
      <4>1. /\ Requeued(row[j]).state = row[j].state /\ Requeued(row[j]).by = row[j].by
            /\ Released(row[j]).state = row[j].state /\ Gone.state = "gone"
        BY Typed DEF Row, Requeued, Released, Gone, BlankRow
      <4>2. CASE RetrySave(s) BY <3>1, <4>1, <4>2 DEF RetrySave
      <4>3. CASE RetryRelease(s) BY <3>1, <4>1, <4>3 DEF RetryRelease
      <4>4. CASE Discard(s) BY <3>1, <4>1, <4>4 DEF Discard
      <4> QED BY <2>4, <4>2, <4>3, <4>4
    <3>3. /\ \A i \in Jobs : /\ row[i].state # "unsent" => row'[i].state # "unsent"
                             /\ Present(i)' => Present(i)
          /\ \A i \in Jobs : i # j => row'[i] = row[i]
          /\ Present(j)' => row'[j] = new
      BY <3>2, WriteHolder
    <3>4. CASE undercut' = undercut /\ (new.by = row[j].by \/ new.state = "gone")
      <4>1. Present(j)' => row'[j].by = row[j].by
        BY <3>2, <3>3, <3>4 DEF Present
      <4>2. \A i \in Jobs : Present(i)' => row'[i].by = row[i].by BY <3>3, <4>1
      <4> QED BY <1>f, <2>2, <3>3, <3>4, <4>2, ApartKept
    <3>5. CASE ReleasedUnder(Workers, j)
      <4>1. \A v \in Workers, i \in Jobs :
              /\ i \in undercut[v] => i \in undercut'[v]
              /\ Works(v, i) /\ i = j => i \in undercut'[v]
        BY <3>5 DEF ReleasedUnder
      <4> QED BY <1>f, <2>2, <3>3, <4>1, ApartKept
    <3> QED BY <3>2, <3>4, <3>5
  <2> QED BY <1>9, <2>3, <2>4 DEF StaffStep
<1>10. CASE UNCHANGED vars
  <2>1. UNCHANGED <<row, batch, stamping, undercut>> BY <1>10 DEF vars, workerVars
  <2>2. \A v \in Workers, i \in Jobs : Works(v, i)' <=> Works(v, i) BY <2>1 DEF Works
  <2> QED BY <1>f, <2>1, <2>2, ApartKept DEF Present
<1>11. ASSUME NEW w \in Workers, WorkerStep(w) PROVE ApartInv' /\ TakesFree
  BY <1>1, <1>2, <1>3, <1>4, <1>5, <1>6, <1>11 DEF WorkerStep
<1>12. ASSUME NEW w \in Workers,
              WorkerStep(w) \/ Shutdown(w) \/ Exit(w) \/ Crash(w) \/ Restart(w)
       PROVE  ApartInv' /\ TakesFree
  BY <1>1, <1>7, <1>11, <1>12
<1>13. CASE Next
  <2>1. CASE \E w \in Workers :
               WorkerStep(w) \/ Shutdown(w) \/ Exit(w) \/ Crash(w) \/ Restart(w)
    BY <1>12, <2>1
  <2>2. CASE \E j \in Jobs : Dispatch(j) \/ Age(j) \/ BecomeDue(j) BY <1>8, <2>2
  <2>3. CASE \E s \in Staff : StaffStep(s) BY <1>9, <2>3
  <2> QED BY <1>13, <2>1, <2>2, <2>3 DEF Next
<1> QED BY <1>10, <1>13

-----------------------------------------------------------------------------
QueueInv == TypeInv /\ HandsInv /\ TriesInv /\ ApartInv

LEMMA QueueInvHolds == Spec => []QueueInv
<1>1. Init => QueueInv
  <2>1. Init => HandsInv /\ TriesInv /\ ApartInv
    BY DEF Init, HandsInv, HandsShape, TriesInv, Sent, ReadHolds, ParkedForCause, ApartInv,
           WorksSent, HoldHolds, HeldApart, InHand, Works, Failed, Present, NoRow, BlankRow, Idle
  <2> QED BY <2>1, InitTypeInv DEF QueueInv
<1>2. QueueInv /\ [Next]_vars => QueueInv'
  BY StepTypeInv, StepHandsInv, StepTriesInv, StepApartInv DEF QueueInv
<1> QED BY <1>1, <1>2, PTL DEF Spec

\* The compare-and-swap of QueueService.claim, for any number of workers killed,
\* overrun and reclaimed at any point and any number of staff retrying: when two
\* workers hold one job, somebody had released it under one of them.
THEOREM SwapExcludes == Spec => []HeldApart
<1>1. QueueInv => HeldApart BY DEF QueueInv, ApartInv
<1> QED BY <1>1, QueueInvHolds, PTL

\* For any number of workers, however they are killed, overrun and raced, a job
\* is parked only when its tries are spent or its error is past retrying, unless
\* the worker that saved it did so over a try or a retry it had not read; and its
\* count stays within bounds (QueueService.fail, AdminJobController).
THEOREM ParksForCause == Spec => []RowsTellTheTruth
<1>1. QueueInv => RowsTellTheTruth
  BY DEF QueueInv, TypeInv, TriesInv, RowsTellTheTruth
<1> QED BY <1>1, QueueInvHolds, PTL

-----------------------------------------------------------------------------
\* What one step may do to one row, and who does it.
Writes(i) ==
  \/ row'[i] = row[i]
  \/ row'[i] \in {Released(row[i]), Aged(row[i]), MadeDue(row[i]), Gone}
  \/ row'[i] = Requeued(row[i]) /\ \E s \in Staff : RetrySave(s)
  \/ \E v \in Workers : InHand(v, i) /\ row'[i] \in {Stamped(row[i], v), Taken(row[i], v)}
  \/ \E v \in Workers : FailSave(v, i)
  \/ row[i].state = "unsent" /\ \E due \in BOOLEAN : row'[i] = BlankRow("queued", due)

LEMMA StepWrites == TypeInv /\ [Next]_vars => \A i \in Jobs : Writes(i)
<1> SUFFICES ASSUME TypeInv, [Next]_vars PROVE \A i \in Jobs : Writes(i)
  OBVIOUS
<1>0. /\ stamping \in [Workers -> Jobs \cup {None}] /\ row \in [Jobs -> Row]
      /\ \A w \in Workers : pc[w] = "stamp" <=> stamping[w] # None
      /\ \A s \in Staff : desk[s].at # "idle" => desk[s].job \in Jobs
  BY DEF TypeInv, TypeOK, Shape, RowInv
<1>a. ASSUME UNCHANGED row PROVE \A i \in Jobs : Writes(i)
  BY <1>a DEF Writes
<1>1. ASSUME NEW w \in Workers,
             \/ ReadHeld(w) \/ ReadCandidates(w) \/ EndReserve(w) \/ BatchSettled(w)
             \/ Shutdown(w) \/ Exit(w) \/ Crash(w) \/ Restart(w)
      PROVE  \A i \in Jobs : Writes(i)
  BY <1>1, <1>a DEF ReadHeld, ReadCandidates, EndReserve, BatchSettled, Shutdown, Exit,
                    Crash, Restart
<1>2. ASSUME NEW w \in Workers, Stamp(w) PROVE \A i \in Jobs : Writes(i)
  <2>1. PICK j \in Jobs : j = stamping[w] /\ Write(j, Stamped(row[j], w))
    BY <1>0, <1>2 DEF Stamp
  <2>2. InHand(w, j) BY <2>1 DEF InHand
  <2> QED BY <2>1, <2>2, WritesOne DEF Writes
<1>3. ASSUME NEW w \in Workers, NEW j \in Jobs,
             ReleaseExpired(w, j) \/ Complete(w, j) \/ FailRelease(w, j)
      PROVE  \A i \in Jobs : Writes(i)
  BY <1>3, WritesOne DEF ReleaseExpired, Complete, FailRelease, Writes
<1>4. ASSUME NEW w \in Workers, NEW j \in Jobs, Claim(w, j) PROVE \A i \in Jobs : Writes(i)
  <2>1. InHand(w, j) BY <1>4 DEF Claim, InHand
  <2>2. CASE Unreserved(j) BY <1>4, <2>1, <2>2, WritesOne DEF Claim, Writes
  <2>3. CASE ~Unreserved(j) BY <1>4, <2>3, <1>a DEF Claim
  <2> QED BY <2>2, <2>3
<1>5. ASSUME NEW w \in Workers, NEW j \in Jobs, HandlerReturns(w, j)
      PROVE  \A i \in Jobs : Writes(i)
  BY <1>5, <1>a DEF HandlerReturns
<1>6. ASSUME NEW w \in Workers, NEW j \in Jobs, FailSave(w, j) PROVE \A i \in Jobs : Writes(i)
  <2>1. \A i \in Jobs : i # j => row'[i] = row[i] BY <1>6, FailSaves
  <2> QED BY <1>6, <2>1 DEF Writes
<1>7. ASSUME NEW j \in Jobs, Dispatch(j) PROVE \A i \in Jobs : Writes(i)
  <2>1. PICK d \in BOOLEAN : row' = [row EXCEPT ![j] = BlankRow("queued", ~d)]
    BY <1>7 DEF Dispatch
  <2>2. row[j].state = "unsent" BY <1>7 DEF Dispatch
  <2> QED BY <1>0, <2>1, <2>2 DEF Writes
<1>8. ASSUME NEW j \in Jobs, Age(j) \/ BecomeDue(j) PROVE \A i \in Jobs : Writes(i)
  BY <1>8, WritesOne DEF Age, BecomeDue, Writes
<1>9. ASSUME NEW s \in Staff, StaffStep(s) PROVE \A i \in Jobs : Writes(i)
  <2>1. ASSUME NEW j \in Jobs, Load(s, j) PROVE \A i \in Jobs : Writes(i)
    BY <2>1, <1>a DEF Load
  <2>2. CASE RetrySave(s)
    <3>1. PICK j \in Jobs : j = desk[s].job /\ Write(j, Requeued(row[j]))
      BY <1>0, <2>2 DEF RetrySave
    <3> QED BY <2>2, <3>1, WritesOne DEF Writes
  <2>3. CASE RetryRelease(s) \/ Discard(s)
    <3>1. PICK j \in Jobs : j = desk[s].job BY <1>0, <2>3 DEF RetryRelease, Discard
    <3>2. Write(j, Released(row[j])) \/ Write(j, Gone)
      BY <2>3, <3>1 DEF RetryRelease, Discard
    <3> QED BY <3>2, WritesOne DEF Writes
  <2> QED BY <1>9, <2>1, <2>2, <2>3 DEF StaffStep
<1>10. CASE UNCHANGED vars BY <1>10, <1>a DEF vars
<1> QED
  BY <1>1, <1>2, <1>3, <1>4, <1>5, <1>6, <1>7, <1>8, <1>9, <1>10 DEF Next, WorkerStep

\* The three things a step does not do to the tries of a row.
LEMMA StepForward ==
  ASSUME QueueInv, [Next]_vars, NEW j \in Jobs
  PROVE  /\ row'[j].attempts < row[j].attempts =>
              \/ row'[j].state = "gone"
              \/ \E s \in Staff : RetrySave(s)
              \/ \E w \in Workers : FailSave(w, j) /\ j \in overwritten[w]
         /\ \A w \in Workers :
              Failed(j) /\ row[j].by # w /\ row'[j].by = w => j \in overwritten[w]
         /\ \A w \in Workers :
              FailSave(w, j) /\ Present(j) /\ j \notin overwritten[w] =>
                ~Failed(j) /\ row'[j].attempts = row[j].attempts + 1
<1>0. /\ TypeInv /\ row[j] \in Row /\ None \notin Workers
      /\ row[j].state # "queued" => row[j].attempts = 0
      /\ \A w \in Workers : seen[w][j] \in 0..(MaxAttempts - 1)
      /\ \A w \in Workers : InHand(w, j) /\ Present(j) /\ j \notin overwritten[w] =>
           ~row[j].failed /\ row[j].attempts = seen[w][j]
  <2>1. TypeInv BY DEF QueueInv
  <2>2. GoodRow(row[j]) BY <2>1 DEF TypeInv, RowInv
  <2> QED BY <2>1, <2>2, Typed DEF QueueInv, GoodRow, TriesInv, ReadHolds
<1> DEFINE r == row[j]
<1>1. r.attempts \in Int /\ r \in Row BY <1>0 DEF Row
<1>2. ASSUME NEW w \in Workers, FailSave(w, j)
      PROVE  /\ row'[j].by = row[j].by
             /\ Present(j) /\ j \notin overwritten[w] =>
                  ~Failed(j) /\ row'[j].attempts = row[j].attempts + 1
             /\ ~Present(j) => row'[j].attempts = row[j].attempts
  <2>1. InHand(w, j) BY <1>2 DEF FailSave, InHand
  <2>2. /\ Present(j) => row'[j].attempts = seen[w][j] + 1
        /\ \A i \in Jobs : row'[i].by = row[i].by
    BY <1>0, <1>2, FailSaves
  <2>3. ~Present(j) => row' = row BY <1>2 DEF FailSave, Write
  <2> QED BY <1>0, <2>1, <2>2, <2>3 DEF Failed
<1>3. Writes(j) BY <1>0, StepWrites
<1>4. \A w \in Workers :
        FailSave(w, j) /\ Present(j) /\ j \notin overwritten[w] =>
          ~Failed(j) /\ row'[j].attempts = row[j].attempts + 1
  BY <1>2
<1>5. /\ row'[j].attempts < row[j].attempts =>
           \/ row'[j].state = "gone"
           \/ \E s \in Staff : RetrySave(s)
           \/ \E w \in Workers : FailSave(w, j) /\ j \in overwritten[w]
      /\ \A w \in Workers :
           Failed(j) /\ row[j].by # w /\ row'[j].by = w => j \in overwritten[w]
  <2>1. CASE row'[j] = row[j] BY <1>0, <1>1, <2>1
  <2>2. CASE row'[j] \in {Released(r), Aged(r), MadeDue(r), Gone}
    <3> HIDE DEF r
    <3>1. /\ Released(r).attempts = r.attempts /\ Released(r).by = None
          /\ Aged(r).attempts = r.attempts /\ Aged(r).by = r.by
          /\ MadeDue(r).attempts = r.attempts /\ MadeDue(r).by = r.by
          /\ Gone.state = "gone" /\ Gone.by = None
      BY <1>1 DEF Row, Released, Aged, MadeDue, Gone, BlankRow
    <3>2. ~(r.attempts < r.attempts) BY <1>1
    <3> QED BY <1>0, <2>2, <3>1, <3>2 DEF r
  <2>3. CASE row'[j] = Requeued(r) /\ \E s \in Staff : RetrySave(s)
    <3>1. Requeued(r).by = r.by BY <1>1 DEF Row, Requeued
    <3> QED BY <2>3, <3>1
  <2>4. ASSUME NEW v \in Workers, InHand(v, j), row'[j] \in {Stamped(r, v), Taken(r, v)}
        PROVE  /\ ~(row'[j].attempts < row[j].attempts)
               /\ \A w \in Workers :
                    Failed(j) /\ row[j].by # w /\ row'[j].by = w => j \in overwritten[w]
    <3>1. /\ Stamped(r, v).attempts = r.attempts /\ Taken(r, v).attempts = r.attempts
          /\ Stamped(r, v).by = v /\ Taken(r, v).by = v
      <4> HIDE DEF r
      <4> QED BY <1>1 DEF Row, Stamped, Taken
    <3>2. row'[j].by = v /\ row'[j].attempts = row[j].attempts BY <2>4, <3>1
    <3>3. Failed(j) => j \in overwritten[v] BY <1>0, <2>4 DEF Failed
    <3> QED BY <1>1, <3>2, <3>3
  <2>5. ASSUME NEW v \in Workers, FailSave(v, j)
        PROVE  /\ row'[j].attempts < row[j].attempts => j \in overwritten[v]
               /\ row'[j].by = row[j].by
    BY <1>1, <1>2, <2>5
  <2>6. CASE row[j].state = "unsent" /\ \E due \in BOOLEAN : row'[j] = BlankRow("queued", due)
    <3>1. row'[j].attempts = 0 /\ row'[j].by = None BY <2>6 DEF BlankRow
    <3> QED BY <1>0, <2>6, <3>1
  <2> QED BY <1>3, <2>1, <2>2, <2>3, <2>4, <2>5, <2>6 DEF Writes
<1> QED BY <1>4, <1>5

\* Several workers on one table, for every pattern of kills, overruns and staff:
\* a job that one works on is taken by another only after a release under its
\* holder; a failed try adds one to the count, a count goes down and a failed job
\* is taken only on a read that somebody has overwritten (QueueService.claim,
\* fail and reclaimExpired).
THEOREM SwapAndCountAlwaysHold == Spec => SwapAndCountHold
<1>1. QueueInv /\ [Next]_vars =>
        [\A v, w \in Workers, j \in Jobs :
           v # w /\ Works(v, j) /\ ~Works(w, j) /\ Works(w, j)' => j \in undercut[v]]_vars
  BY StepApartInv DEF QueueInv, TakesFree
<1>2. QueueInv /\ [Next]_vars =>
        [\A w \in Workers, j \in Jobs :
           FailSave(w, j) /\ Present(j) /\ j \notin overwritten[w] =>
             ~Failed(j) /\ row'[j].attempts = row[j].attempts + 1]_vars
  BY StepForward
<1>3. QueueInv /\ [Next]_vars =>
        [\A j \in Jobs : row'[j].attempts < row[j].attempts =>
           \/ row'[j].state = "gone"
           \/ \E s \in Staff : RetrySave(s)
           \/ \E w \in Workers : FailSave(w, j) /\ j \in overwritten[w]]_vars
  BY StepForward
<1>4. QueueInv /\ [Next]_vars =>
        [\A j \in Jobs, w \in Workers :
           Failed(j) /\ row[j].by # w /\ row'[j].by = w => j \in overwritten[w]]_vars
  BY StepForward
<1>5. Spec => TakenOnlyWhenFree BY <1>1, QueueInvHolds, PTL DEF Spec, TakenOnlyWhenFree
<1>6. Spec => EveryTryCounts BY <1>2, QueueInvHolds, PTL DEF Spec, EveryTryCounts
<1>7. Spec => AttemptsOnlyGrow BY <1>3, QueueInvHolds, PTL DEF Spec, AttemptsOnlyGrow
<1>8. Spec => FailedNeverReserved BY <1>4, QueueInvHolds, PTL DEF Spec, FailedNeverReserved
<1> QED BY <1>5, <1>6, <1>7, <1>8 DEF SwapAndCountHold
=============================================================================
