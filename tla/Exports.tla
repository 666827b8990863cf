------------------------------ MODULE Exports ------------------------------
(***************************************************************************)
(* Exports of one person's data (privacy_service.ts): asked for by the     *)
(* person or by staff, built by a queued job and, for staff, at once by    *)
(* the request as well; collected for a while, then purged every hour.     *)
(* The archive and the copy staff read are two objects beside a row that   *)
(* every run loads, looks at and saves. Which try of a job is its last is  *)
(* for the queue to say, so any may be. Mails, the audit trail and the     *)
(* stamp of a download are left out.                                       *)
(***************************************************************************)
EXTENDS Integers, FiniteSets, Lucid

CONSTANTS
  MaxExports,    \* bound on the requests, numbered as they are made
  Builders,      \* requests of staff and jobs under way at once
  BuildersDo,    \* what each of them does
  MaxMishaps,    \* bound on what throws, is refused or is killed
  NoExport

ExportIds == 1..MaxExports
ExportStatuses == {"requested", "processing", "completed", "failed", "expired"}
\* key and lapsed: exportKey is set, and exportExpiresAt is over. again: staff
\* brought it back after it failed.
ExportRow == [staff : BOOLEAN, status : ExportStatuses, key : BOOLEAN,
              lapsed : BOOLEAN, again : BOOLEAN]
LoadedToPurge == [row : ExportRow, step : {"objects", "row"}]

ASSUME ExportsAssumption ==
  /\ MaxExports \in Nat /\ MaxMishaps \in Nat
  /\ NoExport \notin ExportRow /\ NoExport \notin LoadedToPurge
  /\ BuildersDo \in [Builders -> SUBSET {"ask", "retry", "job"}]

VARIABLES
  erasedPerson,   \* the account was deleted
  export,         \* the rows
  stored,         \* the objects of each: the archive, the copy for staff
  exportJobs,     \* generate_privacy_export jobs that are due
  builder,        \* where each request or job is
  purge,          \* rows the hourly purge loaded and has not come to
  mishaps,
  met, parked, refused   \* history of requests: two runs had it in hand at
                         \* once; its job was parked; an object was not deleted

exportVars == <<erasedPerson, export, stored, exportJobs, builder, purge, mishaps,
                met, parked, refused>>

NotBuilding == [step |-> "idle", r |-> 0, job |-> FALSE, loaded |-> NoExport]

ExportsInit ==
  /\ erasedPerson = FALSE
  /\ export = [r \in ExportIds |-> NoExport]
  /\ stored = [r \in ExportIds |-> {}]
  /\ exportJobs = [r \in ExportIds |-> 0]
  /\ builder = [b \in Builders |-> NotBuilding]
  /\ purge = [r \in ExportIds |-> NoExport]
  /\ mishaps = 0 /\ met = {} /\ parked = {} /\ refused = {}

AskedFor == {r \in ExportIds : export[r] # NoExport}
InHand(r) == {b \in Builders : builder[b].r = r /\ builder[b].step # "find"}
isDownloadable(r) == export[r].status = "completed" /\ export[r].key /\ ~export[r].lapsed

BuilderDone(b) == builder' = [builder EXCEPT ![b] = NotBuilding]
SaveExport(b, columns) ==
  export' = [export EXCEPT ![builder[b].r] = Saved(@, builder[b].loaded, columns)]
Mishap == mishaps < MaxMishaps /\ mishaps' = mishaps + 1

-----------------------------------------------------------------------------
(* Asking. Under the lock of the user row: one in progress for the person, *)
(* and one for staff. The job is queued in the same transaction.           *)

ActiveExports(staff) ==
  {r \in AskedFor : export[r].staff = staff /\ export[r].status \in {"requested", "processing"}}

CreateExport(r, staff) ==
  /\ ActiveExports(staff) = {} /\ r = Cardinality(AskedFor) + 1
  /\ export' = [export EXCEPT ![r] =
       [staff |-> staff, status |-> "requested", key |-> FALSE, lapsed |-> FALSE,
        again |-> FALSE]]
  /\ exportJobs' = [exportJobs EXCEPT ![r] = @ + 1]

RequestExport(r) ==
  /\ ~erasedPerson
  /\ CreateExport(r, FALSE)
  /\ UNCHANGED <<erasedPerson, stored, builder, purge, mishaps, met, parked, refused>>

\* Staff build what they ask for, or what was waiting, there and then.
StartExport(b, r) ==
  /\ builder[b] = NotBuilding /\ "ask" \in BuildersDo[b] /\ ~erasedPerson
  /\ \/ CreateExport(r, TRUE)
     \/ r \in ActiveExports(TRUE) /\ UNCHANGED <<export, exportJobs>>
  /\ builder' = [builder EXCEPT ![b].step = "find", ![b].r = r]
  /\ UNCHANGED <<erasedPerson, stored, purge, mishaps, met, parked, refused>>

\* The status is that of the row the request loaded.
StartRetryExport(b, r) ==
  /\ builder[b] = NotBuilding /\ "retry" \in BuildersDo[b] /\ ~erasedPerson
  /\ r \in AskedFor /\ export[r].status = "failed"
  /\ builder' = [builder EXCEPT ![b] =
       [step |-> "retry", r |-> r, job |-> FALSE, loaded |-> export[r]]]
  /\ UNCHANGED <<erasedPerson, export, stored, exportJobs, purge, mishaps, met,
                 parked, refused>>

RetryExport(b) ==
  /\ builder[b].step = "retry"
  /\ SaveExport(b, [status |-> "requested", again |-> TRUE])
  /\ exportJobs' = [exportJobs EXCEPT ![builder[b].r] = @ + 1]
  /\ builder' = [builder EXCEPT ![b].step = "find", ![b].loaded = NoExport]
  /\ UNCHANGED <<erasedPerson, stored, purge, mishaps, met, parked, refused>>

-----------------------------------------------------------------------------
(* generate(): the body of the job, and of the build at once.              *)

StartExportJob(b, r) ==
  /\ exportJobs[r] > 0 /\ builder[b] = NotBuilding /\ "job" \in BuildersDo[b]
  /\ exportJobs' = [exportJobs EXCEPT ![r] = @ - 1]
  /\ builder' = [builder EXCEPT ![b] = [NotBuilding EXCEPT !.step = "find", !.r = r,
                                                           !.job = TRUE]]
  /\ UNCHANGED <<erasedPerson, export, stored, purge, mishaps, met, parked, refused>>

Buildable(status) == status \in {"requested", "processing"}

FindExport(b) ==
  LET r == builder[b].r IN
  /\ builder[b].step = "find"
  /\ IF Buildable(export[r].status)
     THEN /\ builder' = [builder EXCEPT
               ![b].step = IF erasedPerson THEN "giveUp" ELSE "begin",
               ![b].loaded = export[r]]
          /\ met' = IF InHand(r) = {} THEN met ELSE met \cup {r}
     ELSE BuilderDone(b) /\ UNCHANGED met
  /\ UNCHANGED <<erasedPerson, export, stored, exportJobs, purge, mishaps, parked,
                 refused>>

\* The account no longer exists.
GiveUpExport(b) ==
  /\ builder[b].step = "giveUp"
  /\ SaveExport(b, [status |-> "failed"])
  /\ BuilderDone(b)
  /\ UNCHANGED <<erasedPerson, stored, exportJobs, purge, mishaps, met, parked, refused>>

FirstObject(row) == IF row.staff THEN "json" ELSE "zip"

BeginExport(b) ==
  /\ builder[b].step = "begin"
  /\ SaveExport(b, [status |-> "processing"])
  /\ builder' = [builder EXCEPT
       ![b].step = FirstObject(builder[b].loaded),
       ![b].loaded.status = "processing"]
  /\ UNCHANGED <<erasedPerson, stored, exportJobs, purge, mishaps, met, parked, refused>>

\* moveFromTmp, over whatever is under the key already.
PlaceObject(b) ==
  LET object == builder[b].step IN
  /\ object \in {"json", "zip"}
  /\ stored' = [stored EXCEPT ![builder[b].r] = @ \cup {object}]
  /\ builder' = [builder EXCEPT ![b].step = IF object = "json" THEN "zip" ELSE "complete"]
  /\ UNCHANGED <<erasedPerson, export, exportJobs, purge, mishaps, met, parked, refused>>

\* The new expiry differs from any before it.
CompleteExport(b) ==
  LET r == builder[b].r IN
  /\ builder[b].step = "complete"
  /\ export' = [export EXCEPT ![r] =
       [Saved(@, builder[b].loaded, [status |-> "completed", key |-> TRUE])
          EXCEPT !.lapsed = FALSE]]
  /\ BuilderDone(b)
  /\ UNCHANGED <<erasedPerson, stored, exportJobs, purge, mishaps, met, parked, refused>>

\* Building, storing or reading the setting throws. The job is tried again, or
\* marks the request failed on its last try; a build at once leaves it to the job.
FailExport(b) ==
  /\ builder[b].step \in {"json", "zip", "complete"} /\ Mishap
  /\ \/ /\ exportJobs' = IF builder[b].job THEN [exportJobs EXCEPT ![builder[b].r] = @ + 1]
                         ELSE exportJobs
        /\ UNCHANGED export
     \/ builder[b].job /\ SaveExport(b, [status |-> "failed"]) /\ UNCHANGED exportJobs
  /\ BuilderDone(b)
  /\ UNCHANGED <<erasedPerson, stored, purge, met, parked, refused>>

\* A killed job is due again, or parked if that was its last try.
KillBuilder(b) ==
  LET r == builder[b].r IN
  /\ builder[b].step \notin {"idle", "retry"} /\ Mishap
  /\ \/ /\ builder[b].job /\ exportJobs' = [exportJobs EXCEPT ![r] = @ + 1]
        /\ UNCHANGED parked
     \/ /\ parked' = IF builder[b].job THEN parked \cup {r} ELSE parked
        /\ UNCHANGED exportJobs
  /\ BuilderDone(b)
  /\ UNCHANGED <<erasedPerson, export, stored, purge, met, refused>>

-----------------------------------------------------------------------------
(* purgeExpired(), hourly: the rows are loaded at once, then for each its  *)
(* objects are deleted, whatever storage answers, and the row is saved.    *)

AnyCompleted(row) == row.status = "completed"                          \* mutant
Purgeable(row) == row.status = "completed" /\ row.lapsed

StartPurge ==
  /\ \A r \in ExportIds : purge[r] = NoExport
  /\ \E r \in AskedFor : Purgeable(export[r])
  /\ purge' = [r \in ExportIds |-> IF r \in AskedFor /\ Purgeable(export[r])
                                   THEN [row |-> export[r], step |-> "objects"]
                                   ELSE NoExport]
  /\ UNCHANGED <<erasedPerson, export, stored, exportJobs, builder, mishaps, met,
                 parked, refused>>

DeletingObjects(r) == purge[r] # NoExport /\ purge[r].step = "objects"

ObjectsOf(row) == (IF row.key THEN {"zip"} ELSE {}) \cup (IF row.staff THEN {"json"} ELSE {})

PurgeObjects(r) ==
  /\ DeletingObjects(r)
  /\ \/ /\ stored' = [stored EXCEPT ![r] = @ \ ObjectsOf(purge[r].row)]
        /\ UNCHANGED <<mishaps, refused>>
     \/ /\ Mishap /\ refused' = refused \cup {r}
        /\ UNCHANGED stored
  /\ purge' = [purge EXCEPT ![r].step = "row"]
  /\ UNCHANGED <<erasedPerson, export, exportJobs, builder, met, parked>>

PurgeRow(r) ==
  /\ purge[r] # NoExport /\ ~DeletingObjects(r)
  /\ export' = [export EXCEPT ![r] =
       Saved(@, purge[r].row, [status |-> "expired", key |-> FALSE])]
  /\ purge' = [purge EXCEPT ![r] = NoExport]
  /\ UNCHANGED <<erasedPerson, stored, exportJobs, builder, mishaps, met, parked, refused>>

KillPurge ==
  /\ \E r \in ExportIds : purge[r] # NoExport
  /\ Mishap
  /\ purge' = [r \in ExportIds |-> NoExport]
  /\ UNCHANGED <<erasedPerson, export, stored, exportJobs, builder, met, parked, refused>>

\* An hour at the least: longer than a build takes.
Lapse(r) ==
  /\ r \in AskedFor /\ export[r].key /\ ~export[r].lapsed /\ InHand(r) = {}
  /\ export' = [export EXCEPT ![r].lapsed = TRUE]
  /\ UNCHANGED <<erasedPerson, stored, exportJobs, builder, purge, mishaps, met,
                 parked, refused>>

ErasePerson ==
  /\ ~erasedPerson /\ erasedPerson' = TRUE
  /\ UNCHANGED <<export, stored, exportJobs, builder, purge, mishaps, met, parked, refused>>

-----------------------------------------------------------------------------

BuilderStep(b) ==
  \/ RetryExport(b) \/ FindExport(b) \/ GiveUpExport(b) \/ BeginExport(b)
  \/ PlaceObject(b) \/ CompleteExport(b)
PurgeStep(r) == PurgeObjects(r) \/ PurgeRow(r)

ExportsNext ==
  \/ \E b \in Builders :
       \/ BuilderStep(b) \/ FailExport(b) \/ KillBuilder(b)
       \/ \E r \in ExportIds : StartExport(b, r) \/ StartRetryExport(b, r)
                                 \/ StartExportJob(b, r)
  \/ \E r \in ExportIds : RequestExport(r) \/ PurgeStep(r) \/ Lapse(r)
  \/ StartPurge \/ KillPurge \/ ErasePerson

ExportsSpec == ExportsInit /\ [][ExportsNext]_exportVars

-----------------------------------------------------------------------------

\* A request has objects only once it is there, a copy for staff only if staff
\* asked for it, and history is about requests (privacy_requests).
ExportTypeOK ==
  /\ erasedPerson \in BOOLEAN /\ mishaps \in 0..MaxMishaps
  /\ \A r \in ExportIds : export[r] \in IF r \in AskedFor THEN ExportRow ELSE {NoExport}
  /\ \A r \in ExportIds \ AskedFor : stored[r] = {} /\ exportJobs[r] = 0
  /\ \A r \in AskedFor : "json" \in stored[r] => export[r].staff
  /\ met \cup parked \cup refused \subseteq AskedFor

\* What can be downloaded is there, the archive and for staff its copy too,
\* through builds over the same key, failures and purges (isDownloadable).
DownloadsWork ==
  \A r \in AskedFor : isDownloadable(r) =>
    "zip" \in stored[r] /\ (export[r].staff => "json" \in stored[r])

\* "At most one is in progress per person", counted apart for staff, unless
\* staff brought back one that had failed or two runs had one in hand at once
\* (requestExport, retryExport).
OneInProgress ==
  \A r, u \in AskedFor :
    (/\ r # u /\ export[r].staff = export[u].staff
     /\ Buildable(export[r].status) /\ Buildable(export[u].status)) =>
      export[r].again \/ export[u].again \/ r \in met \/ u \in met

\* Nothing is left of an export that has expired, unless storage refused to
\* delete it, however many runs had it in hand before (purgeExpired).
ExpiredMeansGone ==
  \A r \in AskedFor : export[r].status = "expired" /\ stored[r] # {} => r \in refused

\* "The queued job stays as the safety net: if this attempt throws, the job
\* builds it again": nobody waits in vain for an export. What is asked for or
\* being processed has a job behind it, due or at work, or one that was parked
\* for staff, unless two runs had it in hand at once (generateNow, retryExport).
SomethingIsBehindIt ==
  \A r \in AskedFor : Buildable(export[r].status) =>
    \/ exportJobs[r] > 0 \/ r \in parked \cup met
    \/ \E b \in Builders : builder[b].r = r /\ builder[b].job

\* What exports promise, at any moment (privacy_service.ts).
ExportsSafe ==
  ExportTypeOK /\ DownloadsWork /\ OneInProgress /\ ExpiredMeansGone /\ SomethingIsBehindIt
=============================================================================
