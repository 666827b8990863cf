------------------------------- MODULE Files -------------------------------
(***************************************************************************)
(* The files of one workspace: rows and a byte counter in the database,    *)
(* objects in the bucket, and no transaction across the two                *)
(* (file_service.ts, purge_deleted_files_job.ts). Every transaction on the *)
(* rows begins by locking the workspace row, so it is one step; requests   *)
(* overlap between their steps, are killed between them, and the bucket    *)
(* may refuse.                                                             *)
(***************************************************************************)
EXTENDS Integers, FiniteSets

CONSTANTS
  Uploads,          \* uploads; each is a row and the object under its fresh key
  Size,         \* in bytes
  Attachments,  \* of them, sent with a support ticket: skipQuota
  Quotas,       \* storage limits the plan or staff may set, in bytes
  Requests, RequestsDo,  \* requests and jobs, and what each of them does
  MaxFaults,    \* kills and refusals of the bucket in a behaviour
  NoFile

FileKinds == {"upload", "avatar", "logo", "delete", "purge"}

ASSUME FilesAssumption ==
  /\ Size \in [Uploads -> Nat \ {0}] /\ Attachments \subseteq Uploads
  /\ Quotas \subseteq Nat /\ Quotas # {}
  /\ RequestsDo \in [Requests -> SUBSET FileKinds]
  /\ MaxFaults \in Nat /\ NoFile \notin Uploads

VARIABLES
  begun,     \* uploads that were ever started; keys are not used twice
  fileRows,  \* files rows
  binned,    \* of them, deleted_at is set
  lapsed,    \* of them, for longer than RETENTION_DAYS
  pictures,  \* rows attached as the avatar, and as the logo
  used,      \* organizations.storage_used_bytes
  twice,     \* bytes given back for files that were deleted already
  quota,     \* the storageMb limit
  objects,   \* what the bucket holds
  left,      \* objects a kill or a refusal of the bucket left behind
  faults,
  stage, purpose, \* where each request is, and what it is
  file,      \* the upload it is about
  old,       \* files it still has to retire or purge
  loaded, believed \* storage_used_bytes as its organization instance has it

fileTables == <<fileRows, binned, lapsed, pictures, used, twice>>
bucket == <<objects, left>>
filesInHand == <<purpose, file, old, loaded, believed>>
filesVars == <<begun, fileTables, quota, bucket, faults, stage, filesInHand>>

liveFiles == fileRows \ binned
InFlight(f) == \E p \in Requests : file[p] = f

FilesInit ==
  /\ begun = {} /\ fileRows = {} /\ binned = {} /\ lapsed = {}
  /\ pictures = [k \in {"avatar", "logo"} |-> {}]
  /\ used = 0 /\ twice = 0 /\ quota \in Quotas
  /\ objects = {} /\ left = {} /\ faults = 0
  /\ stage = [p \in Requests |-> "idle"]
  /\ purpose = [p \in Requests |-> "none"]
  /\ file = [p \in Requests |-> NoFile]
  /\ old = [p \in Requests |-> {}]
  /\ loaded = [p \in Requests |-> 0] /\ believed = [p \in Requests |-> 0]

Served(p) ==
  /\ stage' = [stage EXCEPT ![p] = "idle"]
  /\ purpose' = [purpose EXCEPT ![p] = "none"]
  /\ file' = [file EXCEPT ![p] = NoFile]
  /\ old' = [old EXCEPT ![p] = {}]
  /\ loaded' = [loaded EXCEPT ![p] = 0]
  /\ believed' = [believed EXCEPT ![p] = 0]

\* What the instance holds is kept here only for the one request that saves it
\* again.
Receives(p, k, f, olds, first) ==
  /\ stage[p] = "idle" /\ k \in RequestsDo[p]
  /\ purpose' = [purpose EXCEPT ![p] = k]
  /\ file' = [file EXCEPT ![p] = f]
  /\ old' = [old EXCEPT ![p] = olds]
  /\ LET counter == IF k = "logo" THEN used ELSE 0
     IN /\ loaded' = [loaded EXCEPT ![p] = counter]
        /\ believed' = [believed EXCEPT ![p] = counter]
  /\ stage' = [stage EXCEPT ![p] = first]

Proceeds(p, place) == stage' = [stage EXCEPT ![p] = place]

-----------------------------------------------------------------------------
(* Uploading: validate, put the object, then one transaction for the row   *)
(* and the counter.                                                        *)

WithinLimit(f) == used + Size[f] <= quota

\* assertStorageWithinLimit on the row as the request loaded it.
StartUpload(p, f, k) ==
  /\ f \in Uploads \ begun
  /\ f \in Attachments \/ WithinLimit(f)
  /\ f \in Attachments => k = "upload"
  /\ begun' = begun \cup {f}
  /\ Receives(p, k, f, IF k = "upload" THEN {} ELSE pictures[k] \cap liveFiles, "put")
  /\ UNCHANGED <<fileTables, quota, bucket, faults>>

PutObject(p) ==
  /\ stage[p] = "put"
  /\ objects' = objects \cup {file[p]}
  /\ Proceeds(p, "record")
  /\ UNCHANGED <<begun, fileTables, quota, left, faults, filesInHand>>

\* The same question again, now that the workspace row is locked.
NotAskedAgain(f) == TRUE                                               \* mutant
StillFits(f) == f \in Attachments \/ WithinLimit(f)

Record(p) ==
  /\ stage[p] = "record"
  /\ IF StillFits(file[p])
     THEN /\ fileRows' = fileRows \cup {file[p]}
          /\ used' = used + Size[file[p]]
          /\ IF purpose[p] = "upload"
             THEN Served(p) /\ UNCHANGED pictures
             ELSE /\ pictures' = [pictures EXCEPT ![purpose[p]] = @ \cup {file[p]}]
                  /\ believed' = IF purpose[p] = "logo"
                                 THEN [believed EXCEPT ![p] = used'] ELSE believed
                  /\ Proceeds(p, "retire")
                  /\ UNCHANGED <<purpose, file, old, loaded>>
     ELSE Proceeds(p, "cleanup") /\ UNCHANGED <<fileRows, used, pictures, filesInHand>>
  /\ UNCHANGED <<begun, binned, lapsed, twice, quota, bucket, faults>>

\* A refusal that cannot be cleaned up is logged, and the object stays.
ForgetsObject(p) == objects                                            \* mutant
WithoutObject(p) == objects \ {file[p]}

CleanUp(p) ==
  /\ stage[p] = "cleanup"
  /\ \/ objects' = WithoutObject(p) /\ UNCHANGED <<left, faults>>
     \/ /\ faults < MaxFaults /\ faults' = faults + 1
        /\ left' = left \cup {file[p]}
        /\ UNCHANGED objects
  /\ Served(p)
  /\ UNCHANGED <<begun, fileTables, quota>>

-----------------------------------------------------------------------------
(* Deleting, by a request or as the replaced picture.                      *)

GivenBack(f) == IF used > Size[f] THEN used - Size[f] ELSE 0

\* FileService.delete
SoftDelete(f) ==
  /\ binned' = IF f \in fileRows THEN binned \cup {f} ELSE binned
  /\ used' = GivenBack(f)
  /\ twice' = IF f \in liveFiles THEN twice ELSE twice + Size[f]
  /\ UNCHANGED <<fileRows, lapsed, pictures>>

StartDestroy(p, f) ==
  /\ f \in liveFiles
  /\ Receives(p, "delete", f, {}, "delete")
  /\ UNCHANGED <<begun, fileTables, quota, bucket, faults>>

Delete(p) ==
  /\ stage[p] = "delete"
  /\ SoftDelete(file[p])
  /\ Served(p)
  /\ UNCHANGED <<begun, quota, bucket, faults>>

Retire(p, f) ==
  /\ stage[p] = "retire" /\ f \in old[p]
  /\ SoftDelete(f)
  /\ old' = [old EXCEPT ![p] = @ \ {f}]
  /\ UNCHANGED <<begun, quota, bucket, faults, stage, purpose, file, loaded, believed>>

\* The avatar's key goes to the user row. A picture that is no image is
\* refused here, when it has already replaced the old one.
SaveAvatar(p) ==
  /\ stage[p] = "retire" /\ old[p] = {} /\ purpose[p] = "avatar"
  /\ Served(p)
  /\ UNCHANGED <<begun, fileTables, quota, bucket, faults>>

\* The logo's key goes to the workspace row, by the instance the upload left
\* its counter in: save writes every column that differs from what was loaded.
SaveLogo(p) ==
  /\ stage[p] = "retire" /\ old[p] = {} /\ purpose[p] = "logo"
  /\ used' = IF believed[p] # loaded[p] THEN believed[p] ELSE used
  /\ Served(p)
  /\ UNCHANGED <<begun, fileRows, binned, lapsed, pictures, twice, quota, bucket, faults>>

-----------------------------------------------------------------------------
(* The nightly purge: the object, then the row.                            *)

NoneYet == {}                                                          \* mutant
Expired == lapsed

StartPurge(p) ==
  /\ Expired # {}
  /\ Receives(p, "purge", NoFile, Expired, "purge")
  /\ UNCHANGED <<begun, fileTables, quota, bucket, faults>>

\* An object that is gone already is deleted without an error.
PurgeObject(p, f) ==
  /\ stage[p] = "purge" /\ f \in old[p]
  /\ objects' = objects \ {f}
  /\ old' = [old EXCEPT ![p] = @ \ {f}]
  /\ file' = [file EXCEPT ![p] = f]
  /\ Proceeds(p, "purge row")
  /\ UNCHANGED <<begun, fileTables, quota, left, faults, purpose, loaded, believed>>

PurgeRefused(p, f) ==
  /\ stage[p] = "purge" /\ f \in old[p]
  /\ faults < MaxFaults /\ faults' = faults + 1
  /\ old' = [old EXCEPT ![p] = @ \ {f}]
  /\ UNCHANGED <<begun, fileTables, quota, bucket, stage, purpose, file, loaded, believed>>

PurgeRow(p) ==
  /\ stage[p] = "purge row"
  /\ fileRows' = fileRows \ {file[p]}
  /\ binned' = binned \ {file[p]} /\ lapsed' = lapsed \ {file[p]}
  /\ pictures' = [k \in DOMAIN pictures |-> pictures[k] \ {file[p]}]
  /\ file' = [file EXCEPT ![p] = NoFile]
  /\ Proceeds(p, "purge")
  /\ UNCHANGED <<begun, used, twice, quota, bucket, faults, purpose, old, loaded, believed>>

PurgeDone(p) ==
  /\ stage[p] = "purge" /\ old[p] = {}
  /\ Served(p)
  /\ UNCHANGED <<begun, fileTables, quota, bucket, faults>>

-----------------------------------------------------------------------------
(* The world.                                                              *)

\* Thirty days pass.
Lapse(f) ==
  /\ f \in binned \ lapsed
  /\ lapsed' = lapsed \cup {f}
  /\ UNCHANGED <<begun, fileRows, binned, pictures, used, twice, quota, bucket, faults, stage, filesInHand>>

SetQuota(n) ==
  /\ n # quota /\ quota' = n
  /\ UNCHANGED <<begun, fileTables, bucket, faults, stage, filesInHand>>

\* A process is killed: its transaction is rolled back, its object is not.
KillRequest(p) ==
  /\ stage[p] # "idle" /\ faults < MaxFaults /\ faults' = faults + 1
  /\ left' = IF stage[p] \in {"record", "cleanup"} THEN left \cup {file[p]} ELSE left
  /\ Served(p)
  /\ UNCHANGED <<begun, fileTables, quota, objects>>

ServeStep(p) ==
  \/ PutObject(p) \/ Record(p) \/ CleanUp(p) \/ Delete(p) \/ SaveAvatar(p)
  \/ PurgeRow(p) \/ PurgeDone(p)
  \/ \E f \in Uploads : Retire(p, f) \/ PurgeObject(p, f)

Receive(p) ==
  \/ \E f \in Uploads : \E k \in {"upload", "avatar", "logo"} : StartUpload(p, f, k)
  \/ \E f \in Uploads : StartDestroy(p, f)
  \/ StartPurge(p)

FilesNext ==
  \/ \E p \in Requests : Receive(p) \/ ServeStep(p) \/ KillRequest(p) \/ \E f \in Uploads : PurgeRefused(p, f)
  \/ \E f \in Uploads : Lapse(f)
  \/ \E n \in Quotas : SetQuota(n)

FilesSpec == FilesInit /\ [][FilesNext]_filesVars

\* Requests are served to their end, and the purge runs every night.
FilesFairness ==
  /\ \A p \in Requests : WF_filesVars(ServeStep(p))
  /\ WF_filesVars(\E p \in Requests : StartPurge(p))

-----------------------------------------------------------------------------
(* A row is deleted before it lapses, a picture is a row, a counter is not *)
(* negative (file_service.ts:202).                                         *)
FilesTypeOK ==
  /\ begun \subseteq Uploads /\ fileRows \subseteq begun
  /\ binned \subseteq fileRows /\ lapsed \subseteq binned
  /\ pictures \in [{"avatar", "logo"} -> SUBSET fileRows]
  /\ used \in Nat /\ twice \in Nat /\ quota \in Quotas
  /\ objects \subseteq begun /\ left \subseteq begun
  /\ faults \in 0..MaxFaults
  /\ stage \in [Requests -> {"idle", "put", "record", "cleanup", "retire", "delete",
                       "purge", "purge row"}]
  /\ purpose \in [Requests -> FileKinds \cup {"none"}]
  /\ file \in [Requests -> Uploads \cup {NoFile}] /\ old \in [Requests -> SUBSET Uploads]
  /\ loaded \in [Requests -> Nat] /\ believed \in [Requests -> Nat]

(* A file the product believes it has can be read, and one deleted by      *)
(* mistake can be brought back for thirty days: its object is there,       *)
(* whatever is killed, refused or purged at the same time.                 *)
RowsHaveObjects == fileRows \ lapsed \subseteq objects

(* Nothing is stored that nobody is accounted for, except what a kill or a *)
(* bucket that refused has left behind for the nightly report to find.     *)
NothingUnclaimed ==
  \A f \in objects \ fileRows : f \in left \/ InFlight(f)

(* Rows and bucket tell one story, at any moment, although no transaction  *)
(* spans both (upload, purge).                                             *)
BucketMatchesRows == FilesTypeOK /\ RowsHaveObjects /\ NothingUnclaimed

(* The counter keeps the promise of a plan limit: it moves in the          *)
(* transaction that moves a row and no upload takes it past the limit.     *)
Ledger == INSTANCE Meter WITH Items <- Uploads, Weight <- Size, Exempt <- Attachments,
            Limits <- Quotas, items <- liveFiles, meter <- used, limit <- quota
KeepsLedger == Ledger!Spec

(* Whatever is deleted at once, the counter never claims more than is      *)
(* stored, nor less by more than was given back twice (delete)...          *)
Bytes(S) == UNION {{f} \X (1..Size[f]) : f \in S}
stored == Cardinality(Bytes(liveFiles))
CounterTrails == used <= stored /\ stored <= used + twice

(* ... no upload passes the limit in force by more than that either ...    *)
OverrunBounded ==
  [][\A f \in liveFiles' \ liveFiles : f \in Attachments \/ stored' <= quota + twice]_filesVars

(* ... and until something is given back twice, the promise is kept.       *)
LedgerUnlessTwice ==
  Ledger!Init /\ [][Ledger!Next \/ twice' > 0]_<<liveFiles, used, quota>>

LedgerHolds == []CounterTrails /\ OverrunBounded /\ LedgerUnlessTwice

(* What was deleted is gone for good some night after its thirty days.     *)
EventuallyPurged == \A f \in Uploads : f \in lapsed ~> f \notin fileRows \cup objects
=============================================================================
