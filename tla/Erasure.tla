------------------------------ MODULE Erasure ------------------------------
(***************************************************************************)
(* Deleting accounts on request: deletion_service.ts, its job and the      *)
(* screens of the person and of staff. A request is a row that people,     *)
(* staff and runs of the deletion each load, look at and write back        *)
(* without a condition; the deletion itself is one transaction under the   *)
(* lock of the workspace row, run at once by the request that approves it  *)
(* and again by a queued job. Which try of the job is its last is for the  *)
(* queue to say, so any may be.                                            *)
(***************************************************************************)
EXTENDS Integers, FiniteSets

CONSTANTS
  People, Founder,  \* accounts of one workspace, and who registered it
  Passwords,        \* of them, those that confirm with a password
  MaxRequests,      \* deletion requests, numbered as they are made
  Procs, Does,      \* requests and jobs, and what each of them does
  CrashPoints,      \* where one may be killed
  MaxFaults,        \* kills and transactions that throw
  None

Kinds == {"cancel", "approve", "reject", "retry", "start", "job"}
Body == {"user", "begin", "erase", "complete", "tell"}  \* of a run
Ids == 1..MaxRequests

ASSUME ErasureAssumption ==
  /\ Founder \in People /\ Passwords \subseteq People
  /\ MaxRequests \in Nat /\ MaxFaults \in Nat
  /\ Does \in [Procs -> SUBSET Kinds]
  /\ CrashPoints \subseteq Body
  /\ None \notin People /\ None \notin Ids

VARIABLES
  live,        \* accounts that are not deleted
  joined,      \* accounts that ever were
  owner,       \* whose role is owner
  work,        \* are the workspace's lists, todos and files there?
  asked,       \* rows: whose account each request is to delete
  status,      \*   and how far it is
  note,        \*   and whether it keeps the address for the goodbye
  jobs,        \* process_privacy_deletion jobs that are due
  at, about,   \* where each process is, and the request or person it is about
  mem,         \* what it has loaded: the request, the user, the workspace
  faults,
  confirmed, approved,  \* history of requests: by the person, and by staff
  owners,      \* history: who ever was the owner
  erasedBy,    \* history: the request that first erased each account
  overlapped,  \* history: requests that two runs had in hand at once
  told,        \* history: who has been mailed about it
  cut          \* history: requests whose goodbye a kill may have taken along

workspace == <<live, joined, owner, work>>
rows == <<asked, status, note>>
history == <<confirmed, approved, owners, erasedBy, overlapped, told, cut>>
vars == <<workspace, rows, jobs, at, about, mem, faults, history>>

made == {r \in Ids : asked[r] # None}
erased == {u \in People : erasedBy[u] # None}
Active == {"requested", "confirmed", "approved", "processing"}
InProgress(u) == {r \in made : asked[r] = u /\ status[r] \in Active}

Blank == [status |-> "none", kept |-> FALSE, address |-> FALSE, owner |-> FALSE,
          job |-> FALSE, goodbye |-> {}]

Init ==
  /\ live = {Founder} /\ joined = {Founder} /\ owner = Founder /\ work = TRUE
  /\ asked = [r \in Ids |-> None]
  /\ status = [r \in Ids |-> "none"]
  /\ note = [r \in Ids |-> FALSE]
  /\ jobs = [r \in Ids |-> 0]
  /\ at = [p \in Procs |-> "idle"] /\ about = [p \in Procs |-> None]
  /\ mem = [p \in Procs |-> Blank]
  /\ faults = 0
  /\ confirmed = {} /\ approved = {} /\ owners = {Founder}
  /\ erasedBy = [u \in People |-> None]
  /\ overlapped = {} /\ told = {} /\ cut = {}

Ends(p) ==
  /\ at' = [at EXCEPT ![p] = "idle"]
  /\ about' = [about EXCEPT ![p] = None]
  /\ mem' = [mem EXCEPT ![p] = Blank]

Loads(p, kind, x, m) ==
  /\ at[p] = "idle" /\ kind \in Does[p]
  /\ at' = [at EXCEPT ![p] = kind]
  /\ about' = [about EXCEPT ![p] = x]
  /\ mem' = [mem EXCEPT ![p] = m]

\* An update statement names the row by its id alone.
Writes(r, new) == status' = [status EXCEPT ![r] = new]

-----------------------------------------------------------------------------
(* The person asks, follows the link, changes their mind.                  *)

\* Under the lock of the user row: one request in progress per person.
Ask(u, r) ==
  /\ u \in live /\ InProgress(u) = {}
  /\ r = Cardinality(made) + 1
  /\ asked' = [asked EXCEPT ![r] = u]
  /\ Writes(r, IF u \in Passwords THEN "confirmed" ELSE "requested")
  /\ confirmed' = IF u \in Passwords THEN confirmed \cup {r} ELSE confirmed
  /\ UNCHANGED <<workspace, note, jobs, at, about, mem, faults, approved,
                 owners, erasedBy, overlapped, told, cut>>

\* Locked while it is read and written; a link that lapses is not followed.
Confirm(r) ==
  /\ status[r] = "requested"
  /\ Writes(r, "confirmed")
  /\ confirmed' = confirmed \cup {r}
  /\ UNCHANGED <<workspace, asked, note, jobs, at, about, mem, faults, approved,
                 owners, erasedBy, overlapped, told, cut>>

StartCancel(p, r) ==
  /\ status[r] \in {"requested", "confirmed"} /\ asked[r] \in live
  /\ Loads(p, "cancel", r, Blank)
  /\ UNCHANGED <<workspace, rows, jobs, faults, history>>

StartReject(p, r) ==
  /\ status[r] \in {"requested", "confirmed"}
  /\ Loads(p, "reject", r, Blank)
  /\ UNCHANGED <<workspace, rows, jobs, faults, history>>

\* Cancelled and rejected are alike to everything that reads the row.
Withdraw(p) ==
  /\ at[p] \in {"cancel", "reject"}
  /\ Writes(about[p], "withdrawn")
  /\ Ends(p)
  /\ UNCHANGED <<workspace, asked, note, jobs, faults, history>>

-----------------------------------------------------------------------------
(* Staff: the status they decide on is the one their page loaded. What     *)
(* they approve is queued, and run at once.                                *)

RetriesAnything(r) == status[r] \in {"requested", "failed"}            \* mutant
MayRetry(r) == status[r] = "failed"

StartApprove(p, r) ==
  /\ status[r] = "confirmed"
  /\ Loads(p, "approve", r, Blank)
  /\ UNCHANGED <<workspace, rows, jobs, faults, history>>

StartRetry(p, r) ==
  /\ MayRetry(r)
  /\ Loads(p, "retry", r, Blank)
  /\ UNCHANGED <<workspace, rows, jobs, faults, history>>

Queued(r) == jobs' = [jobs EXCEPT ![r] = @ + 1]
RunsNow(p, r) ==
  /\ at' = [at EXCEPT ![p] = "find"]
  /\ about' = [about EXCEPT ![p] = r]
  /\ UNCHANGED mem

Approve(p) ==
  /\ at[p] \in {"approve", "retry"}
  /\ Writes(about[p], "approved")
  /\ approved' = IF at[p] = "approve" THEN approved \cup {about[p]} ELSE approved
  /\ Queued(about[p])
  /\ RunsNow(p, about[p])
  /\ UNCHANGED <<workspace, asked, note, faults, confirmed, owners,
                 erasedBy, overlapped, told, cut>>

\* On the person's behalf, by typing their address: loaded, then created under
\* the lock of the user row.
StartOnBehalf(p, u) ==
  /\ u \in live
  /\ Loads(p, "start", u, Blank)
  /\ UNCHANGED <<workspace, rows, jobs, faults, history>>

OnBehalf(p, r) ==
  /\ at[p] = "start" /\ InProgress(about[p]) = {}
  /\ r = Cardinality(made) + 1
  /\ asked' = [asked EXCEPT ![r] = about[p]]
  /\ Writes(r, "approved")
  /\ confirmed' = confirmed \cup {r} /\ approved' = approved \cup {r}
  /\ Queued(r)
  /\ RunsNow(p, r)
  /\ UNCHANGED <<workspace, note, faults, owners, erasedBy, overlapped, told, cut>>

\* MaxRequests bounds the rows there is room for.
Refused(p) ==
  /\ at[p] = "start" /\ (InProgress(about[p]) # {} \/ made = Ids)
  /\ Ends(p)
  /\ UNCHANGED <<workspace, rows, jobs, faults, history>>

-----------------------------------------------------------------------------
(* process(): the body of the job, and of the run at once.                 *)

StartJob(p, r) ==
  /\ jobs[r] > 0
  /\ at[p] = "idle" /\ "job" \in Does[p]
  /\ jobs' = [jobs EXCEPT ![r] = @ - 1]
  /\ at' = [at EXCEPT ![p] = "find"]
  /\ about' = [about EXCEPT ![p] = r]
  /\ mem' = [mem EXCEPT ![p].job = TRUE]
  /\ UNCHANGED <<workspace, rows, faults, history>>

OnlyApproved == {"approved"}                                           \* mutant
Runnable == {"approved", "processing"}
Running(r) == {p \in Procs : about[p] = r /\ at[p] \in Body}

Find(p) ==
  /\ at[p] = "find" /\ status[about[p]] \in Runnable
  /\ LET r == about[p] IN
     /\ mem' = [mem EXCEPT ![p].status = status[r], ![p].kept = note[r]]
     /\ overlapped' = IF Running(r) = {} THEN overlapped ELSE overlapped \cup {r}
  /\ at' = [at EXCEPT ![p] = "user"]
  /\ UNCHANGED <<workspace, rows, jobs, about, faults, confirmed, approved,
                 owners, erasedBy, told, cut>>

\* Already done, given up or withdrawn: nothing to do.
Skip(p) ==
  /\ at[p] = "find" /\ status[about[p]] \notin Runnable
  /\ Ends(p)
  /\ UNCHANGED <<workspace, rows, jobs, faults, history>>

\* The user row: is the address still theirs, and do they own the workspace?
LoadUser(p) ==
  /\ at[p] = "user"
  /\ LET u == asked[about[p]] IN
     mem' = [mem EXCEPT ![p].address = u \notin erased, ![p].owner = u = owner]
  /\ at' = [at EXCEPT ![p] = "begin"]
  /\ UNCHANGED <<workspace, rows, jobs, about, faults, history>>

\* Lucid writes a column only if it differs from what was loaded.
Begin(p) ==
  /\ at[p] = "begin"
  /\ IF mem[p].status = "processing" THEN UNCHANGED status
     ELSE Writes(about[p], "processing")
  /\ at' = [at EXCEPT ![p] = "erase"]
  /\ UNCHANGED <<workspace, asked, note, jobs, about, mem, faults, history>>

OnlyFromTheUser(p) == mem[p].address                                   \* mutant
KnowsAddress(p) == mem[p].kept \/ mem[p].address

HonoursAll(others) == {q \in made : status[q] \in {"requested", "confirmed"}}  \* mutant
Honoured(others) == {q \in made : /\ asked[q] \in others
                                  /\ status[q] \in {"requested", "confirmed"}}

OnlyTheUser(u, others) == {u}                                          \* mutant
Gone(u, others) == others \cup {u}

\* The transaction: who else is in the workspace is asked under its lock. An
\* owner takes them along, and the work goes with the last.
Erase(p) ==
  /\ at[p] = "erase"
  /\ LET r == about[p]
         u == asked[r]
         rest == live \ {u}
         others == IF mem[p].owner THEN rest ELSE {}
         gone == Gone(u, others)
         known == KnowsAddress(p)
     IN /\ live' = live \ gone
        /\ work' = (work /\ others = {} /\ rest # {})
        /\ note' = IF known = mem[p].kept THEN note ELSE [note EXCEPT ![r] = known]
        /\ status' = [q \in Ids |-> IF q \in Honoured(others) THEN "completed"
                                    ELSE status[q]]
        /\ erasedBy' = [v \in People |->
             IF v \in gone /\ erasedBy[v] = None THEN r ELSE erasedBy[v]]
        /\ mem' = [mem EXCEPT ![p] = [Blank EXCEPT !.job = mem[p].job,
                                                   !.kept = known, !.goodbye = others]]
  /\ at' = [at EXCEPT ![p] = "complete"]
  /\ UNCHANGED <<joined, owner, asked, jobs, about, faults, confirmed, approved,
                 owners, overlapped, told, cut>>

\* The transaction throws and rolls back: tried again, or given up. A run at
\* once leaves it to the job.
Throw(p) ==
  /\ at[p] = "erase" /\ faults < MaxFaults /\ faults' = faults + 1
  /\ \/ /\ jobs' = IF mem[p].job THEN [jobs EXCEPT ![about[p]] = @ + 1] ELSE jobs
        /\ UNCHANGED status
     \/ /\ mem[p].job /\ Writes(about[p], "failed")
        /\ UNCHANGED jobs
  /\ Ends(p)
  /\ UNCHANGED <<workspace, asked, note, history>>

Complete(p) ==
  /\ at[p] = "complete"
  /\ Writes(about[p], "completed")
  /\ note' = IF mem[p].kept THEN [note EXCEPT ![about[p]] = FALSE] ELSE note
  /\ at' = [at EXCEPT ![p] = "tell"]
  /\ UNCHANGED <<workspace, asked, jobs, about, mem, faults, history>>

Tell(p) ==
  /\ at[p] = "tell"
  /\ told' = told \cup mem[p].goodbye
               \cup (IF mem[p].kept THEN {asked[about[p]]} ELSE {})
  /\ Ends(p)
  /\ UNCHANGED <<workspace, rows, jobs, faults, confirmed, approved,
                 owners, erasedBy, overlapped, cut>>

\* The mail is the run's last act, after the row says it is done. Before that
\* the row remembers it, to a run that reads the row afterwards.
TakesAlong(p) == at[p] = "tell" \/ (at[p] = "complete" /\ about[p] \in overlapped)

\* A job that is killed is due again, or parked for staff if that was its last
\* try; nothing else is remembered.
Kill(p) ==
  /\ at[p] \in CrashPoints /\ faults < MaxFaults /\ faults' = faults + 1
  /\ \/ mem[p].job /\ jobs' = [jobs EXCEPT ![about[p]] = @ + 1]
     \/ UNCHANGED jobs
  /\ cut' = IF TakesAlong(p) THEN cut \cup {about[p]} ELSE cut
  /\ Ends(p)
  /\ UNCHANGED <<workspace, rows, confirmed, approved, owners, erasedBy, overlapped, told>>

-----------------------------------------------------------------------------
(* Meanwhile people join, leave and hand the workspace over.               *)

Join(u) ==
  /\ u \notin joined /\ live # {}
  /\ joined' = joined \cup {u} /\ live' = live \cup {u}
  /\ UNCHANGED <<owner, work, rows, jobs, at, about, mem, faults, history>>

Leave(u) ==
  /\ u \in live /\ u # owner
  /\ live' = live \ {u}
  /\ UNCHANGED <<joined, owner, work, rows, jobs, at, about, mem, faults, history>>

Transfer(u) ==
  /\ u \in live \ {owner} /\ owner \in live
  /\ owner' = u /\ owners' = owners \cup {u}
  /\ UNCHANGED <<live, joined, work, rows, jobs, at, about, mem, faults, confirmed,
                 approved, erasedBy, overlapped, told, cut>>

Step(p) ==
  \/ Withdraw(p) \/ Approve(p) \/ Refused(p)
  \/ Find(p) \/ Skip(p) \/ LoadUser(p) \/ Begin(p) \/ Erase(p)
  \/ Complete(p) \/ Tell(p) \/ \E r \in Ids : OnBehalf(p, r)

Start(p) ==
  \/ \E r \in made : \/ StartCancel(p, r) \/ StartReject(p, r) \/ StartApprove(p, r)
                     \/ StartRetry(p, r)
  \/ \E u \in People : StartOnBehalf(p, u)

Next ==
  \/ \E p \in Procs : \/ Start(p) \/ Step(p) \/ Throw(p) \/ Kill(p)
                       \/ \E r \in Ids : StartJob(p, r)
  \/ \E u \in People : Join(u) \/ Leave(u) \/ Transfer(u) \/ \E r \in Ids : Ask(u, r)
  \/ \E r \in Ids : Confirm(r)

Spec == Init /\ [][Next]_vars

\* Requests are served to their end, and a worker takes what is queued.
FairSpec ==
  /\ Spec
  /\ \A p \in Procs : WF_vars(Step(p) \/ Throw(p))
  /\ \A r \in Ids : SF_vars(\E p \in Procs : StartJob(p, r))

-----------------------------------------------------------------------------
Statuses == Active \cup {"none", "completed", "failed", "withdrawn"}

\* A request is about somebody who was a member; an erased account is dead.
TypeOK ==
  /\ live \subseteq joined \ erased /\ joined \subseteq People /\ owner \in joined
  /\ work \in BOOLEAN
  /\ asked \in [Ids -> joined \cup {None}] /\ status \in [Ids -> Statuses]
  /\ \A r \in Ids : status[r] = "none" <=> r \notin made
  /\ note \in [Ids -> BOOLEAN] /\ jobs \in [Ids -> Nat]
  /\ at \in [Procs -> Kinds \cup {"idle", "find"} \cup Body]
  /\ about \in [Procs -> Ids \cup People \cup {None}]
  /\ mem \in [Procs -> [status : Statuses, kept : BOOLEAN, address : BOOLEAN,
                        owner : BOOLEAN, job : BOOLEAN, goodbye : SUBSET People]]
  /\ faults \in 0..MaxFaults
  /\ confirmed \subseteq made /\ approved \subseteq made
  /\ overlapped \cup cut \subseteq approved /\ owners \subseteq joined /\ told \subseteq joined

(* Nobody's account is erased but by a request that was confirmed and then *)
(* approved by staff, for them or for somebody who owned the workspace.    *)
ErasedByConsent ==
  \A u \in erased : LET r == erasedBy[u] IN
    r \in confirmed \cap approved /\ (asked[r] = u \/ asked[r] \in owners)

(* A request that says it was honoured was: whatever else ran, failed or   *)
(* was killed, its account is erased.                                      *)
HonouredMeansErased ==
  \A r \in made : status[r] = "completed" => asked[r] \in erased

(* A deletion does what was decided and says what it did.                  *)
ErasedAsDecided == ErasedByConsent /\ HonouredMeansErased

(* A workspace's lists and todos go only with the last of its people: a    *)
(* colleague's work does not vanish because somebody else left.            *)
WorkGoesWithTheLast == [][work /\ ~work' => live' = {}]_vars

(* The address for the goodbye outlives the account: whoever a request     *)
(* erased is told once it is completed and in nobody's hands, run by two   *)
(* at once or killed after it committed. Two kills alone cost them the     *)
(* mail: one after the row says done and before the mail is sent, and one  *)
(* of a run beside another that had read the row before.                   *)
AtRest(r) == \A p \in Procs : about[p] # r
GoodbyeIsSaid ==
  \A r \in made \ cut :
    status[r] = "completed" /\ AtRest(r) /\ erasedBy[asked[r]] = r => asked[r] \in told

(* What staff approve is carried out, given up for staff to see, or was    *)
(* withdrawn at the same time; it is never just left.                      *)
ApprovalTakesEffect ==
  \A r \in Ids : status[r] = "approved" ~>
    asked[r] \in erased \/ status[r] \in {"failed", "withdrawn"}
=============================================================================
