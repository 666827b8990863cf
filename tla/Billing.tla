------------------------------ MODULE Billing ------------------------------
(***************************************************************************)
(* One workspace, its subscriptions at the payment provider, and the copy  *)
(* of them this application keeps: the webhook endpoint and its ledger,    *)
(* ProcessWebhookJob and webhook_handler.ts, the nightly reconciliation,   *)
(* and what staff can do from the back office (replay, sync, suspend,      *)
(* override). The queue is taken from its own model at what it promises:   *)
(* a job runs at least once, until it succeeds or its tries run out.       *)
(*                                                                         *)
(* A tick of the clock is more than the second by which the out-of-order   *)
(* guard is slack, so "older than the watermark, less a second" is "in an  *)
(* earlier tick". The columns of a subscription no property tells apart    *)
(* (period, trial and cancellation dates) are one column, "period": the    *)
(* number of the provider state they were copied from.                     *)
(***************************************************************************)
EXTENDS Integers, Sequences, FiniteSets

CONSTANTS
  Subs,          \* the provider's subscription ids
  Plans,         \* paid plan keys
  Products,      \* what an event's product id maps to; None is not in config
  Statuses,      \* of a subscription at the provider
  Workers,       \* handlers run by the queue
  Staff,         \* back-office requests
  Chores,        \* what Staff do, of "replay", "sync", "suspend", "override"
  Nightly,       \* does sync_billing run?
  Slack,         \* may two states of a subscription lie within one tick?
  Tags,          \* may an event carry the workspace's public id, or lack it?
  CrashPoints,   \* where a worker may be killed
  Flaky,         \* where a database statement may throw
  MaxEvents,     \* bound on the changes the provider makes
  MaxNow,        \* bound on the clock
  MaxTries,      \* tries the queue gives a job
  MaxCrashes,    \* bound on kills
  None

ASSUME BillingAssumption ==
  /\ Statuses \subseteq {"trialing", "active", "past_due", "paused", "canceled", "expired"}
  /\ Products \subseteq Plans \cup {None}
  /\ "free" \notin Plans /\ None \notin Plans \cup {"free"}
  /\ Workers \cap Staff = {}
  /\ Tags \subseteq BOOLEAN /\ Slack \in BOOLEAN
  /\ {MaxEvents, MaxNow, MaxCrashes} \subseteq Nat /\ MaxTries \in Nat \ {0}

Procs == Workers \cup Staff
Entitling == {"trialing", "active", "past_due"}
Terminal == {"canceled", "expired"}

VARIABLES
  now,      \* the clock
  events,   \* every state the provider has put a subscription in, in order
  ledger,   \* webhook_events: "none", "received" or "processed"
  job,      \* the process_webhook job of each event
  tries,    \* of that job
  since,    \* when a try of it last failed; the next one is later
  mirror,   \* the subscriptions table
  org,      \* plan_key and status of the workspace
  proc,     \* each handler: its position and what it holds in memory
  mails,    \* history: dunning and activation mails sent about each event, up to 2
  comped,   \* history: plans staff granted
  crashes,  \* kills so far
  retold,   \* history: events two handlers took up at once, or whose status
            \* was written over in the tick they are of
  outrun    \* history: handlers whose look at a row came before another's save

db == <<ledger, job, tries, since, mirror, org>>
past == <<retold, outrun>>
vars == <<now, events, db, proc, mails, past, comped, crashes>>

Ids == 1..MaxEvents
Told == 1..Len(events)
Changes(s) == {e \in Told : events[e].sub = s}
Latest(s) == CHOOSE e \in Changes(s) : \A f \in Changes(s) : f <= e
Known(s) == mirror[s].period # 0
Over(status) == status \in Terminal

NoColumns == [status |-> "none", plan |-> "free", period |-> 0]
NoMirror == [status |-> "none", plan |-> "free", period |-> 0, updated |-> 0]
Columns(r) == [status |-> r.status, plan |-> r.plan, period |-> r.period]
NewOrg == [plan |-> "free", status |-> "active"]

Free == [at |-> "idle", kind |-> "none", ev |-> 0, sub |-> None,
         new |-> NoColumns, old |-> NoColumns, prev |-> "none",
         org |-> NewOrg, look |-> {}, rows |-> [s \in Subs |-> NoColumns],
         fix |-> [s \in Subs |-> "none"]]

Init ==
  /\ now = 0
  /\ events = <<>>
  /\ ledger = [e \in Ids |-> "none"]
  /\ job = [e \in Ids |-> "none"]
  /\ tries = [e \in Ids |-> 0]
  /\ since = [e \in Ids |-> -1]
  /\ mirror = [s \in Subs |-> NoMirror]
  /\ org = NewOrg
  /\ proc = [p \in Procs |-> Free]
  /\ mails = [e \in Ids |-> 0]
  /\ comped = {}
  /\ crashes = 0
  /\ retold = {} /\ outrun = {}

-----------------------------------------------------------------------------
(* The provider and the endpoint.                                          *)

Tick ==
  /\ now < MaxNow
  /\ now' = now + 1
  /\ UNCHANGED <<events, db, proc, mails, past, comped, crashes>>

\* The provider moves a subscription and queues an event about it. A canceled
\* subscription stays so. Staff cancelling at the provider is such a move.
ProviderChanges(s) ==
  /\ Len(events) < MaxEvents
  /\ \A e \in Changes(s) : ~Over(events[e].status) /\ (Slack \/ events[e].at < now)
  /\ \E status \in Statuses, product \in Products, tagged \in Tags :
       events' = Append(events, [sub |-> s, status |-> status, product |-> product,
                                 tagged |-> tagged, at |-> now])
  /\ UNCHANGED <<now, db, proc, mails, past, comped, crashes>>

Forgotten == "none"                                                    \* mutant
Queued == "due"

\* The ledger row and the job, in one transaction. A redelivery loses the
\* insert on the unique event id and changes nothing.
Deliver(e) ==
  /\ e \in Told /\ ledger[e] = "none"
  /\ ledger' = [ledger EXCEPT ![e] = "received"]
  /\ job' = [job EXCEPT ![e] = Queued]
  /\ UNCHANGED <<now, events, tries, since, mirror, org, proc, mails, past, comped, crashes>>

-----------------------------------------------------------------------------
(* One step of a handler: where it goes and what it learns.                *)
Goes(p, at) == proc' = [proc EXCEPT ![p].at = at]
Becomes(p, r) == proc' = [proc EXCEPT ![p] = r]

IsJob(p) == proc[p].kind = "webhook"

\* A throw: the queue tries again later or parks the job; the back office
\* shows the error. Either way lastError is all that is written.
FailedStuck(e) == [job EXCEPT ![e] = IF tries[e] + 1 >= MaxTries THEN "parked" ELSE "running"] \* mutant
FailedJob(e) == [job EXCEPT ![e] = IF tries[e] + 1 >= MaxTries THEN "parked" ELSE "due"]
Throws(p) ==
  /\ IF IsJob(p)
     THEN /\ job' = FailedJob(proc[p].ev)
          /\ tries' = [tries EXCEPT ![proc[p].ev] = @ + 1]
          /\ since' = [since EXCEPT ![proc[p].ev] = now]
     ELSE UNCHANGED <<job, tries, since>>
  /\ Becomes(p, Free)
  /\ UNCHANGED <<ledger, mirror, org>>

\* A statement of the handler that may be the one that throws. The backoff
\* outlasts a tick, so a throw leaves room for a later try.
Flakes(p) ==
  /\ proc[p].at \in Flaky /\ now < MaxNow
  /\ Throws(p)
  /\ UNCHANGED <<now, events, mails, past, comped, crashes>>

\* ProcessWebhookJob.handle up to apply(): an event already applied is done.
Begin(w, e) ==
  /\ proc[w].at = "idle" /\ job[e] = "due"
  /\ since[e] < now \/ now = MaxNow
  /\ IF ledger[e] = "processed"
     THEN /\ job' = [job EXCEPT ![e] = "done"]
          /\ UNCHANGED proc
     ELSE /\ job' = [job EXCEPT ![e] = "running"]
          /\ Becomes(w, [Free EXCEPT !.at = "resolve", !.kind = "webhook", !.ev = e])
  /\ UNCHANGED <<now, events, ledger, tries, since, mirror, org, mails, past, comped, crashes>>

\* A replay from the back office or billing:replay. It does not ask whether
\* the event was applied, and goes through the same code.
Replay(s, e) ==
  /\ "replay" \in Chores
  /\ proc[s].at = "idle" /\ ledger[e] # "none"
  /\ Becomes(s, [Free EXCEPT !.at = "resolve", !.kind = "replay", !.ev = e])
  /\ UNCHANGED <<now, events, db, mails, past, comped, crashes>>

\* resolveOrganization: by the subscription already recorded, or by the id the
\* checkout put into the metadata. The workspace row is loaded here.
Resolve(p) ==
  /\ proc[p].at = "resolve"
  /\ LET e == events[proc[p].ev] IN
     IF Known(e.sub) \/ e.tagged
     THEN /\ Becomes(p, [proc[p] EXCEPT !.at = "guard", !.sub = e.sub, !.org = org])
          /\ UNCHANGED db
     ELSE Throws(p)
  /\ UNCHANGED <<now, events, mails, past, comped, crashes>>

\* Who is between a look at row s and the upsert of it.
Writing(q, s) == proc[q].at \in {"fetch", "save"} /\ proc[q].sub = s
LooksAfresh(p) == outrun' = outrun \ {p}

\* What p writes to row s overtakes others who write it, and may hide what an
\* event of this very tick said.
Overwrites(p, s) ==
  /\ outrun' = outrun \cup {q \in Procs \ {p} :
                             Writing(q, s) /\ mirror'[s].period # mirror[s].period}
  /\ retold' = retold \cup {e \in Changes(s) :
       /\ events[e].at = now /\ mirror[s].status = events[e].status
       /\ mirror'[s].status # events[e].status}

NeverLate(e, r) == FALSE                                               \* mutant
Late(e, r) == r.period # 0 /\ e.at < r.updated

TakenUpTwice(p) ==
  {e \in {proc[p].ev} : /\ ~Late(events[e], mirror[events[e].sub])
                        /\ \E q \in Procs \ {p} : Writing(q, events[e].sub) /\ proc[q].ev = e}

GuessedPlan(r) == CHOOSE k \in Plans : TRUE                            \* mutant
PlanOfUnknown(r) == r.plan

\* applySubscription from its read of the row to the upsert. A cancellation
\* without a period is fetched again: the provider can only repeat it.
Guard(p) ==
  /\ proc[p].at = "guard"
  /\ LET e == events[proc[p].ev]
         r == mirror[e.sub]
         plan == IF e.product # None THEN e.product ELSE PlanOfUnknown(r)
     IN IF Late(e, r)
        THEN Goes(p, "mark")
        ELSE Becomes(p, [proc[p] EXCEPT !.at = "fetch", !.prev = r.status,
               !.new = [status |-> e.status, plan |-> plan, period |-> proc[p].ev]])
  /\ LooksAfresh(p) /\ retold' = retold \cup TakenUpTwice(p)
  /\ UNCHANGED <<now, events, db, mails, comped, crashes>>

\* upsertSubscription: the row is read again, then the columns that differ
\* from what was read are written, with updated_at, if any do.
Fetch(p) ==
  /\ proc[p].at = "fetch"
  /\ Becomes(p, [proc[p] EXCEPT !.at = "save", !.old = Columns(mirror[proc[p].sub])])
  /\ UNCHANGED <<now, events, db, mails, past, comped, crashes>>

Dirty(row, old, new, c) == IF new[c] # old[c] THEN new[c] ELSE row[c]
Updated(row, old, new) ==
  IF new = old THEN row
  ELSE [status |-> Dirty(row, old, new, "status"), plan |-> Dirty(row, old, new, "plan"),
        period |-> Dirty(row, old, new, "period"), updated |-> now]

Save(p) ==
  /\ proc[p].at = "save"
  /\ LET s == proc[p].sub IN
     IF proc[p].old.period = 0 /\ Known(s)
     THEN Throws(p) /\ UNCHANGED past     \* two inserts: the unique index
     ELSE /\ mirror' = [mirror EXCEPT ![s] = Updated(@, proc[p].old, proc[p].new)]
          /\ Becomes(p, [proc[p] EXCEPT !.at = "plan", !.old = NoColumns])
          /\ Overwrites(p, s)
          /\ UNCHANGED <<ledger, job, tries, since, org>>
  /\ UNCHANGED <<now, events, mails, comped, crashes>>

-----------------------------------------------------------------------------
(* syncEntitlement, and its copies in correctStatus and the staff sync.    *)

EntitledPlanWhilePaused(status, plan) ==                               \* mutant
  IF status \in Entitling \cup {"paused"} THEN plan ELSE "free"
EntitledPlan(status, plan) == IF status \in Entitling THEN plan ELSE "free"
Standing(status) == IF status = "past_due" THEN "past_due" ELSE "active"

\* applyPlan: nothing is saved when the loaded row already has that plan.
ApplyPlan(p) ==
  /\ proc[p].at = "plan"
  /\ LET plan == EntitledPlan(proc[p].new.status, proc[p].new.plan) IN
     /\ org' = IF proc[p].org.plan = plan THEN org ELSE [org EXCEPT !.plan = plan]
     /\ Becomes(p, [proc[p] EXCEPT !.at = "standing", !.org.plan = plan])
  /\ UNCHANGED <<now, events, ledger, job, tries, since, mirror, mails, past, comped, crashes>>

AfterStanding(p) ==
  CASE proc[p].kind \in {"webhook", "replay"} -> [proc[p] EXCEPT !.at = "notify"]
    [] proc[p].kind = "reconcile" -> [proc[p] EXCEPT !.at = "fix"]
    [] OTHER -> Free

ApplyStanding(p) ==
  /\ proc[p].at = "standing"
  /\ LET standing == Standing(proc[p].new.status) IN
     org' = IF proc[p].org.status = standing THEN org ELSE [org EXCEPT !.status = standing]
  /\ Becomes(p, AfterStanding(p))
  /\ UNCHANGED <<now, events, ledger, job, tries, since, mirror, mails, past, comped, crashes>>

AnnouncesEvery(status, prev) == status \in {"active", "past_due"} \cup Terminal  \* mutant
Announces(status, prev) ==
  /\ status # prev
  /\ \/ status = "active" /\ prev # "past_due"
     \/ status \in {"past_due"} \cup Terminal

\* notify: a mail on a transition, handed to the queue.
Notify(p) ==
  /\ proc[p].at = "notify"
  /\ mails' = IF Announces(proc[p].new.status, proc[p].prev)
              THEN [mails EXCEPT ![proc[p].ev] = IF @ = 2 THEN 2 ELSE @ + 1] ELSE mails
  /\ Goes(p, "mark")
  /\ UNCHANGED <<now, events, db, past, comped, crashes>>

\* markProcessed, and for a job its success.
Mark(p) ==
  /\ proc[p].at = "mark"
  /\ ledger' = [ledger EXCEPT ![proc[p].ev] = "processed"]
  /\ job' = IF IsJob(p) THEN [job EXCEPT ![proc[p].ev] = "done"] ELSE job
  /\ Becomes(p, Free)
  /\ UNCHANGED <<now, events, tries, since, mirror, org, mails, past, comped, crashes>>

-----------------------------------------------------------------------------
(* sync_billing: scan every live row against the provider, then correct.   *)

LiveRows == {s \in Subs : Known(s) /\ ~Over(mirror[s].status)}

Scan(w) ==
  /\ Nightly /\ proc[w].at = "idle" /\ LiveRows # {}
  /\ Becomes(w, [Free EXCEPT !.at = "look", !.kind = "reconcile", !.look = LiveRows,
       !.rows = [s \in Subs |-> Columns(mirror[s])]])
  /\ UNCHANGED <<now, events, db, mails, past, comped, crashes>>

NoCorrection(status, theirs) == "none"                                 \* mutant
Correction(status, theirs) == IF theirs = status THEN "none" ELSE theirs

\* getSubscription answers with what the provider says now, or not at all. A
\* status that differs from the scanned row is a correction; the rest is only
\* reported.
Looked(w, s, fix) ==
  /\ proc[w].at = "look" /\ s \in proc[w].look
  /\ Becomes(w, [proc[w] EXCEPT !.look = @ \ {s}, !.fix[s] = fix,
                    !.at = IF proc[w].look = {s} THEN "fix" ELSE "look"])
  /\ UNCHANGED <<now, events, db, mails, past, comped, crashes>>
Answered(w, s) ==
  Looked(w, s, Correction(proc[w].rows[s].status, events[Latest(s)].status))
Unanswered(w, s) == Looked(w, s, "none")

ToFix(w) == {s \in Subs : proc[w].fix[s] # "none"}

\* correctStatus: save the status on the scanned instance; only then is the
\* workspace loaded.
Fix(w, s) ==
  /\ proc[w].at = "fix" /\ s \in ToFix(w)
  /\ mirror' = [mirror EXCEPT ![s].status = proc[w].fix[s], ![s].updated = now]
  /\ Becomes(w, [proc[w] EXCEPT !.at = "load", !.sub = s, !.fix[s] = "none",
                    !.new = [proc[w].rows[s] EXCEPT !.status = proc[w].fix[s]]])
  /\ Overwrites(w, s)
  /\ UNCHANGED <<now, events, ledger, job, tries, since, org, mails, comped, crashes>>

Load(p) ==
  /\ proc[p].at = "load"
  /\ Becomes(p, [proc[p] EXCEPT !.at = "plan", !.org = org])
  /\ UNCHANGED <<now, events, db, mails, past, comped, crashes>>

EndScan(w) ==
  /\ proc[w].at = "fix" /\ ToFix(w) = {}
  /\ Becomes(w, Free)
  /\ UNCHANGED <<now, events, db, mails, past, comped, crashes>>

-----------------------------------------------------------------------------
(* The back office.                                                        *)

\* sync: both rows are loaded, the provider is asked, every column is saved.
Sync(s, sub) ==
  /\ "sync" \in Chores
  /\ proc[s].at = "idle" /\ Known(sub)
  /\ Becomes(s, [Free EXCEPT !.at = "ask", !.kind = "sync", !.sub = sub,
                   !.old = Columns(mirror[sub]), !.org = org])
  /\ UNCHANGED <<now, events, db, mails, past, comped, crashes>>

Ask(s) ==
  /\ proc[s].at = "ask"
  /\ LET e == Latest(proc[s].sub)
         plan == IF events[e].product # None THEN events[e].product ELSE proc[s].old.plan
     IN \/ Becomes(s, [proc[s] EXCEPT !.at = "save",
             !.new = [status |-> events[e].status, plan |-> plan, period |-> e]])
        \/ Becomes(s, Free)                      \* no answer, or no record
  /\ LooksAfresh(s)
  /\ UNCHANGED <<now, events, db, mails, retold, comped, crashes>>

\* suspend: one button, its effect decided by the status it loaded.
ReadToSuspend(s) ==
  /\ "suspend" \in Chores
  /\ proc[s].at = "idle"
  /\ Becomes(s, [Free EXCEPT !.at = "toggle", !.kind = "suspend", !.org = org])
  /\ UNCHANGED <<now, events, db, mails, past, comped, crashes>>

Toggle(s) ==
  /\ proc[s].at = "toggle"
  /\ org' = [org EXCEPT !.status = IF proc[s].org.status # "suspended"
                                   THEN "suspended" ELSE "active"]
  /\ Becomes(s, Free)
  /\ UNCHANGED <<now, events, ledger, job, tries, since, mirror, mails, past, comped, crashes>>

ReadToOverride(s, plan) ==
  /\ "override" \in Chores
  /\ proc[s].at = "idle"
  /\ Becomes(s, [Free EXCEPT !.at = "grant", !.kind = "override", !.org = org,
                   !.new.plan = plan])
  /\ UNCHANGED <<now, events, db, mails, past, comped, crashes>>

Grant(s) ==
  /\ proc[s].at = "grant"
  /\ org' = IF proc[s].org.plan = proc[s].new.plan THEN org
            ELSE [org EXCEPT !.plan = proc[s].new.plan]
  /\ comped' = comped \cup {proc[s].new.plan}
  /\ Becomes(s, Free)
  /\ UNCHANGED <<now, events, ledger, job, tries, since, mirror, mails, past, crashes>>

-----------------------------------------------------------------------------
\* A killed worker's job runs again once its reservation has expired.
Crash(w) ==
  /\ proc[w].at \in CrashPoints /\ crashes < MaxCrashes /\ now < MaxNow
  /\ crashes' = crashes + 1
  /\ job' = IF IsJob(w) THEN [job EXCEPT ![proc[w].ev] = "due"] ELSE job
  /\ since' = IF IsJob(w) THEN [since EXCEPT ![proc[w].ev] = now] ELSE since
  /\ Becomes(w, Free)
  /\ UNCHANGED <<now, events, ledger, tries, mirror, org, mails, past, comped>>

Apply(p) ==
  \/ Resolve(p) \/ Guard(p) \/ Fetch(p) \/ Save(p) \/ ApplyPlan(p)
  \/ ApplyStanding(p) \/ Notify(p) \/ Mark(p) \/ Flakes(p)

WorkerStep(w) ==
  \/ Apply(w) \/ Scan(w) \/ Load(w) \/ EndScan(w)
  \/ \E e \in Ids : Begin(w, e)
  \/ \E s \in Subs : Answered(w, s) \/ Unanswered(w, s) \/ Fix(w, s)

StaffStep(s) ==
  \/ Apply(s) \/ Ask(s) \/ ReadToSuspend(s) \/ Toggle(s) \/ Grant(s)
  \/ \E e \in Ids : Replay(s, e)
  \/ \E sub \in Subs : Sync(s, sub)
  \/ \E plan \in Plans \cup {"free"} : ReadToOverride(s, plan)

Next ==
  \/ Tick
  \/ \E s \in Subs : ProviderChanges(s)
  \/ \E e \in Ids : Deliver(e)
  \/ \E w \in Workers : WorkerStep(w) \/ Crash(w)
  \/ \E s \in Staff : StaffStep(s)

Spec == Init /\ [][Next]_vars

\* A worker keeps taking steps, and claims jobs in the order of their ids, so
\* that the nightly sweep keeps none of them waiting for ever. The provider
\* answers some of the calls; nothing obliges it to deliver an event.
FairSpec ==
  /\ Spec /\ WF_vars(Tick)
  /\ \A w \in Workers :
       /\ WF_vars(WorkerStep(w))
       /\ SF_vars(\E e \in Ids : Begin(w, e))
       /\ \A s \in Subs : SF_vars(Answered(w, s))

-----------------------------------------------------------------------------
PlanKeys == Plans \cup {"free"}
AnyStatus == Statuses \cup {"none"}
ColumnSet == [status : AnyStatus, plan : PlanKeys, period : 0..MaxEvents]
OrgSet == [plan : PlanKeys, status : {"active", "past_due", "suspended"}]

TypeOK ==
  /\ now \in 0..MaxNow
  /\ events \in Seq([sub : Subs, status : Statuses, product : Products,
                     tagged : BOOLEAN, at : 0..MaxNow])
  /\ Len(events) <= MaxEvents
  /\ ledger \in [Ids -> {"none", "received", "processed"}]
  /\ job \in [Ids -> {"none", "due", "running", "parked", "done"}]
  /\ tries \in [Ids -> 0..MaxTries] /\ since \in [Ids -> -1..MaxNow]
  /\ \A s \in Subs : Columns(mirror[s]) \in ColumnSet /\ mirror[s].updated \in 0..MaxNow
  /\ org \in OrgSet
  /\ \A p \in Procs : /\ proc[p].new \in ColumnSet /\ proc[p].old \in ColumnSet
                      /\ proc[p].org \in OrgSet
                      /\ proc[p].ev \in 0..MaxEvents /\ proc[p].look \subseteq Subs
  /\ comped \subseteq PlanKeys /\ crashes \in 0..MaxCrashes
  /\ retold \subseteq Ids /\ outrun \subseteq Procs

\* No handler is at work and no job waits to run.
AtRest == /\ \A p \in Procs : proc[p].at = "idle"
          /\ \A e \in Ids : job[e] \notin {"due", "running"}

(* An event the endpoint has answered 200 to is applied, or has a job that *)
(* will try, or is parked where staff see it: the ledger row and the job   *)
(* are one transaction, and no failure of a handler loses the job.         *)
NothingSilentlyLost ==
  \A e \in Ids : ledger[e] = "received" =>
    \/ job[e] \in {"due", "parked"}
    \/ \E w \in Workers : proc[w].ev = e /\ IsJob(w) /\ job[e] = "running"

(* What the workspace may use is what its one subscription entitles it to, *)
(* whenever nothing is at work: the mirror and the entitlement derived     *)
(* from it are saved by different statements, and meet again.              *)
EntitlementFollowsMirror ==
  AtRest => \A s \in Subs : Known(s) =>
    /\ org.plan = IF mirror[s].status \in {"trialing", "active", "past_due"}
                  THEN mirror[s].plan ELSE "free"
    /\ org.status = "past_due" <=> mirror[s].status = "past_due"

(* Both together: what is stored keeps its shape under every order of the  *)
(* events, and agrees whenever nothing is at work.                         *)
MirrorSound == TypeOK /\ EntitlementFollowsMirror

(* The out-of-order guard: the provider state a row was copied from is     *)
(* never replaced by one that came about before it, unless by a handler    *)
(* that looked at the row before another one saved it.                     *)
LateNeverUndoes ==
  [][\A s \in Subs : Known(s) =>
       \/ events[mirror'[s].period].at >= events[mirror[s].period].at
       \/ \E p \in outrun : Writing(p, s) /\ proc'[p] # proc[p]]_vars

(* A customer is told once about a transition, however often the webhook   *)
(* that announced it is retried or replayed, unless two handlers take it   *)
(* up at once or its status is written over within the tick it is of.      *)
ToldOnce == \A e \in Ids \ retold : mails[e] <= 1

(* A paid plan is never handed out by guesswork: some product the provider *)
(* named, or a member of staff, stands behind it, whatever the order of    *)
(* the handlers, the retries and the scans.                                *)
PaidForOrComped ==
  org.plan # "free" => \/ org.plan \in comped
                       \/ \E e \in Told : events[e].product = org.plan

(* With staff, crashes and retries beside the worker, nothing accepted is  *)
(* lost and no plan is given away.                                         *)
NothingLostOrGivenAway == NothingSilentlyLost /\ PaidForOrComped

-----------------------------------------------------------------------------
(* Every job the endpoint queues is eventually settled: applied or parked. *)
EventuallySettled == \A e \in Ids : job[e] = "due" ~> job[e] \in {"done", "parked"}

(* Nightly reconciliation brings the status of every row that is known     *)
(* back to the provider's, events lost, late or parked notwithstanding.    *)
StatusHeals ==
  <>[](\A s \in Subs : Known(s) => mirror[s].status = events[Latest(s)].status)

(* Whatever is accepted comes to an end, and what was lost on the way is   *)
(* made good by the nightly comparison.                                    *)
SettlesAndHeals == EventuallySettled /\ StatusHeals
=============================================================================
