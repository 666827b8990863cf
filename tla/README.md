# kitch4nSinkV2: TLA+ specifications

kitch4nSinkV2 is a multi-tenant SaaS starter: an AdonisJS web process and a
queue worker process that share one SQL database (SQLite or Postgres) and one
bucket of files. There is no other channel between the processes. What is hard
about it comes from that: two requests, a request and a job, or two jobs
interleave statement by statement on the same rows; the payment provider
delivers its events late, twice and out of order; a process dies between two
statements that belong together; counters are kept beside the rows they count;
a page is answered from a row that has changed since it was loaded.

PROJECT.json lists every run with the properties it checks, a mutant that each
property catches, every theorem, the source lines each definition models, and
the hazards the properties are for. To repeat a check:

    tlc -workers 2 -config JobQueueSingle.cfg MCQueue.tla
    tlapm ListsProofs.tla

## 1. The parts of the system

| Part | State | Operations | Hard because | Correct when |
|---|---|---|---|---|
| Job queue (app/queue, commands/queue_work.ts) | `jobs` rows; each worker's batch in memory | dispatch, reserve (reclaim, read, claim), complete, fail, retry, discard | several workers, kills, handlers slower than their reservation, staff who retry | no job lost, tries bounded, one holder, everything settles |
| Billing (app/billing, webhook controller, process_webhook, sync_billing) | subscriptions, webhook ledger; plan and status of the workspace | ingest, apply, sync entitlement, reconcile, replay, suspend, override | events in any order, a kill between two commits, staff and provider writing one column | the newest state wins, plan follows subscription, nobody is told twice |
| Payments (webhook_handler.ts) | payments | charge, refund, dispute, receipt | read-modify-write of one row by overlapping handlers | amounts add up, one receipt |
| Checkout and portal (billing_service.ts, creem.ts) | checkouts at the provider, subscriptions, plan | start, webhook, sync, portal | a row loaded, the provider asked, the row saved | nothing granted that was not bought |
| Workspace (app/organizations) | organizations, users, invitations | invite, revoke, accept, leave, remove, transfer, delete | one seat limit for members and invitations; ownership is three rows | seats fit, withdrawn links are dead, one owner |
| Files (app/storage) | files rows, `storage_used_bytes`, objects | upload, replace, delete, purge | two stores without a common transaction, a counter beside rows | rows have objects, objects have rows, the counter is right |
| Lists (app/modules/lists) | lists, todos, positions, `todos_count` | create, delete, add, drag, tick, recount, renumber | a cap enforced by a counter; jobs that rewrite counter and positions | limits kept, counters right, the order is the members' |
| Privacy (app/modules/privacy, app/privacy) | export and deletion requests, archives, everybody's rows | request, confirm, approve, build, erase, expire | long state machines written by people, staff and jobs that are run twice | a cancelled request deletes nothing; nothing of the erased stays; archives expire |
| Sign-in and sign-up (app/auth) | tokens, second factor, recovery codes, users, slugs, identities | issue, consume, enrol, challenge, register, link | single-use values consumed at once, unique values picked before they are inserted | a link or code works once; no half of an account |
| API (app/api) | keys, request log, daily totals, the month's counter | create, revoke, authenticate, count, roll up, prune | a total recomputed from rows that are being pruned; a stamp saved late | usage never shrinks; a revoked key stays so |
| Back office (admin controllers, impersonation) | staff accounts, sessions, audit log | create, disable, sign in, impersonate | sessions of two guards in one browser, toggles of two admins | somebody can get in; acts name who did them |
| Waiting list, support, content, notifications | rows of their own | join, confirm, convert; reply, resolve; publish, rename; announce, read | a page decides from the row it loaded | a cancelled entry stays so; a reply is not lost; links land; what is new is shown as new |
| Dashboard figures (metrics_service.ts) | none: reckoned from payments and subscriptions | windows, bars, shares, growth | one payment cut at several instants | what is shown side by side adds up |
| Mail, settings, scheduler, middleware, landing, configuration | little or none | | | see PROJECT.json "components" |

How they meet: every part dispatches jobs to the queue (a row in the caller's
transaction) and nothing calls back; billing writes the plan, and so the limits,
that Workspace, Files, Lists and the API read under `lockAndAssertLimit`
(app/billing/plan_service.ts); the scheduler only dispatches; mail is a job;
support and settings store their pictures and attachments through Files;
Privacy erases rows of all of them. The modules follow these seams: a module
takes from its neighbours what they promise, as an action of the environment
(`Replan`, `SetLimit`, `ChangePlan`, `Begin` with bounded tries), which is what
lets the parts be checked one at a time.

## 2. What is modelled, and how it corresponds to the code

The rule everywhere: a step is what no other process can come between. On the
queue and in billing, which mostly use no transaction, that is one awaited
statement. Where the code opens a transaction that begins by locking the row it
decides from, the transaction is one step, and what was loaded before it, or
counted under another row's lock, is a step of its own. A process keeps in
variables of its own exactly what the code keeps in memory across an await, and
a save writes only the columns that differ from what was loaded, as the ORM
does: `Saved` of module **Lucid**, which every module with a loaded row uses.

**JobQueue** (queue_service.ts, queue_work.ts, admin/job_controller.ts,
queue_retry.ts). `row` is the table. `poll -> reclaim -> claim -> stamp -> claim
-> work -> poll` is the worker's loop: `ReadHeld` and `ReleaseExpired` are
reclaimExpired, `ReadCandidates` the select with its window of three times the
limit, `Claim` the compare-and-swap on `reserved_by`, `Stamp` the later save of
`reserved_at`. `FailSave` saves an attempt count one above the one this worker
*read*, as the code does. `FailRelease`, `Complete`, `RetrySave` and
`RetryRelease` are the statements of fail, complete and retry, none of them
conditional on the holder. Time is `Age` (a reservation passes the visibility
timeout) and `BecomeDue`.

**Billing** (webhook_controller.ts, process_webhook_job.ts, webhook_handler.ts,
reconciliation.ts, plan_service.ts, admin actions). `events` is what happened at
the provider, in order; `Deliver` is the endpoint's transaction (ledger row and
job). A handler is `resolve, guard, fetch, save, plan, standing, notify, mark`:
what it holds in memory (the workspace as loaded, the previous status, the row
as re-read) is in `proc`. `Scan/Answered/Fix/Load` is the nightly sweep, `Sync`,
`Replay`, `Toggle`, `Grant` the back office. The queue appears as what JobQueue
shows of it: a job is run again after a throw or a kill until its tries run out.

**Payments** (applyPayment and applyDispute of webhook_handler.ts, the type map
of creem.ts). One order's row against webhooks in any order. `FindPayment`
loads, `SavePayment` and `DisputePayment` save against what was loaded (the
unique index on the order makes a second insert throw), `SendReceipt` and
`MarkPosted` come after. `mixed` is a history variable: the orders whose row was
saved by a handler that had loaded an older one.

**Checkout** (billing_service.ts, billing_controller.ts, creem.ts).
`startCheckout`, what the provider may make of a subscription (`Follows`, external),
a webhook applied and its entitlement, and the portal visit, which loads the
newest row, asks the provider and saves the customer.

**Figures** (metrics_service.ts) is a pure component over moving rows: the
actions move the payments, workspaces and subscriptions, and every figure of the
dashboard is an operator on them.

**Workspace** (invitation_service.ts, seats.ts, membership_service.ts,
tidy job). Postgres at read committed: `wants` is what a statement found, `held`
the rows it has locked and looked at again, `orgLock` the locked workspace row,
`counted` the seats it counted. Invite is supersede, lock, count, insert; accept
is take, lock, count, insert; revoke, leave, remove, transfer and delete are one
commit against what they loaded. `overtaken` and `crossed` are history, read by no
action: the transfers and departures in flight whose ground another has taken away, and
whether one of them committed all the same. On SQLite writers are serialised; its
behaviours are some of these.

**Meter** is the abstract specification of a plan limit: a meter that moves with
the things it counts, and that nothing new takes past the limit in force. It is
what `storage_used_bytes` promises of live files, what the list limit promises
of live lists and the key limit of keys that are not revoked; Lists and
ApiKeys are shown to implement it (`ListsWithinPlan`, `KeysWithinPlan`), and Files to
implement it until a file's bytes are given back twice, and to stray by no more than those
after that (`LedgerHolds`; `KeepsLedger` is the promise without the exception).

**Files** (file_service.ts, purge_deleted_files_job.ts, profile and organisation
controllers). `PutObject` before `Record`, which asks again under the lock;
`CleanUp` after a refusal; `SoftDelete`; the purge deletes the object, then the
row. An avatar or logo retires its predecessors one by one (`Retire`) after the
row of the new one committed. `SaveLogo` is the save of an instance the upload has
left dirty. `twice` is history: the bytes given back for files that were deleted already. `left` records objects a kill or a refusal left behind, which the
nightly report looks for.

**Lists** (list_service.ts, todo_service.ts, reconcile_counters_job.ts).
Creating is `AssertLimit` (lock, count) and `InsertList`; adding and dropping a
todo move `todos_count` under the lock of the list's row; the recount compares a
counter loaded at the start of the night (`seen`) with a count of its own and
writes the result without a condition. `suspect` is a history variable: the
lists whose counter a stale write or a second deletion of one todo may have hit.

**TodoOrder** (todo_service.ts, normalize_positions_job.ts): positions with their
gap, appending, dragging between the neighbours the page showed, the renumbering
row by row, positions set through the API, and ticking. `arranged` is a history variable, the
order as the members left it: for each todo the set of those above it.

**Erasure** (deletion_service.ts, its job, privacy_controller.ts,
admin_privacy_controller.ts). `asked`, `status` and `note` are the columns of a
deletion request. Asking and confirming are transactions under a lock and one step
each; cancelling, rejecting, approving and retrying are two, what the page loaded
and the write that trusts it (`StartCancel`/`Withdraw`, `StartApprove`/`Approve`).
`Find -> LoadUser -> Begin -> Erase -> Complete -> Tell` is process(): everything a
run decides from (the status, the address kept on the request, the user's address and
role) was loaded before the transaction that erases, except who else is there.
Staff's request runs it at once, a worker runs it again. A cancelled and a
rejected request are one status here, `withdrawn`, as nothing that reads the row
tells them apart. `work` stands for the lists, todos and files of the workspace.

**PersonalData** (start/privacy.ts, core_contributors.ts, export_builder.ts and the
contributors of the modules) opens up what `Erase` does: the statements of one
transaction, table by table in the order registered, beside requests that were
let in before and write when they get to it, and an archive packed meanwhile.

**Exports** (privacy_service.ts): a request built at once by staff's request and
again by the job, over one key; failed, retried, completed, collected and purged.

**AuthTokens**, **TwoFactor**, **Registration** (auth_token_service.ts and the
password reset and verification controllers; two_factor_service.ts and the
challenge; registration_service.ts, slug.ts, social_auth_controller.ts). Links
are issued in a transaction that cannot see what another has not committed
(`missed`), consumed under a lock, and what they allow is saved later.
Recovery codes are one column saved from what the request loaded (`late` and
`overtook` record who was overtaken). A registration picks a slug and an address
before it inserts; the unique indexes decide.

**Staff** (staff_controller.ts, impersonation.ts, staff_auth, audit_service.ts):
accounts, and browser windows with both guards and an impersonation in one session.

**ApiKeys**, **ApiUsage** (api_key_service.ts, api_key_auth.ts; track_api_usage.ts,
api_rate_limit.ts, rollup_api_usage_job.ts, usage_service.ts).

**WaitingList**, **Support**, **Content**, **Notifications** (their services and
controllers): each request loads a row and writes it later; confirming an entry,
opening a ticket and renaming an article are transactions.


## 3. The runs

| Run | Module | Checks | Distinct states |
|---|---|---|---|
| queue_single | MCQueue | NothingLost, SpareAttempts, RowsTellTheTruth; PaymentsSafe; CheckoutSafe; FiguresHold; UsageSafe | 1563568 |
| queue_live | JobQueue | NothingStandsStill, SwapAndCountHold | 619978 |
| billing_serial | Billing | MirrorSound, ToldOnce, LateNeverUndoes, SettlesAndHeals | 85722 |
| workspace | MCWorkspace | OneOwnerUnlessCrossed, ClaimsFit, RevokedNeverJoins, EveryRequestEnds; BucketMatchesRows, LedgerHolds, EventuallyPurged | 167689 |
| lists | MCLists | CountedAndCapped, ListsWithinPlan, CountsHeal; TodosSafe | 390076 |
| erasure | MCErasure | ErasedAsDecided, GoodbyeIsSaid, WorkGoesWithTheLast, ApprovalTakesEffect | 752376 |
| accounts | MCAccounts | LinksSafe; SecondFactorSafe; RegistrationSafe; StaffSafe; KeysSafe; ExportsSafe; PersonalDataSafe | 1548099 |
| backoffice | MCBackOffice | NothingLostOrGivenAway; TicketsSafe; ArticlesSafe; NoticesSafe; WaitingListSafe | 2138569 |

and four that show a deviation (section 4).

*Several components in one run.* MCQueue, MCWorkspace, MCLists, MCAccounts and
MCBackOffice put components side by side that share no variable. A behaviour
chooses its `part` at the start and follows that component alone; the others
stay in their initial states. Such a run checks exactly what separate runs of
the components would (the states are their union, not their product), and a
counterexample names its part. Where initial states are many, the ones a
part does not need are cut (`part # "keys" => ...`).

*Properties with several conjuncts.* `PaymentsSafe`, `KeysSafe` and their like
are the conjunction of a component's type invariant and its safety properties,
each of which has a name, a definition and a comment of its own in the module.
`FiguresHold` is the figures' property once there is anything to show, which is when a bug in them could show too.

Bounds, and why they are enough.

- *queue_single*, queue: one worker, two jobs, two tries, two kills or shutdowns,
  handlers that may outlast the reservation, one member of staff. Two jobs fill
  the batch and let the loop over candidates have a rest; two tries are the first
  and the last; the second kill hits the recovery from the first. Two workers
  at once are *queue_live* and the theorems, which bound nothing. Payments: one
  order of two units, so that a refund may be partial, two handlers at once and
  one throw, kill or replay. Checkout: two workspaces, two checkouts, two
  webhooks, a plan without a product, a product that is no plan's. Figures: days of two
  hours, months of two days, windows of one and three days, two charges, two
  currencies: every window, bar and month boundary is crossed within four hours. Usage: days
  of two ticks, months of three days, retention and the timer's clamp shorter than a month,
  a limit of one call.
- *queue_live*: two workers and a member of staff, one job, two kills or shutdowns. Two
  workers are enough for a candidate, a reservation or a count to be out of date when it is
  used, the second kill for both to leave one behind. Kills at "stamp" are left out because of
  the finding queue_stranded; everything else may be killed.
- *billing_serial*: one subscription, two events in either order, an event
  possibly without the workspace's id, throws in `notify` and `mark`, the sweep.
  Statuses are one of each class the code tells apart: entitling, entitling
  but past due, not entitling. `Slack` is off (no two states within the one
  second the guard allows for, where the code documents that order is not decided)
  and there is no kill before the entitlement: either, allowed, makes the entitlement miss
  the mirror, which is a deviation of section 6. There is one worker, as several are
  too many states for liveness; what the run says of late events and of mails is proved for
  any number, beside staff who replay and synchronise.
- *workspace*, team: three people, two invitations, limits of one and two seats.
  One request may do anything while a second invites, accepts or revokes. Two
  invitations are one to supersede the other, or two for the last seat; a limit
  of one makes the founder alone a full workspace. Owners: the same under a fixed limit of
  two; a request that departs, transfers or accepts beside another such, an invitation or a
  deletion. Two are enough for one to overtake the other, and *workspace_transfers* shows that
  it matters. Files: three uploads, one of them a support
  attachment of two bytes, quotas of 1 and 3 bytes, one kill or refusal. One request or job may
  do anything but set a logo while a second uploads or purges. Deletions: two delete, and one replaces avatars
  beside it, under a fixed quota and without kills: bytes are given back
  twice, the counter stops at zero, and an upload passes the quota by what that left room for.
- *lists*: two requests and the recount, two lists, two todos, a cap of one:
  at the cap with the first todo. Order: two members, three todos ever, a gap of
  two so that a place between two neighbours is used up at the second drag.
- *erasure*: two people, of whom one confirms with a password and one by the link; two
  requests, so that an owner's deletion meets one of the member it takes along; one
  staff request beside one worker or cancelling person, so that two runs of one
  deletion overlap; one throw or kill. The kill is after the transaction
  committed, before the row says done or before the mail: a kill before the
  commit leaves the database as a throw does.
- *accounts*: in each part two requests overlap. Two links, two secrets, two sets of
  two recovery codes: one to be current and one to be retired. Two addresses, one
  identity at a provider, three slugs of which the first is reserved. Two administrators
  (interchangeable: the symmetry set) and one who is not, two windows. Three keys, limits
  of none and two. Two exports, staff beside the worker, one mishap. Two people, one row
  of each kind at a time or the owner's picture with a member's upload.
- *backoffice*: a worker beside staff doing anything, one event, a kill
  between the upsert and the plan; one event is enough for two handlers of it
  (a job and a replay) to insert one subscription. One ticket, two requests, three
  messages. Two articles, one of them a post, of which one request makes
  and another does everything else. Two announcements, one reader, a query that considers one.
  One address with two rows in turn and two links.

Rows that may come to be, clocks and histories are bounded by the constants whose
names begin with `Max`, in guards; each module's CONSTANTS say which.

`CHECK_DEADLOCK FALSE` is set where a behaviour may really stop: when the last
workspace is deleted, when all requests there is room for are decided, or when a
part's clock and rows have run out.

Fairness, and what in the code justifies it.

- A worker keeps stepping, and each job of its batch settles on its own
  (queue_work.ts:95: `Promise.all` over the batch, every path ends in complete or
  fail). A handler is never obliged to *succeed*. A process that stopped is
  started again (plan.md:614 runs it under a Procfile or systemd). Clocks advance.
- Billing: workers as above. Jobs that are due are begun ahead of the next
  sweep (strong fairness of `Begin`: candidates are claimed in the order of their
  ids, queue_service.ts:99, so sweeps dispatched later cannot overtake for ever). The provider answers
  again and again, though not always; it is never obliged to deliver.
- Workspace: strong fairness of a request's steps: the database grants a row
  lock in the order asked for. It does not help in a deadlock, which is what
  `EveryRequestEnds` is about.
- Files, Lists, Erasure: a request is served to its end unless killed; the nightly jobs
  come back (cron calls schedule_run.ts); a worker takes a job that is due again
  and again (strong fairness of `StartJob`, as the same worker has other things to do).
- The other components are checked for safety alone, and their runs assume no fairness.

## 4. Where code and documents part

Each of these is a run whose one property the code violates.

| Run | What happens | Source |
|---|---|---|
| queue_stranded | A worker killed between the swap on `reserved_by` and the save of `reserved_at` leaves a row that reclaimExpired skips: the job is never run again. | queue_service.ts:188 |
| billing_half_done | A worker dies after the upsert and before the entitlement. The retry takes its own write for a newer state, drops the event and marks it processed. | webhook_handler.ts:129 |
| workspace_transfers | Two transfers loaded the same owner; both commit, and two users have the role of owner. | membership_service.ts:61 |
| workspace_logo | Saving the logo's key also saves the upload's counter over the row: the replaced logo is counted for ever. | settings/organization_controller.ts:65 |

## 5. What is proved

Every theorem is for all values of the constants that satisfy the module's ASSUME, that is for any
number of workers, people, rows and requests, any kills and throws, and any bound. No theorem assumes
more; where the code does break a property, the property says when (section 6). Each follows one plan: an
invariant stronger than the property, shown to hold at the start and to survive each action by a
lemma of its own, and the property from the invariant. What the stronger invariants add is
nearly always the same: *what a process that read something some steps ago may still rely on*.

- **JobQueueProofs.** `AttemptsBounded`: TypeOK and SpareAttempts. TypeOK is not
  inductive: `seen` may hold a count one short of max_attempts only because a
  candidate still had a try. The strengthening `TypeInv` adds `GoodRow` (a row
  that may still be worked has an attempt left; a row that is not there has no
  holder) and `Shape` (a worker at "stamp" has a job). `AtLeastOnce`:
  NothingLost, with `HandledBeforeDone` (who is about to delete has seen its handler
  return). The other three follow from `QueueInv`, for any number of workers and staff. Where a
  worker may act on what it read some steps ago, a history variable names those whose read or
  hold somebody has since written over: `overwritten` (a try or a retry was saved), `undercut`
  (the job was released under its holder), `misjudged` (a row last saved on such a read).
  `TriesInv`: what the others know of state and count is still so (`ReadHolds`). `HoldHolds`:
  who works on a job and was not undercut is whom `reserved_by` names. Hence `SwapExcludes`
  (HeldApart: two hold one job only if it was released under one of them), `ParksForCause`
  (RowsTellTheTruth) and `SwapAndCountAlwaysHold` (SwapAndCountHold).
- **BillingProofs.** `BillingInv` is what holds with any workers and staff: stored
  rows are states the provider was in (`Stored`), a handler knows an event that is in the ledger
  (`Handlers`), every event is applied, queued, at work or parked (`Books`), and jobs and
  handlers agree about who has which (`Queue`). From it `NothingLostOrGiven` and `TypesHold`.
  Most steps touch neither a row of the mirror nor a mail (`Quiet`), so what follows is shown for the few that do.
  `ForwardInv` adds that a row is of an event no newer than its watermark (`Dated`), and that a handler nobody
  overtook between its look and its upsert holds a state no older than the row's (`Abreast`):
  `RowsNeverGoBack` (LateNeverUndoes). `OnceInv` adds of each event that once it is told, or its handler has
  saved the row, the row shows it or something later (`Holds`), so that whoever looks after that has no
  transition to tell of (`OnTime`), and that of two who look at once one has none (`Apart`):
  `NoTransitionToldTwice` (ToldOnce). Both are for any workers and staff, replays, syncs,
  throws and kills; what they except is named by `outrun` and `retold` (section 6).
- **WorkspaceProofs.** `LocksHold`: LockInv is inductive. Its heart is `Guarded`: a
  request at "insert" sees no more seats than it counted, because whatever adds
  a seat needs the lock it holds and whatever else moves only takes seats away.
  `SeatsClaimedFit` (ClaimsFit) and `RevokedStaysOut` (RevokedNeverJoins) follow
  step by step. `OneOwnerHolds` (OneOwnerUnlessCrossed) assumes nothing of who overlaps:
  there is one owner until a transfer or departure commits that had been overtaken.
  OwnerInv adds to LockInv that only who joined has a role (`Rolled`), and what a
  transfer that was not overtaken may find (`Waiting`): the owner it loaded and a live member with the
  role it loaded (`Fresh`), or a workspace that has just been handed to that very member by a
  twin of the request (`Repeated`), whose saves then change nothing that matters.
- **FilesProofs.** `BucketAlwaysMatchesRows`, from `BucketInv`: an object without a row
  is in the hands of an upload that will record or clean it up, or is one of `left`
  (`Orphans`); what each process holds (`Hand`) is of an upload only it knows. It covers saving
  the logo too. `LedgerAlwaysHolds` (LedgerHolds) is about any number of requests that
  delete, replace, upload and purge: its invariant is
  `used <= stored /\ stored <= used + twice`, which survives the counter's stop at zero, and gives
  the refinement of Meter as long as `twice` is 0. `stored` is `Cardinality(Bytes(liveFiles))`: a file is the set of its bytes, which
  is what turns the sum into a cardinality the prover can reason about.
- **ListsProofs.** `TypesHold` from `ListInv` (rows are numbered as inserted, what a
  request knows still exists, whoever holds the workspace lock counted room).
  `CountsHold`: CountedAndCapped, from `CountInv`, which adds that a list not yet
  inserted counts nought. `ListsImplementMeter`: the refinement; inserting
  a list is `Take`, deleting a live one `Release`, deleting a deleted one and every
  todo step a stutter. `TodosHold` (TodosSafe) is about TodoOrder, from `OrderInv`: a row or a
  request that says a box is ticked says by whom (`BoxesInv`); a request that nobody wrote before still
  stands between the same two neighbours (`HandsAim`), which is why a drop lands where it was
  aimed; and of a renumbering nobody wrote into, each row is where it goes or
  is still to be written (`Spreads`), which is why the order half way through does not matter. An
  order is modelled as what is above each row, so that none of this is a sort.
- **ErasureProofs.** From one invariant, `ErasureInv`: what a row's status says was done to it
  (`Decided`: approved, processing or failed means confirmed and approved), what a
  process may be doing with it (`Knows`: whoever retries or runs a request has one that
  was approved; a run past its transaction has erased its person), and for each
  erased account a request that consented (`Consented`). Consent alone is not
  inductive, as the step that erases looks at nothing but memory. `Grows` carries
  all of it over the steps of others: rows, consents and erasures are only added. `ConsentHolds`
  (ErasedByConsent), `HonoursHold` (HonouredMeansErased), both together as `DecisionHolds`, and
  `TypesHold` (TypeOK) follow; `WorkOutlives` (WorkGoesWithTheLast) is a fact about every step.
  `GoodbyeHolds` (GoodbyeIsSaid) adds which run or row still has the address (`GoodbyeInv`).
  Assumed throughout: a kill is of a run (`CrashPoints` within `Body`).
- **AccountsProofs**, in eight parts that share nothing.
  - `KeysHold`: who holds the workspace's row has counted at least the keys that are
    live, and who revokes loaded a key that was not. The refinement of Meter is the step property.
  - `LinksHold`: whoever is about to issue knows every link of its kind that works, in what it
    retires or in what its transaction missed.
  - `SecondFactorHolds`: a request that was not overtaken has loaded the row as it is,
    and of such a row no current code is spent.
  - `RegistrationHolds`: a request about to link or to prove knows an account that is there and the
    link its identity made; rows never go. `FirstFree`: the least free slug is free (by
    well-founded induction over the naturals, which the library has as a theorem on minima).
  - `StaffHolds`: who is in the middle of a toggle is an enrolled administrator, and not the one
    who is toggled; a session knows whom it signed in (`Session`), and the trail
    knows the last word on each account (`Trail`).
  - `ExportsHold`: a row that has expired, or is complete and lapsed, is in nobody's hands; what
    the purge loaded is what the row still is; a run that is alone with a request
    knows its status; and behind one that is waited for is a job or the job's run (`Backed`).
  - `PersonalDataHolds`: a deletion has reached only rows that are there and that it may take
    (`Reaches`), and of every person it takes all that must go from the tables it has
    passed (`Covered`, `Complete`). That needs the order of the statements: the profile first.
    `SetToSeqLists` shows that the list of a finite set has each of its members in it.
  - `UsageHolds`: what has left the raw rows is of days that are counted and older than the
    chart (`RowsInv`), and the counter of a month has been through at most two windows
    (`QuotaInv`), which is why the clamp of its timer must be half a month or more.
- **BackOfficeProofs**, in five parts. In the first four the invariant says what a request under way may still
  believe of the row it loaded, and a history variable marks the requests of which that is no longer so.
  - `TicketsHold`: who was not overtaken knows the ticket as it is (`UpToDate`); what a request is about to
    write serves the message it has just inserted (`Serves`); the status keeps whose turn it is (`TurnKept`).
  - `ArticlesHold`: an article nobody overtook is saved as its editor saw it (`NotOvertaken`); a link
    given to readers leads to its entry over at most one redirect (`Reachable`), as a slug
    in use is never also an old one (`SlugsClear`).
  - `NoticesHold`: a viewer's page holds what was live and theirs when it was asked for (`SeesRight`).
  - `WaitingListHolds`: what staff's page or a click has loaded of an entry (`Known`), and what the visitor
    may have been sent (`Visitor`).
  - `FiguresCorrect` (FiguresHold): the invariant says no more than that rows are of their kinds, no refund
    exceeds its charge and no charge is ahead of the clock; the work is in the arithmetic. A sum is how many units
    it is of (`Total`), so sums over sets of rows that have nothing in common add up because the sets do
    (`PartsAddUp` builds the bijection, `SumOfParts` and `SumOfTwo` apply it). Each day back from today is in
    one bar (`BarsSplit`), and a charge of the window is of one of these days or of the part of a day before them
    (`RowsOfBars`). The powers of ten exist, grow and enclose every amount (`TenTo`, `MagnitudeIs`: by minimal
    counterexamples), which decides between the steps of the axis (`StepIs`, `AxisClears`). First
    payments and workspaces that have paid are matched one to one (`CustomersAgree`).

  Its constants need little: a bound on messages, days or seconds is at least one, and "no row" is not a row.
- **BillingProofs** has two more parts, which share nothing with the first.
  - `MoneyHolds`: what a row says is what the webhooks posted to it add up to (`Sums`), the
    receipt of an order is out, owed by a handler or on record as unsaid (`Receipted`), and a handler
    knows the row as it was when it looked (`Handles`). What is mixed is marked as such before it is written.
  - `CheckoutHolds`: every plan has news that named it (`PlanGrounded`), every row and webhook a
    checkout (`Grounded`), a row says what the last webhook said (`KeepsWhatWasTold`), and the
    visit at the portal is about one of the visitor's rows (`AtPortal`).

Two properties of Exports were strengthened by their proof: ExpiredMeansGone and
SomethingIsBehindIt had an exception for requests two runs had met, and a run of any kind counted as
something behind a request. The proof needed neither; TLC agrees.

Only model-checked:

- every liveness property (NothingStandsStill, SettlesAndHeals, EveryRequestEnds, EventuallyPurged, CountsHeal,
  ApprovalTakesEffect): fairness and ENABLED are beyond the prover;
- EntitlementFollowsMirror, the half of MirrorSound that is not TypeOK (section 7);
- the four runs of section 4, which are counterexamples.


## 6. Known behaviour outside the properties

Met while modelling, read in the code, and not the subject of a run. They bound what the
passing runs may be quoted for; where a property carries an exception (a history
variable such as `mixed`, `overtook`, `late`, `crossed`), it is for one of these.

- Job queue. Mutual exclusion fails once a worker was killed at "work" (TLC finds it with
  two workers, one job and one kill): two pollers read the same expired reservation,
  the first releases it and claims the job, the release of the second, which is not
  conditional on the holder (queue_service.ts:191), frees it again and a third
  claim succeeds; queue_service.ts:28 says two workers can never hold the same job. A
  stale worker's fail() also writes an older count over a newer one and takes
  back a parking, and a candidate read before the job failed is still claimed after it.
  `SwapAndCountHold` and `RowsTellTheTruth` except just these: what is done by or to a worker under
  whom another released the job (`undercut`) or saved a try or retry (`overwritten`, `misjudged`).
- Billing. The next webhook un-suspends a workspace staff suspended
  (webhook_handler.ts:198; docs/billing-and-plans.md:141 says suspension is
  staff's). Cancelling an old subscription drops a workspace that has a newer
  one to Free (webhook_handler.ts:191). Two handlers at once let a late event
  overwrite a newer row (`outrun` in LateNeverUndoes), and tell of one transition twice; two moves
  within a tick, written out of order, do so as well (`retold` in ToldOnce). A watermark from the wall
  clock can drop a newer event (webhook_handler.ts:102).
- Payments. A charge replayed after a dispute clears the dispute, and a dispute that
  comes before its charge is lost; with the refund first, or a kill before the mail,
  there is no receipt; two refunds handled at once can shrink the refunded amount;
  the order of checkout.completed is never recorded (creem.ts:25-28 against
  webhook_handler.ts:36-54).
- Checkout. Of two checkouts that were both paid the portal shows the newest only, and
  cancelling one drops the plan to Free. A visit to the portal that repairs the
  customer id moves `updated_at`, so webhooks still to come that are older than the visit are
  dropped. A status the provider never documented becomes active. creem.ts:209-212 speaks of an
  answer that webhook_controller.ts:60-77 gives as a 200 with a line in the log.
- Figures. The headline counts from this moment back and includes part of a day that no bar
  shows (`BarsAddUp` says exactly this); revenueThisMonth counts only rows that are still
  "succeeded", and a first payment that is refunded makes the second one the first.
- Workspace. Two requests can leave two open invitations for one address
  (invitation_service.ts:58). Somebody removed cannot accept a new invitation to
  the same address (:203), as the user row is still there. Deletion leaves
  whoever joins after its first statement a live member of a deleted workspace
  (membership_service.ts:106).
- Files. Two deletions of one file give its bytes back twice (file_service.ts:198).
  An avatar or logo that is no image has already retired the old one when it is
  refused (profile_controller.ts:54). A kill between retiring and saving leaves
  the old key on the user. A privacy erasure gives back bytes it read outside the lock.
- Lists. A todo added while its list is being deleted stays live in a deleted
  list (list_service.ts:192, against the comment at 185). The recount can write
  a stale number over a correct one; `CountsHeal` shows it does not last. A drag next to a
  neighbour deleted meanwhile lands elsewhere (todo_service.ts:202-205); a kill in
  the middle of renumbering, or a drag during it, changes the order
  (normalize_positions_job.ts:45). Renaming a list checks the names without a lock.
- Erasure. A cancellation that read the request before staff approved it is written after
  (deletion_service.ts:209): if the run had already committed, the person is told
  "Your account is unchanged" and it is gone. Two overlapping runs of one
  deletion, of which the one that erased is killed before it completes: the other
  loaded the request before the address was kept and the user after it was
  overwritten, so nobody is told and the address stays on the completed request
  (:433). The role of the user is
  loaded before the workspace is locked (:385, :416): ownership handed over in between does not
  spare the workspace, which ErasedByConsent allows by naming whoever *was* owner.
  The goodbye is sent after the address is cleared, so a kill between the two loses it (:502).
  GoodbyeIsSaid excepts these two kills and nothing else (`cut`). A worker
  killed before the commit on the last try of its job leaves the request processing, which
  retry refuses (:333), until staff retry the parked job.
- Personal data. A kill between the commit and afterCommit leaves stored objects; a profile saved
  by a request let in before the deletion puts name and address back; a person's own
  address stays in invitations that others sent; a file deleted between the section
  of an export and its packing is listed and neither packed nor named missing.
- Exports. An export stays processing when the job met the run at once
  (privacy_service.ts:275-281); a failed export leaves its object, and so does a delete
  that storage refuses.
- Sign-in and sign-up. Two requests for a link that overlap leave two links that work
  (auth_token_service.ts:44). Enrolling in two tabs, or spending a recovery code while another
  is spent, writes the older set back (two_factor_service.ts:105). Two registrations of one
  company name at once fail on the slug's index (slug.ts:44-47).
- API. The day whose rows are half pruned is recomputed from what is left
  (rollup_api_usage_job.ts:26-28 against 51-97); the limiter's timer is clamped to 20 days, so the
  counter of a month restarts once (api_rate_limit.ts:23-41); the figure of the month is short
  on its 31st day (usage_service.ts:26-28).
- Staff. An account made on the screen has no second factor, cannot sign in, and the command
  that could enrol it refuses an address that exists (staff_controller.ts:55-58,
  admin/session_controller.ts:40-46). Two admins who disable each other at once both succeed
  (staff_controller.ts:78-86; `lateToggle`). An impersonation outlives the sign-out of the
  tenant's session (impersonation.ts:141-144).
- Waiting list, support, content, notifications. A conversion that loaded the entry before overrides a
  cancellation. Two replies at once: the later save wins over status and first_responded_at
  (support_service.ts:165-166). An old link stops landing once the date is moved past today;
  overlapping edits, publishing and deletion undo each other (content_service.ts:153-155); a
  scheduled post whose date is cleared never goes live (:276). An announcement
  published in the second of a visit is never new, and beyond CANDIDATE_LIMIT old live ones are
  hidden (notification_service.ts:98).

## 7. What is not modelled, and the plan

PROJECT.json "components" has every part with its status and reason. Not modelled at
all: mail rendering, site settings (a key-value table), the scheduler (its
promise is the fairness of the nightly jobs), middleware and policies (where one decides
an outcome it is a guard), landing pages, views, validators, configuration,
migrations and seeding. Within modelled parts: renaming, time zones and mail of Workspace;
names and archiving of Lists; limit overrides of Billing; signed URLs,
content sniffing and the nightly report of Files; sessions of tenants, password
hashing and throttles; rendering of Content.

The plan. Every safety property that a passing run checks is a theorem, but for one: that the entitlement
follows the mirror (EntitlementFollowsMirror of `MirrorSound`) is model-checked only. It needs that no
handler is killed or throws between the row and its effects, and a theorem would have to assume so.
