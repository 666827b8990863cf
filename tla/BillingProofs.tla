---------------------------- MODULE BillingProofs ----------------------------
(***************************************************************************)
(* Theorems about Billing for any number of subscriptions, plans, handlers *)
(* and staff, any kills and throws and every order of the provider's       *)
(* events; about the rows of payments (Payments); and about checkouts and  *)
(* the provider's portal (Checkout). The three share no state.             *)
(***************************************************************************)
EXTENDS Billing, Payments, Checkout, TLAPS, FiniteSetTheorems, WellFoundedInduction

-----------------------------------------------------------------------------
(* A set of events that is not empty has a last one.                       *)

LEMMA HasLast ==
  ASSUME NEW n \in Nat, NEW C \in SUBSET (1..n), C # {}
  PROVE  \E e \in C : \A f \in C : f <= e
<1> DEFINE S == 1..n
           After(e) == {f \in C : f > e}
           T == {After(e) : e \in C}
           R == StrictSubsetOrdering(S)
<1>1. IsFiniteSet(S) BY FS_Interval
<1>2. IsWellFoundedOn(R, SUBSET S)
  BY <1>1, FS_StrictSubsetOrderingWellFounded, FS_FiniteSubsetsOfFinite, Zenon
<1>3. T \subseteq SUBSET S /\ T # {}
  OBVIOUS
<1>4. \E x \in T : \A y \in T : ~(<<y, x>> \in R)
  <2> HIDE DEF S, T, R
  <2> QED BY <1>2, <1>3, WFMin, Zenon
<1>5. PICK e \in C : \A y \in T : ~(<<y, After(e)>> \in R)
  <2> HIDE DEF R
  <2> QED BY <1>4
<1>6. ASSUME NEW f \in C, f > e PROVE FALSE
  <2>1. f \in After(e) /\ f \notin After(f)
    BY <1>6
  <2>2. After(f) \subseteq After(e)
    <3> SUFFICES ASSUME NEW k \in After(f) PROVE k \in After(e) OBVIOUS
    <3>1. k \in C /\ k > f /\ f > e BY <1>6
    <3>2. e \in Int /\ f \in Int /\ k \in Int BY <3>1
    <3>3. k > e BY <3>1, <3>2
    <3> QED BY <3>1, <3>3
  <2>3. <<After(f), After(e)>> \in R
    BY <2>1, <2>2 DEF StrictSubsetOrdering
  <2> QED BY <1>5, <2>3
<1> QED BY <1>6

LEMMA LatestIsLast ==
  ASSUME NEW s, Len(events) \in Nat, Changes(s) # {}
  PROVE  Latest(s) \in Changes(s) /\ \A f \in Changes(s) : f <= Latest(s)
<1>1. Changes(s) \in SUBSET (1..Len(events)) BY DEF Changes, Told
<1>2. \E e \in Changes(s) : \A f \in Changes(s) : f <= e
  <2> DEFINE C == Changes(s)
             n == Len(events)
  <2> HIDE DEF C, n
  <2>1. n \in Nat /\ C \in SUBSET (1..n) /\ C # {} BY <1>1 DEF C, n
  <2>2. \E e \in C : \A f \in C : f <= e BY <2>1, HasLast
  <2> QED BY <2>2 DEF C
<1> QED BY <1>2 DEF Latest

-----------------------------------------------------------------------------
(* The shapes of what is stored and of what a handler holds.               *)

EventSet == [sub : Subs, status : Statuses, product : Products, tagged : BOOLEAN,
             at : 0..MaxNow]
RowSet == [status : AnyStatus, plan : PlanKeys, period : 0..MaxEvents, updated : 0..MaxNow]
Ats == {"idle", "resolve", "guard", "fetch", "save", "plan", "standing", "notify", "mark",
        "look", "fix", "load", "ask", "toggle", "grant"}
HandlerSet ==
  [at : Ats, kind : {"none", "webhook", "replay", "reconcile", "sync", "suspend", "override"},
   ev : 0..MaxEvents, sub : Subs \cup {None}, new : ColumnSet, old : ColumnSet,
   prev : AnyStatus, org : OrgSet, look : SUBSET Subs, rows : [Subs -> ColumnSet],
   fix : [Subs -> AnyStatus]]

Stored ==
  /\ now \in 0..MaxNow
  /\ events \in Seq(EventSet) /\ Len(events) <= MaxEvents
  /\ ledger \in [Ids -> {"none", "received", "processed"}]
  /\ job \in [Ids -> {"none", "due", "running", "parked", "done"}]
  /\ since \in [Ids -> -1..MaxNow] /\ tries \in [Ids -> Nat]
  /\ mirror \in [Subs -> RowSet] /\ org \in OrgSet
  /\ mails \in [Ids -> 0..2] /\ comped \subseteq PlanKeys /\ crashes \in 0..MaxCrashes

\* Which errand is at which statement.
Stage(r) ==
  /\ r.at = "idle" => r.kind = "none"
  /\ r.at \in {"resolve", "guard", "fetch", "notify", "mark"} => r.kind \in {"webhook", "replay"}
  /\ r.at = "save" => r.kind \in {"webhook", "replay", "sync"}
  /\ r.at \in {"plan", "standing"} => r.kind \in {"webhook", "replay", "sync", "reconcile"}
  /\ r.at \in {"look", "fix", "load"} => r.kind = "reconcile"
  /\ r.at = "ask" => r.kind = "sync"
  /\ r.at = "toggle" => r.kind = "suspend"
  /\ r.at = "grant" => r.kind = "override"

\* Some product the provider named, or staff, stand behind a plan.
Backed(k) == k = "free" \/ k \in comped \/ \E e \in Told : events[e].product = k

\* What a handler holds was stored once, or came with its event.
Sound(r) ==
  /\ r \in HandlerSet /\ Stage(r)
  /\ r.kind \in {"webhook", "replay"} =>
       r.ev \in Told /\ (r.at # "resolve" => r.sub = events[r.ev].sub)
  /\ r.kind = "sync" => r.sub \in Subs /\ Changes(r.sub) # {}
  /\ \A s \in r.look : Changes(s) # {}
  /\ r.kind # "override" => Backed(r.new.plan)
  /\ Backed(r.old.plan) /\ \A s \in Subs : Backed(r.rows[s].plan)

Handlers == /\ proc \in [Procs -> HandlerSet]
            /\ \A p \in Procs : Sound(proc[p])

Books ==
  /\ Backed(org.plan)
  /\ \A s \in Subs : Backed(mirror[s].plan) /\ (Known(s) => Changes(s) # {})

RunBy(w, e) == proc[w].ev = e /\ proc[w].kind = "webhook"

Queue ==
  \A e \in Ids :
    /\ ledger[e] # "none" \/ job[e] # "none" => e \in Told
    /\ ledger[e] = "received" => job[e] \in {"due", "running", "parked"}
    /\ job[e] = "running" => \E w \in Workers : RunBy(w, e)

BillingInv == Stored /\ Handlers /\ Books /\ Queue

USE BillingAssumption

-----------------------------------------------------------------------------
LEMMA FreeIsSound == Sound(Free)
<1>1. NoColumns \in ColumnSet BY DEF NoColumns, ColumnSet, AnyStatus, PlanKeys
<1>2. NewOrg \in OrgSet BY DEF NewOrg, OrgSet, PlanKeys
<1>3. Free \in HandlerSet
  BY <1>1, <1>2 DEF Free, HandlerSet, Ats, AnyStatus
<1> QED BY <1>3 DEF Sound, Stage, Free, Backed, NoColumns

LEMMA InitBillingInv == Init => BillingInv
<1> SUFFICES ASSUME Init PROVE BillingInv
  OBVIOUS
<1>1. Stored
  BY DEF Init, Stored, NoMirror, NewOrg, RowSet, OrgSet, AnyStatus, PlanKeys
<1>2. Handlers
  <2>1. Sound(Free) /\ Free \in HandlerSet BY FreeIsSound DEF Sound
  <2> QED BY <2>1 DEF Init, Handlers
<1>3. Books
  BY DEF Init, Books, Backed, NewOrg, NoMirror, Known
<1>4. Queue
  BY DEF Init, Queue
<1> QED BY <1>1, <1>2, <1>3, <1>4 DEF BillingInv

\* What stood behind a plan still does.
LEMMA SoundStays ==
  ASSUME events' = events, comped \subseteq comped', NEW h, Sound(h)
  PROVE  Sound(h)'
<1>1. \A k : Backed(k) => Backed(k)' BY DEF Backed, Told
<1> QED BY <1>1 DEF Sound, Told, Changes

\* One handler moves.
LEMMA HandlerMoves ==
  ASSUME Handlers, NEW p \in Procs, NEW r, Sound(r), proc' = [proc EXCEPT ![p] = r],
         events' = events, comped \subseteq comped'
  PROVE  Handlers'
<1>1. r \in HandlerSet BY DEF Sound
<1>2. proc' \in [Procs -> HandlerSet] BY <1>1 DEF Handlers
<1>3. \A q \in Procs : proc'[q] = IF q = p THEN r ELSE proc[q] BY DEF Handlers
<1>4. \A q \in Procs : Sound(proc[q])'
  <2> SUFFICES ASSUME NEW q \in Procs PROVE Sound(proc[q])'
    OBVIOUS
  <2>1. Sound(proc[q]) BY DEF Handlers
  <2>2. Sound(proc'[q]) BY <1>3, <2>1
  <2> DEFINE h == proc'[q]
  <2> QED BY <2>2, <1>3, SoundStays
<1> QED BY <1>2, <1>4 DEF Handlers

LEMMA BooksStay ==
  ASSUME Books, UNCHANGED <<events, mirror, org>>, comped \subseteq comped'
  PROVE  Books'
<1>1. \A k : Backed(k) => Backed(k)' BY DEF Backed, Told
<1> QED BY <1>1 DEF Books, Known, Changes, Told

\* A handler may leave its job only by settling it.
KeepsJob(h, r) == h.kind = "webhook" => r.kind = "webhook" /\ r.ev = h.ev

LEMMA QueueStays ==
  ASSUME BillingInv, NEW p \in Procs, NEW r, proc' = [proc EXCEPT ![p] = r],
         UNCHANGED <<events, ledger, job>>, KeepsJob(proc[p], r)
  PROVE  Queue'
<1>1. \A q \in Procs : proc'[q] = IF q = p THEN r ELSE proc[q] BY DEF BillingInv, Handlers
<1>2. \A w \in Workers : \A e : RunBy(w, e) => RunBy(w, e)'
  BY <1>1 DEF RunBy, KeepsJob, Procs
<1> QED BY <1>2 DEF BillingInv, Queue, Told

LEMMA OnlyMoves ==
  ASSUME BillingInv, NEW p \in Procs, NEW r, Sound(r), KeepsJob(proc[p], r),
         proc' = [proc EXCEPT ![p] = r], UNCHANGED <<now, events, db, mails, comped, crashes>>
  PROVE  BillingInv'
<1>1. Handlers' BY HandlerMoves DEF BillingInv
<1>2. Books' BY BooksStay DEF BillingInv, db
<1>3. Queue' BY QueueStays DEF db
<1>4. Stored' BY DEF BillingInv, Stored, db
<1> QED BY <1>1, <1>2, <1>3, <1>4 DEF BillingInv

\* What a sound handler knows of the event it is about.
LEMMA EventHeld ==
  ASSUME BillingInv, NEW p \in Procs, proc[p].kind \in {"webhook", "replay"}
  PROVE  /\ proc[p].ev \in Told /\ events[proc[p].ev] \in EventSet
         /\ proc[p].ev \in Changes(events[proc[p].ev].sub)
         /\ Backed(events[proc[p].ev].product)
         /\ events[proc[p].ev].sub \in Subs /\ events[proc[p].ev].status \in Statuses
         /\ events[proc[p].ev].product \in Products /\ proc[p].ev \in 0..MaxEvents
<1>1. proc[p].ev \in Told BY DEF BillingInv, Handlers, Sound
<1>2. events[proc[p].ev] \in EventSet BY <1>1 DEF BillingInv, Stored, Told
<1>3. proc[p] \in HandlerSet BY DEF BillingInv, Handlers
<1> QED BY <1>1, <1>2, <1>3 DEF Changes, Backed, EventSet, HandlerSet

LEMMA RowHeld ==
  ASSUME BillingInv, NEW s \in Subs
  PROVE  /\ mirror[s] \in RowSet /\ Backed(mirror[s].plan) /\ mirror[s].plan \in PlanKeys
         /\ mirror[s].status \in AnyStatus /\ mirror[s].period \in 0..MaxEvents
         /\ Columns(mirror[s]) \in ColumnSet /\ Backed(Columns(mirror[s]).plan)
<1>1. mirror[s] \in RowSet /\ Backed(mirror[s].plan) BY DEF BillingInv, Stored, Books
<1> QED BY <1>1 DEF Columns, RowSet, ColumnSet

LEMMA GuardKeeps == ASSUME BillingInv, NEW p \in Procs, Guard(p) PROVE BillingInv'
<1> DEFINE h == proc[p]
           e == events[h.ev]
           row == mirror[e.sub]
           plan == IF e.product # None THEN e.product ELSE PlanOfUnknown(row)
           new == [status |-> e.status, plan |-> plan, period |-> h.ev]
           r == IF Late(e, row) THEN [h EXCEPT !.at = "mark"]
                ELSE [h EXCEPT !.at = "fetch", !.prev = row.status, !.new = new]
<1>1. h.at = "guard" /\ h \in HandlerSet /\ Sound(h) /\ Stage(h)
  BY DEF Guard, BillingInv, Handlers, Sound
<1>2. h.kind \in {"webhook", "replay"} BY <1>1 DEF Stage
<1>3. /\ h.ev \in Told /\ e.sub \in Subs /\ e.status \in Statuses /\ e.product \in Products
      /\ Backed(e.product) /\ h.ev \in 0..MaxEvents
  BY <1>2, EventHeld
<1>4. row.status \in AnyStatus /\ row.plan \in PlanKeys /\ Backed(row.plan)
  <2> HIDE DEF e
  <2> QED BY <1>3, RowHeld
<1>5. plan \in PlanKeys /\ Backed(plan)
  <2> HIDE DEF e, row
  <2> QED BY <1>3, <1>4 DEF PlanKeys, PlanOfUnknown
<1>7. new \in ColumnSet
  <2> HIDE DEF plan, e, h
  <2> QED BY <1>3, <1>5 DEF ColumnSet, AnyStatus
<1>9. r \in HandlerSet /\ r.at \in {"mark", "fetch"} /\ r.kind = h.kind /\ r.ev = h.ev
      /\ r.sub = h.sub /\ r.old = h.old /\ r.look = h.look /\ r.rows = h.rows
      /\ r.new \in {h.new, new}
  <2> HIDE DEF h, new, row, e
  <2>1. CASE Late(e, row) BY <1>1, <2>1 DEF HandlerSet, Ats
  <2>2. CASE ~Late(e, row) BY <1>1, <1>4, <1>7, <2>2 DEF HandlerSet, Ats
  <2> QED BY <2>1, <2>2
<1>10. Backed(new.plan) BY <1>5
<1>11. Sound(r) /\ KeepsJob(h, r)
  <2> HIDE DEF r, new, plan, row, e
  <2> QED BY <1>1, <1>2, <1>9, <1>10 DEF Sound, Stage, KeepsJob
<1>12. proc' = [proc EXCEPT ![p] = r] /\ UNCHANGED <<now, events, db, mails, comped, crashes>>
  BY DEF Guard, Goes, Becomes
<1> HIDE DEF r
<1> QED BY <1>11, <1>12, OnlyMoves

LEMMA ResolveGoesOn ==
  ASSUME BillingInv, NEW p \in Procs, Resolve(p),
         Known(events[proc[p].ev].sub) \/ events[proc[p].ev].tagged
  PROVE  BillingInv'
<1> DEFINE h == proc[p]
           e == events[h.ev]
           r == [h EXCEPT !.at = "guard", !.sub = e.sub, !.org = org]
<1>1. h.at = "resolve" /\ h \in HandlerSet /\ Sound(h) /\ Stage(h)
  BY DEF Resolve, BillingInv, Handlers, Sound
<1>2. h.kind \in {"webhook", "replay"} BY <1>1 DEF Stage
<1>3. h.ev \in Told /\ e.sub \in Subs BY <1>2, EventHeld
<1>4. org \in OrgSet BY DEF BillingInv, Stored
<1>5. /\ r \in HandlerSet /\ r.at = "guard" /\ r.kind = h.kind /\ r.ev = h.ev /\ r.sub = e.sub
      /\ r.old = h.old /\ r.look = h.look /\ r.rows = h.rows /\ r.new = h.new
  <2> HIDE DEF h, e
  <2> QED BY <1>1, <1>3, <1>4 DEF HandlerSet, Ats
<1>6. Sound(r) /\ KeepsJob(h, r)
  <2> HIDE DEF r
  <2> QED BY <1>1, <1>2, <1>5 DEF Sound, Stage, KeepsJob
<1>7. proc' = [proc EXCEPT ![p] = r] /\ UNCHANGED <<now, events, db, mails, comped, crashes>>
  BY DEF Resolve, Becomes
<1> HIDE DEF r
<1> QED BY <1>6, <1>7, OnlyMoves

LEMMA FetchKeeps == ASSUME BillingInv, NEW p \in Procs, Fetch(p) PROVE BillingInv'
<1> DEFINE h == proc[p]
           c == Columns(mirror[h.sub])
           r == [h EXCEPT !.at = "save", !.old = c]
<1>1. h.at = "fetch" /\ h \in HandlerSet /\ Sound(h) /\ Stage(h)
  BY DEF Fetch, BillingInv, Handlers, Sound
<1>2. h.kind \in {"webhook", "replay"} BY <1>1 DEF Stage
<1>3. h.sub \in Subs
  <2>1. events[h.ev].sub \in Subs BY <1>2, EventHeld
  <2> QED BY <1>1, <1>2, <2>1 DEF Sound
<1>4. c \in ColumnSet /\ Backed(c.plan) BY <1>3, RowHeld
<1>5. /\ r \in HandlerSet /\ r.at = "save" /\ r.kind = h.kind /\ r.ev = h.ev /\ r.sub = h.sub
      /\ r.old = c /\ r.look = h.look /\ r.rows = h.rows /\ r.new = h.new
  <2> HIDE DEF h, c
  <2> QED BY <1>1, <1>4 DEF HandlerSet, Ats
<1>6. Sound(r) /\ KeepsJob(h, r)
  <2> HIDE DEF r, c
  <2> QED BY <1>1, <1>2, <1>4, <1>5 DEF Sound, Stage, KeepsJob
<1>7. proc' = [proc EXCEPT ![p] = r] /\ UNCHANGED <<now, events, db, mails, comped, crashes>>
  BY DEF Fetch, Becomes
<1> HIDE DEF r
<1> QED BY <1>6, <1>7, OnlyMoves

\* A handler moves and saves the mirror, the workspace, or neither.
LEMMA SavesAndMoves ==
  ASSUME BillingInv, NEW p \in Procs, NEW r, Sound(r), KeepsJob(proc[p], r),
         proc' = [proc EXCEPT ![p] = r],
         UNCHANGED <<now, events, ledger, job, tries, since, crashes>>,
         comped \subseteq comped', comped' \subseteq PlanKeys, mails' \in [Ids -> 0..2],
         mirror' \in [Subs -> RowSet], org' \in OrgSet, Books'
  PROVE  BillingInv'
<1>1. Handlers' BY HandlerMoves DEF BillingInv
<1>2. Queue' BY QueueStays
<1>3. Stored' BY DEF BillingInv, Stored
<1> QED BY <1>1, <1>2, <1>3 DEF BillingInv

LEMMA UpdatedIsSound ==
  ASSUME NEW row \in RowSet, NEW old \in ColumnSet, NEW new \in ColumnSet, now \in 0..MaxNow,
         Backed(row.plan), Backed(new.plan)
  PROVE  Updated(row, old, new) \in RowSet /\ Backed(Updated(row, old, new).plan)
<1> DEFINE st == Dirty(row, old, new, "status")
           pl == Dirty(row, old, new, "plan")
           pe == Dirty(row, old, new, "period")
<1>1. st \in AnyStatus /\ pl \in PlanKeys /\ pe \in 0..MaxEvents /\ Backed(pl)
  BY DEF Dirty, RowSet, ColumnSet
<1> HIDE DEF st, pl, pe
<1>2. Updated(row, old, new) =
        IF new = old THEN row ELSE [status |-> st, plan |-> pl, period |-> pe, updated |-> now]
  BY DEF Updated, st, pl, pe
<1> QED BY <1>1, <1>2 DEF RowSet

LEMMA SavingKeeps ==
  ASSUME BillingInv, NEW p \in Procs, Save(p),
         ~(proc[p].old.period = 0 /\ Known(proc[p].sub))
  PROVE  BillingInv'
<1> DEFINE h == proc[p]
           s == h.sub
           row == Updated(mirror[s], h.old, h.new)
           r == [h EXCEPT !.at = "plan", !.old = NoColumns]
<1>1. h.at = "save" /\ h \in HandlerSet /\ Sound(h) /\ Stage(h)
  BY DEF Save, BillingInv, Handlers, Sound
<1>2. h.kind \in {"webhook", "replay", "sync"} BY <1>1 DEF Stage
<1>3. s \in Subs /\ Changes(s) # {}
  <2>1. CASE h.kind = "sync" BY <1>1, <2>1 DEF Sound
  <2>2. CASE h.kind # "sync"
    <3>1. h.kind \in {"webhook", "replay"} BY <1>2, <2>2
    <3>2. s = events[h.ev].sub BY <1>1, <3>1 DEF Sound
    <3> QED BY <3>1, <3>2, EventHeld
  <2> QED BY <2>1, <2>2
<1>4. NoColumns \in ColumnSet /\ Backed(NoColumns.plan)
  BY DEF NoColumns, ColumnSet, AnyStatus, PlanKeys, Backed
<1>5. h.new \in ColumnSet /\ h.old \in ColumnSet /\ Backed(h.new.plan)
  BY <1>1, <1>2 DEF HandlerSet, Sound
<1>6. now \in 0..MaxNow /\ mirror[s] \in RowSet /\ Backed(mirror[s].plan)
  BY <1>3, RowHeld DEF BillingInv, Stored
<1>7. row \in RowSet /\ Backed(row.plan)
  <2> HIDE DEF h, s
  <2> QED BY <1>5, <1>6, UpdatedIsSound
<1>8. /\ r \in HandlerSet /\ r.at = "plan" /\ r.kind = h.kind /\ r.ev = h.ev /\ r.sub = h.sub
      /\ r.old = NoColumns /\ r.look = h.look /\ r.rows = h.rows /\ r.new = h.new
  <2> HIDE DEF h
  <2> QED BY <1>1, <1>4 DEF HandlerSet, Ats
<1>9. Sound(r) /\ KeepsJob(h, r)
  <2> HIDE DEF r
  <2> QED BY <1>1, <1>2, <1>4, <1>5, <1>8 DEF Sound, Stage, KeepsJob
<1>10. /\ proc' = [proc EXCEPT ![p] = r] /\ mirror' = [mirror EXCEPT ![s] = row]
       /\ UNCHANGED <<now, events, ledger, job, tries, since, crashes, mails, comped, org>>
  BY DEF Save, Becomes
<1> HIDE DEF r, row, s, h
<1>11. mirror \in [Subs -> RowSet] /\ org \in OrgSet /\ mails \in [Ids -> 0..2]
       /\ comped \subseteq PlanKeys
  BY DEF BillingInv, Stored
<1>12. mirror' \in [Subs -> RowSet] BY <1>7, <1>10, <1>11
<1>13. \A k : Backed(k) => Backed(k)' BY <1>10 DEF Backed, Told
<1>14. \A t \in Subs : mirror'[t] = IF t = s THEN row ELSE mirror[t] BY <1>10, <1>11
<1>15. \A t \in Subs : Changes(t)' = Changes(t) BY <1>10 DEF Changes, Told
<1>16. Backed(org.plan) /\ \A t \in Subs : Backed(mirror[t].plan) /\ (Known(t) => Changes(t) # {})
  BY DEF BillingInv, Books
<1>17. Backed(org.plan)' BY <1>10, <1>16 DEF Backed, Told
<1>18. ASSUME NEW t \in Subs PROVE Backed(mirror[t].plan)' /\ (Known(t)' => Changes(t)' # {})
  <2>1. CASE t = s
    <3>1. mirror'[t] = row BY <2>1, <1>14
    <3>2. Changes(t)' # {} BY <2>1, <1>3, <1>15 DEF s, h
    <3>3. Backed(mirror[t].plan)' BY <3>1, <1>7, <1>10 DEF Backed, Told
    <3> QED BY <3>2, <3>3
  <2>2. CASE t # s BY <2>2, <1>13, <1>14, <1>15, <1>16 DEF Known
  <2> QED BY <2>1, <2>2
<1>19. Books' BY <1>17, <1>18, <1>10, <1>13, <1>16 DEF Books
<1> QED BY <1>9, <1>10, <1>11, <1>12, <1>19, SavesAndMoves DEF h

\* The workspace is saved and everything else in the books stays.
LEMMA OrgSaved ==
  ASSUME BillingInv, UNCHANGED <<events, mirror>>, comped \subseteq comped', Backed(org.plan)'
  PROVE  Books'
<1>1. \A k : Backed(k) => Backed(k)' BY DEF Backed, Told
<1> QED BY <1>1 DEF BillingInv, Books, Known, Changes, Told

LEMMA ApplyPlanKeeps == ASSUME BillingInv, NEW p \in Procs, ApplyPlan(p) PROVE BillingInv'
<1> DEFINE h == proc[p]
           plan == EntitledPlan(h.new.status, h.new.plan)
           o == [h.org EXCEPT !.plan = plan]
           r == [h EXCEPT !.at = "standing", !.org.plan = plan]
<1>1. h.at = "plan" /\ h \in HandlerSet /\ Sound(h) /\ Stage(h)
  BY DEF ApplyPlan, BillingInv, Handlers, Sound
<1>2. h.kind \in {"webhook", "replay", "sync", "reconcile"} BY <1>1 DEF Stage
<1>3. h.new \in ColumnSet /\ Backed(h.new.plan) /\ h.org \in OrgSet
  BY <1>1, <1>2 DEF HandlerSet, Sound
<1>4. plan \in PlanKeys /\ Backed(plan)
  <2> HIDE DEF h
  <2> QED BY <1>3 DEF EntitledPlan, ColumnSet, PlanKeys, Backed
<1>5. o \in OrgSet
  <2> HIDE DEF h, plan
  <2> QED BY <1>3, <1>4 DEF OrgSet
<1>6. r = [h EXCEPT !.at = "standing", !.org = o]
  <2> HIDE DEF h, plan
  <2> QED BY <1>1 DEF HandlerSet, OrgSet
<1>7. /\ r \in HandlerSet /\ r.at = "standing" /\ r.kind = h.kind /\ r.ev = h.ev /\ r.sub = h.sub
      /\ r.old = h.old /\ r.look = h.look /\ r.rows = h.rows /\ r.new = h.new
  <2> HIDE DEF h, r, o
  <2> QED BY <1>1, <1>5, <1>6 DEF HandlerSet, Ats
<1>8. Sound(r) /\ KeepsJob(h, r)
  <2> HIDE DEF r
  <2> QED BY <1>1, <1>2, <1>7 DEF Sound, Stage, KeepsJob
<1>9. org \in OrgSet /\ Backed(org.plan) BY DEF BillingInv, Stored, Books
<1>10. org' \in OrgSet /\ Backed(org'.plan)
  <2>1. org' = IF h.org.plan = plan THEN org ELSE [org EXCEPT !.plan = plan] BY DEF ApplyPlan
  <2> HIDE DEF plan, h
  <2> QED BY <2>1, <1>4, <1>9 DEF OrgSet
<1>11. /\ proc' = [proc EXCEPT ![p] = r]
       /\ UNCHANGED <<now, events, ledger, job, tries, since, crashes, mails, comped, mirror>>
  BY DEF ApplyPlan, Becomes
<1> HIDE DEF r, plan, o
<1>12. Backed(org.plan)' BY <1>10, <1>11 DEF Backed, Told
<1>13. Books' BY <1>11, <1>12, OrgSaved
<1>14. mirror' \in [Subs -> RowSet] /\ mails' \in [Ids -> 0..2] /\ comped' \subseteq PlanKeys
  BY <1>11 DEF BillingInv, Stored
<1> QED BY <1>8, <1>10, <1>11, <1>13, <1>14, SavesAndMoves

LEMMA ApplyStandingKeeps == ASSUME BillingInv, NEW p \in Procs, ApplyStanding(p) PROVE BillingInv'
<1> DEFINE h == proc[p]
           r == AfterStanding(p)
<1>1. h.at = "standing" /\ h \in HandlerSet /\ Sound(h) /\ Stage(h)
  BY DEF ApplyStanding, BillingInv, Handlers, Sound
<1>2. h.kind \in {"webhook", "replay", "sync", "reconcile"} BY <1>1 DEF Stage
<1>3. Sound(r) /\ KeepsJob(h, r)
  <2>1. CASE h.kind \in {"webhook", "replay"}
    <3>1. r = [h EXCEPT !.at = "notify"] BY <2>1 DEF AfterStanding
    <3>2. /\ r \in HandlerSet /\ r.at = "notify" /\ r.kind = h.kind /\ r.ev = h.ev /\ r.sub = h.sub
          /\ r.old = h.old /\ r.look = h.look /\ r.rows = h.rows /\ r.new = h.new
      <4> HIDE DEF h, r
      <4> QED BY <1>1, <3>1 DEF HandlerSet, Ats
    <3> HIDE DEF r
    <3> QED BY <1>1, <2>1, <3>2 DEF Sound, Stage, KeepsJob
  <2>2. CASE h.kind = "reconcile"
    <3>1. r = [h EXCEPT !.at = "fix"] BY <2>2 DEF AfterStanding
    <3>2. /\ r \in HandlerSet /\ r.at = "fix" /\ r.kind = h.kind /\ r.ev = h.ev /\ r.sub = h.sub
          /\ r.old = h.old /\ r.look = h.look /\ r.rows = h.rows /\ r.new = h.new
      <4> HIDE DEF h, r
      <4> QED BY <1>1, <3>1 DEF HandlerSet, Ats
    <3> HIDE DEF r
    <3> QED BY <1>1, <2>2, <3>2 DEF Sound, Stage, KeepsJob
  <2>3. CASE h.kind = "sync"
    <3>1. r = Free BY <2>3 DEF AfterStanding
    <3> QED BY <3>1, <2>3, FreeIsSound DEF KeepsJob
  <2> QED BY <1>2, <2>1, <2>2, <2>3
<1>4. org \in OrgSet /\ Backed(org.plan) BY DEF BillingInv, Stored, Books
<1>5. org' \in OrgSet /\ org'.plan = org.plan
  <2>1. org' = IF h.org.status = Standing(h.new.status) THEN org
               ELSE [org EXCEPT !.status = Standing(h.new.status)]
    BY DEF ApplyStanding
  <2> HIDE DEF h
  <2> QED BY <2>1, <1>4 DEF OrgSet, Standing
<1>6. /\ proc' = [proc EXCEPT ![p] = r]
      /\ UNCHANGED <<now, events, ledger, job, tries, since, crashes, mails, comped, mirror>>
  BY DEF ApplyStanding, Becomes
<1> HIDE DEF r
<1>7. Backed(org.plan)' BY <1>4, <1>5, <1>6 DEF Backed, Told
<1>8. Books' BY <1>6, <1>7, OrgSaved
<1>9. mirror' \in [Subs -> RowSet] /\ mails' \in [Ids -> 0..2] /\ comped' \subseteq PlanKeys
  BY <1>6 DEF BillingInv, Stored
<1> QED BY <1>3, <1>5, <1>6, <1>8, <1>9, SavesAndMoves

LEMMA NotifyKeeps == ASSUME BillingInv, NEW p \in Procs, Notify(p) PROVE BillingInv'
<1> DEFINE h == proc[p]
           r == [h EXCEPT !.at = "mark"]
<1>1. h.at = "notify" /\ h \in HandlerSet /\ Sound(h) /\ Stage(h)
  BY DEF Notify, BillingInv, Handlers, Sound
<1>2. h.kind \in {"webhook", "replay"} BY <1>1 DEF Stage
<1>3. /\ r \in HandlerSet /\ r.at = "mark" /\ r.kind = h.kind /\ r.ev = h.ev /\ r.sub = h.sub
      /\ r.old = h.old /\ r.look = h.look /\ r.rows = h.rows /\ r.new = h.new
  <2> HIDE DEF h
  <2> QED BY <1>1 DEF HandlerSet, Ats
<1>4. Sound(r) /\ KeepsJob(h, r)
  <2> HIDE DEF r
  <2> QED BY <1>1, <1>2, <1>3 DEF Sound, Stage, KeepsJob
<1>5. proc' = [proc EXCEPT ![p] = r] /\ UNCHANGED <<now, events, db, comped, crashes>>
  BY DEF Notify, Goes
<1>6. mails' \in [Ids -> 0..2]
  <2>1. mails \in [Ids -> 0..2] BY DEF BillingInv, Stored
  <2>2. mails' = mails \/ mails' = [mails EXCEPT ![h.ev] = IF @ = 2 THEN 2 ELSE @ + 1]
    BY DEF Notify
  <2> HIDE DEF h
  <2> QED BY <2>1, <2>2
<1> HIDE DEF r
<1>7. Books' BY <1>5, BooksStay DEF BillingInv, db
<1>8. mirror' \in [Subs -> RowSet] /\ org' \in OrgSet /\ comped' \subseteq PlanKeys
  BY <1>5 DEF BillingInv, Stored, db
<1> QED BY <1>4, <1>5, <1>6, <1>7, <1>8, SavesAndMoves DEF db

\* A handler leaves its job as its last step, or a kill does it for it.
LEMMA LeavesJob ==
  ASSUME BillingInv, NEW p \in Procs, proc' = [proc EXCEPT ![p] = Free],
         UNCHANGED <<now, events, mirror, org, mails, comped>>, crashes' \in 0..MaxCrashes,
         ledger' \in [Ids -> {"none", "received", "processed"}],
         job' \in [Ids -> {"none", "due", "running", "parked", "done"}],
         tries' \in [Ids -> Nat], since' \in [Ids -> -1..MaxNow],
         \A e \in Ids : e # proc[p].ev => ledger'[e] = ledger[e] /\ job'[e] = job[e],
         LET e == proc[p].ev IN
         e \in Ids => \/ ledger'[e] = ledger[e] /\ job'[e] = job[e] /\ proc[p].kind # "webhook"
                      \/ e \in Told /\ job'[e] \in {"due", "parked"}
                      \/ e \in Told /\ ledger'[e] = "processed" /\ job'[e] = "done"
                      \/ e \in Told /\ ledger'[e] = "processed" /\ job'[e] = job[e]
                           /\ proc[p].kind # "webhook"
  PROVE  BillingInv'
<1>1. Handlers' BY FreeIsSound, HandlerMoves DEF BillingInv
<1>2. Books' BY BooksStay DEF BillingInv
<1>3. Stored' BY DEF BillingInv, Stored
<1>4. \A q \in Procs : q # p => proc'[q] = proc[q] BY DEF BillingInv, Handlers
<1>5. Queue /\ Told' = Told BY DEF BillingInv, Told
<1>6. ASSUME NEW e \in Ids, job'[e] = "running" PROVE \E w \in Workers : RunBy(w, e)'
  <2>1. job[e] = "running" BY <1>6
  <2>2. PICK w \in Workers : RunBy(w, e) BY <2>1, <1>5 DEF Queue
  <2>3. w # p BY <1>6, <2>2 DEF RunBy
  <2>4. proc'[w] = proc[w] BY <1>4, <2>3 DEF Procs
  <2> QED BY <2>2, <2>4 DEF RunBy
<1>7. ASSUME NEW e \in Ids
      PROVE  /\ ledger'[e] # "none" \/ job'[e] # "none" => e \in Told
             /\ ledger'[e] = "received" => job'[e] \in {"due", "running", "parked"}
  BY <1>5 DEF Queue
<1>8. Queue' BY <1>5, <1>6, <1>7 DEF Queue
<1> QED BY <1>1, <1>2, <1>3, <1>8 DEF BillingInv

LEMMA ThrowsKeeps ==
  ASSUME BillingInv, NEW p \in Procs, Throws(p), UNCHANGED <<now, events, mails, comped, crashes>>
  PROVE  BillingInv'
<1> DEFINE e == proc[p].ev
<1>1. proc' = [proc EXCEPT ![p] = Free] /\ UNCHANGED <<ledger, mirror, org>>
  BY DEF Throws, Becomes
<1>2. Stored /\ now \in Int /\ now \in -1..MaxNow BY DEF BillingInv, Stored
<1>3. CASE IsJob(p)
  <2>1. job' = FailedJob(e) /\ tries' = [tries EXCEPT ![e] = @ + 1] /\ since' = [since EXCEPT ![e] = now]
    BY <1>3 DEF Throws
  <2>2. e \in Told BY <1>3, EventHeld DEF IsJob
  <2>3. e \in Ids BY <2>2, <1>2 DEF Told, Ids, Stored
  <2> HIDE DEF e
  <2>4. job' \in [Ids -> {"none", "due", "running", "parked", "done"}]
    BY <2>1, <1>2 DEF FailedJob, Stored
  <2>5. job'[e] \in {"due", "parked"} /\ \A f \in Ids : f # e => job'[f] = job[f]
    BY <2>1, <2>3, <1>2 DEF FailedJob, Stored
  <2>6. tries' \in [Ids -> Nat]
    <3>1. tries \in [Ids -> Nat] /\ tries[e] + 1 \in Nat BY <2>3, <1>2 DEF Stored
    <3> QED BY <2>1, <3>1
  <2>7. since' \in [Ids -> -1..MaxNow]
    <3>1. since \in [Ids -> -1..MaxNow] BY <1>2 DEF Stored
    <3> QED BY <2>1, <1>2, <3>1
  <2>8. crashes' \in 0..MaxCrashes /\ ledger' \in [Ids -> {"none", "received", "processed"}]
    BY <1>1, <1>2 DEF Stored
  <2> QED BY <1>1, <2>2, <2>4, <2>5, <2>6, <2>7, <2>8, LeavesJob DEF e
<1>4. CASE ~IsJob(p)
  <2>1. UNCHANGED <<job, tries, since>> BY <1>4 DEF Throws
  <2>2. /\ crashes' \in 0..MaxCrashes /\ ledger' \in [Ids -> {"none", "received", "processed"}]
        /\ job' \in [Ids -> {"none", "due", "running", "parked", "done"}]
        /\ tries' \in [Ids -> Nat] /\ since' \in [Ids -> -1..MaxNow]
    BY <1>1, <1>2, <2>1 DEF Stored
  <2> QED BY <1>1, <1>4, <2>1, <2>2, LeavesJob DEF IsJob
<1> QED BY <1>3, <1>4

LEMMA FlakesKeeps == ASSUME BillingInv, NEW p \in Procs, Flakes(p) PROVE BillingInv'
BY ThrowsKeeps DEF Flakes

LEMMA ResolveKeeps == ASSUME BillingInv, NEW p \in Procs, Resolve(p) PROVE BillingInv'
<1> DEFINE e == events[proc[p].ev]
<1>1. CASE Known(e.sub) \/ e.tagged BY <1>1, ResolveGoesOn
<1>2. CASE ~(Known(e.sub) \/ e.tagged) BY <1>2, ThrowsKeeps DEF Resolve
<1> QED BY <1>1, <1>2

LEMMA SaveKeeps == ASSUME BillingInv, NEW p \in Procs, Save(p) PROVE BillingInv'
<1> DEFINE twice == proc[p].old.period = 0 /\ Known(proc[p].sub)
<1>1. CASE ~twice BY <1>1, SavingKeeps
<1>2. CASE twice BY <1>2, ThrowsKeeps DEF Save
<1> QED BY <1>1, <1>2

LEMMA MarkKeeps == ASSUME BillingInv, NEW p \in Procs, Mark(p) PROVE BillingInv'
<1> DEFINE e == proc[p].ev
<1>1. /\ proc[p].at = "mark" /\ proc' = [proc EXCEPT ![p] = Free]
      /\ ledger' = [ledger EXCEPT ![e] = "processed"]
      /\ job' = IF IsJob(p) THEN [job EXCEPT ![e] = "done"] ELSE job
      /\ UNCHANGED <<now, events, tries, since, mirror, org, mails, comped, crashes>>
  BY DEF Mark, Becomes
<1>2. proc[p].kind \in {"webhook", "replay"} BY <1>1 DEF BillingInv, Handlers, Sound, Stage
<1>3. e \in Told BY <1>2, EventHeld
<1>4. Stored BY DEF BillingInv
<1>5. e \in Ids BY <1>3, <1>4 DEF Told, Ids, Stored
<1> HIDE DEF e
<1>6. /\ ledger' \in [Ids -> {"none", "received", "processed"}] /\ ledger'[e] = "processed"
      /\ \A f \in Ids : f # e => ledger'[f] = ledger[f]
  BY <1>1, <1>4, <1>5 DEF Stored
<1>7. /\ job' \in [Ids -> {"none", "due", "running", "parked", "done"}]
      /\ \A f \in Ids : f # e => job'[f] = job[f]
      /\ job'[e] = IF IsJob(p) THEN "done" ELSE job[e]
  BY <1>1, <1>4, <1>5 DEF Stored
<1>8. crashes' \in 0..MaxCrashes /\ tries' \in [Ids -> Nat] /\ since' \in [Ids -> -1..MaxNow]
  BY <1>1, <1>4 DEF Stored
<1> QED BY <1>1, <1>3, <1>6, <1>7, <1>8, LeavesJob DEF e, IsJob

LEMMA CrashKeeps == ASSUME BillingInv, NEW p \in Procs, Crash(p) PROVE BillingInv'
<1> DEFINE e == proc[p].ev
<1>1. /\ proc' = [proc EXCEPT ![p] = Free] /\ crashes < MaxCrashes /\ crashes' = crashes + 1
      /\ job' = IF IsJob(p) THEN [job EXCEPT ![e] = "due"] ELSE job
      /\ since' = IF IsJob(p) THEN [since EXCEPT ![e] = now] ELSE since
      /\ UNCHANGED <<now, events, ledger, tries, mirror, org, mails, comped>>
  BY DEF Crash, Becomes
<1>2. Stored BY DEF BillingInv
<1>3. IsJob(p) => e \in Told BY EventHeld DEF IsJob
<1> HIDE DEF e
<1>4. /\ job' \in [Ids -> {"none", "due", "running", "parked", "done"}]
      /\ \A f \in Ids : f # e => job'[f] = job[f]
      /\ e \in Ids => job'[e] = IF IsJob(p) THEN "due" ELSE job[e]
  BY <1>1, <1>2 DEF Stored
<1>5. since' \in [Ids -> -1..MaxNow]
  <2>1. since \in [Ids -> -1..MaxNow] /\ now \in -1..MaxNow BY <1>2 DEF Stored
  <2> QED BY <1>1, <2>1
<1>6. crashes' \in 0..MaxCrashes /\ tries' \in [Ids -> Nat]
      /\ ledger' \in [Ids -> {"none", "received", "processed"}] /\ ledger' = ledger
  BY <1>1, <1>2 DEF Stored
<1> QED BY <1>1, <1>3, <1>4, <1>5, <1>6, LeavesJob DEF e, IsJob

LEMMA BeginKeeps ==
  ASSUME BillingInv, NEW w \in Workers, NEW e \in Ids, Begin(w, e)
  PROVE  BillingInv'
<1> DEFINE r == [Free EXCEPT !.at = "resolve", !.kind = "webhook", !.ev = e]
<1>1. /\ proc[w].at = "idle" /\ job[e] = "due"
      /\ UNCHANGED <<now, events, ledger, tries, since, mirror, org, mails, comped, crashes>>
  BY DEF Begin
<1>2. e \in Told /\ e \in 0..MaxEvents /\ w \in Procs
  BY <1>1 DEF BillingInv, Queue, Ids, Procs
<1>3. proc[w].kind = "none" /\ proc \in [Procs -> HandlerSet] /\ Queue /\ Stored
  BY <1>1, <1>2 DEF BillingInv, Handlers, Sound, Stage
<1>4. Books' BY <1>1, BooksStay DEF BillingInv
<1>5. CASE ledger[e] = "processed"
  <2>1. job' = [job EXCEPT ![e] = "done"] /\ proc' = proc BY <1>1, <1>5 DEF Begin
  <2>2. Handlers'
    <3>1. \A q \in Procs : Sound(proc[q])' BY <1>1, <2>1, SoundStays DEF BillingInv, Handlers
    <3> QED BY <2>1, <3>1 DEF BillingInv, Handlers
  <2>3. Stored' BY <1>1, <1>3, <2>1 DEF Stored
  <2>4. Queue' BY <1>1, <1>2, <1>3, <1>5, <2>1 DEF Queue, RunBy, Told, Stored
  <2> QED BY <1>4, <2>2, <2>3, <2>4 DEF BillingInv
<1>6. CASE ledger[e] # "processed"
  <2>1. job' = [job EXCEPT ![e] = "running"] /\ proc' = [proc EXCEPT ![w] = r]
    BY <1>1, <1>6 DEF Begin, Becomes
  <2>2. /\ r \in HandlerSet /\ r.at = "resolve" /\ r.kind = "webhook" /\ r.ev = e
        /\ r.new = NoColumns /\ r.old = NoColumns /\ r.look = {} /\ r.rows = Free.rows
    <3>1. Free \in HandlerSet /\ Free.new = NoColumns /\ Free.old = NoColumns /\ Free.look = {}
      BY FreeIsSound DEF Sound, Free
    <3> HIDE DEF r
    <3> QED BY <1>2, <3>1 DEF HandlerSet, Ats, r
  <2>3. Sound(r)
    <3>1. Sound(Free) /\ NoColumns.plan = "free" BY FreeIsSound DEF NoColumns
    <3> HIDE DEF r
    <3> QED BY <1>2, <2>2, <3>1 DEF Sound, Stage, Backed
  <2> HIDE DEF r
  <2>4. Handlers' BY <1>1, <1>2, <2>1, <2>3, HandlerMoves DEF BillingInv
  <2>5. Stored' BY <1>1, <1>3, <2>1 DEF Stored
  <2>6. /\ job'[e] = "running" /\ \A f \in Ids : f # e => job'[f] = job[f]
        /\ proc'[w] = r /\ \A q \in Procs : q # w => proc'[q] = proc[q]
    BY <1>2, <1>3, <2>1 DEF Stored
  <2>7. ASSUME NEW f \in Ids, job'[f] = "running" PROVE \E v \in Workers : RunBy(v, f)'
    <3>1. CASE f = e BY <3>1, <2>2, <2>6 DEF RunBy
    <3>2. CASE f # e
      <4>1. PICK v \in Workers : RunBy(v, f) BY <2>7, <2>6, <3>2, <1>3 DEF Queue
      <4>2. v # w /\ v \in Procs BY <4>1, <1>3 DEF RunBy, Procs
      <4> QED BY <4>1, <4>2, <2>6 DEF RunBy
    <3> QED BY <3>1, <3>2
  <2>8. ASSUME NEW f \in Ids
        PROVE  /\ ledger'[f] # "none" \/ job'[f] # "none" => f \in Told'
               /\ ledger'[f] = "received" => job'[f] \in {"due", "running", "parked"}
    BY <1>1, <1>2, <1>3, <2>6 DEF Queue, Told
  <2>9. Queue' BY <2>7, <2>8 DEF Queue
  <2> QED BY <1>4, <2>4, <2>5, <2>9 DEF BillingInv
<1> QED BY <1>5, <1>6

LEMMA FreeFields ==
  /\ Free \in HandlerSet /\ Sound(Free) /\ Free.new = NoColumns /\ Free.old = NoColumns
  /\ Free.look = {} /\ Free.new \in ColumnSet /\ Free.new.plan = "free" /\ Free.org \in OrgSet
  /\ Free.fix \in [Subs -> AnyStatus] /\ Free.rows \in [Subs -> ColumnSet]
<1>1. Sound(Free) /\ Free \in HandlerSet BY FreeIsSound DEF Sound
<1> QED BY <1>1 DEF HandlerSet, Free, NoColumns

LEMMA ReplayKeeps ==
  ASSUME BillingInv, NEW p \in Staff, NEW e \in Ids, Replay(p, e)
  PROVE  BillingInv'
<1> DEFINE r == [Free EXCEPT !.at = "resolve", !.kind = "replay", !.ev = e]
<1>1. /\ proc[p].at = "idle" /\ ledger[e] # "none" /\ proc' = [proc EXCEPT ![p] = r]
      /\ UNCHANGED <<now, events, db, mails, comped, crashes>>
  BY DEF Replay, Becomes
<1>2. e \in Told /\ e \in 0..MaxEvents /\ p \in Procs
  BY <1>1 DEF BillingInv, Queue, Ids, Procs
<1>3. proc[p].kind = "none" BY <1>1, <1>2 DEF BillingInv, Handlers, Sound, Stage
<1>4. /\ r \in HandlerSet /\ r.at = "resolve" /\ r.kind = "replay" /\ r.ev = e
      /\ r.new = Free.new /\ r.old = Free.old /\ r.look = {} /\ r.rows = Free.rows
  <2> HIDE DEF r
  <2> QED BY <1>2, FreeFields DEF HandlerSet, Ats, r
<1> HIDE DEF r
<1>5. Sound(r) BY <1>2, <1>4, FreeFields DEF Sound, Stage, Backed
<1> QED BY <1>1, <1>2, <1>3, <1>5, OnlyMoves DEF KeepsJob

LEMMA ScanKeeps == ASSUME BillingInv, NEW p \in Workers, Scan(p) PROVE BillingInv'
<1> DEFINE rows == [s \in Subs |-> Columns(mirror[s])]
           r == [Free EXCEPT !.at = "look", !.kind = "reconcile", !.look = LiveRows, !.rows = rows]
<1>1. /\ proc[p].at = "idle" /\ proc' = [proc EXCEPT ![p] = r]
      /\ UNCHANGED <<now, events, db, mails, comped, crashes>>
  BY DEF Scan, Becomes
<1>2. p \in Procs /\ proc[p].kind = "none"
  BY <1>1 DEF BillingInv, Handlers, Sound, Stage, Procs
<1>3. rows \in [Subs -> ColumnSet] /\ \A s \in Subs : Backed(rows[s].plan) BY RowHeld
<1>4. LiveRows \subseteq Subs /\ \A s \in LiveRows : Changes(s) # {}
  BY DEF LiveRows, BillingInv, Books
<1> HIDE DEF rows
<1>5. /\ r \in HandlerSet /\ r.at = "look" /\ r.kind = "reconcile" /\ r.look = LiveRows
      /\ r.new = Free.new /\ r.old = Free.old /\ r.rows = rows
  <2> HIDE DEF r
  <2> QED BY <1>3, <1>4, FreeFields DEF HandlerSet, Ats, r
<1> HIDE DEF r
<1>6. Sound(r) BY <1>3, <1>4, <1>5, FreeFields DEF Sound, Stage, Backed
<1> QED BY <1>1, <1>2, <1>6, OnlyMoves DEF KeepsJob

LEMMA LookedKeeps ==
  ASSUME BillingInv, NEW p \in Workers, NEW s \in Subs, NEW fix \in AnyStatus, Looked(p, s, fix)
  PROVE  BillingInv'
<1> DEFINE h == proc[p]
           at == IF h.look = {s} THEN "fix" ELSE "look"
           look == h.look \ {s}
           fixes == [h.fix EXCEPT ![s] = fix]
           r == [h EXCEPT !.look = @ \ {s}, !.fix[s] = fix, !.at = at]
<1>1. /\ h.at = "look" /\ proc' = [proc EXCEPT ![p] = r]
      /\ UNCHANGED <<now, events, db, mails, comped, crashes>>
  BY DEF Looked, Becomes
<1>2. p \in Procs /\ h \in HandlerSet /\ Sound(h) /\ h.kind = "reconcile"
  BY <1>1 DEF BillingInv, Handlers, Sound, Stage, Procs
<1>3. fixes \in [Subs -> AnyStatus] /\ look \subseteq Subs /\ at \in {"fix", "look"}
  BY <1>2 DEF HandlerSet
<1>4. r = [h EXCEPT !.look = look, !.fix = fixes, !.at = at]
  <2> HIDE DEF h
  <2> QED BY <1>2 DEF HandlerSet
<1>5. look \subseteq h.look OBVIOUS
<1> HIDE DEF r, look, fixes, at
<1>6. /\ r \in HandlerSet /\ r.at \in {"fix", "look"} /\ r.kind = "reconcile" /\ r.look = look
      /\ r.new = h.new /\ r.old = h.old /\ r.rows = h.rows
  <2> HIDE DEF h
  <2> QED BY <1>2, <1>3, <1>4 DEF HandlerSet, Ats
<1>7. Sound(r) BY <1>2, <1>5, <1>6 DEF Sound, Stage
<1> QED BY <1>1, <1>2, <1>7, OnlyMoves DEF KeepsJob

LEMMA AnsweredKeeps ==
  ASSUME BillingInv, NEW p \in Workers, NEW s \in Subs, Answered(p, s)
  PROVE  BillingInv'
<1>1. s \in proc[p].look BY DEF Answered, Looked
<1>2. Changes(s) # {} BY <1>1 DEF BillingInv, Handlers, Sound, Procs
<1>3. events \in Seq(EventSet) /\ Len(events) \in Nat BY DEF BillingInv, Stored
<1>4. Latest(s) \in Changes(s) BY <1>2, <1>3, LatestIsLast
<1>5. events[Latest(s)] \in EventSet BY <1>3, <1>4 DEF Changes, Told
<1> DEFINE fix == Correction(proc[p].rows[s].status, events[Latest(s)].status)
<1>6. fix \in AnyStatus BY <1>5 DEF Correction, EventSet, AnyStatus
<1>7. Looked(p, s, fix) BY DEF Answered
<1> HIDE DEF fix
<1> QED BY <1>6, <1>7, LookedKeeps

LEMMA UnansweredKeeps ==
  ASSUME BillingInv, NEW p \in Workers, NEW s \in Subs, Unanswered(p, s)
  PROVE  BillingInv'
BY LookedKeeps DEF Unanswered, AnyStatus

LEMMA FixKeeps ==
  ASSUME BillingInv, NEW p \in Workers, NEW s \in Subs, Fix(p, s)
  PROVE  BillingInv'
<1> DEFINE h == proc[p]
           status == h.fix[s]
           fixes == [h.fix EXCEPT ![s] = "none"]
           new == [h.rows[s] EXCEPT !.status = status]
           row == [mirror[s] EXCEPT !.status = status, !.updated = now]
           r == [h EXCEPT !.at = "load", !.sub = s, !.fix[s] = "none",
                          !.new = [h.rows[s] EXCEPT !.status = status]]
<1>1. /\ h.at = "fix" /\ proc' = [proc EXCEPT ![p] = r]
      /\ mirror' = [mirror EXCEPT ![s].status = status, ![s].updated = now]
      /\ UNCHANGED <<now, events, ledger, job, tries, since, org, mails, comped, crashes>>
  BY DEF Fix, Becomes
<1>2. p \in Procs /\ h \in HandlerSet /\ Sound(h) /\ h.kind = "reconcile"
  BY <1>1 DEF BillingInv, Handlers, Sound, Stage, Procs
<1>3. status \in AnyStatus /\ fixes \in [Subs -> AnyStatus] /\ h.rows[s] \in ColumnSet
      /\ Backed(h.rows[s].plan)
  BY <1>2 DEF HandlerSet, AnyStatus, Sound
<1>4. new \in ColumnSet /\ new.plan = h.rows[s].plan
  <2> HIDE DEF h, status
  <2> QED BY <1>3 DEF ColumnSet
<1>5. r = [h EXCEPT !.at = "load", !.sub = s, !.fix = fixes, !.new = new]
  <2> HIDE DEF h, status
  <2> QED BY <1>2 DEF HandlerSet, new
<1> HIDE DEF r, fixes, new
<1>6. /\ r \in HandlerSet /\ r.at = "load" /\ r.kind = "reconcile" /\ r.look = h.look
      /\ r.new = new /\ r.old = h.old /\ r.rows = h.rows
  <2> HIDE DEF h
  <2> QED BY <1>2, <1>3, <1>4, <1>5 DEF HandlerSet, Ats
<1>7. Sound(r) BY <1>2, <1>3, <1>4, <1>6 DEF Sound, Stage
<1>8. mirror[s] \in RowSet /\ mirror \in [Subs -> RowSet] /\ now \in 0..MaxNow
  BY DEF BillingInv, Stored
<1>9. row \in RowSet /\ row.plan = mirror[s].plan /\ row.period = mirror[s].period
  <2> HIDE DEF status
  <2> QED BY <1>3, <1>8 DEF RowSet
<1>10. mirror' = [mirror EXCEPT ![s] = row]
  <2> HIDE DEF status
  <2> QED BY <1>1, <1>8 DEF RowSet
<1> HIDE DEF row
<1>11. mirror' \in [Subs -> RowSet] BY <1>8, <1>9, <1>10
<1>12. \A t \in Subs : mirror'[t].plan = mirror[t].plan /\ mirror'[t].period = mirror[t].period
  BY <1>8, <1>9, <1>10
<1>13. Books'
  <2>1. UNCHANGED <<events, comped, org>> BY <1>1
  <2>2. Books BY DEF BillingInv
  <2>3. \A t : Changes(t)' = Changes(t) BY <2>1 DEF Changes, Told
  <2>4. Backed(org.plan)' BY <2>1, <2>2 DEF Books, Backed, Told
  <2>5. ASSUME NEW t \in Subs PROVE Backed(mirror[t].plan)' /\ (Known(t)' => Changes(t)' # {})
    <3>1. mirror'[t].plan = mirror[t].plan /\ mirror'[t].period = mirror[t].period BY <1>12
    <3>2. Backed(mirror[t].plan) /\ (Known(t) => Changes(t) # {}) BY <2>2 DEF Books
    <3>3. Backed(mirror[t].plan)' BY <2>1, <3>1, <3>2 DEF Backed, Told
    <3> QED BY <2>3, <3>1, <3>2, <3>3 DEF Known
  <2> QED BY <2>4, <2>5 DEF Books
<1>14. org' \in OrgSet /\ mails' \in [Ids -> 0..2] /\ comped' \subseteq PlanKeys
  BY <1>1 DEF BillingInv, Stored
<1> QED BY <1>1, <1>2, <1>7, <1>11, <1>13, <1>14, SavesAndMoves DEF KeepsJob

LEMMA LoadKeeps == ASSUME BillingInv, NEW p \in Procs, Load(p) PROVE BillingInv'
<1> DEFINE h == proc[p]
           r == [h EXCEPT !.at = "plan", !.org = org]
<1>1. /\ h.at = "load" /\ proc' = [proc EXCEPT ![p] = r]
      /\ UNCHANGED <<now, events, db, mails, comped, crashes>>
  BY DEF Load, Becomes
<1>2. h \in HandlerSet /\ Sound(h) /\ h.kind = "reconcile" /\ org \in OrgSet
  BY <1>1 DEF BillingInv, Stored, Handlers, Sound, Stage
<1>3. /\ r \in HandlerSet /\ r.at = "plan" /\ r.kind = "reconcile" /\ r.look = h.look
      /\ r.new = h.new /\ r.old = h.old /\ r.rows = h.rows
  <2> HIDE DEF h
  <2> QED BY <1>2 DEF HandlerSet, Ats
<1> HIDE DEF r
<1>4. Sound(r) BY <1>2, <1>3 DEF Sound, Stage
<1> QED BY <1>1, <1>2, <1>4, OnlyMoves DEF KeepsJob

LEMMA EndScanKeeps == ASSUME BillingInv, NEW p \in Workers, EndScan(p) PROVE BillingInv'
<1>1. p \in Procs /\ proc[p].kind = "reconcile"
  BY DEF EndScan, BillingInv, Handlers, Sound, Stage, Procs
<1> QED BY <1>1, FreeIsSound, OnlyMoves DEF KeepsJob, EndScan, Becomes

LEMMA SyncKeeps ==
  ASSUME BillingInv, NEW p \in Staff, NEW sub \in Subs, Sync(p, sub)
  PROVE  BillingInv'
<1> DEFINE old == Columns(mirror[sub])
           r == [Free EXCEPT !.at = "ask", !.kind = "sync", !.sub = sub, !.old = old, !.org = org]
<1>1. /\ proc[p].at = "idle" /\ Known(sub) /\ proc' = [proc EXCEPT ![p] = r]
      /\ UNCHANGED <<now, events, db, mails, comped, crashes>>
  BY DEF Sync, Becomes
<1>2. p \in Procs /\ proc[p].kind = "none" /\ Changes(sub) # {} /\ org \in OrgSet
  BY <1>1 DEF BillingInv, Stored, Books, Handlers, Sound, Stage, Procs
<1>3. old \in ColumnSet /\ Backed(old.plan) BY RowHeld
<1> HIDE DEF old
<1>4. /\ r \in HandlerSet /\ r.at = "ask" /\ r.kind = "sync" /\ r.sub = sub /\ r.look = {}
      /\ r.new = Free.new /\ r.old = old /\ r.rows = Free.rows
  <2> HIDE DEF r
  <2> QED BY <1>2, <1>3, FreeFields DEF HandlerSet, Ats, r
<1> HIDE DEF r
<1>5. Sound(r) BY <1>2, <1>3, <1>4, FreeFields DEF Sound, Stage, Backed
<1> QED BY <1>1, <1>2, <1>5, OnlyMoves DEF KeepsJob

LEMMA AskKeeps == ASSUME BillingInv, NEW p \in Staff, Ask(p) PROVE BillingInv'
<1> DEFINE h == proc[p]
           e == Latest(h.sub)
           plan == IF events[e].product # None THEN events[e].product ELSE h.old.plan
           new == [status |-> events[e].status, plan |-> plan, period |-> e]
           r == [h EXCEPT !.at = "save", !.new = new]
<1>1. /\ h.at = "ask" /\ proc' \in {[proc EXCEPT ![p] = r], [proc EXCEPT ![p] = Free]}
      /\ UNCHANGED <<now, events, db, mails, comped, crashes>>
  BY DEF Ask, Becomes
<1>2. p \in Procs /\ h \in HandlerSet /\ Sound(h) /\ h.kind = "sync"
  BY <1>1 DEF BillingInv, Handlers, Sound, Stage, Procs
<1>3. h.sub \in Subs /\ Changes(h.sub) # {} BY <1>2 DEF Sound
<1>4. events \in Seq(EventSet) /\ Len(events) \in Nat /\ Len(events) <= MaxEvents
  BY DEF BillingInv, Stored
<1>5. e \in Told
  <2>1. e \in Changes(h.sub) BY <1>3, <1>4, LatestIsLast
  <2> QED BY <2>1 DEF Changes
<1> HIDE DEF e
<1>6. events[e] \in EventSet /\ e \in 0..MaxEvents BY <1>4, <1>5 DEF Told
<1>7. h.old \in ColumnSet /\ Backed(h.old.plan) BY <1>2 DEF HandlerSet, Sound
<1>8. plan \in PlanKeys /\ Backed(plan)
  <2> HIDE DEF h
  <2> QED BY <1>5, <1>6, <1>7 DEF EventSet, PlanKeys, ColumnSet, Backed
<1>9. new \in ColumnSet /\ Backed(new.plan)
  <2> HIDE DEF plan
  <2> QED BY <1>6, <1>8 DEF EventSet, ColumnSet, AnyStatus
<1> HIDE DEF new
<1>10. /\ r \in HandlerSet /\ r.at = "save" /\ r.kind = "sync" /\ r.sub = h.sub /\ r.look = h.look
       /\ r.new = new /\ r.old = h.old /\ r.rows = h.rows
  <2> HIDE DEF h
  <2> QED BY <1>2, <1>9 DEF HandlerSet, Ats
<1> HIDE DEF r
<1>11. Sound(r) BY <1>2, <1>9, <1>10 DEF Sound, Stage
<1>12. CASE proc' = [proc EXCEPT ![p] = r]
  BY <1>1, <1>2, <1>11, <1>12, OnlyMoves DEF KeepsJob
<1>13. CASE proc' = [proc EXCEPT ![p] = Free]
  BY <1>1, <1>2, <1>13, FreeIsSound, OnlyMoves DEF KeepsJob
<1> QED BY <1>1, <1>12, <1>13

LEMMA ReadToSuspendKeeps == ASSUME BillingInv, NEW p \in Staff, ReadToSuspend(p) PROVE BillingInv'
<1> DEFINE r == [Free EXCEPT !.at = "toggle", !.kind = "suspend", !.org = org]
<1>1. /\ proc[p].at = "idle" /\ proc' = [proc EXCEPT ![p] = r]
      /\ UNCHANGED <<now, events, db, mails, comped, crashes>>
  BY DEF ReadToSuspend, Becomes
<1>2. p \in Procs /\ proc[p].kind = "none" /\ org \in OrgSet
  BY <1>1 DEF BillingInv, Stored, Handlers, Sound, Stage, Procs
<1>3. /\ r \in HandlerSet /\ r.at = "toggle" /\ r.kind = "suspend" /\ r.look = {}
      /\ r.new = Free.new /\ r.old = Free.old /\ r.rows = Free.rows
  <2> HIDE DEF r
  <2> QED BY <1>2, FreeFields DEF HandlerSet, Ats, r
<1> HIDE DEF r
<1>4. Sound(r) BY <1>3, FreeFields DEF Sound, Stage, Backed
<1> QED BY <1>1, <1>2, <1>4, OnlyMoves DEF KeepsJob

LEMMA ReadToOverrideKeeps ==
  ASSUME BillingInv, NEW p \in Staff, NEW plan \in PlanKeys, ReadToOverride(p, plan)
  PROVE  BillingInv'
<1> DEFINE new == [Free.new EXCEPT !.plan = plan]
           r == [Free EXCEPT !.at = "grant", !.kind = "override", !.org = org, !.new.plan = plan]
<1>1. /\ proc[p].at = "idle" /\ proc' = [proc EXCEPT ![p] = r]
      /\ UNCHANGED <<now, events, db, mails, comped, crashes>>
  BY DEF ReadToOverride, Becomes
<1>2. p \in Procs /\ proc[p].kind = "none" /\ org \in OrgSet
  BY <1>1 DEF BillingInv, Stored, Handlers, Sound, Stage, Procs
<1>3. new \in ColumnSet BY FreeFields DEF ColumnSet
<1>4. r = [Free EXCEPT !.at = "grant", !.kind = "override", !.org = org, !.new = new]
  BY FreeFields DEF HandlerSet
<1> HIDE DEF r, new
<1>5. /\ r \in HandlerSet /\ r.at = "grant" /\ r.kind = "override" /\ r.look = {}
      /\ r.new = new /\ r.old = Free.old /\ r.rows = Free.rows
  BY <1>2, <1>3, <1>4, FreeFields DEF HandlerSet, Ats
<1>6. Sound(r) BY <1>5, FreeFields DEF Sound, Stage, Backed
<1> QED BY <1>1, <1>2, <1>6, OnlyMoves DEF KeepsJob

LEMMA ToggleKeeps == ASSUME BillingInv, NEW p \in Staff, Toggle(p) PROVE BillingInv'
<1>1. /\ proc[p].at = "toggle" /\ proc' = [proc EXCEPT ![p] = Free]
      /\ org' = [org EXCEPT !.status = IF proc[p].org.status # "suspended"
                                       THEN "suspended" ELSE "active"]
      /\ UNCHANGED <<now, events, ledger, job, tries, since, mirror, mails, comped, crashes>>
  BY DEF Toggle, Becomes
<1>2. p \in Procs /\ proc[p].kind = "suspend" /\ org \in OrgSet /\ Backed(org.plan)
  BY <1>1 DEF BillingInv, Stored, Books, Handlers, Sound, Stage, Procs
<1>3. org' \in OrgSet /\ org'.plan = org.plan BY <1>1, <1>2 DEF OrgSet
<1>4. Backed(org.plan)' BY <1>1, <1>2, <1>3 DEF Backed, Told
<1>5. Books' BY <1>1, <1>4, OrgSaved
<1>6. mirror' \in [Subs -> RowSet] /\ mails' \in [Ids -> 0..2] /\ comped' \subseteq PlanKeys
  BY <1>1 DEF BillingInv, Stored
<1> QED BY <1>1, <1>2, <1>3, <1>5, <1>6, FreeIsSound, SavesAndMoves DEF KeepsJob

LEMMA GrantKeeps == ASSUME BillingInv, NEW p \in Staff, Grant(p) PROVE BillingInv'
<1> DEFINE plan == proc[p].new.plan
<1>1. /\ proc[p].at = "grant" /\ proc' = [proc EXCEPT ![p] = Free]
      /\ org' = IF proc[p].org.plan = plan THEN org ELSE [org EXCEPT !.plan = plan]
      /\ comped' = comped \cup {plan}
      /\ UNCHANGED <<now, events, ledger, job, tries, since, mirror, mails, crashes>>
  BY DEF Grant, Becomes
<1>2. p \in Procs /\ proc[p].kind = "override" /\ org \in OrgSet /\ Backed(org.plan)
      /\ comped \subseteq PlanKeys /\ proc[p] \in HandlerSet
  BY <1>1 DEF BillingInv, Stored, Books, Handlers, Sound, Stage, Procs
<1>3. plan \in PlanKeys BY <1>2 DEF HandlerSet, ColumnSet
<1> HIDE DEF plan
<1>4. org' \in OrgSet /\ org'.plan \in {org.plan, plan} BY <1>1, <1>2, <1>3 DEF OrgSet
<1>5. Backed(org.plan)' BY <1>1, <1>2, <1>4 DEF Backed, Told
<1>6. Books' BY <1>1, <1>5, OrgSaved
<1>7. mirror' \in [Subs -> RowSet] /\ mails' \in [Ids -> 0..2] /\ comped' \subseteq PlanKeys
  BY <1>1, <1>2, <1>3 DEF BillingInv, Stored
<1> QED BY <1>1, <1>2, <1>4, <1>6, <1>7, FreeIsSound, SavesAndMoves DEF KeepsJob

\* What the provider tells is added to; nothing told is taken back.
LEMMA EventsGrow ==
  ASSUME BillingInv, UNCHANGED <<now, db, proc, mails, comped, crashes>>,
         events' \in Seq(EventSet), Len(events') <= MaxEvents, Len(events) <= Len(events'),
         \A e \in Told : events'[e] = events[e]
  PROVE  BillingInv'
<1>1. Told \subseteq Told'
  <2>1. Len(events) \in Nat /\ Len(events') \in Nat BY DEF BillingInv, Stored
  <2> QED BY <2>1 DEF Told
<1>2. \A k : Backed(k) => Backed(k)' BY <1>1 DEF Backed
<1>3. \A s : Changes(s) \subseteq Changes(s)' BY <1>1 DEF Changes
<1>4. Stored' BY DEF BillingInv, Stored, db
<1>5. ASSUME NEW h, Sound(h) PROVE Sound(h)' BY <1>1, <1>2, <1>3, <1>5 DEF Sound
<1>6. Handlers'
  <2>1. \A p \in Procs : Sound(proc[p])' BY <1>5 DEF BillingInv, Handlers
  <2> QED BY <2>1 DEF BillingInv, Handlers
<1>7. Books'
  <2>1. Books /\ mirror' = mirror /\ org' = org BY DEF BillingInv, db
  <2> QED BY <1>2, <1>3, <2>1 DEF Books, Known
<1>8. Queue'
  <2>1. Queue /\ ledger' = ledger /\ job' = job BY DEF BillingInv, db
  <2> QED BY <1>1, <2>1 DEF Queue, RunBy
<1> QED BY <1>4, <1>6, <1>7, <1>8 DEF BillingInv

LEMMA ProviderKeeps ==
  ASSUME BillingInv, NEW s \in Subs, ProviderChanges(s)
  PROVE  BillingInv'
<1>1. PICK status \in Statuses, product \in Products, tagged \in Tags :
        events' = Append(events, [sub |-> s, status |-> status, product |-> product,
                                  tagged |-> tagged, at |-> now])
  BY DEF ProviderChanges
<1> DEFINE e == [sub |-> s, status |-> status, product |-> product, tagged |-> tagged, at |-> now]
<1>2. events \in Seq(EventSet) /\ Len(events) < MaxEvents /\ now \in 0..MaxNow
  BY DEF ProviderChanges, BillingInv, Stored
<1>3. e \in EventSet BY <1>2 DEF EventSet
<1> HIDE DEF e
<1>4. events' = Append(events, e) BY <1>1 DEF e
<1>5. /\ events' \in Seq(EventSet) /\ Len(events') = Len(events) + 1
      /\ \A f \in Told : events'[f] = events[f]
  BY <1>2, <1>3, <1>4 DEF Told
<1>6. Len(events') <= MaxEvents /\ Len(events) <= Len(events')
  BY <1>2, <1>5
<1> QED BY <1>5, <1>6, EventsGrow DEF ProviderChanges

LEMMA TickKeeps == ASSUME BillingInv, Tick PROVE BillingInv'
<1>1. now' \in 0..MaxNow /\ UNCHANGED <<events, db, proc, mails, comped, crashes>>
  BY DEF Tick, BillingInv, Stored
<1>2. Stored' BY <1>1 DEF BillingInv, Stored, db
<1>3. Handlers'
  <2>1. \A p \in Procs : Sound(proc[p])' BY <1>1, SoundStays DEF BillingInv, Handlers
  <2> QED BY <1>1, <2>1 DEF BillingInv, Handlers
<1>4. Books' BY <1>1, BooksStay DEF BillingInv, db
<1>5. Queue' BY <1>1 DEF BillingInv, Queue, RunBy, Told, db
<1> QED BY <1>2, <1>3, <1>4, <1>5 DEF BillingInv

LEMMA DeliverKeeps == ASSUME BillingInv, NEW e \in Ids, Deliver(e) PROVE BillingInv'
<1>1. /\ e \in Told /\ ledger[e] = "none" /\ ledger' = [ledger EXCEPT ![e] = "received"]
      /\ job' = [job EXCEPT ![e] = "due"]
      /\ UNCHANGED <<now, events, tries, since, mirror, org, proc, mails, comped, crashes>>
  BY DEF Deliver, Queued
<1>2. Stored' BY <1>1 DEF BillingInv, Stored
<1>3. Handlers'
  <2>1. \A p \in Procs : Sound(proc[p])' BY <1>1, SoundStays DEF BillingInv, Handlers
  <2> QED BY <1>1, <2>1 DEF BillingInv, Handlers
<1>4. Books' BY <1>1, BooksStay DEF BillingInv
<1>5. Queue' BY <1>1 DEF BillingInv, Queue, RunBy, Told, Stored
<1> QED BY <1>2, <1>3, <1>4, <1>5 DEF BillingInv

LEMMA StillKeeps == ASSUME BillingInv, UNCHANGED vars PROVE BillingInv'
<1>1. UNCHANGED <<now, events, db, proc, mails, comped, crashes>> BY DEF vars
<1> QED BY <1>1, EventsGrow DEF BillingInv, Stored

LEMMA ApplyKeeps == ASSUME BillingInv, NEW p \in Procs, Apply(p) PROVE BillingInv'
BY ResolveKeeps, GuardKeeps, FetchKeeps, SaveKeeps, ApplyPlanKeeps, ApplyStandingKeeps,
   NotifyKeeps, MarkKeeps, FlakesKeeps DEF Apply

LEMMA WorkerKeeps == ASSUME BillingInv, NEW p \in Workers, WorkerStep(p) PROVE BillingInv'
<1>1. p \in Procs BY DEF Procs
<1>2. CASE Apply(p) BY <1>1, <1>2, ApplyKeeps
<1>3. CASE Scan(p) BY <1>3, ScanKeeps
<1>4. CASE Load(p) BY <1>1, <1>4, LoadKeeps
<1>5. CASE EndScan(p) BY <1>5, EndScanKeeps
<1>6. CASE \E e \in Ids : Begin(p, e) BY <1>6, BeginKeeps
<1>7. CASE \E s \in Subs : Answered(p, s) \/ Unanswered(p, s) \/ Fix(p, s)
  BY <1>7, AnsweredKeeps, UnansweredKeeps, FixKeeps
<1> QED BY <1>2, <1>3, <1>4, <1>5, <1>6, <1>7 DEF WorkerStep

LEMMA StaffKeeps == ASSUME BillingInv, NEW p \in Staff, StaffStep(p) PROVE BillingInv'
<1>1. p \in Procs BY DEF Procs
<1>2. CASE Apply(p) BY <1>1, <1>2, ApplyKeeps
<1>3. CASE Ask(p) BY <1>3, AskKeeps
<1>4. CASE ReadToSuspend(p) BY <1>4, ReadToSuspendKeeps
<1>5. CASE Toggle(p) BY <1>5, ToggleKeeps
<1>6. CASE Grant(p) BY <1>6, GrantKeeps
<1>7. CASE \E e \in Ids : Replay(p, e) BY <1>7, ReplayKeeps
<1>8. CASE \E sub \in Subs : Sync(p, sub) BY <1>8, SyncKeeps
<1>9. CASE \E plan \in Plans \cup {"free"} : ReadToOverride(p, plan)
  BY <1>9, ReadToOverrideKeeps DEF PlanKeys
<1> QED BY <1>2, <1>3, <1>4, <1>5, <1>6, <1>7, <1>8, <1>9 DEF StaffStep

LEMMA StepBillingInv == BillingInv /\ [Next]_vars => BillingInv'
<1> SUFFICES ASSUME BillingInv, [Next]_vars PROVE BillingInv'
  OBVIOUS
<1>1. CASE Tick BY <1>1, TickKeeps
<1>2. CASE \E s \in Subs : ProviderChanges(s) BY <1>2, ProviderKeeps
<1>3. CASE \E e \in Ids : Deliver(e) BY <1>3, DeliverKeeps
<1>4. CASE \E w \in Workers : WorkerStep(w) \/ Crash(w)
  BY <1>4, WorkerKeeps, CrashKeeps DEF Procs
<1>5. CASE \E s \in Staff : StaffStep(s) BY <1>5, StaffKeeps
<1>6. CASE UNCHANGED vars BY <1>6, StillKeeps
<1> QED BY <1>1, <1>2, <1>3, <1>4, <1>5, <1>6 DEF Next

(* Whatever the endpoint answered 200 to is applied, or is queued, at work *)
(* or parked; and the plan a workspace holds was named by the provider in  *)
(* some event or granted by staff: for any workers and staff side by side, *)
(* any kills and throws, and any order of deliveries.                      *)
THEOREM NothingLostOrGiven == Spec => []NothingLostOrGivenAway
<1>1. BillingInv => NothingLostOrGivenAway
  <2> SUFFICES ASSUME BillingInv PROVE NothingLostOrGivenAway
    OBVIOUS
  <2>1. NothingSilentlyLost
    <3> SUFFICES ASSUME NEW e \in Ids, ledger[e] = "received"
                 PROVE  \/ job[e] \in {"due", "parked"}
                        \/ \E w \in Workers : proc[w].ev = e /\ IsJob(w) /\ job[e] = "running"
      BY DEF NothingSilentlyLost
    <3>1. job[e] \in {"due", "running", "parked"} BY DEF BillingInv, Queue
    <3>2. job[e] = "running" => \E w \in Workers : RunBy(w, e) BY DEF BillingInv, Queue
    <3> QED BY <3>1, <3>2 DEF RunBy, IsJob
  <2>2. PaidForOrComped BY DEF BillingInv, Books, Backed, PaidForOrComped
  <2> QED BY <2>1, <2>2 DEF NothingLostOrGivenAway
<1> QED BY InitBillingInv, StepBillingInv, <1>1, PTL DEF Spec

-----------------------------------------------------------------------------
(* What each step does to the handler that takes it, field by field.       *)

Others(p) == \A q \in Procs : q # p => proc'[q] = proc[q]
Rest(h, g) == g.kind = h.kind /\ g.ev = h.ev /\ g.fix = h.fix /\ g.rows = h.rows

LEMMA HandlerHeld ==
  ASSUME BillingInv, NEW p \in Procs
  PROVE  proc[p] \in HandlerSet /\ Stage(proc[p]) /\ proc \in [Procs -> HandlerSet]
BY DEF BillingInv, Handlers, Sound

LEMMA Moved ==
  ASSUME BillingInv, NEW p \in Procs, NEW r, proc' = [proc EXCEPT ![p] = r]
  PROVE  proc'[p] = r /\ Others(p)
BY HandlerHeld DEF Others

LEMMA FetchShape ==
  ASSUME BillingInv, NEW p \in Procs, Fetch(p)
  PROVE  /\ Others(p) /\ proc[p].at = "fetch" /\ proc[p].kind \in {"webhook", "replay"}
         /\ proc'[p].at = "save" /\ Rest(proc[p], proc'[p]) /\ proc'[p].sub = proc[p].sub
         /\ proc'[p].new = proc[p].new /\ proc'[p].prev = proc[p].prev /\ proc'[p].org = proc[p].org
         /\ proc'[p].old = Columns(mirror[proc[p].sub])
<1> DEFINE h == proc[p]
           r == [h EXCEPT !.at = "save", !.old = Columns(mirror[h.sub])]
<1>1. p \in Procs /\ h \in HandlerSet /\ Stage(h) BY HandlerHeld DEF Procs
<1>2. proc' = [proc EXCEPT ![p] = r] /\ h.at = "fetch" BY DEF Fetch, Becomes, Goes
<1>3. proc'[p] = r /\ Others(p)
  <2> HIDE DEF r
  <2> QED BY <1>1, <1>2, Moved
<1>4. /\ r.at = "save" /\ Rest(h, r) /\ r.sub = h.sub
      /\ r.new = h.new /\ r.prev = h.prev /\ r.org = h.org
      /\ r.old = Columns(mirror[h.sub])
  <2> HIDE DEF h
  <2> QED BY <1>1, <1>2 DEF HandlerSet, Stage, Rest
<1> HIDE DEF r
<1> QED BY <1>1, <1>2, <1>3, <1>4 DEF Stage

LEMMA SaveShape ==
  ASSUME BillingInv, NEW p \in Procs, Save(p), ~(proc[p].old.period = 0 /\ Known(proc[p].sub))
  PROVE  /\ Others(p) /\ proc[p].at = "save" /\ proc[p].kind \in {"webhook", "replay", "sync"}
         /\ proc'[p].at = "plan" /\ Rest(proc[p], proc'[p]) /\ proc'[p].sub = proc[p].sub
         /\ proc'[p].new = proc[p].new /\ proc'[p].prev = proc[p].prev /\ proc'[p].org = proc[p].org
<1> DEFINE h == proc[p]
           r == [h EXCEPT !.at = "plan", !.old = NoColumns]
<1>1. p \in Procs /\ h \in HandlerSet /\ Stage(h) BY HandlerHeld DEF Procs
<1>2. proc' = [proc EXCEPT ![p] = r] /\ h.at = "save" BY DEF Save, Becomes, Goes
<1>3. proc'[p] = r /\ Others(p)
  <2> HIDE DEF r
  <2> QED BY <1>1, <1>2, Moved
<1>4. /\ r.at = "plan" /\ Rest(h, r) /\ r.sub = h.sub
      /\ r.new = h.new /\ r.prev = h.prev /\ r.org = h.org
  <2> HIDE DEF h
  <2> QED BY <1>1, <1>2 DEF HandlerSet, Stage, Rest
<1> HIDE DEF r
<1> QED BY <1>1, <1>2, <1>3, <1>4 DEF Stage

LEMMA ApplyPlanShape ==
  ASSUME BillingInv, NEW p \in Procs, ApplyPlan(p)
  PROVE  /\ Others(p) /\ proc[p].at = "plan"
         /\ proc'[p].at = "standing" /\ Rest(proc[p], proc'[p]) /\ proc'[p].sub = proc[p].sub
         /\ proc'[p].new = proc[p].new /\ proc'[p].prev = proc[p].prev
         /\ proc'[p].org.status = proc[p].org.status
<1> DEFINE h == proc[p]
           r == [h EXCEPT !.at = "standing", !.org.plan = EntitledPlan(h.new.status, h.new.plan)]
<1>1. p \in Procs /\ h \in HandlerSet /\ Stage(h) BY HandlerHeld DEF Procs
<1>2. proc' = [proc EXCEPT ![p] = r] /\ h.at = "plan" BY DEF ApplyPlan, Becomes, Goes
<1>3. proc'[p] = r /\ Others(p)
  <2> HIDE DEF r
  <2> QED BY <1>1, <1>2, Moved
<1>4. /\ r.at = "standing" /\ Rest(h, r) /\ r.sub = h.sub
      /\ r.new = h.new /\ r.prev = h.prev
      /\ r.org.status = h.org.status
  <2> HIDE DEF h
  <2> QED BY <1>1, <1>2 DEF HandlerSet, Stage, Rest, OrgSet
<1> HIDE DEF r
<1> QED BY <1>1, <1>2, <1>3, <1>4 DEF Stage

LEMMA NotifyShape ==
  ASSUME BillingInv, NEW p \in Procs, Notify(p)
  PROVE  /\ Others(p) /\ proc[p].at = "notify" /\ proc[p].kind \in {"webhook", "replay"}
         /\ proc'[p].at = "mark" /\ Rest(proc[p], proc'[p])
<1> DEFINE h == proc[p]
           r == [h EXCEPT !.at = "mark"]
<1>1. p \in Procs /\ h \in HandlerSet /\ Stage(h) BY HandlerHeld DEF Procs
<1>2. proc' = [proc EXCEPT ![p] = r] /\ h.at = "notify" BY DEF Notify, Becomes, Goes
<1>3. proc'[p] = r /\ Others(p)
  <2> HIDE DEF r
  <2> QED BY <1>1, <1>2, Moved
<1>4. /\ r.at = "mark" /\ Rest(h, r)
  <2> HIDE DEF h
  <2> QED BY <1>1, <1>2 DEF HandlerSet, Stage, Rest
<1> HIDE DEF r
<1> QED BY <1>1, <1>2, <1>3, <1>4 DEF Stage

LEMMA LoadShape ==
  ASSUME BillingInv, NEW p \in Procs, Load(p)
  PROVE  /\ Others(p) /\ proc[p].at = "load" /\ proc[p].kind = "reconcile"
         /\ proc'[p].at = "plan" /\ Rest(proc[p], proc'[p]) /\ proc'[p].new = proc[p].new
         /\ proc'[p].org = org
<1> DEFINE h == proc[p]
           r == [h EXCEPT !.at = "plan", !.org = org]
<1>1. p \in Procs /\ h \in HandlerSet /\ Stage(h) BY HandlerHeld DEF Procs
<1>2. proc' = [proc EXCEPT ![p] = r] /\ h.at = "load" BY DEF Load, Becomes, Goes
<1>3. proc'[p] = r /\ Others(p)
  <2> HIDE DEF r
  <2> QED BY <1>1, <1>2, Moved
<1>4. /\ r.at = "plan" /\ Rest(h, r) /\ r.new = h.new
      /\ r.org = org
  <2> HIDE DEF h
  <2> QED BY <1>1, <1>2 DEF HandlerSet, Stage, Rest
<1> HIDE DEF r
<1> QED BY <1>1, <1>2, <1>3, <1>4 DEF Stage

LEMMA ResolveShape ==
  ASSUME BillingInv, NEW p \in Procs, Resolve(p)
  PROVE  /\ proc[p].at = "resolve" /\ proc[p].kind \in {"webhook", "replay"}
         /\ \/ Throws(p)
            \/ /\ Others(p) /\ UNCHANGED db /\ proc'[p].at = "guard" /\ Rest(proc[p], proc'[p])
               /\ proc'[p].sub = events[proc[p].ev].sub /\ proc'[p].org = org
<1> DEFINE h == proc[p]
           e == events[h.ev]
           r == [h EXCEPT !.at = "guard", !.sub = e.sub, !.org = org]
<1>1. h \in HandlerSet /\ Stage(h) /\ h.at = "resolve" BY HandlerHeld DEF Resolve
<1>2. Throws(p) \/ (proc' = [proc EXCEPT ![p] = r] /\ UNCHANGED db) BY DEF Resolve, Becomes
<1>3. CASE proc' = [proc EXCEPT ![p] = r] /\ UNCHANGED db
  <2>1. proc'[p] = r /\ Others(p)
    <3> HIDE DEF r
    <3> QED BY <1>3, Moved
  <2>2. r.at = "guard" /\ Rest(h, r) /\ r.sub = e.sub /\ r.org = org
    <3> HIDE DEF h, e
    <3> QED BY <1>1 DEF HandlerSet, Rest
  <2> HIDE DEF r
  <2> QED BY <1>1, <1>3, <2>1, <2>2 DEF Stage
<1> QED BY <1>1, <1>2, <1>3 DEF Stage

LEMMA GuardShape ==
  ASSUME BillingInv, NEW p \in Procs, Guard(p)
  PROVE  /\ Others(p) /\ proc[p].at = "guard" /\ proc[p].kind \in {"webhook", "replay"}
         /\ Rest(proc[p], proc'[p]) /\ proc'[p].sub = proc[p].sub /\ proc'[p].org = proc[p].org
         /\ LET e == events[proc[p].ev] IN
            \/ proc'[p].at = "mark"
            \/ /\ ~Late(e, mirror[e.sub]) /\ proc'[p].at = "fetch"
               /\ proc'[p].prev = mirror[e.sub].status
               /\ proc'[p].new.status = e.status /\ proc'[p].new.period = proc[p].ev
<1> DEFINE h == proc[p]
           e == events[h.ev]
           row == mirror[e.sub]
           plan == IF e.product # None THEN e.product ELSE PlanOfUnknown(row)
           new == [status |-> e.status, plan |-> plan, period |-> h.ev]
           r == IF Late(e, row) THEN [h EXCEPT !.at = "mark"]
                ELSE [h EXCEPT !.at = "fetch", !.prev = row.status, !.new = new]
<1>1. h \in HandlerSet /\ Stage(h) /\ h.at = "guard" BY HandlerHeld DEF Guard
<1>2. proc' = [proc EXCEPT ![p] = r] BY DEF Guard, Goes, Becomes
<1>3. proc'[p] = r /\ Others(p)
  <2> HIDE DEF r
  <2> QED BY <1>2, Moved
<1>4. new.status = e.status /\ new.period = h.ev OBVIOUS
<1>5. /\ Rest(h, r) /\ r.sub = h.sub /\ r.org = h.org
      /\ \/ r.at = "mark"
         \/ ~Late(e, row) /\ r.at = "fetch" /\ r.prev = row.status /\ r.new = new
  <2> HIDE DEF h, new, row, e
  <2> QED BY <1>1 DEF HandlerSet, Rest
<1> HIDE DEF r, new
<1> QED BY <1>1, <1>3, <1>4, <1>5 DEF Stage

LEMMA ApplyStandingShape ==
  ASSUME BillingInv, NEW p \in Procs, ApplyStanding(p)
  PROVE  /\ Others(p) /\ proc[p].at = "standing"
         /\ \/ /\ proc[p].kind \in {"webhook", "replay"} /\ proc'[p].at = "notify"
               /\ Rest(proc[p], proc'[p]) /\ proc'[p].new = proc[p].new
               /\ proc'[p].prev = proc[p].prev /\ proc'[p].sub = proc[p].sub
            \/ proc[p].kind = "reconcile" /\ proc'[p].at = "fix" /\ Rest(proc[p], proc'[p])
            \/ proc[p].kind = "sync" /\ proc'[p] = Free
<1> DEFINE h == proc[p]
           r == AfterStanding(p)
<1>1. h \in HandlerSet /\ Stage(h) /\ h.at = "standing" BY HandlerHeld DEF ApplyStanding
<1>2. proc'[p] = r /\ Others(p)
  <2>1. proc' = [proc EXCEPT ![p] = r] BY DEF ApplyStanding, Becomes
  <2> HIDE DEF r
  <2> QED BY <2>1, Moved
<1>3. \/ h.kind \in {"webhook", "replay"} /\ r = [h EXCEPT !.at = "notify"]
      \/ h.kind = "reconcile" /\ r = [h EXCEPT !.at = "fix"]
      \/ h.kind = "sync" /\ r = Free
  BY <1>1 DEF AfterStanding, Stage
<1>4. \/ /\ h.kind \in {"webhook", "replay"} /\ r.at = "notify" /\ Rest(h, r) /\ r.new = h.new
         /\ r.prev = h.prev /\ r.sub = h.sub
      \/ h.kind = "reconcile" /\ r.at = "fix" /\ Rest(h, r)
      \/ h.kind = "sync" /\ r = Free
  <2> HIDE DEF h, r
  <2> QED BY <1>1, <1>3 DEF HandlerSet, Rest
<1> HIDE DEF r
<1> QED BY <1>1, <1>2, <1>4

LEMMA ScanShape ==
  ASSUME BillingInv, NEW p \in Workers, Scan(p)
  PROVE  /\ Others(p) /\ proc[p].at = "idle" /\ proc'[p].at = "look" /\ proc'[p].kind = "reconcile"
         /\ proc'[p].look = LiveRows
         /\ \A s \in Subs : proc'[p].rows[s] = Columns(mirror[s]) /\ proc'[p].fix[s] = "none"
<1> DEFINE rows == [s \in Subs |-> Columns(mirror[s])]
           r == [Free EXCEPT !.at = "look", !.kind = "reconcile", !.look = LiveRows, !.rows = rows]
<1>1. p \in Procs BY DEF Procs
<1>2. proc'[p] = r /\ Others(p)
  <2>1. proc' = [proc EXCEPT ![p] = r] BY DEF Scan, Becomes
  <2> HIDE DEF r
  <2> QED BY <1>1, <2>1, Moved
<1>3. \A s \in Subs : rows[s] = Columns(mirror[s]) /\ Free.fix[s] = "none" BY DEF Free
<1> HIDE DEF rows
<1>4. /\ r.at = "look" /\ r.kind = "reconcile" /\ r.look = LiveRows /\ r.rows = rows
      /\ r.fix = Free.fix
  BY FreeFields DEF HandlerSet
<1> HIDE DEF r
<1> QED BY <1>2, <1>3, <1>4 DEF Scan

LEMMA LookedShape ==
  ASSUME BillingInv, NEW p \in Workers, NEW s \in Subs, NEW fix, Looked(p, s, fix)
  PROVE  /\ Others(p) /\ proc[p].at = "look" /\ proc[p].kind = "reconcile"
         /\ proc'[p].at \in {"look", "fix"} /\ proc'[p].kind = "reconcile"
         /\ proc'[p].rows = proc[p].rows
         /\ s \in proc[p].look /\ proc'[p].look = proc[p].look \ {s}
         /\ \A t \in Subs : proc'[p].fix[t] = IF t = s THEN fix ELSE proc[p].fix[t]
<1> DEFINE h == proc[p]
           fixes == [h.fix EXCEPT ![s] = fix]
           r == [h EXCEPT !.look = @ \ {s}, !.fix[s] = fix,
                          !.at = IF h.look = {s} THEN "fix" ELSE "look"]
<1>1. p \in Procs /\ h \in HandlerSet /\ Stage(h) /\ h.at = "look" /\ s \in h.look
  BY HandlerHeld DEF Looked, Procs
<1>2. proc'[p] = r /\ Others(p)
  <2>1. proc' = [proc EXCEPT ![p] = r] BY DEF Looked, Becomes
  <2> HIDE DEF r
  <2> QED BY <1>1, <2>1, Moved
<1>3. /\ r.at \in {"look", "fix"} /\ r.kind = h.kind /\ r.rows = h.rows /\ r.fix = fixes
      /\ r.look = h.look \ {s}
  <2> HIDE DEF h
  <2> QED BY <1>1 DEF HandlerSet
<1>4. \A t \in Subs : fixes[t] = IF t = s THEN fix ELSE h.fix[t]
  <2>1. h.fix \in [Subs -> AnyStatus] BY <1>1 DEF HandlerSet
  <2> HIDE DEF h
  <2> QED BY <2>1
<1> HIDE DEF r, fixes
<1> QED BY <1>1, <1>2, <1>3, <1>4 DEF Stage

LEMMA FixShape ==
  ASSUME BillingInv, NEW p \in Workers, NEW s \in Subs, Fix(p, s)
  PROVE  /\ Others(p) /\ proc[p].at = "fix" /\ proc[p].kind = "reconcile" /\ proc[p].fix[s] # "none"
         /\ proc'[p].at = "load" /\ proc'[p].kind = "reconcile" /\ proc'[p].rows = proc[p].rows
         /\ proc'[p].new.status = proc[p].fix[s] /\ proc'[p].new.plan = proc[p].rows[s].plan
         /\ \A t \in Subs : proc'[p].fix[t] = IF t = s THEN "none" ELSE proc[p].fix[t]
         /\ \A t \in Subs :
              /\ mirror'[t].plan = mirror[t].plan /\ mirror'[t].period = mirror[t].period
              /\ mirror'[t].status = IF t = s THEN proc[p].fix[s] ELSE mirror[t].status
              /\ mirror'[t].updated = IF t = s THEN now ELSE mirror[t].updated
<1> DEFINE h == proc[p]
           status == h.fix[s]
           fixes == [h.fix EXCEPT ![s] = "none"]
           new == [h.rows[s] EXCEPT !.status = status]
           r == [h EXCEPT !.at = "load", !.sub = s, !.fix[s] = "none",
                          !.new = [h.rows[s] EXCEPT !.status = status]]
<1>1. p \in Procs /\ h \in HandlerSet /\ Stage(h) /\ h.at = "fix"
  BY HandlerHeld DEF Fix, Procs
<1>2. proc'[p] = r /\ Others(p)
  <2>1. proc' = [proc EXCEPT ![p] = r] BY DEF Fix, Becomes
  <2> HIDE DEF r
  <2> QED BY <1>1, <2>1, Moved
<1>3. r.at = "load" /\ r.kind = h.kind /\ r.rows = h.rows /\ r.fix = fixes /\ r.new = new
  <2> HIDE DEF h, status
  <2> QED BY <1>1 DEF HandlerSet, fixes, new
<1>4. /\ \A t \in Subs : fixes[t] = IF t = s THEN "none" ELSE h.fix[t]
      /\ h.rows[s] \in ColumnSet
  <2>1. h.fix \in [Subs -> AnyStatus] /\ h.rows \in [Subs -> ColumnSet] BY <1>1 DEF HandlerSet
  <2> HIDE DEF h
  <2> QED BY <2>1
<1>5. new.status = status /\ new.plan = h.rows[s].plan
  <2> HIDE DEF h, status
  <2> QED BY <1>4 DEF ColumnSet
<1>6. \A t \in Subs :
        /\ mirror'[t].plan = mirror[t].plan /\ mirror'[t].period = mirror[t].period
        /\ mirror'[t].status = IF t = s THEN status ELSE mirror[t].status
        /\ mirror'[t].updated = IF t = s THEN now ELSE mirror[t].updated
  <2>1. mirror' = [mirror EXCEPT ![s].status = status, ![s].updated = now] BY DEF Fix
  <2>2. mirror \in [Subs -> RowSet] BY DEF BillingInv, Stored
  <2> HIDE DEF status, h
  <2> QED BY <2>1, <2>2 DEF RowSet
<1>7. status # "none" BY DEF Fix, ToFix
<1> HIDE DEF r, fixes, new
<1> QED BY <1>1, <1>2, <1>3, <1>4, <1>5, <1>6, <1>7 DEF Stage

LEMMA FreedShape ==
  ASSUME BillingInv, NEW p \in Procs, Becomes(p, Free)
  PROVE  /\ proc'[p] = Free /\ proc'[p].at = "idle" /\ proc'[p].kind = "none" /\ Others(p)
<1>1. proc'[p] = Free /\ Others(p) BY Moved DEF Becomes
<1> QED BY <1>1 DEF Free

LEMMA BeginShape ==
  ASSUME BillingInv, NEW p \in Workers, NEW e \in Ids, Begin(p, e)
  PROVE  /\ Others(p) /\ proc[p].at = "idle" /\ proc[p].kind = "none" /\ job[e] = "due"
         /\ \/ ledger[e] = "processed" /\ job' = [job EXCEPT ![e] = "done"] /\ proc' = proc
            \/ /\ ledger[e] # "processed" /\ job' = [job EXCEPT ![e] = "running"]
               /\ proc'[p].at = "resolve" /\ proc'[p].kind = "webhook" /\ proc'[p].ev = e
<1> DEFINE r == [Free EXCEPT !.at = "resolve", !.kind = "webhook", !.ev = e]
<1>1. p \in Procs /\ proc[p].at = "idle" /\ proc[p].kind = "none" /\ job[e] = "due"
  BY HandlerHeld DEF Begin, Procs, Stage
<1>2. CASE ledger[e] = "processed" BY <1>1, <1>2 DEF Begin, Others
<1>3. CASE ledger[e] # "processed"
  <2>1. proc' = [proc EXCEPT ![p] = r] /\ job' = [job EXCEPT ![e] = "running"]
    BY <1>3 DEF Begin, Becomes
  <2>2. r.at = "resolve" /\ r.kind = "webhook" /\ r.ev = e
    <3> HIDE DEF r
    <3> QED BY FreeFields DEF HandlerSet, r
  <2>3. proc'[p] = r /\ Others(p)
    <3> HIDE DEF r
    <3> QED BY <1>1, <2>1, Moved
  <2> HIDE DEF r
  <2> QED BY <1>1, <1>3, <2>1, <2>2, <2>3
<1> QED BY <1>2, <1>3


-----------------------------------------------------------------------------
(* One worker has each job, and tries are counted.                         *)

Claims ==
  /\ \A e \in Ids : /\ ledger[e] = "none" => job[e] = "none" /\ tries[e] = 0
                    /\ job[e] \in {"due", "running"} => tries[e] < MaxTries
                    /\ tries[e] <= MaxTries
  /\ \A p \in Procs : proc[p].kind = "webhook" => job[proc[p].ev] = "running"
  /\ \A p, q \in Procs :
       proc[p].kind = "webhook" /\ proc[q].kind = "webhook" /\ proc[p].ev = proc[q].ev => p = q

ClaimInv == BillingInv /\ Claims

\* A handler that goes on keeps its errand, or has none from the queue.
Calm(p) ==
  proc'[p].kind = "webhook" => proc[p].kind = "webhook" /\ proc'[p].ev = proc[p].ev

LEMMA ClaimsStay ==
  ASSUME Claims, UNCHANGED <<ledger, job, tries>>, \A p \in Procs : Calm(p)
  PROVE  Claims'
BY DEF Claims, Calm

LEMMA ClaimsGoOn ==
  ASSUME Claims, UNCHANGED <<ledger, job, tries>>, NEW p \in Procs, Others(p), Calm(p)
  PROVE  Claims'
<1>1. \A q \in Procs : Calm(q) BY DEF Others, Calm
<1> QED BY <1>1, ClaimsStay

LEMMA ClaimsLeave ==
  ASSUME ClaimInv, NEW p \in Procs, Becomes(p, Free),
         \A e \in Ids : e # proc[p].ev \/ proc[p].kind # "webhook" =>
           job'[e] = job[e] /\ tries'[e] = tries[e] /\ ledger'[e] \in {ledger[e], "processed"},
         \A e \in Ids : e = proc[p].ev /\ proc[p].kind = "webhook" =>
           /\ ledger'[e] # "none" /\ job'[e] \in {"due", "parked", "done"}
           /\ tries'[e] <= MaxTries /\ (job'[e] = "due" => tries'[e] < MaxTries)
  PROVE  Claims'
<1>1. proc'[p] = Free /\ proc'[p].kind = "none" /\ Others(p) BY FreedShape DEF ClaimInv
<1>2. Claims BY DEF ClaimInv
<1>3. ASSUME NEW e \in Ids
      PROVE  /\ ledger'[e] = "none" => job'[e] = "none" /\ tries'[e] = 0
             /\ job'[e] \in {"due", "running"} => tries'[e] < MaxTries
             /\ tries'[e] <= MaxTries
  <2>1. CASE e # proc[p].ev \/ proc[p].kind # "webhook" BY <2>1, <1>2 DEF Claims
  <2>2. CASE e = proc[p].ev /\ proc[p].kind = "webhook" BY <2>2
  <2> QED BY <2>1, <2>2
<1>4. ASSUME NEW q \in Procs, proc'[q].kind = "webhook" PROVE job'[proc'[q].ev] = "running"
  <2>1. q # p /\ proc'[q] = proc[q] BY <1>1, <1>4 DEF Others
  <2>2. job[proc[q].ev] = "running" /\ (proc[p].kind = "webhook" => proc[q].ev # proc[p].ev)
    BY <1>2, <1>4, <2>1 DEF Claims
  <2>3. proc[q].ev \in Ids
    <3>1. proc[q].ev \in Told BY <1>4, <2>1, EventHeld DEF ClaimInv
    <3> QED BY <3>1 DEF ClaimInv, BillingInv, Stored, Told, Ids
  <2> QED BY <2>1, <2>2, <2>3
<1>5. ASSUME NEW q \in Procs, NEW v \in Procs, proc'[q].kind = "webhook",
             proc'[v].kind = "webhook", proc'[q].ev = proc'[v].ev
      PROVE  q = v
  BY <1>1, <1>2, <1>5 DEF Others, Claims
<1> QED BY <1>3, <1>4, <1>5 DEF Claims

\* What a job's worker knows of the job.
LEMMA JobHeld ==
  ASSUME ClaimInv, NEW p \in Procs, proc[p].kind = "webhook"
  PROVE  /\ proc[p].ev \in Ids /\ job[proc[p].ev] = "running" /\ ledger[proc[p].ev] # "none"
         /\ tries[proc[p].ev] \in Nat /\ tries[proc[p].ev] < MaxTries
<1>1. proc[p].ev \in Told BY EventHeld DEF ClaimInv
<1>2. proc[p].ev \in Ids BY <1>1 DEF ClaimInv, BillingInv, Stored, Told, Ids
<1> QED BY <1>2 DEF ClaimInv, Claims, BillingInv, Stored

LEMMA ThrowsClaims == ASSUME ClaimInv, NEW p \in Procs, Throws(p) PROVE Claims'
<1> DEFINE e == proc[p].ev
<1>1. Becomes(p, Free) /\ ledger' = ledger BY DEF Throws
<1>2. Stored BY DEF ClaimInv, BillingInv
<1>3. CASE proc[p].kind = "webhook"
  <2>1. e \in Ids /\ ledger[e] # "none" /\ tries[e] \in Nat /\ tries[e] < MaxTries
    BY <1>3, JobHeld
  <2>2. job' = FailedJob(e) /\ tries' = [tries EXCEPT ![e] = @ + 1]
    BY <1>3 DEF Throws, IsJob
  <2> HIDE DEF e
  <2>3. tries'[e] = tries[e] + 1 /\ \A f \in Ids : f # e => tries'[f] = tries[f]
    BY <2>1, <2>2, <1>2 DEF Stored
  <2>4. /\ job'[e] = IF tries[e] + 1 >= MaxTries THEN "parked" ELSE "due"
        /\ \A f \in Ids : f # e => job'[f] = job[f]
    BY <2>1, <2>2, <1>2 DEF Stored, FailedJob
  <2>5. tries'[e] <= MaxTries /\ (job'[e] = "due" => tries'[e] < MaxTries)
    BY <2>1, <2>3, <2>4
  <2> QED BY <1>1, <1>3, <2>1, <2>3, <2>4, <2>5, ClaimsLeave DEF e
<1>4. CASE proc[p].kind # "webhook"
  BY <1>1, <1>4, ClaimsLeave DEF Throws, IsJob
<1> QED BY <1>3, <1>4

LEMMA MarkClaims == ASSUME ClaimInv, NEW p \in Procs, Mark(p) PROVE Claims'
<1> DEFINE e == proc[p].ev
<1>1. /\ Becomes(p, Free) /\ ledger' = [ledger EXCEPT ![e] = "processed"] /\ tries' = tries
      /\ job' = IF IsJob(p) THEN [job EXCEPT ![e] = "done"] ELSE job
  BY DEF Mark
<1>2. Stored BY DEF ClaimInv, BillingInv
<1>3. proc[p].kind = "webhook" => e \in Ids /\ tries[e] \in Nat /\ tries[e] < MaxTries BY JobHeld
<1> HIDE DEF e
<1>4. \A f \in Ids : ledger'[f] = IF f = e THEN "processed" ELSE ledger[f]
  BY <1>1, <1>2 DEF Stored
<1>5. \A f \in Ids : job'[f] = IF f = e /\ IsJob(p) THEN "done" ELSE job[f]
  BY <1>1, <1>2 DEF Stored
<1>6. \A f \in Ids : f # e \/ proc[p].kind # "webhook" =>
        job'[f] = job[f] /\ tries'[f] = tries[f] /\ ledger'[f] \in {ledger[f], "processed"}
  BY <1>1, <1>4, <1>5 DEF IsJob
<1>7. \A f \in Ids : f = e /\ proc[p].kind = "webhook" =>
        /\ ledger'[f] # "none" /\ job'[f] \in {"due", "parked", "done"}
        /\ tries'[f] <= MaxTries /\ (job'[f] = "due" => tries'[f] < MaxTries)
  BY <1>1, <1>3, <1>4, <1>5 DEF IsJob
<1> QED BY <1>1, <1>6, <1>7, ClaimsLeave DEF e

LEMMA CrashClaims == ASSUME ClaimInv, NEW p \in Procs, Crash(p) PROVE Claims'
<1> DEFINE e == proc[p].ev
<1>1. /\ Becomes(p, Free) /\ ledger' = ledger /\ tries' = tries
      /\ job' = IF IsJob(p) THEN [job EXCEPT ![e] = "due"] ELSE job
  BY DEF Crash
<1>2. Stored BY DEF ClaimInv, BillingInv
<1>3. proc[p].kind = "webhook" =>
        e \in Ids /\ ledger[e] # "none" /\ tries[e] \in Nat /\ tries[e] < MaxTries
  BY JobHeld
<1> HIDE DEF e
<1>4. \A f \in Ids : job'[f] = IF f = e /\ IsJob(p) THEN "due" ELSE job[f]
  BY <1>1, <1>2 DEF Stored
<1>5. \A f \in Ids : f = e /\ proc[p].kind = "webhook" =>
        /\ ledger'[f] # "none" /\ job'[f] \in {"due", "parked", "done"}
        /\ tries'[f] <= MaxTries /\ (job'[f] = "due" => tries'[f] < MaxTries)
  BY <1>1, <1>3, <1>4 DEF IsJob
<1> QED BY <1>1, <1>4, <1>5, ClaimsLeave DEF e, IsJob

LEMMA BeginClaims == ASSUME ClaimInv, NEW p \in Workers, NEW e \in Ids, Begin(p, e) PROVE Claims'
<1>1. Claims /\ Stored /\ BillingInv BY DEF ClaimInv, BillingInv
<1>2. /\ Others(p) /\ proc[p].kind = "none" /\ job[e] = "due" /\ p \in Procs
      /\ ledger' = ledger /\ tries' = tries
      /\ \/ ledger[e] = "processed" /\ job' = [job EXCEPT ![e] = "done"] /\ proc' = proc
         \/ /\ ledger[e] # "processed" /\ job' = [job EXCEPT ![e] = "running"]
            /\ proc'[p].kind = "webhook" /\ proc'[p].ev = e
  BY <1>1, BeginShape DEF Begin, Procs
<1>3. job'[e] \in {"done", "running"} /\ \A f \in Ids : f # e => job'[f] = job[f]
  BY <1>1, <1>2 DEF Stored
<1>4. ASSUME NEW q \in Procs, proc[q].kind = "webhook"
      PROVE  proc[q].ev # e /\ proc[q].ev \in Ids /\ job'[proc[q].ev] = "running"
  BY <1>2, <1>3, <1>4, JobHeld
<1>5. ledger[e] # "none" /\ tries[e] < MaxTries /\ tries[e] <= MaxTries
  BY <1>1, <1>2 DEF Claims
<1>6. ASSUME NEW f \in Ids
      PROVE  /\ ledger'[f] = "none" => job'[f] = "none" /\ tries'[f] = 0
             /\ job'[f] \in {"due", "running"} => tries'[f] < MaxTries
             /\ tries'[f] <= MaxTries
  BY <1>1, <1>2, <1>3, <1>5 DEF Claims
<1>7. CASE proc' = proc BY <1>1, <1>4, <1>6, <1>7 DEF Claims
<1>8. CASE job'[e] = "running" /\ proc'[p].kind = "webhook" /\ proc'[p].ev = e
  <2>1. \A q \in Procs : proc'[q].kind = "webhook" => job'[proc'[q].ev] = "running"
    BY <1>2, <1>4, <1>8 DEF Others
  <2>2. \A q, v \in Procs : proc'[q].kind = "webhook" /\ proc'[v].kind = "webhook"
                            /\ proc'[q].ev = proc'[v].ev => q = v
    BY <1>1, <1>2, <1>4, <1>8 DEF Others, Claims
  <2> QED BY <1>6, <2>1, <2>2 DEF Claims
<1> QED BY <1>1, <1>2, <1>7, <1>8 DEF Stored

LEMMA DeliverClaims == ASSUME ClaimInv, NEW e \in Ids, Deliver(e) PROVE Claims'
<1>1. Claims /\ Stored BY DEF ClaimInv, BillingInv
<1>2. /\ ledger[e] = "none" /\ ledger' = [ledger EXCEPT ![e] = "received"]
      /\ job' = [job EXCEPT ![e] = "due"] /\ UNCHANGED <<tries, proc>>
  BY DEF Deliver, Queued
<1>3. job[e] = "none" /\ tries[e] = 0 /\ 0 < MaxTries BY <1>1, <1>2 DEF Claims, BillingAssumption
<1>4. ASSUME NEW p \in Procs, proc[p].kind = "webhook"
      PROVE  proc[p].ev # e /\ job'[proc[p].ev] = "running"
  BY <1>1, <1>2, <1>3, <1>4, JobHeld DEF Stored
<1>5. ASSUME NEW f \in Ids
      PROVE  /\ ledger'[f] = "none" => job'[f] = "none" /\ tries'[f] = 0
             /\ job'[f] \in {"due", "running"} => tries'[f] < MaxTries
             /\ tries'[f] <= MaxTries
  <2>1. CASE f = e BY <2>1, <1>1, <1>2, <1>3 DEF Stored
  <2>2. CASE f # e BY <2>2, <1>1, <1>2 DEF Stored, Claims
  <2> QED BY <2>1, <2>2
<1> QED BY <1>1, <1>2, <1>4, <1>5 DEF Claims

\* A member of staff takes up an errand, which is not a job.
LEMMA ErrandShape ==
  ASSUME BillingInv, NEW p \in Staff,
         \/ \E e \in Ids : Replay(p, e)
         \/ \E s \in Subs : Sync(p, s)
         \/ ReadToSuspend(p)
         \/ \E plan \in PlanKeys : ReadToOverride(p, plan)
  PROVE  Others(p) /\ Calm(p) /\ UNCHANGED db
<1>1. p \in Procs BY DEF Procs
<1>2. ASSUME NEW r, r.kind # "webhook", proc' = [proc EXCEPT ![p] = r] PROVE Others(p) /\ Calm(p)
  BY <1>1, <1>2, Moved DEF Calm
<1>3. CASE \E e \in Ids : Replay(p, e)
  <2>1. PICK e \in Ids : Replay(p, e) BY <1>3
  <2> DEFINE r == [Free EXCEPT !.at = "resolve", !.kind = "replay", !.ev = e]
  <2>2. r.kind # "webhook" BY FreeFields DEF HandlerSet
  <2>3. proc' = [proc EXCEPT ![p] = r] /\ UNCHANGED db BY <2>1 DEF Replay, Becomes
  <2> HIDE DEF r
  <2> QED BY <2>2, <2>3, <1>2
<1>4. CASE \E s \in Subs : Sync(p, s)
  <2>1. PICK s \in Subs : Sync(p, s) BY <1>4
  <2> DEFINE r == [Free EXCEPT !.at = "ask", !.kind = "sync", !.sub = s,
                               !.old = Columns(mirror[s]), !.org = org]
  <2>2. r.kind # "webhook" BY FreeFields DEF HandlerSet
  <2>3. proc' = [proc EXCEPT ![p] = r] /\ UNCHANGED db BY <2>1 DEF Sync, Becomes
  <2> HIDE DEF r
  <2> QED BY <2>2, <2>3, <1>2
<1>5. CASE ReadToSuspend(p)
  <2> DEFINE r == [Free EXCEPT !.at = "toggle", !.kind = "suspend", !.org = org]
  <2>2. r.kind # "webhook" BY FreeFields DEF HandlerSet
  <2>3. proc' = [proc EXCEPT ![p] = r] /\ UNCHANGED db BY <1>5 DEF ReadToSuspend, Becomes
  <2> HIDE DEF r
  <2> QED BY <2>2, <2>3, <1>2
<1>6. CASE \E plan \in PlanKeys : ReadToOverride(p, plan)
  <2>1. PICK plan \in PlanKeys : ReadToOverride(p, plan) BY <1>6
  <2> DEFINE r == [Free EXCEPT !.at = "grant", !.kind = "override", !.org = org, !.new.plan = plan]
  <2>2. r.kind # "webhook" BY FreeFields DEF HandlerSet
  <2>3. proc' = [proc EXCEPT ![p] = r] /\ UNCHANGED db BY <2>1 DEF ReadToOverride, Becomes
  <2> HIDE DEF r
  <2> QED BY <2>2, <2>3, <1>2
<1> QED BY <1>3, <1>4, <1>5, <1>6

LEMMA AskShape ==
  ASSUME BillingInv, NEW p \in Staff, Ask(p)
  PROVE  Others(p) /\ Calm(p) /\ UNCHANGED db /\ proc[p].at = "ask"
<1> DEFINE h == proc[p]
           e == Latest(h.sub)
           plan == IF events[e].product # None THEN events[e].product ELSE h.old.plan
           new == [status |-> events[e].status, plan |-> plan, period |-> e]
           r == [h EXCEPT !.at = "save", !.new = new]
<1>1. p \in Procs BY DEF Procs
<1>2. /\ h.at = "ask" /\ proc' \in {[proc EXCEPT ![p] = r], [proc EXCEPT ![p] = Free]}
      /\ UNCHANGED db
  BY DEF Ask, Becomes
<1>3. r.kind = h.kind /\ r.ev = h.ev
  <2> HIDE DEF new, h
  <2> QED BY <1>1, HandlerHeld DEF HandlerSet, h
<1> HIDE DEF r
<1>4. CASE proc' = [proc EXCEPT ![p] = r] BY <1>1, <1>2, <1>3, <1>4, Moved DEF Calm
<1>5. CASE proc' = [proc EXCEPT ![p] = Free]
  BY <1>1, <1>2, <1>5, FreedShape DEF Calm, Becomes
<1> QED BY <1>2, <1>4, <1>5

LEMMA FreedCalm ==
  ASSUME BillingInv, NEW p \in Procs, Becomes(p, Free)
  PROVE  Others(p) /\ Calm(p)
BY FreedShape DEF Calm

LEMMA ApplyClaims == ASSUME ClaimInv, NEW p \in Procs, Apply(p) PROVE Claims'
<1>1. BillingInv /\ Claims BY DEF ClaimInv
<1>2. CASE Resolve(p)
  <2>1. CASE Throws(p) BY <2>1, ThrowsClaims
  <2>2. CASE Others(p) /\ UNCHANGED db /\ Rest(proc[p], proc'[p])
    BY <2>2, <1>1, ClaimsGoOn DEF Calm, Rest, db
  <2> QED BY <1>1, <1>2, <2>1, <2>2, ResolveShape
<1>3. CASE Guard(p) BY <1>1, <1>3, GuardShape, ClaimsGoOn DEF Guard, db, Calm, Rest
<1>4. CASE Fetch(p) BY <1>1, <1>4, FetchShape, ClaimsGoOn DEF Fetch, db, Calm, Rest
<1>5. CASE Save(p)
  <2>1. CASE proc[p].old.period = 0 /\ Known(proc[p].sub)
    BY <1>5, <2>1, ThrowsClaims DEF Save
  <2>2. CASE ~(proc[p].old.period = 0 /\ Known(proc[p].sub))
    BY <1>1, <1>5, <2>2, SaveShape, ClaimsGoOn DEF Save, Calm, Rest
  <2> QED BY <2>1, <2>2
<1>6. CASE ApplyPlan(p)
  BY <1>1, <1>6, ApplyPlanShape, ClaimsGoOn DEF ApplyPlan, Calm, Rest
<1>7. CASE ApplyStanding(p)
  <2>1. Others(p) /\ Calm(p) BY <1>1, <1>7, ApplyStandingShape DEF Calm, Rest, Free
  <2> QED BY <1>1, <1>7, <2>1, ClaimsGoOn DEF ApplyStanding
<1>8. CASE Notify(p) BY <1>1, <1>8, NotifyShape, ClaimsGoOn DEF Notify, db, Calm, Rest
<1>9. CASE Mark(p) BY <1>9, MarkClaims
<1>10. CASE Flakes(p) BY <1>10, ThrowsClaims DEF Flakes
<1> QED BY <1>2, <1>3, <1>4, <1>5, <1>6, <1>7, <1>8, <1>9, <1>10 DEF Apply

LEMMA WorkerClaims == ASSUME ClaimInv, NEW p \in Workers, WorkerStep(p) PROVE Claims'
<1>1. BillingInv /\ Claims /\ p \in Procs BY DEF ClaimInv, Procs
<1>2. CASE Apply(p) BY <1>1, <1>2, ApplyClaims
<1>3. CASE Scan(p) BY <1>1, <1>3, ScanShape, ClaimsGoOn DEF Scan, db, Calm
<1>4. CASE Load(p) BY <1>1, <1>4, LoadShape, ClaimsGoOn DEF Load, db, Calm, Rest
<1>5. CASE EndScan(p) BY <1>1, <1>5, FreedCalm, ClaimsGoOn DEF EndScan, db
<1>6. CASE \E e \in Ids : Begin(p, e) BY <1>6, BeginClaims
<1>7. ASSUME NEW s \in Subs, NEW fix, Looked(p, s, fix) PROVE Claims'
  BY <1>1, <1>7, LookedShape, ClaimsGoOn DEF Looked, db, Calm
<1>8. ASSUME NEW s \in Subs, Fix(p, s) PROVE Claims'
  BY <1>1, <1>8, FixShape, ClaimsGoOn DEF Fix, Calm
<1>9. CASE \E s \in Subs : Answered(p, s) \/ Unanswered(p, s) \/ Fix(p, s)
  BY <1>7, <1>8, <1>9 DEF Answered, Unanswered
<1> QED BY <1>2, <1>3, <1>4, <1>5, <1>6, <1>9 DEF WorkerStep

LEMMA StaffClaims == ASSUME ClaimInv, NEW p \in Staff, StaffStep(p) PROVE Claims'
<1>1. BillingInv /\ Claims /\ p \in Procs BY DEF ClaimInv, Procs
<1>2. CASE Apply(p) BY <1>1, <1>2, ApplyClaims
<1>3. CASE Ask(p) BY <1>1, <1>3, AskShape, ClaimsGoOn DEF db
<1>4. CASE Toggle(p) BY <1>1, <1>4, FreedCalm, ClaimsGoOn DEF Toggle
<1>5. CASE Grant(p) BY <1>1, <1>5, FreedCalm, ClaimsGoOn DEF Grant
<1>6. CASE \/ \E e \in Ids : Replay(p, e)
           \/ \E s \in Subs : Sync(p, s)
           \/ ReadToSuspend(p)
           \/ \E plan \in PlanKeys : ReadToOverride(p, plan)
  BY <1>1, <1>6, ErrandShape, ClaimsGoOn DEF db
<1> QED BY <1>2, <1>3, <1>4, <1>5, <1>6 DEF StaffStep, PlanKeys

LEMMA StepClaims == ClaimInv /\ [Next]_vars => Claims'
<1> SUFFICES ASSUME ClaimInv, [Next]_vars PROVE Claims'
  OBVIOUS
<1>1. Claims BY DEF ClaimInv
<1>2. CASE Tick BY <1>1, <1>2, ClaimsStay DEF Tick, db, Calm
<1>3. CASE \E s \in Subs : ProviderChanges(s)
  BY <1>1, <1>3, ClaimsStay DEF ProviderChanges, db, Calm
<1>4. CASE \E e \in Ids : Deliver(e) BY <1>4, DeliverClaims
<1>5. CASE \E w \in Workers : WorkerStep(w) \/ Crash(w)
  BY <1>5, WorkerClaims, CrashClaims DEF Procs
<1>6. CASE \E s \in Staff : StaffStep(s) BY <1>6, StaffClaims
<1>7. CASE UNCHANGED vars BY <1>1, <1>7, ClaimsStay DEF vars, db, Calm
<1> QED BY <1>2, <1>3, <1>4, <1>5, <1>6, <1>7 DEF Next

LEMMA ClaimsAlways == Spec => []ClaimInv
<1>1. Init => Claims BY DEF Init, Claims, Free, BillingAssumption
<1>2. Init => ClaimInv BY <1>1, InitBillingInv DEF ClaimInv
<1>3. ClaimInv /\ [Next]_vars => ClaimInv' BY StepBillingInv, StepClaims DEF ClaimInv
<1> QED BY <1>2, <1>3, PTL DEF Spec

-----------------------------------------------------------------------------
(* Most steps touch neither a row of the mirror nor a mail, and a handler  *)
(* that is about to mail goes on with what it read. The others are taken   *)
(* one at a time below.                                                    *)

Errands == {"webhook", "replay"}
SameNews(h, g) == g.kind = h.kind /\ g.ev = h.ev /\ g.new = h.new /\ g.prev = h.prev

Quiet(p) ==
  /\ Others(p) /\ UNCHANGED <<now, events, mirror, mails, past>>
  /\ proc'[p].at \notin {"fetch", "save"}
  /\ proc'[p].at = "ask" =>
       proc'[p].sub \in Subs /\ Known(proc'[p].sub) /\ proc'[p].old.period # 0
  /\ \A s \in Subs :
       /\ proc'[p].at = "look" /\ s \in proc'[p].look =>
            Known(s) \/ (proc[p].at = "look" /\ s \in proc[p].look)
       /\ proc'[p].kind = "reconcile" /\ proc'[p].fix[s] # "none" =>
            \/ proc[p].kind = "reconcile" /\ proc[p].fix[s] # "none"
            \/ proc[p].at = "look" /\ s \in proc[p].look
  /\ proc'[p].at \in {"plan", "standing", "notify"} /\ proc'[p].kind \in Errands =>
       proc[p].at \in {"plan", "standing"} /\ SameNews(proc[p], proc'[p])

Saves(p) == Save(p) /\ ~(proc[p].old.period = 0 /\ Known(proc[p].sub))
Applies(p) == Guard(p) \/ Fetch(p) \/ Saves(p) \/ Notify(p)
Still == UNCHANGED <<events, mirror, proc, mails, past>> /\ now' \in Int /\ now <= now'

LEMMA FreedQuiet ==
  ASSUME BillingInv, NEW p \in Procs, Becomes(p, Free), UNCHANGED <<now, events, mirror, mails, past>>
  PROVE  Quiet(p)
BY FreedShape DEF Quiet

LEMMA ApplyQuiet ==
  ASSUME BillingInv, NEW p \in Procs, Apply(p)
  PROVE  Quiet(p) \/ Applies(p)
<1>1. CASE Resolve(p)
  <2>1. CASE Throws(p)
    BY <1>1, <2>1, FreedQuiet DEF Resolve, Throws
  <2>2. CASE /\ Others(p) /\ UNCHANGED db /\ proc'[p].at = "guard"
             /\ proc'[p].kind # "reconcile"
    BY <1>1, <2>2 DEF Resolve, Quiet, db
  <2> QED BY <1>1, <2>1, <2>2, ResolveShape DEF Rest
<1>2. CASE Guard(p) \/ Fetch(p) \/ Notify(p) BY <1>2 DEF Applies
<1>3. CASE Save(p)
  <2>1. CASE proc[p].old.period = 0 /\ Known(proc[p].sub)
    BY <1>3, <2>1, FreedQuiet DEF Save, Throws
  <2> QED BY <1>3, <2>1 DEF Applies, Saves
<1>4. CASE ApplyPlan(p)
  <2>1. UNCHANGED <<now, events, mirror, mails, past>> BY <1>4 DEF ApplyPlan
  <2>2. /\ Others(p) /\ proc[p].at = "plan" /\ proc'[p].at = "standing"
        /\ SameNews(proc[p], proc'[p]) /\ proc'[p].fix = proc[p].fix
    BY <1>4, ApplyPlanShape DEF SameNews, Rest
  <2> QED BY <2>1, <2>2 DEF Quiet, SameNews
<1>5. CASE ApplyStanding(p)
  <2>1. UNCHANGED <<now, events, mirror, mails, past>> BY <1>5 DEF ApplyStanding
  <2>2. /\ Others(p) /\ proc[p].at = "standing"
        /\ proc'[p].at \in {"notify", "fix", "idle"}
        /\ proc'[p].at = "notify" => SameNews(proc[p], proc'[p])
        /\ proc'[p].kind = "reconcile" => proc[p].kind = "reconcile" /\ proc'[p].fix = proc[p].fix
    BY <1>5, ApplyStandingShape DEF SameNews, Rest, Free
  <2> QED BY <2>1, <2>2 DEF Quiet
<1>6. CASE Mark(p) BY <1>6, FreedQuiet DEF Mark
<1>7. CASE Flakes(p) BY <1>7, FreedQuiet DEF Flakes, Throws
<1> QED BY <1>1, <1>2, <1>3, <1>4, <1>5, <1>6, <1>7 DEF Apply

LEMMA WorkerQuiet ==
  ASSUME BillingInv, NEW p \in Workers, WorkerStep(p)
  PROVE  Quiet(p) \/ Applies(p) \/ \E s \in Subs : Fix(p, s)
<1>1. p \in Procs BY DEF Procs
<1>2. CASE Apply(p) BY <1>1, <1>2, ApplyQuiet
<1>3. CASE Scan(p)
  <2>1. /\ Others(p) /\ proc'[p].at = "look" /\ proc'[p].look = LiveRows
        /\ \A s \in Subs : proc'[p].fix[s] = "none"
    BY <1>3, ScanShape
  <2> QED BY <1>3, <2>1 DEF Scan, Quiet, LiveRows, db
<1>4. CASE Load(p)
  <2>1. /\ Others(p) /\ proc'[p].at = "plan" /\ proc'[p].kind = "reconcile"
        /\ proc[p].kind = "reconcile" /\ proc'[p].fix = proc[p].fix
    BY <1>1, <1>4, LoadShape DEF Rest
  <2> QED BY <1>4, <2>1 DEF Load, Quiet, db, Errands
<1>5. CASE EndScan(p) BY <1>1, <1>5, FreedQuiet DEF EndScan, db
<1>6. ASSUME NEW e \in Ids, Begin(p, e) PROVE Quiet(p)
  <2>1. /\ Others(p) /\ proc'[p].at \in {"idle", "resolve"}
        /\ proc'[p].kind \in {"none", "webhook"}
    BY <1>6, BeginShape
  <2> QED BY <1>6, <2>1 DEF Begin, Quiet
<1>7. ASSUME NEW s \in Subs, NEW fix, Looked(p, s, fix) PROVE Quiet(p)
  <2>1. /\ Others(p) /\ proc[p].at = "look" /\ proc'[p].at \in {"look", "fix"}
        /\ proc[p].kind = "reconcile"
        /\ s \in proc[p].look /\ proc'[p].look = proc[p].look \ {s}
        /\ \A t \in Subs : proc'[p].fix[t] = IF t = s THEN fix ELSE proc[p].fix[t]
    BY <1>7, LookedShape
  <2> QED BY <1>7, <2>1 DEF Looked, Quiet, db
<1>8. CASE \E s \in Subs : Answered(p, s) \/ Unanswered(p, s)
  BY <1>7, <1>8 DEF Answered, Unanswered
<1> QED BY <1>2, <1>3, <1>4, <1>5, <1>6, <1>8 DEF WorkerStep

LEMMA ErrandQuiet ==
  ASSUME BillingInv, NEW p \in Staff, NEW r,
         proc' = [proc EXCEPT ![p] = r], UNCHANGED <<now, events, mirror, mails, past>>,
         r.kind # "reconcile",
         \/ r.at \in {"resolve", "toggle", "grant"}
         \/ r.at = "ask" /\ r.sub \in Subs /\ Known(r.sub) /\ r.old.period # 0
  PROVE  Quiet(p)
<1>1. p \in Procs BY DEF Procs
<1>2. proc'[p] = r /\ Others(p) BY <1>1, Moved
<1> QED BY <1>2 DEF Quiet, Known

LEMMA StaffQuiet ==
  ASSUME BillingInv, NEW p \in Staff, StaffStep(p)
  PROVE  Quiet(p) \/ Applies(p) \/ Ask(p)
<1>1. p \in Procs BY DEF Procs
<1>2. CASE Apply(p) BY <1>1, <1>2, ApplyQuiet
<1>3. CASE ReadToSuspend(p)
  <2> DEFINE r == [Free EXCEPT !.at = "toggle", !.kind = "suspend", !.org = org]
  <2>1. r.at = "toggle" /\ r.kind = "suspend" BY FreeFields DEF HandlerSet
  <2>2. proc' = [proc EXCEPT ![p] = r] /\ UNCHANGED <<now, events, mirror, mails, past>>
    BY <1>3 DEF ReadToSuspend, Becomes, db
  <2> HIDE DEF r
  <2> QED BY <2>1, <2>2, ErrandQuiet
<1>4. CASE Toggle(p) BY <1>1, <1>4, FreedQuiet DEF Toggle
<1>5. CASE Grant(p) BY <1>1, <1>5, FreedQuiet DEF Grant
<1>6. ASSUME NEW plan \in PlanKeys, ReadToOverride(p, plan) PROVE Quiet(p)
  <2> DEFINE r == [Free EXCEPT !.at = "grant", !.kind = "override", !.org = org, !.new.plan = plan]
  <2>1. r.at = "grant" /\ r.kind = "override" BY FreeFields DEF HandlerSet
  <2>2. proc' = [proc EXCEPT ![p] = r] /\ UNCHANGED <<now, events, mirror, mails, past>>
    BY <1>6 DEF ReadToOverride, Becomes, db
  <2> HIDE DEF r
  <2> QED BY <2>1, <2>2, ErrandQuiet
<1>7. ASSUME NEW e \in Ids, Replay(p, e) PROVE Quiet(p)
  <2> DEFINE r == [Free EXCEPT !.at = "resolve", !.kind = "replay", !.ev = e]
  <2>1. r.at = "resolve" /\ r.kind = "replay" BY FreeFields DEF HandlerSet
  <2>2. proc' = [proc EXCEPT ![p] = r] /\ UNCHANGED <<now, events, mirror, mails, past>>
    BY <1>7 DEF Replay, Becomes, db
  <2> HIDE DEF r
  <2> QED BY <2>1, <2>2, ErrandQuiet
<1>8. ASSUME NEW s \in Subs, Sync(p, s) PROVE Quiet(p)
  <2> DEFINE r == [Free EXCEPT !.at = "ask", !.kind = "sync", !.sub = s,
                               !.old = Columns(mirror[s]), !.org = org]
  <2>1. r.at = "ask" /\ r.kind = "sync" /\ r.sub = s /\ r.old = Columns(mirror[s])
    BY FreeFields DEF HandlerSet
  <2>2. proc' = [proc EXCEPT ![p] = r] /\ UNCHANGED <<now, events, mirror, mails, past>> /\ Known(s)
    BY <1>8 DEF Sync, Becomes, db
  <2>3. r.old.period # 0 BY <2>1, <2>2 DEF Columns, Known
  <2> HIDE DEF r
  <2> QED BY <2>1, <2>2, <2>3, ErrandQuiet
<1> QED BY <1>2, <1>3, <1>4, <1>5, <1>6, <1>7, <1>8 DEF StaffStep, PlanKeys

\* What any step of the system comes to.
LEMMA QuietOrNot ==
  ASSUME BillingInv, [Next]_vars
  PROVE  \/ Still
         \/ \E s \in Subs : ProviderChanges(s)
         \/ \E p \in Procs : Quiet(p) \/ Applies(p)
         \/ \E p \in Staff : Ask(p)
         \/ \E p \in Workers, s \in Subs : Fix(p, s)
<1>1. now \in Int BY DEF BillingInv, Stored
<1>2. CASE Tick BY <1>1, <1>2 DEF Tick, db, Still
<1>3. CASE \E e \in Ids : Deliver(e) BY <1>1, <1>3 DEF Deliver, Still
<1>4. CASE \E w \in Workers : WorkerStep(w) \/ Crash(w)
  <2>1. \A w \in Workers : Crash(w) => Quiet(w) BY FreedQuiet DEF Crash, Procs
  <2> QED BY <1>4, <2>1, WorkerQuiet DEF Procs
<1>5. CASE \E s \in Staff : StaffStep(s) BY <1>5, StaffQuiet DEF Procs
<1>6. CASE UNCHANGED vars BY <1>1, <1>6 DEF vars, db, Still
<1> QED BY <1>2, <1>3, <1>4, <1>5, <1>6 DEF Next

\* The histories name events and handlers.
Marks == retold \subseteq Ids /\ outrun \subseteq Procs

LEMMA MarksStay == ASSUME BillingInv, Marks, [Next]_vars PROVE Marks'
<1>1. \A s : Changes(s) \subseteq Ids BY DEF BillingInv, Stored, Changes, Told, Ids
<1>2. ASSUME NEW p \in Procs, Guard(p) PROVE Marks'
  <2>1. proc[p].ev \in Ids
    <3>1. proc[p].ev \in Told BY <1>2, GuardShape, EventHeld
    <3> QED BY <1>1, <3>1 DEF BillingInv, Stored, Told, Ids
  <2> QED BY <1>2, <2>1 DEF Guard, LooksAfresh, TakenUpTwice, Marks
<1>3. ASSUME NEW p \in Procs, NEW s, Overwrites(p, s) PROVE Marks'
  <2>1. retold' \subseteq retold \cup Changes(s) BY <1>3 DEF Overwrites
  <2>2. outrun' \subseteq outrun \cup Procs BY <1>3 DEF Overwrites
  <2> QED BY <1>1, <2>1, <2>2 DEF Marks
<1>4. ASSUME NEW p \in Procs, Applies(p) PROVE Marks'
  BY <1>2, <1>3, <1>4 DEF Applies, Fetch, Saves, Save, Notify, past, Marks
<1>5. ASSUME NEW p \in Staff, Ask(p) PROVE Marks' BY <1>5 DEF Ask, LooksAfresh, Marks
<1>6. ASSUME NEW p \in Workers, NEW s \in Subs, Fix(p, s) PROVE Marks'
  BY <1>3, <1>6 DEF Fix, Procs
<1>7. (Still \/ (\E s \in Subs : ProviderChanges(s)) \/ \E p \in Procs : Quiet(p)) => Marks'
  BY DEF Still, ProviderChanges, Quiet, past, Marks
<1> QED BY <1>4, <1>5, <1>6, <1>7, QuietOrNot

(* Every row, job and handler keeps its shape, and the tries of a job stay *)
(* within what the queue allows, for any number of workers and staff.      *)
THEOREM TypesHold == Spec => []TypeOK
<1>1. ClaimInv /\ Marks => TypeOK
  <2> SUFFICES ASSUME ClaimInv, Marks PROVE TypeOK
    OBVIOUS
  <2>1. BillingInv /\ Claims /\ Stored BY DEF ClaimInv, BillingInv
  <2>2. tries \in [Ids -> 0..MaxTries] BY <2>1 DEF Stored, Claims, BillingAssumption
  <2>3. events \in Seq([sub : Subs, status : Statuses, product : Products,
                        tagged : BOOLEAN, at : 0..MaxNow])
    BY <2>1 DEF Stored, EventSet
  <2>4. ASSUME NEW s \in Subs
        PROVE  Columns(mirror[s]) \in ColumnSet /\ mirror[s].updated \in 0..MaxNow
    BY <2>1, RowHeld DEF RowSet
  <2>5. ASSUME NEW p \in Procs
        PROVE  /\ proc[p].new \in ColumnSet /\ proc[p].old \in ColumnSet /\ proc[p].org \in OrgSet
               /\ proc[p].ev \in 0..MaxEvents /\ proc[p].look \subseteq Subs
    BY <2>1, HandlerHeld DEF HandlerSet
  <2> QED BY <2>1, <2>2, <2>3, <2>4, <2>5 DEF Stored, TypeOK, Marks
<1>2. Init => Marks BY DEF Init, Marks
<1>3. ClaimInv /\ Marks /\ [Next]_vars => Marks' BY MarksStay DEF ClaimInv
<1> QED BY <1>1, <1>2, <1>3, ClaimsAlways, PTL DEF Spec

-----------------------------------------------------------------------------
(* Rows go forward. A handler that nobody overtook between its look at a   *)
(* row and the upsert holds a state no older than the row's.               *)

\* Events are in order, and a row is of an event of its subscription and not
\* older than it.
Dated ==
  /\ \A e \in Told : events[e].at <= now
  /\ \A e, f \in Told : e <= f => events[e].at <= events[f].at
  /\ \A s \in Subs :
       /\ mirror[s].updated <= now
       /\ ~Known(s) => mirror[s].updated = 0 /\ mirror[s].status = "none"
       /\ Known(s) => /\ mirror[s].period \in Changes(s)
                      /\ events[mirror[s].period].at <= mirror[s].updated

Newer(q) == events[mirror[proc[q].sub].period].at <= events[proc[q].new.period].at

Abreast(q) ==
  /\ proc[q].at \in {"ask", "fetch", "save"} => proc[q].sub \in Subs
  /\ proc[q].at = "ask" => proc[q].old.period # 0
  /\ proc[q].at \in {"ask", "save"} /\ proc[q].old.period # 0 => Known(proc[q].sub)
  /\ proc[q].at = "save" /\ proc[q].old.period = 0 => proc[q].old.status = "none"
  /\ \A s \in Subs :
       /\ proc[q].at = "look" /\ s \in proc[q].look => Known(s)
       /\ proc[q].kind = "reconcile" /\ proc[q].fix[s] # "none" => Known(s)
  /\ proc[q].at \in {"fetch", "save"} =>
       /\ proc[q].new.period \in Changes(proc[q].sub)
       /\ q \notin outrun /\ Known(proc[q].sub) => Newer(q)

ForwardInv == BillingInv /\ Dated /\ \A q \in Procs : Abreast(q)

LEMMA NumbersHeld ==
  ASSUME BillingInv
  PROVE  /\ now \in Int /\ \A e \in Told : e \in Int /\ e # 0 /\ events[e] \in EventSet /\ events[e].at \in Int
         /\ \A s \in Subs : mirror[s].updated \in Int /\ mirror[s].period \in Int
<1>1. now \in 0..MaxNow /\ events \in Seq(EventSet) BY DEF BillingInv, Stored
<1>2. now \in Int /\ \A n \in 0..MaxNow : n \in Int BY <1>1
<1>3. \A e \in Told : events[e] \in EventSet /\ e \in Int /\ e # 0 BY <1>1 DEF Told
<1>4. \A e \in EventSet : e.at \in 0..MaxNow BY DEF EventSet
<1>5. \A s \in Subs : mirror[s] \in RowSet BY RowHeld
<1>6. \A r \in RowSet : r.updated \in Int /\ r.period \in Int BY DEF RowSet
<1> QED BY <1>2, <1>3, <1>4, <1>5, <1>6

LEMMA ChangesTold == \A s : Changes(s) \subseteq Told
BY DEF Changes

\* Where no event comes and no row changes what it was copied from.
LEMMA DatedStays ==
  ASSUME BillingInv, Dated, UNCHANGED <<events, mirror>>, now' \in Int, now <= now'
  PROVE  Dated'
BY NumbersHeld DEF Dated, Told, Changes, Known

LEMMA AbreastStays ==
  ASSUME Dated, NEW q \in Procs, Abreast(q), proc'[q] = proc[q],
         \A e \in Told : events'[e] = events[e], Told \subseteq Told',
         \A s \in Subs : mirror'[s].period = mirror[s].period,
         q \in outrun => q \in outrun'
  PROVE  Abreast(q)'
<1>1. \A s : Changes(s) \subseteq Changes(s)' BY DEF Changes
<1>2. ASSUME proc[q].at \in {"ask", "fetch", "save"}
      PROVE  proc[q].sub \in Subs /\ Known(proc[q].sub)' = Known(proc[q].sub)
  BY <1>2 DEF Abreast, Known
<1>3. ASSUME proc[q].at \in {"fetch", "save"}, q \notin outrun, Known(proc[q].sub) PROVE Newer(q)'
  <2>1. /\ proc[q].sub \in Subs /\ Newer(q)
        /\ proc[q].new.period \in Told /\ mirror[proc[q].sub].period \in Told
    BY <1>3, ChangesTold DEF Abreast, Dated
  <2> QED BY <2>1 DEF Newer
<1>4. \A s \in Subs : Known(s)' = Known(s) BY DEF Known
<1> QED BY <1>1, <1>2, <1>3, <1>4 DEF Abreast

LEMMA QuietForward ==
  ASSUME ForwardInv, NEW p \in Procs, Quiet(p)
  PROVE  Dated' /\ \A q \in Procs : Abreast(q)'
<1>1. BillingInv /\ Dated /\ now \in Int BY NumbersHeld DEF ForwardInv
<1>2. UNCHANGED <<now, events, mirror, outrun>> /\ Others(p) BY DEF Quiet, past
<1>3. Dated' BY <1>1, <1>2, DatedStays
<1>4. ASSUME NEW q \in Procs, q # p PROVE Abreast(q)'
  <2>1. Abreast(q) /\ proc'[q] = proc[q] BY <1>2, <1>4 DEF ForwardInv, Others
  <2> QED BY <1>1, <1>2, <2>1, AbreastStays DEF Told
<1>5. Abreast(p)'
  <2>1. \A t \in Subs : Known(t)' = Known(t) BY <1>2 DEF Known
  <2>2. Abreast(p) BY DEF ForwardInv
  <2>3. ASSUME NEW t \in Subs
        PROVE  /\ proc'[p].at = "look" /\ t \in proc'[p].look => Known(t)
               /\ proc'[p].kind = "reconcile" /\ proc'[p].fix[t] # "none" => Known(t)
    BY <2>2 DEF Quiet, Abreast
  <2>4. proc'[p].at = "ask" => Known(proc[p].sub)' BY <2>1 DEF Quiet, Known
  <2> QED BY <2>1, <2>3, <2>4 DEF Quiet, Abreast
<1> QED BY <1>3, <1>4, <1>5

LEMMA StillForward ==
  ASSUME ForwardInv, Still
  PROVE  Dated' /\ \A q \in Procs : Abreast(q)'
<1>1. BillingInv /\ Dated BY DEF ForwardInv
<1>2. UNCHANGED <<events, mirror, proc, outrun>> BY DEF Still, past
<1>3. Dated' BY <1>1, <1>2, DatedStays DEF Still
<1>4. ASSUME NEW q \in Procs PROVE Abreast(q)'
  <2>1. Abreast(q) BY DEF ForwardInv
  <2> QED BY <1>1, <1>2, <2>1, AbreastStays DEF Told
<1> QED BY <1>3, <1>4

\* The newest event of all comes last.
LEMMA ProviderShape ==
  ASSUME BillingInv, NEW s \in Subs, ProviderChanges(s)
  PROVE  /\ Told' = Told \cup {Len(events')} /\ Len(events') \notin Told
         /\ \A e \in Told : events'[e] = events[e] /\ e < Len(events')
         /\ Len(events') \in Ids /\ events'[Len(events')].at = now
         /\ UNCHANGED <<now, mirror, proc, mails, past>>
<1>1. PICK status \in Statuses, product \in Products, tagged \in Tags :
        events' = Append(events, [sub |-> s, status |-> status, product |-> product,
                                  tagged |-> tagged, at |-> now])
  BY DEF ProviderChanges
<1> DEFINE e == [sub |-> s, status |-> status, product |-> product, tagged |-> tagged, at |-> now]
<1>2. events \in Seq(EventSet) /\ now \in 0..MaxNow /\ Len(events) < MaxEvents
  BY DEF BillingInv, Stored, ProviderChanges
<1>3. e \in EventSet /\ e.at = now BY <1>2 DEF EventSet
<1> HIDE DEF e
<1>4. events' = Append(events, e) BY <1>1 DEF e
<1>5. /\ Len(events) \in Nat /\ Len(events') = Len(events) + 1 /\ events'[Len(events')] = e
      /\ \A f \in 1..Len(events) : events'[f] = events[f]
  BY <1>2, <1>3, <1>4
<1>6. Told' = Told \cup {Len(events')} /\ Len(events') \notin Told
      /\ \A f \in Told : f < Len(events')
  BY <1>5 DEF Told
<1>7. Len(events') \in Ids BY <1>2, <1>5 DEF Ids
<1> QED BY <1>3, <1>5, <1>6, <1>7 DEF ProviderChanges, Told, db

LEMMA ProviderForward ==
  ASSUME ForwardInv, NEW s \in Subs, ProviderChanges(s)
  PROVE  Dated' /\ \A q \in Procs : Abreast(q)'
<1> DEFINE n == Len(events')
<1>1. BillingInv /\ Dated /\ now \in Int BY NumbersHeld DEF ForwardInv
<1>2. /\ Told' = Told \cup {n} /\ \A e \in Told : events'[e] = events[e] /\ e < n
      /\ events'[n].at = now /\ UNCHANGED <<now, mirror, proc, outrun>> /\ n \in Int
  BY <1>1, ProviderShape DEF past, Ids
<1> HIDE DEF n
<1>3. ASSUME NEW q \in Procs PROVE Abreast(q)'
  <2>1. Abreast(q) BY DEF ForwardInv
  <2> QED BY <1>1, <1>2, <2>1, AbreastStays
<1>4. ASSUME NEW e \in Told', NEW f \in Told', e <= f PROVE events'[e].at <= events'[f].at
  <2>1. CASE e \in Told /\ f \in Told BY <1>1, <1>2, <1>4, <2>1 DEF Dated
  <2>2. CASE e \in Told /\ f = n BY <1>1, <1>2, <2>2 DEF Dated
  <2>3. CASE e = n /\ f \in Told BY <1>1, <1>2, <1>4, <2>3, NumbersHeld
  <2>4. CASE e = n /\ f = n BY <1>1, <1>2, <2>4
  <2> QED BY <1>2, <2>1, <2>2, <2>3, <2>4
<1>5. ASSUME NEW t \in Subs, Known(t)
      PROVE  /\ mirror[t].period \in Changes(t)'
             /\ events'[mirror[t].period].at <= mirror[t].updated
  <2>1. mirror[t].period \in Changes(t) /\ events[mirror[t].period].at <= mirror[t].updated
    BY <1>1, <1>5 DEF Dated
  <2> QED BY <1>2, <2>1 DEF Changes
<1>6. \A e \in Told' : events'[e].at <= now BY <1>1, <1>2 DEF Dated
<1>7. Dated' BY <1>1, <1>2, <1>4, <1>5, <1>6 DEF Dated, Known
<1> QED BY <1>3, <1>7

LEMMA GuardForward ==
  ASSUME ForwardInv, NEW p \in Procs, Guard(p)
  PROVE  Dated' /\ \A q \in Procs : Abreast(q)'
<1> DEFINE h == proc[p]
           e == events[h.ev]
<1>1. BillingInv /\ Dated /\ now \in Int BY NumbersHeld DEF ForwardInv
<1>2. UNCHANGED <<now, events, mirror>> /\ outrun' = outrun \ {p}
  BY DEF Guard, db, LooksAfresh
<1>3. /\ Others(p) /\ h.at = "guard" /\ h.kind \in {"webhook", "replay"}
      /\ proc'[p].sub = h.sub /\ proc'[p].kind = h.kind
      /\ \/ proc'[p].at = "mark"
         \/ /\ ~Late(e, mirror[e.sub]) /\ proc'[p].at = "fetch"
            /\ proc'[p].new.period = h.ev
  BY <1>1, GuardShape DEF Rest
<1>4. /\ h.sub = e.sub /\ e.sub \in Subs /\ h.ev \in Changes(e.sub) /\ h.ev \in Told
  BY <1>1, <1>3, EventHeld DEF BillingInv, Handlers, Sound
<1>5. Dated' BY <1>1, <1>2, DatedStays
<1>6. ASSUME NEW q \in Procs, q # p PROVE Abreast(q)'
  <2>1. Abreast(q) /\ proc'[q] = proc[q] /\ (q \in outrun => q \in outrun')
    BY <1>2, <1>3, <1>6 DEF ForwardInv, Others
  <2> QED BY <1>1, <1>2, <2>1, AbreastStays DEF Told
<1>7. Abreast(p)'
  <2>1. CASE proc'[p].at = "mark" BY <1>3, <2>1 DEF Abreast
  <2>2. CASE /\ ~Late(e, mirror[e.sub]) /\ proc'[p].at = "fetch" /\ proc'[p].new.period = h.ev
    <3>1. Changes(proc[p].sub)' = Changes(h.sub) BY <1>2, <1>3 DEF Changes, Told
    <3>2. ASSUME Known(h.sub) PROVE events[mirror[h.sub].period].at <= e.at
      <4>1. mirror[h.sub].updated <= e.at
        <5>1. mirror[h.sub].updated \in Int /\ e.at \in Int BY <1>1, <1>4, NumbersHeld
        <5> QED BY <1>4, <2>2, <3>2, <5>1 DEF Late, Known
      <4>2. /\ events[mirror[h.sub].period].at <= mirror[h.sub].updated
            /\ mirror[h.sub].period \in Told
        BY <1>1, <1>4, <3>2, ChangesTold DEF Dated
      <4>3. /\ events[mirror[h.sub].period].at \in Int /\ e.at \in Int
            /\ mirror[h.sub].updated \in Int
        BY <1>1, <1>4, <4>2, NumbersHeld
      <4> QED BY <4>1, <4>2, <4>3
    <3>3. Known(proc[p].sub)' = Known(h.sub) BY <1>2, <1>3 DEF Known
    <3>4. /\ proc'[p].sub = h.sub /\ h.sub \in Subs /\ h.ev \in Changes(h.sub)
          /\ proc'[p].kind # "reconcile"
      BY <1>3, <1>4
    <3> HIDE DEF h
    <3>5. Known(h.sub) => Newer(p)' BY <1>2, <2>2, <3>2, <3>4 DEF Newer
    <3> QED BY <2>2, <3>1, <3>3, <3>4, <3>5 DEF Abreast
  <2> QED BY <1>3, <2>1, <2>2
<1> QED BY <1>5, <1>6, <1>7

LEMMA FetchForward ==
  ASSUME ForwardInv, NEW p \in Procs, Fetch(p)
  PROVE  Dated' /\ \A q \in Procs : Abreast(q)'
<1> DEFINE h == proc[p]
<1>1. BillingInv /\ Dated /\ now \in Int /\ Abreast(p) BY NumbersHeld DEF ForwardInv
<1>2. UNCHANGED <<now, events, mirror, outrun>> BY DEF Fetch, db, past
<1>3. /\ Others(p) /\ h.at = "fetch" /\ proc'[p].at = "save" /\ proc'[p].sub = h.sub
      /\ proc'[p].new = h.new /\ proc'[p].old = Columns(mirror[h.sub])
      /\ proc'[p].kind # "reconcile"
  BY <1>1, FetchShape DEF Rest
<1>4. Dated' BY <1>1, <1>2, DatedStays
<1>5. ASSUME NEW q \in Procs, q # p PROVE Abreast(q)'
  <2>1. Abreast(q) /\ proc'[q] = proc[q] BY <1>3, <1>5 DEF ForwardInv, Others
  <2> QED BY <1>1, <1>2, <2>1, AbreastStays DEF Told
<1>6. Abreast(p)'
  <2>1. /\ h.sub \in Subs /\ (proc'[p].old.period # 0 => Known(h.sub))
        /\ proc'[p].old.period = 0 => proc'[p].old.status = "none"
    BY <1>1, <1>3 DEF Columns, Known, Abreast, Dated
  <2>2. Changes(proc[p].sub)' = Changes(h.sub) /\ Known(proc[p].sub)' = Known(h.sub)
    BY <1>2, <1>3 DEF Changes, Told, Known
  <2>3. Newer(p) => Newer(p)' BY <1>2, <1>3 DEF Newer
  <2> HIDE DEF h
  <2> QED BY <1>1, <1>2, <1>3, <2>1, <2>2, <2>3 DEF Abreast, h
<1> QED BY <1>4, <1>5, <1>6

\* What the provider answers is the newest state of the subscription.
LEMMA AskedShape ==
  ASSUME BillingInv, NEW p \in Staff, Ask(p)
  PROVE  /\ Others(p) /\ proc[p].at = "ask" /\ proc[p].kind = "sync"
         /\ \/ proc'[p] = Free
            \/ /\ proc'[p].at = "save" /\ proc'[p].kind = "sync" /\ proc'[p].sub = proc[p].sub
               /\ proc'[p].old = proc[p].old /\ proc'[p].new.period = Latest(proc[p].sub)
<1> DEFINE h == proc[p]
           e == Latest(h.sub)
           plan == IF events[e].product # None THEN events[e].product ELSE h.old.plan
           new == [status |-> events[e].status, plan |-> plan, period |-> e]
           r == [h EXCEPT !.at = "save", !.new = new]
<1>1. p \in Procs BY DEF Procs
<1>2. h.at = "ask" /\ h.kind = "sync" /\ h \in HandlerSet BY <1>1, HandlerHeld DEF Ask, Stage
<1>3. proc' \in {[proc EXCEPT ![p] = r], [proc EXCEPT ![p] = Free]} BY DEF Ask, Becomes
<1>4. new.period = e OBVIOUS
<1>5. r.at = "save" /\ r.kind = h.kind /\ r.sub = h.sub /\ r.old = h.old /\ r.new = new
  <2> HIDE DEF new, h
  <2> QED BY <1>2 DEF HandlerSet
<1> HIDE DEF r, new
<1>6. CASE proc' = [proc EXCEPT ![p] = r] BY <1>1, <1>2, <1>4, <1>5, <1>6, Moved
<1>7. CASE proc' = [proc EXCEPT ![p] = Free] BY <1>1, <1>2, <1>7, Moved
<1> QED BY <1>3, <1>6, <1>7

LEMMA AskForward ==
  ASSUME ForwardInv, NEW p \in Staff, Ask(p)
  PROVE  Dated' /\ \A q \in Procs : Abreast(q)'
<1> DEFINE h == proc[p]
           e == Latest(h.sub)
<1>1. BillingInv /\ Dated /\ now \in Int /\ p \in Procs /\ Abreast(p)
  BY NumbersHeld DEF ForwardInv, Procs
<1>2. UNCHANGED <<now, events, mirror>> /\ outrun' = outrun \ {p} BY DEF Ask, db, LooksAfresh
<1>3. /\ Others(p) /\ h.at = "ask" /\ h.kind = "sync"
      /\ \/ proc'[p] = Free
         \/ /\ proc'[p].at = "save" /\ proc'[p].sub = h.sub /\ proc'[p].new.period = e
            /\ proc'[p].kind = "sync" /\ proc'[p].old = h.old
  BY <1>1, AskedShape
<1>4. Dated' BY <1>1, <1>2, DatedStays
<1>5. ASSUME NEW q \in Procs, q # p PROVE Abreast(q)'
  <2>1. Abreast(q) /\ proc'[q] = proc[q] /\ (q \in outrun => q \in outrun')
    BY <1>2, <1>3, <1>5 DEF ForwardInv, Others
  <2> QED BY <1>1, <1>2, <2>1, AbreastStays DEF Told
<1>6. Abreast(p)'
  <2>1. CASE proc'[p] = Free BY <2>1 DEF Abreast, Free
  <2>2. CASE /\ proc'[p].at = "save" /\ proc'[p].sub = h.sub /\ proc'[p].new.period = e
             /\ proc'[p].kind = "sync" /\ proc'[p].old = h.old
    <3>1. h.sub \in Subs /\ Known(h.sub) /\ h.old.period # 0 BY <1>1, <1>3 DEF Abreast
    <3>2. mirror[h.sub].period \in Changes(h.sub) BY <1>1, <3>1 DEF Dated
    <3>3. e \in Changes(h.sub) /\ mirror[h.sub].period <= e
      <4>1. Len(events) \in Nat BY <1>1 DEF BillingInv, Stored
      <4>2. Changes(h.sub) # {} BY <3>2
      <4> HIDE DEF h
      <4> QED BY <3>2, <4>1, <4>2, LatestIsLast
    <3>4. events[mirror[h.sub].period].at <= events[e].at
      BY <1>1, <3>2, <3>3, ChangesTold DEF Dated
    <3>5. Changes(proc[p].sub)' = Changes(h.sub) /\ Known(proc[p].sub)' = Known(h.sub)
      BY <1>2, <2>2 DEF Changes, Told, Known
    <3> HIDE DEF h, e
    <3>6. Newer(p)' BY <1>2, <2>2, <3>4 DEF Newer
    <3> QED BY <2>2, <3>1, <3>3, <3>5, <3>6 DEF Abreast
  <2> QED BY <1>3, <2>1, <2>2
<1> QED BY <1>4, <1>5, <1>6

\* What an upsert writes: what differs from what was read, or nothing.
LEMMA SaveWrites ==
  ASSUME ForwardInv, NEW p \in Procs, Saves(p)
  PROVE  LET h == proc[p]
             s == h.sub
             row == mirror[s]
         IN /\ s \in Subs /\ h.new.period \in Changes(s) /\ Overwrites(p, s)
            /\ \A t \in Subs : t # s => mirror'[t] = mirror[t]
            /\ mirror'[s] = row \/ mirror'[s].updated = now
            /\ mirror'[s].period \in {row.period, h.new.period} /\ mirror'[s].period # 0
            /\ h.new.status # h.old.status => mirror'[s].status = h.new.status
            /\ UNCHANGED <<now, events, mails>>
<1> DEFINE h == proc[p]
           s == h.sub
           row == mirror[s]
           new == h.new
           st == Dirty(row, h.old, new, "status")
           pl == Dirty(row, h.old, new, "plan")
           pe == Dirty(row, h.old, new, "period")
<1>1. /\ h.at = "save" /\ Overwrites(p, s) /\ UNCHANGED <<now, events, mails>>
      /\ mirror' = [mirror EXCEPT ![s] = Updated(row, h.old, new)]
  BY DEF Saves, Save
<1>2. /\ s \in Subs /\ new.period \in Changes(s) /\ (h.old.period # 0 => row.period # 0)
  BY <1>1 DEF ForwardInv, Abreast, Known
<1>3. new.period # 0 BY <1>2, ChangesTold, NumbersHeld DEF ForwardInv
<1>4. mirror \in [Subs -> RowSet] BY DEF ForwardInv, BillingInv, Stored
<1> HIDE DEF h, s, row, new
<1>5. mirror'[s] = Updated(row, h.old, new) /\ \A t \in Subs : t # s => mirror'[t] = mirror[t]
  BY <1>1, <1>2, <1>4
<1>6. /\ pe \in {row.period, new.period} /\ pe # 0
      /\ new.status # h.old.status => st = new.status
  BY <1>2, <1>3 DEF Dirty
<1> HIDE DEF st, pl, pe
<1>7. CASE new = h.old
  <2>1. mirror'[s] = row BY <1>5, <1>7 DEF Updated
  <2>2. row.period # 0 BY <1>2, <1>3, <1>7
  <2> QED BY <1>1, <1>2, <1>5, <1>7, <2>1, <2>2 DEF h, s, row, new
<1>8. CASE new # h.old
  <2>1. mirror'[s] = [status |-> st, plan |-> pl, period |-> pe, updated |-> now]
    BY <1>5, <1>8 DEF Updated, st, pl, pe
  <2>2. mirror'[s].status = st /\ mirror'[s].period = pe /\ mirror'[s].updated = now BY <2>1
  <2> QED BY <1>1, <1>2, <1>5, <1>6, <2>2 DEF h, s, row, new
<1> QED BY <1>7, <1>8

LEMMA SaveForward ==
  ASSUME ForwardInv, NEW p \in Procs, Saves(p)
  PROVE  Dated' /\ \A q \in Procs : Abreast(q)'
<1> DEFINE s == proc[p].sub
           new == proc[p].new
<1>1. BillingInv /\ Dated /\ now \in Int BY NumbersHeld DEF ForwardInv
<1>2. /\ s \in Subs /\ new.period \in Changes(s) /\ Overwrites(p, s)
      /\ \A t \in Subs : t # s => mirror'[t] = mirror[t]
      /\ mirror'[s] = mirror[s] \/ mirror'[s].updated = now
      /\ mirror'[s].period \in {mirror[s].period, new.period} /\ mirror'[s].period # 0
      /\ UNCHANGED <<now, events>>
  BY SaveWrites
<1>3. Others(p) /\ proc'[p].at = "plan" /\ proc'[p].kind # "reconcile"
  BY <1>1, SaveShape DEF Saves, Rest
<1>4. Told' = Told /\ \A t : Changes(t)' = Changes(t) BY <1>2 DEF Told, Changes
<1> HIDE DEF s, new
<1>5. mirror'[s].period \in Changes(s) BY <1>1, <1>2 DEF Dated, Known
<1>6. /\ mirror'[s].updated <= now
      /\ events[mirror'[s].period].at <= mirror'[s].updated
  <2>1. CASE mirror'[s] = mirror[s] BY <1>1, <1>2, <2>1 DEF Dated, Known
  <2>2. CASE mirror'[s].updated = now
    <3>1. events[mirror'[s].period].at <= now BY <1>1, <1>5, ChangesTold DEF Dated
    <3> QED BY <1>1, <2>2, <3>1
  <2> QED BY <1>2, <2>1, <2>2
<1>7. ASSUME NEW t \in Subs
      PROVE  /\ mirror'[t].updated <= now
             /\ mirror'[t].period = 0 => mirror'[t].updated = 0 /\ mirror'[t].status = "none"
             /\ mirror'[t].period # 0 => /\ mirror'[t].period \in Changes(t)
                                        /\ events[mirror'[t].period].at <= mirror'[t].updated
  <2>1. CASE t = s BY <1>2, <1>5, <1>6, <2>1
  <2>2. CASE t # s BY <1>1, <1>2, <2>2 DEF Dated, Known
  <2> QED BY <2>1, <2>2
<1>8. Dated' BY <1>1, <1>2, <1>4, <1>7 DEF Dated, Known
<1>9. \A t \in Subs : Known(t) => Known(t)' BY <1>2 DEF Known
<1>10. ASSUME NEW q \in Procs, q # p PROVE Abreast(q)'
  <2>1. Abreast(q) /\ proc'[q] = proc[q] BY <1>3, <1>10 DEF ForwardInv, Others
  <2>2. q \in outrun => q \in outrun' BY <1>2 DEF Overwrites
  <2>3. CASE mirror'[s].period = mirror[s].period
    <3>1. \A t \in Subs : mirror'[t].period = mirror[t].period BY <1>2, <2>3
    <3> QED BY <1>1, <1>2, <1>4, <2>1, <2>2, <3>1, AbreastStays
  <2>4. CASE mirror'[s].period # mirror[s].period
    <3>1. CASE proc[q].at \in {"fetch", "save"} /\ proc[q].sub = s
      <4>1. q \in outrun' BY <1>2, <1>10, <2>4, <3>1 DEF Overwrites, Writing
      <4>2. Known(proc[q].sub)' BY <1>2, <2>1, <3>1 DEF Known
      <4>3. /\ proc[q].sub \in Subs /\ proc[q].new.period \in Changes(proc[q].sub)'
        BY <1>4, <2>1, <3>1 DEF Abreast
      <4> QED BY <1>9, <2>1, <4>1, <4>2, <4>3, <1>4 DEF Abreast
    <3>2. CASE proc[q].at \in {"ask", "fetch", "save"} /\ proc[q].sub # s
      <4>1. proc[q].sub \in Subs BY <2>1, <3>2 DEF Abreast
      <4>2. mirror'[proc[q].sub] = mirror[proc[q].sub] BY <1>2, <3>2, <4>1
      <4>3. Known(proc[q].sub)' = Known(proc[q].sub) BY <2>1, <4>2 DEF Known
      <4>4. Newer(q) => Newer(q)' BY <1>2, <2>1, <4>2 DEF Newer
      <4> QED BY <1>4, <1>9, <2>1, <2>2, <4>1, <4>3, <4>4 DEF Abreast
    <3>3. CASE proc[q].at = "ask" /\ proc[q].sub = s
      <4>1. Known(proc[q].sub)' BY <1>2, <2>1, <3>3 DEF Known
      <4> QED BY <1>9, <2>1, <3>3, <4>1 DEF Abreast
    <3>4. CASE proc[q].at \notin {"ask", "fetch", "save"} BY <1>9, <2>1, <3>4 DEF Abreast
    <3> QED BY <3>1, <3>2, <3>3, <3>4
  <2> QED BY <2>3, <2>4
<1>11. Abreast(p)' BY <1>3 DEF Abreast
<1> QED BY <1>8, <1>10, <1>11

LEMMA FixForward ==
  ASSUME ForwardInv, NEW p \in Workers, NEW s \in Subs, Fix(p, s)
  PROVE  Dated' /\ \A q \in Procs : Abreast(q)'
<1>1. BillingInv /\ Dated /\ now \in Int /\ p \in Procs BY NumbersHeld DEF ForwardInv, Procs
<1>2. UNCHANGED <<now, events>> /\ Overwrites(p, s) /\ proc[p].at = "fix" BY DEF Fix
<1>3. /\ Others(p) /\ proc'[p].at = "load" /\ proc[p].fix[s] # "none"
      /\ \A t \in Subs : /\ mirror'[t].period = mirror[t].period
                        /\ mirror'[t].updated = IF t = s THEN now ELSE mirror[t].updated
  BY <1>1, FixShape
<1>4. Told' = Told /\ \A t : Changes(t)' = Changes(t) BY <1>2 DEF Told, Changes
<1>5. Known(s)
  <2>1. Abreast(p) /\ proc[p].kind = "reconcile" BY <1>1, FixShape DEF ForwardInv
  <2> QED BY <1>3, <2>1 DEF Abreast
<1>6. Dated'
  <2>1. \A e \in Told : events[e].at <= now BY <1>1 DEF Dated
  <2>2. ASSUME NEW t \in Subs
        PROVE  /\ mirror'[t].updated <= now
               /\ mirror'[t].period = 0 => mirror'[t].updated = 0 /\ mirror'[t].status = "none"
               /\ mirror'[t].period # 0 => /\ mirror'[t].period \in Changes(t)
                                          /\ events[mirror'[t].period].at <= mirror'[t].updated
    <3>1. CASE t = s
      <4>1. mirror'[s].period = mirror[s].period /\ mirror'[s].updated = now BY <1>3
      <4>2. mirror[s].period # 0 /\ mirror[s].period \in Changes(s) BY <1>1, <1>5 DEF Dated, Known
      <4>3. events[mirror[s].period].at <= now BY <2>1, <4>2, ChangesTold
      <4> QED BY <1>1, <3>1, <4>1, <4>2, <4>3
    <3>2. CASE t # s
      <4>1. /\ mirror'[t].period = mirror[t].period /\ mirror'[t].updated = mirror[t].updated
            /\ mirror'[t].status = mirror[t].status
        BY <1>1, <1>3, <3>2, FixShape
      <4> QED BY <1>1, <4>1 DEF Dated, Known
    <3> QED BY <3>1, <3>2
  <2> QED BY <1>1, <1>2, <1>4, <2>2 DEF Dated, Known
<1>7. ASSUME NEW q \in Procs, q # p PROVE Abreast(q)'
  <2>1. Abreast(q) /\ proc'[q] = proc[q] BY <1>3, <1>7 DEF ForwardInv, Others
  <2>2. q \in outrun => q \in outrun' BY <1>2 DEF Overwrites
  <2> QED BY <1>1, <1>2, <1>3, <1>4, <2>1, <2>2, AbreastStays
<1>8. Abreast(p)'
  <2>1. /\ Abreast(p) /\ proc[p].kind = "reconcile"
        /\ \A t \in Subs : proc'[p].fix[t] # "none" => proc[p].fix[t] # "none"
    BY <1>1, FixShape DEF ForwardInv
  <2> QED BY <1>3, <2>1 DEF Abreast, Known
<1> QED BY <1>6, <1>7, <1>8

LEMMA NotifyShapes ==
  ASSUME BillingInv, NEW p \in Procs, Notify(p)
  PROVE  /\ Others(p) /\ proc'[p].at = "mark" /\ proc'[p].kind # "reconcile"
         /\ UNCHANGED <<now, events, mirror, past>>
BY NotifyShape DEF Notify, Rest, db

LEMMA NotifyForward ==
  ASSUME ForwardInv, NEW p \in Procs, Notify(p)
  PROVE  Dated' /\ \A q \in Procs : Abreast(q)'
<1>1. BillingInv /\ Dated /\ now \in Int BY NumbersHeld DEF ForwardInv
<1>2. /\ Others(p) /\ proc'[p].at = "mark" /\ proc'[p].kind # "reconcile"
      /\ UNCHANGED <<now, events, mirror, outrun>>
  BY <1>1, NotifyShapes DEF past
<1>3. Dated' BY <1>1, <1>2, DatedStays
<1>4. ASSUME NEW q \in Procs, q # p PROVE Abreast(q)'
  <2>1. Abreast(q) /\ proc'[q] = proc[q] BY <1>2, <1>4 DEF ForwardInv, Others
  <2> QED BY <1>1, <1>2, <2>1, AbreastStays DEF Told
<1>5. Abreast(p)' BY <1>2 DEF Abreast
<1> QED BY <1>3, <1>4, <1>5

LEMMA StepForward == ForwardInv /\ [Next]_vars => ForwardInv'
<1> SUFFICES ASSUME ForwardInv, [Next]_vars PROVE ForwardInv'
  OBVIOUS
<1>1. BillingInv /\ BillingInv' BY StepBillingInv DEF ForwardInv
<1>2. ASSUME NEW p \in Procs, Applies(p) PROVE Dated' /\ \A q \in Procs : Abreast(q)'
  BY <1>2, GuardForward, FetchForward, SaveForward, NotifyForward DEF Applies
<1>3. Dated' /\ \A q \in Procs : Abreast(q)'
  BY <1>1, <1>2, QuietOrNot, QuietForward, StillForward, ProviderForward, AskForward, FixForward
<1> QED BY <1>1, <1>3 DEF ForwardInv

LEMMA ForwardAlways == Spec => []ForwardInv
<1>1. ASSUME Init PROVE ForwardInv
  <2>1. BillingInv BY <1>1, InitBillingInv
  <2>2. Dated BY <1>1 DEF Init, Dated, Told, Known, NoMirror
  <2>3. \A q \in Procs : Abreast(q) BY <1>1 DEF Init, Abreast, Free
  <2> QED BY <2>1, <2>2, <2>3 DEF ForwardInv
<1> QED BY <1>1, StepForward, PTL DEF Spec

\* Only an upsert replaces the state a row was copied from.
LEMMA RowsGoForward ==
  ASSUME ForwardInv, [Next]_vars, NEW s \in Subs, Known(s)
  PROVE  \/ events[mirror'[s].period].at >= events[mirror[s].period].at
         \/ \E p \in outrun : Writing(p, s) /\ proc'[p] # proc[p]
<1>1. BillingInv /\ mirror[s].period \in Told /\ events[mirror[s].period].at \in Int
  BY NumbersHeld, ChangesTold DEF ForwardInv, Dated
<1>2. CASE mirror'[s].period = mirror[s].period BY <1>1, <1>2
<1>3. ASSUME NEW p \in Procs, Saves(p)
      PROVE  \/ events[mirror'[s].period].at >= events[mirror[s].period].at
             \/ \E q \in outrun : Writing(q, s) /\ proc'[q] # proc[q]
  <2>1. /\ \A t \in Subs : t # proc[p].sub => mirror'[t] = mirror[t]
        /\ mirror'[proc[p].sub].period \in {mirror[proc[p].sub].period, proc[p].new.period}
        /\ proc[p].new.period \in Told
    BY <1>3, SaveWrites, ChangesTold
  <2>2. CASE s # proc[p].sub BY <1>2, <2>1, <2>2
  <2>3. CASE s = proc[p].sub
    <3>1. proc[p].at = "save" /\ proc'[p].at = "plan" /\ Abreast(p)
      BY <1>1, <1>3, SaveShape DEF Saves, ForwardInv
    <3>2. CASE p \in outrun
      <4>1. Writing(p, s) /\ proc'[p] # proc[p] BY <2>3, <3>1 DEF Writing
      <4> QED BY <3>2, <4>1
    <3>3. CASE p \notin outrun
      <4>1. events[mirror[s].period].at <= events[proc[p].new.period].at
        BY <2>3, <3>1, <3>3 DEF Abreast, Newer
      <4>2. events[proc[p].new.period].at \in Int BY <1>1, <2>1, NumbersHeld
      <4> QED BY <1>1, <1>2, <2>1, <2>3, <4>1, <4>2
    <3> QED BY <3>2, <3>3
  <2> QED BY <2>2, <2>3
<1>4. ASSUME NEW p \in Workers, NEW t \in Subs, Fix(p, t) PROVE mirror'[s].period = mirror[s].period
  BY <1>1, <1>4, FixShape
<1>5. CASE UNCHANGED mirror BY <1>2, <1>5
<1>6. ASSUME NEW p \in Procs, Applies(p), ~Saves(p) PROVE UNCHANGED mirror
  BY <1>6 DEF Applies, Guard, Fetch, Notify, db
<1>7. (Still \/ (\E t \in Subs : ProviderChanges(t)) \/ (\E p \in Procs : Quiet(p))
        \/ \E p \in Staff : Ask(p)) => UNCHANGED mirror
  BY DEF Still, ProviderChanges, Quiet, Ask, db
<1> QED BY <1>1, <1>2, <1>3, <1>4, <1>5, <1>6, <1>7, QuietOrNot

(* The provider state a row was copied from is replaced by an older one    *)
(* only by a handler that somebody overtook between its look at the row    *)
(* and its upsert: with any workers and staff side by side, replays and    *)
(* syncs among them, however late, doubled or out of order the events      *)
(* come, and wherever a worker is killed.                                  *)
THEOREM RowsNeverGoBack == Spec => LateNeverUndoes
<1>1. ForwardInv /\ [Next]_vars =>
        [\A s \in Subs : Known(s) =>
           \/ events[mirror'[s].period].at >= events[mirror[s].period].at
           \/ \E p \in outrun : Writing(p, s) /\ proc'[p] # proc[p]]_vars
  BY RowsGoForward
<1> QED BY <1>1, ForwardAlways, PTL DEF Spec, LateNeverUndoes

-----------------------------------------------------------------------------
(* One mail about an event. Once it is sent, or its handler has saved the  *)
(* row, the row shows what the event said or something later; so whoever   *)
(* looks at the row after that has no transition to tell of.               *)

Holds(e) ==
  LET row == mirror[events[e].sub]
  IN row.status = events[e].status \/ row.updated > events[e].at

Tells(q, e) ==
  /\ proc[q].kind \in Errands /\ proc[q].ev = e
  /\ proc[q].at \in {"fetch", "save", "plan", "standing", "notify"}

Heard(q) == \A e \in Told : Tells(q, e) => proc[q].new.status = events[e].status

OnTime(q, e) == Tells(q, e) =>
  /\ mails[e] > 0 => proc[q].prev = events[e].status
  /\ proc[q].at \in {"plan", "standing", "notify"} => Holds(e)
  /\ proc[q].at = "save" /\ proc[q].old.status = events[e].status => Holds(e)

\* Of two who take an event up, one has no transition to tell of.
Apart(q, r, e) ==
  q # r /\ Tells(q, e) /\ Tells(r, e) =>
    proc[q].prev = events[e].status \/ proc[r].prev = events[e].status

Once(e) ==
  /\ mails[e] <= 1 /\ (mails[e] > 0 => Holds(e))
  /\ \A q \in Procs : OnTime(q, e)
  /\ \A q, r \in Procs : Apart(q, r, e)

Counted == \A e \in Ids : mails[e] > 0 => e \in Told
OnceInv ==
  /\ ForwardInv /\ Counted
  /\ \A q \in Procs : Heard(q)
  /\ \A e \in Told \ retold : Once(e)

LEMMA MailsHeld ==
  ASSUME BillingInv
  PROVE  (\A e \in Ids : mails[e] \in 0..2) /\ Told \subseteq Ids
<1>1. mails \in [Ids -> 0..2] /\ events \in Seq(EventSet) /\ Len(events) <= MaxEvents
  BY DEF BillingInv, Stored
<1>2. Len(events) \in Nat /\ MaxEvents \in Nat BY <1>1
<1>3. Told \subseteq Ids BY <1>1, <1>2 DEF Told, Ids
<1> QED BY <1>1, <1>3

\* p alone moves, and goes on with what it was telling.
LEMMA OnceStays ==
  ASSUME NEW e \in Told, Once(e), NEW p \in Procs, Others(p),
         mails'[e] = mails[e], events'[e] = events[e], Holds(e) => Holds(e)',
         Tells(p, e)' => Tells(p, e) /\ proc'[p].prev = proc[p].prev,
         Tells(p, e)' /\ proc'[p].at \in {"plan", "standing", "notify"} => Holds(e)',
         Tells(p, e)' /\ proc'[p].at = "save" /\ proc'[p].old.status = events[e].status => Holds(e)'
  PROVE  Once(e)'
<1>1. \A q \in Procs : q # p => proc'[q] = proc[q] BY DEF Others
<1>2. \A q \in Procs : q # p => Tells(q, e)' = Tells(q, e) BY <1>1 DEF Tells
<1>3. \A q \in Procs : Tells(q, e)' => Tells(q, e) /\ proc'[q].prev = proc[q].prev
  BY <1>1, <1>2
<1>4. ASSUME NEW q \in Procs PROVE OnTime(q, e)'
  <2>1. OnTime(q, e) BY DEF Once
  <2>2. CASE q = p BY <1>3, <2>1, <2>2 DEF OnTime
  <2>3. CASE q # p
    <3>1. proc'[q] = proc[q] /\ Tells(q, e)' = Tells(q, e) BY <1>1, <1>2, <2>3
    <3> QED BY <2>1, <3>1 DEF OnTime
  <2> QED BY <2>2, <2>3
<1>5. ASSUME NEW q \in Procs, NEW r \in Procs PROVE Apart(q, r, e)'
  <2>1. Apart(q, r, e) BY DEF Once
  <2> QED BY <1>3, <2>1 DEF Apart
<1>6. mails'[e] <= 1 /\ (mails'[e] > 0 => Holds(e)') BY DEF Once
<1> QED BY <1>4, <1>5, <1>6 DEF Once

LEMMA OnceStill ==
  ASSUME NEW e \in Told, Once(e), UNCHANGED <<proc, mails, mirror>>, events'[e] = events[e]
  PROVE  Once(e)'
<1>1. Holds(e)' = Holds(e) BY DEF Holds
<1>2. \A q \in Procs : Tells(q, e)' = Tells(q, e) BY DEF Tells
<1>3. \A q \in Procs : OnTime(q, e)' BY <1>1, <1>2 DEF Once, OnTime
<1>4. \A q, r \in Procs : Apart(q, r, e)' BY <1>2 DEF Once, Apart
<1> QED BY <1>1, <1>3, <1>4 DEF Once

LEMMA HeardStays ==
  ASSUME NEW q \in Procs, Heard(q), proc'[q] = proc[q], BillingInv,
         \A e \in Told : events'[e] = events[e]
  PROVE  Heard(q)'
<1>1. proc[q].kind \in Errands => proc[q].ev \in Told BY EventHeld DEF Errands
<1> QED BY <1>1 DEF Heard, Tells

\* A row that held an event still does, or the event is told again.
LEMMA RowHolds ==
  ASSUME ForwardInv, NEW p, NEW s \in Subs, Overwrites(p, s), UNCHANGED <<now, events>>,
         \A t \in Subs : t # s =>
           mirror'[t].status = mirror[t].status /\ mirror'[t].updated = mirror[t].updated,
         \/ mirror'[s].updated = now
         \/ mirror'[s].status = mirror[s].status /\ mirror'[s].updated = mirror[s].updated,
         NEW e \in Told, e \notin retold', Holds(e)
  PROVE  Holds(e)'
<1>1. /\ now \in Int /\ events[e].at \in Int /\ events[e].sub \in Subs
      /\ mirror[events[e].sub].updated \in Int
  BY NumbersHeld DEF ForwardInv, EventSet
<1>2. events[e].at <= now /\ mirror[events[e].sub].updated <= now BY <1>1 DEF ForwardInv, Dated
<1>3. CASE events[e].sub # s BY <1>1, <1>3 DEF Holds
<1>4. CASE events[e].sub = s
  <2>1. CASE mirror'[s].status = mirror[s].status /\ mirror'[s].updated = mirror[s].updated
    BY <1>4, <2>1 DEF Holds
  <2>2. CASE mirror'[s].updated = now
    <3>1. CASE events[e].at < now BY <1>1, <1>4, <2>2, <3>1 DEF Holds
    <3>2. CASE events[e].at = now
      <4>1. mirror[s].status = events[e].status BY <1>1, <1>2, <1>4, <3>2 DEF Holds
      <4>2. e \in Changes(s) BY <1>4 DEF Changes
      <4>3. mirror'[s].status = events[e].status BY <3>2, <4>1, <4>2 DEF Overwrites
      <4> QED BY <1>4, <4>3 DEF Holds
    <3> QED BY <1>1, <1>2, <3>1, <3>2
  <2> QED BY <2>1, <2>2
<1> QED BY <1>3, <1>4

LEMMA QuietOnce ==
  ASSUME OnceInv, NEW p \in Procs, Quiet(p)
  PROVE  Counted' /\ (\A q \in Procs : Heard(q)') /\ \A e \in Told' \ retold' : Once(e)'
<1>1. /\ UNCHANGED <<events, mirror, mails, retold>> /\ Others(p) /\ Told' = Told
      /\ BillingInv
  BY DEF Quiet, past, Told, OnceInv, ForwardInv
<1>2. ASSUME NEW e, Tells(p, e)'
      PROVE  /\ Tells(p, e) /\ SameNews(proc[p], proc'[p])
             /\ proc[p].at \in {"plan", "standing"} /\ proc'[p].at # "save"
  BY <1>2 DEF Quiet, Tells, SameNews
<1>3. ASSUME NEW e \in Told \ retold PROVE Once(e)'
  <2>1. Once(e) /\ Holds(e)' = Holds(e) BY <1>1 DEF OnceInv, Holds
  <2>2. Tells(p, e)' => /\ Tells(p, e) /\ proc'[p].prev = proc[p].prev /\ Holds(e)
                        /\ proc'[p].at # "save"
    BY <1>2, <2>1 DEF Once, OnTime, SameNews
  <2> QED BY <1>1, <2>1, <2>2, OnceStays
<1>4. ASSUME NEW q \in Procs PROVE Heard(q)'
  <2>1. Heard(q) BY DEF OnceInv
  <2>2. CASE q = p BY <1>1, <1>2, <2>1, <2>2 DEF Heard, SameNews
  <2>3. CASE q # p BY <1>1, <2>1, <2>3, HeardStays DEF Others
  <2> QED BY <2>2, <2>3
<1>5. Counted' BY <1>1 DEF OnceInv, Counted
<1> QED BY <1>1, <1>3, <1>4, <1>5

LEMMA StillOnce ==
  ASSUME OnceInv, Still
  PROVE  Counted' /\ (\A q \in Procs : Heard(q)') /\ \A e \in Told' \ retold' : Once(e)'
<1>1. UNCHANGED <<events, mirror, proc, mails, retold>> /\ Told' = Told /\ BillingInv
  BY DEF Still, past, Told, OnceInv, ForwardInv
<1>2. \A e \in Told \ retold : Once(e)' BY <1>1, OnceStill DEF OnceInv
<1>3. \A q \in Procs : Heard(q)' BY <1>1, HeardStays DEF OnceInv
<1>4. Counted' BY <1>1 DEF OnceInv, Counted
<1> QED BY <1>1, <1>2, <1>3, <1>4

LEMMA ProviderOnce ==
  ASSUME OnceInv, NEW s \in Subs, ProviderChanges(s)
  PROVE  Counted' /\ (\A q \in Procs : Heard(q)') /\ \A e \in Told' \ retold' : Once(e)'
<1>1. BillingInv BY DEF OnceInv, ForwardInv
<1>2. PICK n : /\ Told' = Told \cup {n} /\ n \notin Told /\ n \in Ids
               /\ (\A e \in Told : events'[e] = events[e])
               /\ UNCHANGED <<mirror, proc, mails, retold>>
  BY <1>1, ProviderShape DEF past
<1>3. \A e \in Told \ retold : Once(e)' BY <1>2, OnceStill DEF OnceInv
<1>4. Once(n)'
  <2>1. mails[n] = 0
    <3>1. mails[n] \in 0..2 /\ ~(mails[n] > 0) BY <1>1, <1>2, MailsHeld DEF OnceInv, Counted
    <3> QED BY <3>1
  <2>2. ASSUME NEW q \in Procs PROVE ~Tells(q, n)'
    <3>1. proc[q].kind \in Errands => proc[q].ev \in Told BY <1>1, EventHeld DEF Errands
    <3> QED BY <1>2, <3>1 DEF Tells
  <2> QED BY <1>2, <2>1, <2>2 DEF Once, OnTime, Apart
<1>5. \A q \in Procs : Heard(q)' BY <1>1, <1>2, HeardStays DEF OnceInv
<1>6. Counted' BY <1>2 DEF OnceInv, Counted
<1> QED BY <1>2, <1>3, <1>4, <1>5, <1>6

LEMMA FetchOnce ==
  ASSUME OnceInv, NEW p \in Procs, Fetch(p)
  PROVE  Counted' /\ (\A q \in Procs : Heard(q)') /\ \A e \in Told' \ retold' : Once(e)'
<1>1. BillingInv BY DEF OnceInv, ForwardInv
<1>2. UNCHANGED <<events, mirror, mails, retold>> /\ Told' = Told BY DEF Fetch, db, past, Told
<1>3. /\ Others(p) /\ proc[p].at = "fetch" /\ proc'[p].at = "save" /\ SameNews(proc[p], proc'[p])
      /\ proc[p].kind \in Errands /\ proc'[p].old = Columns(mirror[proc[p].sub])
  BY <1>1, FetchShape DEF Rest, SameNews, Errands
<1>4. proc[p].sub = events[proc[p].ev].sub
  BY <1>1, <1>3 DEF BillingInv, Handlers, Sound, Errands
<1>5. \A e : Tells(p, e)' => Tells(p, e) /\ proc[p].ev = e BY <1>3 DEF Tells, SameNews
<1>6. ASSUME NEW e \in Told \ retold PROVE Once(e)'
  <2>1. Once(e) /\ Holds(e)' = Holds(e) BY <1>2 DEF OnceInv, Holds
  <2>2. Tells(p, e)' /\ proc'[p].old.status = events[e].status => Holds(e)
    BY <1>3, <1>4, <1>5 DEF Holds, Columns
  <2> QED BY <1>2, <1>3, <1>5, <2>1, <2>2, OnceStays DEF SameNews
<1>7. ASSUME NEW q \in Procs PROVE Heard(q)'
  <2>1. Heard(q) BY DEF OnceInv
  <2>2. CASE q = p BY <1>2, <1>3, <1>5, <2>1, <2>2 DEF Heard, SameNews
  <2>3. CASE q # p BY <1>1, <1>2, <1>3, <2>1, <2>3, HeardStays DEF Others
  <2> QED BY <2>2, <2>3
<1>8. Counted' BY <1>2 DEF OnceInv, Counted
<1> QED BY <1>2, <1>6, <1>7, <1>8

LEMMA SaveOnce ==
  ASSUME OnceInv, NEW p \in Procs, Saves(p)
  PROVE  Counted' /\ (\A q \in Procs : Heard(q)') /\ \A e \in Told' \ retold' : Once(e)'
<1> DEFINE s == proc[p].sub
<1>1. BillingInv /\ ForwardInv BY DEF OnceInv, ForwardInv
<1>2. /\ s \in Subs /\ Overwrites(p, s) /\ UNCHANGED <<now, events, mails>>
      /\ \A t \in Subs : t # s => mirror'[t] = mirror[t]
      /\ mirror'[s] = mirror[s] \/ mirror'[s].updated = now
      /\ proc[p].new.status # proc[p].old.status => mirror'[s].status = proc[p].new.status
  BY <1>1, SaveWrites
<1>3. /\ Others(p) /\ proc[p].at = "save" /\ proc'[p].at = "plan" /\ SameNews(proc[p], proc'[p])
      /\ proc[p].kind \in Errands \cup {"sync"}
  BY <1>1, SaveShape DEF Saves, Rest, SameNews, Errands
<1>4. proc[p].kind \in Errands => s = events[proc[p].ev].sub
  BY <1>1, <1>3 DEF BillingInv, Handlers, Sound, Errands
<1>5. \A e : Tells(p, e)' => Tells(p, e) /\ proc[p].ev = e /\ proc[p].kind \in Errands
  BY <1>3 DEF Tells, SameNews
<1>6. Told' = Told /\ retold \subseteq retold' BY <1>2 DEF Told, Overwrites
<1> HIDE DEF s
<1>7. ASSUME NEW e \in Told, e \notin retold', Holds(e) PROVE Holds(e)'
  <2>1. \A t \in Subs : t # s =>
          mirror'[t].status = mirror[t].status /\ mirror'[t].updated = mirror[t].updated
    BY <1>2
  <2>2. \/ mirror'[s].updated = now
        \/ mirror'[s].status = mirror[s].status /\ mirror'[s].updated = mirror[s].updated
    BY <1>2
  <2> QED BY <1>1, <1>2, <1>7, <2>1, <2>2, RowHolds
<1>8. ASSUME NEW e \in Told, e \notin retold', Tells(p, e)' PROVE Holds(e)'
  <2>1. Once(e) /\ Heard(p) /\ Tells(p, e) /\ s = events[e].sub
    BY <1>4, <1>5, <1>6, <1>8 DEF OnceInv
  <2>2. proc[p].new.status = events[e].status BY <2>1 DEF Heard
  <2>3. CASE proc[p].old.status = events[e].status
    BY <1>3, <1>7, <1>8, <2>1, <2>3 DEF Once, OnTime
  <2>4. CASE proc[p].old.status # events[e].status
    BY <1>2, <2>1, <2>2, <2>4 DEF Holds
  <2> QED BY <2>3, <2>4
<1>9. ASSUME NEW e \in Told, e \notin retold' PROVE Once(e)'
  <2>1. Once(e) /\ (Holds(e) => Holds(e)') BY <1>6, <1>7, <1>9 DEF OnceInv
  <2>2. mails'[e] = mails[e] /\ events'[e] = events[e] BY <1>2
  <2>3. Tells(p, e)' => /\ Tells(p, e) /\ proc'[p].prev = proc[p].prev
                        /\ proc'[p].at # "save" /\ Holds(e)'
    BY <1>3, <1>5, <1>8, <1>9 DEF SameNews
  <2> QED BY <1>3, <2>1, <2>2, <2>3, OnceStays
<1>10. ASSUME NEW q \in Procs PROVE Heard(q)'
  <2>1. Heard(q) BY DEF OnceInv
  <2>2. CASE q = p BY <1>2, <1>3, <1>5, <1>6, <2>1, <2>2 DEF Heard, SameNews
  <2>3. CASE q # p BY <1>1, <1>2, <1>3, <2>1, <2>3, HeardStays DEF Others
  <2> QED BY <2>2, <2>3
<1>11. Counted' BY <1>2, <1>6 DEF OnceInv, Counted
<1> QED BY <1>6, <1>9, <1>10, <1>11

LEMMA FixOnce ==
  ASSUME OnceInv, NEW p \in Workers, NEW s \in Subs, Fix(p, s)
  PROVE  Counted' /\ (\A q \in Procs : Heard(q)') /\ \A e \in Told' \ retold' : Once(e)'
<1>1. BillingInv /\ ForwardInv /\ p \in Procs BY DEF OnceInv, ForwardInv, Procs
<1>2. UNCHANGED <<now, events, mails>> /\ Overwrites(p, s) BY DEF Fix
<1>3. /\ Others(p) /\ proc'[p].kind = "reconcile"
      /\ \A t \in Subs : t # s =>
           mirror'[t].status = mirror[t].status /\ mirror'[t].updated = mirror[t].updated
      /\ mirror'[s].updated = now
  BY <1>1, FixShape
<1>4. Told' = Told /\ retold \subseteq retold' BY <1>2 DEF Told, Overwrites
<1>5. \A e : ~Tells(p, e)' BY <1>3 DEF Tells, Errands
<1>6. ASSUME NEW e \in Told, e \notin retold' PROVE Once(e)'
  <2>1. Once(e) BY <1>4, <1>6 DEF OnceInv
  <2>2. Holds(e) => Holds(e)' BY <1>1, <1>2, <1>3, <1>6, RowHolds
  <2>3. mails'[e] = mails[e] /\ events'[e] = events[e] BY <1>2
  <2> QED BY <1>1, <1>3, <1>5, <2>1, <2>2, <2>3, OnceStays
<1>7. ASSUME NEW q \in Procs PROVE Heard(q)'
  <2>1. Heard(q) BY DEF OnceInv
  <2>2. CASE q = p BY <1>5, <2>2 DEF Heard
  <2>3. CASE q # p BY <1>1, <1>2, <1>3, <2>1, <2>3, HeardStays DEF Others
  <2> QED BY <2>2, <2>3
<1>8. Counted' BY <1>2, <1>4 DEF OnceInv, Counted
<1> QED BY <1>4, <1>6, <1>7, <1>8

LEMMA AskOnce ==
  ASSUME OnceInv, NEW p \in Staff, Ask(p)
  PROVE  Counted' /\ (\A q \in Procs : Heard(q)') /\ \A e \in Told' \ retold' : Once(e)'
<1>1. BillingInv /\ p \in Procs BY DEF OnceInv, ForwardInv, Procs
<1>2. UNCHANGED <<events, mirror, mails, retold>> /\ Told' = Told BY DEF Ask, db, Told
<1>3. Others(p) /\ proc'[p].kind \in {"none", "sync"} BY <1>1, AskedShape DEF Free
<1>4. \A e : ~Tells(p, e)' BY <1>3 DEF Tells, Errands
<1>5. ASSUME NEW e \in Told \ retold PROVE Once(e)'
  <2>1. Once(e) /\ Holds(e)' = Holds(e) BY <1>2 DEF OnceInv, Holds
  <2> QED BY <1>1, <1>2, <1>3, <1>4, <2>1, OnceStays
<1>6. ASSUME NEW q \in Procs PROVE Heard(q)'
  <2>1. Heard(q) BY DEF OnceInv
  <2>2. CASE q = p BY <1>4, <2>2 DEF Heard
  <2>3. CASE q # p BY <1>1, <1>2, <1>3, <2>1, <2>3, HeardStays DEF Others
  <2> QED BY <2>2, <2>3
<1>7. Counted' BY <1>2 DEF OnceInv, Counted
<1> QED BY <1>2, <1>5, <1>6, <1>7

\* Taking an event up: a row that holds it leaves no transition to tell of,
\* and whoever else is about to tell of it has saved the row.
LEMMA GuardOnce ==
  ASSUME OnceInv, NEW p \in Procs, Guard(p)
  PROVE  Counted' /\ (\A q \in Procs : Heard(q)') /\ \A e \in Told' \ retold' : Once(e)'
<1>0. PICK n, s : n = proc[p].ev /\ s = events[n].sub OBVIOUS
<1>1. BillingInv /\ Dated BY DEF OnceInv, ForwardInv
<1>2. /\ UNCHANGED <<events, mirror, mails>> /\ Told' = Told
      /\ retold' = retold \cup TakenUpTwice(p)
  BY DEF Guard, db, Told
<1>3. /\ Others(p) /\ proc[p].at = "guard" /\ proc[p].kind \in Errands
      /\ proc'[p].kind = proc[p].kind /\ proc'[p].ev = n
      /\ \/ proc'[p].at = "mark"
         \/ /\ ~Late(events[n], mirror[s]) /\ proc'[p].at = "fetch"
            /\ proc'[p].prev = mirror[s].status /\ proc'[p].new.status = events[n].status
  BY <1>0, <1>1, GuardShape DEF Rest, Errands
<1>4. n \in Told /\ s \in Subs BY <1>0, <1>1, <1>3, EventHeld DEF Errands
<1>5. \A e : Tells(p, e)' => e = n /\ proc'[p].at = "fetch" BY <1>3 DEF Tells
<1>6. ASSUME NEW e \in Told, e \notin retold', ~Tells(p, e)' PROVE Once(e)'
  <2>1. Once(e) /\ Holds(e)' = Holds(e) BY <1>2, <1>6 DEF OnceInv, Holds
  <2> QED BY <1>2, <1>3, <1>6, <2>1, OnceStays
<1>7. ASSUME n \notin retold', Tells(p, n)' PROVE Once(n)'
  <2>1. Once(n) /\ Holds(n)' = Holds(n) BY <1>2, <1>4, <1>7 DEF OnceInv, Holds
  <2>2. /\ ~Late(events[n], mirror[s]) /\ proc'[p].at = "fetch"
        /\ proc'[p].prev = mirror[s].status
    BY <1>3, <1>5, <1>7
  <2>3. Holds(n) => proc'[p].prev = events[n].status
    <3>1. /\ events[n].at \in 0..MaxNow /\ mirror[s].updated \in Int
          /\ events[n].at \in Int
      BY <1>1, <1>4, NumbersHeld DEF EventSet
    <3>2. ~Known(s) => mirror[s].updated = 0 BY <1>1, <1>4 DEF Dated
    <3>3. ~(mirror[s].updated > events[n].at) BY <2>2, <3>1, <3>2 DEF Late, Known
    <3> QED BY <1>0, <2>2, <3>3 DEF Holds
  <2>4. ASSUME NEW q \in Procs, q # p, Tells(q, n) PROVE Holds(n)
    <3>1. ~Writing(q, s) BY <1>0, <1>2, <1>7, <2>2, <2>4 DEF TakenUpTwice, Tells
    <3>2. proc[q].at # "resolve" /\ proc[q].kind \in Errands /\ proc[q].ev = n
      BY <2>4 DEF Tells
    <3>3. proc[q].sub = s BY <1>0, <1>1, <3>2 DEF BillingInv, Handlers, Sound, Errands
    <3>4. proc[q].at \in {"plan", "standing", "notify"} BY <2>4, <3>1, <3>3 DEF Writing, Tells
    <3>5. OnTime(q, n) BY <2>1 DEF Once
    <3> QED BY <2>4, <3>4, <3>5 DEF OnTime
  <2>5. ASSUME NEW q \in Procs, q # p
        PROVE  proc'[q] = proc[q] /\ Tells(q, n)' = Tells(q, n)
    BY <1>3, <2>5 DEF Others, Tells
  <2>6. ASSUME NEW q \in Procs PROVE OnTime(q, n)'
    <3>1. CASE q = p
      <4>1. mails'[n] > 0 => proc'[p].prev = events'[n].status BY <1>2, <2>1, <2>3 DEF Once
      <4> QED BY <2>2, <3>1, <4>1 DEF OnTime
    <3>2. CASE q # p
      <4>1. OnTime(q, n) BY <2>1 DEF Once
      <4> QED BY <1>2, <2>1, <2>5, <3>2, <4>1 DEF OnTime
    <3> QED BY <3>1, <3>2
  <2>7. ASSUME NEW q \in Procs, q # p, Tells(q, n)' PROVE proc'[p].prev = events'[n].status
    BY <1>2, <2>3, <2>4, <2>5, <2>7
  <2>8. ASSUME NEW q \in Procs, NEW r \in Procs PROVE Apart(q, r, n)'
    <3>1. CASE q = p \/ r = p BY <2>7, <3>1 DEF Apart
    <3>2. CASE q # p /\ r # p
      <4>1. Apart(q, r, n) BY <2>1 DEF Once
      <4> QED BY <1>2, <2>5, <3>2, <4>1 DEF Apart
    <3> QED BY <3>1, <3>2
  <2>9. mails'[n] <= 1 /\ (mails'[n] > 0 => Holds(n)') BY <1>2, <2>1 DEF Once
  <2> QED BY <2>6, <2>8, <2>9 DEF Once
<1>8. ASSUME NEW e \in Told, e \notin retold' PROVE Once(e)' BY <1>5, <1>6, <1>7, <1>8
<1>9. ASSUME NEW q \in Procs PROVE Heard(q)'
  <2>1. Heard(q) BY DEF OnceInv
  <2>2. CASE q = p BY <1>2, <1>3, <1>5, <2>2 DEF Heard
  <2>3. CASE q # p BY <1>1, <1>2, <1>3, <2>1, <2>3, HeardStays DEF Others
  <2> QED BY <2>2, <2>3
<1>10. Counted' BY <1>2 DEF OnceInv, Counted
<1> QED BY <1>2, <1>8, <1>9, <1>10

\* The mail itself: only who saw the transition sends it, and then nobody
\* else about this event has.
LEMMA NotifyOnce ==
  ASSUME OnceInv, NEW p \in Procs, Notify(p)
  PROVE  Counted' /\ (\A q \in Procs : Heard(q)') /\ \A e \in Told' \ retold' : Once(e)'
<1>0. PICK n : n = proc[p].ev OBVIOUS
<1>1. BillingInv BY DEF OnceInv, ForwardInv
<1>2. /\ UNCHANGED <<events, mirror, retold>> /\ Told' = Told
      /\ mails' = IF Announces(proc[p].new.status, proc[p].prev)
                  THEN [mails EXCEPT ![n] = IF @ = 2 THEN 2 ELSE @ + 1] ELSE mails
  BY <1>0 DEF Notify, db, past, Told
<1>3. Others(p) /\ proc[p].at = "notify" /\ proc[p].kind \in Errands /\ proc'[p].at = "mark"
  BY <1>1, NotifyShape DEF Errands
<1>4. n \in Told /\ n \in Ids BY <1>0, <1>1, <1>3, EventHeld, MailsHeld DEF Errands
<1>5. mails \in [Ids -> 0..2] BY <1>1 DEF BillingInv, Stored
<1>6. \A e : ~Tells(p, e)' BY <1>3 DEF Tells
<1>7. ASSUME NEW e \in Told, e \notin retold, mails'[e] = mails[e] PROVE Once(e)'
  <2>1. Once(e) /\ Holds(e)' = Holds(e) BY <1>2, <1>7 DEF OnceInv, Holds
  <2> QED BY <1>2, <1>3, <1>6, <1>7, <2>1, OnceStays
<1>8. \A e \in Ids : e # n => mails'[e] = mails[e] BY <1>2, <1>5
<1>9. ASSUME n \notin retold, mails'[n] # mails[n] PROVE Once(n)'
  <2>1. Once(n) /\ Heard(p) /\ Tells(p, n) BY <1>0, <1>3, <1>4, <1>9 DEF OnceInv, Tells
  <2>2. Announces(proc[p].new.status, proc[p].prev) BY <1>2, <1>9
  <2>3. proc[p].prev # events[n].status BY <1>4, <2>1, <2>2 DEF Announces, Heard
  <2>4. OnTime(p, n) BY <2>1 DEF Once
  <2>5. ~(mails[n] > 0) /\ Holds(n) BY <1>3, <2>1, <2>3, <2>4 DEF OnTime
  <2>6. mails'[n] = 1
    <3>1. mails[n] = 0 BY <1>4, <1>5, <2>5
    <3> QED BY <1>2, <1>4, <1>5, <2>2, <3>1
  <2>7. Holds(n)' BY <1>2, <2>5 DEF Holds
  <2>8. ASSUME NEW q \in Procs, q # p
        PROVE  proc'[q] = proc[q] /\ Tells(q, n)' = Tells(q, n)
    BY <1>3, <2>8 DEF Others, Tells
  <2>9. ASSUME NEW q \in Procs, Tells(q, n)' PROVE proc'[q].prev = events'[n].status
    <3>1. q # p BY <1>6, <2>9
    <3>2. Apart(p, q, n) BY <2>1 DEF Once
    <3> QED BY <1>2, <2>1, <2>3, <2>8, <2>9, <3>1, <3>2 DEF Apart
  <2>10. \A q \in Procs : OnTime(q, n)' BY <2>7, <2>9 DEF OnTime
  <2>11. \A q, r \in Procs : Apart(q, r, n)' BY <2>9 DEF Apart
  <2> QED BY <2>6, <2>7, <2>10, <2>11 DEF Once
<1>10. ASSUME NEW e \in Told, e \notin retold PROVE Once(e)'
  <2>1. e \in Ids BY <1>1, MailsHeld
  <2> QED BY <1>7, <1>8, <1>9, <1>10, <2>1
<1>11. ASSUME NEW q \in Procs PROVE Heard(q)'
  <2>1. Heard(q) BY DEF OnceInv
  <2>2. CASE q = p BY <1>6, <2>2 DEF Heard
  <2>3. CASE q # p BY <1>1, <1>2, <1>3, <2>1, <2>3, HeardStays DEF Others
  <2> QED BY <2>2, <2>3
<1>12. Counted'
  <2>1. ASSUME NEW e \in Ids, mails'[e] > 0 PROVE e \in Told
    BY <1>4, <1>8, <2>1 DEF OnceInv, Counted
  <2> QED BY <1>2, <2>1 DEF Counted, Ids
<1> QED BY <1>2, <1>10, <1>11, <1>12

LEMMA StepOnce == OnceInv /\ [Next]_vars => OnceInv'
<1> SUFFICES ASSUME OnceInv, [Next]_vars PROVE OnceInv'
  OBVIOUS
<1>1. BillingInv /\ ForwardInv' BY StepForward DEF OnceInv, ForwardInv
<1>2. ASSUME NEW p \in Procs, Applies(p)
      PROVE  Counted' /\ (\A q \in Procs : Heard(q)') /\ \A e \in Told' \ retold' : Once(e)'
  BY <1>2, GuardOnce, FetchOnce, SaveOnce, NotifyOnce DEF Applies
<1>3. Counted' /\ (\A q \in Procs : Heard(q)') /\ \A e \in Told' \ retold' : Once(e)'
  BY <1>1, <1>2, QuietOrNot, QuietOnce, StillOnce, ProviderOnce, AskOnce, FixOnce
<1> QED BY <1>1, <1>3 DEF OnceInv

(* A customer is told once about a transition: with any workers and staff  *)
(* side by side, however often the webhook is delivered, retried or        *)
(* replayed and wherever a handler throws or is killed. Left out are only  *)
(* events that two handlers take up at the same time, and those whose      *)
(* status is written over in the tick they are of.                         *)
THEOREM NoTransitionToldTwice == Spec => []ToldOnce
<1>1. ASSUME Init PROVE OnceInv
  <2>1. BillingInv BY <1>1, InitBillingInv
  <2>2. ForwardInv
    <3>1. Dated BY <1>1 DEF Init, Dated, Told, Known, NoMirror
    <3>2. \A q \in Procs : Abreast(q) BY <1>1 DEF Init, Abreast, Free
    <3> QED BY <2>1, <3>1, <3>2 DEF ForwardInv
  <2>3. Told = {}
    <3>1. Len(events) = 0 BY <1>1 DEF Init
    <3> QED BY <3>1 DEF Told
  <2>4. Counted BY <1>1 DEF Init, Counted
  <2> QED BY <2>2, <2>3, <2>4 DEF OnceInv, Heard
<1>2. ASSUME OnceInv PROVE ToldOnce
  <2>1. BillingInv BY <1>2 DEF OnceInv, ForwardInv
  <2>2. ASSUME NEW e \in Ids, e \notin retold PROVE mails[e] <= 1
    <3>1. CASE e \in Told BY <1>2, <2>2, <3>1 DEF OnceInv, Once
    <3>2. CASE e \notin Told
      <4>1. mails[e] \in 0..2 /\ ~(mails[e] > 0) BY <1>2, <2>1, <3>2, MailsHeld DEF OnceInv, Counted
      <4> QED BY <4>1
    <3> QED BY <3>1, <3>2
  <2> QED BY <2>2 DEF ToldOnce
<1> QED BY <1>1, <1>2, StepOnce, PTL DEF Spec

-----------------------------------------------------------------------------
(* Payments. A row is entered once, by whoever found none, and only that   *)
(* handler owes a receipt. Whoever saves later than somebody else marks    *)
(* the order as mixed; what holds of the others is told from the events    *)
(* that were saved.                                                        *)

TillSteps == {"idle", "find", "save", "dispute", "receipt", "mark"}
TillRow == [step : TillSteps, event : MoneyEvents \cup {NoPayment}, replay : BOOLEAN,
            loaded : PaymentRow \cup {NoPayment}]
MoneyJobs == [MoneyEvents -> {"none", "due", "running", "done", "parked"}]

Sums(o) ==
  /\ payment[o].amount = IF \E e \in PostedFor(o) : IsCharge(e) THEN Price ELSE 0
  /\ o \notin mixed =>
       /\ payment[o].refunded \in {0} \cup {e.refunded : e \in PostedFor(o)}
       /\ \A e \in PostedFor(o) : e.refunded <= payment[o].refunded
       /\ \/ payment[o].status = paymentStatus(payment[o].amount, payment[o].refunded)
          \/ payment[o].status = "disputed" /\ \E e \in PostedFor(o) : IsDispute(e)

Receipted(o) ==
  \/ receipts[o] = 1 \/ o \in unsaid
  \/ \E h \in Tills : till[h].step = "receipt" /\ till[h].event.order = o

\* What a handler with x in memory may rely on.
Handles(x) ==
  IF x.step = "idle" THEN x = Shut ELSE
    /\ x.event \in MoneyEvents
    /\ x.step = "save" => IsCharge(x.event) \/ IsRefund(x.event)
    /\ x.step = "dispute" => IsDispute(x.event) /\ x.loaded \in PaymentRow
    /\ x.step \in {"save", "dispute"} /\ x.loaded # NoPayment =>
         /\ x.event.order \in Paid /\ x.loaded.amount \in {0, Price}
         /\ x.loaded.amount = Price => payment[x.event.order].amount = Price
    /\ x.step = "receipt" => x.event.order \in Paid /\ receipts[x.event.order] = 0

MoneyInv ==
  /\ payment \in [Orders -> PaymentRow \cup {NoPayment}]
  /\ moneyJob \in MoneyJobs /\ till \in [Tills -> TillRow]
  /\ receipts \in [Orders -> {0, 1}]
  /\ posted \subseteq MoneyEvents /\ mixed \subseteq Orders /\ unsaid \subseteq Orders
  /\ \A e \in posted : e.order \in Paid
  /\ \A o \in Paid : Sums(o) /\ Receipted(o)
  /\ \A o \in Orders \ Paid : receipts[o] = 0
  /\ \A h \in Tills : Handles(till[h])
  /\ \A h \in Tills, g \in Tills :
       h # g /\ till[h].step = "receipt" /\ till[g].step = "receipt"
         => till[h].event.order # till[g].event.order

-----------------------------------------------------------------------------

LEMMA EventKinds ==
  ASSUME NEW e \in MoneyEvents
  PROVE  /\ e.order \in Orders /\ e.refunded \in 0..Price
         /\ IsCharge(e) => e.amount = Price /\ e.refunded = 0 /\ ~IsRefund(e) /\ ~IsDispute(e)
         /\ IsRefund(e) => e.amount = 0 /\ ~IsDispute(e)
         /\ IsDispute(e) => e.refunded = 0
<1>1. /\ EventType["checkout.completed"] = "subscription.activated"
      /\ EventType["subscription.paid"] = "payment.succeeded"
      /\ EventType["refund.created"] = "payment.refunded"
      /\ EventType["dispute.created"] = "dispute.created"
  BY DEF EventType, CreemTypes
<1>2. CASE \E o \in Orders, t \in {"checkout.completed", "subscription.paid"} :
             e = [order |-> o, type |-> t, amount |-> Price, refunded |-> 0]
  BY <1>1, <1>2, PaymentsAssumption DEF IsCharge, IsRefund, IsDispute
<1>3. CASE \E o \in Orders, n \in 1..Price :
             e = [order |-> o, type |-> "refund.created", amount |-> 0, refunded |-> n]
  BY <1>1, <1>3, PaymentsAssumption DEF IsCharge, IsRefund, IsDispute
<1>4. CASE \E o \in Orders :
             e = [order |-> o, type |-> "dispute.created", amount |-> 0, refunded |-> 0]
  BY <1>1, <1>4, PaymentsAssumption DEF IsCharge, IsRefund, IsDispute
<1> QED BY <1>2, <1>3, <1>4 DEF MoneyEvents

LEMMA ShutIsRow == Shut \in TillRow /\ Shut.step = "idle"
BY DEF Shut, TillRow, TillSteps

\* A handler moves and saves nothing; one that owed a receipt says so.
LEMMA TillMoves ==
  ASSUME MoneyInv, NEW h \in Tills, NEW x \in TillRow, till' = [till EXCEPT ![h] = x],
         Handles(x), x.step # "receipt", moneyJob' \in MoneyJobs,
         UNCHANGED <<payment, posted, mixed, receipts>>,
         unsaid \subseteq unsaid', unsaid' \subseteq Orders,
         till[h].step = "receipt" => till[h].event.order \in unsaid'
  PROVE  MoneyInv'
<1>1. till' \in [Tills -> TillRow] /\ till'[h] = x /\ \A g \in Tills \ {h} : till'[g] = till[g]
  BY DEF MoneyInv
<1>2. Paid' = Paid /\ \A o \in Orders : PostedFor(o)' = PostedFor(o) BY DEF Paid, PostedFor
<1>3. ASSUME NEW o \in Paid PROVE Sums(o)' /\ Receipted(o)'
  <2>1. Sums(o) /\ Receipted(o) /\ o \in Orders BY DEF MoneyInv, Paid
  <2>2. Sums(o)' BY <1>2, <2>1 DEF Sums
  <2>3. Receipted(o)'
    <3>1. CASE receipts[o] = 1 \/ o \in unsaid BY <3>1 DEF Receipted
    <3>2. CASE \E g \in Tills : till[g].step = "receipt" /\ till[g].event.order = o
      BY <1>1, <3>2 DEF Receipted
    <3> QED BY <2>1, <3>1, <3>2 DEF Receipted
  <2> QED BY <2>2, <2>3
<1>4. ASSUME NEW g \in Tills PROVE Handles(till[g])'
  <2>1. PICK y : y = till'[g] OBVIOUS
  <2>2. Handles(y) BY <1>1, <2>1 DEF MoneyInv
  <2>3. Handles(y)' BY <1>2, <2>2 DEF Handles
  <2> QED BY <2>1, <2>3 DEF Handles
<1>5. \A g \in Tills, k \in Tills :
        g # k /\ till'[g].step = "receipt" /\ till'[k].step = "receipt"
          => till'[g].event.order # till'[k].event.order
  BY <1>1 DEF MoneyInv
<1> QED BY <1>1, <1>2, <1>3, <1>4, <1>5 DEF MoneyInv

\* What the two ways to save a row have in common: handler h, of event e,
\* writes row for order o and stands at x after.
Posts(h, e, o, row, x) ==
  /\ till[h].step \in {"save", "dispute"} /\ e = till[h].event /\ o = e.order
  /\ payment' = [payment EXCEPT ![o] = row]
  /\ till' = [till EXCEPT ![h] = x] /\ x.event = e /\ x.step \in {"receipt", "mark"}
  /\ x.step = "receipt" => o \notin Paid
  /\ posted' = posted \cup {e}
  /\ mixed \subseteq mixed' /\ mixed' \subseteq mixed \cup {o}
  /\ unsaid \subseteq unsaid' /\ unsaid' \subseteq unsaid \cup {o}
  /\ o \notin Paid => x.step = "receipt" \/ o \in unsaid'
  /\ o \in Paid /\ payment[o].amount = Price => row.amount = Price
  /\ UNCHANGED <<moneyJob, receipts>>

LEMMA PaymentMoves ==
  ASSUME MoneyInv, NEW h \in Tills, NEW e, NEW o, NEW row \in PaymentRow, NEW x \in TillRow,
         Posts(h, e, o, row, x), Sums(o)'
  PROVE  MoneyInv'
<1> USE DEF Posts
<1>1. till' \in [Tills -> TillRow] /\ till'[h] = x /\ \A g \in Tills \ {h} : till'[g] = till[g]
  BY DEF MoneyInv
<1>2. e \in MoneyEvents /\ o \in Orders
  <2>1. Handles(till[h]) BY DEF MoneyInv
  <2> QED BY <2>1, EventKinds DEF Handles
<1>3. /\ payment' \in [Orders -> PaymentRow \cup {NoPayment}] /\ payment'[o] = row
      /\ \A q \in Orders \ {o} : payment'[q] = payment[q]
  BY <1>2 DEF MoneyInv
<1>4. Paid' = Paid \cup {o} /\ Paid \subseteq Orders BY <1>2, <1>3, PaymentsAssumption DEF Paid
<1>5. \A q \in Orders \ {o} : PostedFor(q)' = PostedFor(q) BY DEF PostedFor
<1>6. ASSUME NEW q \in Paid' PROVE Sums(q)' /\ Receipted(q)'
  <2>1. CASE q # o
    <3>1. Sums(q) /\ Receipted(q) /\ q \in Orders BY <1>4, <2>1 DEF MoneyInv
    <3>2. Sums(q)' BY <1>3, <1>5, <2>1, <3>1 DEF Sums
    <3>3. Receipted(q)'
      <4>1. CASE receipts[q] = 1 \/ q \in unsaid BY <4>1 DEF Receipted
      <4>2. CASE \E g \in Tills : till[g].step = "receipt" /\ till[g].event.order = q
        BY <1>1, <4>2 DEF Receipted
      <4> QED BY <3>1, <4>1, <4>2 DEF Receipted
    <3> QED BY <3>2, <3>3
  <2>2. CASE q = o
    <3>1. CASE o \notin Paid BY <1>1, <2>2, <3>1 DEF Receipted
    <3>2. CASE o \in Paid
      <4>1. Receipted(o) BY <3>2 DEF MoneyInv
      <4>2. CASE receipts[o] = 1 \/ o \in unsaid BY <2>2, <4>2 DEF Receipted
      <4>3. CASE \E g \in Tills : till[g].step = "receipt" /\ till[g].event.order = o
        BY <1>1, <2>2, <4>3 DEF Receipted
      <4> QED BY <2>2, <4>1, <4>2, <4>3 DEF Receipted
    <3> QED BY <2>2, <3>1, <3>2
  <2> QED BY <2>1, <2>2
<1>7. ASSUME NEW g \in Tills PROVE Handles(till[g])'
  <2>1. PICK y : y = till'[g] OBVIOUS
  <2>2. CASE g = h
    <3>1. y = x BY <1>1, <2>1, <2>2
    <3>2. receipts[o] = 0 \/ o \in Paid BY <1>2 DEF MoneyInv
    <3>3. Handles(y)' BY <1>2, <1>4, <3>1, <3>2 DEF Handles
    <3> QED BY <2>1, <3>3 DEF Handles
  <2>3. CASE g # h
    <3>1. y = till[g] /\ Handles(y) BY <1>1, <2>1, <2>3 DEF MoneyInv
    <3>2. ASSUME y.step # "idle" PROVE y.event.order \in Orders BY <3>1, <3>2, EventKinds DEF Handles
    <3>3. Handles(y)'
      <4>1. CASE y.step = "idle" BY <3>1, <4>1 DEF Handles
      <4>2. CASE y.step # "idle" /\ y.event.order = o BY <1>3, <1>4, <3>1, <4>2 DEF Handles
      <4>3. CASE y.step # "idle" /\ y.event.order # o BY <1>3, <1>4, <3>1, <3>2, <4>3 DEF Handles
      <4> QED BY <4>1, <4>2, <4>3
    <3> QED BY <2>1, <3>3 DEF Handles
  <2> QED BY <2>2, <2>3
<1>8. ASSUME NEW g \in Tills, NEW k \in Tills, g # k, till'[g].step = "receipt", till'[k].step = "receipt"
      PROVE  till'[g].event.order # till'[k].event.order
  <2>1. \A q \in Tills : till[q].step = "receipt" => till[q].event.order \in Paid
    BY DEF MoneyInv, Handles
  <2>2. CASE g = h BY <1>1, <1>8, <2>1, <2>2
  <2>3. CASE k = h BY <1>1, <1>8, <2>1, <2>3
  <2>4. CASE g # h /\ k # h BY <1>1, <1>8, <2>4 DEF MoneyInv
  <2> QED BY <2>2, <2>3, <2>4
<1>9. /\ \A q \in Orders \ Paid' : receipts'[q] = 0
      /\ \A f \in posted' : f.order \in Paid'
      /\ posted' \subseteq MoneyEvents /\ mixed' \subseteq Orders /\ unsaid' \subseteq Orders
  BY <1>2, <1>4 DEF MoneyInv
<1> QED BY <1>1, <1>3, <1>6, <1>7, <1>8, <1>9 DEF MoneyInv

LEMMA MaxOfTwo ==
  ASSUME NEW m \in Nat, NEW n \in Nat
  PROVE  Max({m, n}) = IF m >= n THEN m ELSE n
<1>1. \E k \in {m, n} : \A j \in {m, n} : k >= j OBVIOUS
<1>2. /\ Max({m, n}) \in {m, n} /\ \A j \in {m, n} : Max({m, n}) >= j
  BY <1>1 DEF Max
<1>3. PICK x : x = Max({m, n}) OBVIOUS
<1>4. x \in {m, n} /\ x >= m /\ x >= n BY <1>2, <1>3
<1>5. x = IF m >= n THEN m ELSE n BY <1>4
<1> QED BY <1>3, <1>5

LEMMA MaxIs ==
  ASSUME NEW S, S \subseteq Nat, NEW m \in S, \A n \in S : n <= m
  PROVE  Max(S) = m
<1>1. \E k \in S : \A j \in S : k >= j OBVIOUS
<1>2. /\ Max(S) \in S /\ \A j \in S : Max(S) >= j BY <1>1 DEF Max
<1>3. PICK x : x = Max(S) OBVIOUS
<1>4. x \in S /\ x \in Nat /\ m \in Nat /\ x >= m /\ x <= m BY <1>2, <1>3
<1>5. x = m BY <1>4
<1> QED BY <1>3, <1>5

LEMMA InitMoney == MoneyInit => MoneyInv
<1> SUFFICES ASSUME MoneyInit PROVE MoneyInv OBVIOUS
<1>1. Paid = {} BY DEF MoneyInit, Paid
<1>2. \A h \in Tills : till[h] = Shut BY DEF MoneyInit
<1>3. till \in [Tills -> TillRow] BY ShutIsRow DEF MoneyInit
<1>4. \A h \in Tills : Handles(till[h]) /\ till[h].step = "idle" BY <1>2, ShutIsRow DEF Handles
<1>5. moneyJob \in MoneyJobs BY DEF MoneyInit, MoneyJobs
<1> QED BY <1>1, <1>3, <1>4, <1>5 DEF MoneyInit, MoneyInv

LEMMA ReceiveHolds ==
  ASSUME MoneyInv, NEW e \in MoneyEvents, ReceiveMoneyEvent(e)
  PROVE  MoneyInv'
<1>1. moneyJob' \in MoneyJobs BY DEF MoneyInv, MoneyJobs, ReceiveMoneyEvent
<1> QED BY <1>1 DEF ReceiveMoneyEvent, MoneyInv, Paid, PostedFor, Sums, Receipted, Handles

LEMMA MirrorHolds ==
  ASSUME MoneyInv, MirrorSubscription
  PROVE  MoneyInv'
BY DEF MirrorSubscription, MoneyInv, MoneyJobs, Paid, PostedFor, Sums, Receipted, Handles

LEMMA OpensHolds ==
  ASSUME MoneyInv, NEW h \in Tills, NEW e \in MoneyEvents, NEW replay \in BOOLEAN, Opens(h, e, replay),
         moneyJob' \in MoneyJobs, UNCHANGED <<payment, posted, mixed, receipts, unsaid>>
  PROVE  MoneyInv'
<1> DEFINE x == [step |-> "find", event |-> e, replay |-> replay, loaded |-> NoPayment]
<1>1. x \in TillRow /\ x.step = "find" /\ x.event = e BY DEF TillRow, TillSteps
<1>2. Handles(x) BY <1>1 DEF Handles
<1>3. till[h].step # "receipt" BY ShutIsRow DEF Opens
<1>4. unsaid \subseteq Orders BY DEF MoneyInv
<1>5. till' = [till EXCEPT ![h] = x] BY DEF Opens
<1> HIDE DEF x
<1> QED BY <1>1, <1>2, <1>3, <1>4, <1>5, TillMoves

LEMMA RunMoneyHolds ==
  ASSUME MoneyInv, NEW h \in Tills, NEW e \in MoneyEvents,
         RunMoneyJob(h, e) \/ ReplayMoneyEvent(h, e)
  PROVE  MoneyInv'
<1>1. moneyJob \in MoneyJobs BY DEF MoneyInv
<1>2. CASE RunMoneyJob(h, e)
  <2>1. moneyJob' \in MoneyJobs BY <1>1, <1>2 DEF RunMoneyJob, MoneyJobs
  <2> QED BY <1>2, <2>1, OpensHolds DEF RunMoneyJob
<1>3. CASE ReplayMoneyEvent(h, e)
  BY <1>1, <1>3, OpensHolds DEF ReplayMoneyEvent
<1> QED BY <1>2, <1>3

LEMMA InterruptedHolds ==
  ASSUME MoneyInv, NEW h \in Tills, till[h].step # "idle", Interrupted(h),
         UNCHANGED <<payment, posted, mixed, receipts>>
  PROVE  MoneyInv'
<1>1. /\ till[h] \in TillRow /\ Handles(till[h])
      /\ moneyJob \in MoneyJobs /\ unsaid \subseteq Orders
  BY DEF MoneyInv
<1>2. till[h].event \in MoneyEvents BY <1>1 DEF Handles
<1>3. moneyJob' \in MoneyJobs
  BY <1>1, <1>2 DEF Interrupted, MoneyJobs
<1>4. Shut \in TillRow /\ Shut.step = "idle" /\ Handles(Shut) BY ShutIsRow DEF Handles
<1>5. /\ unsaid \subseteq unsaid' /\ unsaid' \subseteq Orders
      /\ till[h].step = "receipt" => till[h].event.order \in unsaid'
  BY <1>1, <1>2, EventKinds DEF Interrupted
<1>6. till' = [till EXCEPT ![h] = Shut] BY DEF Interrupted, Shuts
<1> QED BY <1>3, <1>4, <1>5, <1>6, TillMoves

LEMMA TroublesHold ==
  ASSUME MoneyInv, NEW h \in Tills, FailTill(h) \/ Unattributed(h) \/ SecondInsert(h)
  PROVE  MoneyInv'
<1>1. CASE FailTill(h)
  <2>1. till[h].step # "idle" BY <1>1 DEF FailTill, MoneyInv, Handles
  <2> QED BY <1>1, <2>1, InterruptedHolds DEF FailTill
<1>2. CASE Unattributed(h) BY <1>2, InterruptedHolds DEF Unattributed
<1>3. CASE SecondInsert(h) BY <1>3, InterruptedHolds DEF SecondInsert
<1> QED BY <1>1, <1>2, <1>3

LEMMA FindHolds ==
  ASSUME MoneyInv, NEW h \in Tills, FindPayment(h)
  PROVE  MoneyInv'
<1> DEFINE e == till[h].event
           step == CASE IsCharge(e) \/ IsRefund(e) -> "save"
                     [] IsDispute(e) /\ e.order \in Paid -> "dispute"
                     [] OTHER -> "mark"
<1>1. till[h] \in TillRow /\ till[h].step = "find" /\ e \in MoneyEvents
  BY DEF FindPayment, MoneyInv, Handles
<1>2. e.order \in Orders /\ payment[e.order] \in PaymentRow \cup {NoPayment}
  BY <1>1, EventKinds DEF MoneyInv
<1>3. PICK z : z = [till[h] EXCEPT !.loaded = payment[e.order]] OBVIOUS
<1>4. PICK x : x = [z EXCEPT !.step = step] OBVIOUS
<1>5. till' = [till EXCEPT ![h] = x]
  <2>1. PICK t : t = [till EXCEPT ![h].loaded = payment[e.order]] OBVIOUS
  <2>2. t = [till EXCEPT ![h] = z] BY <1>3, <2>1 DEF MoneyInv
  <2>3. till' = [t EXCEPT ![h].step = step] BY <2>1 DEF FindPayment
  <2>4. t[h] = z BY <2>2 DEF MoneyInv
  <2>5. till' = [t EXCEPT ![h] = x] BY <1>4, <2>3, <2>4
  <2> QED BY <2>2, <2>5 DEF MoneyInv
<1>6. /\ step \in {"save", "dispute", "mark"}
      /\ step = "save" => IsCharge(e) \/ IsRefund(e)
      /\ step = "dispute" => IsDispute(e) /\ e.order \in Paid
  OBVIOUS
<1> HIDE DEF step
<1>7. /\ x \in TillRow /\ x.step = step /\ x.event = e /\ x.loaded = payment[e.order]
  BY <1>1, <1>2, <1>3, <1>4, <1>6 DEF TillRow, TillSteps
<1>8. ASSUME payment[e.order] # NoPayment
      PROVE  /\ e.order \in Paid /\ payment[e.order] \in PaymentRow
             /\ payment[e.order].amount \in {0, Price}
  <2>1. e.order \in Paid BY <1>2, <1>8 DEF Paid
  <2>2. Sums(e.order) BY <2>1 DEF MoneyInv
  <2> QED BY <1>2, <1>8, <2>1, <2>2 DEF Sums
<1>9. e.order \in Paid => payment[e.order] # NoPayment BY DEF Paid
<1> HIDE DEF e
<1>10. Handles(x) BY <1>1, <1>6, <1>7, <1>8, <1>9 DEF Handles
<1>11. moneyJob \in MoneyJobs /\ unsaid \subseteq Orders BY DEF MoneyInv
<1> QED BY <1>1, <1>5, <1>6, <1>7, <1>10, <1>11, TillMoves DEF FindPayment

LEMMA MarkHolds ==
  ASSUME MoneyInv, NEW h \in Tills, MarkPosted(h)
  PROVE  MoneyInv'
<1>1. till[h] \in TillRow /\ till[h].step = "mark" /\ till[h].event \in MoneyEvents
      /\ moneyJob \in MoneyJobs /\ unsaid \subseteq Orders
  BY DEF MarkPosted, MoneyInv, Handles
<1>2. moneyJob' \in MoneyJobs BY <1>1 DEF MarkPosted, MoneyJobs
<1>3. Shut \in TillRow /\ Shut.step = "idle" /\ Handles(Shut) BY ShutIsRow DEF Handles
<1>4. till' = [till EXCEPT ![h] = Shut] BY DEF MarkPosted, Shuts
<1> QED BY <1>1, <1>2, <1>3, <1>4, TillMoves DEF MarkPosted

LEMMA ReceiptHolds ==
  ASSUME MoneyInv, NEW h \in Tills, SendReceipt(h)
  PROVE  MoneyInv'
<1> DEFINE o == till[h].event.order
<1>1. /\ till[h] \in TillRow /\ till[h].step = "receipt" /\ till[h].event \in MoneyEvents
      /\ o \in Paid /\ o \in Orders /\ receipts[o] = 0
  BY DEF SendReceipt, MoneyInv, Handles, Paid
<1>2. PICK x : x = [till[h] EXCEPT !.step = "mark"] OBVIOUS
<1>3. x \in TillRow /\ x.step = "mark" /\ x.event = till[h].event BY <1>1, <1>2 DEF TillRow, TillSteps
<1>4. till' \in [Tills -> TillRow] /\ till'[h] = x /\ \A g \in Tills \ {h} : till'[g] = till[g]
  BY <1>2, <1>3 DEF SendReceipt, MoneyInv
<1>5. Min({receipts[o] + 1, 2}) = 1
  <2>1. {receipts[o] + 1, 2} = {1, 2} BY <1>1
  <2>2. \E n \in {1, 2} : \A k \in {1, 2} : n <= k OBVIOUS
  <2> QED BY <2>1, <2>2 DEF Min
<1>6. /\ receipts' \in [Orders -> {0, 1}] /\ receipts'[o] = 1
      /\ \A q \in Orders \ {o} : receipts'[q] = receipts[q]
  BY <1>1, <1>5 DEF SendReceipt, MoneyInv
<1>7. UNCHANGED <<moneyJob, payment, posted, mixed, unsaid>> BY DEF SendReceipt
<1>8. Paid' = Paid /\ \A q \in Orders : PostedFor(q)' = PostedFor(q) BY <1>7 DEF Paid, PostedFor
<1> HIDE DEF o
<1>9. ASSUME NEW q \in Paid PROVE Sums(q)' /\ Receipted(q)'
  <2>1. Sums(q) /\ Receipted(q) /\ q \in Orders BY DEF MoneyInv, Paid
  <2>2. Sums(q)' BY <1>7, <1>8, <2>1 DEF Sums
  <2>3. CASE q = o BY <1>6, <2>2, <2>3 DEF Receipted
  <2>4. CASE q # o
    <3>1. CASE receipts[q] = 1 \/ q \in unsaid BY <1>6, <1>7, <2>1, <2>2, <2>4, <3>1 DEF Receipted
    <3>2. CASE \E g \in Tills : till[g].step = "receipt" /\ till[g].event.order = q
      <4>1. PICK g \in Tills : till[g].step = "receipt" /\ till[g].event.order = q BY <3>2
      <4>2. g # h BY <2>4, <4>1 DEF o
      <4> QED BY <1>4, <2>2, <4>1, <4>2 DEF Receipted
    <3> QED BY <2>1, <2>2, <3>1, <3>2 DEF Receipted
  <2> QED BY <2>2, <2>3, <2>4
<1>10. ASSUME NEW g \in Tills PROVE Handles(till[g])'
  <2>1. PICK y : y = till'[g] OBVIOUS
  <2>2. CASE g = h
    <3>1. y = x BY <1>4, <2>1, <2>2
    <3>2. Handles(y)' BY <1>1, <1>3, <3>1 DEF Handles
    <3> QED BY <2>1, <3>2 DEF Handles
  <2>3. CASE g # h
    <3>1. y = till[g] /\ Handles(y) BY <1>4, <2>1, <2>3 DEF MoneyInv
    <3>2. y.step = "receipt" => y.event.order # o BY <1>1, <2>3, <3>1 DEF MoneyInv, o
    <3>3. y.step = "receipt" => y.event.order \in Orders BY <3>1 DEF Handles, Paid
    <3>4. Handles(y)' BY <1>6, <1>7, <1>8, <3>1, <3>2, <3>3 DEF Handles
    <3> QED BY <2>1, <3>4 DEF Handles
  <2> QED BY <2>2, <2>3
<1>11. \A g \in Tills, k \in Tills :
        g # k /\ till'[g].step = "receipt" /\ till'[k].step = "receipt"
          => till'[g].event.order # till'[k].event.order
  BY <1>3, <1>4 DEF MoneyInv
<1>12. \A q \in Orders \ Paid : receipts'[q] = 0 BY <1>1, <1>6 DEF MoneyInv
<1> QED BY <1>4, <1>6, <1>7, <1>8, <1>9, <1>10, <1>11, <1>12 DEF MoneyInv

\* What a save makes of the row: the columns of its own that differ from what
\* was loaded, the rest as it stands.
SavesTo(current, loaded, row, new) ==
  /\ new.amount = IF row.amount # loaded.amount THEN row.amount ELSE current.amount
  /\ new.refunded = IF row.refunded # loaded.refunded THEN row.refunded ELSE current.refunded
  /\ new.status = IF row.status # loaded.status THEN row.status ELSE current.status

LEMMA SavedPayment ==
  ASSUME NEW current \in PaymentRow, NEW loaded \in PaymentRow, NEW row \in PaymentRow
  PROVE  Saved(current, loaded, row) \in PaymentRow /\ SavesTo(current, loaded, row, Saved(current, loaded, row))
<1>1. PICK new : new = Saved(current, loaded, row) OBVIOUS
<1>2. DOMAIN current = {"amount", "refunded", "status"} /\ DOMAIN row = {"amount", "refunded", "status"}
  BY DEF PaymentRow
<1>3. new = [c \in {"amount", "refunded", "status"} |->
               IF row[c] # loaded[c] THEN row[c] ELSE current[c]]
  BY <1>1, <1>2 DEF Saved
<1>4. SavesTo(current, loaded, row, new) BY <1>3 DEF SavesTo
<1>5. new \in PaymentRow
  <2>1. /\ current.amount \in 0..Price /\ current.refunded \in 0..Price /\ current.status \in PaymentStatuses
        /\ row.amount \in 0..Price /\ row.refunded \in 0..Price /\ row.status \in PaymentStatuses
    BY DEF PaymentRow
  <2>2. /\ new.amount \in 0..Price /\ new.refunded \in 0..Price /\ new.status \in PaymentStatuses
    BY <1>4, <2>1 DEF SavesTo
  <2>3. new = [amount |-> new.amount, refunded |-> new.refunded, status |-> new.status] BY <1>3
  <2> QED BY <2>2, <2>3 DEF PaymentRow
<1> QED BY <1>1, <1>4, <1>5

DisputesTo(current, loaded, new) ==
  /\ new.amount = current.amount /\ new.refunded = current.refunded
  /\ new.status = IF loaded.status # "disputed" THEN "disputed" ELSE current.status

LEMMA SavedDispute ==
  ASSUME NEW current \in PaymentRow, NEW loaded \in PaymentRow, NEW columns, columns = [status |-> "disputed"]
  PROVE  /\ Saved(current, loaded, columns) \in PaymentRow
         /\ DisputesTo(current, loaded, Saved(current, loaded, columns))
<1>1. PICK new : new = Saved(current, loaded, columns) OBVIOUS
<1>2. DOMAIN current = {"amount", "refunded", "status"} BY DEF PaymentRow
<1>3. DOMAIN columns = {"status"} /\ columns["status"] = "disputed" OBVIOUS
<1>4. new = [c \in {"amount", "refunded", "status"} |->
               IF c = "status" /\ "disputed" # loaded[c] THEN "disputed" ELSE current[c]]
  <2>1. \A c \in DOMAIN current : (IF c \in DOMAIN columns /\ columns[c] # loaded[c] THEN columns[c] ELSE current[c])
          = IF c = "status" /\ "disputed" # loaded[c] THEN "disputed" ELSE current[c]
    BY <1>3
  <2> QED BY <1>1, <1>2, <2>1 DEF Saved
<1>5. /\ new.amount = current.amount /\ new.refunded = current.refunded
      /\ new.status = IF loaded.status # "disputed" THEN "disputed" ELSE current.status
  BY <1>4
<1>6. new \in PaymentRow
  <2>1. /\ current.amount \in 0..Price /\ current.refunded \in 0..Price /\ current.status \in PaymentStatuses
    BY DEF PaymentRow
  <2>2. new = [amount |-> new.amount, refunded |-> new.refunded, status |-> new.status] BY <1>4
  <2>3. new.amount \in 0..Price /\ new.refunded \in 0..Price /\ new.status \in PaymentStatuses
    BY <1>5, <2>1 DEF PaymentStatuses
  <2> QED BY <2>2, <2>3 DEF PaymentRow
<1> QED BY <1>1, <1>5, <1>6 DEF DisputesTo

\* What is reckoned from a row, or from none, of an event with money in it.
Reckons(e, was, row) ==
  /\ row.amount = IF was.amount # 0 THEN was.amount ELSE e.amount
  /\ row.refunded = IF was.refunded >= e.refunded THEN was.refunded ELSE e.refunded
  /\ row.status = paymentStatus(row.amount, row.refunded)

LEMMA ReckonedIs ==
  ASSUME NEW e \in MoneyEvents, IsCharge(e) \/ IsRefund(e),
         NEW loaded \in PaymentRow \cup {NoPayment}, NEW was,
         was = IF loaded = NoPayment THEN [amount |-> 0, refunded |-> 0] ELSE loaded,
         was.amount \in {0, Price}
  PROVE  Reckoned(e, loaded) \in PaymentRow /\ Reckons(e, was, Reckoned(e, loaded))
<1>1. was.refunded \in 0..Price BY PaymentsAssumption DEF PaymentRow
<1>2. /\ e.refunded \in 0..Price
      /\ IsCharge(e) => e.amount = Price /\ e.refunded = 0 /\ ~IsRefund(e)
      /\ IsRefund(e) => e.amount = 0
  BY EventKinds
<1>3. PICK row : row = Reckoned(e, loaded) OBVIOUS
<1>4. PICK amount : amount = AmountOf(e, was.amount) OBVIOUS
<1>5. PICK refunded : refunded = RefundedSoFar(e, was.refunded) OBVIOUS
<1>6. row = [amount |-> amount, refunded |-> refunded, status |-> paymentStatus(amount, refunded)]
  BY <1>3, <1>4, <1>5 DEF Reckoned
<1>7. /\ amount = IF was.amount # 0 THEN was.amount ELSE e.amount
      /\ amount \in 0..Price
  BY <1>2, <1>4, EventKinds, PaymentsAssumption DEF AmountOf
<1>8. /\ refunded = IF was.refunded >= e.refunded THEN was.refunded ELSE e.refunded
      /\ refunded \in 0..Price
  <2>1. PICK a, b : a = was.refunded /\ b = e.refunded OBVIOUS
  <2>2. a \in 0..Price /\ b \in 0..Price /\ a \in Nat /\ b \in Nat
    BY <1>1, <1>2, <2>1, PaymentsAssumption
  <2>3. refunded = IF IsRefund(e) THEN Max({a, b}) ELSE a BY <1>5, <2>1 DEF RefundedSoFar
  <2>4. Max({a, b}) = IF a >= b THEN a ELSE b BY <2>2, MaxOfTwo
  <2>5. ~IsRefund(e) => b = 0 BY <1>2, <2>1
  <2>6. refunded = (IF a >= b THEN a ELSE b) /\ refunded \in 0..Price BY <2>2, <2>3, <2>4, <2>5
  <2> QED BY <2>1, <2>6
<1>9. paymentStatus(amount, refunded) \in PaymentStatuses
  <2>1. amount \in Nat /\ refunded \in Nat BY <1>7, <1>8, PaymentsAssumption
  <2> QED BY <2>1 DEF paymentStatus, PaymentStatuses
<1>10. row \in PaymentRow BY <1>6, <1>7, <1>8, <1>9 DEF PaymentRow
<1>11. Reckons(e, was, row) BY <1>6, <1>7, <1>8 DEF Reckons
<1> QED BY <1>3, <1>10, <1>11

LEMMA SaveHolds ==
  ASSUME MoneyInv, NEW h \in Tills, SavePayment(h),
         NEW e, e = till[h].event, NEW o, o = e.order, NEW loaded, loaded = till[h].loaded,
         NEW was, was = IF loaded = NoPayment THEN [amount |-> 0, refunded |-> 0] ELSE loaded
  PROVE  MoneyInv'
<1>1. /\ till[h] \in TillRow /\ till[h].step = "save" /\ e \in MoneyEvents
      /\ IsCharge(e) \/ IsRefund(e)
      /\ loaded \in PaymentRow \cup {NoPayment}
      /\ loaded # NoPayment => o \in Paid /\ loaded.amount \in {0, Price}
      /\ loaded # NoPayment /\ loaded.amount = Price => payment[o].amount = Price
      /\ loaded = NoPayment => o \notin Paid
  BY DEF SavePayment, MoneyInv, Handles, TillRow
<1>2. was.amount \in {0, Price} BY <1>1
<1>3. PICK row : row = Reckoned(e, loaded) OBVIOUS
<1>4. row \in PaymentRow /\ Reckons(e, was, row) BY <1>1, <1>2, <1>3, ReckonedIs
<1>5. PICK new : new = IF loaded = NoPayment THEN row ELSE Saved(payment[o], loaded, row) OBVIOUS
<1>6. payment' = [payment EXCEPT ![o] = new] BY <1>3, <1>5 DEF SavePayment
<1>7. o \in Orders /\ e.refunded \in 0..Price BY <1>1, EventKinds
<1>8. loaded # NoPayment => payment[o] \in PaymentRow BY <1>1, <1>7 DEF MoneyInv, Paid
<1>9. /\ new \in PaymentRow
      /\ loaded = NoPayment => new = row
      /\ loaded # NoPayment => SavesTo(payment[o], loaded, row, new)
  BY <1>1, <1>4, <1>5, <1>8, SavedPayment
<1>10. PICK step : step = IF OwesReceipt(e, loaded) THEN "receipt" ELSE "mark" OBVIOUS
<1>11. PICK x : x = [till[h] EXCEPT !.step = step] OBVIOUS
<1>12. /\ till' = [till EXCEPT ![h] = x] /\ x \in TillRow /\ x.event = e /\ x.step = step
       /\ step \in {"receipt", "mark"}
  BY <1>1, <1>10, <1>11 DEF SavePayment, TillRow, TillSteps, MoneyInv
<1>13. /\ posted' = posted \cup {e} /\ mixed' = IF loaded # payment[o] THEN mixed \cup {o} ELSE mixed
       /\ unsaid' = IF loaded = NoPayment /\ IsRefund(e) THEN unsaid \cup {o} ELSE unsaid
       /\ UNCHANGED <<moneyJob, receipts>>
  BY DEF SavePayment, NoteSave
<1>14. /\ step = "receipt" => o \notin Paid
       /\ o \notin Paid => step = "receipt" \/ o \in unsaid'
  BY <1>1, <1>10, <1>13 DEF OwesReceipt
<1>15. PostedFor(o)' = PostedFor(o) \cup {e} /\ e \in PostedFor(o)' BY <1>13 DEF PostedFor
<1>16. payment'[o] = new BY <1>6, <1>7 DEF MoneyInv
<1>17. /\ IsCharge(e) => e.amount = Price /\ e.refunded = 0
       /\ IsRefund(e) => ~IsCharge(e) /\ e.amount = 0
  BY <1>1, EventKinds
<1>18. new.amount = IF \E f \in PostedFor(o)' : IsCharge(f) THEN Price ELSE 0
  <2>1. CASE loaded = NoPayment
    <3>1. PostedFor(o) = {} BY <1>1, <2>1 DEF MoneyInv, PostedFor
    <3>2. new.amount = e.amount BY <1>4, <1>9, <2>1 DEF Reckons
    <3> QED BY <1>1, <1>15, <1>17, <3>1, <3>2
  <2>2. CASE loaded # NoPayment
    <3>1. /\ payment[o].amount = IF \E f \in PostedFor(o) : IsCharge(f) THEN Price ELSE 0
      BY <1>1, <2>2 DEF MoneyInv, Sums
    <3>2. /\ new.amount = IF row.amount # loaded.amount THEN row.amount ELSE payment[o].amount
          /\ row.amount = IF loaded.amount # 0 THEN loaded.amount ELSE e.amount
      BY <1>4, <1>9, <2>2 DEF Reckons, SavesTo
    <3>3. CASE loaded.amount = Price
      <4>1. Price # 0 BY PaymentsAssumption
      <4>2. new.amount = Price /\ payment[o].amount = Price BY <1>1, <2>2, <3>2, <3>3, <4>1
      <4> QED BY <1>15, <3>1, <4>1, <4>2
    <3>4. CASE loaded.amount = 0 BY <1>1, <1>15, <1>17, <3>1, <3>2, <3>4, PaymentsAssumption
    <3> QED BY <1>1, <2>2, <3>3, <3>4
  <2> QED BY <2>1, <2>2
<1>19. ASSUME o \notin mixed'
       PROVE  /\ new.refunded \in {0} \cup {f.refunded : f \in PostedFor(o)'}
              /\ \A f \in PostedFor(o)' : f.refunded <= new.refunded
              /\ new.status = paymentStatus(new.amount, new.refunded)
  <2>1. loaded = payment[o] /\ o \notin mixed BY <1>13, <1>19
  <2>2. /\ row.status = paymentStatus(row.amount, row.refunded)
        /\ row.refunded = IF was.refunded >= e.refunded THEN was.refunded ELSE e.refunded
    BY <1>4 DEF Reckons
  <2>3. new.amount = row.amount /\ new.refunded = row.refunded /\ new.status = row.status
    BY <1>9, <2>1 DEF SavesTo
  <2>4. /\ was.refunded \in {0} \cup {f.refunded : f \in PostedFor(o)}
        /\ \A f \in PostedFor(o) : f.refunded <= was.refunded
    <3>1. CASE loaded = NoPayment
      <4>1. PostedFor(o) = {} BY <1>1, <3>1 DEF MoneyInv, PostedFor
      <4> QED BY <3>1, <4>1
    <3>2. CASE loaded # NoPayment BY <1>1, <2>1, <3>2 DEF MoneyInv, Sums
    <3> QED BY <3>1, <3>2
  <2>5. was.refunded \in Nat /\ e.refunded \in Nat
    BY <1>1, <1>7, PaymentsAssumption DEF PaymentRow
  <2>6. \A f \in PostedFor(o) : f.refunded \in Nat
    <3>1. \A f \in PostedFor(o) : f \in MoneyEvents BY DEF PostedFor, MoneyInv
    <3> QED BY <3>1, EventKinds, PaymentsAssumption
  <2>7. \A f \in PostedFor(o)' : f.refunded <= new.refunded
    BY <1>15, <2>2, <2>3, <2>4, <2>5, <2>6
  <2>8. new.refunded \in {0} \cup {f.refunded : f \in PostedFor(o)'}
    BY <1>15, <2>2, <2>3, <2>4
  <2> QED BY <2>2, <2>3, <2>7, <2>8
<1>20. Sums(o)' BY <1>16, <1>18, <1>19 DEF Sums
<1>21. o \in Paid /\ payment[o].amount = Price => new.amount = Price
  <2>1. SUFFICES ASSUME o \in Paid, payment[o].amount = Price PROVE new.amount = Price OBVIOUS
  <2>2. \E f \in PostedFor(o) : IsCharge(f) BY <2>1, PaymentsAssumption DEF MoneyInv, Sums
  <2> QED BY <1>15, <1>18, <2>2
<1>22. mixed \subseteq mixed' /\ mixed' \subseteq mixed \cup {o}
       /\ unsaid \subseteq unsaid' /\ unsaid' \subseteq unsaid \cup {o}
  BY <1>13
<1>23. /\ till[h].step \in {"save", "dispute"} /\ e = till[h].event /\ o = e.order BY <1>1
<1>24. Posts(h, e, o, new, x) BY <1>6, <1>12, <1>13, <1>14, <1>21, <1>22, <1>23 DEF Posts
<1> QED BY <1>9, <1>12, <1>20, <1>24, PaymentMoves

LEMMA DisputeHolds ==
  ASSUME MoneyInv, NEW h \in Tills, DisputePayment(h),
         NEW e, e = till[h].event, NEW o, o = e.order, NEW loaded, loaded = till[h].loaded
  PROVE  MoneyInv'
<1>1. /\ till[h] \in TillRow /\ till[h].step = "dispute" /\ e \in MoneyEvents
      /\ IsDispute(e) /\ loaded \in PaymentRow /\ o \in Paid /\ o \in Orders
  <2>1. till[h] \in TillRow /\ till[h].step = "dispute" /\ Handles(till[h])
    BY DEF DisputePayment, MoneyInv
  <2>2. loaded # NoPayment BY <2>1, PaymentsAssumption DEF Handles
  <2> QED BY <2>1, <2>2 DEF Handles, Paid
<1>2. payment[o] \in PaymentRow /\ Sums(o) BY <1>1 DEF MoneyInv, Paid
<1>3. PICK columns : columns = [status |-> "disputed"] OBVIOUS
<1>4. PICK new : new = Saved(payment[o], loaded, columns) OBVIOUS
<1>5. /\ new \in PaymentRow /\ new.amount = payment[o].amount /\ new.refunded = payment[o].refunded
      /\ new.status = IF loaded.status # "disputed" THEN "disputed" ELSE payment[o].status
  <2>1. new \in PaymentRow /\ DisputesTo(payment[o], loaded, new)
    BY <1>1, <1>2, <1>3, <1>4, SavedDispute
  <2> QED BY <2>1 DEF DisputesTo
<1>6. payment' = [payment EXCEPT ![o] = new] BY <1>3, <1>4 DEF DisputePayment
<1>7. PICK x : x = [till[h] EXCEPT !.step = "mark"] OBVIOUS
<1>8. till' = [till EXCEPT ![h] = x] /\ x \in TillRow /\ x.event = e /\ x.step = "mark"
  BY <1>1, <1>7 DEF DisputePayment, TillRow, TillSteps, MoneyInv
<1>9. /\ posted' = posted \cup {e} /\ mixed' = IF loaded # payment[o] THEN mixed \cup {o} ELSE mixed
      /\ UNCHANGED <<moneyJob, receipts, unsaid>>
  BY DEF DisputePayment, NoteSave
<1>10. PostedFor(o)' = PostedFor(o) \cup {e} BY <1>9 DEF PostedFor
<1>11. payment'[o] = new BY <1>1, <1>6 DEF MoneyInv
<1>12. ~IsCharge(e) /\ e.refunded = 0
  BY <1>1, EventKinds
<1>13. new.amount = IF \E f \in PostedFor(o)' : IsCharge(f) THEN Price ELSE 0
  BY <1>2, <1>5, <1>10, <1>12 DEF Sums
<1>14. ASSUME o \notin mixed'
       PROVE  /\ new.refunded \in {0} \cup {f.refunded : f \in PostedFor(o)'}
              /\ \A f \in PostedFor(o)' : f.refunded <= new.refunded
              /\ new.status = "disputed" /\ \E f \in PostedFor(o)' : IsDispute(f)
  <2>1. loaded = payment[o] /\ o \notin mixed BY <1>9, <1>14
  <2>2. new.status = "disputed" BY <1>5, <2>1
  <2>3. payment[o].refunded \in Nat BY <1>2, PaymentsAssumption DEF PaymentRow
  <2> QED BY <1>1, <1>2, <1>5, <1>10, <1>12, <2>1, <2>2, <2>3 DEF Sums
<1>15. Sums(o)' BY <1>11, <1>13, <1>14 DEF Sums
<1>16. mixed \subseteq mixed' /\ mixed' \subseteq mixed \cup {o} BY <1>9
<1>17. /\ till[h].step \in {"save", "dispute"} /\ e = till[h].event /\ o = e.order BY <1>1
<1>18. Posts(h, e, o, new, x) BY <1>1, <1>5, <1>6, <1>8, <1>9, <1>16, <1>17 DEF Posts
<1> QED BY <1>5, <1>8, <1>15, <1>18, PaymentMoves

LEMMA NextMoney == MoneyInv /\ [MoneyNext]_moneyVars => MoneyInv'
<1> SUFFICES ASSUME MoneyInv, [MoneyNext]_moneyVars PROVE MoneyInv' OBVIOUS
<1>1. CASE \E e \in MoneyEvents : ReceiveMoneyEvent(e) BY <1>1, ReceiveHolds
<1>2. CASE MirrorSubscription BY <1>2, MirrorHolds
<1>3. CASE \E h \in Tills, e \in MoneyEvents : RunMoneyJob(h, e) \/ ReplayMoneyEvent(h, e)
  BY <1>3, RunMoneyHolds
<1>4. CASE \E h \in Tills : \/ FindPayment(h) \/ SavePayment(h) \/ SendReceipt(h)
                              \/ DisputePayment(h) \/ MarkPosted(h)
  <2>1. PICK h \in Tills : \/ FindPayment(h) \/ SavePayment(h) \/ SendReceipt(h)
                           \/ DisputePayment(h) \/ MarkPosted(h)
    BY <1>4
  <2>2. PICK loaded : loaded = till[h].loaded OBVIOUS
  <2>3. PICK was : was = IF loaded = NoPayment THEN [amount |-> 0, refunded |-> 0] ELSE loaded OBVIOUS
  <2>4. SavePayment(h) => MoneyInv' BY <2>2, <2>3, SaveHolds
  <2> QED BY <2>1, <2>4, FindHolds, ReceiptHolds, DisputeHolds, MarkHolds
<1>5. CASE \E h \in Tills : FailTill(h) \/ Unattributed(h) \/ SecondInsert(h) BY <1>5, TroublesHold
<1>6. CASE UNCHANGED moneyVars
  BY <1>6 DEF moneyVars, MoneyInv, MoneyJobs, Paid, PostedFor, Sums, Receipted, Handles
<1> QED BY <1>1, <1>2, <1>3, <1>4, <1>5, <1>6 DEF MoneyNext

LEMMA MoneyImplies == MoneyInv => PaymentsSafe
<1> SUFFICES ASSUME MoneyInv PROVE PaymentsSafe OBVIOUS
<1>1. MoneyTypeOK
  <2>1. \A h \in Tills : till[h].loaded \in PaymentRow \cup {NoPayment} BY DEF MoneyInv, TillRow
  <2> QED BY <2>1 DEF MoneyTypeOK, MoneyInv, MoneyJobs
<1>2. RowsAddUp
  <2>1. ASSUME NEW o \in Paid, o \notin mixed
        PROVE  payment[o].refunded = Max({0} \cup {e.refunded : e \in PostedFor(o)})
    <3> DEFINE S == {0} \cup {e.refunded : e \in PostedFor(o)}
    <3>1. Sums(o) /\ payment[o] \in PaymentRow BY <2>1 DEF MoneyInv, Paid
    <3>2. S \subseteq Nat
      <4>1. \A e \in PostedFor(o) : e \in MoneyEvents BY DEF PostedFor, MoneyInv
      <4> QED BY <4>1, EventKinds, PaymentsAssumption
    <3>3. payment[o].refunded \in Nat BY <3>1, PaymentsAssumption DEF PaymentRow
    <3>4. payment[o].refunded \in S /\ \A n \in S : n <= payment[o].refunded
      BY <2>1, <3>1, <3>3 DEF Sums
    <3> HIDE DEF S
    <3>5. Max(S) = payment[o].refunded BY <3>2, <3>4, MaxIs
    <3> QED BY <3>5 DEF S
  <2> QED BY <2>1 DEF RowsAddUp, MoneyInv, Sums
<1>3. OneReceipt
  <2>1. ASSUME NEW o \in Orders
        PROVE  /\ receipts[o] <= 1
               /\ \A e \in PostedFor(o) : IsCharge(e) => Receipted(o)
    <3>1. receipts[o] \in {0, 1} BY DEF MoneyInv
    <3>2. \A e \in PostedFor(o) : o \in Paid BY DEF MoneyInv, PostedFor
    <3> QED BY <3>1, <3>2 DEF MoneyInv
  <2> QED BY <2>1 DEF OneReceipt, Receipted
<1>4. StatusTellsTheRest BY DEF StatusTellsTheRest, MoneyInv, Sums
<1> QED BY <1>1, <1>2, <1>3, <1>4 DEF PaymentsSafe

\* For any orders, prices and number of handlers: the rows of payments add up
\* to what the provider said, a charge has one receipt, and a status tells the
\* rest, whatever is interrupted, replayed or reordered (webhook_handler.ts).
THEOREM MoneyHolds == MoneySpec => []PaymentsSafe
<1> QED BY InitMoney, NextMoney, MoneyImplies, PTL DEF MoneySpec

-----------------------------------------------------------------------------
(* Checkouts and the portal. Every row is told from the webhook last       *)
(* written to it, a webhook from the checkout it is about, and the plan of *)
(* a workspace from the only row it has; the portal adds a customer to a   *)
(* row and takes nothing from it.                                          *)

Session == [org : Teams, product : Sold \cup {Foreign}, status : DOMAIN STATUS_MAP \cup {"open"}]
OurStatuses == {STATUS_MAP[s] : s \in DOMAIN STATUS_MAP}
BoughtRow == [sub : Nat, org : Teams, status : OurStatuses, plan : Sold \cup {"free"},
              customer : BOOLEAN, updated : Nat]

SessionsStand ==
  /\ checkouts \in Seq(Session) /\ seconds \in Nat
  /\ \A e \in news : /\ e.sub \in DOMAIN checkouts
                     /\ e.status \in DOMAIN STATUS_MAP /\ e.customer \in BOOLEAN

\* What the provider has said of the subscription of a row.
Grounded(row) ==
  /\ row.sub \in DOMAIN checkouts /\ row.org = checkouts[row.sub].org
  /\ row.plan # "free" => \E e \in news : e.sub = row.sub /\ e.product = row.plan
  /\ \E f \in news : f.sub = row.sub /\ STATUS_MAP[f.status] = row.status

KeepsWhatWasTold(row, told) ==
  /\ row.sub = told.sub /\ row.org = told.org /\ row.status = told.status /\ row.plan = told.plan
  /\ told.customer => row.customer

RowTold(k) ==
  /\ Grounded(toldLast[k]) /\ KeepsWhatWasTold(bought[k], toldLast[k])
  /\ TheirRows(bought[k].org) = {k} =>
       k \in applying \/ teamPlan[bought[k].org] = Earned(toldLast[k])

PlanGrounded(o) ==
  teamPlan[o] # "free" =>
    \E e \in news : checkouts[e.sub].org = o /\ e.product = teamPlan[o]
      /\ \E f \in news : f.sub = e.sub /\ STATUS_MAP[f.status] \in ENTITLING_STATUSES

AtPortal ==
  portal # NoPortal =>
    /\ portal \in [step : {"open", "ask", "save"}, at : DOMAIN bought, org : Teams,
                   loaded : {portal.loaded}]
    /\ bought[portal.at].org = portal.org
    /\ portal.step = "open" => bought[portal.at].customer

CheckoutInv ==
  /\ SessionsStand /\ AtPortal
  /\ bought \in Seq(BoughtRow) /\ toldLast \in Seq(BoughtRow) /\ Len(toldLast) = Len(bought)
  /\ teamPlan \in [Teams -> Sold \cup {"free"}]
  /\ applying = {} \/ \E k \in DOMAIN bought : applying = {k}
  /\ \A k \in DOMAIN bought : RowTold(k)
  /\ \A o \in Teams : PlanGrounded(o)

-----------------------------------------------------------------------------

LEMMA InitCheckout == CheckoutInit => CheckoutInv
<1> SUFFICES ASSUME CheckoutInit PROVE CheckoutInv OBVIOUS
<1>1. DOMAIN bought = {} /\ news = {} BY DEF CheckoutInit
<1>2. SessionsStand BY <1>1 DEF CheckoutInit, SessionsStand
<1>3. AtPortal BY DEF CheckoutInit, AtPortal
<1>4. \A o \in Teams : PlanGrounded(o) BY DEF CheckoutInit, PlanGrounded
<1> QED BY <1>1, <1>2, <1>3, <1>4 DEF CheckoutInit, CheckoutInv

\* More checkouts and more webhooks change nothing about what was applied.
MoreIsSaid ==
  /\ UNCHANGED <<bought, toldLast, teamPlan, applying>>
  /\ DOMAIN checkouts \subseteq DOMAIN checkouts'
  /\ \A i \in DOMAIN checkouts : checkouts'[i].org = checkouts[i].org
  /\ news \subseteq news'

LEMMA MoreSaid ==
  ASSUME CheckoutInv, MoreIsSaid, SessionsStand', AtPortal'
  PROVE  CheckoutInv'
<1>1. ASSUME NEW row, Grounded(row) PROVE Grounded(row)'
  <2>1. row.sub \in DOMAIN checkouts' /\ row.org = checkouts'[row.sub].org
    BY <1>1 DEF Grounded, MoreIsSaid
  <2>2. row.plan # "free" => \E e \in news' : e.sub = row.sub /\ e.product = row.plan
    BY <1>1 DEF Grounded, MoreIsSaid
  <2>3. \E f \in news' : f.sub = row.sub /\ STATUS_MAP[f.status] = row.status
    BY <1>1 DEF Grounded, MoreIsSaid
  <2> QED BY <2>1, <2>2, <2>3 DEF Grounded
<1>2. ASSUME NEW k \in DOMAIN bought PROVE RowTold(k)'
  <2>1. PICK row, told : row = bought[k] /\ told = toldLast[k] OBVIOUS
  <2>2. row = bought'[k] /\ told = toldLast'[k] BY <2>1 DEF MoreIsSaid
  <2>3. Grounded(told) /\ KeepsWhatWasTold(row, told) BY <2>1 DEF CheckoutInv, RowTold
  <2>4. Grounded(told)' BY <1>1, <2>3
  <2>5. TheirRows(row.org)' = TheirRows(row.org) BY DEF TheirRows, MoreIsSaid
  <2>6. TheirRows(row.org) = {k} => k \in applying \/ teamPlan[row.org] = Earned(told)
    BY <2>1 DEF CheckoutInv, RowTold
  <2> QED BY <2>2, <2>3, <2>4, <2>5, <2>6 DEF RowTold, MoreIsSaid, Grounded
<1>3. ASSUME NEW o \in Teams PROVE PlanGrounded(o)'
  <2>1. SUFFICES ASSUME teamPlan[o] # "free"
        PROVE  \E e \in news' : checkouts'[e.sub].org = o /\ e.product = teamPlan[o]
                 /\ \E f \in news' : f.sub = e.sub /\ STATUS_MAP[f.status] \in ENTITLING_STATUSES
    BY DEF PlanGrounded, MoreIsSaid
  <2>2. PICK e \in news : checkouts[e.sub].org = o /\ e.product = teamPlan[o]
           /\ \E f \in news : f.sub = e.sub /\ STATUS_MAP[f.status] \in ENTITLING_STATUSES
    BY <2>1 DEF CheckoutInv, PlanGrounded
  <2>3. checkouts'[e.sub].org = o BY <2>2 DEF CheckoutInv, SessionsStand, MoreIsSaid
  <2> QED BY <2>2, <2>3 DEF MoreIsSaid
<1> QED BY <1>2, <1>3 DEF CheckoutInv, MoreIsSaid

LEMMA SecondHolds ==
  ASSUME CheckoutInv, Second
  PROVE  CheckoutInv'
<1>1. SessionsStand' BY DEF Second, CheckoutInv, SessionsStand
<1>2. AtPortal' BY DEF Second, CheckoutInv, AtPortal
<1>3. MoreIsSaid BY DEF Second, MoreIsSaid
<1> QED BY <1>1, <1>2, <1>3, MoreSaid

LEMMA StartHolds ==
  ASSUME CheckoutInv, NEW o \in Teams, NEW plan \in Sold \cup {Unpriced, "free"}, startCheckout(o, plan)
  PROVE  CheckoutInv'
<1>1. PICK s : s = [org |-> o, product |-> plan, status |-> "open"] OBVIOUS
<1>2. s \in Session BY <1>1 DEF startCheckout, Session
<1>3. checkouts' = Append(checkouts, s) /\ checkouts \in Seq(Session)
  BY <1>1 DEF startCheckout, CheckoutInv, SessionsStand
<1>4. /\ checkouts' \in Seq(Session) /\ DOMAIN checkouts \subseteq DOMAIN checkouts'
      /\ \A i \in DOMAIN checkouts : checkouts'[i] = checkouts[i]
  BY <1>2, <1>3
<1>5. UNCHANGED <<news, bought, teamPlan, applying, portal, seconds, toldLast>> BY DEF startCheckout
<1>6. SessionsStand' BY <1>4, <1>5 DEF CheckoutInv, SessionsStand
<1>7. AtPortal' BY <1>5 DEF CheckoutInv, AtPortal
<1>8. MoreIsSaid BY <1>4, <1>5 DEF MoreIsSaid
<1> QED BY <1>6, <1>7, <1>8, MoreSaid

LEMMA ProviderHolds ==
  ASSUME CheckoutInv, NEW i \in DOMAIN checkouts, NEW s \in DOMAIN STATUS_MAP,
         NEW q \in Sold \cup {Foreign}, NEW whole \in BOOLEAN, ProviderMoves(i, s, q, whole)
  PROVE  CheckoutInv'
<1>1. checkouts \in Seq(Session) /\ checkouts[i] \in Session BY DEF CheckoutInv, SessionsStand
<1>2. PICK y : y = [checkouts[i] EXCEPT !.status = s] OBVIOUS
<1>3. PICK z : z = [y EXCEPT !.product = q] OBVIOUS
<1>4. z \in Session /\ z.org = checkouts[i].org BY <1>1, <1>2, <1>3 DEF Session
<1>5. checkouts' = [checkouts EXCEPT ![i] = z]
  <2>1. PICK c : c = [checkouts EXCEPT ![i].status = s] OBVIOUS
  <2>2. c = [checkouts EXCEPT ![i] = y] BY <1>1, <1>2, <2>1
  <2>3. checkouts' = [c EXCEPT ![i].product = q] BY <2>1 DEF ProviderMoves
  <2>4. c[i] = y BY <1>1, <2>2
  <2>5. checkouts' = [c EXCEPT ![i] = z] BY <1>3, <2>3, <2>4
  <2> QED BY <1>1, <2>2, <2>5
<1>6. /\ checkouts' \in Seq(Session) /\ DOMAIN checkouts' = DOMAIN checkouts
      /\ \A j \in DOMAIN checkouts : checkouts'[j].org = checkouts[j].org
  BY <1>1, <1>4, <1>5
<1>7. PICK e : /\ news' = news \cup {e} /\ e.sub = i /\ e.status = s /\ e.customer = whole
  <2>1. PICK tagged : tagged = (whole \/ (checkouts[i].status # "active" /\ s = "active")) OBVIOUS
  <2> DEFINE e == [sub |-> i, status |-> s, product |-> q, at |-> seconds, tagged |-> tagged,
                   customer |-> whole]
  <2>2. news' = news \cup {e} BY <2>1 DEF ProviderMoves
  <2>3. e.sub = i /\ e.status = s /\ e.customer = whole OBVIOUS
  <2> HIDE DEF e
  <2> QED BY <2>2, <2>3
<1>8. UNCHANGED <<bought, teamPlan, applying, portal, seconds, toldLast>> BY DEF ProviderMoves
<1>9. SessionsStand' BY <1>6, <1>7, <1>8 DEF CheckoutInv, SessionsStand
<1>10. AtPortal' BY <1>8 DEF CheckoutInv, AtPortal
<1>11. MoreIsSaid BY <1>6, <1>7, <1>8 DEF MoreIsSaid
<1> QED BY <1>9, <1>10, <1>11, MoreSaid

LEMMA NewestIsTheirs ==
  ASSUME NEW o, TheirRows(o) # {}, bought \in Seq(BoughtRow)
  PROVE  activeSubscription(o) \in TheirRows(o)
<1>1. Len(bought) \in Nat /\ TheirRows(o) \in SUBSET (1..Len(bought)) BY DEF TheirRows
<1>2. \E k \in TheirRows(o) : \A j \in TheirRows(o) : j <= k BY <1>1, HasLast
<1>3. \E k \in TheirRows(o) : \A j \in TheirRows(o) : k >= j BY <1>1, <1>2
<1> QED BY <1>3 DEF activeSubscription, Max

LEMMA PortalHolds ==
  ASSUME CheckoutInv, (\E o \in Teams : startPortal(o)) \/ AskTheProvider \/ LeavePortal
  PROVE  CheckoutInv'
<1>1. UNCHANGED <<checkouts, news, bought, teamPlan, applying, seconds, toldLast>>
  BY DEF startPortal, AskTheProvider, LeavePortal
<1>2. SessionsStand' BY <1>1 DEF CheckoutInv, SessionsStand
<1>3. AtPortal'
  <2>1. CASE \E o \in Teams : startPortal(o)
    <3>1. PICK o \in Teams : startPortal(o) BY <2>1
    <3>2. PICK k : k = activeSubscription(o) OBVIOUS
    <3>3. k \in DOMAIN bought /\ bought[k].org = o
      BY <3>1, <3>2, NewestIsTheirs DEF startPortal, TheirRows, CheckoutInv
    <3>4. PICK step : step = IF bought[k].customer THEN "open" ELSE "ask" OBVIOUS
    <3>5. portal' = [step |-> step, at |-> k, org |-> o, loaded |-> bought[k]]
      BY <3>1, <3>2, <3>4 DEF startPortal
    <3>6. portal' \in [step : {"open", "ask", "save"}, at : DOMAIN bought, org : Teams,
                      loaded : {portal'.loaded}]
      BY <3>3, <3>4, <3>5
    <3>7. portal'.step = "open" => bought[k].customer BY <3>4, <3>5
    <3> QED BY <1>1, <3>3, <3>5, <3>6, <3>7 DEF AtPortal
  <2>2. CASE AskTheProvider
    <3>1. CASE portal' = NoPortal BY <3>1 DEF AtPortal
    <3>2. CASE portal' = [portal EXCEPT !.step = "save"]
      BY <1>1, <2>2, <3>2 DEF AskTheProvider, CheckoutInv, AtPortal
    <3> QED BY <2>2, <3>1, <3>2 DEF AskTheProvider
  <2>3. CASE LeavePortal BY <2>3 DEF LeavePortal, AtPortal
  <2> QED BY <2>1, <2>2, <2>3
<1>4. MoreIsSaid BY <1>1 DEF MoreIsSaid
<1> QED BY <1>2, <1>3, <1>4, MoreSaid

-----------------------------------------------------------------------------

\* A webhook applied: row k is written, or entered, as row says.
Writes(k, row) ==
  /\ DOMAIN bought' = DOMAIN bought \cup {k}
  /\ \A j \in DOMAIN bought \ {k} : bought'[j] = bought[j] /\ toldLast'[j] = toldLast[j]
  /\ bought'[k] = row /\ toldLast'[k] = row
  /\ k \in DOMAIN bought => row.org = bought[k].org /\ (bought[k].customer => row.customer)
  /\ applying = {} /\ applying' = {k}
  /\ UNCHANGED <<checkouts, news, teamPlan, portal, seconds>>

LEMMA WritesHold ==
  ASSUME CheckoutInv, NEW k, NEW row \in BoughtRow, Writes(k, row), Grounded(row),
         bought' \in Seq(BoughtRow), toldLast' \in Seq(BoughtRow), Len(toldLast') = Len(bought')
  PROVE  CheckoutInv'
<1>1. ASSUME NEW r, Grounded(r) PROVE Grounded(r)' BY <1>1 DEF Grounded, Writes
<1>2. ASSUME NEW j \in DOMAIN bought' PROVE RowTold(j)'
  <2>1. CASE j = k
    <3>1. KeepsWhatWasTold(row, row) BY DEF KeepsWhatWasTold
    <3> QED BY <1>1, <2>1, <3>1 DEF RowTold, Writes, KeepsWhatWasTold
  <2>2. CASE j # k
    <3>1. PICK r, told : r = bought[j] /\ told = toldLast[j] OBVIOUS
    <3>2. j \in DOMAIN bought /\ r = bought'[j] /\ told = toldLast'[j] BY <2>2, <3>1 DEF Writes
    <3>3. Grounded(told) /\ KeepsWhatWasTold(r, told) BY <3>1, <3>2 DEF CheckoutInv, RowTold
    <3>4. Grounded(told)' BY <1>1, <3>3
    <3>5. ASSUME TheirRows(r.org)' = {j} PROVE teamPlan[r.org] = Earned(told)
      <4>1. row.org # r.org BY <2>2, <3>2, <3>5 DEF TheirRows, Writes
      <4>2. TheirRows(r.org) = {j} BY <2>2, <3>1, <3>2, <3>5, <4>1 DEF TheirRows, Writes
      <4>3. applying = {} BY DEF Writes
      <4> QED BY <3>1, <3>2, <4>2, <4>3 DEF CheckoutInv, RowTold
    <3> QED BY <3>2, <3>3, <3>4, <3>5 DEF RowTold, Writes, KeepsWhatWasTold, Earned, Entitles
  <2> QED BY <2>1, <2>2
<1>3. \A o \in Teams : PlanGrounded(o)' BY DEF PlanGrounded, Writes, CheckoutInv
<1>4. SessionsStand' BY DEF SessionsStand, Writes, CheckoutInv
<1>5. AtPortal'
  <2>1. SUFFICES ASSUME portal # NoPortal
        PROVE  /\ portal \in [step : {"open", "ask", "save"}, at : DOMAIN bought', org : Teams,
                               loaded : {portal.loaded}]
               /\ bought'[portal.at].org = portal.org
               /\ portal.step = "open" => bought'[portal.at].customer
    BY DEF AtPortal, Writes
  <2>2. /\ portal \in [step : {"open", "ask", "save"}, at : DOMAIN bought, org : Teams,
                        loaded : {portal.loaded}]
        /\ bought[portal.at].org = portal.org
        /\ portal.step = "open" => bought[portal.at].customer
    BY <2>1 DEF CheckoutInv, AtPortal
  <2>3. portal \in [step : {"open", "ask", "save"}, at : DOMAIN bought', org : Teams,
                    loaded : {portal.loaded}] /\ portal.at \in DOMAIN bought
    BY <2>2 DEF Writes
  <2>4. CASE portal.at = k BY <2>2, <2>3, <2>4 DEF Writes
  <2>5. CASE portal.at # k BY <2>2, <2>3, <2>5 DEF Writes
  <2> QED BY <2>4, <2>5
<1>6. k \in DOMAIN bought' /\ applying' = {k} /\ teamPlan' = teamPlan BY DEF Writes
<1> QED BY <1>2, <1>3, <1>4, <1>5, <1>6 DEF CheckoutInv

LEMMA RewrittenIs ==
  ASSUME CheckoutInv, NEW e \in news, NEW before, before.org \in Teams,
         before.plan \in Sold \cup {"free"}, before.customer \in BOOLEAN,
         before.org = checkouts[e.sub].org,
         before.plan # "free" => \E d \in news : d.sub = e.sub /\ d.product = before.plan
  PROVE  /\ Rewritten(e, before) \in BoughtRow /\ Grounded(Rewritten(e, before))
         /\ Rewritten(e, before).org = before.org
         /\ before.customer => Rewritten(e, before).customer
<1>1. /\ e.sub \in DOMAIN checkouts /\ e.sub \in Nat /\ seconds \in Nat
      /\ e.status \in DOMAIN STATUS_MAP /\ e.customer \in BOOLEAN
  BY DEF CheckoutInv, SessionsStand
<1>2. PICK plan : plan = planKeyForProductId(e.product, before.plan) OBVIOUS
<1>3. PICK status : status = STATUS_MAP[e.status] OBVIOUS
<1>4. PICK customer \in BOOLEAN : customer = (e.customer \/ before.customer) OBVIOUS
<1>5. PICK row : row = [sub |-> e.sub, org |-> before.org, status |-> status, plan |-> plan,
                        customer |-> customer, updated |-> seconds]
  OBVIOUS
<1>6. row = Rewritten(e, before) BY <1>2, <1>3, <1>4, <1>5 DEF Rewritten
<1>7. /\ plan \in Sold \cup {"free"}
      /\ plan # "free" => \E d \in news : d.sub = e.sub /\ d.product = plan
  BY <1>2 DEF planKeyForProductId
<1>8. status \in OurStatuses BY <1>1, <1>3 DEF OurStatuses
<1>9. row \in BoughtRow BY <1>1, <1>4, <1>5, <1>7, <1>8 DEF BoughtRow
<1>10. /\ row.sub = e.sub /\ row.org = before.org /\ row.status = status /\ row.plan = plan
       /\ before.customer => row.customer
  BY <1>4, <1>5
<1>11. Grounded(row) BY <1>1, <1>3, <1>7, <1>10 DEF Grounded
<1> QED BY <1>6, <1>9, <1>10, <1>11

LEMMA ApplyHolds ==
  ASSUME CheckoutInv, NEW e \in news, ApplyNews(e)
  PROVE  CheckoutInv'
<1>1. /\ bought \in Seq(BoughtRow) /\ toldLast \in Seq(BoughtRow) /\ Len(toldLast) = Len(bought)
      /\ e.sub \in DOMAIN checkouts /\ checkouts[e.sub].org \in Teams
  <2>1. e.sub \in DOMAIN checkouts /\ checkouts \in Seq(Session) BY DEF CheckoutInv, SessionsStand
  <2>2. checkouts[e.sub] \in Session BY <2>1
  <2> QED BY <2>1, <2>2 DEF CheckoutInv, Session
<1>2. UNCHANGED <<checkouts, news, teamPlan, portal, seconds>> /\ applying = {} BY DEF ApplyNews
<1>3. CASE Recorded(e)
  <2>1. PICK k : k = CHOOSE j \in RowsOf(e.sub) : TRUE OBVIOUS
  <2>2. k \in DOMAIN bought /\ bought[k].sub = e.sub /\ bought[k] \in BoughtRow
    BY <1>1, <1>3, <2>1 DEF Recorded, RowsOf
  <2>3. PICK row : row = Rewritten(e, bought[k]) OBVIOUS
  <2>4. Grounded(toldLast[k]) /\ KeepsWhatWasTold(bought[k], toldLast[k]) BY <2>2 DEF CheckoutInv, RowTold
  <2>5. /\ bought[k].org = checkouts[e.sub].org /\ bought[k].org \in Teams
        /\ bought[k].plan \in Sold \cup {"free"} /\ bought[k].customer \in BOOLEAN
        /\ bought[k].plan # "free" => \E d \in news : d.sub = e.sub /\ d.product = bought[k].plan
    BY <2>2, <2>4 DEF Grounded, KeepsWhatWasTold, BoughtRow
  <2>6. /\ row \in BoughtRow /\ Grounded(row) /\ row.org = bought[k].org
        /\ bought[k].customer => row.customer
    BY <2>3, <2>5, RewrittenIs
  <2>7. bought' = [bought EXCEPT ![k] = row] /\ applying' = {k} BY <1>3, <2>1, <2>3 DEF ApplyNews
  <2>8. bought'[k] = row BY <1>1, <2>2, <2>7
  <2>9. toldLast' = [toldLast EXCEPT ![k] = row] BY <1>3, <2>1, <2>8 DEF ApplyNews
  <2>10. /\ bought' \in Seq(BoughtRow) /\ toldLast' \in Seq(BoughtRow) /\ Len(toldLast') = Len(bought')
         /\ toldLast'[k] = row
         /\ \A j \in DOMAIN bought \ {k} : bought'[j] = bought[j] /\ toldLast'[j] = toldLast[j]
         /\ DOMAIN bought' = DOMAIN bought \cup {k}
    BY <1>1, <2>2, <2>6, <2>7, <2>9
  <2>11. Writes(k, row) BY <1>2, <2>6, <2>7, <2>8, <2>10 DEF Writes
  <2> QED BY <2>6, <2>10, <2>11, WritesHold
<1>4. CASE ~Recorded(e)
  <2>1. PICK before : before = [org |-> checkouts[e.sub].org, plan |-> "free", customer |-> FALSE] OBVIOUS
  <2>2. PICK row : row = Rewritten(e, before) OBVIOUS
  <2>3. before.org = checkouts[e.sub].org /\ before.plan = "free" /\ before.customer \in BOOLEAN BY <2>1
  <2>4. row \in BoughtRow /\ Grounded(row) BY <1>1, <2>2, <2>3, RewrittenIs
  <2>5. PICK k : k = Len(bought) + 1 OBVIOUS
  <2>6. bought' = Append(bought, row) /\ toldLast' = Append(toldLast, row) /\ applying' = {k}
    BY <1>4, <2>1, <2>2, <2>5 DEF ApplyNews
  <2>7. /\ bought' \in Seq(BoughtRow) /\ toldLast' \in Seq(BoughtRow) /\ Len(toldLast') = Len(bought')
        /\ bought'[k] = row /\ toldLast'[k] = row /\ k \notin DOMAIN bought
        /\ DOMAIN bought' = DOMAIN bought \cup {k}
    BY <1>1, <2>4, <2>5, <2>6
  <2>8. \A j \in DOMAIN bought : bought'[j] = bought[j] /\ toldLast'[j] = toldLast[j]
    BY <1>1, <2>4, <2>6
  <2>9. Writes(k, row) BY <1>2, <2>6, <2>7, <2>8 DEF Writes
  <2> QED BY <2>4, <2>7, <2>9, WritesHold
<1> QED BY <1>3, <1>4

LEMMA SyncHolds ==
  ASSUME CheckoutInv, syncEntitlement
  PROVE  CheckoutInv'
<1>1. PICK k \in applying : teamPlan' = [teamPlan EXCEPT ![toldLast[k].org] = Earned(toldLast[k])]
  BY DEF syncEntitlement
<1>2. PICK told : told = toldLast[k] OBVIOUS
<1>3. /\ k \in DOMAIN bought /\ applying = {k} /\ RowTold(k) BY DEF CheckoutInv
<1>4. told \in BoughtRow BY <1>2, <1>3 DEF CheckoutInv
<1>5. UNCHANGED <<checkouts, news, bought, portal, seconds, toldLast>> /\ applying' = {}
  BY DEF syncEntitlement
<1>6. /\ teamPlan' \in [Teams -> Sold \cup {"free"}] /\ teamPlan'[told.org] = Earned(told)
      /\ \A o \in Teams \ {told.org} : teamPlan'[o] = teamPlan[o]
  BY <1>1, <1>2, <1>4 DEF CheckoutInv, BoughtRow, Earned
<1>7. Grounded(told) /\ KeepsWhatWasTold(bought[k], told) BY <1>2, <1>3 DEF RowTold
<1>8. ASSUME NEW j \in DOMAIN bought PROVE RowTold(j)'
  <2>1. PICK r, t : r = bought[j] /\ t = toldLast[j] OBVIOUS
  <2>2. Grounded(t) /\ KeepsWhatWasTold(r, t) /\ r \in BoughtRow BY <2>1 DEF CheckoutInv, RowTold
  <2>3. Grounded(t)' BY <1>5, <2>2 DEF Grounded
  <2>4. TheirRows(r.org)' = TheirRows(r.org) BY <1>5 DEF TheirRows
  <2>5. ASSUME TheirRows(r.org) = {j} PROVE teamPlan'[r.org] = Earned(t)
    <3>1. CASE r.org = told.org
      <4>1. k \in TheirRows(r.org) BY <1>3, <1>7, <3>1 DEF TheirRows, KeepsWhatWasTold
      <4> QED BY <1>2, <1>6, <2>1, <2>5, <3>1, <4>1
    <3>2. CASE r.org # told.org
      <4>1. j # k BY <1>7, <2>1, <3>2 DEF KeepsWhatWasTold
      <4>2. teamPlan[r.org] = Earned(t) BY <1>3, <2>1, <2>5, <4>1 DEF CheckoutInv, RowTold
      <4> QED BY <1>6, <2>2, <3>2, <4>2 DEF BoughtRow
    <3> QED BY <3>1, <3>2
  <2> QED BY <1>5, <2>1, <2>2, <2>3, <2>4, <2>5 DEF RowTold, KeepsWhatWasTold, Earned, Entitles
<1>9. ASSUME NEW o \in Teams PROVE PlanGrounded(o)'
  <2>1. CASE o # told.org BY <1>5, <1>6, <2>1 DEF CheckoutInv, PlanGrounded
  <2>2. CASE o = told.org
    <3>1. SUFFICES ASSUME teamPlan'[o] # "free"
          PROVE  \E e \in news : checkouts[e.sub].org = o /\ e.product = teamPlan'[o]
                   /\ \E f \in news : f.sub = e.sub /\ STATUS_MAP[f.status] \in ENTITLING_STATUSES
      BY <1>5 DEF PlanGrounded
    <3>2. Entitles(told) /\ teamPlan'[o] = told.plan BY <1>6, <2>2, <3>1 DEF Earned
    <3>3. PICK e \in news : e.sub = told.sub /\ e.product = told.plan
      BY <1>7, <3>1, <3>2 DEF Grounded
    <3>4. PICK f \in news : f.sub = told.sub /\ STATUS_MAP[f.status] = told.status
      BY <1>7 DEF Grounded
    <3>5. STATUS_MAP[f.status] \in ENTITLING_STATUSES BY <3>2, <3>4 DEF Entitles
    <3>6. checkouts[e.sub].org = o BY <1>7, <2>2, <3>3 DEF Grounded
    <3> QED BY <3>2, <3>3, <3>4, <3>5, <3>6
  <2> QED BY <2>1, <2>2
<1>10. SessionsStand' BY <1>5 DEF CheckoutInv, SessionsStand
<1>11. AtPortal' BY <1>5 DEF CheckoutInv, AtPortal
<1> QED BY <1>5, <1>6, <1>8, <1>9, <1>10, <1>11 DEF CheckoutInv

LEMMA CustomerHolds ==
  ASSUME CheckoutInv, SaveCustomer
  PROVE  CheckoutInv'
<1>1. PICK k : k = portal.at OBVIOUS
<1>2. /\ portal # NoPortal /\ k \in DOMAIN bought /\ bought[k].org = portal.org
      /\ portal \in [step : {"open", "ask", "save"}, at : DOMAIN bought, org : Teams,
                     loaded : {portal.loaded}]
  BY <1>1 DEF SaveCustomer, CheckoutInv, AtPortal
<1>3. bought \in Seq(BoughtRow) /\ bought[k] \in BoughtRow /\ seconds \in Nat
  BY <1>2 DEF CheckoutInv, SessionsStand
<1>4. PICK y : y = [bought[k] EXCEPT !.customer = TRUE] OBVIOUS
<1>5. PICK row : row = [y EXCEPT !.updated = seconds] OBVIOUS
<1>6. row \in BoughtRow
  <2>1. y \in BoughtRow BY <1>3, <1>4 DEF BoughtRow
  <2> QED BY <1>3, <1>5, <2>1 DEF BoughtRow
<1>7. row.sub = bought[k].sub /\ row.org = bought[k].org /\ row.status = bought[k].status
      /\ row.plan = bought[k].plan /\ row.customer
  BY <1>3, <1>4, <1>5 DEF BoughtRow
<1>8. bought' = [bought EXCEPT ![k] = row] BY <1>1, <1>4, <1>5 DEF SaveCustomer, WithCustomer
<1>9. /\ bought' \in Seq(BoughtRow) /\ Len(bought') = Len(bought) /\ DOMAIN bought' = DOMAIN bought
      /\ bought'[k] = row /\ \A j \in DOMAIN bought \ {k} : bought'[j] = bought[j]
  BY <1>2, <1>3, <1>6, <1>8
<1>10. UNCHANGED <<checkouts, news, teamPlan, applying, seconds, toldLast>>
       /\ portal' = [portal EXCEPT !.step = "open"]
  BY DEF SaveCustomer
<1>11. \A o \in Teams : TheirRows(o)' = TheirRows(o) BY <1>7, <1>9 DEF TheirRows
<1>12. ASSUME NEW j \in DOMAIN bought PROVE RowTold(j)'
  <2>1. PICK r, t : r = bought'[j] /\ t = toldLast[j] OBVIOUS
  <2>2. Grounded(t) /\ KeepsWhatWasTold(bought[j], t) /\ bought[j] \in BoughtRow
    BY <2>1 DEF CheckoutInv, RowTold
  <2>3. r.org = bought[j].org /\ KeepsWhatWasTold(r, t)
    BY <1>7, <1>9, <2>1, <2>2 DEF KeepsWhatWasTold
  <2>4. Grounded(t)' BY <1>10, <2>2 DEF Grounded
  <2>5. TheirRows(r.org)' = TheirRows(r.org) BY <1>11, <2>2, <2>3 DEF BoughtRow
  <2>6. TheirRows(r.org) = {j} => j \in applying \/ teamPlan[r.org] = Earned(t)
    BY <2>1, <2>3 DEF CheckoutInv, RowTold
  <2> QED BY <1>10, <2>1, <2>3, <2>4, <2>5, <2>6 DEF RowTold, KeepsWhatWasTold, Earned, Entitles
<1>13. \A o \in Teams : PlanGrounded(o)' BY <1>10 DEF PlanGrounded, CheckoutInv
<1>14. SessionsStand' BY <1>10 DEF CheckoutInv, SessionsStand
<1>15. AtPortal'
  <2>1. PICK p : p = portal' OBVIOUS
  <2>2. p.at = k /\ p.org = portal.org /\ p \in [step : {"open", "ask", "save"}, at : DOMAIN bought,
           org : Teams, loaded : {p.loaded}]
    BY <1>1, <1>2, <1>10, <2>1
  <2> QED BY <1>2, <1>7, <1>9, <2>1, <2>2 DEF AtPortal
<1> QED BY <1>9, <1>10, <1>12, <1>13, <1>14, <1>15 DEF CheckoutInv

LEMMA NextCheckout == CheckoutInv /\ [CheckoutNext]_checkoutVars => CheckoutInv'
<1> SUFFICES ASSUME CheckoutInv, [CheckoutNext]_checkoutVars PROVE CheckoutInv' OBVIOUS
<1>1. CASE Second BY <1>1, SecondHolds
<1>2. CASE syncEntitlement BY <1>2, SyncHolds
<1>3. CASE (\E o \in Teams : startPortal(o)) \/ AskTheProvider \/ LeavePortal BY <1>3, PortalHolds
<1>4. CASE SaveCustomer BY <1>4, CustomerHolds
<1>5. CASE \E o \in Teams, plan \in Sold \cup {Unpriced, "free"} : startCheckout(o, plan) BY <1>5, StartHolds
<1>6. CASE \E i \in DOMAIN checkouts, s \in DOMAIN STATUS_MAP, q \in Sold \cup {Foreign},
        whole \in BOOLEAN : ProviderMoves(i, s, q, whole)
  BY <1>6, ProviderHolds
<1>7. CASE \E e \in news : ApplyNews(e) BY <1>7, ApplyHolds
<1>8. CASE UNCHANGED checkoutVars
  <2>1. SessionsStand' BY <1>8 DEF CheckoutInv, SessionsStand, checkoutVars
  <2>2. AtPortal' BY <1>8 DEF CheckoutInv, AtPortal, checkoutVars
  <2>3. MoreIsSaid BY <1>8 DEF MoreIsSaid, checkoutVars
  <2> QED BY <2>1, <2>2, <2>3, MoreSaid
<1> QED BY <1>1, <1>2, <1>3, <1>4, <1>5, <1>6, <1>7, <1>8 DEF CheckoutNext

LEMMA CheckoutImplies == CheckoutInv => CheckoutSafe
<1> SUFFICES ASSUME CheckoutInv PROVE CheckoutSafe OBVIOUS
<1>1. PortalTakesNothingBack BY DEF PortalTakesNothingBack, CheckoutInv, RowTold, KeepsWhatWasTold
<1>2. GrantedIsBought BY DEF GrantedIsBought, CheckoutInv, PlanGrounded
<1>3. ScreenAgrees
  <2>1. SUFFICES ASSUME NEW o \in Teams, Cardinality(TheirRows(o)) = 1, applying = {}
        PROVE  teamPlan[o] = Earned(bought[activeSubscription(o)])
    BY DEF ScreenAgrees
  <2>2. bought \in Seq(BoughtRow) /\ Len(bought) \in Nat /\ TheirRows(o) \subseteq 1..Len(bought)
    BY DEF CheckoutInv, TheirRows
  <2>3. IsFiniteSet(TheirRows(o))
    <3>1. IsFiniteSet(1..Len(bought)) BY <2>2, FS_Interval
    <3> QED BY <2>2, <3>1, FS_Subset
  <2>4. TheirRows(o) # {} BY <2>1, FS_EmptySet
  <2>5. PICK k : k = activeSubscription(o) OBVIOUS
  <2>6. k \in TheirRows(o) BY <2>2, <2>4, <2>5, NewestIsTheirs
  <2>7. TheirRows(o) \ {k} = {}
    <3>1. /\ IsFiniteSet(TheirRows(o) \ {k})
          /\ Cardinality(TheirRows(o) \ {k}) = Cardinality(TheirRows(o)) - 1
      BY <2>3, <2>6, FS_RemoveElement
    <3> QED BY <2>1, <3>1, FS_EmptySet
  <2>8. TheirRows(o) = {k} /\ k \in DOMAIN bought /\ bought[k].org = o BY <2>6, <2>7 DEF TheirRows
  <2>9. teamPlan[o] = Earned(toldLast[k]) /\ KeepsWhatWasTold(bought[k], toldLast[k])
    BY <2>1, <2>8 DEF CheckoutInv, RowTold
  <2> QED BY <2>5, <2>9 DEF KeepsWhatWasTold, Earned, Entitles
<1>4. PortalKnowsWhose BY DEF PortalKnowsWhose, CheckoutInv, AtPortal
<1> QED BY <1>1, <1>2, <1>3, <1>4 DEF CheckoutSafe

\* For any workspaces, plans and webhooks in any order: a visit to the portal
\* takes nothing back, no workspace has a plan but one it bought, the screen
\* agrees with it and the portal is its own (billing_service.ts, creem.ts).
THEOREM CheckoutHolds == CheckoutSpec => []CheckoutSafe
<1> QED BY InitCheckout, NextCheckout, CheckoutImplies, PTL DEF CheckoutSpec
=============================================================================
