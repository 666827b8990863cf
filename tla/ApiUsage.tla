------------------------------ MODULE ApiUsage ------------------------------
(***************************************************************************)
(* What one workspace calls the API for: the raw rows and the daily totals *)
(* made of them every night (track_api_usage.ts, rollup_api_usage_job.ts,  *)
(* usage_service.ts), and the counter of the month (api_rate_limit.ts).    *)
(* Time passes in ticks, several a day; the job runs at any of them.       *)
(***************************************************************************)
EXTENDS Integers, FiniteSetsExt

CONSTANTS
  TicksPerDay, DaysPerMonth,
  RawRetentionDays,      \* RAW_RETENTION_DAYS, shorter than the longest month
  ClampDays,             \* the longest window of the limiter's timer
  ChartDays,             \* days a chart shows
  MonthlyLimit,          \* apiCallsPerMonth
  MaxTicks               \* bound on the time a behaviour takes

ASSUME ApiUsageAssumption ==
  /\ {TicksPerDay, DaysPerMonth, ClampDays, RawRetentionDays} \subseteq Nat \ {0}
  /\ MonthlyLimit \in Nat /\ MaxTicks \in Nat /\ ChartDays \in 0..RawRetentionDays
  /\ DaysPerMonth <= 2 * ClampDays

VARIABLES
  clock,       \* ticks since the first of a month
  made,        \* calls that were recorded, by the tick they were recorded in
  raw,         \* of those, the ones whose api_requests row is still there
  usageDay,    \* api_usage_days: the requests of a day, -1 without a row
  rollup,      \* the nightly job: step, totals it has still to write, ticks of
               \* rows it has still to delete
  quota,       \* the limiter's counter: its key's month, points, and when it
               \* expires
  served       \* calls let through in each month

usageVars == <<clock, made, raw, usageDay, rollup, quota, served>>

Ticks == 0..MaxTicks
Day(t) == t \div TicksPerDay
Month(t) == Day(t) \div DaysPerMonth
Days == {Day(t) : t \in Ticks}
Months == {Month(t) : t \in Ticks}
CallsOf(rows, d) == Cardinality({t \in rows : Day(t) = d})
Resting == [step |-> "idle", totals |-> {}, expired |-> {}]

\* At most one call is recorded in a tick: the bound on the calls.
UsageInit ==
  /\ clock = 0 /\ made = {} /\ raw = {}
  /\ usageDay = [d \in Days |-> -1]
  /\ rollup = Resting
  /\ quota = [month |-> 0, points |-> 0, until |-> 0]
  /\ served = [m \in Months |-> 0]

-----------------------------------------------------------------------------
(* A call: the month's counter, then the row, which nobody waits for.      *)

secondsUntilNextMonth(t) ==
  Min({(Month(t) + 1) * DaysPerMonth * TicksPerDay - t, ClampDays * TicksPerDay})

Counter ==
  IF quota.month = Month(clock) /\ clock < quota.until THEN quota
  ELSE [month |-> Month(clock), points |-> 0,
        until |-> clock + secondsUntilNextMonth(clock)]

LetThrough == Counter.points < MonthlyLimit

\* A refusal is recorded too, and a row may fail to be written. (A refusal that
\* leaves no row is left out.)
Call(recorded) ==
  /\ clock \notin made
  /\ quota' = [Counter EXCEPT !.points = Min({@, MonthlyLimit}) + 1]
  /\ served' = IF LetThrough THEN [served EXCEPT ![Month(clock)] = @ + 1] ELSE served
  /\ made' = IF recorded THEN made \cup {clock} ELSE made
  /\ raw' = IF recorded THEN raw \cup {clock} ELSE raw
  /\ recorded \/ LetThrough
  /\ UNCHANGED <<clock, usageDay, rollup>>

-----------------------------------------------------------------------------
(* rollup_api_usage: read every raw row, write the days one by one, read   *)
(* the rows again and delete the old ones one by one.                      *)

ReadRaw ==
  /\ rollup.step = "idle"
  /\ rollup' = [rollup EXCEPT !.step = "write",
       !.totals = {<<d, CallsOf(raw, d)>> : d \in {Day(t) : t \in raw}}]
  /\ UNCHANGED <<clock, made, raw, usageDay, quota, served>>

Recomputed(old, total) == total

WriteDay ==
  /\ rollup.step = "write"
  /\ \E entry \in rollup.totals :
       /\ usageDay' = [usageDay EXCEPT ![entry[1]] = Recomputed(@, entry[2])]
       /\ rollup' = [rollup EXCEPT !.totals = @ \ {entry}]
  /\ UNCHANGED <<clock, made, raw, quota, served>>

DayTooMany(t) == t <= clock - RawRetentionDays * TicksPerDay + TicksPerDay   \* mutant
PastRetention(t) == t <= clock - RawRetentionDays * TicksPerDay

ReadExpired ==
  /\ rollup.step = "write" /\ rollup.totals = {}
  /\ rollup' = [Resting EXCEPT !.step = "delete", !.expired = {t \in raw : PastRetention(t)}]
  /\ UNCHANGED <<clock, made, raw, usageDay, quota, served>>

\* A row whose day has no total is passed over.
DeleteRow ==
  /\ rollup.step = "delete"
  /\ \E t \in rollup.expired :
       /\ raw' = IF usageDay[Day(t)] = -1 THEN raw ELSE raw \ {t}
       /\ rollup' = [rollup EXCEPT !.expired = @ \ {t}]
  /\ UNCHANGED <<clock, made, usageDay, quota, served>>

FinishRollup ==
  /\ rollup.step = "delete" /\ rollup.expired = {}
  /\ rollup' = Resting
  /\ UNCHANGED <<clock, made, raw, usageDay, quota, served>>

\* The worker dies; the queue runs the job again.
KillRollup ==
  /\ rollup.step # "idle"
  /\ rollup' = Resting
  /\ UNCHANGED <<clock, made, raw, usageDay, quota, served>>

PassTick ==
  /\ clock < MaxTicks
  /\ clock' = clock + 1
  /\ UNCHANGED <<made, raw, usageDay, rollup, quota, served>>

UsageNext ==
  \/ \E recorded \in BOOLEAN : Call(recorded)
  \/ ReadRaw \/ WriteDay \/ ReadExpired \/ DeleteRow \/ FinishRollup \/ KillRollup
  \/ PassTick

UsageSpec == UsageInit /\ [][UsageNext]_usageVars

-----------------------------------------------------------------------------
(* What the API screen shows.                                              *)

\* Raw rows win over the total of a day that has both.
recentDays(d) ==
  IF CallsOf(raw, d) > 0 THEN CallsOf(raw, d) ELSE Max({usageDay[d], 0})
monthToDate == Cardinality({t \in raw : Month(t) = Month(clock)})

\* A row exists only of a call that was recorded, and the job works on days
\* and rows that are there (api_requests, api_usage_days).
UsageTypeOK ==
  /\ clock \in Ticks /\ made \subseteq 0..clock /\ raw \subseteq made
  /\ usageDay \in [Days -> -1..TicksPerDay]
  /\ rollup.step \in {"idle", "write", "delete"}
  /\ rollup.totals \subseteq Days \X (1..TicksPerDay) /\ rollup.expired \subseteq raw
  /\ quota.month \in Months /\ quota.points \in 0..(MonthlyLimit + 1)

\* A day is never reported busier than it was, however often the job is killed
\* and run again, and no day on which anything was recorded is forgotten when
\* its rows go (rollup, prune).
DaysAreCountedOnce ==
  \A d \in Days :
    /\ usageDay[d] <= CallsOf(made, d)
    /\ CallsOf(made, d) > 0 => CallsOf(raw, d) > 0 \/ usageDay[d] > 0

\* The chart is right for every day it shows, and the figure of the month while
\* the month is younger than the raw rows, at any moment of the night
\* (recentDays and monthToDate over a rollup and a pruning half done).
ScreenIsRight ==
  /\ \A d \in Days : d <= Day(clock) /\ d > Day(clock) - ChartDays =>
       recentDays(d) = CallsOf(made, d)
  /\ Day(clock) % DaysPerMonth < RawRetentionDays =>
       monthToDate = Cardinality({t \in made : Month(t) = Month(clock)})

\* However the counter's timer falls, a month never serves more than twice the
\* plan's quota (secondsUntilNextMonth and its clamp).
QuotaAtMostDoubles == \A m \in Months : served[m] <= 2 * MonthlyLimit

\* What the screens and the counters promise, at any moment
\* (rollup_api_usage_job.ts, usage_service.ts, api_rate_limit.ts).
UsageSafe == UsageTypeOK /\ DaysAreCountedOnce /\ ScreenIsRight /\ QuotaAtMostDoubles
=============================================================================
