------------------------------ MODULE Figures ------------------------------
(***************************************************************************)
(* What the staff dashboard says of the business (metrics_service.ts): the *)
(* money over a window of days with the window before it, the same money   *)
(* bar by bar, the axis it is drawn against, and how many workspaces came, *)
(* began to pay, paid again and left, month by month. Every figure is      *)
(* reckoned anew from the rows. Time is in hours; labels, coordinates and  *)
(* the line of the sparklines are left out.                                *)
(***************************************************************************)
EXTENDS Integers, Sequences, FiniteSetsExt

CONSTANTS
  Shops,                      \* workspaces
  Catalogue, FreePlan,        \* plan keys, and DEFAULT_PLAN among them
  CurrencyCodes, USD,         \* and the one shown when there is no money
  ChargeAmounts,              \* what a charge may be, in cents
  HoursPerDay, DaysPerFigure, \* DaysPerFigure: the days of a calendar month
  RANGE_DAYS,                 \* REVENUE_RANGES
  WeeklyAbove, DaysPerBar,    \* ranges longer than this have a bar a week
  MaxHours, MaxCharges, MaxMoves  \* bounds

ASSUME FiguresAssumption ==
  /\ FreePlan \in Catalogue /\ IsFiniteSet(Catalogue) /\ USD \in CurrencyCodes
  /\ ChargeAmounts \subseteq Nat \ {0} /\ RANGE_DAYS \subseteq Nat \ {0}
  /\ {HoursPerDay, DaysPerFigure, DaysPerBar} \subseteq Nat \ {0}
  /\ {WeeklyAbove, MaxHours, MaxCharges, MaxMoves} \subseteq Nat

VARIABLES
  hour,
  charges,   \* the payments table, by occurred_at
  shops,     \* the organizations table
  subs,      \* each one's subscription
  moves      \* what has happened, for the bound

figureVars == <<hour, charges, shops, subs, moves>>

Never == -1
NoSub == [status |-> "none", plan |-> FreePlan, canceledAt |-> Never]

FiguresInit ==
  /\ hour = 0 /\ charges = <<>> /\ moves = 0
  /\ shops = [s \in Shops |-> [createdAt |-> Never, deleted |-> FALSE, plan |-> FreePlan]]
  /\ subs = [s \in Shops |-> NoSub]

Open(s) == shops[s].createdAt # Never /\ ~shops[s].deleted
Move == moves < MaxMoves /\ moves' = moves + 1

-----------------------------------------------------------------------------
(* What happens to the rows.                                               *)

PassHour ==
  /\ hour < MaxHours /\ hour' = hour + 1
  /\ UNCHANGED <<charges, shops, subs, moves>>

OpenShop(s) ==
  /\ shops[s].createdAt = Never /\ Move
  /\ shops' = [shops EXCEPT ![s].createdAt = hour]
  /\ UNCHANGED <<hour, charges, subs>>

CloseShop(s) ==
  /\ Open(s) /\ Move
  /\ shops' = [shops EXCEPT ![s].deleted = TRUE]
  /\ UNCHANGED <<hour, charges, subs>>

BeginSub(s, plan) ==
  /\ Open(s) /\ subs[s] = NoSub /\ Move
  /\ subs' = [subs EXCEPT ![s] = [NoSub EXCEPT !.status = "active", !.plan = plan]]
  /\ shops' = [shops EXCEPT ![s].plan = plan]
  /\ UNCHANGED <<hour, charges>>

EndSub(s) ==
  /\ subs[s].status = "active" /\ Move
  /\ subs' = [subs EXCEPT ![s].status = "canceled", ![s].canceledAt = hour]
  /\ shops' = [shops EXCEPT ![s].plan = FreePlan]
  /\ UNCHANGED <<hour, charges>>

TakeCharge(s, code, cents) ==
  /\ Open(s) /\ Len(charges) < MaxCharges
  /\ charges' = Append(charges,
       [shop |-> s, subscribed |-> subs[s] # NoSub, code |-> code, cents |-> cents,
        refunded |-> 0, disputed |-> FALSE, at |-> hour])
  /\ UNCHANGED <<hour, shops, subs, moves>>

GiveBack(k, cents) ==
  /\ Move /\ charges[k].refunded < cents /\ cents <= charges[k].cents
  /\ charges' = [charges EXCEPT ![k].refunded = cents]
  /\ UNCHANGED <<hour, shops, subs>>

Dispute(k) ==
  /\ Move /\ ~charges[k].disputed
  /\ charges' = [charges EXCEPT ![k].disputed = TRUE]
  /\ UNCHANGED <<hour, shops, subs>>

FiguresNext ==
  \/ PassHour
  \/ \E s \in Shops :
       \/ OpenShop(s) \/ CloseShop(s) \/ EndSub(s)
       \/ \E plan \in Catalogue \ {FreePlan} : BeginSub(s, plan)
       \/ \E code \in CurrencyCodes, cents \in ChargeAmounts : TakeCharge(s, code, cents)
  \/ \E k \in DOMAIN charges :
       Dispute(k) \/ \E cents \in {1, charges[k].cents} : GiveBack(k, cents)

FiguresSpec == FiguresInit /\ [][FiguresNext]_figureVars

-----------------------------------------------------------------------------
(* revenue(): the window and the one before it, in its dominant currency.  *)

\* A sum of natural numbers is how many there are, f[x] of each x.
Total(f) == Cardinality(UNION {{x} \X (1..f[x]) : x \in DOMAIN f})

netAmount(k) == charges[k].cents - charges[k].refunded
Gross(rows) == Total([k \in rows |-> charges[k].cents])
Refunds(rows) == Total([k \in rows |-> charges[k].refunded])
Net(rows) == Total([k \in rows |-> netAmount(k)])

DayOf(h) == h \div HoursPerDay
Since(days) == hour - days * HoursPerDay
InWindow(days) == {k \in DOMAIN charges : charges[k].at >= Since(days)}
InPrevious(days) ==
  {k \in DOMAIN charges : charges[k].at >= Since(2 * days) /\ charges[k].at < Since(days)}

OfCurrency(rows, code) == {k \in rows : charges[k].code = code}

\* The most volume; of two alike, the one that came first.
Currency(days) ==
  LET rows == InWindow(days)
      best == {k \in rows : \A j \in rows :
                 Net(OfCurrency(rows, charges[k].code)) >= Net(OfCurrency(rows, charges[j].code))}
  IN IF rows = {} THEN USD ELSE charges[Min(best)].code

CurrentRows(days) == OfCurrency(InWindow(days), Currency(days))
PreviousRows(days) == OfCurrency(InPrevious(days), Currency(days))

\* The days of each bar, counted back from today, oldest bar first.
BarSize(days) == IF days > WeeklyAbove THEN DaysPerBar ELSE 1
DaysOfBars(days) ==
  [b \in 1..((days + BarSize(days) - 1) \div BarSize(days)) |->
     {back \in 0..(days - 1) : (days - 1 - back) \div BarSize(days) = b - 1}]

On(h, daysBack) == h # Never /\ (DayOf(hour) - DayOf(h)) \in daysBack

Bar(current, daysBack) ==
  LET rows == {k \in current : On(charges[k].at, daysBack)} IN
  [gross |-> Gross(rows), refunded |-> Refunds(rows), cents |-> Net(rows),
   registered |-> {s \in Shops : ~shops[s].deleted /\ On(shops[s].createdAt, daysBack)},
   cancelled |-> {s \in Shops : subs[s].status = "canceled"
                                /\ On(subs[s].canceledAt, daysBack)}]
Bars(days) ==
  LET daysOf == DaysOfBars(days)
      current == CurrentRows(days)
  IN [b \in DOMAIN daysOf |-> Bar(current, daysOf[b])]

Rounded(n, d) == (2 * n + d) \div (2 * d)
HeightPercent(cents, busiest) ==
  IF busiest = 0 \/ cents <= 0 THEN 0 ELSE Max({2, Rounded(100 * cents, busiest)})

\* What a charge bought: the plan of its subscription, else of its workspace.
PlanBought(k) ==
  LET s == charges[k].shop IN IF charges[k].subscribed THEN subs[s].plan ELSE shops[s].plan
NetByPlan(days) ==
  [plan \in Catalogue |-> Net({k \in CurrentRows(days) : PlanBought(k) = plan})]

-----------------------------------------------------------------------------
(* axisCeiling, in hundredths of a cent: the first of 1, 2, 2.5, 5 and 10  *)
(* times the power of ten below a quarter of the highest that clears it.   *)

CHART_RULES == 4
tenTo[n \in Nat] == IF n = 0 THEN 1 ELSE 10 * tenTo[n - 1]
Magnitude(amount) ==
  tenTo[CHOOSE n \in 0..amount : tenTo[n] <= amount /\ amount < tenTo[n + 1]]
StepFor(rough) ==
  LET half == Magnitude(rough) \div 2
  IN half * Min({halves \in {2, 4, 5, 10, 20} : rough <= halves * half})
axisCeiling(highest) ==
  IF highest <= 0 THEN 10000
  ELSE ((StepFor((100 * highest) \div CHART_RULES) + 99) \div 100) * CHART_RULES

Highest(bars) ==
  Max({0} \cup UNION {{bars[b].gross, bars[b].refunded, bars[b].cents} : b \in DOMAIN bars})

-----------------------------------------------------------------------------
(* growth(): by calendar month.                                            *)

monthOf(h) == DayOf(h) \div DaysPerFigure
Succeeded == {k \in DOMAIN charges : charges[k].refunded = 0 /\ ~charges[k].disputed}

FirstPayment(s) == Min({k \in Succeeded : charges[k].shop = s})
FirstOfTheMonth(month) ==                                              \* mutant
  {k \in Succeeded : /\ monthOf(charges[k].at) = month
                     /\ \A j \in Succeeded :
                          charges[j].shop = charges[k].shop /\ monthOf(charges[j].at) = month => k <= j}
StartedPaying(month) ==
  {k \in Succeeded : k = FirstPayment(charges[k].shop) /\ monthOf(charges[k].at) = month}
Renewals(month) ==
  {k \in Succeeded : k # FirstPayment(charges[k].shop) /\ monthOf(charges[k].at) = month}

-----------------------------------------------------------------------------
(* The bars are the headline again, but for the money that came in on the  *)
(* window's first day after the hour it is now: the headline counts from   *)
(* this moment back, the bars by the day. A bar's net is never above what  *)
(* the busiest makes 100.                                                  *)
BarsAddUp ==
  \A days \in RANGE_DAYS :
    LET rows == CurrentRows(days)
        partDay == {k \in rows : DayOf(charges[k].at) = DayOf(hour) - days}
        bars == Bars(days)
        busiest == Max({0} \cup {bars[b].cents : b \in DOMAIN bars})
    IN /\ Total([b \in DOMAIN bars |-> bars[b].gross]) = Gross(rows) - Gross(partDay)
       /\ Total([b \in DOMAIN bars |-> bars[b].refunded]) = Refunds(rows) - Refunds(partDay)
       /\ Total([b \in DOMAIN bars |-> bars[b].cents]) = Net(rows) - Net(partDay)
       /\ \A b \in DOMAIN bars : HeightPercent(bars[b].cents, busiest) \in 0..100
       /\ \A b, c \in DOMAIN bars : b # c =>
            bars[b].registered \cap bars[c].registered = {}

(* Every charge of the currency in twice the window is in the figure or in *)
(* the one it is compared with, and not in both; and what each plan is     *)
(* said to have brought in adds up to the whole.                           *)
ComparedLikeWithLike ==
  \A days \in RANGE_DAYS :
    /\ Gross(CurrentRows(days)) + Gross(PreviousRows(days))
         = Gross({k \in DOMAIN charges : charges[k].code = Currency(days)
                                         /\ hour - charges[k].at <= 2 * days * HoursPerDay})
    /\ Total(NetByPlan(days)) = Net(CurrentRows(days))

\* 1, 2 or 5 and noughts.
Round(r) == r \in {1 * Magnitude(r), 2 * Magnitude(r), 5 * Magnitude(r)}

(* Nothing is drawn above the axis, and no lower round axis would have     *)
(* held it.                                                                *)
AxisFits ==
  \A days \in RANGE_DAYS :
    LET highest == Highest(Bars(days))
        top == axisCeiling(highest)
    IN /\ highest <= top
       /\ \A r \in 1..highest :
            Round(r) /\ CHART_RULES * r >= highest => top <= CHART_RULES * r

(* A workspace becomes a customer once: over all months there are as many  *)
(* beginnings as workspaces that have paid, and in each month a payment is *)
(* a beginning or a renewal, never both and never neither.                 *)
CustomersOnce ==
  LET months == 0..monthOf(MaxHours) IN
  /\ \A m \in months :
       /\ Cardinality(StartedPaying(m)) + Cardinality(Renewals(m))
            = Cardinality({k \in Succeeded : monthOf(charges[k].at) = m})
  /\ Total([m \in months |-> Cardinality(StartedPaying(m))])
       = Cardinality({charges[k].shop : k \in Succeeded})

(* The dashboard agrees with itself, whatever was sold, paid, returned and *)
(* disputed (metrics_service.ts).                                          *)
FiguresAgree == BarsAddUp /\ ComparedLikeWithLike /\ AxisFits /\ CustomersOnce

(* The same once there is anything to show.                                *)
FiguresHold == moves > 0 \/ charges # <<>> => FiguresAgree
=============================================================================
