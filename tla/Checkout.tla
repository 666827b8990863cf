------------------------------ MODULE Checkout ------------------------------
(***************************************************************************)
(* From the button on the billing screen to a plan, and to the provider's  *)
(* portal: checkouts that a workspace starts, what the provider makes of   *)
(* them and tells by webhook, the rows the screens read, and portal visits *)
(* that fill in a customer the row lacks (billing_service.ts,              *)
(* billing_controller.ts, creem.ts). Webhooks come in any order and more   *)
(* than once, and are applied one at a time; what a handler that fails     *)
(* half way leaves is the subject of Billing.                              *)
(***************************************************************************)
EXTENDS Integers, FiniteSetsExt, Sequences, TLC

CONSTANTS
  Teams,          \* workspaces
  Sold,           \* paid plans with a product configured
  Unpriced,       \* a plan without a product
  Foreign,        \* a product that is no plan's
  MaxCheckouts, MaxNews, MaxSeconds,   \* bounds: checkouts, webhooks, time
  NoPortal

ASSUME CheckoutAssumption ==
  /\ Unpriced \notin Sold /\ Foreign \notin Sold
  /\ MaxCheckouts \in Nat /\ MaxNews \in Nat /\ MaxSeconds \in Nat

\* The provider's statuses and ours for them: one it never told us of is active.
STATUS_MAP ==
  [s \in {"incomplete", "trialing", "active", "past_due", "unpaid", "paused", "canceled",
          "expired", "renamed"} |->
     CASE s \in {"incomplete", "past_due", "unpaid"} -> "past_due"
       [] s = "renamed" -> "active"
       [] OTHER -> s]
ENTITLING_STATUSES == {"trialing", "active", "past_due"}

\* What the provider may make of a subscription, and of a checkout.
Follows ==
  ("open" :> {"incomplete", "active"}) @@ ("incomplete" :> {"active"})
  @@ ("active" :> {"active", "unpaid", "paused", "canceled", "renamed"})
  @@ ("unpaid" :> {"active", "canceled"}) @@ ("paused" :> {"active", "canceled"})
  @@ ("renamed" :> {"active"}) @@ ("canceled" :> {})

VARIABLES
  checkouts,   \* at the provider: of which workspace, what product, how it stands
  news,        \* webhooks sent
  bought,      \* the subscriptions table, in order of id
  teamPlan,    \* organizations.plan_key
  applying,    \* bought rows written, whose workspace's plan is not yet
  portal,      \* a portal visit: its step and the row as loaded
  seconds,
  toldLast     \* history: the webhook last written to each row

checkoutVars == <<checkouts, news, bought, teamPlan, applying, portal, seconds, toldLast>>

CheckoutInit ==
  /\ checkouts = <<>> /\ news = {} /\ bought = <<>>
  /\ teamPlan = [o \in Teams |-> "free"]
  /\ applying = {} /\ portal = NoPortal /\ seconds = 0
  /\ toldLast = <<>>

Second ==
  /\ seconds < MaxSeconds /\ seconds' = seconds + 1
  /\ UNCHANGED <<checkouts, news, bought, teamPlan, applying, portal, toldLast>>

-----------------------------------------------------------------------------
(* The screen and the provider.                                            *)

\* Neither the free plan nor one without a product is for sale. The session
\* carries the workspace, and nothing here changes.
startCheckout(o, plan) ==
  /\ plan # "free" /\ plan # Unpriced
  /\ Len(checkouts) < MaxCheckouts
  /\ checkouts' = Append(checkouts, [org |-> o, product |-> plan, status |-> "open"])
  /\ UNCHANGED <<news, bought, teamPlan, applying, portal, seconds, toldLast>>

\* A webhook about it: whole, or without the metadata and the customer. The
\* completion of a checkout has its metadata.
ProviderMoves(i, status, product, whole) ==
  LET c == checkouts[i] IN
  /\ status \in Follows[c.status]
  /\ c.status \in {"open", "incomplete"} => product = c.product
  /\ status # c.status \/ product # c.product
  /\ Cardinality(news) < MaxNews
  /\ checkouts' = [checkouts EXCEPT ![i].status = status, ![i].product = product]
  /\ news' = news \cup {[sub |-> i, status |-> status, product |-> product, at |-> seconds,
                         tagged |-> whole \/ (c.status # "active" /\ status = "active"),
                         customer |-> whole]}
  /\ UNCHANGED <<bought, teamPlan, applying, portal, seconds, toldLast>>

-----------------------------------------------------------------------------
(* A webhook applied.                                                      *)

RowsOf(i) == {k \in DOMAIN bought : bought[k].sub = i}
Recorded(e) == RowsOf(e.sub) # {}
Outdated(e) == \E k \in RowsOf(e.sub) : e.at < bought[k].updated

planKeyForProductId(product, before) == IF product \in Sold THEN product ELSE before

Rewritten(e, before) ==
  [sub |-> e.sub, org |-> before.org, status |-> STATUS_MAP[e.status],
   plan |-> planKeyForProductId(e.product, before.plan),
   customer |-> e.customer \/ before.customer, updated |-> seconds]

\* One that nothing attributes throws, to be tried again; an older one than the
\* row is dropped.
ApplyNews(e) ==
  /\ e \in news /\ applying = {}
  /\ Recorded(e) \/ e.tagged
  /\ ~Outdated(e)
  /\ IF Recorded(e)
     THEN LET k == CHOOSE k \in RowsOf(e.sub) : TRUE IN
          /\ bought' = [bought EXCEPT ![k] = Rewritten(e, bought[k])]
          /\ toldLast' = [toldLast EXCEPT ![k] = bought'[k]]
          /\ applying' = {k}
     ELSE LET row == Rewritten(e, [org |-> checkouts[e.sub].org, plan |-> "free",
                              customer |-> FALSE]) IN
          /\ bought' = Append(bought, row)
          /\ toldLast' = Append(toldLast, row)
          /\ applying' = {Len(bought) + 1}
  /\ UNCHANGED <<checkouts, news, teamPlan, portal, seconds>>

Entitles(row) == row.status \in ENTITLING_STATUSES
Earned(row) == IF Entitles(row) THEN row.plan ELSE "free"

syncEntitlement ==
  /\ \E k \in applying : teamPlan' = [teamPlan EXCEPT ![toldLast[k].org] = Earned(toldLast[k])]
  /\ applying' = {}
  /\ UNCHANGED <<checkouts, news, bought, portal, seconds, toldLast>>

-----------------------------------------------------------------------------
(* The portal: the newest row's customer, asked for when it is missing.    *)

TheirRows(o) == {k \in DOMAIN bought : bought[k].org = o}
activeSubscription(o) == Max(TheirRows(o))

startPortal(o) ==
  /\ portal = NoPortal /\ TheirRows(o) # {}
  /\ LET k == activeSubscription(o) IN
       portal' = [step |-> IF bought[k].customer THEN "open" ELSE "ask", at |-> k,
                  org |-> o, loaded |-> bought[k]]
  /\ UNCHANGED <<checkouts, news, bought, teamPlan, applying, seconds, toldLast>>

\* getSubscription(): told, or not found, without a customer, out of reach.
AskTheProvider ==
  /\ portal # NoPortal /\ portal.step = "ask"
  /\ portal' \in {[portal EXCEPT !.step = "save"], NoPortal}
  /\ UNCHANGED <<checkouts, news, bought, teamPlan, applying, seconds, toldLast>>

WholeRow(row, loaded) ==                                               \* mutant
  [loaded EXCEPT !.customer = TRUE, !.updated = seconds]
\* save() writes the column that changed and the time.
WithCustomer(row, loaded) == [row EXCEPT !.customer = TRUE, !.updated = seconds]

SaveCustomer ==
  /\ portal # NoPortal /\ portal.step = "save"
  /\ bought' = [bought EXCEPT ![portal.at] = WithCustomer(@, portal.loaded)]
  /\ portal' = [portal EXCEPT !.step = "open"]
  /\ UNCHANGED <<checkouts, news, teamPlan, applying, seconds, toldLast>>

LeavePortal ==
  /\ portal # NoPortal /\ portal.step = "open" /\ portal' = NoPortal
  /\ UNCHANGED <<checkouts, news, bought, teamPlan, applying, seconds, toldLast>>

CheckoutNext ==
  \/ Second \/ syncEntitlement \/ AskTheProvider \/ SaveCustomer \/ LeavePortal
  \/ \E o \in Teams :
       startPortal(o) \/ \E plan \in Sold \cup {Unpriced, "free"} : startCheckout(o, plan)
  \/ \E i \in DOMAIN checkouts, s \in DOMAIN STATUS_MAP, q \in Sold \cup {Foreign},
        whole \in BOOLEAN : ProviderMoves(i, s, q, whole)
  \/ \E e \in news : ApplyNews(e)

CheckoutSpec == CheckoutInit /\ [][CheckoutNext]_checkoutVars

-----------------------------------------------------------------------------
(* A visit to the portal, whatever webhooks land while the provider is     *)
(* asked, takes nothing back that a webhook wrote.                         *)
PortalTakesNothingBack ==
  \A k \in DOMAIN bought :
    LET row == bought[k] told == toldLast[k] IN
    /\ row.org = told.org /\ row.status = told.status /\ row.plan = told.plan
    /\ told.customer => row.customer

(* No workspace has a plan but one that the provider said a checkout of    *)
(* its own is for, whoever else buys what meanwhile: starting a checkout   *)
(* and coming back from it grant nothing.                                  *)
GrantedIsBought ==
  \A o \in Teams : teamPlan[o] # "free" =>
    \E e \in news :
      checkouts[e.sub].org = o /\ e.product = teamPlan[o]
      /\ \E f \in news : f.sub = e.sub /\ STATUS_MAP[f.status] \in ENTITLING_STATUSES

(* What the screen polls for and what the workspace may use agree, once a  *)
(* webhook is applied whole, as long as the workspace bought only once.    *)
ScreenAgrees ==
  \A o \in Teams :
    Cardinality(TheirRows(o)) = 1 /\ applying = {} =>
      teamPlan[o] = Earned(bought[activeSubscription(o)])

(* The portal that opens is for a subscription of the workspace, and one   *)
(* whose customer is known by then.                                        *)
PortalKnowsWhose ==
  portal # NoPortal /\ portal.step = "open" =>
    bought[portal.at].org = portal.org /\ bought[portal.at].customer

(* The four together (billing_service.ts, creem.ts).                       *)
CheckoutSafe ==
  PortalTakesNothingBack /\ GrantedIsBought /\ ScreenAgrees /\ PortalKnowsWhose
=============================================================================
