------------------------------ MODULE Payments ------------------------------
(***************************************************************************)
(* The money the provider says has moved, and the rows customers and staff *)
(* read it from: what becomes of a webhook about an order once it is in    *)
(* the ledger (webhook_handler.ts, creem.ts). Jobs run at least once, in   *)
(* any order and side by side, staff replay what they like, and a handler  *)
(* saves the row that it loaded. An amount is a few units; currency, dates *)
(* and links are left out. The tries of a job are the queue's to count, so *)
(* any may be its last.                                                    *)
(***************************************************************************)
EXTENDS Integers, FiniteSetsExt, Lucid

CONSTANTS
  Orders, Price,    \* the provider's orders, and what each was charged
  Tagged,           \* those whose events carry the workspace's public id
  Tills,            \* handlers under way at once
  MaxTroubles,      \* bound on what throws, is killed or is replayed
  NoPayment

PaymentStatuses == {"succeeded", "refunded", "partially_refunded", "disputed"}
PaymentRow == [amount : 0..Price, refunded : 0..Price, status : PaymentStatuses]

ASSUME PaymentsAssumption ==
  /\ Price \in Nat \ {0} /\ MaxTroubles \in Nat /\ Tagged \subseteq Orders
  /\ NoPayment \notin PaymentRow

\* Of the provider's thirteen types, those about an order, and ours for them.
CreemTypes == {"checkout.completed", "subscription.paid", "refund.created", "dispute.created"}
EventType ==
  [t \in CreemTypes |->
     CASE t = "checkout.completed" -> "subscription.activated"
       [] t = "subscription.paid" -> "payment.succeeded"
       [] t = "refund.created" -> "payment.refunded"
       [] t = "dispute.created" -> "dispute.created"]

\* toPayment: a refund says how much of the order has been given back so far,
\* and has no amount of its own.
MoneyEvents ==
  {[order |-> o, type |-> t, amount |-> Price, refunded |-> 0] :
     o \in Orders, t \in {"checkout.completed", "subscription.paid"}}
  \cup {[order |-> o, type |-> "refund.created", amount |-> 0, refunded |-> n] :
          o \in Orders, n \in 1..Price}
  \cup {[order |-> o, type |-> "dispute.created", amount |-> 0, refunded |-> 0] : o \in Orders}

IsRefund(e) == EventType[e.type] = "payment.refunded"
IsCharge(e) == EventType[e.type] = "payment.succeeded"
IsDispute(e) == EventType[e.type] = "dispute.created"

VARIABLES
  moneyJob,     \* the ledger row of each event and its job
  payment,      \* the payments table, by order
  subscribed,   \* the subscription of the orders is mirrored
  till,         \* where each handler is: step, event, replay or job, row as loaded
  troubles,
  posted,       \* history: events whose payment was saved
  mixed,        \* history: orders of which a stale row was saved
  receipts,     \* history: receipts sent, up to 2
  unsaid        \* history: orders entered by a refund, or whose handler was
                \* interrupted between row and receipt

moneyVars == <<moneyJob, payment, subscribed, till, troubles, posted, mixed, receipts, unsaid>>

Shut == [step |-> "idle", event |-> NoPayment, replay |-> FALSE, loaded |-> NoPayment]

MoneyInit ==
  /\ moneyJob = [e \in MoneyEvents |-> "none"]
  /\ payment = [o \in Orders |-> NoPayment]
  /\ subscribed = FALSE
  /\ till = [h \in Tills |-> Shut]
  /\ troubles = 0 /\ posted = {} /\ mixed = {} /\ unsaid = {}
  /\ receipts = [o \in Orders |-> 0]

Paid == {o \in Orders : payment[o] # NoPayment}
Trouble == troubles < MaxTroubles /\ troubles' = troubles + 1
Shuts(h) == till' = [till EXCEPT ![h] = Shut]

-----------------------------------------------------------------------------
(* The ledger and its jobs.                                                *)

\* A redelivery loses the insert on the event's id and changes nothing.
ReceiveMoneyEvent(e) ==
  /\ moneyJob[e] = "none"
  /\ moneyJob' = [moneyJob EXCEPT ![e] = "due"]
  /\ UNCHANGED <<payment, subscribed, till, troubles, posted, mixed, receipts, unsaid>>

MirrorSubscription ==
  /\ ~subscribed /\ subscribed' = TRUE
  /\ UNCHANGED <<moneyJob, payment, till, troubles, posted, mixed, receipts, unsaid>>

Opens(h, e, replay) ==
  /\ till[h] = Shut
  /\ till' = [till EXCEPT ![h] =
       [step |-> "find", event |-> e, replay |-> replay, loaded |-> NoPayment]]

RunMoneyJob(h, e) ==
  /\ moneyJob[e] = "due" /\ Opens(h, e, FALSE)
  /\ moneyJob' = [moneyJob EXCEPT ![e] = "running"]
  /\ UNCHANGED <<payment, subscribed, troubles, posted, mixed, receipts, unsaid>>

ReplayMoneyEvent(h, e) ==
  /\ moneyJob[e] # "none" /\ Opens(h, e, TRUE) /\ Trouble
  /\ UNCHANGED <<moneyJob, payment, subscribed, posted, mixed, receipts, unsaid>>

\* A throw or a kill: the job is due again, or parked if that was its last try.
Interrupted(h) ==
  LET e == till[h].event IN
  /\ moneyJob' \in IF till[h].replay THEN {moneyJob}
                   ELSE {[moneyJob EXCEPT ![e] = s] : s \in {"due", "parked"}}
  /\ unsaid' = IF till[h].step = "receipt" THEN unsaid \cup {e.order} ELSE unsaid
  /\ Shuts(h)

FailTill(h) ==
  /\ till[h] # Shut /\ Trouble /\ Interrupted(h)
  /\ UNCHANGED <<payment, subscribed, posted, mixed, receipts>>

-----------------------------------------------------------------------------
(* apply().                                                                *)

Attributable(o) == subscribed \/ o \in Tagged

\* The order a checkout brings along is for another event to record; an order
\* is loaded once its workspace is known, and a dispute asks for no workspace.
FindPayment(h) ==
  LET e == till[h].event IN
  /\ till[h].step = "find"
  /\ IF IsCharge(e) \/ IsRefund(e) THEN Attributable(e.order) ELSE TRUE
  /\ till' = [till EXCEPT
       ![h].loaded = payment[e.order],
       ![h].step = CASE IsCharge(e) \/ IsRefund(e) -> "save"
                     [] IsDispute(e) /\ e.order \in Paid -> "dispute"
                     [] OTHER -> "mark"]
  /\ UNCHANGED <<moneyJob, payment, subscribed, troubles, posted, mixed, receipts, unsaid>>

Unattributed(h) ==
  LET e == till[h].event IN
  /\ till[h].step = "find" /\ (IsCharge(e) \/ IsRefund(e)) /\ ~Attributable(e.order)
  /\ Trouble /\ Interrupted(h)
  /\ UNCHANGED <<payment, subscribed, posted, mixed, receipts>>

paymentStatus(amount, refunded) ==
  CASE refunded <= 0 -> "succeeded"
    [] refunded > 0 /\ refunded >= amount -> "refunded"
    [] refunded > 0 /\ refunded < amount -> "partially_refunded"

NewestFigure(e, before) == IF IsRefund(e) THEN e.refunded ELSE before  \* mutant
RefundedSoFar(e, before) == IF IsRefund(e) THEN Max({before, e.refunded}) ELSE before

AmountOf(e, before) == IF before # 0 THEN before ELSE e.amount

\* What the row is to hold, from the row that was loaded.
Reckoned(e, loaded) ==
  LET was == IF loaded = NoPayment THEN [amount |-> 0, refunded |-> 0] ELSE loaded
      amount == AmountOf(e, was.amount)
      refunded == RefundedSoFar(e, was.refunded)
  IN [amount |-> amount, refunded |-> refunded, status |-> paymentStatus(amount, refunded)]

OwesReceipt(e, loaded) == loaded = NoPayment /\ ~IsRefund(e)

NoteSave(h) ==
  LET e == till[h].event IN
  /\ posted' = posted \cup {e}
  /\ mixed' = IF till[h].loaded # payment[e.order] THEN mixed \cup {e.order} ELSE mixed

\* Two inserts of one order: the unique index refuses the second, which throws.
SavePayment(h) ==
  LET e == till[h].event
      loaded == till[h].loaded
      row == Reckoned(e, loaded)
  IN /\ till[h].step = "save"
     /\ loaded = NoPayment => e.order \notin Paid
     /\ payment' = [payment EXCEPT ![e.order] =
          IF loaded = NoPayment THEN row ELSE Saved(@, loaded, row)]
     /\ NoteSave(h)
     /\ till' = [till EXCEPT ![h].step = IF OwesReceipt(e, loaded) THEN "receipt" ELSE "mark"]
     /\ unsaid' = IF loaded = NoPayment /\ IsRefund(e) THEN unsaid \cup {e.order} ELSE unsaid
  /\ UNCHANGED <<moneyJob, subscribed, troubles, receipts>>

SecondInsert(h) ==
  /\ till[h].step = "save" /\ till[h].loaded = NoPayment /\ till[h].event.order \in Paid
  /\ Trouble /\ Interrupted(h)
  /\ UNCHANGED <<payment, subscribed, posted, mixed, receipts>>

SendReceipt(h) ==
  LET o == till[h].event.order IN
  /\ till[h].step = "receipt"
  /\ receipts' = [receipts EXCEPT ![o] = Min({@ + 1, 2})]
  /\ till' = [till EXCEPT ![h].step = "mark"]
  /\ UNCHANGED <<moneyJob, payment, subscribed, troubles, posted, mixed, unsaid>>

DisputePayment(h) ==
  LET o == till[h].event.order IN
  /\ till[h].step = "dispute"
  /\ payment' = [payment EXCEPT ![o] = Saved(@, till[h].loaded, [status |-> "disputed"])]
  /\ NoteSave(h)
  /\ till' = [till EXCEPT ![h].step = "mark"]
  /\ UNCHANGED <<moneyJob, subscribed, troubles, receipts, unsaid>>

MarkPosted(h) ==
  /\ till[h].step = "mark"
  /\ moneyJob' = IF till[h].replay THEN moneyJob
                 ELSE [moneyJob EXCEPT ![till[h].event] = "done"]
  /\ Shuts(h)
  /\ UNCHANGED <<payment, subscribed, troubles, posted, mixed, receipts, unsaid>>

-----------------------------------------------------------------------------

MoneyNext ==
  \/ \E e \in MoneyEvents : ReceiveMoneyEvent(e)
  \/ MirrorSubscription
  \/ \E h \in Tills :
       \/ \E e \in MoneyEvents : RunMoneyJob(h, e) \/ ReplayMoneyEvent(h, e)
       \/ FindPayment(h) \/ Unattributed(h) \/ SavePayment(h) \/ SecondInsert(h)
       \/ SendReceipt(h) \/ DisputePayment(h) \/ MarkPosted(h) \/ FailTill(h)

MoneySpec == MoneyInit /\ [][MoneyNext]_moneyVars

-----------------------------------------------------------------------------

MoneyTypeOK ==
  /\ \A o \in Orders : payment[o] \in PaymentRow \cup {NoPayment}
  /\ moneyJob \in [MoneyEvents -> {"none", "due", "running", "done", "parked"}]
  /\ \A h \in Tills : till[h].step \notin {"idle", "find", "mark"} =>
       till[h].loaded \in PaymentRow \cup {NoPayment}

PostedFor(o) == {e \in posted : e.order = o}

\* However refunds and charges are ordered, repeated or interrupted, a row has
\* the price once its charge is in, and the most the provider said was given
\* back, as long as no stale row was saved over it (applyPayment).
RowsAddUp ==
  \A o \in Paid :
    /\ payment[o].amount = IF \E e \in PostedFor(o) : IsCharge(e) THEN Price ELSE 0
    /\ o \notin mixed => payment[o].refunded = Max({0} \cup {e.refunded : e \in PostedFor(o)})

\* "A receipt for a charge, once": never two, and one if the charge was
\* entered, unless a refund came first or the handler was interrupted between
\* the row and the mail (applyPayment).
OneReceipt ==
  \A o \in Orders :
    /\ receipts[o] <= 1
    /\ \A e \in PostedFor(o) : IsCharge(e) =>
         \/ receipts[o] = 1 \/ o \in unsaid
         \/ \E h \in Tills : till[h].step = "receipt" /\ till[h].event.order = o

\* A status tells what became of the money, as far as no stale row was saved:
\* disputed only if it was, otherwise what the two amounts say (paymentStatus).
StatusTellsTheRest ==
  \A o \in Paid \ mixed :
    \/ payment[o].status = paymentStatus(payment[o].amount, payment[o].refunded)
    \/ payment[o].status = "disputed" /\ \E e \in PostedFor(o) : IsDispute(e)

\* What the rows of payments promise, at any moment (webhook_handler.ts).
PaymentsSafe == MoneyTypeOK /\ RowsAddUp /\ OneReceipt /\ StatusTellsTheRest

=============================================================================
