------------------------------ MODULE MCQueue ------------------------------
(***************************************************************************)
(* The queue on its own, three parts of billing whose webhooks are its     *)
(* jobs (what was paid, refunded and disputed, a plan bought from the      *)
(* billing screen, and what the dashboard makes of it all), and the calls  *)
(* the API counts and its nightly job adds up. They share no state here, a *)
(* job being run at least once in any order: a behaviour follows one of    *)
(* them, chosen at the start, and the others stay as they began.           *)
(***************************************************************************)
EXTENDS JobQueue, Payments, Checkout, Figures, ApiUsage

VARIABLE part

queueVars == <<part, vars, moneyVars, checkoutVars, figureVars, usageVars>>

QueueInit ==
  /\ part \in {"queue", "payments", "checkout", "figures", "usage"}
  /\ Init /\ MoneyInit /\ CheckoutInit /\ FiguresInit /\ UsageInit

QueueNext ==
  /\ UNCHANGED part
  /\ \/ part = "queue" /\ Next
        /\ UNCHANGED <<moneyVars, checkoutVars, figureVars, usageVars>>
     \/ part = "payments" /\ MoneyNext
        /\ UNCHANGED <<vars, checkoutVars, figureVars, usageVars>>
     \/ part = "checkout" /\ CheckoutNext
        /\ UNCHANGED <<vars, moneyVars, figureVars, usageVars>>
     \/ part = "figures" /\ FiguresNext
        /\ UNCHANGED <<vars, moneyVars, checkoutVars, usageVars>>
     \/ part = "usage" /\ UsageNext
        /\ UNCHANGED <<vars, moneyVars, checkoutVars, figureVars>>

QueueSpec == QueueInit /\ [][QueueNext]_queueVars
=============================================================================
