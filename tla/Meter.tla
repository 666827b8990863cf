------------------------------- MODULE Meter -------------------------------
(***************************************************************************)
(* What a plan limit promises, whatever it limits: a meter that moves with *)
(* the things it counts and only with them, and that nothing new takes     *)
(* past the limit in force. What is exempt is counted and never refused.   *)
(***************************************************************************)
EXTENDS Naturals

CONSTANTS Items, Weight, Exempt, Limits

VARIABLES items, meter, limit

Init == items = {} /\ meter = 0 /\ limit \in Limits

Fits(i) == i \in Exempt \/ meter + Weight[i] <= limit

Take(i) ==
  /\ i \in Items \ items /\ Fits(i)
  /\ items' = items \cup {i}
  /\ meter' = meter + Weight[i]
  /\ UNCHANGED limit

Release(i) ==
  /\ i \in items
  /\ items' = items \ {i}
  /\ meter' + Weight[i] = meter
  /\ UNCHANGED limit

\* A plan changes; what is already there stays.
Replan ==
  /\ limit' \in Limits
  /\ UNCHANGED <<items, meter>>

Next == Replan \/ \E i \in Items : Take(i) \/ Release(i)

Spec == Init /\ [][Next]_<<items, meter, limit>>
=============================================================================
