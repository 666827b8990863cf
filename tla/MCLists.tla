------------------------------ MODULE MCLists ------------------------------
(***************************************************************************)
(* Small workspaces for TLC. In one part lists are made and todos deleted  *)
(* twice at once, beside the nightly recount; in another a list is kept in *)
(* order by one member who adds and drags while another deletes, beside    *)
(* the renumbering; in the third API clients set positions beside it; in   *)
(* the last two members tick what they add. A behaviour is in one of the   *)
(* parts from the start.                                                   *)
(***************************************************************************)
EXTENDS Lists, TodoOrder

CONSTANTS p1, p2, p3, m1, m2

BusyDoes ==
  [p \in {p1, p2, p3} |->
     CASE p = p1 -> {"create", "remove", "drop"}
       [] p = p2 -> {"create", "add", "drop"}
       [] OTHER  -> {"recount"}]

TwoHands == [m \in {m1, m2} |-> IF m = m1 THEN {"append", "drag"} ELSE {"delete"}]

Adding == \E m \in Members : StartAppend(m) \/ InsertTodo(m)

VARIABLE part

listsVars == <<part, vars, todoVars>>

ListsInit ==
  /\ part \in {"counters", "order", "numbers", "boxes"} /\ Init /\ TodoInit
  /\ part # "counters" => listLimit = 1

InCounters == part = "counters" /\ UNCHANGED <<part, todoVars>>

ListsNext ==
  \/ InCounters /\ Next
  \/ part = "order" /\ OrderNext /\ UNCHANGED <<part, vars>>
  \/ part = "numbers" /\ (Adding \/ NumberNext \/ SpreadNext) /\ UNCHANGED <<part, vars>>
  \/ part = "boxes" /\ (Adding \/ TickNext) /\ UNCHANGED <<part, vars>>

\* Requests about lists are served to their end, and the recount runs.
ListsFairness ==
  /\ \A p \in Procs : WF_listsVars(InCounters /\ Step(p))
  /\ WF_listsVars(InCounters /\ \E p \in Procs : StartRecount(p))

ListsSpec == ListsInit /\ [][ListsNext]_listsVars /\ ListsFairness
=============================================================================
