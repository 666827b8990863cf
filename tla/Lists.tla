------------------------------- MODULE Lists -------------------------------
(***************************************************************************)
(* The lists of one workspace and the todos in them: the plan's limit on   *)
(* lists, todos_count beside the todos it counts, deletion of a list with  *)
(* everything in it, and the nightly job that recounts (list_service.ts,   *)
(* todo_service.ts, reconcile_counters_job.ts). A transaction that begins  *)
(* by locking the row it reads is one step; a count that locks another row *)
(* than it reads is a step before the insert.                              *)
(***************************************************************************)
EXTENDS Integers, FiniteSets

CONSTANTS
  MaxLists,         \* rows that may come to be, numbered as they are inserted
  MaxTodos,
  ListLimits,       \* limits a plan may set on lists
  Cap,              \* todosPerList
  Procs, Does,      \* requests and jobs, and what each of them does
  None

Kinds == {"create", "remove", "add", "drop", "recount"}

Lists == 1..MaxLists
Todos == 1..MaxTodos

ASSUME ListsAssumption ==
  /\ MaxLists \in Nat /\ MaxTodos \in Nat
  /\ ListLimits \subseteq Nat /\ ListLimits # {} /\ Cap \in Nat
  /\ Does \in [Procs -> SUBSET Kinds]
  /\ None \notin Procs /\ None \notin Lists /\ None \notin Todos

VARIABLES
  made, gone,       \* todo_lists rows, and those with deleted_at
  count,            \* their todos_count
  todos, dropped,   \* todos rows, and those with deleted_at
  inList,           \* todo_list_id
  listLimit,
  orgLock,          \* who has locked the workspace row
  at, kind,         \* where each request or job is, and what it is
  list, todo,       \* what it is about
  seen,             \* todos_count as it loaded it, or as it counted since
  rest,             \* lists the recount has still to look at
  suspect           \* lists whose counter was written by the recount, or for
                    \* a todo that was deleted already

tables == <<made, gone, count, todos, dropped, inList>>
request == <<kind, list, todo, seen, rest>>
vars == <<tables, listLimit, orgLock, at, request, suspect>>

liveLists == made \ gone
Live(l) == {t \in todos \ dropped : inList[t] = l}

Init ==
  /\ made = {} /\ gone = {}
  /\ count = [l \in Lists |-> 0]
  /\ todos = {} /\ dropped = {} /\ inList = [t \in Todos |-> None]
  /\ listLimit \in ListLimits
  /\ orgLock = None
  /\ at = [p \in Procs |-> "idle"] /\ kind = [p \in Procs |-> "none"]
  /\ list = [p \in Procs |-> None] /\ todo = [p \in Procs |-> None]
  /\ seen = [p \in Procs |-> [l \in Lists |-> 0]]
  /\ rest = [p \in Procs |-> {}]
  /\ suspect = {}

Begins(p, k, first) ==
  /\ at[p] = "idle" /\ k \in Does[p]
  /\ at' = [at EXCEPT ![p] = first]
  /\ kind' = [kind EXCEPT ![p] = k]

Ends(p) ==
  /\ at' = [at EXCEPT ![p] = "idle"]
  /\ kind' = [kind EXCEPT ![p] = "none"]
  /\ list' = [list EXCEPT ![p] = None] /\ todo' = [todo EXCEPT ![p] = None]
  /\ seen' = [seen EXCEPT ![p] = [l \in Lists |-> 0]]
  /\ rest' = [rest EXCEPT ![p] = {}]
  /\ orgLock' = IF orgLock = p THEN None ELSE orgLock

-----------------------------------------------------------------------------
(* Lists.                                                                  *)

\* MaxLists bounds the rows a behaviour has room for, as MaxTodos does.
RoomForList == Cardinality(made) + Cardinality({q \in Procs : kind[q] = "create"})
                 < Cardinality(Lists)

StartCreate(p) ==
  /\ RoomForList
  /\ Begins(p, "create", "lock")
  /\ UNCHANGED <<tables, listLimit, orgLock, list, todo, seen, rest, suspect>>

UnlockedCount(p) == TRUE                                               \* mutant
FreeToCount(p) == orgLock = None

\* lockAndAssertLimit; a name that is taken is a Kill here.
AssertLimit(p) ==
  /\ at[p] = "lock" /\ FreeToCount(p)
  /\ IF Cardinality(liveLists) < listLimit
     THEN /\ orgLock' = p
          /\ at' = [at EXCEPT ![p] = "insert"]
          /\ UNCHANGED request
     ELSE Ends(p)
  /\ UNCHANGED <<tables, listLimit, suspect>>

InsertList(p, l) ==
  /\ at[p] = "insert" /\ l = Cardinality(made) + 1
  /\ made' = made \cup {l}
  /\ Ends(p)
  /\ UNCHANGED <<gone, count, todos, dropped, inList, listLimit, suspect>>

\* Deleting stamps the todos its first statement finds, then the list.
StartRemove(p, l) ==
  /\ l \in liveLists
  /\ Begins(p, "remove", "remove")
  /\ list' = [list EXCEPT ![p] = l]
  /\ UNCHANGED <<tables, listLimit, orgLock, todo, seen, rest, suspect>>

RemoveList(p) ==
  /\ at[p] = "remove"
  /\ dropped' = dropped \cup Live(list[p])
  /\ gone' = gone \cup {list[p]}
  /\ Ends(p)
  /\ UNCHANGED <<made, count, todos, inList, listLimit, suspect>>

-----------------------------------------------------------------------------
(* Todos: the counter moves under the lock of the list's row.              *)

StartAdd(p, l) ==
  /\ l \in liveLists
  /\ Begins(p, "add", "add")
  /\ list' = [list EXCEPT ![p] = l]
  /\ UNCHANGED <<tables, listLimit, orgLock, todo, seen, rest, suspect>>

OneOver(l) == count[l] <= Cap                                          \* mutant
RoomIn(l) == count[l] < Cap

\* The list is looked up again by its id alone: it may be gone by now.
Add(p, t) ==
  /\ at[p] = "add" /\ t = Cardinality(todos) + 1
  /\ RoomIn(list[p])
  /\ todos' = todos \cup {t}
  /\ inList' = [inList EXCEPT ![t] = list[p]]
  /\ count' = [count EXCEPT ![list[p]] = @ + 1]
  /\ Ends(p)
  /\ UNCHANGED <<made, gone, dropped, listLimit, suspect>>

RefuseAdd(p) ==
  /\ at[p] = "add" /\ (~RoomIn(list[p]) \/ todos = Todos)
  /\ Ends(p)
  /\ UNCHANGED <<tables, listLimit, suspect>>

StartDrop(p, t) ==
  /\ t \in todos \ dropped
  /\ Begins(p, "drop", "drop")
  /\ todo' = [todo EXCEPT ![p] = t]
  /\ UNCHANGED <<tables, listLimit, orgLock, list, seen, rest, suspect>>

OneLess(n) == IF n > 0 THEN n - 1 ELSE 0

Drop(p) ==
  /\ at[p] = "drop"
  /\ dropped' = dropped \cup {todo[p]}
  /\ count' = [count EXCEPT ![inList[todo[p]]] = OneLess(@)]
  /\ Ends(p)
  /\ suspect' = IF todo[p] \in dropped THEN suspect \cup {inList[todo[p]]} ELSE suspect
  /\ UNCHANGED <<made, gone, todos, inList, listLimit>>

-----------------------------------------------------------------------------
(* The recount: the counters as loaded at the start of the night, each     *)
(* compared with a count of its own, and written if they differ.           *)

StartRecount(p) ==
  /\ liveLists # {}
  /\ Begins(p, "recount", "count")
  /\ seen' = [seen EXCEPT ![p] = count]
  /\ rest' = [rest EXCEPT ![p] = liveLists]
  /\ UNCHANGED <<tables, listLimit, orgLock, list, todo, suspect>>

NeverDiffers(l, loaded) == FALSE                                       \* mutant
Drifted(l, loaded) == Cardinality(Live(l)) # loaded

CountTodos(p, l) ==
  /\ at[p] = "count" /\ l \in rest[p]
  /\ IF Drifted(l, seen[p][l])
     THEN /\ at' = [at EXCEPT ![p] = "correct"]
          /\ list' = [list EXCEPT ![p] = l]
          /\ seen' = [seen EXCEPT ![p][l] = Cardinality(Live(l))]
     ELSE UNCHANGED <<at, list, seen>>
  /\ rest' = [rest EXCEPT ![p] = @ \ {l}]
  /\ UNCHANGED <<tables, listLimit, orgLock, kind, todo, suspect>>

Correct(p) ==
  /\ at[p] = "correct"
  /\ count' = [count EXCEPT ![list[p]] = seen[p][list[p]]]
  /\ suspect' = suspect \cup {list[p]}
  /\ at' = [at EXCEPT ![p] = "count"]
  /\ UNCHANGED <<made, gone, todos, dropped, inList, listLimit, orgLock, request>>

RecountDone(p) ==
  /\ at[p] = "count" /\ rest[p] = {}
  /\ Ends(p)
  /\ UNCHANGED <<tables, listLimit, suspect>>

-----------------------------------------------------------------------------
Replan(n) ==
  /\ orgLock = None /\ n # listLimit /\ listLimit' = n
  /\ UNCHANGED <<tables, orgLock, at, request, suspect>>

\* A process is killed, or its request refused for another reason than a limit
\* (a name that is taken, an assignee elsewhere); the transaction rolls back.
Kill(p) ==
  /\ at[p] # "idle" /\ kind[p] # "recount"
  /\ Ends(p)
  /\ UNCHANGED <<tables, listLimit, suspect>>

Step(p) ==
  \/ AssertLimit(p) \/ RemoveList(p) \/ RefuseAdd(p) \/ Drop(p)
  \/ Correct(p) \/ RecountDone(p)
  \/ \E l \in Lists : InsertList(p, l) \/ CountTodos(p, l)
  \/ \E t \in Todos : Add(p, t)

Start(p) ==
  \/ StartCreate(p)
  \/ \E l \in Lists : StartRemove(p, l) \/ StartAdd(p, l)
  \/ \E t \in Todos : StartDrop(p, t)
  \/ StartRecount(p)

Next ==
  \/ \E p \in Procs : Start(p) \/ Step(p) \/ Kill(p)
  \/ \E n \in ListLimits : Replan(n)

Spec == Init /\ [][Next]_vars

\* Requests are served to their end, and the recount runs every night.
Fairness ==
  /\ \A p \in Procs : WF_vars(Step(p))
  /\ WF_vars(\E p \in Procs : StartRecount(p))
FairSpec == Spec /\ Fairness

-----------------------------------------------------------------------------
(* A todo has a list, a counter is not negative (todo_service.ts).         *)
TypeOK ==
  /\ made \subseteq Lists /\ gone \subseteq made
  /\ count \in [Lists -> Nat]
  /\ todos \subseteq Todos /\ dropped \subseteq todos
  /\ inList \in [Todos -> Lists \cup {None}] /\ \A t \in todos : inList[t] \in made
  /\ listLimit \in ListLimits /\ orgLock \in Procs \cup {None}
  /\ at \in [Procs -> {"idle", "lock", "insert", "remove", "add", "drop",
                       "count", "correct"}]
  /\ kind \in [Procs -> Kinds \cup {"none"}]
  /\ list \in [Procs -> Lists \cup {None}] /\ todo \in [Procs -> Todos \cup {None}]
  /\ seen \in [Procs -> [Lists -> Nat]] /\ rest \in [Procs -> SUBSET Lists]
  /\ suspect \subseteq made

(* The plan's limit on lists is kept whatever is created at once, and a    *)
(* plan that shrinks in between is the one that counts.                    *)
ListQuota == INSTANCE Meter WITH Items <- Lists, Weight <- [l \in Lists |-> 1],
               Exempt <- {}, Limits <- ListLimits, items <- liveLists,
               meter <- Cardinality(liveLists), limit <- listLimit
ListsWithinPlan == ListQuota!Spec

(* The counter of a list counts its todos, and so the cap is kept: whatever *)
(* overlaps, only a todo deleted twice and a recount that was overtaken    *)
(* can part the two.                                                       *)
CountedAndCapped ==
  \A l \in liveLists \ suspect : count[l] = Cardinality(Live(l)) /\ count[l] <= Cap

(* Drift is not for ever: the recount has the last word, even over a write *)
(* of its own that was stale.                                              *)
CountsHeal == \A l \in Lists : <>[](l \in liveLists => count[l] = Cardinality(Live(l)))
=============================================================================
