---------------------------- MODULE ListsProofs ----------------------------
(***************************************************************************)
(* Theorems about Lists for any number of lists, todos and requests, and   *)
(* about TodoOrder for any members, rows and gaps.                         *)
(***************************************************************************)
EXTENDS Lists, TodoOrder, TLAPS, FiniteSetTheorems, WellFoundedInduction

\* What a request knows is still there when it acts, and the one that has the
\* workspace locked counted room for its list.
Knows(p) ==
  /\ at[p] \in {"remove", "add", "correct"} => list[p] \in made
  /\ at[p] = "drop" => todo[p] \in todos
  /\ rest[p] \subseteq made
Guarded(p) ==
  /\ orgLock = p <=> at[p] = "insert"
  /\ at[p] = "insert" => Cardinality(liveLists) < listLimit
Numbered == made = 1..Cardinality(made) /\ todos = 1..Cardinality(todos)
ListInv == TypeOK /\ Numbered /\ \A p \in Procs : Knows(p) /\ Guarded(p)

USE ListsAssumption

LEMMA Sizes ==
  ASSUME ListInv
  PROVE  /\ IsFiniteSet(made) /\ Cardinality(made) \in Nat
         /\ IsFiniteSet(liveLists) /\ Cardinality(liveLists) \in Nat
         /\ IsFiniteSet(todos) /\ Cardinality(todos) \in Nat
         /\ \A l : IsFiniteSet(Live(l)) /\ Cardinality(Live(l)) \in Nat
<1>1. IsFiniteSet(Lists) /\ IsFiniteSet(Todos)
  BY FS_Interval DEF Lists, Todos
<1>2. IsFiniteSet(made) /\ IsFiniteSet(liveLists) /\ IsFiniteSet(todos)
  <2>1. made \subseteq Lists /\ liveLists \subseteq Lists /\ todos \subseteq Todos
    BY DEF ListInv, TypeOK, liveLists
  <2> QED BY <1>1, <2>1, FS_Subset
<1>3. ASSUME NEW l PROVE IsFiniteSet(Live(l))
  <2>1. Live(l) \subseteq Todos BY DEF ListInv, TypeOK, Live
  <2> QED BY <1>1, <2>1, FS_Subset
<1> QED BY <1>2, <1>3, FS_CardinalityType

\* A request that ends lets go of what it had and disturbs nobody.
LEMMA EndsSafe ==
  ASSUME ListInv, NEW p \in Procs, Ends(p)
  PROVE  /\ orgLock' \in Procs \cup {None}
         /\ at' \in [Procs -> {"idle", "lock", "insert", "remove", "add", "drop",
                               "count", "correct"}]
         /\ kind' \in [Procs -> Kinds \cup {"none"}]
         /\ list' \in [Procs -> Lists \cup {None}] /\ todo' \in [Procs -> Todos \cup {None}]
         /\ seen' \in [Procs -> [Lists -> Nat]] /\ rest' \in [Procs -> SUBSET Lists]
         /\ at'[p] = "idle" /\ rest'[p] = {}
         /\ \A q \in Procs \ {p} : /\ at'[q] = at[q] /\ list'[q] = list[q]
                                   /\ todo'[q] = todo[q] /\ rest'[q] = rest[q]
         /\ \A q \in Procs : orgLock' = q <=> at'[q] = "insert"
<1>1. [l \in Lists |-> 0] \in [Lists -> Nat] OBVIOUS
<1>2. seen' \in [Procs -> [Lists -> Nat]] BY <1>1 DEF Ends, ListInv, TypeOK
<1>3. at' \in [Procs -> {"idle", "lock", "insert", "remove", "add", "drop",
                         "count", "correct"}]
  BY DEF Ends, ListInv, TypeOK
<1>4. /\ kind' \in [Procs -> Kinds \cup {"none"}]
      /\ list' \in [Procs -> Lists \cup {None}] /\ todo' \in [Procs -> Todos \cup {None}]
      /\ rest' \in [Procs -> SUBSET Lists]
  BY DEF Ends, ListInv, TypeOK, Kinds
<1>5. /\ at'[p] = "idle" /\ rest'[p] = {}
      /\ \A q \in Procs \ {p} : /\ at'[q] = at[q] /\ list'[q] = list[q]
                                /\ todo'[q] = todo[q] /\ rest'[q] = rest[q]
  BY DEF Ends, ListInv, TypeOK
<1>6. orgLock' \in Procs \cup {None} /\ \A q \in Procs : orgLock' = q <=> at'[q] = "insert"
  BY <1>5 DEF Ends, ListInv, TypeOK, Guarded
<1> QED BY <1>2, <1>3, <1>4, <1>5, <1>6

\* A step that ends and leaves the rows alone.
LEMMA EndsOnly ==
  ASSUME ListInv, NEW p \in Procs, Ends(p), UNCHANGED <<tables, listLimit, suspect>>
  PROVE  ListInv'
<1>1. liveLists' = liveLists /\ UNCHANGED <<made, todos>> BY DEF tables, liveLists
<1>2. TypeOK' BY EndsSafe DEF ListInv, TypeOK, tables
<1>3. Numbered' BY <1>1 DEF ListInv, Numbered
<1>4. ASSUME NEW q \in Procs PROVE Knows(q)' /\ Guarded(q)'
  BY <1>1, EndsSafe DEF ListInv, Knows, Guarded
<1> QED BY <1>2, <1>3, <1>4 DEF ListInv

\* A request that starts: what it noted down is in the tables.
Notes(p) ==
  /\ at[p] \in {"lock", "remove", "add", "drop", "count"}
  /\ list \in [Procs -> Lists \cup {None}] /\ todo \in [Procs -> Todos \cup {None}]
  /\ seen \in [Procs -> [Lists -> Nat]] /\ rest \in [Procs -> SUBSET Lists]
  /\ Knows(p)

LEMMA BeginsType ==
  ASSUME ListInv, NEW p \in Procs, NEW k \in Kinds,
         NEW first \in {"lock", "remove", "add", "drop", "count"}, Begins(p, k, first)
  PROVE  /\ at' \in [Procs -> {"idle", "lock", "insert", "remove", "add", "drop",
                               "count", "correct"}]
         /\ kind' \in [Procs -> Kinds \cup {"none"}]
         /\ at[p] = "idle" /\ at'[p] = first
         /\ \A q \in Procs \ {p} : at'[q] = at[q]
BY DEF Begins, ListInv, TypeOK

LEMMA StartNotes ==
  ASSUME ListInv, NEW p \in Procs, Start(p)
  PROVE  /\ UNCHANGED <<made, gone, count, todos, dropped, inList, listLimit, orgLock, suspect>>
         /\ at' \in [Procs -> {"idle", "lock", "insert", "remove", "add", "drop",
                               "count", "correct"}]
         /\ kind' \in [Procs -> Kinds \cup {"none"}]
         /\ at[p] = "idle" /\ Notes(p)'
         /\ \A q \in Procs \ {p} : /\ at'[q] = at[q] /\ list'[q] = list[q]
                                   /\ todo'[q] = todo[q] /\ rest'[q] = rest[q]
<1> USE DEF ListInv, TypeOK, Notes, Knows, tables
<1>1. CASE StartCreate(p) BY <1>1, BeginsType DEF StartCreate, Kinds
<1>2. ASSUME NEW l \in Lists, StartRemove(p, l) \/ StartAdd(p, l)
      PROVE  /\ l \in made /\ list' = [list EXCEPT ![p] = l]
             /\ UNCHANGED <<made, gone, count, todos, dropped, inList, listLimit,
                            orgLock, suspect, todo, seen, rest>>
             /\ \E k \in Kinds, first \in {"remove", "add"} : Begins(p, k, first)
  BY <1>2 DEF StartRemove, StartAdd, Kinds, liveLists
<1>3. CASE \E l \in Lists : StartRemove(p, l) \/ StartAdd(p, l)
  <2>1. PICK l \in Lists : StartRemove(p, l) \/ StartAdd(p, l) BY <1>3
  <2>2. PICK k \in Kinds, first \in {"remove", "add"} : Begins(p, k, first)
    BY <2>1, <1>2
  <2>3. /\ at' \in [Procs -> {"idle", "lock", "insert", "remove", "add", "drop",
                              "count", "correct"}]
        /\ kind' \in [Procs -> Kinds \cup {"none"}]
        /\ at[p] = "idle" /\ at'[p] = first
        /\ \A q \in Procs \ {p} : at'[q] = at[q]
    BY <2>2, BeginsType
  <2> QED BY <2>1, <2>3, <1>2
<1>4. CASE \E t \in Todos : StartDrop(p, t) BY <1>4, BeginsType DEF StartDrop, Kinds
<1>5. CASE StartRecount(p) BY <1>5, BeginsType DEF StartRecount, Kinds, liveLists
<1> QED BY <1>1, <1>3, <1>4, <1>5 DEF Start

LEMMA StartSafe ==
  ASSUME ListInv, NEW p \in Procs, Start(p)
  PROVE  ListInv'
<1>1. liveLists' = liveLists BY StartNotes DEF liveLists
<1>2. TypeOK' BY StartNotes DEF ListInv, TypeOK, Notes
<1>3. Numbered' BY StartNotes DEF ListInv, Numbered
<1>4. ASSUME NEW q \in Procs PROVE Knows(q)' /\ Guarded(q)'
  BY <1>1, StartNotes DEF ListInv, Knows, Guarded, Notes
<1> QED BY <1>2, <1>3, <1>4 DEF ListInv

-----------------------------------------------------------------------------
\* One lemma per action that writes a row.
LEMMA InsertSafe ==
  ASSUME ListInv, NEW p \in Procs, NEW l \in Lists, InsertList(p, l)
  PROVE  ListInv' /\ l \notin made /\ Cardinality(liveLists) < listLimit
<1>1. /\ orgLock = p /\ Cardinality(liveLists) < listLimit
      /\ Ends(p) /\ l = Cardinality(made) + 1 /\ made' = made \cup {l}
      /\ UNCHANGED <<gone, count, todos, dropped, inList, listLimit, suspect>>
  BY DEF InsertList, ListInv, Guarded
<1>2. l \notin made /\ made' = 1..l /\ Cardinality(made') = l
  <2>1. made = 1..Cardinality(made) /\ Cardinality(made) \in Nat
    BY Sizes DEF ListInv, Numbered
  <2>2. l \notin made /\ made' = 1..l BY <1>1, <2>1
  <2>3. l \in Int /\ l >= 1 BY <1>1, <2>1
  <2>4. Cardinality(1..l) = l BY <2>3, FS_Interval
  <2> QED BY <2>2, <2>4
<1>3. TypeOK' BY <1>1, EndsSafe DEF ListInv, TypeOK
<1>4. Numbered' BY <1>1, <1>2 DEF ListInv, Numbered
<1>5. ASSUME NEW q \in Procs PROVE Knows(q)' /\ Guarded(q)'
  <2>1. at'[q] # "insert" BY <1>1, EndsSafe DEF ListInv, Guarded
  <2> QED BY <1>1, <2>1, EndsSafe DEF ListInv, Knows, Guarded
<1> QED BY <1>1, <1>2, <1>3, <1>4, <1>5 DEF ListInv

LEMMA RemoveSafe ==
  ASSUME ListInv, NEW p \in Procs, RemoveList(p)
  PROVE  ListInv'
<1>1. /\ list[p] \in made /\ at[p] # "insert"
      /\ Ends(p) /\ gone' = gone \cup {list[p]} /\ dropped' = dropped \cup Live(list[p])
      /\ UNCHANGED <<made, count, todos, inList, listLimit, suspect>>
  BY DEF RemoveList, ListInv, Knows
<1>2. TypeOK'
  <2>1. dropped' \subseteq todos' BY <1>1 DEF Live, ListInv, TypeOK
  <2> QED BY <1>1, <2>1, EndsSafe DEF ListInv, TypeOK
<1>3. Numbered' BY <1>1 DEF ListInv, Numbered
<1>4. Cardinality(liveLists') <= Cardinality(liveLists) /\ Cardinality(liveLists') \in Nat
  <2>1. liveLists' \subseteq liveLists BY <1>1 DEF liveLists
  <2> QED BY <2>1, Sizes, FS_Subset, FS_CardinalityType
<1>5. ASSUME NEW q \in Procs PROVE Knows(q)' /\ Guarded(q)'
  <2>1. listLimit \in Nat BY ListsAssumption DEF ListInv, TypeOK
  <2>2. Knows(q)' BY <1>1, EndsSafe DEF ListInv, Knows
  <2>3. at'[q] = "insert" => Cardinality(liveLists') < listLimit'
    BY <1>1, <1>4, <2>1, Sizes, EndsSafe DEF ListInv, Guarded
  <2> QED BY <1>1, <2>2, <2>3, EndsSafe DEF Guarded
<1> QED BY <1>2, <1>3, <1>5 DEF ListInv

LEMMA AddSafe ==
  ASSUME ListInv, NEW p \in Procs, NEW t \in Todos, Add(p, t)
  PROVE  ListInv' /\ t \notin todos /\ list[p] \in made
<1>1. /\ list[p] \in made /\ Ends(p) /\ t = Cardinality(todos) + 1
      /\ todos' = todos \cup {t} /\ inList' = [inList EXCEPT ![t] = list[p]]
      /\ count' = [count EXCEPT ![list[p]] = @ + 1]
      /\ UNCHANGED <<made, gone, dropped, listLimit, suspect>>
  BY DEF Add, ListInv, Knows
<1>2. t \notin todos /\ todos' = 1..t /\ Cardinality(todos') = t
  <2>1. todos = 1..Cardinality(todos) /\ Cardinality(todos) \in Nat
    BY Sizes DEF ListInv, Numbered
  <2>2. t \notin todos /\ todos' = 1..t BY <1>1, <2>1
  <2>3. t \in Int /\ t >= 1 BY <1>1, <2>1
  <2>4. Cardinality(1..t) = t BY <2>3, FS_Interval
  <2> QED BY <2>2, <2>4
<1>3. TypeOK' BY <1>1, EndsSafe DEF ListInv, TypeOK
<1>4. Numbered' BY <1>1, <1>2 DEF ListInv, Numbered
<1>5. liveLists' = liveLists BY <1>1 DEF liveLists
<1>6. ASSUME NEW q \in Procs PROVE Knows(q)' /\ Guarded(q)'
  BY <1>1, <1>5, EndsSafe DEF ListInv, Knows, Guarded
<1> QED BY <1>1, <1>2, <1>3, <1>4, <1>6 DEF ListInv

LEMMA DropSafe ==
  ASSUME ListInv, NEW p \in Procs, Drop(p)
  PROVE  ListInv' /\ todo[p] \in todos
<1>1. /\ todo[p] \in todos /\ Ends(p) /\ dropped' = dropped \cup {todo[p]}
      /\ count' = [count EXCEPT ![inList[todo[p]]] = OneLess(@)]
      /\ suspect' = IF todo[p] \in dropped THEN suspect \cup {inList[todo[p]]} ELSE suspect
      /\ UNCHANGED <<made, gone, todos, inList, listLimit>>
  BY DEF Drop, ListInv, Knows
<1>2. inList[todo[p]] \in made /\ suspect' \subseteq made BY <1>1 DEF ListInv, TypeOK
<1>3. count' \in [Lists -> Nat] BY <1>1, <1>2 DEF ListInv, TypeOK, OneLess
<1>4. TypeOK' BY <1>1, <1>2, <1>3, EndsSafe DEF ListInv, TypeOK
<1>5. Numbered' /\ liveLists' = liveLists BY <1>1 DEF ListInv, Numbered, liveLists
<1>6. ASSUME NEW q \in Procs PROVE Knows(q)' /\ Guarded(q)'
  BY <1>1, <1>5, EndsSafe DEF ListInv, Knows, Guarded
<1> QED BY <1>1, <1>4, <1>5, <1>6 DEF ListInv

LEMMA CorrectSafe ==
  ASSUME ListInv, NEW p \in Procs, Correct(p)
  PROVE  ListInv'
<1>1. /\ list[p] \in made /\ at[p] = "correct"
      /\ count' = [count EXCEPT ![list[p]] = seen[p][list[p]]]
      /\ suspect' = suspect \cup {list[p]} /\ at' = [at EXCEPT ![p] = "count"]
      /\ UNCHANGED <<made, gone, todos, dropped, inList, listLimit, orgLock,
                     kind, list, todo, seen, rest>>
  BY DEF Correct, ListInv, Knows, request
<1>2. TypeOK' BY <1>1 DEF ListInv, TypeOK
<1>3. Numbered' /\ liveLists' = liveLists BY <1>1 DEF ListInv, Numbered, liveLists
<1>4. ASSUME NEW q \in Procs PROVE Knows(q)' /\ Guarded(q)'
  BY <1>1, <1>3 DEF ListInv, TypeOK, Knows, Guarded
<1> QED BY <1>2, <1>3, <1>4 DEF ListInv

LEMMA CountSafe ==
  ASSUME ListInv, NEW p \in Procs, NEW l \in Lists, CountTodos(p, l)
  PROVE  ListInv'
<1>1. /\ at[p] = "count" /\ l \in rest[p] /\ l \in made
      /\ rest' = [rest EXCEPT ![p] = @ \ {l}]
      /\ UNCHANGED <<made, gone, count, todos, dropped, inList, listLimit, orgLock,
                     kind, todo, suspect>>
  BY DEF CountTodos, ListInv, Knows, tables
<1>2. \/ UNCHANGED <<at, list, seen>>
      \/ /\ at' = [at EXCEPT ![p] = "correct"] /\ list' = [list EXCEPT ![p] = l]
         /\ seen' = [seen EXCEPT ![p][l] = Cardinality(Live(l))]
  BY DEF CountTodos
<1>3. rest' \in [Procs -> SUBSET Lists] BY <1>1 DEF ListInv, TypeOK
<1>4. seen' \in [Procs -> [Lists -> Nat]]
  <2>1. Cardinality(Live(l)) \in Nat /\ seen \in [Procs -> [Lists -> Nat]]
    BY Sizes DEF ListInv, TypeOK
  <2>2. [seen[p] EXCEPT ![l] = Cardinality(Live(l))] \in [Lists -> Nat] BY <2>1
  <2>3. \/ seen' = seen
        \/ seen' = [seen EXCEPT ![p] = [seen[p] EXCEPT ![l] = Cardinality(Live(l))]]
    BY <1>2
  <2> QED BY <2>1, <2>2, <2>3
<1>5. /\ at' \in [Procs -> {"idle", "lock", "insert", "remove", "add", "drop",
                            "count", "correct"}]
      /\ list' \in [Procs -> Lists \cup {None}]
  <2>1. \/ at' = at /\ list' = list
        \/ at' = [at EXCEPT ![p] = "correct"] /\ list' = [list EXCEPT ![p] = l]
    BY <1>2
  <2>2. l \in Lists \cup {None} OBVIOUS
  <2>3. at' \in [Procs -> {"idle", "lock", "insert", "remove", "add", "drop",
                           "count", "correct"}]
    BY <2>1 DEF ListInv, TypeOK
  <2>4. list' \in [Procs -> Lists \cup {None}] BY <2>1, <2>2 DEF ListInv, TypeOK
  <2> QED BY <2>3, <2>4
<1>6. TypeOK' BY <1>1, <1>3, <1>4, <1>5 DEF ListInv, TypeOK
<1>7. Numbered' /\ liveLists' = liveLists BY <1>1 DEF ListInv, Numbered, liveLists
<1>8. ASSUME NEW q \in Procs PROVE Knows(q)' /\ Guarded(q)'
  BY <1>1, <1>2, <1>7 DEF ListInv, TypeOK, Knows, Guarded
<1> QED BY <1>6, <1>7, <1>8 DEF ListInv

LEMMA LimitSafe ==
  ASSUME ListInv, NEW p \in Procs, AssertLimit(p)
  PROVE  ListInv'
<1>1. CASE Cardinality(liveLists) < listLimit
  <2>1. /\ orgLock = None /\ orgLock' = p /\ at' = [at EXCEPT ![p] = "insert"]
        /\ at[p] = "lock"
        /\ UNCHANGED <<made, gone, count, todos, dropped, inList, listLimit, suspect,
                       kind, list, todo, seen, rest>>
    BY <1>1 DEF AssertLimit, FreeToCount, tables, request
  <2>2. TypeOK' BY <2>1 DEF ListInv, TypeOK
  <2>3. Numbered' /\ liveLists' = liveLists BY <2>1 DEF ListInv, Numbered, liveLists
  <2>4. ASSUME NEW q \in Procs PROVE Knows(q)' /\ Guarded(q)'
    BY <1>1, <2>1, <2>3, ListsAssumption DEF ListInv, TypeOK, Knows, Guarded
  <2> QED BY <2>2, <2>3, <2>4 DEF ListInv
<1>2. CASE ~ (Cardinality(liveLists) < listLimit) BY <1>2, EndsOnly DEF AssertLimit
<1> QED BY <1>1, <1>2

LEMMA ReplanSafe ==
  ASSUME ListInv, NEW n \in ListLimits, Replan(n)
  PROVE  ListInv'
<1>1. /\ orgLock = None /\ listLimit' = n
      /\ UNCHANGED <<made, gone, count, todos, dropped, inList, orgLock, at, suspect,
                     kind, list, todo, seen, rest>>
  BY DEF Replan, tables, request
<1>2. TypeOK' BY <1>1 DEF ListInv, TypeOK
<1>3. Numbered' BY <1>1 DEF ListInv, Numbered
<1>4. ASSUME NEW q \in Procs PROVE Knows(q)' /\ Guarded(q)'
  BY <1>1, ListsAssumption DEF ListInv, Knows, Guarded
<1> QED BY <1>2, <1>3, <1>4 DEF ListInv

-----------------------------------------------------------------------------
LEMMA InitKeeps == Init => ListInv
<1> SUFFICES ASSUME Init PROVE ListInv OBVIOUS
<1>1. TypeOK BY ListsAssumption DEF Init, TypeOK
<1>2. Numbered
  <2>1. Cardinality({}) = 0 /\ 1..0 = {} BY FS_EmptySet
  <2> QED BY <2>1 DEF Init, Numbered
<1>3. \A p \in Procs : Knows(p) /\ Guarded(p) BY ListsAssumption DEF Init, Knows, Guarded
<1> QED BY <1>1, <1>2, <1>3 DEF ListInv

LEMMA StepKeeps == ListInv /\ [Next]_vars => ListInv'
<1> SUFFICES ASSUME ListInv, [Next]_vars PROVE ListInv' OBVIOUS
<1>1. ASSUME NEW p \in Procs, Start(p) PROVE ListInv' BY <1>1, StartSafe
<1>2. ASSUME NEW p \in Procs, Step(p) PROVE ListInv'
  <2>1. ASSUME RefuseAdd(p) \/ RecountDone(p) PROVE ListInv'
    BY <2>1, EndsOnly DEF RefuseAdd, RecountDone
  <2> QED BY <1>2, <2>1, LimitSafe, RemoveSafe, DropSafe, CorrectSafe, InsertSafe,
             CountSafe, AddSafe DEF Step
<1>3. ASSUME NEW p \in Procs, Kill(p) PROVE ListInv' BY <1>3, EndsOnly DEF Kill
<1>4. ASSUME NEW n \in ListLimits, Replan(n) PROVE ListInv' BY <1>4, ReplanSafe
<1>5. CASE UNCHANGED vars
  BY <1>5 DEF vars, tables, request, ListInv, TypeOK, Numbered, Knows, Guarded, liveLists
<1> QED BY <1>1, <1>2, <1>3, <1>4, <1>5 DEF Next

(* The lists, todos and counters of a workspace keep their types: a todo   *)
(* always has a list and no counter is ever negative (todo_service.ts),    *)
(* whatever overlaps, is killed or is recounted.                           *)
THEOREM TypesHold == Spec => []TypeOK
<1>1. Spec => []ListInv BY InitKeeps, StepKeeps, PTL DEF Spec
<1>2. ListInv => TypeOK BY DEF ListInv
<1> QED BY <1>1, <1>2, PTL

-----------------------------------------------------------------------------
\* The counter of a list: nought before it is inserted, right from then on.
CountedIn(l) ==
  /\ l \notin made => count[l] = 0
  /\ l \in liveLists \ suspect => count[l] = Cardinality(Live(l)) /\ count[l] <= Cap
CountInv == \A l \in Lists : CountedIn(l)

\* What leaves the rows a counter depends on alone leaves it right.
LEMMA CountedElsewhere ==
  ASSUME NEW l \in Lists, CountedIn(l), made' = made, l \in liveLists' => l \in liveLists,
         l \in suspect => l \in suspect',
         l \in liveLists' \ suspect' => Live(l)' = Live(l) /\ count'[l] = count[l],
         l \notin made => count'[l] = count[l]
  PROVE  CountedIn(l)'
BY DEF CountedIn

LEMMA InsertCounts ==
  ASSUME ListInv, CountInv, NEW p \in Procs, NEW l \in Lists, InsertList(p, l)
  PROVE  CountInv'
<1>1. /\ l \notin made /\ made' = made \cup {l}
      /\ UNCHANGED <<gone, count, todos, dropped, inList, suspect>>
  BY InsertSafe DEF InsertList
<1>2. count[l] = 0 BY <1>1 DEF CountInv, CountedIn
<1>3. Live(l) = {} BY <1>1 DEF Live, ListInv, TypeOK
<1>4. CountedIn(l)'
  <2>1. Live(l)' = {} /\ count'[l] = 0 BY <1>1, <1>2, <1>3 DEF Live
  <2>2. Cardinality(Live(l)') = 0 BY <2>1, FS_EmptySet
  <2> QED BY <1>1, <2>1, <2>2, ListsAssumption DEF CountedIn
<1>5. ASSUME NEW k \in Lists \ {l} PROVE CountedIn(k)'
  <2>1. Live(k)' = Live(k) /\ (k \in liveLists' => k \in liveLists)
    BY <1>1 DEF Live, liveLists
  <2> QED BY <1>1, <2>1 DEF CountInv, CountedIn
<1> QED BY <1>4, <1>5 DEF CountInv

LEMMA RemoveCounts ==
  ASSUME ListInv, CountInv, NEW p \in Procs, RemoveList(p)
  PROVE  CountInv'
<1>1. /\ gone' = gone \cup {list[p]} /\ dropped' = dropped \cup Live(list[p])
      /\ UNCHANGED <<made, count, todos, inList, suspect>>
  BY DEF RemoveList
<1>2. ASSUME NEW k \in Lists PROVE CountedIn(k)'
  <2>1. k \in liveLists' => k \in liveLists /\ k # list[p] BY <1>1 DEF liveLists
  <2>2. k # list[p] => Live(k)' = Live(k) BY <1>1 DEF Live
  <2> QED BY <1>1, <1>2, <2>1, <2>2, CountedElsewhere DEF CountInv
<1> QED BY <1>2 DEF CountInv

LEMMA AddCounts ==
  ASSUME ListInv, CountInv, NEW p \in Procs, NEW t \in Todos, Add(p, t)
  PROVE  CountInv'
<1>1. PICK l \in Lists : l = list[p] BY AddSafe DEF ListInv, TypeOK
<1>2. /\ t \notin todos /\ l \in made /\ count[l] < Cap
      /\ todos' = todos \cup {t} /\ inList' = [inList EXCEPT ![t] = l]
      /\ count' = [count EXCEPT ![l] = @ + 1]
      /\ UNCHANGED <<made, gone, dropped, suspect>>
  BY <1>1, AddSafe DEF Add, RoomIn
<1>3. count \in [Lists -> Nat] /\ t \notin dropped /\ todos \subseteq Todos
      /\ inList \in [Todos -> Lists \cup {None}] /\ liveLists' = liveLists
  BY <1>2 DEF ListInv, TypeOK, liveLists
<1>4. ASSUME NEW k \in Lists \ {l} PROVE CountedIn(k)'
  <2>1. Live(k)' = Live(k) BY <1>2, <1>3 DEF Live
  <2>2. count'[k] = count[k] BY <1>2, <1>3
  <2> QED BY <1>2, <1>3, <2>1, <2>2, CountedElsewhere DEF CountInv
<1>5. CountedIn(l)'
  <2>1. Live(l)' = Live(l) \cup {t} /\ t \notin Live(l) BY <1>2, <1>3 DEF Live
  <2>2. Cardinality(Live(l)') = Cardinality(Live(l)) + 1 BY <2>1, Sizes, FS_AddElement
  <2>3. count'[l] = count[l] + 1 /\ count[l] \in Nat BY <1>2, <1>3
  <2>4. count'[l] <= Cap BY <1>2, <2>3, ListsAssumption
  <2>5. l \in liveLists' \ suspect' => count'[l] = Cardinality(Live(l)')
    BY <1>2, <1>3, <2>2, <2>3 DEF CountInv, CountedIn
  <2> QED BY <1>2, <2>4, <2>5 DEF CountedIn
<1> QED BY <1>4, <1>5 DEF CountInv

LEMMA DropCounts ==
  ASSUME ListInv, CountInv, NEW p \in Procs, Drop(p)
  PROVE  CountInv'
<1>1. PICK l \in Lists : l = inList[todo[p]] BY DropSafe DEF ListInv, TypeOK
<1>2. PICK t \in todos : t = todo[p] BY DropSafe
<1>3. /\ l = inList[t] /\ dropped' = dropped \cup {t}
      /\ count' = [count EXCEPT ![l] = OneLess(@)]
      /\ suspect' = IF t \in dropped THEN suspect \cup {l} ELSE suspect
      /\ UNCHANGED <<made, gone, todos, inList>>
  BY <1>1, <1>2 DEF Drop
<1>4. l \in made /\ count \in [Lists -> Nat] /\ liveLists' = liveLists
  BY <1>3 DEF ListInv, TypeOK, liveLists
<1>5. ASSUME NEW k \in Lists \ {l} PROVE CountedIn(k)'
  <2>1. Live(k)' = Live(k) BY <1>3 DEF Live
  <2>2. count'[k] = count[k] BY <1>3, <1>4
  <2> QED BY <1>3, <1>4, <2>1, <2>2, CountedElsewhere DEF CountInv
<1>6. CountedIn(l)'
  <2>1. CASE t \in dropped BY <1>3, <1>4, <2>1 DEF CountedIn
  <2>2. CASE t \notin dropped
    <3>1. Live(l)' = Live(l) \ {t} /\ t \in Live(l) BY <1>3, <2>2 DEF Live
    <3>2. Cardinality(Live(l)') = Cardinality(Live(l)) - 1
      BY <3>1, Sizes, FS_RemoveElement
    <3>3. Cardinality(Live(l)) \in Nat /\ Cardinality(Live(l)') \in Nat
      <4>1. IsFiniteSet(Live(l)') BY <3>1, Sizes, FS_RemoveElement
      <4> QED BY <4>1, Sizes, FS_CardinalityType
    <3>4. count'[l] = OneLess(count[l]) /\ count[l] \in Nat BY <1>3, <1>4
    <3>5. l \in liveLists' \ suspect'
            => count[l] = Cardinality(Live(l)) /\ count[l] <= Cap
      BY <1>3, <1>4, <2>2 DEF CountInv, CountedIn
    <3>6. l \in liveLists' \ suspect'
            => count'[l] = Cardinality(Live(l)') /\ count'[l] <= Cap
      BY <3>2, <3>3, <3>4, <3>5, ListsAssumption DEF OneLess
    <3> QED BY <1>3, <1>4, <3>6 DEF CountedIn
  <2> QED BY <2>1, <2>2
<1> QED BY <1>5, <1>6 DEF CountInv

LEMMA CorrectCounts ==
  ASSUME ListInv, CountInv, NEW p \in Procs, Correct(p)
  PROVE  CountInv'
<1>1. /\ list[p] \in made /\ suspect' = suspect \cup {list[p]}
      /\ count' = [count EXCEPT ![list[p]] = seen[p][list[p]]]
      /\ UNCHANGED <<made, gone, todos, dropped, inList>>
  BY DEF Correct, ListInv, Knows
<1>2. count \in [Lists -> Nat] /\ liveLists' = liveLists
  BY <1>1 DEF ListInv, TypeOK, liveLists
<1>3. ASSUME NEW k \in Lists PROVE CountedIn(k)'
  <2>1. Live(k)' = Live(k) BY <1>1 DEF Live
  <2>2. CASE k = list[p] BY <1>1, <2>2 DEF CountedIn
  <2>3. CASE k # list[p]
    <3>1. count'[k] = count[k] BY <1>1, <1>2, <2>3
    <3> QED BY <1>1, <1>2, <2>1, <3>1, CountedElsewhere DEF CountInv
  <2> QED BY <2>2, <2>3
<1> QED BY <1>3 DEF CountInv

LEMMA CountsKept == ListInv /\ CountInv /\ [Next]_vars => CountInv'
<1> SUFFICES ASSUME ListInv, CountInv, [Next]_vars PROVE CountInv' OBVIOUS
<1>1. ASSUME UNCHANGED <<tables, suspect>> PROVE CountInv'
  BY <1>1 DEF CountInv, CountedIn, tables, liveLists, Live
<1>2. ASSUME NEW p \in Procs, Start(p) PROVE CountInv'
  BY <1>1, <1>2 DEF Start, StartCreate, StartRemove, StartAdd, StartDrop, StartRecount
<1>3. ASSUME NEW p \in Procs, Step(p) PROVE CountInv'
  <2>1. ASSUME \/ AssertLimit(p) \/ RefuseAdd(p) \/ RecountDone(p)
               \/ \E l \in Lists : CountTodos(p, l)
        PROVE  CountInv'
    BY <1>1, <2>1 DEF AssertLimit, RefuseAdd, RecountDone, CountTodos
  <2> QED BY <1>3, <2>1, RemoveCounts, DropCounts, CorrectCounts, InsertCounts,
             AddCounts DEF Step
<1>4. ASSUME NEW p \in Procs, Kill(p) PROVE CountInv' BY <1>1, <1>4 DEF Kill
<1>5. ASSUME NEW n \in ListLimits, Replan(n) PROVE CountInv' BY <1>1, <1>5 DEF Replan
<1>6. CASE UNCHANGED vars BY <1>1, <1>6 DEF vars
<1> QED BY <1>2, <1>3, <1>4, <1>5, <1>6 DEF Next

(* The counter of a list counts its todos and keeps the cap, for any       *)
(* number of lists, todos, caps and overlapping requests, unless a todo of *)
(* the list was deleted twice or the recount wrote it (todo_service.ts).   *)
THEOREM CountsHold == Spec => []CountedAndCapped
<1>1. Spec => []ListInv BY InitKeeps, StepKeeps, PTL DEF Spec
<1>2. Init => CountInv
  <2> SUFFICES ASSUME Init, NEW l \in Lists PROVE CountedIn(l) BY DEF CountInv
  <2> QED BY DEF Init, CountedIn, liveLists
<1>3. ListInv /\ CountInv => CountedAndCapped
  BY DEF CountInv, CountedIn, CountedAndCapped, ListInv, TypeOK, liveLists
<1> QED BY <1>1, <1>2, <1>3, CountsKept, PTL DEF Spec

-----------------------------------------------------------------------------
\* What the lists do to the meter: nothing, unless one is inserted or deleted.
LEMMA ListMeterStep == ListInv /\ [Next]_vars =>
  [ListQuota!Next]_<<liveLists, Cardinality(liveLists), listLimit>>
<1> SUFFICES ASSUME ListInv, [Next]_vars
             PROVE  [ListQuota!Next]_<<liveLists, Cardinality(liveLists), listLimit>>
  OBVIOUS
<1> DEFINE Metered == [ListQuota!Next]_<<liveLists, Cardinality(liveLists), listLimit>>
<1>1. ASSUME liveLists' = liveLists, listLimit' = listLimit PROVE Metered
  BY <1>1
<1>2. ASSUME NEW p \in Procs, NEW l \in Lists, InsertList(p, l) PROVE Metered
  <2>1. /\ l \notin made /\ made' = made \cup {l} /\ gone' = gone /\ listLimit' = listLimit
        /\ Cardinality(liveLists) < listLimit
    BY <1>2, InsertSafe DEF InsertList
  <2>2. l \notin liveLists /\ liveLists' = liveLists \cup {l}
    BY <2>1 DEF liveLists, ListInv, TypeOK
  <2>3. Cardinality(liveLists') = Cardinality(liveLists) + 1
    BY <2>2, Sizes, FS_AddElement
  <2>4. Cardinality(liveLists) + 1 <= listLimit
    <3>1. listLimit \in Nat BY ListsAssumption DEF ListInv, TypeOK
    <3>2. Cardinality(liveLists) \in Nat BY Sizes
    <3> QED BY <2>1, <3>1, <3>2
  <2>5. ListQuota!Take(l)
    BY <2>1, <2>2, <2>3, <2>4 DEF ListQuota!Take, ListQuota!Fits
  <2> QED BY <2>5 DEF ListQuota!Next
<1>3. ASSUME NEW p \in Procs, RemoveList(p) PROVE Metered
  <2>1. PICK l \in Lists : l = list[p] BY <1>3 DEF RemoveList, ListInv, Knows, TypeOK
  <2>2. gone' = gone \cup {l} /\ UNCHANGED <<made, listLimit>> BY <1>3, <2>1 DEF RemoveList
  <2>3. liveLists' = liveLists \ {l} BY <2>2 DEF liveLists
  <2>4. CASE l \notin liveLists BY <1>1, <2>2, <2>3, <2>4
  <2>5. CASE l \in liveLists
    <3>1. Cardinality(liveLists') = Cardinality(liveLists) - 1
      BY <2>3, <2>5, Sizes, FS_RemoveElement
    <3>2. Cardinality(liveLists') + 1 = Cardinality(liveLists) BY <3>1, Sizes
    <3>3. ListQuota!Release(l) BY <2>2, <2>3, <2>5, <3>2 DEF ListQuota!Release
    <3> QED BY <3>3 DEF ListQuota!Next
  <2> QED BY <2>4, <2>5
<1>4. ASSUME NEW n \in ListLimits, Replan(n) PROVE Metered
  <2>1. listLimit' \in ListLimits /\ liveLists' = liveLists
    BY <1>4 DEF Replan, tables, liveLists
  <2> QED BY <2>1 DEF ListQuota!Next, ListQuota!Replan
<1>5. ASSUME NEW p \in Procs, UNCHANGED <<made, gone, listLimit>> PROVE Metered
  BY <1>1, <1>5 DEF liveLists
<1>6. ASSUME NEW p \in Procs, Start(p) \/ Kill(p) PROVE Metered
  BY <1>5, <1>6 DEF Start, Kill, StartCreate, StartRemove, StartAdd, StartDrop,
     StartRecount, tables
<1>7. ASSUME NEW p \in Procs, Step(p) PROVE Metered
  <2>1. ASSUME \/ AssertLimit(p) \/ RefuseAdd(p) \/ Drop(p) \/ Correct(p)
               \/ RecountDone(p) \/ (\E l \in Lists : CountTodos(p, l))
               \/ (\E t \in Todos : Add(p, t))
        PROVE  Metered
    BY <1>5, <2>1 DEF AssertLimit, RefuseAdd, Drop, Correct, RecountDone, CountTodos,
       Add, tables
  <2> QED BY <1>2, <1>3, <1>7, <2>1 DEF Step
<1>8. CASE UNCHANGED vars BY <1>1, <1>8 DEF vars, tables, liveLists
<1> QED BY <1>4, <1>6, <1>7, <1>8 DEF Next

(* Creating and deleting lists implements a plan limit: for any limits,    *)
(* changed at any moment, and any number of requests at once, no list is   *)
(* made beyond the limit then in force (list_service.ts, plan_service.ts). *)
THEOREM ListsImplementMeter == Spec => ListsWithinPlan
<1>1. Spec => []ListInv BY InitKeeps, StepKeeps, PTL DEF Spec
<1>2. Init => ListQuota!Init
  <2>1. Cardinality({}) = 0 BY FS_EmptySet
  <2> QED BY <2>1 DEF Init, ListQuota!Init, liveLists
<1> QED BY <1>1, <1>2, ListMeterStep, PTL DEF Spec, ListsWithinPlan, ListQuota!Spec

HIDE ListsAssumption

-----------------------------------------------------------------------------
(* The boxes. What is ticked is ticked by somebody, in every row and in    *)
(* what every request loaded; and a tick that is saved writes both columns *)
(* or finds both as it wants them.                                         *)

TickRow == {r \in [at : BOOLEAN, by : Members \cup {Nobody}] : r.at <=> r.by # Nobody}
HandSteps == {"idle", "drag", "drop", "insert", "tick"}
HandRow(S) == [step : HandSteps, todo : S, before : S, after : S, to : S,
               loaded : TickRow, overtaken : BOOLEAN]

BoxesInv ==
  /\ \E S : position \in Seq(S)
  /\ ticked \in Seq(TickRow) /\ Len(ticked) = Len(position)
  /\ \E S : hand \in [Members -> HandRow(S)]
  /\ \A m \in Members : hand[m].step = "tick" => hand[m].todo \in TodoIds

LEMMA UndoneIs == Undone \in TickRow
BY DEF Undone, TickRow

LEMMA EmptyIs ==
  ASSUME NEW S, 0 \in S
  PROVE  Empty \in HandRow(S) /\ Empty.step = "idle" /\ Empty.overtaken = FALSE
BY UndoneIs DEF Empty, HandRow, HandSteps

LEMMA MoreHands ==
  ASSUME NEW S, NEW T, S \subseteq T
  PROVE  HandRow(S) \subseteq HandRow(T)
BY DEF HandRow

\* A row saved over another keeps both columns in step.
LEMMA TickSaved ==
  ASSUME NEW m \in Members, NEW row \in TickRow, NEW loaded \in TickRow, NEW columns,
         columns = [at |-> ~loaded.at, by |-> IF loaded.at THEN Nobody ELSE m]
  PROVE  Saved(row, loaded, columns) \in TickRow
<1>1. PICK new : new = Saved(row, loaded, columns) OBVIOUS
<1>2. DOMAIN row = {"at", "by"} /\ DOMAIN columns = {"at", "by"} BY DEF TickRow
<1>3. new = [c \in {"at", "by"} |-> IF columns[c] # loaded[c] THEN columns[c] ELSE row[c]]
  BY <1>1, <1>2 DEF Saved
<1>4. columns.at # loaded.at /\ columns.by # loaded.by
  <2>1. m # Nobody BY TodoOrderAssumption
  <2>2. loaded.at \in BOOLEAN /\ (loaded.at <=> loaded.by # Nobody) BY DEF TickRow
  <2>3. CASE loaded.at
    <3>1. columns.by = Nobody /\ loaded.by # Nobody BY <2>2, <2>3
    <3>2. ~columns.at BY <2>3
    <3> QED BY <2>3, <3>1, <3>2
  <2>4. CASE ~loaded.at
    <3>1. columns.by = m /\ loaded.by = Nobody BY <2>2, <2>4
    <3>2. columns.at BY <2>4
    <3> QED BY <2>1, <2>4, <3>1, <3>2
  <2> QED BY <2>2, <2>3, <2>4
<1>5. new.at = columns.at /\ new.by = columns.by BY <1>3, <1>4
<1>6. new = [at |-> new.at, by |-> new.by] BY <1>3
<1>7. new.at \in BOOLEAN /\ new.by \in Members \cup {Nobody} /\ (new.at <=> new.by # Nobody)
  <2>1. m # Nobody BY TodoOrderAssumption
  <2>2. CASE loaded.at BY <1>5, <2>2
  <2>3. CASE ~loaded.at BY <1>5, <2>1, <2>3
  <2> QED BY <2>2, <2>3
<1> QED BY <1>1, <1>6, <1>7 DEF TickRow

-----------------------------------------------------------------------------

LEMMA InitBoxes == TodoInit => BoxesInv
<1> SUFFICES ASSUME TodoInit PROVE BoxesInv OBVIOUS
<1>1. position \in Seq({0}) /\ ticked \in Seq(TickRow) /\ Len(ticked) = Len(position)
  BY DEF TodoInit
<1>2. Empty \in HandRow({0}) /\ Empty.step = "idle" BY EmptyIs
<1>3. hand \in [Members -> HandRow({0})] BY <1>2 DEF TodoInit
<1>4. \A m \in Members : hand[m].step # "tick" BY <1>2 DEF TodoInit
<1> QED BY <1>1, <1>3, <1>4 DEF BoxesInv

\* What a request may do to its own hand.
LEMMA HandMoves ==
  ASSUME BoxesInv, NEW m \in Members, NEW S, NEW x \in HandRow(S),
         hand' = [hand EXCEPT ![m] = x], UNCHANGED <<position, ticked>>,
         x.step = "tick" => x.todo \in TodoIds
  PROVE  BoxesInv'
<1>1. PICK T : hand \in [Members -> HandRow(T)] BY DEF BoxesInv
<1>2. HandRow(S) \subseteq HandRow(S \cup T) /\ HandRow(T) \subseteq HandRow(S \cup T) BY MoreHands
<1>3. hand' \in [Members -> HandRow(S \cup T)] BY <1>1, <1>2
<1>4. TodoIds' = TodoIds BY DEF TodoIds
<1>5. \A n \in Members : hand'[n].step = "tick" => hand'[n].todo \in TodoIds
  BY <1>1 DEF BoxesInv
<1> QED BY <1>3, <1>4, <1>5 DEF BoxesInv

\* Requests that are overtaken, or that end, and rows that move or are entered.
LEMMA OutdatedMoves ==
  ASSUME BoxesInv, NEW m, hand' = Outdates(m),
         \E S : position' \in Seq(S), ticked' \in Seq(TickRow), Len(ticked') = Len(position'),
         Len(position) <= Len(position')
  PROVE  BoxesInv'
<1>1. PICK S : hand \in [Members -> HandRow(S)] BY DEF BoxesInv
<1>2. PICK T : T = S \cup {0} OBVIOUS
<1>3. HandRow(S) \subseteq HandRow(T) /\ Empty \in HandRow(T) /\ Empty.step = "idle"
  BY <1>2, MoreHands, EmptyIs
<1>4. ASSUME NEW n \in Members
      PROVE  /\ hand'[n] \in HandRow(T)
             /\ hand'[n].step = "tick" => hand[n].step = "tick" /\ hand'[n].todo = hand[n].todo
  <2>1. PICK h : h = hand[n] OBVIOUS
  <2>2. h \in HandRow(T) BY <1>1, <1>3, <2>1
  <2>3. PICK old : old = [h EXCEPT !.overtaken = TRUE] OBVIOUS
  <2>4. old \in HandRow(T) /\ old.step = h.step /\ old.todo = h.todo BY <2>2, <2>3 DEF HandRow
  <2>5. hand'[n] \in {Empty, old, h} BY <2>1, <2>3 DEF Outdates
  <2>6. hand'[n] = Empty \/ hand'[n] = old \/ hand'[n] = h BY <2>5
  <2> QED BY <1>3, <2>1, <2>2, <2>4, <2>6
<1>5. hand' \in [Members -> HandRow(T)] BY <1>4 DEF Outdates
<1>6. TodoIds \subseteq TodoIds'
  <2>1. Len(position) \in Nat /\ Len(position') \in Nat BY DEF BoxesInv
  <2> QED BY <2>1 DEF TodoIds
<1>7. \A n \in Members : hand'[n].step = "tick" => hand'[n].todo \in TodoIds'
  BY <1>4, <1>6 DEF BoxesInv
<1> QED BY <1>5, <1>7 DEF BoxesInv

LEMMA PutIs ==
  ASSUME BoxesInv, NEW t, NEW to, NEW p, p = Put(t, to) \/ p = [position EXCEPT ![t] = to]
  PROVE  (\E S : p \in Seq(S)) /\ Len(p) = Len(position)
<1>1. PICK S : position \in Seq(S) BY DEF BoxesInv
<1>2. PICK T : T = S \cup {to} OBVIOUS
<1>3. position \in Seq(T) BY <1>1, <1>2
<1>4. CASE p = position BY <1>3, <1>4
<1>5. CASE p = [position EXCEPT ![t] = to]
  <2>1. PICK n \in Nat : n = Len(position) BY <1>3
  <2>2. position \in [1..n -> T] BY <1>3, <2>1
  <2>3. p \in [1..n -> T] BY <1>2, <1>5, <2>2
  <2>4. p \in Seq(T) BY <2>3
  <2>5. DOMAIN p = 1..n BY <2>3
  <2>6. Len(p) = n BY <2>4, <2>5
  <2> QED BY <2>1, <2>4, <2>6
<1> QED BY <1>4, <1>5 DEF Put

LEMMA HandsHold ==
  ASSUME BoxesInv, NEW m \in Members,
         \/ StartAppend(m) \/ PlaceDrag(m) \/ GiveUpTodo(m)
         \/ \E t \in TodoIds : StartDrag(m, t) \/ LoadTodo(m, t)
  PROVE  BoxesInv'
<1>1. UNCHANGED <<position, ticked>>
  BY DEF StartAppend, PlaceDrag, GiveUpTodo, StartDrag, LoadTodo
<1>2. PICK S : hand \in [Members -> HandRow(S)] BY DEF BoxesInv
<1>3. Empty \in HandRow({0}) /\ Empty.step = "idle" BY EmptyIs
<1>4. CASE StartAppend(m)
  <2>1. PICK to : to = nextPosition(Shown) OBVIOUS
  <2>2. PICK x : x = [Empty EXCEPT !.step = "insert", !.to = to, !.overtaken = round.step = "write"]
    OBVIOUS
  <2>3. Empty \in HandRow({0, to}) BY EmptyIs
  <2>4. x \in HandRow({0, to}) /\ x.step = "insert" BY <2>2, <2>3 DEF HandRow, HandSteps
  <2>5. hand' = [hand EXCEPT ![m] = x] BY <1>4, <2>1, <2>2 DEF StartAppend
  <2> QED BY <1>1, <2>4, <2>5, HandMoves
<1>5. CASE PlaceDrag(m)
  <2>1. PICK to : to = positionBetween(Found(hand[m].before), Found(hand[m].after)) OBVIOUS
  <2>2. CASE hand' = [hand EXCEPT ![m] = Empty] BY <1>1, <1>3, <2>2, HandMoves
  <2>3. CASE hand' = [hand EXCEPT ![m].step = "drop", ![m].to = to]
    <3>1. PICK y : y = [hand[m] EXCEPT !.step = "drop"] OBVIOUS
    <3>2. PICK x : x = [y EXCEPT !.to = to] OBVIOUS
    <3>3. hand[m] \in HandRow(S \cup {to}) BY <1>2, MoreHands
    <3>4. y \in HandRow(S \cup {to}) /\ y.step = "drop" BY <3>1, <3>3 DEF HandRow, HandSteps
    <3>5. x \in HandRow(S \cup {to}) /\ x.step = "drop" BY <3>2, <3>4 DEF HandRow
    <3>6. hand' = [hand EXCEPT ![m] = x]
      <4>1. PICK z : z = [hand EXCEPT ![m].step = "drop"] OBVIOUS
      <4>2. z = [hand EXCEPT ![m] = y] BY <1>2, <3>1, <4>1
      <4>3. hand' = [z EXCEPT ![m].to = to] BY <2>3, <4>1
      <4>4. z[m] = y BY <1>2, <4>2
      <4>5. hand' = [z EXCEPT ![m] = x] BY <3>2, <4>3, <4>4
      <4> QED BY <1>2, <4>2, <4>5
    <3> QED BY <1>1, <3>5, <3>6, HandMoves
  <2> QED BY <1>5, <2>1, <2>2, <2>3 DEF PlaceDrag
<1>6. CASE GiveUpTodo(m)
  <2>1. hand' = [hand EXCEPT ![m] = Empty] BY <1>6 DEF GiveUpTodo
  <2> QED BY <1>1, <1>3, <2>1, HandMoves
<1>7. ASSUME NEW t \in TodoIds, StartDrag(m, t) PROVE BoxesInv'
  <2>2. PICK before, after \in (Shown \ {t}) \cup {0} :
          hand' = [hand EXCEPT ![m] =
            [Empty EXCEPT !.step = "drag", !.todo = t, !.before = before, !.after = after,
                          !.overtaken = round.step = "write"]]
    BY <1>7 DEF StartDrag
  <2>4. PICK x : x = [Empty EXCEPT !.step = "drag", !.todo = t, !.before = before, !.after = after,
                                   !.overtaken = round.step = "write"]
    OBVIOUS
  <2>5. Empty \in HandRow({0, t, before, after}) BY EmptyIs
  <2>6. x \in HandRow({0, t, before, after}) /\ x.step = "drag" BY <2>4, <2>5 DEF HandRow, HandSteps
  <2>7. hand' = [hand EXCEPT ![m] = x] BY <2>2, <2>4
  <2> QED BY <1>1, <2>6, <2>7, HandMoves
<1>8. ASSUME NEW t \in TodoIds, LoadTodo(m, t) PROVE BoxesInv'
  <2>1. ticked[t] \in TickRow BY DEF BoxesInv, TodoIds
  <2>2. PICK y : y = [Empty EXCEPT !.step = "tick"] OBVIOUS
  <2>3. PICK z : z = [y EXCEPT !.todo = t] OBVIOUS
  <2>4. PICK x : x = [z EXCEPT !.loaded = ticked[t]] OBVIOUS
  <2>5. Empty \in HandRow({0, t}) BY EmptyIs
  <2>6. y \in HandRow({0, t}) BY <2>2, <2>5 DEF HandRow, HandSteps
  <2>7. z \in HandRow({0, t}) /\ z.todo = t BY <2>3, <2>6 DEF HandRow
  <2>8. x \in HandRow({0, t}) /\ x.todo = t BY <2>1, <2>4, <2>7 DEF HandRow
  <2>9. hand' = [hand EXCEPT ![m] = x]
    <3>1. hand[m] = Empty BY <1>8 DEF LoadTodo
    <3>2. PICK a : a = [hand EXCEPT ![m].step = "tick"] OBVIOUS
    <3>3. PICK b : b = [a EXCEPT ![m].todo = t] OBVIOUS
    <3>4. hand' = [b EXCEPT ![m].loaded = ticked[t]] BY <1>8, <3>2, <3>3 DEF LoadTodo
    <3>5. a = [hand EXCEPT ![m] = y] /\ a[m] = y BY <1>2, <2>2, <3>1, <3>2
    <3>6. b = [hand EXCEPT ![m] = z] /\ b[m] = z BY <1>2, <2>3, <3>3, <3>5
    <3> QED BY <1>2, <2>4, <3>4, <3>6
  <2> QED BY <1>1, <2>8, <2>9, HandMoves
<1> QED BY <1>4, <1>5, <1>6, <1>7, <1>8

LEMMA RowsMove ==
  ASSUME BoxesInv, NEW m \in Members,
         \/ InsertTodo(m) \/ SaveDrag(m)
         \/ \E t \in TodoIds : DeleteTodo(m, t) \/ \E to \in ApiPositions : SetPosition(m, t, to)
  PROVE  BoxesInv'
<1>1. /\ ticked \in Seq(TickRow) /\ Len(ticked) = Len(position) /\ Len(position) \in Nat
  BY DEF BoxesInv
<1>2. CASE InsertTodo(m)
  <2>1. PICK S : position \in Seq(S) BY DEF BoxesInv
  <2>2. PICK to : to = hand[m].to OBVIOUS
  <2>3. PICK T : T = S \cup {to} OBVIOUS
  <2>4. position \in Seq(T) /\ to \in T BY <2>1, <2>3
  <2>5. position' = Append(position, to) /\ ticked' = Append(ticked, Undone) /\ hand' = Outdates(m)
    BY <1>2, <2>2 DEF InsertTodo
  <2>6. position' \in Seq(T) /\ Len(position') = Len(position) + 1 BY <2>4, <2>5
  <2>7. ticked' \in Seq(TickRow) /\ Len(ticked') = Len(ticked) + 1 BY <1>1, <2>5, UndoneIs
  <2> QED BY <1>1, <2>5, <2>6, <2>7, OutdatedMoves
<1>3. ASSUME NEW t, NEW to, position' = Put(t, to) \/ position' = [position EXCEPT ![t] = to],
             hand' = Outdates(m), ticked' = ticked
      PROVE  BoxesInv'
  <2>1. PICK p : p = position' OBVIOUS
  <2>2. (\E S : p \in Seq(S)) /\ Len(p) = Len(position) BY <1>3, <2>1, PutIs
  <2> QED BY <1>1, <1>3, <2>1, <2>2, OutdatedMoves
<1>4. CASE SaveDrag(m) BY <1>3, <1>4 DEF SaveDrag
<1>5. CASE \E t \in TodoIds : DeleteTodo(m, t) BY <1>3, <1>5 DEF DeleteTodo
<1>6. CASE \E t \in TodoIds : \E to \in ApiPositions : SetPosition(m, t, to)
  BY <1>3, <1>6 DEF SetPosition
<1> QED BY <1>2, <1>4, <1>5, <1>6

LEMMA TickHolds ==
  ASSUME BoxesInv, NEW m \in Members, SaveTick(m)
  PROVE  BoxesInv'
<1>1. PICK S : hand \in [Members -> HandRow(S)] BY DEF BoxesInv
<1>2. PICK t, loaded : t = hand[m].todo /\ loaded = hand[m].loaded OBVIOUS
<1>3. t \in TodoIds /\ loaded \in TickRow BY <1>1, <1>2 DEF SaveTick, BoxesInv, HandRow
<1>4. ticked \in Seq(TickRow) /\ t \in DOMAIN ticked /\ Len(ticked) = Len(position)
  BY <1>3 DEF BoxesInv, TodoIds
<1>5. PICK columns : columns = [at |-> ~loaded.at, by |-> IF loaded.at THEN Nobody ELSE m] OBVIOUS
<1>6. columns = Toggled(m) BY <1>2, <1>5 DEF Toggled
<1>7. PICK row : row = Saved(ticked[t], loaded, columns) OBVIOUS
<1>8. row \in TickRow BY <1>3, <1>4, <1>5, <1>7, TickSaved
<1>9. ticked' = [ticked EXCEPT ![t] = row] BY <1>2, <1>6, <1>7 DEF SaveTick
<1>10. ticked' \in Seq(TickRow) /\ Len(ticked') = Len(ticked) BY <1>4, <1>8, <1>9
<1>11. Empty \in HandRow({0}) /\ Empty.step = "idle" BY EmptyIs
<1>12. HandRow(S) \subseteq HandRow(S \cup {0}) /\ Empty \in HandRow(S \cup {0}) BY <1>11, MoreHands
<1>13. hand' \in [Members -> HandRow(S \cup {0})] BY <1>1, <1>12 DEF SaveTick
<1>14. \A n \in Members : hand'[n].step = "tick" => hand'[n].todo \in TodoIds
  BY <1>1, <1>11 DEF SaveTick, BoxesInv
<1>15. TodoIds' = TodoIds /\ position' = position BY DEF SaveTick, TodoIds
<1> QED BY <1>4, <1>10, <1>13, <1>14, <1>15 DEF BoxesInv

LEMMA SpreadHolds ==
  ASSUME BoxesInv, SpreadNext
  PROVE  BoxesInv'
<1>1. PICK S : hand \in [Members -> HandRow(S)] BY DEF BoxesInv
<1>2. CASE StartSpread
  <2>1. UNCHANGED <<position, ticked>> BY <1>2 DEF StartSpread
  <2>2. ASSUME NEW n \in Members
        PROVE  /\ hand'[n] \in HandRow(S)
               /\ hand'[n].step = "tick" => hand[n].step = "tick" /\ hand'[n].todo = hand[n].todo
    <3>1. PICK h : h = hand[n] OBVIOUS
    <3>2. h \in HandRow(S) BY <1>1, <3>1
    <3>3. PICK old : old = [h EXCEPT !.overtaken = TRUE] OBVIOUS
    <3>4. old \in HandRow(S) /\ old.step = h.step /\ old.todo = h.todo BY <3>2, <3>3 DEF HandRow
    <3>5. hand'[n] = old \/ hand'[n] = h BY <1>2, <3>1, <3>3 DEF StartSpread
    <3> QED BY <3>1, <3>2, <3>4, <3>5
  <2>3. hand' \in [Members -> HandRow(S)] BY <1>2, <2>2 DEF StartSpread
  <2>4. TodoIds' = TodoIds BY <2>1 DEF TodoIds
  <2> QED BY <2>1, <2>2, <2>3, <2>4 DEF BoxesInv
<1>3. CASE WriteSpread
  <2>1. PICK w : WriteRow(w) BY <1>3 DEF WriteSpread
  <2>2. PICK p : p = Put(w[1], w[2]) OBVIOUS
  <2>3. position' = p /\ UNCHANGED <<ticked, hand>> BY <2>1, <2>2 DEF WriteRow
  <2>4. (\E T : p \in Seq(T)) /\ Len(p) = Len(position) BY <2>2, PutIs
  <2>5. TodoIds' = TodoIds BY <2>3, <2>4 DEF TodoIds
  <2> QED BY <2>3, <2>4, <2>5 DEF BoxesInv
<1>4. CASE EndSpread \/ KillSpread
  BY <1>4 DEF EndSpread, KillSpread, BoxesInv, TodoIds
<1> QED BY <1>2, <1>3, <1>4 DEF SpreadNext

LEMMA NextBoxes == BoxesInv /\ [TodoNext]_todoVars => BoxesInv'
<1> SUFFICES ASSUME BoxesInv, [TodoNext]_todoVars PROVE BoxesInv' OBVIOUS
<1>1. CASE OrderNext
  BY <1>1, HandsHold, RowsMove, SpreadHolds DEF OrderNext
<1>2. CASE NumberNext BY <1>2, RowsMove DEF NumberNext
<1>3. CASE TickNext BY <1>3, TickHolds, HandsHold DEF TickNext
<1>4. CASE UNCHANGED todoVars BY <1>4 DEF todoVars, BoxesInv, TodoIds
<1> QED BY <1>1, <1>2, <1>3, <1>4 DEF TodoNext

-----------------------------------------------------------------------------
(* The order. A request that nobody wrote before stands between the same   *)
(* two neighbours still; a renumbering that nobody wrote into still knows  *)
(* where every row goes.                                                   *)

RoundRow == [step : {"none", "write", "written"}, writes : SUBSET (Nat \X Nat), overtaken : BOOLEAN]

Placed ==
  /\ position \in Seq(Nat) /\ removed \subseteq TodoIds /\ round \in RoundRow
  /\ \E b \in Nat : \A t \in TodoIds : position[t] <= b
  /\ \A m \in Members : hand[m].step \in {"drop", "insert"} => hand[m].to \in Nat

Aims(h) ==
  IF h.step = "insert" THEN \A t \in Shown : position[t] < h.to ELSE
    /\ h.todo \in Shown
    /\ h.before \in (Shown \ {h.todo}) \cup {0} /\ h.after \in (Shown \ {h.todo}) \cup {0}
    /\ Neighbours(h.todo, h.before, h.after)
    /\ h.step = "drop" => h.to = positionBetween(h.before, h.after)

HandsAim ==
  \A m \in Members :
    hand[m].step \in {"drag", "drop", "insert"} /\ ~hand[m].overtaken =>
      round.step # "write" /\ Aims(hand[m])

\* The rows a renumbering has still to write, and those it has written.
Spreads ==
  /\ \E was \in [Shown -> Nat] : arranged = Screen(was, Shown)
  /\ \A w \in round.writes : w[1] \in Shown /\ w[2] = Wanted(arranged, w[1])
  /\ \A t \in Shown : \/ position[t] = Wanted(arranged, t)
                      \/ <<t, Wanted(arranged, t)>> \in round.writes
  /\ round.step = "written" => round.writes = {}

OrderInv ==
  /\ BoxesInv /\ Placed /\ HandsAim /\ OrderIsTheirs
  /\ round.step # "none" /\ ~round.overtaken => Spreads

-----------------------------------------------------------------------------
\* Positions and orders.

LEMMA HasMost ==
  ASSUME NEW S, S \subseteq Nat, S # {}, NEW b \in Nat, \A x \in S : x <= b
  PROVE  \E m \in S : \A x \in S : x <= m
<1> DEFINE Less == {ss \in Nat \X Nat : ss[1] < ss[2]}
           Bounds == {n \in Nat : \A x \in S : x <= n}
<1>1. IsWellFoundedOn(Less, Nat)
  <2>1. OpToRel(<, Nat) = Less BY Zenon DEF OpToRel
  <2> QED BY <2>1, NatLessThanWellFounded
<1>2. Bounds \subseteq Nat /\ b \in Bounds OBVIOUS
<1>3. PICK m \in Bounds : \A n \in Bounds : <<n, m>> \notin Less
  <2> HIDE DEF Less, Bounds
  <2>1. Bounds # {} BY <1>2
  <2> QED BY <1>1, <1>2, <2>1, WFMin
<1>4. m \in Nat /\ \A x \in S : x <= m BY <1>3
<1>5. m \in S
  <2>1. SUFFICES ASSUME m \notin S PROVE FALSE OBVIOUS
  <2>2. \A x \in S : x \in Nat /\ x < m BY <1>4, <2>1
  <2>3. m # 0
    <3>1. PICK x \in S : x \in Nat /\ x < m BY <2>2
    <3> QED BY <3>1
  <2>4. m - 1 \in Nat /\ m - 1 < m BY <1>4, <2>3
  <2>5. \A x \in S : x <= m - 1 BY <1>4, <2>2
  <2>6. m - 1 \in Bounds BY <2>4, <2>5
  <2>7. <<m - 1, m>> \in Less BY <1>4, <2>4
  <2> QED BY <1>3, <2>6, <2>7
<1> QED BY <1>4, <1>5

LEMMA NextIs ==
  ASSUME Placed
  PROVE  nextPosition(Shown) \in Nat /\ \A t \in Shown : position[t] < nextPosition(Shown)
<1>1. POSITION_GAP \in Nat /\ POSITION_GAP > 0 BY TodoOrderAssumption
<1>2. CASE Shown = {} BY <1>1, <1>2 DEF nextPosition
<1>3. CASE Shown # {}
  <2>1. PICK S : S = {position[t] : t \in Shown} OBVIOUS
  <2>2. Shown \subseteq DOMAIN position BY DEF Shown, TodoIds, Placed
  <2>3. S \subseteq Nat /\ S # {} BY <1>3, <2>1, <2>2 DEF Placed
  <2>4. \E b \in Nat : \A x \in S : x <= b BY <2>1 DEF Placed, Shown
  <2>5. \E m \in S : \A x \in S : x <= m BY <2>3, <2>4, HasMost
  <2>6. \E m \in S : \A x \in S : m >= x BY <2>3, <2>5
  <2>7. Max(S) \in S /\ \A x \in S : Max(S) >= x BY <2>6 DEF Max
  <2>8. nextPosition(Shown) = Max(S) + POSITION_GAP BY <1>3, <2>1 DEF nextPosition
  <2>9. PICK m : m = Max(S) OBVIOUS
  <2>10. m \in Nat /\ \A x \in S : x <= m BY <2>3, <2>7, <2>9
  <2>11. \A t \in Shown : position[t] \in S BY <2>1
  <2>12. nextPosition(Shown) = m + POSITION_GAP /\ m + POSITION_GAP \in Nat BY <1>1, <2>8, <2>9, <2>10
  <2>13. ASSUME NEW t \in Shown PROVE position[t] < m + POSITION_GAP
    <3>1. PICK x \in S : x = position[t] BY <2>11
    <3>2. x \in Nat /\ x <= m BY <2>3, <2>10
    <3> QED BY <1>1, <2>10, <3>1, <3>2
  <2> QED BY <2>12, <2>13
<1> QED BY <1>2, <1>3

\* Sorting does what it should: rows are in a line.
LEMMA InLine ==
  ASSUME NEW R, R \subseteq Nat, NEW was, \A t \in R : was[t] \in Nat,
         NEW t \in R, NEW u \in R
  PROVE  /\ ~Above(was, t, t)
         /\ t # u => (Above(was, t, u) <=> ~Above(was, u, t))
         /\ \A v \in R : Above(was, t, u) /\ Above(was, u, v) => Above(was, t, v)
<1>1. t \in Nat /\ u \in Nat /\ was[t] \in Nat /\ was[u] \in Nat OBVIOUS
<1>2. ASSUME NEW v \in R, Above(was, t, u), Above(was, u, v) PROVE Above(was, t, v)
  <2>1. v \in Nat /\ was[v] \in Nat OBVIOUS
  <2> QED BY <1>1, <1>2, <2>1 DEF Above
<1> QED BY <1>1, <1>2 DEF Above

LEMMA SameScreen ==
  ASSUME NEW R, NEW a, NEW b, \A t, u \in R : Above(a, t, u) <=> Above(b, t, u)
  PROVE  Screen(a, R) = Screen(b, R)
BY DEF Screen

\* A row further down wants a position that leaves room.
LEMMA WantedGrow ==
  ASSUME NEW R \in SUBSET Nat, IsFiniteSet(R), NEW was \in [R -> Nat], NEW order, order = Screen(was, R),
         NEW t \in R, NEW u \in R
  PROVE  /\ Wanted(order, t) \in Nat
         /\ Above(was, u, t) => Wanted(order, u) + POSITION_GAP <= Wanted(order, t)
<1>1. POSITION_GAP \in Nat BY TodoOrderAssumption
<1>2. \A v \in R : order[v] = {w \in R : Above(was, w, v)} BY DEF Screen
<1>3. \A v \in R : IsFiniteSet(order[v]) BY <1>2, FS_Subset
<1>4. \A v \in R : Cardinality(order[v]) \in Nat BY <1>3, FS_CardinalityType
<1>5. Wanted(order, t) \in Nat BY <1>1, <1>4 DEF Wanted, normalisedPosition
<1>6. ASSUME Above(was, u, t) PROVE Wanted(order, u) + POSITION_GAP <= Wanted(order, t)
  <2>1. u \notin order[u] BY <1>2, InLine
  <2>2. order[u] \cup {u} \subseteq order[t]
    <3>1. \A w \in R : Above(was, w, u) => Above(was, w, t) BY <1>6, InLine
    <3>2. \A w \in order[u] : w \in R /\ Above(was, w, u) BY <1>2
    <3>3. \A w \in R : Above(was, w, t) => w \in order[t] BY <1>2
    <3> QED BY <1>6, <3>1, <3>2, <3>3
  <2>3. Cardinality(order[u] \cup {u}) = Cardinality(order[u]) + 1 BY <1>3, <2>1, FS_AddElement
  <2>4. Cardinality(order[u] \cup {u}) <= Cardinality(order[t]) BY <1>3, <2>2, FS_Subset
  <2>5. PICK a \in Nat, b \in Nat : a = Cardinality(order[u]) /\ b = Cardinality(order[t]) BY <1>4
  <2>6. a + 1 <= b BY <2>3, <2>4, <2>5
  <2>7. Wanted(order, u) = (a + 1) * POSITION_GAP /\ Wanted(order, t) = (b + 1) * POSITION_GAP
    BY <2>5 DEF Wanted, normalisedPosition
  <2>8. PICK g \in Nat : g = POSITION_GAP BY <1>1
  <2>9. PICK d \in Nat : b = a + 1 + d
    <3>1. b - (a + 1) \in Nat BY <2>6
    <3> QED BY <3>1
  <2>10. (b + 1) * g = (a + 1) * g + g + d * g BY <2>9
  <2>11. d * g \in Nat /\ (a + 1) * g \in Nat OBVIOUS
  <2>12. PICK x \in Nat, y \in Nat : x = d * g /\ y = (a + 1) * g BY <2>11
  <2>13. (b + 1) * g = y + g + x BY <2>10, <2>12
  <2>14. y + g <= y + g + x OBVIOUS
  <2> QED BY <2>7, <2>8, <2>12, <2>13, <2>14
<1> QED BY <1>5, <1>6

\* Spread out, rows are in the order they were in and have room between them.
LEMMA SpreadOut ==
  ASSUME NEW R \in SUBSET Nat, IsFiniteSet(R), NEW was \in [R -> Nat], NEW order, order = Screen(was, R),
         NEW p, \A t \in R : p[t] = Wanted(order, t)
  PROVE  /\ Screen(p, R) = order
         /\ \A t, u \in R : Above(p, t, u) => p[u] - p[t] > 1
<1>1. POSITION_GAP \in Nat /\ POSITION_GAP > 1 BY TodoOrderAssumption
<1>2. ASSUME NEW t \in R, NEW u \in R
      PROVE  /\ Above(p, t, u) <=> Above(was, t, u)
             /\ Above(p, t, u) => p[u] - p[t] > 1
  <2>1. p[t] \in Nat /\ p[u] \in Nat BY WantedGrow
  <2>2. Above(was, t, u) => p[t] + POSITION_GAP <= p[u] BY WantedGrow
  <2>3. Above(was, u, t) => p[u] + POSITION_GAP <= p[t] BY WantedGrow
  <2>4. \A r \in R : was[r] \in Nat OBVIOUS
  <2>5. ~Above(was, t, t) /\ (t # u => (Above(was, t, u) <=> ~Above(was, u, t))) BY <2>4, InLine
  <2>6. CASE t = u
    <3>1. ~Above(p, t, u) BY <2>1, <2>6 DEF Above
    <3> QED BY <2>5, <2>6, <3>1
  <2>7. CASE t # u /\ Above(was, t, u)
    <3>1. Above(p, t, u) BY <1>1, <2>1, <2>2, <2>7 DEF Above
    <3> QED BY <1>1, <2>1, <2>2, <2>7, <3>1
  <2>8. CASE t # u /\ Above(was, u, t)
    <3>1. ~Above(p, t, u) BY <1>1, <2>1, <2>3, <2>8 DEF Above
    <3> QED BY <2>5, <2>8, <3>1
  <2> QED BY <2>5, <2>6, <2>7, <2>8
<1>3. Screen(p, R) = Screen(was, R) BY <1>2, SameScreen
<1> QED BY <1>2, <1>3

LEMMA AppendedLast ==
  ASSUME NEW R \in SUBSET Nat, NEW was, \A t \in R : was[t] \in Nat,
         NEW k \in Nat \ R, NEW to \in Nat, \A t \in R : was[t] < to,
         NEW p, p[k] = to, \A t \in R : p[t] = was[t]
  PROVE  Screen(p, R \cup {k}) = Last(Screen(was, R), k)
<1>1. ASSUME NEW t \in R, NEW u \in R PROVE Above(p, u, t) <=> Above(was, u, t)
  BY DEF Above
<1>2. ASSUME NEW t \in R PROVE Above(p, t, k) /\ ~Above(p, k, t)
  <2>1. p[t] \in Nat /\ p[t] < to OBVIOUS
  <2> QED BY <2>1 DEF Above
<1>3. ~Above(p, k, k) BY DEF Above
<1>4. ASSUME NEW t \in R
      PROVE  {u \in R \cup {k} : Above(p, u, t)} = {u \in R : Above(was, u, t)}
  BY <1>1, <1>2
<1>5. {u \in R \cup {k} : Above(p, u, k)} = R BY <1>2, <1>3
<1>6. DOMAIN Screen(was, R) = R /\ \A t \in R : Screen(was, R)[t] = {u \in R : Above(was, u, t)}
  BY DEF Screen
<1>7. Screen(p, R \cup {k}) =
        [t \in R \cup {k} |-> IF t = k THEN R ELSE {u \in R : Above(was, u, t)}]
  <2>1. \A t \in R \cup {k} :
          {u \in R \cup {k} : Above(p, u, t)} = IF t = k THEN R ELSE {u \in R : Above(was, u, t)}
    BY <1>4, <1>5
  <2> QED BY <2>1 DEF Screen
<1>8. Last(Screen(was, R), k) =
        [t \in R \cup {k} |-> IF t = k THEN R ELSE {u \in R : Above(was, u, t)}]
  BY <1>6 DEF Last
<1> QED BY <1>7, <1>8

LEMMA DeletedOut ==
  ASSUME NEW R, NEW was, NEW t, NEW p, \A u \in R \ {t} : p[u] = was[u]
  PROVE  Screen(p, R \ {t}) = Without(Screen(was, R), t)
<1>1. DOMAIN Screen(was, R) = R /\ \A u \in R : Screen(was, R)[u] = {v \in R : Above(was, v, u)}
  BY DEF Screen
<1>2. ASSUME NEW u \in R \ {t}
      PROVE  {v \in R \ {t} : Above(p, v, u)} = {v \in R : Above(was, v, u)} \ {t}
  <2>1. \A v \in R \ {t} : Above(p, v, u) <=> Above(was, v, u) BY DEF Above
  <2> QED BY <2>1
<1> QED BY <1>1, <1>2 DEF Screen, Without

LEMMA DroppedBetween ==
  ASSUME NEW R \in SUBSET (Nat \ {0}), NEW was, \A u \in R : was[u] \in Nat,
         NEW t \in R, NEW x \in (R \ {t}) \cup {0}, NEW y \in (R \ {t}) \cup {0},
         \A u \in R \ {t} :
           (x # 0 /\ (u = x \/ Above(was, u, x))) # (y # 0 /\ (u = y \/ Above(was, y, u))),
         NEW to \in Nat, x # 0 => was[x] < to, y # 0 => to < was[y],
         NEW p, p[t] = to, \A u \in R \ {t} : p[u] = was[u]
  PROVE  Screen(p, R) = IF x = 0 /\ y = 0 THEN Screen(was, R) ELSE Between(Screen(was, R), t, x, y)
<1>1. \A u \in R : p[u] \in Nat OBVIOUS
<1>2. ASSUME NEW u \in R \ {t}
      PROVE  /\ Above(p, u, t) <=> x # 0 /\ (u = x \/ Above(was, u, x))
             /\ Above(p, t, u) <=> ~Above(p, u, t)
  <2>1. u \in Nat /\ t \in Nat /\ was[u] \in Nat /\ p[u] = was[u] /\ u # t OBVIOUS
  <2>2. Above(p, t, u) <=> ~Above(p, u, t) BY <1>1, <2>1, InLine
  <2>3. CASE x # 0 /\ (u = x \/ Above(was, u, x))
    <3>1. was[x] \in Nat /\ was[x] < to /\ was[u] <= was[x] BY <2>1, <2>3 DEF Above
    <3>2. p[u] < p[t] BY <2>1, <3>1
    <3> QED BY <2>2, <2>3, <3>2 DEF Above
  <2>4. CASE ~(x # 0 /\ (u = x \/ Above(was, u, x)))
    <3>1. y # 0 /\ (u = y \/ Above(was, y, u)) BY <2>4
    <3>2. was[y] \in Nat /\ to < was[y] /\ was[y] <= was[u] BY <2>1, <3>1 DEF Above
    <3>3. p[t] < p[u] BY <2>1, <3>2
    <3> QED BY <2>2, <2>4, <3>3 DEF Above
  <2> QED BY <2>2, <2>3, <2>4
<1>3. ASSUME NEW u \in R \ {t}, NEW v \in R \ {t}
      PROVE  Above(p, u, v) <=> Above(was, u, v)
  BY DEF Above
<1>4. ~Above(p, t, t) BY <1>1, InLine
<1>5. CASE x = 0 /\ y = 0
  <2>1. R \ {t} = {} BY <1>5
  <2>2. ~Above(was, t, t) BY InLine
  <2>3. \A u, v \in R : Above(p, u, v) <=> Above(was, u, v) BY <1>4, <2>1, <2>2
  <2> QED BY <1>5, <2>3, SameScreen
<1>6. CASE ~(x = 0 /\ y = 0)
  <2>1. PICK order : order = Screen(was, R) OBVIOUS
  <2>2. DOMAIN order = R /\ \A u \in R : order[u] = {v \in R : Above(was, v, u)} BY <2>1 DEF Screen
  <2>3. PICK higher : higher = (IF x # 0 THEN order[x] \cup {x} ELSE order[y]) \ {t} OBVIOUS
  <2>4. higher = {u \in R \ {t} : Above(p, u, t)}
    <3>1. CASE x # 0
      <4>1. \A u \in R \ {t} : u \in higher <=> (u = x \/ Above(was, u, x)) BY <2>2, <2>3, <3>1
      <4>2. higher \subseteq R \ {t} BY <2>2, <2>3, <3>1
      <4> QED BY <1>2, <3>1, <4>1, <4>2
    <3>2. CASE x = 0
      <4>1. y \in R /\ higher = order[y] \ {t} BY <1>6, <2>3, <3>2
      <4>2. ASSUME NEW u \in R \ {t} PROVE ~Above(was, u, y) /\ ~Above(p, u, t)
        <5>1. u = y \/ Above(was, y, u) BY <3>2
        <5>2. ~Above(was, u, y)
          <6>1. u \in R /\ y \in R BY <4>1
          <6>2. ~Above(was, y, y) /\ (y # u => (Above(was, y, u) <=> ~Above(was, u, y))) BY <6>1, InLine
          <6> QED BY <5>1, <6>2
        <5> QED BY <1>2, <3>2, <5>2
      <4> QED BY <2>2, <4>1, <4>2
    <3> QED BY <3>1, <3>2
  <2>5. {u \in R : Above(p, u, t)} = higher BY <1>4, <2>4
  <2>6. ASSUME NEW v \in R \ {t}
        PROVE  {u \in R : Above(p, u, v)} = (order[v] \ {t}) \cup (IF v \in higher THEN {} ELSE {t})
    <3>1. \A u \in R \ {t} : Above(p, u, v) <=> u \in order[v] BY <1>3, <2>2
    <3>2. Above(p, t, v) <=> v \notin higher BY <1>2, <2>4
    <3>3. order[v] \subseteq R BY <2>2
    <3> QED BY <3>1, <3>2, <3>3
  <2>7. Screen(p, R) = [u \in R |-> IF u = t THEN higher
                          ELSE (order[u] \ {t}) \cup (IF u \in higher THEN {} ELSE {t})]
    <3>1. \A v \in R : {u \in R : Above(p, u, v)} =
            IF v = t THEN higher ELSE (order[v] \ {t}) \cup (IF v \in higher THEN {} ELSE {t})
      BY <2>5, <2>6
    <3> QED BY <3>1 DEF Screen
  <2>8. Between(order, t, x, y) = [u \in R |-> IF u = t THEN higher
                          ELSE (order[u] \ {t}) \cup (IF u \in higher THEN {} ELSE {t})]
    BY <2>2, <2>3 DEF Between
  <2> QED BY <1>6, <2>1, <2>7, <2>8
<1> QED BY <1>5, <1>6

-----------------------------------------------------------------------------
\* Steps.

LEMMA ShownIs ==
  ASSUME Placed
  PROVE  /\ Shown \in SUBSET (Nat \ {0}) /\ Shown \in SUBSET Nat /\ IsFiniteSet(Shown)
         /\ \A t \in Shown : position[t] \in Nat /\ t \notin removed /\ t \in DOMAIN position
<1>1. IsFiniteSet(TodoIds) BY FS_Interval DEF TodoIds, Placed
<1>2. Shown \subseteq TodoIds BY DEF Shown
<1>3. IsFiniteSet(Shown) BY <1>1, <1>2, FS_Subset
<1>4. TodoIds \subseteq Nat \ {0} BY DEF TodoIds, Placed
<1>5. \A t \in TodoIds : position[t] \in Nat /\ t \in DOMAIN position BY DEF TodoIds, Placed
<1> QED BY <1>2, <1>3, <1>4, <1>5 DEF Shown

LEMMA InitOrder == TodoInit => OrderInv
<1> SUFFICES ASSUME TodoInit PROVE OrderInv OBVIOUS
<1>1. BoxesInv BY InitBoxes
<1>2. Empty.step = "idle" BY DEF Empty
<1>3. \A m \in Members : hand[m].step = "idle" BY <1>2 DEF TodoInit
<1>4. position = <<>> /\ TodoIds = {} BY DEF TodoInit, TodoIds
<1>5. round \in RoundRow /\ round.step = "none" BY DEF TodoInit, NotSpreading, RoundRow
<1>6. position \in Seq(Nat) BY <1>4
<1>7. Placed BY <1>3, <1>4, <1>5, <1>6 DEF Placed, TodoInit
<1>8. HandsAim BY <1>3 DEF HandsAim
<1>9. OrderIsTheirs BY DEF OrderIsTheirs, TodoInit
<1> QED BY <1>1, <1>5, <1>7, <1>8, <1>9 DEF OrderInv

LEMMA SameSpread ==
  ASSUME UNCHANGED <<position, round, arranged>>, Shown' = Shown, Spreads
  PROVE  Spreads'
<1>1. PICK was \in [Shown -> Nat] : arranged = Screen(was, Shown) BY DEF Spreads
<1>2. arranged' = Screen(was, Shown') BY <1>1
<1>3. \A t : Wanted(arranged, t)' = Wanted(arranged, t) BY DEF Wanted, normalisedPosition
<1>4. \A w \in round'.writes : w[1] \in Shown' /\ w[2] = Wanted(arranged', w[1])
  BY <1>3 DEF Spreads
<1>5. \A t \in Shown' : \/ position'[t] = Wanted(arranged', t)
                        \/ <<t, Wanted(arranged', t)>> \in round'.writes
  BY <1>3 DEF Spreads
<1>6. round'.step = "written" => round'.writes = {} BY DEF Spreads
<1> QED BY <1>1, <1>2, <1>4, <1>5, <1>6 DEF Spreads

\* A request that only changes what it has in hand.
LEMMA OwnHand ==
  ASSUME OrderInv, BoxesInv', NEW m \in Members,
         UNCHANGED <<position, removed, round, arranged>>,
         \A n \in Members \ {m} : hand'[n] = hand[n],
         hand'[m].step \in {"drop", "insert"} => hand'[m].to \in Nat,
         hand'[m].step \in {"drag", "drop", "insert"} /\ ~hand'[m].overtaken =>
           round.step # "write" /\ Aims(hand[m])'
  PROVE  OrderInv'
<1>1. TodoIds' = TodoIds /\ Shown' = Shown BY DEF TodoIds, Shown
<1>2. Placed' BY <1>1 DEF OrderInv, Placed
<1>3. \A n \in Members \ {m} : Aims(hand[n])' <=> Aims(hand[n])
  BY <1>1 DEF Aims, Neighbours, Above, positionBetween, NoRoom
<1>4. HandsAim' BY <1>3 DEF OrderInv, HandsAim
<1>5. OrderIsTheirs' BY <1>1 DEF OrderInv, OrderIsTheirs, Screen, Above
<1>6. Spreads => Spreads' BY <1>1, SameSpread
<1> QED BY <1>2, <1>4, <1>5, <1>6 DEF OrderInv

\* A write that every other request and the renumbering are told of.
LEMMA Told ==
  ASSUME OrderInv, BoxesInv', NEW m \in Members, hand' = Outdates(m), round' = RoundOvertaken,
         position' \in Seq(Nat), removed' \subseteq TodoIds',
         \E b \in Nat : \A t \in TodoIds' : position'[t] <= b,
         round.step # "write" => arranged' = Screen(position', Shown')
  PROVE  OrderInv'
<1>1. PICK S : hand \in [Members -> HandRow(S)] BY DEF OrderInv, BoxesInv
<1>2. round' \in RoundRow /\ round'.step = round.step /\ (round'.step # "none" => round'.overtaken)
  <2>1. round \in RoundRow BY DEF OrderInv, Placed
  <2>2. PICK old : old = [round EXCEPT !.overtaken = TRUE] OBVIOUS
  <2>3. old \in RoundRow /\ old.step = round.step /\ old.overtaken = TRUE BY <2>1, <2>2 DEF RoundRow
  <2>4. round' = IF round.step # "none" THEN old ELSE round BY <2>2 DEF RoundOvertaken
  <2> QED BY <2>1, <2>3, <2>4
<1>3. ASSUME NEW n \in Members
      PROVE  /\ hand'[n].step \in {"drag", "drop", "insert"} => hand'[n].overtaken
             /\ hand'[n].step \in {"drop", "insert"} => hand'[n].to \in Nat
  <2>1. PICK h : h = hand[n] OBVIOUS
  <2>2. h \in HandRow(S) /\ (h.step \in {"drop", "insert"} => h.to \in Nat)
    BY <1>1, <2>1 DEF OrderInv, Placed
  <2>3. PICK old : old = [h EXCEPT !.overtaken = TRUE] OBVIOUS
  <2>4. old.step = h.step /\ old.to = h.to /\ old.overtaken = TRUE BY <2>2, <2>3 DEF HandRow
  <2>5. hand'[n] = IF n = m THEN Empty
                   ELSE IF h.step \in {"drag", "drop", "insert"} THEN old ELSE h
    BY <2>1, <2>3 DEF Outdates
  <2>6. Empty.step = "idle" BY DEF Empty
  <2> QED BY <2>2, <2>4, <2>5, <2>6
<1>4. Placed' BY <1>2, <1>3 DEF Placed
<1>5. HandsAim' BY <1>3 DEF HandsAim
<1>6. OrderIsTheirs' BY <1>2 DEF OrderIsTheirs
<1> QED BY <1>2, <1>4, <1>5, <1>6 DEF OrderInv

LEMMA Halfway ==
  ASSUME Placed, NEW x \in Shown \cup {0}, NEW y \in Shown \cup {0}, NEW to, to = positionBetween(x, y)
  PROVE  /\ to \in Nat \cup {NoRoom}
         /\ to \in Nat => (x # 0 => position[x] < to) /\ (y # 0 => to < position[y])
<1>1. POSITION_GAP \in Nat /\ POSITION_GAP > 0 BY TodoOrderAssumption
<1>2. (x # 0 => position[x] \in Nat) /\ (y # 0 => position[y] \in Nat) BY ShownIs
<1>3. CASE x = 0 /\ y = 0 BY <1>1, <1>3 DEF positionBetween
<1>4. CASE x = 0 /\ y # 0
  <2>1. PICK b \in Nat : b = position[y] BY <1>2, <1>4
  <2>2. to = IF b > 1 THEN b \div 2 ELSE -1 BY <1>4, <2>1 DEF positionBetween, NoRoom
  <2>3. b > 1 => b \div 2 \in Nat /\ b \div 2 < b OBVIOUS
  <2> QED BY <1>4, <2>1, <2>2, <2>3 DEF NoRoom
<1>5. CASE x # 0 /\ y = 0 BY <1>1, <1>2, <1>5 DEF positionBetween
<1>6. CASE x # 0 /\ y # 0
  <2>1. PICK a \in Nat, b \in Nat : a = position[x] /\ b = position[y] BY <1>2, <1>6
  <2>2. to = IF b - a <= 1 THEN -1 ELSE a + (b - a) \div 2 BY <1>6, <2>1 DEF positionBetween, NoRoom
  <2>3. ASSUME ~(b - a <= 1) PROVE a + (b - a) \div 2 \in Nat /\ a < a + (b - a) \div 2 /\ a + (b - a) \div 2 < b
    BY <2>3
  <2> QED BY <1>6, <2>1, <2>2, <2>3 DEF NoRoom
<1> QED BY <1>3, <1>4, <1>5, <1>6

LEMMA HandsKeep ==
  ASSUME OrderInv, BoxesInv', NEW m \in Members,
         \/ StartAppend(m) \/ PlaceDrag(m) \/ GiveUpTodo(m) \/ SaveTick(m)
         \/ \E t \in TodoIds : StartDrag(m, t) \/ LoadTodo(m, t)
  PROVE  OrderInv'
<1>1. UNCHANGED <<position, removed, round, arranged>>
  BY DEF StartAppend, PlaceDrag, GiveUpTodo, SaveTick, StartDrag, LoadTodo
<1>2. PICK S : hand \in [Members -> HandRow(S)] BY DEF OrderInv, BoxesInv
<1>3. Placed BY DEF OrderInv
<1>4. TodoIds' = TodoIds /\ Shown' = Shown BY <1>1 DEF TodoIds, Shown
<1>5. Empty.step = "idle" BY DEF Empty
<1>6. ASSUME NEW x, hand' = [hand EXCEPT ![m] = x], x.step \notin {"drag", "drop", "insert"}
      PROVE  OrderInv'
  <2>1. hand'[m] = x /\ \A n \in Members \ {m} : hand'[n] = hand[n] BY <1>2, <1>6
  <2> QED BY <1>1, <1>6, <2>1, OwnHand
<1>7. CASE GiveUpTodo(m) BY <1>5, <1>6, <1>7 DEF GiveUpTodo
<1>8. CASE SaveTick(m) BY <1>5, <1>6, <1>8 DEF SaveTick
<1>9. ASSUME NEW t, LoadTodo(m, t) PROVE OrderInv'
  <2>1. hand'[m].step = "tick" /\ \A n \in Members \ {m} : hand'[n] = hand[n]
    <3>1. PICK a : a = [hand EXCEPT ![m].step = "tick"] OBVIOUS
    <3>2. PICK b : b = [a EXCEPT ![m].todo = t] OBVIOUS
    <3>3. hand' = [b EXCEPT ![m].loaded = ticked[t]] BY <1>9, <3>1, <3>2 DEF LoadTodo
    <3>4. DOMAIN a = Members /\ a[m].step = "tick" /\ \A n \in Members \ {m} : a[n] = hand[n]
      BY <1>2, <3>1 DEF HandRow
    <3>5. DOMAIN b = Members /\ b[m].step = "tick" /\ \A n \in Members \ {m} : b[n] = hand[n]
      BY <3>2, <3>4
    <3> QED BY <3>3, <3>5
  <2> QED BY <1>1, <2>1, OwnHand
<1>10. CASE StartAppend(m)
  <2>1. PICK to : to = nextPosition(Shown) OBVIOUS
  <2>2. to \in Nat /\ \A t \in Shown : position[t] < to BY <1>3, <2>1, NextIs
  <2>3. PICK x : x = [Empty EXCEPT !.step = "insert", !.to = to, !.overtaken = round.step = "write"]
    OBVIOUS
  <2>4. x.step = "insert" /\ x.to = to /\ x.overtaken = (round.step = "write") BY <2>3 DEF Empty
  <2>5. hand' = [hand EXCEPT ![m] = x] BY <1>10, <2>1, <2>3 DEF StartAppend
  <2>6. hand'[m] = x /\ \A n \in Members \ {m} : hand'[n] = hand[n] BY <1>2, <2>5
  <2>7. Aims(hand[m])' BY <1>1, <1>4, <2>2, <2>4, <2>6 DEF Aims
  <2> QED BY <1>1, <2>2, <2>4, <2>6, <2>7, OwnHand
<1>11. ASSUME NEW t \in TodoIds, StartDrag(m, t) PROVE OrderInv'
  <2>1. PICK before, after \in (Shown \ {t}) \cup {0} :
          /\ Neighbours(t, before, after)
          /\ hand' = [hand EXCEPT ![m] =
               [Empty EXCEPT !.step = "drag", !.todo = t, !.before = before, !.after = after,
                             !.overtaken = round.step = "write"]]
    BY <1>11 DEF StartDrag
  <2>2. PICK x : x = [Empty EXCEPT !.step = "drag", !.todo = t, !.before = before, !.after = after,
                                   !.overtaken = round.step = "write"]
    OBVIOUS
  <2>3. /\ x.step = "drag" /\ x.todo = t /\ x.before = before /\ x.after = after
        /\ x.overtaken = (round.step = "write")
    BY <2>2 DEF Empty
  <2>4. hand'[m] = x /\ \A n \in Members \ {m} : hand'[n] = hand[n] BY <1>2, <2>1, <2>2
  <2>5. t \in Shown BY <1>11 DEF StartDrag
  <2>6. Neighbours(t, before, after)' BY <1>1, <1>4, <2>1 DEF Neighbours, Above
  <2>7. Aims(hand[m])' BY <1>1, <1>4, <2>1, <2>3, <2>4, <2>5, <2>6 DEF Aims
  <2> QED BY <1>1, <2>3, <2>4, <2>7, OwnHand
<1>12. CASE PlaceDrag(m)
  <2>1. CASE hand' = [hand EXCEPT ![m] = Empty] BY <1>5, <1>6, <2>1
  <2>2. PICK h : h = hand[m] OBVIOUS
  <2>3. PICK to : to = positionBetween(Found(h.before), Found(h.after)) OBVIOUS
  <2>4. CASE h.todo \in Shown /\ to # NoRoom /\ hand' = [hand EXCEPT ![m].step = "drop", ![m].to = to]
    <3>1. h \in HandRow(S) BY <1>2, <2>2
    <3>2. \A n \in Members \ {m} : hand'[n] = hand[n] BY <1>2, <2>4
    <3>3. /\ hand'[m].step = "drop" /\ hand'[m].to = to /\ hand'[m].todo = h.todo
          /\ hand'[m].before = h.before /\ hand'[m].after = h.after
          /\ hand'[m].overtaken = h.overtaken
      BY <1>2, <2>2, <2>4, <3>1 DEF HandRow
    <3>4. \A t : Found(t) \in Shown \cup {0} BY DEF Found
    <3>5. to \in Nat BY <1>3, <2>3, <2>4, <3>4, Halfway
    <3>6. ASSUME ~h.overtaken PROVE round.step # "write" /\ Aims(hand[m])'
      <4>1. h.step = "drag" BY <1>12, <2>2 DEF PlaceDrag
      <4>2. round.step # "write" /\ Aims(h) BY <2>2, <3>6, <4>1 DEF OrderInv, HandsAim
      <4>3. Found(h.before) = h.before /\ Found(h.after) = h.after
        BY <1>3, <4>1, <4>2, ShownIs DEF Aims, Found
      <4>4. to = positionBetween(h.before, h.after) BY <2>3, <4>3
      <4>5. /\ h.before \in (Shown \ {h.todo}) \cup {0} /\ h.after \in (Shown \ {h.todo}) \cup {0}
            /\ Neighbours(h.todo, h.before, h.after)
        BY <4>1, <4>2 DEF Aims
      <4>7. PICK t, x, y : t = h.todo /\ x = h.before /\ y = h.after OBVIOUS
      <4>8. Neighbours(t, x, y)' BY <1>1, <1>4, <4>5, <4>7 DEF Neighbours, Above
      <4>9. to = positionBetween(x, y)' BY <1>1, <4>4, <4>7 DEF positionBetween, NoRoom
      <4>10. Aims(hand[m])' BY <1>4, <2>4, <3>3, <4>5, <4>7, <4>8, <4>9 DEF Aims
      <4> QED BY <4>2, <4>10
    <3> QED BY <1>1, <3>2, <3>3, <3>5, <3>6, OwnHand
  <2> QED BY <1>12, <2>1, <2>2, <2>3, <2>4 DEF PlaceDrag
<1> QED BY <1>7, <1>8, <1>9, <1>10, <1>11, <1>12

\* p is position but for row t.
RewroteOne(p, t) ==
  /\ p \in Seq(Nat) /\ Len(p) = Len(position)
  /\ \E b \in Nat : \A u \in TodoIds : p[u] <= b
  /\ \A u \in TodoIds \ {t} : p[u] = position[u]

LEMMA Rewritten ==
  ASSUME Placed, NEW t, NEW to \in Nat, NEW p, p = Put(t, to) \/ p = [position EXCEPT ![t] = to]
  PROVE  RewroteOne(p, t) /\ (t \in Shown => p[t] = to)
<1>1. PICK n \in Nat : n = Len(position) BY DEF Placed
<1>2. position \in [1..n -> Nat] /\ TodoIds = 1..n BY <1>1 DEF Placed, TodoIds
<1>3. PICK b \in Nat : \A u \in TodoIds : position[u] <= b BY DEF Placed
<1>4. CASE p = position /\ t \in removed
  <2>1. t \notin Shown BY <1>4 DEF Shown
  <2> QED BY <1>3, <1>4, <2>1 DEF Placed, RewroteOne
<1>5. CASE p = [position EXCEPT ![t] = to]
  <2>1. p \in [1..n -> Nat] /\ DOMAIN p = 1..n BY <1>2, <1>5
  <2>2. p \in Seq(Nat) BY <2>1
  <2>3. Len(p) = n BY <2>1, <2>2
  <2>4. \A u \in TodoIds : p[u] = IF u = t THEN to ELSE position[u] BY <1>2, <1>5
  <2>5. PICK c \in Nat : to <= c /\ b <= c BY <1>3
  <2>6. ASSUME NEW u \in TodoIds PROVE p[u] <= c
    <3>1. position[u] \in Nat /\ position[u] <= b BY <1>2, <1>3
    <3> QED BY <1>3, <2>4, <2>5, <3>1
  <2>7. Shown \subseteq TodoIds BY DEF Shown
  <2> QED BY <1>1, <2>2, <2>3, <2>4, <2>6, <2>7 DEF RewroteOne
<1> QED BY <1>4, <1>5 DEF Put

LEMMA InsertKeeps ==
  ASSUME OrderInv, BoxesInv', NEW m \in Members, InsertTodo(m)
  PROVE  OrderInv'
<1>1. Placed /\ HandsAim /\ OrderIsTheirs BY DEF OrderInv
<1>2. PICK n, to : n \in Nat /\ n = Len(position) /\ to = hand[m].to BY <1>1 DEF Placed
<1>3. PICK k : k = n + 1 OBVIOUS
<1>4. to \in Nat BY <1>1, <1>2 DEF InsertTodo, Placed
<1>5. position' = Append(position, to) /\ hand' = Outdates(m) /\ round' = RoundOvertaken
      /\ removed' = removed
  BY <1>2 DEF InsertTodo
<1>6. position' \in Seq(Nat) /\ Len(position') = k BY <1>1, <1>2, <1>3, <1>4, <1>5 DEF Placed
<1>7. position'[k] = to /\ \A t \in TodoIds : position'[t] = position[t]
  BY <1>1, <1>2, <1>3, <1>4, <1>5 DEF Placed, TodoIds
<1>8. TodoIds' = TodoIds \cup {k} /\ k \notin TodoIds BY <1>2, <1>3, <1>6 DEF TodoIds
<1>9. removed' \subseteq TodoIds' /\ Shown' = Shown \cup {k} /\ k \in Nat \ Shown
  BY <1>1, <1>2, <1>3, <1>5, <1>8 DEF Placed, Shown
<1>10. \E b \in Nat : \A t \in TodoIds' : position'[t] <= b
  <2>1. PICK b \in Nat : \A t \in TodoIds : position[t] <= b BY <1>1 DEF Placed
  <2>2. PICK c \in Nat : to <= c /\ b <= c BY <1>4
  <2>3. ASSUME NEW t \in TodoIds' PROVE position'[t] <= c
    <3>1. CASE t = k BY <1>7, <2>2, <3>1
    <3>2. CASE t \in TodoIds
      <4>1. position[t] \in Nat /\ position[t] <= b BY <1>1, <2>1, <3>2 DEF Placed, TodoIds
      <4> QED BY <1>7, <2>2, <3>2, <4>1
    <3> QED BY <1>8, <3>1, <3>2
  <2> QED BY <2>3
<1>11. ASSUME round.step # "write" PROVE arranged' = Screen(position', Shown')
  <2>1. arranged' = IF hand[m].overtaken THEN Screen(position', Shown \cup {k}) ELSE Last(arranged, k)
    BY <1>2, <1>3, <1>11 DEF InsertTodo, Rearranged
  <2>2. CASE hand[m].overtaken BY <1>9, <2>1, <2>2
  <2>3. CASE ~hand[m].overtaken
    <3>1. \A t \in Shown : position[t] < to
      BY <1>1, <1>2, <2>3 DEF HandsAim, Aims, InsertTodo
    <3>2. Screen(position', Shown \cup {k}) = Last(Screen(position, Shown), k)
      <4>1. \A t \in Shown : position[t] \in Nat /\ t \in TodoIds BY <1>1, ShownIs DEF Shown
      <4>2. PICK p : p = position' OBVIOUS
      <4> QED BY <1>1, <1>4, <1>7, <1>9, <3>1, <4>1, <4>2, ShownIs, AppendedLast
    <3> QED BY <1>1, <1>9, <1>11, <2>1, <2>3, <3>2 DEF OrderIsTheirs
  <2> QED BY <2>2, <2>3
<1> QED BY <1>5, <1>6, <1>9, <1>10, <1>11, Told

LEMMA DragKeeps ==
  ASSUME OrderInv, BoxesInv', NEW m \in Members, SaveDrag(m)
  PROVE  OrderInv'
<1>1. Placed /\ HandsAim /\ OrderIsTheirs BY DEF OrderInv
<1>2. PICK t, x, y, to : t = hand[m].todo /\ x = hand[m].before /\ y = hand[m].after /\ to = hand[m].to
  OBVIOUS
<1>3. to \in Nat BY <1>1, <1>2 DEF SaveDrag, Placed
<1>4. PICK p : p = Put(t, to) OBVIOUS
<1>5. position' = p /\ hand' = Outdates(m) /\ round' = RoundOvertaken /\ removed' = removed
  BY <1>2, <1>4 DEF SaveDrag
<1>6. /\ p \in Seq(Nat) /\ Len(p) = Len(position)
      /\ \E b \in Nat : \A u \in TodoIds : p[u] <= b
      /\ \A u \in TodoIds \ {t} : p[u] = position[u]
      /\ t \in Shown => p[t] = to
  BY <1>1, <1>3, <1>4, Rewritten DEF RewroteOne
<1>7. TodoIds' = TodoIds /\ Shown' = Shown BY <1>5, <1>6 DEF TodoIds, Shown
<1>8. ASSUME round.step # "write" PROVE arranged' = Screen(p, Shown)
  <2>1. CASE t \notin Shown
    <3>1. arranged' = arranged BY <1>2, <2>1 DEF SaveDrag
    <3>2. \A u \in Shown : p[u] = position[u] BY <1>6, <2>1 DEF Shown
    <3>3. Screen(p, Shown) = Screen(position, Shown) BY <3>2, SameScreen DEF Above
    <3> QED BY <1>1, <1>8, <3>1, <3>3 DEF OrderIsTheirs
  <2>2. CASE t \in Shown
    <3>1. arranged' = IF hand[m].overtaken THEN Screen(position', Shown)
                      ELSE IF x = 0 /\ y = 0 THEN arranged ELSE Between(arranged, t, x, y)
      BY <1>2, <1>8, <2>2 DEF SaveDrag, Rearranged
    <3>2. CASE hand[m].overtaken BY <1>5, <3>1, <3>2
    <3>3. CASE ~hand[m].overtaken
      <4>1. hand[m].step = "drop" BY DEF SaveDrag
      <4>2. Aims(hand[m]) BY <1>1, <3>3, <4>1 DEF HandsAim
      <4>3. /\ x \in (Shown \ {t}) \cup {0} /\ y \in (Shown \ {t}) \cup {0}
            /\ Neighbours(t, x, y) /\ to = positionBetween(x, y)
        BY <1>2, <4>1, <4>2 DEF Aims
      <4>4. (x # 0 => position[x] < to) /\ (y # 0 => to < position[y])
        BY <1>1, <1>3, <4>3, Halfway
      <4>5. \A u \in Shown \ {t} :
              (x # 0 /\ (u = x \/ Above(position, u, x))) # (y # 0 /\ (u = y \/ Above(position, y, u)))
        BY <4>3 DEF Neighbours
      <4>6. p[t] = to /\ \A u \in Shown \ {t} : p[u] = position[u] BY <1>6, <2>2 DEF Shown
      <4>7. Shown \in SUBSET (Nat \ {0}) /\ \A u \in Shown : position[u] \in Nat BY <1>1, ShownIs
      <4>8. Screen(p, Shown) = IF x = 0 /\ y = 0 THEN Screen(position, Shown)
                               ELSE Between(Screen(position, Shown), t, x, y)
        BY <1>3, <2>2, <4>3, <4>4, <4>5, <4>6, <4>7, DroppedBetween
      <4>9. arranged = Screen(position, Shown) BY <1>1, <1>8 DEF OrderIsTheirs
      <4>10. arranged' = IF x = 0 /\ y = 0 THEN arranged ELSE Between(arranged, t, x, y)
        BY <3>1, <3>3
      <4> QED BY <4>8, <4>9, <4>10
    <3> QED BY <3>2, <3>3
  <2> QED BY <2>1, <2>2
<1>9. removed' \subseteq TodoIds' BY <1>1, <1>5, <1>7 DEF Placed
<1> QED BY <1>5, <1>6, <1>7, <1>8, <1>9, Told

LEMMA NumberKeeps ==
  ASSUME OrderInv, BoxesInv', NEW m \in Members, NEW t \in TodoIds, NEW to \in ApiPositions,
         SetPosition(m, t, to)
  PROVE  OrderInv'
<1>1. Placed /\ to \in Nat BY TodoOrderAssumption DEF OrderInv
<1>2. PICK p : p = Put(t, to) OBVIOUS
<1>3. position' = p /\ hand' = Outdates(m) /\ round' = RoundOvertaken /\ removed' = removed
      /\ arranged' = Screen(p, Shown)
  BY <1>2 DEF SetPosition
<1>4. p \in Seq(Nat) /\ Len(p) = Len(position) /\ \E b \in Nat : \A u \in TodoIds : p[u] <= b
  BY <1>1, <1>2, Rewritten DEF RewroteOne
<1>5. TodoIds' = TodoIds /\ Shown' = Shown BY <1>3, <1>4 DEF TodoIds, Shown
<1>6. removed' \subseteq TodoIds' BY <1>1, <1>3, <1>5 DEF Placed
<1> QED BY <1>3, <1>4, <1>5, <1>6, Told

LEMMA DeleteKeeps ==
  ASSUME OrderInv, BoxesInv', NEW m \in Members, NEW t \in TodoIds, DeleteTodo(m, t)
  PROVE  OrderInv'
<1>1. Placed /\ OrderIsTheirs BY DEF OrderInv
<1>2. PICK to \in Nat : to = 0 OBVIOUS
<1>3. PICK p : p = [position EXCEPT ![t] = to] OBVIOUS
<1>4. p = Put(t, to) \/ p = [position EXCEPT ![t] = to] BY <1>3
<1>5. position' = p /\ hand' = Outdates(m) /\ round' = RoundOvertaken
      /\ removed' = removed \cup {t} /\ arranged' = Without(arranged, t)
  BY <1>2, <1>3 DEF DeleteTodo
<1>6. /\ p \in Seq(Nat) /\ Len(p) = Len(position)
      /\ \E b \in Nat : \A u \in TodoIds : p[u] <= b
      /\ \A u \in TodoIds \ {t} : p[u] = position[u]
  BY <1>1, <1>2, <1>4, Rewritten DEF RewroteOne
<1>7. TodoIds' = TodoIds /\ Shown' = Shown \ {t} BY <1>5, <1>6 DEF TodoIds, Shown
<1>8. removed' \subseteq TodoIds' BY <1>1, <1>5, <1>7 DEF Placed
<1>9. \A u \in Shown \ {t} : p[u] = position[u] BY <1>6 DEF Shown
<1>10. Screen(p, Shown \ {t}) = Without(Screen(position, Shown), t) BY <1>9, DeletedOut
<1>11. round.step # "write" => arranged' = Screen(position', Shown')
  BY <1>1, <1>5, <1>7, <1>10 DEF OrderIsTheirs
<1> QED BY <1>5, <1>6, <1>7, <1>8, <1>11, Told

LEMMA StartKeeps ==
  ASSUME OrderInv, BoxesInv', StartSpread
  PROVE  OrderInv'
<1>1. Placed /\ HandsAim /\ OrderIsTheirs BY DEF OrderInv
<1>2. PICK S : hand \in [Members -> HandRow(S)] BY DEF OrderInv, BoxesInv
<1>3. UNCHANGED <<position, removed, arranged>> /\ round.step = "none" BY DEF StartSpread
<1>4. TodoIds' = TodoIds /\ Shown' = Shown BY <1>3 DEF TodoIds, Shown
<1>5. arranged = Screen(position, Shown) BY <1>1, <1>3 DEF OrderIsTheirs
<1>6. PICK was \in [Shown -> Nat] : was = [t \in Shown |-> position[t]] BY <1>1, ShownIs
<1>7. arranged = Screen(was, Shown)
  <2>1. Screen(position, Shown) = Screen(was, Shown) BY <1>6, SameScreen DEF Above
  <2> QED BY <1>5, <2>1
<1>8. \A t \in Shown : Wanted(arranged, t) \in Nat BY <1>1, <1>7, ShownIs, WantedGrow
<1>9. PICK writes : writes = Writes(arranged) OBVIOUS
<1>10. round' = [step |-> "write", writes |-> writes, overtaken |-> FALSE]
  BY <1>5, <1>9 DEF StartSpread
<1>11. DOMAIN arranged = Shown BY <1>5 DEF Screen
<1>12. writes = {<<t, Wanted(arranged, t)>> : t \in {u \in Shown : position[u] # Wanted(arranged, u)}}
  BY <1>9, <1>11 DEF Writes
<1>13. writes \subseteq Nat \X Nat
  <2>1. Shown \subseteq Nat BY <1>1, ShownIs
  <2> QED BY <1>8, <1>12, <2>1
<1>14. round' \in RoundRow BY <1>10, <1>13 DEF RoundRow
<1>15. ASSUME NEW n \in Members
       PROVE  /\ hand'[n].step \in {"drag", "drop", "insert"} => hand'[n].overtaken
              /\ hand'[n].step \in {"drop", "insert"} => hand'[n].to \in Nat
  <2>1. PICK h : h = hand[n] OBVIOUS
  <2>2. h \in HandRow(S) /\ (h.step \in {"drop", "insert"} => h.to \in Nat)
    BY <1>1, <1>2, <2>1 DEF Placed
  <2>3. PICK old : old = [h EXCEPT !.overtaken = TRUE] OBVIOUS
  <2>4. old.step = h.step /\ old.to = h.to /\ old.overtaken = TRUE BY <2>2, <2>3 DEF HandRow
  <2>5. hand'[n] = IF h.step \in {"drag", "drop", "insert"} THEN old ELSE h
    BY <2>1, <2>3 DEF StartSpread
  <2> QED BY <2>2, <2>4, <2>5
<1>16. Placed' BY <1>1, <1>3, <1>4, <1>14, <1>15 DEF Placed
<1>17. HandsAim' BY <1>15 DEF HandsAim
<1>18. OrderIsTheirs' BY <1>10 DEF OrderIsTheirs
<1>19. Spreads'
  <2>1. \E a \in [Shown' -> Nat] : arranged' = Screen(a, Shown') BY <1>3, <1>4, <1>7
  <2>2. \A w \in writes : w[1] \in Shown /\ w[2] = Wanted(arranged, w[1]) BY <1>12
  <2>3. \A t \in Shown : position[t] = Wanted(arranged, t) \/ <<t, Wanted(arranged, t)>> \in writes
    BY <1>12
  <2>4. \A t : Wanted(arranged, t)' = Wanted(arranged, t) BY <1>3 DEF Wanted, normalisedPosition
  <2>5. round'.writes = writes /\ round'.step = "write" BY <1>10
  <2> QED BY <1>3, <1>4, <2>1, <2>2, <2>3, <2>4, <2>5 DEF Spreads
<1> QED BY <1>16, <1>17, <1>18, <1>19 DEF OrderInv

LEMMA WriteKeeps ==
  ASSUME OrderInv, BoxesInv', WriteSpread
  PROVE  OrderInv'
<1>1. Placed /\ HandsAim BY DEF OrderInv
<1>2. PICK w \in round.writes : WriteRow(w) BY DEF WriteSpread
<1>3. PICK t \in Nat, to \in Nat : w = <<t, to>> BY <1>1, <1>2 DEF Placed, RoundRow
<1>4. PICK p, left : p = Put(t, to) /\ left = round.writes \ {w} OBVIOUS
<1>5. /\ position' = p /\ UNCHANGED <<removed, hand>>
      /\ round' = [round EXCEPT !.writes = left, !.step = IF left = {} THEN "written" ELSE "write"]
      /\ arranged' = IF left = {} /\ round.overtaken THEN Screen(position', Shown) ELSE arranged
  BY <1>2, <1>3, <1>4 DEF WriteRow
<1>6. /\ p \in Seq(Nat) /\ Len(p) = Len(position)
      /\ \E b \in Nat : \A u \in TodoIds : p[u] <= b
      /\ \A u \in TodoIds \ {t} : p[u] = position[u]
      /\ t \in Shown => p[t] = to
  BY <1>1, <1>3, <1>4, Rewritten DEF RewroteOne
<1>7. TodoIds' = TodoIds /\ Shown' = Shown BY <1>5, <1>6 DEF TodoIds, Shown
<1>8. PICK step : step = IF left = {} THEN "written" ELSE "write" OBVIOUS
<1>9. round' \in RoundRow /\ round'.step = step /\ round'.writes = left
      /\ round'.overtaken = round.overtaken
  BY <1>1, <1>4, <1>5, <1>8 DEF Placed, RoundRow
<1>10. Placed' BY <1>1, <1>5, <1>6, <1>7, <1>9 DEF Placed
<1>11. HandsAim' BY <1>1, <1>5 DEF HandsAim, WriteSpread
<1>12. ASSUME ~round.overtaken PROVE Spreads' /\ (left = {} => arranged' = Screen(position', Shown'))
  <2>1. Spreads BY <1>12 DEF OrderInv, WriteSpread
  <2>2. arranged' = arranged BY <1>5, <1>12
  <2>3. \A u : Wanted(arranged, u)' = Wanted(arranged, u) BY <2>2 DEF Wanted, normalisedPosition
  <2>4. PICK was \in [Shown -> Nat] : arranged = Screen(was, Shown) BY <2>1 DEF Spreads
  <2>5. to = Wanted(arranged, t) /\ t \in Shown BY <1>2, <1>3, <2>1 DEF Spreads
  <2>6. \A v \in left : v[1] \in Shown /\ v[2] = Wanted(arranged, v[1]) BY <1>4, <2>1 DEF Spreads
  <2>7. ASSUME NEW u \in Shown
        PROVE  p[u] = Wanted(arranged, u) \/ <<u, Wanted(arranged, u)>> \in left
    <3>1. CASE u = t BY <1>6, <2>5, <3>1
    <3>2. CASE u # t
      <4>1. p[u] = position[u] BY <1>6, <3>2 DEF Shown
      <4>2. <<u, Wanted(arranged, u)>> # w BY <1>3, <3>2
      <4> QED BY <1>4, <2>1, <4>1, <4>2 DEF Spreads
    <3> QED BY <3>1, <3>2
  <2>8. \E a \in [Shown' -> Nat] : arranged' = Screen(a, Shown') BY <1>7, <2>2, <2>4
  <2>9. Spreads' BY <1>5, <1>7, <1>8, <1>9, <2>2, <2>3, <2>6, <2>7, <2>8 DEF Spreads
  <2>10. ASSUME left = {} PROVE arranged' = Screen(position', Shown')
    <3>1. \A u \in Shown : p[u] = Wanted(arranged, u) BY <2>7, <2>10
    <3>2. Screen(p, Shown) = arranged BY <1>1, <2>4, <3>1, ShownIs, SpreadOut
    <3> QED BY <1>5, <1>7, <2>2, <3>2
  <2> QED BY <2>9, <2>10
<1>13. OrderIsTheirs' BY <1>5, <1>7, <1>8, <1>9, <1>12 DEF OrderIsTheirs
<1> QED BY <1>9, <1>10, <1>11, <1>12, <1>13 DEF OrderInv

LEMMA StopKeeps ==
  ASSUME OrderInv, BoxesInv', EndSpread \/ KillSpread
  PROVE  OrderInv'
<1>1. Placed /\ HandsAim /\ OrderIsTheirs BY DEF OrderInv
<1>2. UNCHANGED <<position, removed, hand>> /\ round' = NotSpreading BY DEF EndSpread, KillSpread
<1>3. TodoIds' = TodoIds /\ Shown' = Shown BY <1>2 DEF TodoIds, Shown
<1>4. round' \in RoundRow /\ round'.step = "none" BY <1>2 DEF NotSpreading, RoundRow
<1>5. Placed' BY <1>1, <1>2, <1>3, <1>4 DEF Placed
<1>6. \A n \in Members : Aims(hand[n])' <=> Aims(hand[n])
  BY <1>2, <1>3 DEF Aims, Neighbours, Above, positionBetween, NoRoom
<1>7. HandsAim' BY <1>1, <1>2, <1>4, <1>6 DEF HandsAim
<1>8. arranged' = Screen(position, Shown) BY <1>1 DEF EndSpread, KillSpread, OrderIsTheirs
<1>9. OrderIsTheirs' BY <1>2, <1>3, <1>8 DEF OrderIsTheirs
<1> QED BY <1>4, <1>5, <1>7, <1>9 DEF OrderInv

LEMMA NextOrder == OrderInv /\ [TodoNext]_todoVars => OrderInv'
<1> SUFFICES ASSUME OrderInv, [TodoNext]_todoVars PROVE OrderInv' OBVIOUS
<1>1. BoxesInv' BY NextBoxes DEF OrderInv
<1>2. CASE OrderNext
  <2>1. CASE SpreadNext BY <1>1, <2>1, StartKeeps, WriteKeeps, StopKeeps DEF SpreadNext
  <2> QED BY <1>1, <1>2, <2>1, HandsKeep, InsertKeeps, DragKeeps, DeleteKeeps DEF OrderNext
<1>3. CASE NumberNext BY <1>1, <1>3, NumberKeeps DEF NumberNext
<1>4. CASE TickNext BY <1>1, <1>4, HandsKeep DEF TickNext
<1>5. CASE UNCHANGED todoVars
  <2>1. UNCHANGED <<position, removed, hand, round, arranged>> BY <1>5 DEF todoVars
  <2>2. TodoIds' = TodoIds /\ Shown' = Shown BY <2>1 DEF TodoIds, Shown
  <2>3. Placed' BY <2>1, <2>2 DEF OrderInv, Placed
  <2>4. \A n \in Members : Aims(hand[n])' <=> Aims(hand[n])
    BY <2>1, <2>2 DEF Aims, Neighbours, Above, positionBetween, NoRoom
  <2>5. HandsAim' BY <2>1, <2>4 DEF OrderInv, HandsAim
  <2>6. OrderIsTheirs' BY <2>1, <2>2 DEF OrderInv, OrderIsTheirs, Screen, Above
  <2> QED BY <1>1, <2>1, <2>2, <2>3, <2>5, <2>6, SameSpread DEF OrderInv
<1> QED BY <1>2, <1>3, <1>4, <1>5 DEF TodoNext

\* For any members, rows, gaps and numbers set by clients: the order on the
\* screen is the one its members made, a renumbering that nobody wrote into
\* changes nothing of it and leaves room between any two, and a todo is done
\* exactly if it says by whom (todo_service.ts, normalize_positions_job.ts).
THEOREM TodosHold == TodoSpec => []TodosSafe
<1>1. ASSUME OrderInv PROVE TodosSafe
  <2>1. RoomAfterSpreading
    <3>1. ASSUME round.step = "written", ~round.overtaken
          PROVE  \A t, u \in Shown : Above(position, t, u) => position[u] - position[t] > 1
      <4>1. Spreads /\ Placed BY <1>1, <3>1 DEF OrderInv
      <4>2. PICK was \in [Shown -> Nat] : arranged = Screen(was, Shown) BY <4>1 DEF Spreads
      <4>3. \A t \in Shown : position[t] = Wanted(arranged, t) BY <3>1, <4>1 DEF Spreads
      <4> QED BY <4>1, <4>2, <4>3, ShownIs, SpreadOut
    <3> QED BY <3>1 DEF RoomAfterSpreading
  <2>2. DoneSaysWho BY <1>1 DEF OrderInv, BoxesInv, DoneSaysWho, TodoIds, TickRow
  <2> QED BY <1>1, <2>1, <2>2 DEF OrderInv, TodosSafe
<1> QED BY <1>1, InitOrder, NextOrder, PTL DEF TodoSpec
=============================================================================
