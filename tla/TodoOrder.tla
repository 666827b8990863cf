----------------------------- MODULE TodoOrder -----------------------------
(***************************************************************************)
(* The todos of one list in the order its members keep them in, and the    *)
(* boxes they tick (todo_service.ts, position.ts, the two todo             *)
(* controllers). Positions are sparse: a drag writes one row, halfway      *)
(* between its new neighbours, and when there is no half left a job        *)
(* spreads the list out row by row (normalize_positions_job.ts). Nothing   *)
(* here but adding locks anything.                                         *)
(***************************************************************************)
EXTENDS Integers, Sequences, FiniteSetsExt, Lucid

CONSTANTS
  Members,        \* people or API clients with a request each
  POSITION_GAP,
  MembersDo,      \* bound: what each of them does
  ApiPositions,   \* positions an API client may set
  MaxTodoRows,    \* bound on the rows that may come to be
  MaxPosition,    \* bound on positions
  MaxRemoved,     \* bound on the rows deleted
  Nobody

ASSUME TodoOrderAssumption ==
  /\ POSITION_GAP \in Nat \ {0, 1} /\ ApiPositions \subseteq Nat
  /\ MembersDo \in [Members -> SUBSET {"append", "drag", "delete"}]
  /\ MaxTodoRows \in Nat /\ MaxPosition \in Nat /\ MaxRemoved \in Nat
  /\ Nobody \notin Members

VARIABLES
  position,       \* of each row made so far, numbered by id
  removed,        \* rows with deleted_at
  ticked,         \* completed_at (is there one) and completed_by_user_id
  hand,           \* what each member's request has loaded and decided
  round,          \* the renumbering: rows still to write, and whether the
                  \* list has changed under it
  arranged        \* history: the order as its members left it, as what is
                  \* above each todo

todoVars == <<position, removed, ticked, hand, round, arranged>>

TodoIds == 1..Len(position)
Shown == TodoIds \ removed
Undone == [at |-> FALSE, by |-> Nobody]
Empty == [step |-> "idle", todo |-> 0, before |-> 0, after |-> 0, to |-> 0,
          loaded |-> Undone, overtaken |-> FALSE]
NotSpreading == [step |-> "none", writes |-> {}, overtaken |-> FALSE]

\* forList: by position, then by id.
Above(at, t, u) == at[t] < at[u] \/ (at[t] = at[u] /\ t < u)
\* Nobody reads the position of a deleted row: it is kept as 0.
Put(t, to) == IF t \in removed THEN position ELSE [position EXCEPT ![t] = to]
\* An order is what is above each of the rows it orders.
Screen(at, rows) == [t \in rows |-> {u \in rows : Above(at, u, t)}]

Last(order, t) == [u \in DOMAIN order \cup {t} |-> IF u = t THEN DOMAIN order ELSE order[u]]
Without(order, t) == [u \in DOMAIN order \ {t} |-> order[u] \ {t}]
\* Dropped below `above`, or at the top, above `below`.
Between(order, t, above, below) ==
  LET higher == (IF above # 0 THEN order[above] \cup {above} ELSE order[below]) \ {t}
  IN [u \in DOMAIN order |->
        IF u = t THEN higher
        ELSE (order[u] \ {t}) \cup (IF u \in higher THEN {} ELSE {t})]

TodoInit ==
  /\ position = <<>> /\ removed = {} /\ ticked = <<>>
  /\ hand = [m \in Members |-> Empty]
  /\ round = NotSpreading
  /\ arranged = Screen(position, Shown)

\* A write to the list makes what every other request decided from it old.
Outdates(m) ==
  [n \in Members |-> IF n = m THEN Empty
                     ELSE IF hand[n].step \in {"drag", "drop", "insert"}
                     THEN [hand[n] EXCEPT !.overtaken = TRUE] ELSE hand[n]]
RoundOvertaken == IF round.step # "none" THEN [round EXCEPT !.overtaken = TRUE] ELSE round

\* What the members mean by a write: `meant`, unless it went by an old view,
\* after which they go on from what they see.
Rearranged(m, meant, at, rows) ==
  arranged' = IF hand[m].overtaken \/ round.step = "write" THEN Screen(at, rows) ELSE meant

-----------------------------------------------------------------------------
(* Positions.                                                              *)

nextPosition(rows) ==
  IF rows = {} THEN POSITION_GAP ELSE Max({position[t] : t \in rows}) + POSITION_GAP

NoRoom == -1
FitsOnEqual(above, below) ==                                           \* mutant
  IF above = 0 /\ below = 0 THEN POSITION_GAP
  ELSE IF above = 0 THEN IF position[below] > 1 THEN position[below] \div 2 ELSE NoRoom
  ELSE IF below = 0 THEN position[above] + POSITION_GAP
  ELSE IF position[below] - position[above] <= 0 THEN NoRoom
  ELSE position[above] + (position[below] - position[above]) \div 2
\* A neighbour that is not there counts as none.
positionBetween(above, below) ==
  IF above = 0 /\ below = 0 THEN POSITION_GAP
  ELSE IF above = 0 THEN IF position[below] > 1 THEN position[below] \div 2 ELSE NoRoom
  ELSE IF below = 0 THEN position[above] + POSITION_GAP
  ELSE IF position[below] - position[above] <= 1 THEN NoRoom
  ELSE position[above] + (position[below] - position[above]) \div 2

normalisedPosition(index) == index * POSITION_GAP

-----------------------------------------------------------------------------
(* Adding at the end, under the lock of the list's row.                    *)

ListFree == \A m \in Members : hand[m].step # "insert"

StartAppend(m) ==
  /\ hand[m] = Empty /\ ListFree
  /\ Len(position) < MaxTodoRows /\ nextPosition(Shown) <= MaxPosition
  /\ hand' = [hand EXCEPT ![m] = [Empty EXCEPT
       !.step = "insert", !.to = nextPosition(Shown), !.overtaken = round.step = "write"]]
  /\ UNCHANGED <<position, removed, ticked, round, arranged>>

InsertTodo(m) ==
  LET t == Len(position) + 1 IN
  /\ hand[m].step = "insert"
  /\ position' = Append(position, hand[m].to)
  /\ ticked' = Append(ticked, Undone)
  /\ Rearranged(m, Last(arranged, t), position', Shown \cup {t})
  /\ hand' = Outdates(m) /\ round' = RoundOvertaken
  /\ UNCHANGED removed

-----------------------------------------------------------------------------
(* Dragging: the page says between which two, the handler looks them up,   *)
(* and the row is saved.                                                   *)

\* With t taken out, x and y are one after the other; 0 stands for the ends.
Neighbours(t, x, y) ==
  \A u \in Shown \ {t} :
    (x # 0 /\ (u = x \/ Above(position, u, x))) # (y # 0 /\ (u = y \/ Above(position, y, u)))

StartDrag(m, t) ==
  /\ hand[m] = Empty /\ t \in Shown
  /\ \E x, y \in (Shown \ {t}) \cup {0} :
       /\ Neighbours(t, x, y)
       /\ hand' = [hand EXCEPT ![m] =
            [Empty EXCEPT !.step = "drag", !.todo = t, !.before = x, !.after = y,
                          !.overtaken = round.step = "write"]]
  /\ UNCHANGED <<position, removed, ticked, round, arranged>>

Found(t) == IF t \in Shown THEN t ELSE 0

\* 404 if the todo is gone; 409 and a job if there is no room; and where it is
\* there already, there is nothing to write.
PlaceDrag(m) ==
  LET h == hand[m]
      to == positionBetween(Found(h.before), Found(h.after))
  IN /\ h.step = "drag" /\ to <= MaxPosition
     /\ IF h.todo \notin Shown \/ to \in {NoRoom, position[h.todo]}
        THEN hand' = [hand EXCEPT ![m] = Empty]
        ELSE hand' = [hand EXCEPT ![m].step = "drop", ![m].to = to]
     /\ UNCHANGED <<position, removed, ticked, round, arranged>>

SaveDrag(m) ==
  LET h == hand[m] IN
  /\ h.step = "drop"
  /\ position' = Put(h.todo, h.to)
  /\ IF h.todo \in Shown
     THEN Rearranged(m, IF h.before = 0 /\ h.after = 0 THEN arranged
                        ELSE Between(arranged, h.todo, h.before, h.after), position', Shown)
     ELSE UNCHANGED arranged
  /\ hand' = Outdates(m) /\ round' = RoundOvertaken
  /\ UNCHANGED <<removed, ticked>>

\* An API client sets the number itself; where that is, is where it meant.
SetPosition(m, t, to) ==
  /\ hand[m] = Empty /\ t \in Shown /\ to # position[t]
  /\ position' = Put(t, to)
  /\ arranged' = Screen(position', Shown)
  /\ hand' = Outdates(m) /\ round' = RoundOvertaken
  /\ UNCHANGED <<removed, ticked>>

DeleteTodo(m, t) ==
  /\ hand[m] = Empty /\ t \in Shown /\ Cardinality(removed) < MaxRemoved
  /\ removed' = removed \cup {t} /\ position' = [position EXCEPT ![t] = 0]
  /\ arranged' = Without(arranged, t)
  /\ hand' = Outdates(m) /\ round' = RoundOvertaken
  /\ UNCHANGED ticked

-----------------------------------------------------------------------------
(* Ticking: one button, which does the opposite of what the request loaded. *)

LoadTodo(m, t) ==
  /\ hand[m] = Empty /\ t \in Shown
  /\ hand' = [hand EXCEPT ![m].step = "tick", ![m].todo = t, ![m].loaded = ticked[t]]
  /\ UNCHANGED <<position, removed, ticked, round, arranged>>

OnlyTheTime(m) == [at |-> ~hand[m].loaded.at,                          \* mutant
                   by |-> IF hand[m].loaded.at THEN hand[m].loaded.by ELSE m]
Toggled(m) == [at |-> ~hand[m].loaded.at, by |-> IF hand[m].loaded.at THEN Nobody ELSE m]

SaveTick(m) ==
  /\ hand[m].step = "tick"
  /\ ticked' = [ticked EXCEPT ![hand[m].todo] = Saved(@, hand[m].loaded, Toggled(m))]
  /\ hand' = [hand EXCEPT ![m] = Empty]
  /\ UNCHANGED <<position, removed, round, arranged>>

GiveUpTodo(m) ==
  /\ hand[m].step # "idle"
  /\ hand' = [hand EXCEPT ![m] = Empty]
  /\ UNCHANGED <<position, removed, ticked, round, arranged>>

-----------------------------------------------------------------------------
(* The renumbering. The scheduler queues one a day and a refused drag one  *)
(* more, so it may run at any time, and after a kill it runs again.        *)

\* The rows whose position is not the one wanted, with the one wanted.
Wanted(order, t) == normalisedPosition(Cardinality(order[t]) + 1)
Writes(order) == {<<t, Wanted(order, t)>> : t \in {u \in DOMAIN order : position[u] # Wanted(order, u)}}

StartSpread ==
  LET writes == Writes(Screen(position, Shown)) IN
  /\ round.step = "none" /\ writes # {}
  /\ round' = [step |-> "write", writes |-> writes, overtaken |-> FALSE]
  /\ hand' = [m \in Members |->
       IF hand[m].step \in {"drag", "drop", "insert"}
       THEN [hand[m] EXCEPT !.overtaken = TRUE] ELSE hand[m]]
  /\ UNCHANGED <<position, removed, ticked, arranged>>

\* The next row down. A list that was changed meanwhile is as its members
\* then see it.
WriteRow(w) ==
  LET rest == round.writes \ {w} IN
  /\ position' = Put(w[1], w[2])
  /\ round' = [round EXCEPT !.writes = rest, !.step = IF rest = {} THEN "written" ELSE "write"]
  /\ arranged' = IF rest = {} /\ round.overtaken THEN Screen(position', Shown) ELSE arranged
  /\ UNCHANGED <<removed, ticked, hand>>

WriteSpread ==
  /\ round.step = "write"
  /\ \E w \in round.writes : (\A v \in round.writes : w[2] <= v[2]) /\ WriteRow(w)

EndSpread ==
  /\ round.step = "written" /\ round' = NotSpreading
  /\ UNCHANGED <<position, removed, ticked, hand, arranged>>

\* A kill leaves new and old positions mixed.
KillSpread ==
  /\ round.step = "write"
  /\ round' = NotSpreading
  /\ arranged' = Screen(position, Shown)
  /\ UNCHANGED <<position, removed, ticked, hand>>

SpreadNext == StartSpread \/ WriteSpread \/ EndSpread \/ KillSpread

OrderNext ==
  \/ \E m \in Members :
       \/ "append" \in MembersDo[m] /\ StartAppend(m)
       \/ InsertTodo(m) \/ PlaceDrag(m) \/ SaveDrag(m) \/ GiveUpTodo(m)
       \/ \E t \in TodoIds :
            \/ "drag" \in MembersDo[m] /\ StartDrag(m, t)
            \/ "delete" \in MembersDo[m] /\ DeleteTodo(m, t)
  \/ SpreadNext

NumberNext == \E m \in Members, t \in TodoIds, to \in ApiPositions : SetPosition(m, t, to)

TickNext == \E m \in Members : SaveTick(m) \/ \E t \in TodoIds : LoadTodo(m, t)

TodoNext == OrderNext \/ NumberNext \/ TickNext

TodoSpec == TodoInit /\ [][TodoNext]_todoVars

-----------------------------------------------------------------------------
(* The order on the screen is the one its members made: a todo stays where *)
(* it was dropped, a new one comes last, and a renumbering moves nothing   *)
(* (normalize_positions_job.ts: "without changing the order anyone sees"). *)
OrderIsTheirs == round.step # "write" => Screen(position, Shown) = arranged

(* A renumbering nobody wrote into leaves room between any two, so that    *)
(* the drag that was refused can be made again (todo_controller.ts).       *)
RoomAfterSpreading ==
  round.step = "written" /\ ~round.overtaken =>
    \A t, u \in Shown : Above(position, t, u) => position[u] - position[t] > 1

(* A todo is done if and only if it says by whom, however many tick it at  *)
(* once (todo_service.ts: a stale completed_by can never linger).          *)
DoneSaysWho == \A t \in TodoIds : ticked[t].at <=> ticked[t].by # Nobody

(* The three of them.                                                      *)
TodosSafe == OrderIsTheirs /\ RoomAfterSpreading /\ DoneSaysWho
=============================================================================
