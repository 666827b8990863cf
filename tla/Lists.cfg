SPECIFICATION ListsSpec
CONSTANTS
  MaxLists = 2
  MaxTodos = 2
  ListLimits = {1, 2}
  Cap = 1
  Procs = {p1, p2, p3}
  Does <- BusyDoes
  None = None
  p1 = p1
  p2 = p2
  p3 = p3
  Members = {m1, m2}
  MembersDo <- TwoHands
  POSITION_GAP = 2
  ApiPositions = {1}
  MaxTodoRows = 3
  MaxPosition = 6
  MaxRemoved = 1
  Nobody = Nobody
  m1 = m1
  m2 = m2
INVARIANTS
  CountedAndCapped
  TodosSafe
PROPERTIES
  ListsWithinPlan
  CountsHeal
