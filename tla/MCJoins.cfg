\* Two altered tables, and three tables in every order, rows inserted and removed.
CONSTANTS
  child = child
  parent = parent
  other = other
  a = a
  b = b
  c = c
  d = d
  z = z
  v = v
  w = w
  NoValue = NoValue
  Unset = Unset
  Setups <- AllSetups
  i = i
  j = j
  Ids = {i, j}
  Limit = 2
SPECIFICATION JoinSpec
SYMMETRY SymIds
INVARIANTS
  SelectAnswers
  CompoundsAreTheJoin
  NeverCrossed
