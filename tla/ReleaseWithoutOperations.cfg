\* One request at a time: a card released when its operations are deleted.
CONSTANTS
  None = None
  Sessions = {s1}
  Drawings = {d1}
  Codes = {a}
  Cards = {c1}
  SalesOrders = {so1}
  RouteNumbers = {n1}
  Numbers = {}
  Places = {1}
  MaxRevisions = 1
  MaxOps = 1
SPECIFICATION Spec
INVARIANT ReleasedHasOperations
CHECK_DEADLOCK FALSE
