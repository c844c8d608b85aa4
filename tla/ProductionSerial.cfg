\* One request at a time.
CONSTANTS
  o1 = o1  p1 = p1   m1 = m1  c1 = c1
  None = None  TheOrder = o1
  Orders = {o1}
  Ops = {p1, p2}
  Machines = {m1}
  RouteCards = {c1}
  Sessions = {s1}
  OrderOf <- OneOrder
  OpNumber <- InTurn
  MachineOf <- FirstOpOnMachine
  CardOf <- OneCard
  ActiveMachines = {m1}
  Planned <- PlanOne
  LogQuantities = {0, 10}
  ClientTimes = {0, 9}
  MaxInspections = 2
  MaxReworks = 1
SPECIFICATION Spec
INVARIANTS TypeOK SequenceControlled CompletedOpHasPass
PROPERTY ImplementsLifecycle
CHECK_DEADLOCK FALSE
