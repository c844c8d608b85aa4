\* Two requests at a time on one operation that passes, and quantities finer
\* than the columns; with liveness.
CONSTANTS
  o1 = o1  p1 = p1   m1 = m1  c1 = c1
  None = None  TheOrder = o1
  Orders = {o1}
  Ops = {p1}
  Machines = {}
  RouteCards = {c1}
  Sessions = {s1, s2}
  OrderOf <- OneOrder
  OpNumber <- InTurn
  MachineOf <- OffMachine
  CardOf <- OneCard
  ActiveMachines = {}
  Planned <- PlanOne
  LogQuantities = {0, 5}
  ClientTimes = {}
  MaxInspections = 1
  MaxReworks = 0
SPECIFICATION PassingSpec
INVARIANTS LoggedOvershootBounded CompletedReconciled FirstOpHasFai DeadlockNeedsTrigger
PROPERTIES CompletedFreezesLog RequestsFinish
CHECK_DEADLOCK FALSE
