\* Two requests at once, in one component or scene of it at a time.
CONSTANTS
  None = None
  Sessions = {s1, s2}
  Enquiries = {e1, e2}
  CustomerPOs = {p1}
  MaxDocuments = 2
  Drawings = {d1}
  Codes = {a, b, c}
  Cards = {c1, c2}
  SalesOrders = {so1}
  RouteNumbers = {n1, n2}
  Numbers <- BelowZero
  Places = {1, 2}
  MaxRevisions = 3
  MaxOps = 2
  Machines = {m1}
  Breakdowns = {b1, b2}
  WorkOrders = {b1, b2}
  Verdicts = {"Open", "Resolved"}
  MaxHistory = 5
  GrnItems = {g1}
  Prods = {pr1}
  Linked = {pr1}
  GaugeCodes = {gc1}
  RepeatLimit = 1
  MaxInspections = 1
  MaxNcrs = 3
  Users = {u1}
  Roles = {r1}
  OAuthStates = {o1}
  MaxFailed = 2
  MaxSessions = 2
  MaxTokens = 3
  MaxCount = 2
SPECIFICATION Spec
SYMMETRY Interchangeable
INVARIANTS TypeOK OrdersTraceToApproval HistoryTellsStatus EveryBreakdownHasWorkOrder RepeatsRecommended SessionLimitHolds
PROPERTIES OneCurrentRevision ReleasedIsFixed BreakdownStopsMachine RejectionsReported IssuedToUsable LogoutAllEndsSessions
CHECK_DEADLOCK FALSE
