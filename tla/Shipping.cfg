\* Two dispatch requests and one inspector at a time.
CONSTANTS
  d1 = d1
  None = None
  Dispatches = {d1, d2}
  Prods = {p1}
  Lines = {n1, n2}
  Points = {c1}
  Sessions = {s1, s2}
  Inspectors = {i1}
  SalesOf <- AllSales
  SalesOfProd <- AllSalesOfProd
  Certified = {p1}
  Verdicts = {"completed", "failed"}
  MaxChecks = 2
  MaxInspections = 2
  MaxNcrs = 1
SPECIFICATION SceneSpec
SYMMETRY Interchangeable
INVARIANTS TypeOK DocumentsNumbered ReleasedIsDocumented ReleasedIsApproved
PROPERTIES ReleasedOnPass
CHECK_DEADLOCK FALSE
