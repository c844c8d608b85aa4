\* Two requests at once on one supplier.
CONSTANTS
  None = None
  Sessions = {s1, s2}
  Suppliers = {v1}
  SalesOrders = {None, so1}
  Amounts = {0, 1}
  MaxOrders = 2
  MaxItems = 3
SPECIFICATION SceneSpec
SYMMETRY Interchangeable
INVARIANTS TypeOK TotalIsSumOfItems OpenOrdersConsistent PdfShowsOrder
PROPERTIES IssuedIsFixed
CHECK_DEADLOCK FALSE
