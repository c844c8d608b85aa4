\* One request at a time; quantities finer than the columns, ties among them.
CONSTANTS
  g1 = g1
  None = None
  Grns = {g1}
  Batches = {b1, b2}
  Locations = {l1, l2}
  Sessions = {s1}
  GrnOf <- OneGrn
  Legacy = {b2}
  Quantities = {0, 5, 14}
  MaxReceived = 2
SPECIFICATION Spec
SYMMETRY Places
INVARIANTS TypeOK StockCoversLedger DeletedLocationEmpty AcceptedHasMtc
PROPERTY ImplementsLedger
CHECK_DEADLOCK FALSE
