\* Three requests at a time on one batch, with quantities the columns hold exactly.
CONSTANTS
  g1 = g1
  None = None
  Grns = {g1}
  Batches = {b1}
  Locations = {l1}
  Sessions = {s1, s2, s3}
  GrnOf <- OneGrn
  Legacy = {b1}
  Quantities = {0, 10, 20}
  MaxReceived = 4
SPECIFICATION Spec
SYMMETRY Interchangeable
INVARIANTS AcceptedIsPosted
PROPERTIES PostsOnAcceptance PostingExact
CHECK_DEADLOCK FALSE
