\* Every kind of failure once, one message at a time.
SPECIFICATION Spec
CONSTANTS
  Invoices = {i1}
  Workers = {w1, w2}
  Prefetch = 1
  MaxCrashes = 1
  MaxLosses = 1
  MaxFailures = 1
SYMMETRY Symmetry
INVARIANTS AccountedFor ActedOncePerLoss
\* A finite number of requests: when all is settled nothing is left to do.
CHECK_DEADLOCK FALSE
