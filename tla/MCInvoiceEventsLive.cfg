\* Two crashes and two exceptions: the broker may be down when both workers start.
SPECIFICATION FairSpec
CONSTANTS
  Invoices = {i1}
  Workers = {w1, w2}
  Prefetch = 1
  MaxCrashes = 2
  MaxLosses = 0
  MaxFailures = 2
PROPERTIES DecidedWhileChancesLast QueueDrains
\* A finite number of requests: when all is settled nothing is left to do.
CHECK_DEADLOCK FALSE
