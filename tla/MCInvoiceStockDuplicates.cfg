\* One invoice and the messages that confirm it: both take the stock.
SPECIFICATION Spec
CONSTANTS
  None = None
  i1 = i1
  i2 = i2
  p1 = p1
  p2 = p2
  Invoices = {i1, i2}
  Products = {p1, p2}
  Lines <- SharedLines
  Stock0 <- OneAndTwo
  Jobs <- Duplicates
INVARIANT DuplicatesAreNoOps
\* Every job runs once; when all have ended nothing is left to do.
CHECK_DEADLOCK FALSE
