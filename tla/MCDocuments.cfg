\* Two creations while the catalogue is edited.
SPECIFICATION Spec
CONSTANTS
  None = None
  p1 = p1
  p2 = p2
  vat = vat
  ice = ice
  ana = ana
  c1 = c1
  c2 = c2
  Cashiers = {c1, c2}
  Products = {p1, p2}
  Taxes = {vat, ice}
  Clients = {ana}
  ProductStates <- SomeStates
  Rates = {0, 1500}
  Names = {"Ana"}
  RawCedulas <- SomeCedulas
  Carts <- SomeCarts
  FirstNumber = 9
  Date <- SomeDate
  Ruc <- SomeRuc
  Environment = 2
  NumericCodes = {48151623}
  MaxEdits = 2
SYMMETRY Symmetry
INVARIANTS AmountsAgree BasesMakeTheSubtotal BuyersAgree KeysNameTheInvoice OneRatePerTax
PROPERTY InvoicesStand
\* The cashiers stop.
CHECK_DEADLOCK FALSE
