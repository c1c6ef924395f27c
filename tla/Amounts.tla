------------------------------ MODULE Amounts ------------------------------
(***************************************************************************)
(* The arithmetic of an invoice and of the two documents made from it, the *)
(* SRI's XML and the PDF.  Prices and amounts are in cents; a rate is in   *)
(* hundredths of a percent.  An invoice's lines are a sequence of          *)
(*   [product, quantity, price, taxes]                                     *)
(* with taxes a sequence of [tax, rate, amount].                           *)
(***************************************************************************)
EXTENDS Integers, Sequences, Functions

SumOver(S, term(_)) == SumFunction([x \in S |-> term(x)])

(* Fault: the cents are cut off. *)
CutOff(numerator, denominator) == numerator \div denominator

(* _q: two decimals, half up.                                              *)
Quantize(numerator, denominator) ==
  (2 * numerator + denominator) \div (2 * denominator)

LineSubtotal(line) == line.price * line.quantity
TaxAmount(subtotal, rate) == Quantize(subtotal * rate, 10000)

TaxPlaces(lines) == UNION {{i} \X (1..Len(lines[i].taxes)) : i \in 1..Len(lines)}
TaxAt(lines, place) == lines[place[1]].taxes[place[2]]

(* The running sums of create_invoice.                                     *)
Subtotal(lines) == SumOver(1..Len(lines), LAMBDA i : LineSubtotal(lines[i]))
TaxTotal(lines) == SumOver(TaxPlaces(lines), LAMBDA place : TaxAt(lines, place).amount)

-----------------------------------------------------------------------------
(* totalConImpuestos: one group per rate; without taxes, one of rate 0     *)
(* over the subtotal.  A line adds to the base of a group once per tax it  *)
(* carries, and a line without taxes to none.                              *)
RatesIn(lines) == {TaxAt(lines, place).rate : place \in TaxPlaces(lines)}
PlacesOf(lines, rate) == {place \in TaxPlaces(lines) : TaxAt(lines, place).rate = rate}

(* Fault: the base is a price, not a price times a quantity. *)
PriceGroup(lines, rate) ==
  LET places == PlacesOf(lines, rate)
  IN  [base |-> SumOver(places, LAMBDA p : lines[p[1]].price),
       value |-> SumOver(places, LAMBDA p : TaxAt(lines, p).amount)]

Group(lines, rate) ==
  LET places == PlacesOf(lines, rate)
  IN  [base |-> SumOver(places, LAMBDA p : LineSubtotal(lines[p[1]])),
       value |-> SumOver(places, LAMBDA p : TaxAt(lines, p).amount)]

TaxGroups(lines) ==
  IF TaxPlaces(lines) = {}
  THEN [rate \in {0} |-> [base |-> Subtotal(lines), value |-> 0]]
  ELSE [rate \in RatesIn(lines) |-> Group(lines, rate)]

(* codigoPorcentaje: every rate the table does not know is coded as 0%.    *)
PercentCode(rate) ==
  CASE rate = 1200 -> 2 [] rate = 1400 -> 3 [] rate = 1500 -> 4 [] rate = 500 -> 5 [] OTHER -> 0

(* impuestos of a detalle: its taxes, or one of 0%.                        *)
DetailTaxes(line) ==
  LET base == LineSubtotal(line)
  IN  IF line.taxes = <<>>
      THEN <<[code |-> 0, rate |-> 0, base |-> base, value |-> 0]>>
      ELSE [k \in 1..Len(line.taxes) |->
              [code |-> PercentCode(line.taxes[k].rate), rate |-> line.taxes[k].rate,
               base |-> base, value |-> line.taxes[k].amount]]

-----------------------------------------------------------------------------
(* The totals of the PDF: from the XML's groups, whatever is taxed counts  *)
(* as taxed at 15%; without an XML, from whether any line has a tax.       *)
Breakdown(sub15, sub0, untaxed, iva, total) ==
  [sub15 |-> sub15, sub0 |-> sub0, untaxed |-> untaxed, iva |-> iva, total |-> total]

BreakdownOfXml(groups, total) ==
  LET taxed == DOMAIN groups \ {0}
      sub15 == SumOver(taxed, LAMBDA r : groups[r].base)
      sub0 == SumOver(DOMAIN groups \cap {0}, LAMBDA r : groups[r].base)
  IN  Breakdown(sub15, sub0, sub15 + sub0, SumOver(taxed, LAMBDA r : groups[r].value), total)

BreakdownOfRow(lines, subtotal, taxTotal, total) ==
  LET hasTax == TaxPlaces(lines) # {}
  IN  Breakdown(IF hasTax THEN subtotal ELSE 0, IF hasTax THEN 0 ELSE subtotal,
                subtotal, taxTotal, total)
=============================================================================
