----------------------------- MODULE Documents -----------------------------
(***************************************************************************)
(* What an invoice says: the amounts, rates and names that its creation    *)
(* copies from the catalogue, and the XML and the PDF made from them.      *)
(*                                                                         *)
(* The creation reads the products, the taxes and the client one statement *)
(* at a time, each seeing what is committed by then, while others edit and *)
(* delete them.  An object of the session that is still referenced is not  *)
(* read again; a tax is referenced only until the next one is read.        *)
(* Numbering, stock and events have modules of their own.                  *)
(***************************************************************************)
EXTENDS Amounts, CheckDigits, FiniteSets, Integers

CONSTANTS Cashiers, Products, Taxes, Clients,
          ProductStates,   (* [price, enough: stock for what is asked, active] *)
          Rates,
          Names, RawCedulas,   (* of clients, as typed                     *)
          Carts,           (* [client, items: seq of [product, quantity, taxes]] *)
          FirstNumber,
          Date, Ruc, Environment, NumericCodes,   (* for the access key     *)
          MaxEdits,        (* bounds the edits of the catalogue             *)
          None

ASSUME DocumentConstants ==
  /\ ProductStates \subseteq [price : Nat, enough : BOOLEAN, active : BOOLEAN]
  /\ Rates \subseteq Nat /\ None \notin Nat
  /\ None \notin [tax : Taxes, rate : Rates]
  /\ \A cart \in Carts :
       /\ cart.client \in Clients \cup {None}
       /\ cart.items \in Seq([product : Products, quantity : Nat, taxes : Seq(Taxes)])
  /\ MaxEdits \in Nat

(* strftime("%d%m%Y") and MERCHANT_RUC. *)
ASSUME KeyFields ==
  /\ Date \in Seq(Digits) /\ Len(Date) = 8
  /\ Ruc \in Seq(Digits) /\ Len(Ruc) = 13
  /\ FirstNumber \in Nat \ {0}

Gone == None
NoName == "Consumidor final"   (* what the PDF says for want of a name *)
ConsumidorFinal == [name |-> "CONSUMIDOR FINAL", cedula |-> [i \in 1..13 |-> 9]]

ASSUME NothingPrints == None \notin {ConsumidorFinal.name, ConsumidorFinal.cedula}

VARIABLES product, rate, client,   (* the catalogue                        *)
          work,                    (* each cashier's creation              *)
          invoices,                (* the committed rows, oldest first     *)
          edits

catalogue == <<product, rate, client>>
vars == <<product, rate, client, work, invoices, edits>>

Idle == [state |-> "idle", cart |-> None, lines |-> <<>>, held |-> None, client |-> None]

Kept(raw) == Cleaned(raw)

(* The clients the payloads let in.  The name is what first and last name  *)
(* come to; both are optional, and so is the cedula.                       *)
ClientPayloads ==
  [name : Names \cup {None},
   cedula : {None} \cup {Kept(raw) : raw \in {r \in RawCedulas : IsValidCedula(Cleaned(r))}}]

Init ==
  /\ product \in [Products -> ProductStates]
  /\ rate \in [Taxes -> Rates]
  /\ client \in [Clients -> ClientPayloads]
  /\ work = [c \in Cashiers |-> Idle]
  /\ invoices = <<>> /\ edits = 0

-----------------------------------------------------------------------------
(* The catalogue's handlers, each a transaction of its own.                *)
Edits == edits < MaxEdits /\ edits' = edits + 1 /\ UNCHANGED work

EditProduct(p) ==
  /\ Edits
  /\ \E state \in ProductStates : product' = [product EXCEPT ![p] = state]
  /\ UNCHANGED <<rate, client, invoices>>

EditTax(t) ==
  /\ Edits /\ rate[t] # Gone
  /\ \E r \in Rates : rate' = [rate EXCEPT ![t] = r]
  /\ UNCHANGED <<product, client, invoices>>

(* What is not given stays.  An empty name is given, an empty cedula is    *)
(* not: a cedula can be replaced, by one no other client has, and never    *)
(* taken away.                                                             *)
EditClient(c) ==
  /\ Edits
  /\ \E new \in ClientPayloads :
       /\ \/ new.cedula = client[c].cedula
          \/ new.cedula # None /\ \A d \in Clients \ {c} : client[d].cedula # new.cedula
       /\ client' = [client EXCEPT ![c] = new]
  /\ UNCHANGED <<product, rate, invoices>>

(* Fault: the tax rows of an invoice go with the tax. *)
CascadesTo(line, t) == [line EXCEPT !.taxes = SelectSeq(@, LAMBDA x : x.tax # t)]

(* ON DELETE SET NULL. *)
Forgets(line, t) ==
  [line EXCEPT !.taxes = [k \in DOMAIN @ |-> IF @[k].tax = t THEN [@[k] EXCEPT !.tax = None]
                                             ELSE @[k]]]

ForgetsIn(invoice, t) ==
  [invoice EXCEPT !.lines = [i \in DOMAIN @ |-> Forgets(@[i], t)]]

DeleteTax(t) ==
  /\ Edits /\ rate[t] # Gone
  /\ rate' = [rate EXCEPT ![t] = Gone]
  /\ invoices' = [n \in DOMAIN invoices |-> ForgetsIn(invoices[n], t)]
  /\ UNCHANGED <<product, client>>

-----------------------------------------------------------------------------
(* The creation, statement by statement.                                   *)
Becomes(c, w) == work' = [work EXCEPT ![c] = w]
Refused(c) == Becomes(c, [work[c] EXCEPT !.state = "refused"])

TwiceTheSame(items) ==
  \E i, j \in 1..Len(items) : i # j /\ items[i].product = items[j].product

Begins(c) ==
  /\ work[c].state = "idle"
  /\ \E cart \in Carts :
       Becomes(c, [Idle EXCEPT !.cart = cart,
                     !.state = IF TwiceTheSame(cart.items) THEN "refused" ELSE "reading"])
  /\ UNCHANGED <<catalogue, invoices, edits>>

Lines(c) == work[c].lines
Items(c) == work[c].cart.items
Reading(c) == work[c].state = "reading"

(* The line in the works has read its product and some of its taxes.       *)
LineIsRead(c) ==
  LET n == Len(Lines(c))
  IN  n > 0 => Len(Lines(c)[n].taxes) = Len(Items(c)[n].taxes)

ReadsProduct(c) ==
  /\ Reading(c) /\ LineIsRead(c) /\ Len(Lines(c)) < Len(Items(c))
  /\ LET item == Items(c)[Len(Lines(c)) + 1]
         p == product[item.product]
         line == [product |-> item.product, quantity |-> item.quantity,
                  price |-> p.price, taxes |-> <<>>]
     IN  IF p.active /\ p.enough
         THEN Becomes(c, [work[c] EXCEPT !.lines = Append(@, line)])
         ELSE Refused(c)
  /\ UNCHANGED <<catalogue, invoices, edits>>

(* Fault: every read goes to the database. *)
AlwaysReadsAgain(held, t) == rate[t]

(* The rate of a tax whose object the session still has is the old one.    *)
RateSeen(held, t) == IF held # None /\ held.tax = t THEN held.rate ELSE rate[t]

ReadsTax(c) ==
  /\ Reading(c) /\ ~LineIsRead(c)
  /\ LET n == Len(Lines(c))
         line == Lines(c)[n]
         t == Items(c)[n].taxes[Len(line.taxes) + 1]
         seen == RateSeen(work[c].held, t)
         taxed == [tax |-> t, rate |-> seen, amount |-> TaxAmount(LineSubtotal(line), seen)]
     IN  IF rate[t] = Gone   (* the row is gone: no object is made *)
         THEN Refused(c)
         ELSE Becomes(c, [work[c] EXCEPT !.lines[n].taxes = Append(@, taxed),
                                         !.held = [tax |-> t, rate |-> seen]])
  /\ UNCHANGED <<catalogue, invoices, edits>>

ReadsClient(c) ==
  /\ Reading(c) /\ LineIsRead(c) /\ Len(Lines(c)) = Len(Items(c))
  /\ LET asked == work[c].cart.client
     IN  Becomes(c, [work[c] EXCEPT !.state = "writing",
                       !.client = IF asked = None THEN None ELSE client[asked]])
  /\ UNCHANGED <<catalogue, invoices, edits>>

(* The buyer in the XML; the row's snapshot keeps the client's own fields. *)
Buyer(who) ==
  IF who = None \/ who.cedula = None THEN ConsumidorFinal
  ELSE [name |-> who.name, cedula |-> who.cedula]
BuyerType(buyer) ==
  CASE buyer = ConsumidorFinal -> 7 [] Len(buyer.cedula) = 13 -> 4 [] Len(buyer.cedula) = 10 -> 5
    [] OTHER -> 6
Snapshot(who) == IF who = None THEN ConsumidorFinal ELSE [name |-> who.name, cedula |-> who.cedula]

(* Fault: the number is not known yet when the key is made. *)
SequentialTooEarly(number) == 1

(* secuencial: the digits of the invoice number.                           *)
Sequential(number) == number

BuildSriXml(number, key, buyer, lines) ==
  [key |-> key, sequential |-> Padded(Sequential(number), 9),
   buyer |-> buyer, buyerType |-> BuyerType(buyer),
   untaxed |-> Subtotal(lines), groups |-> TaxGroups(lines),
   total |-> Subtotal(lines) + TaxTotal(lines),
   details |-> [i \in 1..Len(lines) |-> [subtotal |-> LineSubtotal(lines[i]),
                                         taxes |-> DetailTaxes(lines[i])]]]

(* Fault: the client is looked up anew. *)
SecondLook(c) == IF work[c].cart.client = None THEN None ELSE client[work[c].cart.client]

(* find_by_id before the XML finds the object that was read before.        *)
ClientSeen(c) == work[c].client

NewInvoice(c, number, code) ==
  LET key == GenerateAccessKey(Date, Ruc, Environment, Sequential(number), code)
  IN  [number |-> number, seller |-> c, client |-> Snapshot(work[c].client), lines |-> Lines(c),
       subtotal |-> Subtotal(Lines(c)), taxTotal |-> TaxTotal(Lines(c)),
       total |-> Subtotal(Lines(c)) + TaxTotal(Lines(c)),
       key |-> key, xml |-> BuildSriXml(number, key, Buyer(ClientSeen(c)), Lines(c))]

TaxesOf(lines) == {TaxAt(lines, place).tax : place \in TaxPlaces(lines)}

(* From the INSERTs to the commit the rows are locked.  The foreign key of *)
(* a tax deleted meanwhile rolls the creation back.                        *)
Stores(c) ==
  /\ work[c].state = "writing"
  /\ IF \E t \in TaxesOf(Lines(c)) : rate[t] = Gone
     THEN Refused(c) /\ UNCHANGED invoices
     ELSE \E code \in NumericCodes :
            /\ invoices' = Append(invoices, NewInvoice(c, FirstNumber + Len(invoices), code))
            /\ Becomes(c, [work[c] EXCEPT !.state = "stored"])
  /\ UNCHANGED <<catalogue, edits>>

EditsSomething ==
  \/ \E p \in Products : EditProduct(p)
  \/ \E t \in Taxes : EditTax(t) \/ DeleteTax(t)
  \/ \E c \in Clients : EditClient(c)

Creates(c) == Begins(c) \/ ReadsProduct(c) \/ ReadsTax(c) \/ ReadsClient(c) \/ Stores(c)

Next == EditsSomething \/ \E c \in Cashiers : Creates(c)
Spec == Init /\ [][Next]_vars

-----------------------------------------------------------------------------
(* What is read back: _to_dto and the PDF, made anew for each request.     *)
ResponseSubtotal(line) ==
  IF line.price = 0 \/ line.quantity = 0 THEN None ELSE LineSubtotal(line)

(* The PDF prints what the XML says; a field that is empty there falls     *)
(* back to the row's and then to a constant.  Number and key are never     *)
(* empty.  The total is the row's.                                         *)
Or(value, fallback) == IF value = None THEN fallback ELSE value
PdfHeader(invoice) ==
  [number |-> invoice.xml.sequential, key |-> invoice.xml.key,
   buyer |-> [name |-> Or(Or(invoice.xml.buyer.name, invoice.client.name), NoName),
              cedula |-> Or(Or(invoice.xml.buyer.cedula, invoice.client.cedula),
                            ConsumidorFinal.cedula)]]
PdfItems(invoice) == [i \in DOMAIN invoice.xml.details |-> invoice.xml.details[i].subtotal]
PdfItemsOfRow(lines) == [i \in DOMAIN lines |-> LineSubtotal(lines[i])]
PdfPayment(invoice) == invoice.xml.total
PdfBreakdown(invoice) == BreakdownOfXml(invoice.xml.groups, invoice.total)

Stored == {invoices[n] : n \in DOMAIN invoices}

TypeOK ==
  /\ product \in [Products -> ProductStates]
  /\ rate \in [Taxes -> Rates \cup {Gone}]
  /\ \A c \in Clients : client[c].cedula = None \/ IsValidCedula(client[c].cedula)
  /\ \A c \in Cashiers : work[c].state \in {"idle", "reading", "writing", "stored", "refused"}
  /\ edits \in 0..MaxEdits
  /\ \A invoice \in Stored : \A t \in TaxesOf(invoice.lines) : t \in Taxes \cup {None}

(* The amounts of a row, of the lines in the reply, of the XML's groups    *)
(* and details and of the PDF are computed apart; they agree to the cent,  *)
(* and rounding moves the tax by half a cent per tax row at most.          *)
Exact(lines) ==   (* in ten thousandths of a cent *)
  SumOver(TaxPlaces(lines), LAMBDA p : LineSubtotal(lines[p[1]]) * TaxAt(lines, p).rate)

DetailValues(details) ==
  SumOver(1..Len(details), LAMBDA i :
    SumOver(1..Len(details[i].taxes), LAMBDA k : details[i].taxes[k].value))

SumsAgree(invoice) ==
  LET groups == invoice.xml.groups
      shown == {i \in DOMAIN invoice.lines : ResponseSubtotal(invoice.lines[i]) # None}
      rows == Cardinality(TaxPlaces(invoice.lines))
  IN  /\ SumOver(shown, LAMBDA i : ResponseSubtotal(invoice.lines[i])) = invoice.subtotal
      /\ SumOver(DOMAIN groups, LAMBDA r : groups[r].value) = invoice.taxTotal
      /\ DetailValues(invoice.xml.details) = invoice.taxTotal
      /\ invoice.xml.untaxed + invoice.taxTotal = PdfPayment(invoice)
      /\ PdfPayment(invoice) = PdfBreakdown(invoice).total
      /\ PdfItems(invoice) = PdfItemsOfRow(invoice.lines)
      /\ 2 * (Exact(invoice.lines) - 10000 * invoice.taxTotal) \in -10000 * rows .. 10000 * rows

AmountsAgree == \A invoice \in Stored : SumsAgree(invoice)

(* Where each line carries one tax, and none of 0%, or no line carries     *)
(* any, the bases of the groups make up the subtotal and the PDF says the  *)
(* same with and without the XML.  They do not when only some lines are    *)
(* taxed, or one twice; and a line that carries a tax of 0%, as the seeded *)
(* IVA 0%, is under SUBTOTAL 0% by the XML's groups but under SUBTOTAL 15% *)
(* by the row, where any tax counts as one (pdf/service.py).               *)
PlainlyTaxed(lines) ==
  \/ \A i \in DOMAIN lines : lines[i].taxes = <<>>
  \/ \A i \in DOMAIN lines : Len(lines[i].taxes) = 1 /\ lines[i].taxes[1].rate # 0

BasesAddUp(invoice) ==
  /\ SumOver(DOMAIN invoice.xml.groups, LAMBDA r : invoice.xml.groups[r].base) = invoice.subtotal
  /\ PdfBreakdown(invoice) =
       BreakdownOfRow(invoice.lines, invoice.subtotal, invoice.taxTotal, invoice.total)

BasesMakeTheSubtotal ==
  \A invoice \in Stored : PlainlyTaxed(invoice.lines) => BasesAddUp(invoice)

(* Of a client with a cedula the PDF prints the name and the cedula the    *)
(* row has, though others edit the client during the creation: never those *)
(* of before or after, and where the row has no name none that the client  *)
(* got or lost meanwhile.  Where the row has no cedula the buyer is        *)
(* Consumidor final, whatever the name in the row.                         *)
BuyersAgree ==
  \A invoice \in Stored :
    PdfHeader(invoice).buyer =
      IF invoice.client.cedula = None THEN ConsumidorFinal
      ELSE [invoice.client EXCEPT !.name = Or(@, NoName)]

(* The key, the XML and the PDF carry the number of the invoice, so that no two     *)
(* invoices have one key even if the random codes are equal.               *)
KeysNameTheInvoice ==
  \A invoice \in Stored :
    /\ Len(invoice.key) = 49 /\ invoice.xml.key = invoice.key
    /\ PdfHeader(invoice).number = SubSeq(invoice.key, 31, 39)
    /\ \A other \in Stored : other.key = invoice.key => other.number = invoice.number

(* One tax has one rate on all lines, whatever is edited meanwhile, if the *)
(* cart does not come back to a tax after another.                         *)
TaxesInOrder(lines) ==
  [place \in TaxPlaces(lines) |-> TaxAt(lines, place).tax]
Before(p, q) == p[1] < q[1] \/ (p[1] = q[1] /\ p[2] < q[2])
ComesBack(taxes) ==
  \E p, q, r \in DOMAIN taxes :
    Before(p, q) /\ Before(q, r) /\ taxes[p] = taxes[r] /\ taxes[q] # taxes[p]
OneRatePerTax ==
  \A c \in Cashiers :
    LET lines == Lines(c)
    IN  ~ComesBack(TaxesInOrder(lines)) =>
          \A p, q \in TaxPlaces(lines) :
            TaxAt(lines, p).tax = TaxAt(lines, q).tax => TaxAt(lines, p).rate = TaxAt(lines, q).rate

(* An invoice keeps what it said: a deleted tax loses its name on the      *)
(* lines, never the rate and the amount.                                   *)
Unnamed(line) == [line EXCEPT !.taxes = [k \in DOMAIN @ |-> [@[k] EXCEPT !.tax = None]]]
Says(invoice) == [invoice EXCEPT !.lines = [i \in DOMAIN @ |-> Unnamed(@[i])]]
InvoicesStand ==
  [][\A n \in DOMAIN invoices : n \in DOMAIN invoices' /\ Says(invoices'[n]) = Says(invoices[n])]_vars
=============================================================================
