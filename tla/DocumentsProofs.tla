--------------------------- MODULE DocumentsProofs ---------------------------
(***************************************************************************)
(* Proofs about Documents, for any catalogue, any carts and any number of  *)
(* creations and edits, and about what is typed (Identifiers), of any      *)
(* length.  The parts:                                                     *)
(*                                                                         *)
(*  - what a stored invoice is made of: buyer, names, later edits;         *)
(*  - one rate of a tax: all lines read so far agree with the tax that the *)
(*    session still holds;                                                 *)
(*  - keys: the nine digits of a sequential tell the numbers apart;        *)
(*  - sums: a sum over a finite set is what remains after any element is   *)
(*    taken out.  That is proved by induction on the number of elements,   *)
(*    a least counterexample having none.  Then sums by class, under other *)
(*    names and within rounding errors;                                    *)
(*  - amounts: the sums of row, reply, XML and PDF, from these;            *)
(*  - identifiers: the loops over digits are such sums, and a wrong digit  *)
(*    changes one term.                                                    *)
(***************************************************************************)
EXTENDS Documents, Identifiers, SequenceTheorems, FiniteSetTheorems, WellFoundedInduction, TLAPS

-----------------------------------------------------------------------------
(* Shapes.                                                                 *)
TaxRow == [tax : Taxes \cup {None}, rate : Rates, amount : Nat]
Line == [product : Products, quantity : Nat, price : Nat, taxes : Seq(TaxRow)]

WorkType ==
  [state : {"idle", "reading", "writing", "stored", "refused"}, cart : Carts \cup {None},
   lines : Seq(Line), held : {None} \cup [tax : Taxes, rate : Rates],
   client : {None} \cup ClientPayloads]

IsInvoice(x) ==
  /\ x = [number |-> x.number, seller |-> x.seller, client |-> x.client, lines |-> x.lines,
          subtotal |-> x.subtotal, taxTotal |-> x.taxTotal, total |-> x.total,
          key |-> x.key, xml |-> x.xml]
  /\ x.lines \in Seq(Line)
  /\ x.client = [name |-> x.client.name, cedula |-> x.client.cedula]
  /\ x.xml.buyer = IF x.client.cedula = None THEN ConsumidorFinal ELSE x.client

LEMMA SequenceOver ==
  ASSUME NEW n \in Nat, NEW S, NEW f, f \in [1 .. n -> S]
  PROVE  f \in Seq(S) /\ Len(f) = n
  OBVIOUS

-----------------------------------------------------------------------------
(* A line and an invoice when a tax is deleted.                            *)
LEMMA LineForgets ==
  ASSUME NEW line \in Line, NEW t
  PROVE  Forgets(line, t) \in Line /\ Unnamed(Forgets(line, t)) = Unnamed(line)
  <1> DEFINE old == line.taxes
             forget(k) == IF old[k].tax = t THEN [old[k] EXCEPT !.tax = None] ELSE old[k]
             new == [k \in DOMAIN old |-> forget(k)]
             gone(k) == [old[k] EXCEPT !.tax = None]
             bare == [k \in DOMAIN old |-> gone(k)]
  <1>1. old \in Seq(TaxRow) /\ DOMAIN old = 1 .. Len(old) /\ Len(old) \in Nat
    BY DEF Line
  <1>2. \A k \in DOMAIN old : forget(k) \in TaxRow /\ [forget(k) EXCEPT !.tax = None] = gone(k)
    <2>1. ASSUME NEW k \in DOMAIN old PROVE old[k] \in TaxRow
      BY <1>1
    <2>2. \A row \in TaxRow : /\ [row EXCEPT !.tax = None] \in TaxRow
                              /\ [[row EXCEPT !.tax = None] EXCEPT !.tax = None] = [row EXCEPT !.tax = None]
      BY DEF TaxRow
    <2>3. QED
      BY <2>1, <2>2
  <1>3. Forgets(line, t) = [line EXCEPT !.taxes = new]
    BY DEF Forgets
  <1>4. Unnamed(line) = [line EXCEPT !.taxes = bare]
    BY DEF Unnamed
  <1> HIDE DEF forget, gone
  <1>5. new \in [1 .. Len(old) -> TaxRow]
    BY <1>1, <1>2
  <1>6. new \in Seq(TaxRow)
    BY <1>1, <1>5, SequenceOver
  <1>7. [k \in DOMAIN new |-> [new[k] EXCEPT !.tax = None]] = bare
    BY <1>2
  <1> HIDE DEF old, new, bare
  <1>8. [line EXCEPT !.taxes = new] \in Line
    BY <1>6 DEF Line
  <1>9. Unnamed([line EXCEPT !.taxes = new]) = [line EXCEPT !.taxes = bare]
    <2> DEFINE other == [line EXCEPT !.taxes = new]
    <2>1. other.taxes = new
      BY DEF Line
    <2>2. Unnamed(other) = [other EXCEPT !.taxes = [k \in DOMAIN other.taxes |-> [other.taxes[k] EXCEPT !.tax = None]]]
      BY DEF Unnamed
    <2>3. Unnamed(other) = [other EXCEPT !.taxes = bare]
      BY <1>7, <2>1, <2>2
    <2>4. [[line EXCEPT !.taxes = new] EXCEPT !.taxes = bare] = [line EXCEPT !.taxes = bare]
      BY DEF Line
    <2>5. QED
      BY <2>3, <2>4
  <1>10. QED
    BY <1>3, <1>4, <1>8, <1>9

(* Replacing the lines of an invoice. *)
LEMMA OtherLines ==
  ASSUME NEW x, IsInvoice(x), NEW lines, NEW other
  PROVE  /\ [x EXCEPT !.lines = lines].lines = lines
         /\ [[x EXCEPT !.lines = lines] EXCEPT !.lines = other] = [x EXCEPT !.lines = other]
         /\ lines \in Seq(Line) => IsInvoice([x EXCEPT !.lines = lines])
         /\ [x EXCEPT !.lines = lines].client = x.client
         /\ [x EXCEPT !.lines = lines].xml = x.xml
         /\ [x EXCEPT !.lines = lines].key = x.key
         /\ [x EXCEPT !.lines = lines].number = x.number
  <1> DEFINE with(l) == [number |-> x.number, seller |-> x.seller, client |-> x.client, lines |-> l,
                         subtotal |-> x.subtotal, taxTotal |-> x.taxTotal, total |-> x.total,
                         key |-> x.key, xml |-> x.xml]
  <1>1. x = with(x.lines) /\ \A l, m : [with(l) EXCEPT !.lines = m] = with(m)
    BY DEF IsInvoice
  <1> DEFINE y == [x EXCEPT !.lines = lines]
  <1>2. y = with(lines) /\ [y EXCEPT !.lines = other] = [x EXCEPT !.lines = other]
    <2> HIDE DEF with
    <2>1. y = with(lines) /\ [x EXCEPT !.lines = other] = with(other)
      BY <1>1
    <2>2. [y EXCEPT !.lines = other] = with(other)
      BY <1>1, <2>1
    <2>3. QED
      BY <2>1, <2>2
  <1> HIDE DEF y
  <1>3. /\ y.lines = lines /\ y.client = x.client /\ y.xml = x.xml
        /\ y.number = x.number /\ y.seller = x.seller /\ y.subtotal = x.subtotal
        /\ y.taxTotal = x.taxTotal /\ y.total = x.total /\ y.key = x.key
    BY <1>2
  <1>4. lines \in Seq(Line) => IsInvoice(y)
    <2>1. y = [number |-> y.number, seller |-> y.seller, client |-> y.client, lines |-> y.lines,
               subtotal |-> y.subtotal, taxTotal |-> y.taxTotal, total |-> y.total,
               key |-> y.key, xml |-> y.xml]
      BY <1>2, <1>3
    <2>2. QED
      BY <1>3, <2>1 DEF IsInvoice
  <1>5. QED
    BY <1>2, <1>3, <1>4 DEF y

LEMMA InvoiceForgets ==
  ASSUME NEW x, IsInvoice(x), NEW t
  PROVE  /\ IsInvoice(ForgetsIn(x, t)) /\ Says(ForgetsIn(x, t)) = Says(x)
  <1> DEFINE old == x.lines
             new == [i \in DOMAIN old |-> Forgets(old[i], t)]
             bare == [i \in DOMAIN old |-> Unnamed(old[i])]
  <1>1. old \in Seq(Line) /\ DOMAIN old = 1 .. Len(old) /\ Len(old) \in Nat
    BY DEF IsInvoice
  <1>2. \A i \in DOMAIN old : Forgets(old[i], t) \in Line /\ Unnamed(Forgets(old[i], t)) = Unnamed(old[i])
    BY <1>1, LineForgets
  <1>3. new \in [1 .. Len(old) -> Line]
    BY <1>1, <1>2
  <1>4. new \in Seq(Line)
    BY <1>1, <1>3, SequenceOver
  <1>5. [i \in DOMAIN new |-> Unnamed(new[i])] = bare
    BY <1>2
  <1>6. ForgetsIn(x, t) = [x EXCEPT !.lines = new]
    BY DEF ForgetsIn
  <1>7. \A y : Says(y) = [y EXCEPT !.lines = [i \in DOMAIN y.lines |-> Unnamed(y.lines[i])]]
    BY DEF Says
  <1>8. Says(x) = [x EXCEPT !.lines = bare]
    BY <1>7
  <1> DEFINE y == [x EXCEPT !.lines = new]
  <1> HIDE DEF old, new, bare
  <1>9. y.lines = new /\ IsInvoice(y)
    BY <1>4, OtherLines, ZenonT(60)
  <1>10. Says(y) = [y EXCEPT !.lines = bare]
    BY <1>5, <1>7, <1>9
  <1>11. [y EXCEPT !.lines = bare] = [x EXCEPT !.lines = bare]
    BY OtherLines
  <1>12. QED
    BY <1>6, <1>8, <1>9, <1>10, <1>11

-----------------------------------------------------------------------------
(* The invariant.  A creation that still reads has a line for some of its  *)
(* items, and on the last one some of its taxes.                           *)
HasRead(w) ==
  LET n == Len(w.lines) IN
  w.state = "reading" =>
    /\ w.cart \in Carts /\ n <= Len(w.cart.items)
    /\ n > 0 => Len(w.lines[n].taxes) <= Len(w.cart.items[n].taxes)

DInv ==
  /\ product \in [Products -> ProductStates]
  /\ rate \in [Taxes -> Rates \cup {Gone}]
  /\ client \in [Clients -> ClientPayloads]
  /\ work \in [Cashiers -> WorkType] /\ \A c \in Cashiers : HasRead(work[c])
  /\ invoices \in Seq(Stored) /\ \A invoice \in Stored : IsInvoice(invoice)
  /\ edits \in 0 .. MaxEdits

LEMMA InitDInv == Init => DInv
  <1> SUFFICES ASSUME Init PROVE DInv
    OBVIOUS
  <1>1. Idle \in WorkType
    BY DEF Idle, WorkType
  <1>2. HasRead(Idle)
    BY DEF Idle, HasRead
  <1>3. invoices \in Seq(Stored) /\ Stored = {}
    BY DEF Init, Stored
  <1>4. QED
    BY <1>1, <1>2, <1>3, DocumentConstants DEF Init, DInv

(* What happens to the invoices when a tax goes. *)
LEMMA DeletionStep ==
  ASSUME DInv, NEW t \in Taxes, DeleteTax(t)
  PROVE  /\ DInv'
         /\ \A n \in DOMAIN invoices : n \in DOMAIN invoices' /\ Says(invoices'[n]) = Says(invoices[n])
  <1>1. /\ edits' \in 0 .. MaxEdits /\ UNCHANGED <<work, product, client>>
        /\ rate' = [rate EXCEPT ![t] = Gone]
        /\ invoices' = [n \in DOMAIN invoices |-> ForgetsIn(invoices[n], t)]
    BY DocumentConstants DEF DInv, DeleteTax, Edits
  <1>2. DOMAIN invoices = 1 .. Len(invoices) /\ Len(invoices) \in Nat /\ invoices \in Seq(Stored)
    BY DEF DInv
  <1>3. ASSUME NEW n \in DOMAIN invoices
        PROVE  IsInvoice(invoices'[n]) /\ Says(invoices'[n]) = Says(invoices[n])
    <2>1. IsInvoice(invoices[n]) /\ invoices'[n] = ForgetsIn(invoices[n], t)
      BY <1>1 DEF DInv, Stored
    <2>2. QED
      BY <2>1, InvoiceForgets
  <1>4. DOMAIN invoices' = 1 .. Len(invoices)
    BY <1>1, <1>2
  <1>5. \A x \in Stored' : IsInvoice(x)
    BY <1>1, <1>3 DEF Stored
  <1>6. invoices' \in [1 .. Len(invoices) -> Stored']
    BY <1>1, <1>4, <1>2 DEF Stored
  <1>7. invoices' \in Seq(Stored')
    BY <1>2, <1>6, SequenceOver
  <1>8. DInv'
    BY <1>1, <1>5, <1>7 DEF DInv
  <1>9. QED
    BY <1>3, <1>4, <1>2, <1>8

-----------------------------------------------------------------------------
(* The creation.                                                           *)
LEMMA WorkStep ==
  ASSUME DInv, NEW c \in Cashiers, NEW w \in WorkType, HasRead(w), Becomes(c, w),
         UNCHANGED <<catalogue, invoices, edits>>
  PROVE  DInv'
  <1>1. work' \in [Cashiers -> WorkType] /\ \A d \in Cashiers : HasRead(work'[d])
    BY DEF DInv, Becomes
  <1>2. Stored' = Stored
    BY DEF Stored
  <1>3. QED
    BY <1>1, <1>2 DEF DInv, catalogue

LEMMA RefusalStep ==
  ASSUME DInv, NEW c \in Cashiers, Refused(c), UNCHANGED <<catalogue, invoices, edits>>
  PROVE  DInv'
  <1> DEFINE w == [work[c] EXCEPT !.state = "refused"]
  <1>1. work[c] \in WorkType
    BY DEF DInv
  <1>2. w \in WorkType /\ w.state = "refused"
    BY <1>1 DEF WorkType
  <1>3. Becomes(c, w)
    BY DEF Refused
  <1> HIDE DEF w
  <1>4. QED
    BY <1>2, <1>3, WorkStep DEF HasRead

(* What a cart holds. *)
Item == [product : Products, quantity : Nat, taxes : Seq(Taxes)]

LEMMA ElementIn ==
  ASSUME NEW S, NEW s \in Seq(S), NEW i \in 1 .. Len(s)
  PROVE  s[i] \in S
  OBVIOUS

LEMMA LengthIn ==
  ASSUME NEW S, NEW s \in Seq(S)
  PROVE  Len(s) \in Nat
  OBVIOUS

LEMMA BeginStep ==
  ASSUME DInv, NEW c \in Cashiers, Begins(c)
  PROVE  DInv'
  <1>1. PICK cart \in Carts :
          Becomes(c, [Idle EXCEPT !.cart = cart,
                        !.state = IF TwiceTheSame(cart.items) THEN "refused" ELSE "reading"])
    BY DEF Begins
  <1> DEFINE state == IF TwiceTheSame(cart.items) THEN "refused" ELSE "reading"
             w == [Idle EXCEPT !.cart = cart, !.state = state]
  <1>2. state \in {"refused", "reading"}
    OBVIOUS
  <1> HIDE DEF state
  <1>3. w \in WorkType /\ w.lines = <<>> /\ w.cart = cart
    <2>1. <<>> \in Seq(Line)
      OBVIOUS
    <2>2. Idle \in WorkType /\ Idle.lines = <<>>
      BY <2>1 DEF Idle, WorkType
    <2>3. QED
      BY <1>2, <2>2 DEF WorkType
  <1>4. Becomes(c, w)
    BY <1>1 DEF state
  <1> HIDE DEF w
  <1>5. Len(cart.items) \in Nat
    BY DocumentConstants
  <1>6. HasRead(w)
    BY <1>3, <1>5 DEF HasRead
  <1>7. QED
    BY <1>3, <1>4, <1>6, WorkStep DEF Begins

(* What a creation that reads has in hand. *)
LEMMA InHand ==
  ASSUME DInv, NEW c \in Cashiers, Reading(c)
  PROVE  /\ work[c] \in WorkType /\ work[c].cart \in Carts
         /\ work[c].cart.client \in Clients \cup {None}
         /\ Items(c) \in Seq(Item)
         /\ Lines(c) \in Seq(Line) /\ Len(Lines(c)) \in Nat /\ Len(Lines(c)) <= Len(Items(c))
         /\ Len(Lines(c)) > 0 =>
              Len(Lines(c)[Len(Lines(c))].taxes) <= Len(Items(c)[Len(Lines(c))].taxes)
  <1>1. work[c] \in WorkType /\ HasRead(work[c])
    BY DEF DInv
  <1>2. work[c].cart \in Carts /\ Lines(c) \in Seq(Line)
    BY <1>1 DEF HasRead, Reading, WorkType, Lines
  <1>3. work[c].cart.client \in Clients \cup {None} /\ Items(c) \in Seq(Item)
    BY <1>2, DocumentConstants DEF Items, Item
  <1>4. Len(Lines(c)) \in Nat
    BY <1>2, LengthIn
  <1>5. QED
    BY <1>1, <1>2, <1>3, <1>4 DEF HasRead, Reading, Lines, Items

LEMMA ProductStep ==
  ASSUME DInv, NEW c \in Cashiers, ReadsProduct(c)
  PROVE  DInv'
  <1>1. CASE Refused(c)
    BY <1>1, RefusalStep DEF ReadsProduct
  <1> DEFINE n == Len(Lines(c))
             item == Items(c)[n + 1]
             line == [product |-> item.product, quantity |-> item.quantity,
                      price |-> product[item.product].price, taxes |-> <<>>]
             lines == Append(work[c].lines, line)
             w == [work[c] EXCEPT !.lines = lines]
  <1>2. Reading(c) /\ n < Len(Items(c))
    BY DEF ReadsProduct
  <1>3. /\ work[c] \in WorkType /\ work[c].cart \in Carts /\ n \in Nat
        /\ Items(c) \in Seq(Item)
        /\ Len(Items(c)) \in Nat /\ Lines(c) \in Seq(Line)
    BY <1>2, InHand, LengthIn
  <1>4. item \in Item
    <2>1. n + 1 \in 1 .. Len(Items(c))
      BY <1>2, <1>3
    <2>2. QED
      BY <1>3, <2>1, ElementIn
  <1> HIDE DEF item
  <1>5. product[item.product] \in [price : Nat, enough : BOOLEAN, active : BOOLEAN]
    BY <1>4, DocumentConstants DEF DInv, Item
  <1>6. line \in Line /\ line.taxes = <<>>
    BY <1>4, <1>5 DEF Line, Item
  <1>7. CASE Becomes(c, w)
    <2> HIDE DEF line
    <2>1. lines \in Seq(Line) /\ Len(lines) = n + 1 /\ lines[n + 1] = line
      BY <1>3, <1>6 DEF Lines
    <2> HIDE DEF lines
    <2>2. w \in WorkType /\ w.lines = lines /\ w.cart = work[c].cart
      BY <1>3, <2>1 DEF WorkType
    <2> HIDE DEF w
    <2>3. Len(item.taxes) \in Nat /\ item = w.cart.items[n + 1] /\ Items(c) = w.cart.items
      BY <1>4, <2>2, LengthIn DEF item, Items, Item
    <2>4. HasRead(w)
      <3> HIDE DEF n
      <3>1. Len(w.lines) <= Len(w.cart.items)
        BY <1>2, <1>3, <2>1, <2>2, <2>3
      <3>2. Len(w.lines[n + 1].taxes) <= Len(w.cart.items[n + 1].taxes)
        BY <1>6, <2>1, <2>2, <2>3
      <3>3. QED
        BY <1>3, <2>1, <2>2, <3>1, <3>2 DEF HasRead
    <2>5. QED
      BY <1>7, <2>2, <2>4, WorkStep DEF ReadsProduct
  <1>8. QED
    BY <1>1, <1>7 DEF ReadsProduct, item

LEMMA TaxStep ==
  ASSUME DInv, NEW c \in Cashiers, ReadsTax(c)
  PROVE  DInv'
  <1>1. CASE Refused(c)
    BY <1>1, RefusalStep DEF ReadsTax
  <1> DEFINE n == Len(Lines(c))
             old == Lines(c)[n]
             t == Items(c)[n].taxes[Len(old.taxes) + 1]
             seen == RateSeen(work[c].held, t)
             taxed == [tax |-> t, rate |-> seen, amount |-> TaxAmount(LineSubtotal(old), seen)]
             new == [old EXCEPT !.taxes = Append(old.taxes, taxed)]
             lines == [work[c].lines EXCEPT ![n] = new]
             w == [work[c] EXCEPT !.lines = lines, !.held = [tax |-> t, rate |-> seen]]
  <1>2. Reading(c) /\ ~ LineIsRead(c)
    BY DEF ReadsTax
  <1>3. /\ work[c] \in WorkType /\ work[c].cart \in Carts /\ n \in Nat
        /\ Items(c) \in Seq(Item)
        /\ Lines(c) \in Seq(Line) /\ n <= Len(Items(c))
        /\ n > 0 => Len(old.taxes) <= Len(Items(c)[n].taxes)
    BY <1>2, InHand
  <1>4. n > 0 /\ Len(old.taxes) # Len(Items(c)[n].taxes)
    BY <1>2, <1>3 DEF LineIsRead
  <1>5. n \in 1 .. Len(Lines(c)) /\ n \in 1 .. Len(Items(c))
    BY <1>3, <1>4
  <1>6. old \in Line /\ Items(c)[n] \in Item
    BY <1>3, <1>5, ElementIn
  <1>7. /\ old.taxes \in Seq(TaxRow) /\ Len(old.taxes) \in Nat
        /\ Items(c)[n].taxes \in Seq(Taxes) /\ Len(Items(c)[n].taxes) \in Nat
    BY <1>6, LengthIn DEF Line, Item
  <1>8. Len(old.taxes) + 1 \in 1 .. Len(Items(c)[n].taxes)
    <2>1. ASSUME NEW p \in Nat, NEW q \in Nat, p <= q, p # q PROVE p + 1 \in 1 .. q
      BY <2>1
    <2>2. QED
      BY <1>3, <1>4, <1>7, <2>1
  <1>9. t \in Taxes
    BY <1>7, <1>8
  <1>10. CASE rate[t] # Gone /\ Becomes(c, w)
    <2>1. seen \in Rates
      <3>1. work[c].held \in {None} \cup [tax : Taxes, rate : Rates]
        BY <1>3, SMTT(40) DEF WorkType
      <3>2. rate[t] \in Rates
        BY <1>9, <1>10 DEF DInv, Gone
      <3> HIDE DEF t
      <3>3. QED
        BY <3>1, <3>2 DEF RateSeen
    <2>2. TaxAmount(LineSubtotal(old), seen) \in Nat
      <3>1. old.price \in Nat /\ old.quantity \in Nat /\ seen \in Nat
        BY <1>6, <2>1, DocumentConstants DEF Line
      <3> DEFINE num == old.price * old.quantity * seen
      <3>2. num \in Nat
        <4> HIDE DEF seen, old
        <4>1. old.price * old.quantity \in Nat
          BY <3>1
        <4>2. \A x, y \in Nat : x * y \in Nat
          OBVIOUS
        <4>3. QED
          BY <3>1, <4>1, <4>2
      <3>3. TaxAmount(LineSubtotal(old), seen) = (2 * num + 10000) \div (2 * 10000)
        BY DEF TaxAmount, LineSubtotal, Quantize
      <3> HIDE DEF num
      <3>4. QED
        BY <3>2, <3>3
    <2> HIDE DEF seen
    <2>3. taxed \in TaxRow
      BY <1>9, <2>1, <2>2 DEF TaxRow
    <2>4. [tax |-> t, rate |-> seen] \in [tax : Taxes, rate : Rates]
      BY <1>9, <2>1
    <2> HIDE DEF taxed, t
    <2>5. Append(old.taxes, taxed) \in Seq(TaxRow) /\ Len(Append(old.taxes, taxed)) = Len(old.taxes) + 1
      BY <1>7, <2>3
    <2>6. new \in Line /\ new.taxes = Append(old.taxes, taxed)
      BY <1>6, <2>5 DEF Line
    <2> HIDE DEF new
    <2>7. lines \in Seq(Line) /\ Len(lines) = n /\ lines[n] = new
      BY <1>3, <1>5, <2>6, ExceptSeq DEF Lines
    <2> HIDE DEF lines
    <2>8. /\ w \in WorkType /\ w.lines = lines /\ w.cart = work[c].cart
      BY <1>3, <2>4, <2>7 DEF WorkType
    <2> HIDE DEF w
    <2>9. w.cart.items = Items(c)
      BY <2>8 DEF Items
    <2>10. HasRead(w)
      <3>1. Len(w.lines[n].taxes) <= Len(w.cart.items[n].taxes)
        BY <1>7, <1>8, <2>5, <2>6, <2>7, <2>8, <2>9, SMTT(40)
      <3>2. Len(w.lines) <= Len(w.cart.items)
        BY <1>3, <2>7, <2>8, <2>9
      <3> HIDE DEF n, old
      <3>3. QED
        BY <1>3, <2>7, <2>8, <3>1, <3>2 DEF HasRead
    <2>11. QED
      BY <1>10, <2>8, <2>10, WorkStep DEF ReadsTax
  <1>11. Refused(c) \/ (rate[t] # Gone /\ Becomes(c, w))
    BY DEF ReadsTax, Lines
  <1>12. QED
    BY <1>1, <1>10, <1>11

LEMMA ClientStep ==
  ASSUME DInv, NEW c \in Cashiers, ReadsClient(c)
  PROVE  DInv'
  <1> DEFINE asked == work[c].cart.client
             who == IF asked = None THEN None ELSE client[asked]
             w == [work[c] EXCEPT !.state = "writing", !.client = who]
  <1>1. Reading(c) /\ Becomes(c, w)
    BY DEF ReadsClient
  <1>2. work[c] \in WorkType /\ asked \in Clients \cup {None}
    BY <1>1, InHand
  <1>3. who \in {None} \cup ClientPayloads
    BY <1>2 DEF DInv
  <1> HIDE DEF who
  <1>4. w \in WorkType /\ w.state = "writing"
    BY <1>2, <1>3 DEF WorkType
  <1> HIDE DEF w
  <1>5. QED
    BY <1>1, <1>4, WorkStep DEF HasRead, ReadsClient

(* A new invoice goes to the end, and the others stay. *)
LEMMA StoringStep ==
  ASSUME DInv, NEW c \in Cashiers, Stores(c)
  PROVE  /\ DInv'
         /\ \A n \in DOMAIN invoices : n \in DOMAIN invoices' /\ Says(invoices'[n]) = Says(invoices[n])
  <1>1. CASE Refused(c) /\ UNCHANGED invoices
    BY <1>1, RefusalStep DEF Stores
  <1>2. ASSUME NEW code \in NumericCodes,
               invoices' = Append(invoices, NewInvoice(c, FirstNumber + Len(invoices), code)),
               Becomes(c, [work[c] EXCEPT !.state = "stored"]),
               UNCHANGED <<catalogue, edits>>
        PROVE  /\ DInv'
               /\ \A n \in DOMAIN invoices :
                    n \in DOMAIN invoices' /\ Says(invoices'[n]) = Says(invoices[n])
    <2> DEFINE new == NewInvoice(c, FirstNumber + Len(invoices), code)
               w == [work[c] EXCEPT !.state = "stored"]
    <2>1. work[c] \in WorkType
      BY DEF DInv
    <2>2. w \in WorkType /\ w.state = "stored"
      BY <2>1 DEF WorkType
    <2>3. Becomes(c, w)
      BY <1>2
    <2> HIDE DEF w
    <2>4. work' \in [Cashiers -> WorkType] /\ \A d \in Cashiers : HasRead(work'[d])
      BY <2>2, <2>3 DEF DInv, Becomes, HasRead
    <2>5. IsInvoice(new)
      <3>1. Lines(c) \in Seq(Line)
        BY <2>1 DEF WorkType, Lines
      <3>2. /\ new.client = Snapshot(work[c].client) /\ new.xml.buyer = Buyer(work[c].client)
            /\ new.lines = Lines(c)
        BY DEF NewInvoice, BuildSriXml, ClientSeen
      <3>3. /\ new.client = [name |-> new.client.name, cedula |-> new.client.cedula]
            /\ new.xml.buyer = IF new.client.cedula = None THEN ConsumidorFinal ELSE new.client
        <4>1. work[c].client \in {None} \cup ClientPayloads
          BY <2>1 DEF WorkType
        <4>2. CASE work[c].client = None
          <5>1. ConsumidorFinal = [name |-> ConsumidorFinal.name, cedula |-> ConsumidorFinal.cedula]
            BY DEF ConsumidorFinal
          <5>2. QED
            BY <3>2, <4>2, <5>1, NothingPrints DEF Snapshot, Buyer
        <4>3. CASE work[c].client # None
          <5>1. /\ new.client = [name |-> work[c].client.name, cedula |-> work[c].client.cedula]
                /\ new.client.cedula = work[c].client.cedula
                /\ new.client.name = work[c].client.name
            BY <3>2, <4>3 DEF Snapshot
          <5>2. QED
            BY <3>2, <4>3, <5>1 DEF Buyer
        <4>4. QED
          BY <4>2, <4>3
      <3>4. new = [number |-> new.number, seller |-> new.seller, client |-> new.client,
                   lines |-> new.lines, subtotal |-> new.subtotal, taxTotal |-> new.taxTotal,
                   total |-> new.total, key |-> new.key, xml |-> new.xml]
        BY DEF NewInvoice
      <3> HIDE DEF new
      <3>5. QED
        BY <3>1, <3>2, <3>3, <3>4 DEF IsInvoice
    <2>6. invoices' = Append(invoices, new)
      BY <1>2
    <2> HIDE DEF new
    <2> DEFINE len == Len(invoices)
    <2>7. /\ invoices \in Seq(Stored) /\ len \in Nat /\ DOMAIN invoices = 1 .. len
      BY DEF DInv
    <2>8. /\ DOMAIN invoices' = 1 .. len + 1 /\ invoices'[len + 1] = new
          /\ \A n \in 1 .. len : invoices'[n] = invoices[n]
      <3>1. invoices \in Seq(Stored \cup {new}) /\ new \in Stored \cup {new}
        BY <2>7, SeqMonotonic
      <3>2. invoices' \in Seq(Stored \cup {new}) /\ Len(invoices') = len + 1
        BY <2>6, <3>1
      <3>3. QED
        BY <2>6, <2>7, <3>1, <3>2
    <2>9. Stored' = Stored \cup {new}
      BY <2>7, <2>8 DEF Stored
    <2>10. invoices' \in Seq(Stored')
      <3>1. invoices \in Seq(Stored') /\ new \in Stored'
        BY <2>7, <2>9, SeqMonotonic
      <3>2. QED
        BY <2>6, <3>1
    <2>11. DInv'
      BY <1>2, <2>4, <2>5, <2>9, <2>10 DEF DInv, catalogue
    <2>12. QED
      BY <2>7, <2>8, <2>11
  <1>3. QED
    BY <1>1, <1>2 DEF Stores

LEMMA NextStands ==
  DInv /\ [Next]_vars =>
    /\ DInv'
    /\ \A n \in DOMAIN invoices : n \in DOMAIN invoices' /\ Says(invoices'[n]) = Says(invoices[n])
  <1> SUFFICES ASSUME DInv, [Next]_vars
               PROVE  /\ DInv'
                      /\ \A n \in DOMAIN invoices :
                           n \in DOMAIN invoices' /\ Says(invoices'[n]) = Says(invoices[n])
    OBVIOUS
  <1>1. CASE UNCHANGED vars
    BY <1>1 DEF vars, DInv, Stored
  <1>2. CASE \E t \in Taxes : DeleteTax(t)
    BY <1>2, DeletionStep
  <1>3. CASE \E c \in Cashiers : Stores(c)
    BY <1>3, StoringStep
  <1>4. ASSUME UNCHANGED invoices, DInv'
        PROVE  /\ DInv'
               /\ \A n \in DOMAIN invoices :
                    n \in DOMAIN invoices' /\ Says(invoices'[n]) = Says(invoices[n])
    BY <1>4
  <1>5. ASSUME NEW p \in Products, EditProduct(p) PROVE UNCHANGED invoices /\ DInv'
    <2>1. UNCHANGED invoices /\ edits' \in 0 .. MaxEdits
      BY <1>5, DocumentConstants DEF EditProduct, Edits, DInv
    <2>2. QED
      BY <1>5, <2>1 DEF DInv, EditProduct, Edits, Stored
  <1>6. ASSUME NEW t \in Taxes, EditTax(t) PROVE UNCHANGED invoices /\ DInv'
    <2>1. UNCHANGED invoices /\ edits' \in 0 .. MaxEdits
      BY <1>6, DocumentConstants DEF EditTax, Edits, DInv
    <2>2. QED
      BY <1>6, <2>1 DEF DInv, EditTax, Edits, Stored
  <1>7. ASSUME NEW c \in Clients, EditClient(c) PROVE UNCHANGED invoices /\ DInv'
    <2>1. UNCHANGED invoices /\ edits' \in 0 .. MaxEdits
      BY <1>7, DocumentConstants DEF EditClient, Edits, DInv
    <2>2. QED
      BY <1>7, <2>1 DEF DInv, EditClient, Edits, Stored
  <1>8. ASSUME NEW c \in Cashiers, Begins(c) \/ ReadsProduct(c) \/ ReadsTax(c) \/ ReadsClient(c)
        PROVE  UNCHANGED invoices /\ DInv'
    <2>1. UNCHANGED invoices
      BY <1>8 DEF Begins, ReadsProduct, ReadsTax, ReadsClient
    <2>2. QED
      BY <1>8, <2>1, BeginStep, ProductStep, TaxStep, ClientStep, SMTT(40)
  <1>9. QED
    BY <1>1, <1>2, <1>3, <1>4, <1>5, <1>6, <1>7, <1>8 DEF Next, EditsSomething, Creates

-----------------------------------------------------------------------------
(* Types, for any catalogue, carts and edits.                              *)
THEOREM TypeCorrect == Spec => []TypeOK
  <1>1. DInv => TypeOK
    <2> SUFFICES ASSUME DInv PROVE TypeOK
      OBVIOUS
    <2>1. ASSUME NEW c \in Clients PROVE client[c].cedula = None \/ IsValidCedula(client[c].cedula)
      BY DEF DInv, ClientPayloads, Kept
    <2>2. ASSUME NEW invoice \in Stored, NEW t \in TaxesOf(invoice.lines) PROVE t \in Taxes \cup {None}
      <3>1. invoice.lines \in Seq(Line)
        BY DEF DInv, IsInvoice
      <3>2. PICK i \in 1 .. Len(invoice.lines) :
              \E k \in 1 .. Len(invoice.lines[i].taxes) : t = invoice.lines[i].taxes[k].tax
        BY <2>2 DEF TaxesOf, TaxPlaces, TaxAt
      <3>3. PICK k \in 1 .. Len(invoice.lines[i].taxes) : t = invoice.lines[i].taxes[k].tax
        BY <3>2
      <3>4. invoice.lines[i].taxes[k] \in TaxRow
        <4>1. invoice.lines[i] \in Line
          BY <3>1, ElementIn
        <4>2. invoice.lines[i].taxes \in Seq(TaxRow)
          BY <4>1 DEF Line
        <4>3. QED
          BY <4>2, ElementIn
      <3>5. QED
        BY <3>3, <3>4 DEF TaxRow
    <2>3. QED
      BY <2>1, <2>2 DEF DInv, TypeOK, WorkType
  <1>2. QED
    BY <1>1, InitDInv, NextStands, PTL DEF Spec

(* Whoever edits the client during the creation, the PDF prints the cedula *)
(* of the row and its name, or Consumidor final for want of a name; and    *)
(* Consumidor final alone where the row has no cedula.                     *)
THEOREM OneBuyer == Spec => []BuyersAgree
  <1>1. DInv => BuyersAgree
    <2> SUFFICES ASSUME DInv, NEW x \in Stored
                 PROVE  PdfHeader(x).buyer = IF x.client.cedula = None THEN ConsumidorFinal
                                             ELSE [x.client EXCEPT !.name = Or(@, NoName)]
      BY DEF BuyersAgree
    <2> DEFINE row == x.client
               printed == PdfHeader(x).buyer
    <2>1. /\ row = [name |-> row.name, cedula |-> row.cedula]
          /\ x.xml.buyer = IF row.cedula = None THEN ConsumidorFinal ELSE row
      BY DEF DInv, IsInvoice
    <2>2. printed = [name |-> Or(Or(x.xml.buyer.name, row.name), NoName),
                     cedula |-> Or(Or(x.xml.buyer.cedula, row.cedula), ConsumidorFinal.cedula)]
      BY DEF PdfHeader
    <2> HIDE DEF row, printed
    <2>3. CASE row.cedula = None
      <3>1. /\ printed.name = ConsumidorFinal.name /\ printed.cedula = ConsumidorFinal.cedula
            /\ printed = [name |-> printed.name, cedula |-> printed.cedula]
        BY <2>1, <2>2, <2>3, NothingPrints DEF Or
      <3>2. ConsumidorFinal = [name |-> ConsumidorFinal.name, cedula |-> ConsumidorFinal.cedula]
        BY DEF ConsumidorFinal
      <3>3. printed = ConsumidorFinal
        BY <3>1, <3>2
      <3>4. QED
        BY <2>3, <3>3 DEF row, printed
    <2>4. CASE row.cedula # None
      <3>1. printed = [name |-> Or(row.name, NoName), cedula |-> row.cedula]
        BY <2>1, <2>2, <2>4 DEF Or
      <3>2. [row EXCEPT !.name = Or(@, NoName)] = [name |-> Or(row.name, NoName), cedula |-> row.cedula]
        BY <2>1
      <3>3. QED
        BY <2>4, <3>1, <3>2 DEF row, printed
    <2>5. QED
      BY <2>3, <2>4
  <1>2. QED
    BY <1>1, InitDInv, NextStands, PTL DEF Spec

(* No later edit or deletion changes what a stored invoice says, but for   *)
(* the name of a deleted tax.                                              *)
THEOREM InvoicesKeepTheirWord == Spec => InvoicesStand
  <1>1. DInv /\ [Next]_vars =>
          [\A n \in DOMAIN invoices : n \in DOMAIN invoices' /\ Says(invoices'[n]) = Says(invoices[n])]_vars
    BY NextStands
  <1>2. QED
    BY <1>1, InitDInv, NextStands, PTL DEF Spec, InvoicesStand

-----------------------------------------------------------------------------
(* One rate for one tax.  The session holds the tax that was read last, so *)
(* a tax that is read again is the one it holds, or the cart came back to  *)
(* it after another.                                                       *)
LastHeld(w) ==
  TaxPlaces(w.lines) # {} =>
    /\ w.held # None
    /\ \E l \in TaxPlaces(w.lines) :
         /\ \A p \in TaxPlaces(w.lines) : p = l \/ Before(p, l)
         /\ w.held = [tax |-> TaxAt(w.lines, l).tax, rate |-> TaxAt(w.lines, l).rate]

OneRate(lines) ==
  ~ ComesBack(TaxesInOrder(lines)) =>
    \A p, q \in TaxPlaces(lines) :
      TaxAt(lines, p).tax = TaxAt(lines, q).tax => TaxAt(lines, p).rate = TaxAt(lines, q).rate

InOrder(w) == LastHeld(w) /\ OneRate(w.lines)
RateInv == \A c \in Cashiers : InOrder(work[c])

LEMMA PlacesAre ==
  ASSUME NEW lines, NEW p
  PROVE  p \in TaxPlaces(lines) <=>
           \E i \in 1 .. Len(lines) : \E k \in 1 .. Len(lines[i].taxes) : p = <<i, k>>
  BY DEF TaxPlaces

(* A cart came back to no tax if it does not with more taxes read. *)
LEMMA ComesBackStays ==
  ASSUME NEW few, NEW many, TaxPlaces(few) \subseteq TaxPlaces(many),
         \A p \in TaxPlaces(few) : TaxAt(many, p) = TaxAt(few, p),
         ComesBack(TaxesInOrder(few))
  PROVE  ComesBack(TaxesInOrder(many))
  <1>1. DOMAIN TaxesInOrder(few) = TaxPlaces(few) /\ DOMAIN TaxesInOrder(many) = TaxPlaces(many)
    BY DEF TaxesInOrder
  <1>2. \A p \in TaxPlaces(few) : TaxesInOrder(many)[p] = TaxesInOrder(few)[p]
    BY DEF TaxesInOrder
  <1>3. QED
    BY <1>1, <1>2 DEF ComesBack

LEMMA SameTaxes ==
  ASSUME NEW w, NEW v, InOrder(w), v.held = w.held,
         TaxPlaces(v.lines) = TaxPlaces(w.lines),
         \A p \in TaxPlaces(w.lines) : TaxAt(v.lines, p) = TaxAt(w.lines, p)
  PROVE  InOrder(v)
  <1>1. LastHeld(v)
    BY DEF InOrder, LastHeld
  <1>2. OneRate(v.lines)
    BY ComesBackStays DEF InOrder, OneRate
  <1>3. QED
    BY <1>1, <1>2 DEF InOrder

(* One tax more, read last. *)
LEMMA LastTax ==
  ASSUME NEW w, NEW v, InOrder(w), NEW q, NEW t \in Taxes, NEW seen \in Rates,
         TaxPlaces(v.lines) = TaxPlaces(w.lines) \cup {q},
         \A p \in TaxPlaces(w.lines) : Before(p, q) /\ TaxAt(v.lines, p) = TaxAt(w.lines, p),
         TaxAt(v.lines, q).tax = t, TaxAt(v.lines, q).rate = seen,
         seen = RateSeen(w.held, t), v.held = [tax |-> t, rate |-> seen]
  PROVE  InOrder(v)
  <1> DEFINE old == TaxPlaces(w.lines)
             taxAt(p) == TaxAt(v.lines, p).tax
             rateAt(p) == TaxAt(v.lines, p).rate
  <1>1. LastHeld(v)
    BY DocumentConstants DEF LastHeld
  <1>2. ASSUME ~ ComesBack(TaxesInOrder(v.lines)), NEW p \in old, taxAt(p) = t
        PROVE  rateAt(p) = seen
    <2>1. PICK l \in old :
            /\ \A r \in old : r = l \/ Before(r, l)
            /\ w.held = [tax |-> taxAt(l), rate |-> rateAt(l)]
      BY DEF InOrder, LastHeld
    <2>2. w.held # None /\ w.held.tax = taxAt(l) /\ w.held.rate = rateAt(l)
      BY <2>1 DEF InOrder, LastHeld
    <2>3. taxAt(l) = t
      <3>1. SUFFICES ASSUME taxAt(l) # t PROVE FALSE
        OBVIOUS
      <3>2. Before(p, l) /\ Before(l, q)
        BY <1>2, <2>1, <3>1
      <3>3. /\ DOMAIN TaxesInOrder(v.lines) = old \cup {q}
            /\ \A r \in old \cup {q} : TaxesInOrder(v.lines)[r] = taxAt(r)
        BY DEF TaxesInOrder
      <3>4. ComesBack(TaxesInOrder(v.lines))
        BY <1>2, <3>1, <3>2, <3>3 DEF ComesBack
      <3>5. QED
        BY <1>2, <3>4
    <2>4. seen = rateAt(l)
      BY <2>2, <2>3 DEF RateSeen
    <2>5. ~ ComesBack(TaxesInOrder(w.lines))
      BY <1>2, ComesBackStays
    <2>6. QED
      BY <1>2, <2>3, <2>4, <2>5 DEF InOrder, OneRate
  <1>3. ASSUME ~ ComesBack(TaxesInOrder(v.lines)), NEW p \in old, NEW r \in old, taxAt(p) = taxAt(r)
        PROVE  rateAt(p) = rateAt(r)
    <2>1. ~ ComesBack(TaxesInOrder(w.lines))
      BY <1>3, ComesBackStays
    <2>2. QED
      BY <1>3, <2>1 DEF InOrder, OneRate
  <1>4. OneRate(v.lines)
    <2>1. SUFFICES ASSUME ~ ComesBack(TaxesInOrder(v.lines)), NEW p \in old \cup {q}, NEW r \in old \cup {q},
                          taxAt(p) = taxAt(r)
                   PROVE  rateAt(p) = rateAt(r)
      BY DEF OneRate
    <2>2. CASE p \in old /\ r \in old
      BY <1>3, <2>1, <2>2
    <2>3. CASE p = q
      BY <1>2, <2>1, <2>3
    <2>4. CASE r = q
      BY <1>2, <2>1, <2>4
    <2>5. QED
      BY <2>2, <2>3, <2>4
  <1>5. QED
    BY <1>1, <1>4 DEF InOrder

(* A tax goes to the end of the last line, to the place q. *)
TaxAdded(few, many, taxed, q) ==
  LET n == Len(few) IN
  /\ few # <<>> /\ Len(many) = n
  /\ \A i \in 1 .. n : i # n => many[i] = few[i]
  /\ many[n].taxes = Append(few[n].taxes, taxed)
  /\ q = <<n, Len(few[n].taxes) + 1>>

LEMMA OneMoreTax ==
  ASSUME NEW lines \in Seq(Line), NEW more, NEW taxed, NEW q, TaxAdded(lines, more, taxed, q)
  PROVE  /\ \A p : p \in TaxPlaces(more) <=> p \in TaxPlaces(lines) \/ p = q
         /\ \A p \in TaxPlaces(lines) : Before(p, q) /\ TaxAt(more, p) = TaxAt(lines, p)
         /\ TaxAt(more, q) = taxed
  <1> DEFINE n == Len(lines)
             old == lines[n].taxes
             m == Len(old)
             new == more[n]
  <1>0. q = <<n, m + 1>> /\ lines # <<>> /\ new.taxes = Append(old, taxed)
    BY DEF TaxAdded
  <1>1. n \in Nat /\ n > 0 /\ n \in 1 .. n
    BY <1>0, EmptySeq, LengthIn
  <1>2. old \in Seq(TaxRow) /\ m \in Nat
    BY <1>1, ElementIn, LengthIn DEF Line
  <1>3. /\ Len(new.taxes) = m + 1 /\ new.taxes[m + 1] = taxed
        /\ \A k \in 1 .. m : new.taxes[k] = old[k]
    <2> HIDE DEF old, new
    <2>1. QED
      BY <1>0, <1>2
  <1>4. Len(more) = n /\ more[n] = new /\ \A i \in 1 .. n : i # n => more[i] = lines[i]
    BY DEF TaxAdded
  <1> HIDE DEF n, m, old, new
  <1>5. ASSUME NEW i \in 1 .. n, NEW k \in Nat
        PROVE  k \in 1 .. Len(more[i].taxes) <=> k \in 1 .. Len(lines[i].taxes) \/ <<i, k>> = q
    <2>1. CASE i = n
      BY <1>0, <1>2, <1>3, <1>4, <2>1, SMTT(40) DEF m, old
    <2>2. CASE i # n
      BY <1>0, <1>4, <2>2
    <2>3. QED
      BY <2>1, <2>2
  <1>6. TaxPlaces(more) = TaxPlaces(lines) \cup {q}
    <2>1. ASSUME NEW p \in TaxPlaces(more) PROVE p \in TaxPlaces(lines) \cup {q}
      <3>0. Len(more) = n
        BY <1>4
      <3>1. PICK i \in 1 .. n : \E k \in 1 .. Len(more[i].taxes) : p = <<i, k>>
        BY <3>0, PlacesAre
      <3>2. PICK k \in 1 .. Len(more[i].taxes) : p = <<i, k>>
        BY <3>1
      <3>3. k \in 1 .. Len(lines[i].taxes) \/ p = q
        BY <1>5, <3>2
      <3>4. QED
        BY <3>2, <3>3, PlacesAre DEF n
    <2>2. ASSUME NEW p \in TaxPlaces(lines) PROVE p \in TaxPlaces(more)
      <3>1. PICK i \in 1 .. n : \E k \in 1 .. Len(lines[i].taxes) : p = <<i, k>>
        BY PlacesAre DEF n
      <3>2. PICK k \in 1 .. Len(lines[i].taxes) : p = <<i, k>>
        BY <3>1
      <3>3. k \in 1 .. Len(more[i].taxes)
        BY <1>5, <3>2
      <3>4. QED
        BY <1>4, <3>2, <3>3, PlacesAre
    <2>3. q \in TaxPlaces(more)
      <3>1. m + 1 \in 1 .. Len(more[n].taxes)
        BY <1>0, <1>1, <1>2, <1>5
      <3>2. QED
        BY <1>0, <1>1, <1>4, <3>1, PlacesAre
    <2>4. QED
      BY <2>1, <2>2, <2>3
  <1>7. ASSUME NEW p \in TaxPlaces(lines) PROVE Before(p, q) /\ TaxAt(more, p) = TaxAt(lines, p)
    <2>1. PICK i \in 1 .. n : \E k \in 1 .. Len(lines[i].taxes) : p = <<i, k>>
      BY PlacesAre DEF n
    <2>2. PICK k \in 1 .. Len(lines[i].taxes) : p = <<i, k>>
      BY <2>1
    <2>3. CASE i = n
      <3>1. k \in 1 .. m
        BY <2>2, <2>3 DEF m, old
      <3>2. new.taxes[k] = lines[n].taxes[k]
        BY <1>3, <3>1 DEF old
      <3>3. Before(p, q)
        BY <1>0, <1>2, <2>2, <2>3, <3>1 DEF Before
      <3>4. QED
        BY <1>4, <2>2, <2>3, <3>2, <3>3 DEF TaxAt
    <2>4. CASE i # n
      <3>1. Before(p, q)
        BY <1>0, <1>1, <2>2, <2>4 DEF Before
      <3>2. QED
        BY <1>4, <2>2, <2>4, <3>1 DEF TaxAt
    <2>5. QED
      BY <2>3, <2>4
  <1>8. TaxAt(more, q) = taxed
    BY <1>0, <1>3, <1>4 DEF TaxAt
  <1>9. QED
    BY <1>6, <1>7, <1>8

(* A line without taxes goes to the end. *)
LEMMA OneMoreLine ==
  ASSUME NEW lines \in Seq(Line), NEW line, line.taxes = <<>>
  PROVE  /\ TaxPlaces(Append(lines, line)) = TaxPlaces(lines)
         /\ \A p \in TaxPlaces(lines) : TaxAt(Append(lines, line), p) = TaxAt(lines, p)
  <1> DEFINE n == Len(lines)
             more == Append(lines, line)
  <1>1. n \in Nat
    BY LengthIn
  <1>2. Len(more) = n + 1 /\ more[n + 1] = line /\ \A i \in 1 .. n : more[i] = lines[i]
    OBVIOUS
  <1> HIDE DEF more, n
  <1>3. ASSUME NEW p \in TaxPlaces(more) PROVE p \in TaxPlaces(lines)
    <2>1. PICK i \in 1 .. n + 1 : \E k \in 1 .. Len(more[i].taxes) : p = <<i, k>>
      BY <1>2, PlacesAre
    <2>2. PICK k \in 1 .. Len(more[i].taxes) : p = <<i, k>>
      BY <2>1
    <2>3. i # n + 1
      <3>1. Len(line.taxes) = 0
        OBVIOUS
      <3>2. QED
        BY <1>2, <2>2, <3>1
    <2>4. i \in 1 .. n /\ more[i] = lines[i]
      BY <1>1, <1>2, <2>3
    <2>5. QED
      BY <2>2, <2>4, PlacesAre DEF n
  <1>4. ASSUME NEW p \in TaxPlaces(lines)
        PROVE  p \in TaxPlaces(more) /\ TaxAt(more, p) = TaxAt(lines, p)
    <2>1. PICK i \in 1 .. n : \E k \in 1 .. Len(lines[i].taxes) : p = <<i, k>>
      BY PlacesAre DEF n
    <2>2. PICK k \in 1 .. Len(lines[i].taxes) : p = <<i, k>>
      BY <2>1
    <2>3. more[i] = lines[i] /\ i \in 1 .. n + 1
      BY <1>1, <1>2
    <2>4. QED
      BY <1>2, <2>2, <2>3, PlacesAre DEF TaxAt
  <1>5. QED
    BY <1>3, <1>4 DEF more

(* What a creation does to its lines. *)
LEMMA InOrderStep ==
  ASSUME RateInv, NEW c \in Cashiers, NEW v, InOrder(v), DInv, Becomes(c, v)
  PROVE  RateInv'
  BY DEF RateInv, DInv, Becomes

(* One more tax is read: from w to v, at the place q. *)
TaxRead(w, v, taxed, q) ==
  LET n == Len(w.lines) IN
  /\ TaxAdded(w.lines, v.lines, taxed, q)
  /\ LineSubtotal(v.lines[n]) = LineSubtotal(w.lines[n])
  /\ taxed.tax \in Taxes /\ taxed.rate \in Rates /\ taxed.rate = RateSeen(w.held, taxed.tax)
  /\ taxed.amount = TaxAmount(LineSubtotal(w.lines[n]), taxed.rate)
  /\ v.held = [tax |-> taxed.tax, rate |-> taxed.rate]

LEMMA TaxIsRead ==
  ASSUME DInv, NEW c \in Cashiers, ReadsTax(c), ~ Refused(c)
  PROVE  \E v, taxed, q : Becomes(c, v) /\ TaxRead(work[c], v, taxed, q)
  <1> DEFINE n == Len(Lines(c))
             old == Lines(c)[n]
             t == Items(c)[n].taxes[Len(old.taxes) + 1]
             seen == RateSeen(work[c].held, t)
             taxed == [tax |-> t, rate |-> seen, amount |-> TaxAmount(LineSubtotal(old), seen)]
             new == [old EXCEPT !.taxes = Append(old.taxes, taxed)]
             lines == [work[c].lines EXCEPT ![n] = new]
             w == [work[c] EXCEPT !.lines = lines, !.held = [tax |-> t, rate |-> seen]]
  <1>1. Reading(c) /\ ~ LineIsRead(c) /\ Becomes(c, w) /\ rate[t] # Gone
    BY DEF ReadsTax, Lines
  <1>2. /\ work[c] \in WorkType /\ Lines(c) \in Seq(Line) /\ n \in Nat
        /\ n > 0 => Len(old.taxes) <= Len(Items(c)[n].taxes)
        /\ Items(c) \in Seq(Item) /\ n <= Len(Items(c))
    BY <1>1, InHand
  <1>3. n > 0 /\ Len(old.taxes) # Len(Items(c)[n].taxes)
    BY <1>1, <1>2 DEF LineIsRead
  <1>4. n \in 1 .. Len(Lines(c)) /\ n \in 1 .. Len(Items(c)) /\ Lines(c) # <<>>
    BY <1>2, <1>3, EmptySeq
  <1>5. old \in Line /\ Items(c)[n] \in Item
    BY <1>2, <1>4, ElementIn
  <1>6. /\ Len(old.taxes) \in Nat
        /\ Items(c)[n].taxes \in Seq(Taxes) /\ Len(Items(c)[n].taxes) \in Nat
    BY <1>5, LengthIn DEF Line, Item
  <1>7. Len(old.taxes) + 1 \in 1 .. Len(Items(c)[n].taxes)
    <2>1. ASSUME NEW p \in Nat, NEW q \in Nat, p <= q, p # q PROVE p + 1 \in 1 .. q
      BY <2>1
    <2>2. QED
      BY <1>2, <1>3, <1>6, <2>1
  <1>8. t \in Taxes
    BY <1>6, <1>7, SMTT(40)
  <1>9. seen \in Rates
    <2>1. work[c].held \in {None} \cup [tax : Taxes, rate : Rates]
      BY <1>2 DEF WorkType
    <2>2. rate[t] \in Rates
      BY <1>1, <1>8 DEF DInv, Gone
    <2> HIDE DEF t
    <2>3. QED
      BY <2>1, <2>2 DEF RateSeen
  <1>10. /\ taxed.tax = t /\ taxed.rate = seen /\ new.taxes = Append(old.taxes, taxed)
         /\ taxed.amount = TaxAmount(LineSubtotal(old), seen)
         /\ new.price = old.price /\ new.quantity = old.quantity
    BY <1>5 DEF Line
  <1>11. w.lines = lines /\ w.held = [tax |-> t, rate |-> seen]
    BY <1>2 DEF WorkType
  <1>12. work[c].lines = Lines(c) /\ seen = RateSeen(work[c].held, t)
    BY DEF Lines
  <1> HIDE DEF w, taxed, new, t, seen
  <1> DEFINE q == <<n, Len(old.taxes) + 1>>
             all == work[c].lines
  <1>13. all \in Seq(Line) /\ all # <<>> /\ new.taxes = Append(all[Len(all)].taxes, taxed)
    BY <1>2, <1>4, <1>10, <1>12
  <1>14. lines = [all EXCEPT ![Len(all)] = new] /\ q = <<Len(all), Len(all[Len(all)].taxes) + 1>>
    BY <1>12
  <1>15. Len(all) \in 1 .. Len(all) /\ old = all[Len(all)]
    BY <1>4, <1>12
  <1> HIDE DEF n, old, lines, q, all
  <1>16. /\ Len(lines) = Len(all) /\ lines[Len(all)] = new
         /\ \A i \in 1 .. Len(all) : i # Len(all) => lines[i] = all[i]
    <2>1. all \in Seq(Line \cup {new}) /\ new \in Line \cup {new}
      BY <1>13, SeqMonotonic
    <2>2. QED
      BY <1>14, <1>15, <2>1, ExceptSeq
  <1>17. TaxAdded(all, w.lines, taxed, q)
    BY <1>11, <1>13, <1>14, <1>16 DEF TaxAdded
  <1>18. LineSubtotal(w.lines[Len(all)]) = LineSubtotal(all[Len(all)])
    BY <1>10, <1>11, <1>15, <1>16 DEF LineSubtotal
  <1>19. TaxRead(work[c], w, taxed, q)
    BY <1>8, <1>9, <1>10, <1>11, <1>12, <1>15, <1>17, <1>18 DEF TaxRead, all
  <1>20. QED
    BY <1>1, <1>19, SMTT(40)

LEMMA ReadsTaxInOrder ==
  ASSUME RateInv, DInv, NEW c \in Cashiers, ReadsTax(c), ~ Refused(c)
  PROVE  RateInv'
  <1>1. PICK v, taxed, q : Becomes(c, v) /\ TaxRead(work[c], v, taxed, q)
    BY TaxIsRead
  <1>2. work[c].lines \in Seq(Line) /\ InOrder(work[c])
    BY DEF DInv, WorkType, RateInv
  <1>3. TaxAdded(work[c].lines, v.lines, taxed, q)
    BY <1>1 DEF TaxRead
  <1>4. /\ TaxPlaces(v.lines) = TaxPlaces(work[c].lines) \cup {q}
        /\ \A p \in TaxPlaces(work[c].lines) :
             Before(p, q) /\ TaxAt(v.lines, p) = TaxAt(work[c].lines, p)
        /\ TaxAt(v.lines, q) = taxed
    BY <1>2, <1>3, OneMoreTax
  <1>5. InOrder(v)
    BY <1>1, <1>2, <1>4, LastTax DEF TaxRead
  <1>6. QED
    BY <1>1, <1>5, InOrderStep

LEMMA ReadsProductInOrder ==
  ASSUME RateInv, DInv, NEW c \in Cashiers, ReadsProduct(c), ~ Refused(c)
  PROVE  RateInv'
  <1> DEFINE item == Items(c)[Len(Lines(c)) + 1]
             line == [product |-> item.product, quantity |-> item.quantity,
                      price |-> product[item.product].price, taxes |-> <<>>]
             w == [work[c] EXCEPT !.lines = Append(@, line)]
  <1>1. Becomes(c, w)
    BY DEF ReadsProduct
  <1>2. line.taxes = <<>>
    OBVIOUS
  <1> HIDE DEF line
  <1>3. work[c] \in WorkType /\ work[c].lines \in Seq(Line) /\ InOrder(work[c])
    BY DEF DInv, WorkType, RateInv
  <1>4. w.lines = Append(work[c].lines, line) /\ w.held = work[c].held
    BY <1>3 DEF WorkType
  <1> HIDE DEF w
  <1>5. /\ TaxPlaces(w.lines) = TaxPlaces(work[c].lines)
        /\ \A p \in TaxPlaces(work[c].lines) : TaxAt(w.lines, p) = TaxAt(work[c].lines, p)
    BY <1>2, <1>3, <1>4, OneMoreLine
  <1>6. InOrder(w)
    BY <1>3, <1>4, <1>5, SameTaxes
  <1>7. QED
    BY <1>1, <1>6, InOrderStep

(* A step that leaves the lines of a creation as they are. *)
LEMMA LinesKept ==
  ASSUME RateInv, DInv, NEW c \in Cashiers, NEW v, Becomes(c, v),
         v.lines = work[c].lines, v.held = work[c].held
  PROVE  RateInv'
  <1>1. InOrder(v)
    BY SameTaxes DEF RateInv
  <1>2. QED
    BY <1>1, InOrderStep

LEMMA CreatesInOrder ==
  ASSUME RateInv, DInv, NEW c \in Cashiers, Creates(c)
  PROVE  RateInv'
  <1>1. work[c] \in WorkType
    BY DEF DInv
  <1>2. CASE Refused(c)
    <2> DEFINE v == [work[c] EXCEPT !.state = "refused"]
    <2>1. Becomes(c, v) /\ v.lines = work[c].lines /\ v.held = work[c].held
      BY <1>1, <1>2 DEF Refused, WorkType
    <2>2. QED
      BY <2>1, LinesKept
  <1>3. CASE Begins(c)
    <2>1. PICK cart \in Carts :
            Becomes(c, [Idle EXCEPT !.cart = cart,
                          !.state = IF TwiceTheSame(cart.items) THEN "refused" ELSE "reading"])
      BY <1>3 DEF Begins
    <2> DEFINE v == [Idle EXCEPT !.cart = cart,
                       !.state = IF TwiceTheSame(cart.items) THEN "refused" ELSE "reading"]
    <2>2. v.lines = <<>>
      BY DEF Idle
    <2> HIDE DEF v
    <2>3. TaxPlaces(v.lines) = {}
      <3>1. Len(v.lines) = 0
        BY <2>2
      <3>2. QED
        BY <3>1, PlacesAre
    <2>4. InOrder(v)
      BY <2>3 DEF InOrder, LastHeld, OneRate
    <2>5. QED
      BY <2>1, <2>4, InOrderStep DEF v
  <1>4. CASE ReadsProduct(c) /\ ~ Refused(c)
    BY <1>4, ReadsProductInOrder
  <1>5. CASE ReadsTax(c) /\ ~ Refused(c)
    BY <1>5, ReadsTaxInOrder
  <1>6. CASE ReadsClient(c)
    <2> DEFINE asked == work[c].cart.client
               v == [work[c] EXCEPT !.state = "writing",
                       !.client = IF asked = None THEN None ELSE client[asked]]
    <2>1. Becomes(c, v) /\ v.lines = work[c].lines /\ v.held = work[c].held
      BY <1>1, <1>6 DEF ReadsClient, WorkType
    <2>2. QED
      BY <2>1, LinesKept
  <1>7. CASE Stores(c) /\ ~ Refused(c)
    <2> DEFINE v == [work[c] EXCEPT !.state = "stored"]
    <2>1. Becomes(c, v) /\ v.lines = work[c].lines /\ v.held = work[c].held
      BY <1>1, <1>7 DEF Stores, WorkType
    <2>2. QED
      BY <2>1, LinesKept
  <1>8. QED
    BY <1>2, <1>3, <1>4, <1>5, <1>6, <1>7 DEF Creates

(* One tax has one rate on all lines of a creation, however the tax is     *)
(* edited while the creation reads.                                        *)
THEOREM OneRateOfATax == Spec => []OneRatePerTax
  <1>1. Init => RateInv
    <2>1. TaxPlaces(Idle.lines) = {}
      <3>1. Len(Idle.lines) = 0
        BY DEF Idle
      <3>2. QED
        BY <3>1, PlacesAre
    <2>2. InOrder(Idle)
      BY <2>1 DEF InOrder, LastHeld, OneRate
    <2>3. QED
      BY <2>2 DEF Init, RateInv
  <1>2. DInv /\ RateInv /\ [Next]_vars => RateInv'
    <2> SUFFICES ASSUME DInv, RateInv, [Next]_vars PROVE RateInv'
      OBVIOUS
    <2>1. CASE UNCHANGED vars
      BY <2>1 DEF vars, RateInv
    <2>2. CASE EditsSomething
      <3>1. UNCHANGED work
        BY <2>2 DEF EditsSomething, EditProduct, EditTax, DeleteTax, EditClient, Edits
      <3>2. QED
        BY <3>1 DEF RateInv
    <2>3. QED
      BY <2>1, <2>2, CreatesInOrder DEF Next
  <1>3. RateInv => OneRatePerTax
    BY DEF RateInv, InOrder, OneRate, OneRatePerTax, Lines
  <1>4. QED
    BY <1>1, <1>2, <1>3, InitDInv, NextStands, PTL DEF Spec

-----------------------------------------------------------------------------
(* The access key.  Numbers of nine digits at most are told apart by those *)
(* digits, and they stand at a fixed place of the key.                     *)
LEMMA Tens ==
  /\ 10 ^ 0 = 1 /\ 10 ^ 1 = 10 /\ 10 ^ 2 = 100 /\ 10 ^ 3 = 1000 /\ 10 ^ 4 = 10000
  /\ 10 ^ 5 = 100000 /\ 10 ^ 6 = 1000000 /\ 10 ^ 7 = 10000000 /\ 10 ^ 8 = 100000000
  BY SMT

(* The digit of n that stands for k. *)
DigitOf(n, k) == (n \div k) % 10

LEMMA DigitAt ==
  ASSUME NEW n \in Nat
  PROVE  /\ Padded(n, 9)[1] = DigitOf(n, 100000000)
         /\ Padded(n, 9)[2] = DigitOf(n, 10000000)
         /\ Padded(n, 9)[3] = DigitOf(n, 1000000)
         /\ Padded(n, 9)[4] = DigitOf(n, 100000)
         /\ Padded(n, 9)[5] = DigitOf(n, 10000)
         /\ Padded(n, 9)[6] = DigitOf(n, 1000)
         /\ Padded(n, 9)[7] = DigitOf(n, 100)
         /\ Padded(n, 9)[8] = DigitOf(n, 10)
         /\ Padded(n, 9)[9] = DigitOf(n, 1)
  <1>1. \A i \in 1 .. 9 : Padded(n, 9)[i] = DigitOf(n, 10 ^ (9 - i))
    BY SMT DEF Padded, DigitOf
  <1>2. /\ 9 - 1 = 8 /\ 9 - 2 = 7 /\ 9 - 3 = 6 /\ 9 - 4 = 5 /\ 9 - 5 = 4
        /\ 9 - 6 = 3 /\ 9 - 7 = 2 /\ 9 - 8 = 1 /\ 9 - 9 = 0
    BY SMT
  <1>3. QED
    BY <1>1, <1>2, Tens, SMT

LEMMA TenAndOne ==
  ASSUME NEW n \in Nat
  PROVE  n = 10 * (n \div 10) + (n % 10)
  OBVIOUS

LEMMA SameButLast ==
  ASSUME NEW a \in Nat, NEW b \in Nat, a \div 10 = b \div 10, a % 10 = b % 10
  PROVE  a = b
  <1> DEFINE tens(n) == n \div 10
             ones(n) == n % 10
  <1>1. a = 10 * tens(a) + ones(a) /\ b = 10 * tens(b) + ones(b)
    BY TenAndOne, SMT
  <1>2. tens(a) = tens(b) /\ ones(a) = ones(b)
    OBVIOUS
  <1> HIDE DEF tens, ones
  <1>3. QED
    BY <1>1, <1>2, SMT

LEMMA DivisionOnce ==
  ASSUME NEW n \in Nat
  PROVE  /\ n \div 10 \in Nat /\ n \div 100 \in Nat /\ n \div 1000 \in Nat
         /\ n \div 10000 \in Nat /\ n \div 100000 \in Nat /\ n \div 1000000 \in Nat
         /\ n \div 10000000 \in Nat /\ n \div 100000000 \in Nat
         /\ n \div 100 = (n \div 10) \div 10
         /\ n \div 1000 = (n \div 100) \div 10
         /\ n \div 10000 = (n \div 1000) \div 10
         /\ n \div 100000 = (n \div 10000) \div 10
         /\ n \div 1000000 = (n \div 100000) \div 10
         /\ n \div 10000000 = (n \div 1000000) \div 10
         /\ n \div 100000000 = (n \div 10000000) \div 10
  BY SMT

LEMMA PaddedTellsApart ==
  ASSUME NEW a \in Nat, NEW b \in Nat, a < 1000000000, b < 1000000000,
         \A i \in 1 .. 9 : Padded(a, 9)[i] = Padded(b, 9)[i]
  PROVE  a = b
  <1> DEFINE same(k) == DigitOf(a, k) = DigitOf(b, k)
  <1>0. /\ same(100000000) /\ same(10000000) /\ same(1000000) /\ same(100000) /\ same(10000)
        /\ same(1000) /\ same(100) /\ same(10) /\ same(1)
    <2> DEFINE p == Padded(a, 9)
               q == Padded(b, 9)
    <2>1. /\ p[1] = q[1] /\ p[2] = q[2] /\ p[3] = q[3] /\ p[4] = q[4] /\ p[5] = q[5]
          /\ p[6] = q[6] /\ p[7] = q[7] /\ p[8] = q[8] /\ p[9] = q[9]
      BY SMT
    <2>2. QED
      BY <2>1, DigitAt, SMT
  <1> HIDE DEF same
  <1>1. \A n \in 0 .. 9 : n % 10 = n
    BY SMT
  <1>2. \A n \in Nat : n < 1000000000 => n \div 100000000 \in 0 .. 9
    BY SMT
  <1>3. a \div 100000000 = b \div 100000000
    <2>1. (a \div 100000000) % 10 = (b \div 100000000) % 10
      BY <1>0, SMT DEF same, DigitOf
    <2>2. QED
      BY <1>1, <1>2, <2>1, SMT
  <1>4. a \div 10000000 = b \div 10000000
    <2>1. (a \div 10000000) % 10 = (b \div 10000000) % 10
      BY <1>0, SMT DEF same, DigitOf
    <2>2. QED
      BY <1>3, <2>1, DivisionOnce, SameButLast, SMT
  <1>5. a \div 1000000 = b \div 1000000
    <2>1. (a \div 1000000) % 10 = (b \div 1000000) % 10
      BY <1>0, SMT DEF same, DigitOf
    <2>2. QED
      BY <1>4, <2>1, DivisionOnce, SameButLast, SMT
  <1>6. a \div 100000 = b \div 100000
    <2>1. (a \div 100000) % 10 = (b \div 100000) % 10
      BY <1>0, SMT DEF same, DigitOf
    <2>2. QED
      BY <1>5, <2>1, DivisionOnce, SameButLast, SMT
  <1>7. a \div 10000 = b \div 10000
    <2>1. (a \div 10000) % 10 = (b \div 10000) % 10
      BY <1>0, SMT DEF same, DigitOf
    <2>2. QED
      BY <1>6, <2>1, DivisionOnce, SameButLast, SMT
  <1>8. a \div 1000 = b \div 1000
    <2>1. (a \div 1000) % 10 = (b \div 1000) % 10
      BY <1>0, SMT DEF same, DigitOf
    <2>2. QED
      BY <1>7, <2>1, DivisionOnce, SameButLast, SMT
  <1>9. a \div 100 = b \div 100
    <2>1. (a \div 100) % 10 = (b \div 100) % 10
      BY <1>0, SMT DEF same, DigitOf
    <2>2. QED
      BY <1>8, <2>1, DivisionOnce, SameButLast, SMT
  <1>10. a \div 10 = b \div 10
    <2>1. (a \div 10) % 10 = (b \div 10) % 10
      BY <1>0, SMT DEF same, DigitOf
    <2>2. QED
      BY <1>9, <2>1, DivisionOnce, SameButLast, SMT
  <1>11. a % 10 = b % 10
    <2>1. a \div 1 = a /\ b \div 1 = b
      BY SMT
    <2>2. QED
      BY <1>0, <2>1, SMT DEF same, DigitOf
  <1>12. QED
    BY <1>10, <1>11, SameButLast, SMT

IsSequence(s, n) == \E S : s \in Seq(S) /\ Len(s) = n

LEMMA PaddedSequence ==
  ASSUME NEW n, NEW width \in Nat
  PROVE  IsSequence(Padded(n, width), width)
  <1> DEFINE digit(i) == (n \div 10 ^ (width - i)) % 10
             S == {digit(i) : i \in 1 .. width}
             p == [i \in 1 .. width |-> digit(i)]
  <1>1. p \in [1 .. width -> S]
    OBVIOUS
  <1>2. Padded(n, width) = p
    BY DEF Padded
  <1> HIDE DEF S, p
  <1>3. p \in Seq(S) /\ Len(p) = width
    BY <1>1, SequenceOver
  <1>4. QED
    BY <1>2, <1>3 DEF IsSequence

(* Sequences put together: how long they are, and what stands where. *)
Joins(u, s, m, t, n) == u = s \o t /\ IsSequence(s, m) /\ IsSequence(t, n)
Starts(u, s, m) == \A i \in 1 .. m : u[i] = s[i]
Follows(u, m, t, n) == \A i \in 1 .. n : u[m + i] = t[i]

LEMMA Joined ==
  ASSUME NEW u, NEW s, NEW t, NEW m \in Nat, NEW n \in Nat, Joins(u, s, m, t, n)
  PROVE  IsSequence(u, m + n) /\ Starts(u, s, m) /\ Follows(u, m, t, n)
  <1>1. PICK S : s \in Seq(S) /\ Len(s) = m
    BY DEF IsSequence, Joins
  <1>2. PICK T : t \in Seq(T) /\ Len(t) = n
    BY DEF IsSequence, Joins
  <1>3. s \in Seq(S \cup T) /\ t \in Seq(S \cup T)
    BY <1>1, <1>2, SeqMonotonic
  <1>4. /\ s \o t \in Seq(S \cup T) /\ Len(s \o t) = m + n
        /\ \A i \in 1 .. m + n : (s \o t)[i] = IF i <= m THEN s[i] ELSE t[i - m]
    BY <1>1, <1>2, <1>3, ConcatProperties
  <1>5. ASSUME NEW i \in 1 .. m PROVE (s \o t)[i] = s[i]
    <2>1. i \in 1 .. m + n /\ i <= m
      OBVIOUS
    <2>2. QED
      BY <1>4, <2>1
  <1>6. ASSUME NEW i \in 1 .. n PROVE (s \o t)[m + i] = t[i]
    <2>1. m + i \in 1 .. m + n /\ ~ (m + i <= m) /\ m + i - m = i
      OBVIOUS
    <2>2. QED
      BY <1>4, <2>1
  <1>7. QED
    BY <1>4, <1>5, <1>6 DEF IsSequence, Joins, Starts, Follows

KeyOf(number, code) == GenerateAccessKey(Date, Ruc, Environment, Sequential(number), code)

LEMMA KeyShape ==
  ASSUME NEW number, NEW code
  PROVE  /\ Len(KeyOf(number, code)) = 49
         /\ \A i \in 1 .. 9 : KeyOf(number, code)[30 + i] = Padded(number, 9)[i]
         /\ SubSeq(KeyOf(number, code), 31, 39) = Padded(number, 9)
  <1> DEFINE p3 == Padded(1, 3)
             p9 == Padded(Sequential(number), 9)
             p8 == Padded(code, 8)
             a == Date \o <<0, 1>>
             b == a \o Ruc
             d == b \o <<Environment>>
             e == d \o p3
             f == e \o p3
             g == f \o p9
             h == g \o p8
             base == h \o <<1>>
             digit == GenerateVerificatorDigit(base)
             key == Append(base, digit)
  <1>1. KeyOf(number, code) = key
    BY DEF KeyOf, GenerateAccessKey
  <1>2. p9 = Padded(number, 9)
    BY DEF Sequential
  <1>3. IsSequence(p3, 3) /\ IsSequence(p9, 9) /\ IsSequence(p8, 8)
    BY PaddedSequence
  <1>4. IsSequence(Date, 8) /\ IsSequence(Ruc, 13)
    BY KeyFields DEF IsSequence
  <1>5. IsSequence(<<0, 1>>, 2)
    <2>1. <<0, 1>> \in Seq(Nat) /\ Len(<<0, 1>>) = 2
      OBVIOUS
    <2>2. QED
      BY <2>1 DEF IsSequence
  <1>6. ASSUME NEW x PROVE IsSequence(<<x>>, 1)
    <2>1. <<x>> \in Seq({x}) /\ Len(<<x>>) = 1
      OBVIOUS
    <2>2. QED
      BY <2>1 DEF IsSequence
  <1> HIDE DEF p3, p9, p8, digit
  <1>7. IsSequence(a, 10)
    <2>1. Joins(a, Date, 8, <<0, 1>>, 2)
      BY <1>4, <1>5 DEF Joins
    <2> HIDE DEF a
    <2>2. 8 \in Nat /\ 2 \in Nat
      OBVIOUS
    <2>3. IsSequence(a, 8 + 2)
      BY <2>1, <2>2, Joined, Zenon
    <2>4. 8 + 2 = 10
      OBVIOUS
    <2>5. QED
      BY <2>3, <2>4
  <1> HIDE DEF a
  <1>8. IsSequence(b, 23)
    <2>1. Joins(b, a, 10, Ruc, 13)
      BY <1>4, <1>7 DEF Joins
    <2> HIDE DEF b
    <2>2. 10 \in Nat /\ 13 \in Nat
      OBVIOUS
    <2>3. IsSequence(b, 10 + 13)
      BY <2>1, <2>2, Joined, Zenon
    <2>4. 10 + 13 = 23
      OBVIOUS
    <2>5. QED
      BY <2>3, <2>4
  <1> HIDE DEF b
  <1>9. IsSequence(d, 24)
    <2>1. Joins(d, b, 23, <<Environment>>, 1)
      BY <1>6, <1>8 DEF Joins
    <2> HIDE DEF d
    <2>2. 23 \in Nat /\ 1 \in Nat
      OBVIOUS
    <2>3. IsSequence(d, 23 + 1)
      BY <2>1, <2>2, Joined, Zenon
    <2>4. 23 + 1 = 24
      OBVIOUS
    <2>5. QED
      BY <2>3, <2>4
  <1> HIDE DEF d
  <1>10. IsSequence(e, 27)
    <2>1. Joins(e, d, 24, p3, 3)
      BY <1>3, <1>9 DEF Joins
    <2> HIDE DEF e
    <2>2. 24 \in Nat /\ 3 \in Nat
      OBVIOUS
    <2>3. IsSequence(e, 24 + 3)
      BY <2>1, <2>2, Joined, Zenon
    <2>4. 24 + 3 = 27
      OBVIOUS
    <2>5. QED
      BY <2>3, <2>4
  <1> HIDE DEF e
  <1>11. IsSequence(f, 30)
    <2>1. Joins(f, e, 27, p3, 3)
      BY <1>3, <1>10 DEF Joins
    <2> HIDE DEF f
    <2>2. 27 \in Nat /\ 3 \in Nat
      OBVIOUS
    <2>3. IsSequence(f, 27 + 3)
      BY <2>1, <2>2, Joined, Zenon
    <2>4. 27 + 3 = 30
      OBVIOUS
    <2>5. QED
      BY <2>3, <2>4
  <1> HIDE DEF f
  <1>12. IsSequence(g, 39) /\ Follows(g, 30, p9, 9)
    <2>1. Joins(g, f, 30, p9, 9)
      BY <1>3, <1>11 DEF Joins
    <2> HIDE DEF g
    <2>2. 30 \in Nat /\ 9 \in Nat
      OBVIOUS
    <2>3. IsSequence(g, 30 + 9) /\ Follows(g, 30, p9, 9)
      BY <2>1, <2>2, Joined, Zenon
    <2>4. 30 + 9 = 39
      OBVIOUS
    <2>5. QED
      BY <2>3, <2>4
  <1> HIDE DEF g
  <1>13. IsSequence(h, 47) /\ Starts(h, g, 39)
    <2>1. Joins(h, g, 39, p8, 8)
      BY <1>3, <1>12 DEF Joins
    <2> HIDE DEF h
    <2>2. 39 \in Nat /\ 8 \in Nat
      OBVIOUS
    <2>3. IsSequence(h, 39 + 8) /\ Starts(h, g, 39)
      BY <2>1, <2>2, Joined, Zenon
    <2>4. 39 + 8 = 47
      OBVIOUS
    <2>5. QED
      BY <2>3, <2>4
  <1> HIDE DEF h
  <1>14. IsSequence(base, 48) /\ Starts(base, h, 47)
    <2>1. Joins(base, h, 47, <<1>>, 1)
      BY <1>6, <1>13 DEF Joins
    <2> HIDE DEF base
    <2>2. 47 \in Nat /\ 1 \in Nat
      OBVIOUS
    <2>3. IsSequence(base, 47 + 1) /\ Starts(base, h, 47)
      BY <2>1, <2>2, Joined, Zenon
    <2>4. 47 + 1 = 48
      OBVIOUS
    <2>5. QED
      BY <2>3, <2>4
  <1> HIDE DEF base
  <1>15. PICK S : base \in Seq(S) /\ Len(base) = 48
    BY <1>14 DEF IsSequence
  <1> DEFINE Sk == S \cup {digit}
  <1>16. /\ key \in Seq(Sk) /\ Len(key) = 49
         /\ \A i \in 1 .. 48 : key[i] = base[i]
    <2>1. base \in Seq(Sk) /\ digit \in Sk
      BY <1>15, SeqMonotonic
    <2> HIDE DEF Sk
    <2>2. /\ Append(base, digit) \in Seq(Sk) /\ Len(Append(base, digit)) = Len(base) + 1
          /\ \A i \in 1 .. Len(base) : Append(base, digit)[i] = base[i]
      BY <2>1, AppendProperties
    <2> DEFINE all == Append(base, digit)
    <2>3. all \in Seq(Sk) /\ Len(all) = Len(base) + 1 /\ \A i \in 1 .. Len(base) : all[i] = base[i]
      BY <2>2
    <2> HIDE DEF all
    <2>4. all \in Seq(Sk) /\ Len(all) = 49 /\ \A i \in 1 .. 48 : all[i] = base[i]
      BY <1>15, <2>3
    <2>5. QED
      BY <2>4 DEF all
  <1> HIDE DEF key, Sk
  <1>17. ASSUME NEW i \in 1 .. 9 PROVE key[30 + i] = p9[i]
    <2>1. 30 + i \in 1 .. 39 /\ 30 + i \in 1 .. 47 /\ 30 + i \in 1 .. 48
      OBVIOUS
    <2>2. key[30 + i] = base[30 + i] /\ base[30 + i] = h[30 + i] /\ h[30 + i] = g[30 + i]
      BY <1>13, <1>14, <1>16, <2>1 DEF Starts
    <2>3. QED
      BY <1>12, <2>2 DEF Follows
  <1>18. SubSeq(key, 31, 39) = p9
    <2>1. \A i \in 31 .. 39 : key[i] \in Sk
      <3>1. \A i \in 31 .. 39 : i \in 1 .. Len(key)
        BY <1>16
      <3>2. QED
        BY <1>16, <3>1, ElementIn
    <2>2. /\ SubSeq(key, 31, 39) \in Seq(Sk) /\ Len(SubSeq(key, 31, 39)) = 9
          /\ \A i \in 1 .. 9 : SubSeq(key, 31, 39)[i] = key[30 + i]
      <3>1. /\ SubSeq(key, 31, 39) \in Seq(Sk)
            /\ Len(SubSeq(key, 31, 39)) = IF 31 <= 39 THEN 39 - 31 + 1 ELSE 0
            /\ \A i \in 1 .. 39 - 31 + 1 : SubSeq(key, 31, 39)[i] = key[31 + i - 1]
        BY <2>1, SubSeqProperties
      <3>2. 39 - 31 + 1 = 9 /\ \A i \in 1 .. 9 : 31 + i - 1 = 30 + i
        OBVIOUS
      <3>3. QED
        BY <3>1, <3>2
    <2> DEFINE sub == SubSeq(key, 31, 39)
    <2>0. PICK S9 : p9 \in Seq(S9) /\ Len(p9) = 9
      BY <1>3 DEF IsSequence
    <2>3. sub \in Seq(Sk \cup S9) /\ p9 \in Seq(Sk \cup S9)
      BY <2>0, <2>2, SeqMonotonic
    <2>4. \A i \in 1 .. 9 : sub[i] = p9[i]
      BY <1>17, <2>2
    <2> HIDE DEF sub
    <2>5. sub = p9
      BY <2>0, <2>2, <2>3, <2>4, SeqEqual DEF sub
    <2>6. QED
      BY <2>5 DEF sub
  <1>19. QED
    BY <1>1, <1>2, <1>16, <1>17, <1>18

(* Each invoice names itself in its key, and there are no more invoices    *)
(* than creations that have ended.                                         *)
NamesItself(x, number) ==
  /\ x.number = number
  /\ x.xml.key = x.key /\ x.xml.sequential = Padded(number, 9)
  /\ \E code : x.key = KeyOf(number, code)

Ended == {c \in Cashiers : work[c].state = "stored"}

KeyInv ==
  /\ \A n \in DOMAIN invoices : NamesItself(invoices[n], FirstNumber + n - 1)
  /\ Len(invoices) = Cardinality(Ended)

LEMMA NewNamesItself ==
  ASSUME NEW c, NEW number, NEW code
  PROVE  NamesItself(NewInvoice(c, number, code), number)
  <1> DEFINE x == NewInvoice(c, number, code)
  <1>1. x.number = number /\ x.key = KeyOf(number, code)
    BY DEF NewInvoice, KeyOf
  <1>2. x.xml.key = x.key /\ x.xml.sequential = Padded(number, 9)
    BY DEF NewInvoice, BuildSriXml, Sequential
  <1> HIDE DEF x
  <1>3. NamesItself(x, number)
    BY <1>1, <1>2 DEF NamesItself
  <1>4. QED
    BY <1>3 DEF x

LEMMA ForgettingNames ==
  ASSUME NEW x, IsInvoice(x), NEW t, NEW number, NamesItself(x, number)
  PROVE  NamesItself(ForgetsIn(x, t), number)
  <1> DEFINE lines == [i \in DOMAIN x.lines |-> Forgets(x.lines[i], t)]
             y == [x EXCEPT !.lines = lines]
  <1>1. ForgetsIn(x, t) = y
    BY DEF ForgetsIn
  <1> HIDE DEF lines
  <1>2. y.xml = x.xml /\ y.key = x.key /\ y.number = x.number
    BY OtherLines
  <1> HIDE DEF y
  <1>3. QED
    BY <1>1, <1>2 DEF NamesItself

(* Whatever a creation does before it stores, nothing ends. *)
LEMMA NothingEnds ==
  ASSUME DInv, KeyInv, UNCHANGED invoices,
         \A c \in Cashiers : work'[c].state = "stored" <=> work[c].state = "stored"
  PROVE  KeyInv'
  <1>1. Ended' = Ended
    BY DEF Ended
  <1>2. QED
    BY <1>1 DEF KeyInv

LEMMA StillAtWork ==
  ASSUME DInv, NEW c \in Cashiers, NEW w, Becomes(c, w), work[c].state # "stored", w.state # "stored"
  PROVE  \A d \in Cashiers : work'[d].state = "stored" <=> work[d].state = "stored"
  BY DEF DInv, Becomes

LEMMA RefusedAtWork ==
  ASSUME DInv, NEW c \in Cashiers, Refused(c), work[c].state # "stored"
  PROVE  \A d \in Cashiers : work'[d].state = "stored" <=> work[d].state = "stored"
  <1> DEFINE w == [work[c] EXCEPT !.state = "refused"]
  <1>1. work[c] \in WorkType
    BY DEF DInv
  <1>2. w.state # "stored" /\ Becomes(c, w)
    BY <1>1 DEF WorkType, Refused
  <1> HIDE DEF w
  <1>3. QED
    BY <1>2, StillAtWork

LEMMA StoringNames ==
  ASSUME DInv, KeyInv, IsFiniteSet(Cashiers), NEW c \in Cashiers, Stores(c)
  PROVE  KeyInv'
  <1>1. work[c].state = "writing" /\ work[c] \in WorkType
    BY DEF Stores, DInv
  <1>2. CASE Refused(c) /\ UNCHANGED invoices
    BY <1>1, <1>2, RefusedAtWork, NothingEnds
  <1>3. ASSUME NEW code \in NumericCodes,
               invoices' = Append(invoices, NewInvoice(c, FirstNumber + Len(invoices), code)),
               Becomes(c, [work[c] EXCEPT !.state = "stored"])
        PROVE  KeyInv'
    <2> DEFINE len == Len(invoices)
               new == NewInvoice(c, FirstNumber + len, code)
               w == [work[c] EXCEPT !.state = "stored"]
    <2>1. w.state = "stored" /\ Becomes(c, w)
      BY <1>1, <1>3 DEF WorkType
    <2> HIDE DEF w
    <2>2. /\ work'[c].state = "stored"
          /\ \A d \in Cashiers : d # c => work'[d] = work[d]
      BY <2>1 DEF DInv, Becomes
    <2>3. Ended' = Ended \cup {c} /\ c \notin Ended
      BY <1>1, <2>2 DEF Ended
    <2>4. Cardinality(Ended') = Cardinality(Ended) + 1
      <3>1. IsFiniteSet(Ended)
        BY FS_Subset DEF Ended
      <3>2. QED
        BY <2>3, <3>1, FS_AddElement
    <2>5. invoices' = Append(invoices, new) /\ NamesItself(new, FirstNumber + len)
      BY <1>3, NewNamesItself
    <2> HIDE DEF new
    <2>6. /\ Len(invoices') = len + 1 /\ invoices'[len + 1] = new /\ len \in Nat
          /\ \A n \in 1 .. len : invoices'[n] = invoices[n]
          /\ DOMAIN invoices' = 1 .. len + 1 /\ DOMAIN invoices = 1 .. len
      <3>1. invoices \in Seq(Stored \cup {new}) /\ new \in Stored \cup {new}
        BY SeqMonotonic DEF DInv
      <3>2. len \in Nat /\ DOMAIN invoices = 1 .. len
        BY DEF DInv
      <3> DEFINE S == Stored \cup {new}
      <3> HIDE DEF S
      <3>3. Append(invoices, new) \in Seq(S) /\ Len(Append(invoices, new)) = len + 1
        BY <3>1, AppendProperties DEF S
      <3>4. Append(invoices, new)[len + 1] = new /\ \A n \in 1 .. len : Append(invoices, new)[n] = invoices[n]
        BY <3>1, AppendProperties DEF S
      <3>5. QED
        BY <2>5, <3>2, <3>3, <3>4
    <2>7. ASSUME NEW n \in DOMAIN invoices' PROVE NamesItself(invoices'[n], FirstNumber + n - 1)
      <3>1. CASE n = len + 1
        <4>1. FirstNumber + n - 1 = FirstNumber + len
          BY <2>6, <3>1, KeyFields
        <4>2. QED
          BY <2>5, <2>6, <3>1, <4>1
      <3>2. CASE n \in 1 .. len
        BY <2>6, <3>2 DEF KeyInv
      <3>3. QED
        BY <2>6, <3>1, <3>2
    <2>8. Len(invoices') = Cardinality(Ended')
      BY <2>4, <2>6 DEF KeyInv
    <2>9. QED
      BY <2>7, <2>8 DEF KeyInv
  <1>4. QED
    BY <1>2, <1>3 DEF Stores

LEMMA NextNames ==
  ASSUME DInv, KeyInv, IsFiniteSet(Cashiers), [Next]_vars
  PROVE  KeyInv'
  <1>1. CASE UNCHANGED vars
    BY <1>1, NothingEnds DEF vars
  <1>2. ASSUME NEW t \in Taxes, DeleteTax(t) PROVE KeyInv'
    <2>1. /\ UNCHANGED work
          /\ invoices' = [n \in DOMAIN invoices |-> ForgetsIn(invoices[n], t)]
      BY <1>2 DEF DeleteTax, Edits
    <2>2. DOMAIN invoices = 1 .. Len(invoices) /\ Len(invoices) \in Nat
      BY DEF DInv
    <2>3. DOMAIN invoices' = DOMAIN invoices /\ Len(invoices') = Len(invoices)
      BY <2>1, <2>2
    <2>4. ASSUME NEW n \in DOMAIN invoices PROVE NamesItself(invoices'[n], FirstNumber + n - 1)
      <3>1. IsInvoice(invoices[n]) /\ invoices'[n] = ForgetsIn(invoices[n], t)
        BY <2>1 DEF DInv, Stored
      <3>2. QED
        BY <3>1, ForgettingNames DEF KeyInv
    <2>5. Ended' = Ended
      BY <2>1 DEF Ended
    <2>6. QED
      BY <2>3, <2>4, <2>5 DEF KeyInv
  <1>3. ASSUME UNCHANGED <<work, invoices>> PROVE KeyInv'
    BY <1>3, NothingEnds
  <1>4. ASSUME NEW c \in Cashiers, Begins(c) PROVE KeyInv'
    <2>1. PICK cart \in Carts :
            Becomes(c, [Idle EXCEPT !.cart = cart,
                          !.state = IF TwiceTheSame(cart.items) THEN "refused" ELSE "reading"])
      BY <1>4 DEF Begins
    <2> DEFINE w == [Idle EXCEPT !.cart = cart,
                       !.state = IF TwiceTheSame(cart.items) THEN "refused" ELSE "reading"]
    <2>2. w.state # "stored"
      BY DEF Idle
    <2> HIDE DEF w
    <2>3. work[c].state # "stored" /\ UNCHANGED invoices
      BY <1>4 DEF Begins
    <2>4. QED
      BY <2>1, <2>2, <2>3, StillAtWork, NothingEnds DEF w
  <1>5. ASSUME NEW c \in Cashiers, Reading(c), ReadsProduct(c) \/ ReadsTax(c) \/ ReadsClient(c)
        PROVE  KeyInv'
    <2>1. work[c].state # "stored" /\ work[c] \in WorkType /\ UNCHANGED invoices
      BY <1>5 DEF Reading, ReadsProduct, ReadsTax, ReadsClient, DInv
    <2>2. CASE Refused(c)
      BY <2>1, <2>2, RefusedAtWork, NothingEnds
    <2>3. ASSUME NEW w, Becomes(c, w), w.state # "stored" PROVE KeyInv'
      BY <2>1, <2>3, StillAtWork, NothingEnds
    <2>4. CASE ReadsProduct(c) /\ ~ Refused(c)
      <3> DEFINE item == Items(c)[Len(Lines(c)) + 1]
                 line == [product |-> item.product, quantity |-> item.quantity,
                          price |-> product[item.product].price, taxes |-> <<>>]
                 w == [work[c] EXCEPT !.lines = Append(@, line)]
      <3>1. Becomes(c, w)
        BY <2>4 DEF ReadsProduct
      <3> HIDE DEF line
      <3>2. w.state = work[c].state
        BY <2>1 DEF WorkType
      <3> HIDE DEF w
      <3>3. QED
        BY <2>1, <2>3, <3>1, <3>2
    <2>5. CASE ReadsTax(c) /\ ~ Refused(c)
      <3>1. PICK lines, held : Becomes(c, [work[c] EXCEPT !.lines = lines, !.held = held])
        <4> DEFINE n == Len(Lines(c))
                   old == Lines(c)[n]
                   t == Items(c)[n].taxes[Len(old.taxes) + 1]
                   seen == RateSeen(work[c].held, t)
                   taxed == [tax |-> t, rate |-> seen, amount |-> TaxAmount(LineSubtotal(old), seen)]
                   new == [old EXCEPT !.taxes = Append(old.taxes, taxed)]
                   lines == [work[c].lines EXCEPT ![n] = new]
        <4>1. Becomes(c, [work[c] EXCEPT !.lines = lines, !.held = [tax |-> t, rate |-> seen]])
          BY <2>5 DEF ReadsTax, Lines
        <4> HIDE DEF lines, t, seen
        <4>2. QED
          BY <4>1
      <3> DEFINE w == [work[c] EXCEPT !.lines = lines, !.held = held]
      <3>2. w.state = work[c].state
        BY <2>1 DEF WorkType
      <3> HIDE DEF w
      <3>3. QED
        BY <2>1, <2>3, <3>1, <3>2 DEF w
    <2>6. CASE ReadsClient(c)
      <3> DEFINE asked == work[c].cart.client
                 w == [work[c] EXCEPT !.state = "writing",
                         !.client = IF asked = None THEN None ELSE client[asked]]
      <3>1. Becomes(c, w) /\ w.state # "stored"
        BY <2>1, <2>6 DEF ReadsClient, WorkType
      <3> HIDE DEF w
      <3>2. QED
        BY <2>3, <3>1
    <2>7. QED
      BY <1>5, <2>2, <2>4, <2>5, <2>6
  <1>6. ASSUME NEW c \in Cashiers, Creates(c) PROVE KeyInv'
    <2>1. CASE Begins(c)
      BY <1>4, <2>1
    <2>2. CASE ReadsProduct(c) \/ ReadsTax(c) \/ ReadsClient(c)
      <3>1. Reading(c)
        BY <2>2 DEF ReadsProduct, ReadsTax, ReadsClient
      <3>2. QED
        BY <1>5, <2>2, <3>1
    <2>3. CASE Stores(c)
      BY <2>3, StoringNames
    <2>4. QED
      BY <1>6, <2>1, <2>2, <2>3 DEF Creates
  <1>7. CASE EditsSomething
    <2>1. CASE \E t \in Taxes : DeleteTax(t)
      BY <1>2, <2>1
    <2>2. CASE UNCHANGED <<work, invoices>>
      BY <1>3, <2>2
    <2>3. QED
      BY <1>7, <2>1, <2>2 DEF EditsSomething, EditProduct, EditTax, EditClient, Edits
  <1>8. QED
    BY <1>1, <1>6, <1>7 DEF Next

(* The key, the XML and the PDF carry the invoice's number, and two        *)
(* invoices never have one key, as long as numbers have nine digits at     *)
(* most: the XML has no room for more.                                     *)
THEOREM KeysTellInvoicesApart ==
  ASSUME IsFiniteSet(Cashiers), FirstNumber + Cardinality(Cashiers) <= 1000000000
  PROVE  Spec => []KeysNameTheInvoice
  <1>1. Init => KeyInv
    <2> SUFFICES ASSUME Init PROVE KeyInv
      OBVIOUS
    <2>1. Ended = {}
      BY DEF Init, Ended, Idle
    <2>2. invoices = <<>>
      BY DEF Init
    <2>3. QED
      BY <2>1, <2>2, FS_EmptySet DEF KeyInv
  <1>2. DInv /\ KeyInv => KeysNameTheInvoice
    <2> SUFFICES ASSUME DInv, KeyInv PROVE KeysNameTheInvoice
      OBVIOUS
    <2>1. DOMAIN invoices = 1 .. Len(invoices) /\ Len(invoices) \in Nat
      BY DEF DInv
    <2>2. Len(invoices) <= Cardinality(Cashiers) /\ Cardinality(Cashiers) \in Nat
      <3>1. Ended \subseteq Cashiers
        BY DEF Ended
      <3>2. QED
        BY <3>1, FS_Subset, FS_CardinalityType DEF KeyInv
    <2>3. ASSUME NEW x \in Stored
          PROVE  \E number \in Nat : number < 1000000000 /\ NamesItself(x, number)
      <3>1. PICK n \in DOMAIN invoices : x = invoices[n]
        BY DEF Stored
      <3>2. NamesItself(x, FirstNumber + n - 1)
        BY <3>1 DEF KeyInv
      <3> DEFINE number == FirstNumber + n - 1
      <3>3. number \in Nat /\ number < 1000000000
        <4>1. n \in Nat /\ 1 <= n /\ n <= Len(invoices)
          BY <2>1, <3>1, SMT
        <4>2. QED
          BY <2>1, <2>2, <4>1, KeyFields, SMT
      <3> HIDE DEF number
      <3>4. QED
        BY <3>2, <3>3, SMT DEF number
    <2>4. ASSUME NEW x \in Stored, NEW y \in Stored, y.key = x.key PROVE y.number = x.number
      <3>1. PICK a \in Nat : a < 1000000000 /\ NamesItself(x, a)
        BY <2>3, SMT
      <3>2. PICK b \in Nat : b < 1000000000 /\ NamesItself(y, b)
        BY <2>3, SMT
      <3>3. PICK m : x.key = KeyOf(a, m)
        BY <3>1, SMT DEF NamesItself
      <3>4. PICK n : y.key = KeyOf(b, n)
        BY <3>2, SMT DEF NamesItself
      <3>5. \A i \in 1 .. 9 : Padded(a, 9)[i] = Padded(b, 9)[i]
        <4>1. KeyOf(a, m) = KeyOf(b, n)
          BY <2>4, <3>3, <3>4
        <4>2. QED
          BY <4>1, KeyShape
      <3>6. a = b
        BY <3>1, <3>2, <3>5, PaddedTellsApart, SMT
      <3>7. QED
        BY <3>1, <3>2, <3>6, SMT DEF NamesItself
    <2>5. ASSUME NEW x \in Stored
          PROVE  /\ Len(x.key) = 49 /\ x.xml.key = x.key
                 /\ PdfHeader(x).number = SubSeq(x.key, 31, 39)
      <3>1. PICK a \in Nat : NamesItself(x, a)
        BY <2>3, SMT
      <3>2. PICK m : x.key = KeyOf(a, m)
        BY <3>1 DEF NamesItself
      <3>3. PdfHeader(x).number = Padded(a, 9)
        BY <3>1 DEF NamesItself, PdfHeader
      <3>4. SubSeq(x.key, 31, 39) = Padded(a, 9) /\ Len(x.key) = 49
        BY <3>2, KeyShape
      <3>5. QED
        BY <3>1, <3>3, <3>4 DEF NamesItself
    <2>6. QED
      BY <2>4, <2>5 DEF KeysNameTheInvoice
  <1>3. DInv /\ KeyInv /\ [Next]_vars => KeyInv'
    BY NextNames
  <1>4. QED
    BY <1>1, <1>2, <1>3, InitDInv, NextStands, PTL DEF Spec

-----------------------------------------------------------------------------
(* Sums over finite sets.  SumFunction takes out one element after another; *)
(* that it does so to the end is an induction on the size of the set.       *)

(* Induction, with sets for predicates. *)
LEMMA NumbersFromZero ==
  ASSUME NEW T, 0 \in T, \A n \in Nat : n \in T => n + 1 \in T
  PROVE  Nat \subseteq T
  <1> SUFFICES ASSUME Nat \ T # {} PROVE FALSE
    OBVIOUS
  <1>1. PICK n \in Nat \ T : \A m \in Nat \ T : ~ (<<m, n>> \in OpToRel(<, Nat))
    BY NatLessThanWellFounded, WFMin
  <1>2. \A m \in Nat \ T : ~ m < n
    BY <1>1 DEF OpToRel
  <1>3. n \in Nat /\ n # 0 /\ n - 1 \in Nat /\ n - 1 < n
    OBVIOUS
  <1>4. n - 1 \in T
    BY <1>2, <1>3
  <1>5. (n - 1) + 1 = n
    BY <1>3
  <1>6. QED
    BY <1>3, <1>4, <1>5

First(s) == CHOOSE x \in s : TRUE

LEMMA FirstOut ==
  ASSUME NEW S, IsFiniteSet(S), NEW s \in SUBSET S
  PROVE  /\ Cardinality(s) \in Nat
         /\ s = {} <=> Cardinality(s) = 0
         /\ s # {} => /\ First(s) \in s /\ s \ {First(s)} \in SUBSET S
                      /\ Cardinality(s \ {First(s)}) = Cardinality(s) - 1
  <1>1. IsFiniteSet(s)
    BY FS_Subset
  <1>2. s # {} => First(s) \in s
    BY DEF First
  <1>3. QED
    BY <1>1, <1>2, FS_CardinalityType, FS_EmptySet, FS_RemoveElement

LEMMA SubsetsFromEmpty ==
  ASSUME NEW S, IsFiniteSet(S), NEW T, {} \in T,
         \A s \in SUBSET S : s # {} /\ s \ {First(s)} \in T => s \in T
  PROVE  SUBSET S \subseteq T
  <1> DEFINE N == {n \in Nat : \A s \in SUBSET S : Cardinality(s) = n => s \in T}
  <1>1. 0 \in N
    BY FirstOut
  <1>2. ASSUME NEW n \in Nat, n \in N PROVE n + 1 \in N
    <2> SUFFICES ASSUME NEW s \in SUBSET S, Cardinality(s) = n + 1 PROVE s \in T
      OBVIOUS
    <2>1. s # {} /\ s \ {First(s)} \in SUBSET S /\ Cardinality(s \ {First(s)}) = n
      BY FirstOut
    <2>2. QED
      BY <1>2, <2>1
  <1> HIDE DEF N
  <1>3. Nat \subseteq N
    BY <1>1, <1>2, NumbersFromZero
  <1>4. QED
    BY <1>3, FirstOut DEF N

(* The running sums of w over the subsets of S. *)
Adds(w, g, s) == IF s = {} THEN 0 ELSE w[First(s)] + g[s \ {First(s)}]
Sums(w, S) == CHOOSE g : g = [s \in SUBSET S |-> Adds(w, g, s)]

LEMMA SumsExist ==
  ASSUME NEW S, IsFiniteSet(S), NEW w
  PROVE  \A s \in SUBSET S : Sums(w, S)[s] = Adds(w, Sums(w, S), s)
  <1> DEFINE N == {n \in Nat : \E g : \A s \in SUBSET S :
                                 Cardinality(s) <= n => g[s] = Adds(w, g, s)}
  <1>1. 0 \in N
    <2> DEFINE g == [s \in SUBSET S |-> 0]
    <2>1. ASSUME NEW s \in SUBSET S, Cardinality(s) <= 0 PROVE g[s] = Adds(w, g, s)
      <3>1. Cardinality(s) \in Nat /\ (s = {} <=> Cardinality(s) = 0)
        BY FirstOut
      <3>2. s = {}
        BY <2>1, <3>1
      <3>3. QED
        BY <3>2 DEF Adds
    <2> HIDE DEF g
    <2>2. QED
      BY <2>1
  <1>2. ASSUME NEW n \in Nat, n \in N PROVE n + 1 \in N
    <2>1. PICK g : \A s \in SUBSET S : Cardinality(s) <= n => g[s] = Adds(w, g, s)
      BY <1>2
    <2> DEFINE h == [s \in SUBSET S |-> Adds(w, g, s)]
    <2>2. ASSUME NEW s \in SUBSET S, Cardinality(s) <= n + 1 PROVE h[s] = Adds(w, h, s)
      <3>1. CASE s = {}
        BY <3>1 DEF Adds
      <3>2. CASE s # {}
        <4>1. s \ {First(s)} \in SUBSET S /\ Cardinality(s \ {First(s)}) <= n
          BY <2>2, <3>2, FirstOut
        <4>2. h[s \ {First(s)}] = g[s \ {First(s)}]
          BY <2>1, <4>1
        <4> HIDE DEF h
        <4>3. Adds(w, h, s) = Adds(w, g, s)
          BY <4>2 DEF Adds
        <4>4. QED
          BY <4>3 DEF h
      <3>3. QED
        BY <3>1, <3>2
    <2> HIDE DEF h
    <2>3. QED
      BY <2>2
  <1> HIDE DEF N
  <1>3. Cardinality(S) \in N
    BY <1>1, <1>2, NumbersFromZero, FS_CardinalityType
  <1>4. PICK g : \A s \in SUBSET S : Cardinality(s) <= Cardinality(S) => g[s] = Adds(w, g, s)
    BY <1>3 DEF N
  <1> DEFINE h == [s \in SUBSET S |-> g[s]]
  <1>5. h = [s \in SUBSET S |-> Adds(w, h, s)]
    <2>1. ASSUME NEW s \in SUBSET S PROVE h[s] = Adds(w, h, s)
      <3>1. Cardinality(s) <= Cardinality(S)
        BY FS_Subset
      <3>2. s # {} => s \ {First(s)} \in SUBSET S
        OBVIOUS
      <3>3. QED
        BY <1>4, <3>1, <3>2 DEF Adds
    <2>2. QED
      BY <2>1
  <1> HIDE DEF h
  <1>6. Sums(w, S) = [s \in SUBSET S |-> Adds(w, Sums(w, S), s)]
    BY <1>5 DEF Sums
  <1>7. QED
    BY <1>6

Total(w, S) == Sums(w, S)[S]

LEMMA SumsInside ==
  ASSUME NEW S, IsFiniteSet(S), NEW w, NEW A \in SUBSET S
  PROVE  Sums(w, S)[A] = Total(w, A)
  <1> DEFINE T == {s \in SUBSET A : Sums(w, S)[s] = Sums(w, A)[s]}
  <1>1. IsFiniteSet(A)
    BY FS_Subset
  <1>2. \A s \in SUBSET A : /\ Sums(w, S)[s] = Adds(w, Sums(w, S), s)
                            /\ Sums(w, A)[s] = Adds(w, Sums(w, A), s)
    BY <1>1, SumsExist
  <1>3. {} \in T
    BY <1>2 DEF Adds
  <1>4. ASSUME NEW s \in SUBSET A, s # {}, s \ {First(s)} \in T PROVE s \in T
    BY <1>2, <1>4 DEF Adds
  <1> HIDE DEF T
  <1>5. A \in T
    BY <1>1, <1>3, <1>4, SubsetsFromEmpty
  <1>6. QED
    BY <1>5 DEF T, Total

LEMMA TotalOfNone ==
  ASSUME NEW w
  PROVE  Total(w, {}) = 0
  <1>1. Sums(w, {})[{}] = Adds(w, Sums(w, {}), {})
    BY SumsExist, FS_EmptySet
  <1>2. QED
    BY <1>1 DEF Total, Adds

LEMMA TotalFirst ==
  ASSUME NEW S, IsFiniteSet(S), S # {}, NEW w
  PROVE  Total(w, S) = w[First(S)] + Total(w, S \ {First(S)})
  <1>1. Sums(w, S)[S] = Adds(w, Sums(w, S), S)
    BY SumsExist
  <1>2. Sums(w, S)[S \ {First(S)}] = Total(w, S \ {First(S)})
    BY SumsInside
  <1>3. QED
    BY <1>1, <1>2 DEF Total, Adds

Weighs(w, S) == \A x \in S : w[x] \in Int

LEMMA TotalIsInt ==
  ASSUME NEW S, IsFiniteSet(S), NEW w, Weighs(w, S)
  PROVE  Total(w, S) \in Int
  <1> DEFINE T == {s \in SUBSET S : Total(w, s) \in Int}
  <1>1. {} \in T
    BY TotalOfNone
  <1>2. ASSUME NEW s \in SUBSET S, s # {}, s \ {First(s)} \in T PROVE s \in T
    <2>1. IsFiniteSet(s) /\ First(s) \in S
      BY <1>2, FirstOut, FS_Subset
    <2>2. Total(w, s) = w[First(s)] + Total(w, s \ {First(s)})
      BY <1>2, <2>1, TotalFirst
    <2>3. QED
      BY <1>2, <2>1, <2>2 DEF Weighs
  <1> HIDE DEF T
  <1>3. S \in T
    BY <1>1, <1>2, SubsetsFromEmpty
  <1>4. QED
    BY <1>3 DEF T

(* The order does not matter: any element may be taken out first. *)
LEMMA TotalWithout ==
  ASSUME NEW S, IsFiniteSet(S), NEW w, Weighs(w, S), NEW x \in S
  PROVE  Total(w, S) = w[x] + Total(w, S \ {x})
  <1> DEFINE Out(s) == \A y \in s : Total(w, s) = w[y] + Total(w, s \ {y})
             N == {n \in Nat : \A s \in SUBSET S : Cardinality(s) = n => Out(s)}
  <1>1. 0 \in N
    BY FirstOut
  <1>2. ASSUME NEW n \in Nat, n \in N PROVE n + 1 \in N
    <2>1. ASSUME NEW s \in SUBSET S, Cardinality(s) = n + 1, NEW y \in s
          PROVE  Total(w, s) = w[y] + Total(w, s \ {y})
      <3> DEFINE f == First(s)
      <3>1. IsFiniteSet(s) /\ s # {} /\ f \in s
        BY <2>1, FirstOut, FS_Subset
      <3>2. Total(w, s) = w[f] + Total(w, s \ {f})
        BY <3>1, TotalFirst
      <3> HIDE DEF f
      <3>3. CASE y = f
        BY <3>2, <3>3
      <3>4. CASE y # f
        <4>1. s \ {f} \in SUBSET S /\ Cardinality(s \ {f}) = n /\ y \in s \ {f}
          <5>1. Cardinality(s \ {f}) = Cardinality(s) - 1
            BY <3>1, FS_RemoveElement
          <5>2. QED
            BY <2>1, <3>1, <3>4, <5>1
        <4>2. s \ {y} \in SUBSET S /\ Cardinality(s \ {y}) = n /\ f \in s \ {y}
          <5>1. Cardinality(s \ {y}) = Cardinality(s) - 1
            BY <3>1, FS_RemoveElement
          <5>2. QED
            BY <2>1, <3>1, <3>4, <5>1
        <4>3. Total(w, s \ {f}) = w[y] + Total(w, (s \ {f}) \ {y})
          BY <1>2, <4>1
        <4>4. Total(w, s \ {y}) = w[f] + Total(w, (s \ {y}) \ {f})
          BY <1>2, <4>2
        <4>5. (s \ {f}) \ {y} = (s \ {y}) \ {f}
          OBVIOUS
        <4>6. w[y] \in Int /\ w[f] \in Int /\ Total(w, (s \ {y}) \ {f}) \in Int
          <5>1. IsFiniteSet((s \ {y}) \ {f}) /\ Weighs(w, (s \ {y}) \ {f})
            BY <3>1, FS_Subset DEF Weighs
          <5>2. QED
            BY <3>1, <5>1, TotalIsInt DEF Weighs
        <4> DEFINE rest == Total(w, (s \ {y}) \ {f})
        <4>7. Total(w, s) = w[f] + (w[y] + rest) /\ Total(w, s \ {y}) = w[f] + rest
          BY <3>2, <4>3, <4>4, <4>5
        <4> HIDE DEF rest
        <4>8. QED
          BY <4>6, <4>7 DEF rest
      <3>5. QED
        BY <3>3, <3>4
    <2>2. QED
      BY <2>1
  <1> HIDE DEF N
  <1>3. Cardinality(S) \in N
    BY <1>1, <1>2, NumbersFromZero, FS_CardinalityType
  <1>4. QED
    BY <1>3 DEF N

LEMMA SameTotal ==
  ASSUME NEW S, IsFiniteSet(S), NEW v, NEW w, \A x \in S : v[x] = w[x]
  PROVE  Total(v, S) = Total(w, S)
  <1> DEFINE T == {s \in SUBSET S : Total(v, s) = Total(w, s)}
  <1>1. {} \in T
    BY TotalOfNone
  <1>2. ASSUME NEW s \in SUBSET S, s # {}, s \ {First(s)} \in T PROVE s \in T
    <2>1. IsFiniteSet(s) /\ First(s) \in S
      BY <1>2, FirstOut, FS_Subset
    <2>2. /\ Total(v, s) = v[First(s)] + Total(v, s \ {First(s)})
          /\ Total(w, s) = w[First(s)] + Total(w, s \ {First(s)})
      BY <1>2, <2>1, TotalFirst
    <2>3. QED
      BY <1>2, <2>1, <2>2
  <1> HIDE DEF T
  <1>3. S \in T
    BY <1>1, <1>2, SubsetsFromEmpty
  <1>4. QED
    BY <1>3 DEF T

(* What weighs nothing may be left out. *)
LEMMA TotalOfRest ==
  ASSUME NEW S, IsFiniteSet(S), NEW w, Weighs(w, S), NEW A \in SUBSET S, \A x \in S \ A : w[x] = 0
  PROVE  Total(w, S) = Total(w, A)
  <1> DEFINE T == {s \in SUBSET S : Total(w, s) = Total(w, s \cap A)}
  <1>1. {} \in T
    <2>1. {} \cap A = {}
      OBVIOUS
    <2>2. QED
      BY <2>1
  <1>2. ASSUME NEW s \in SUBSET S, s # {}, s \ {First(s)} \in T PROVE s \in T
    <2> DEFINE f == First(s)
               rest == (s \ {f}) \cap A
    <2>1. IsFiniteSet(s) /\ f \in s /\ f \in S
      BY <1>2, FirstOut, FS_Subset
    <2>2. Total(w, s) = w[f] + Total(w, s \ {f})
      BY <1>2, <2>1, TotalFirst
    <2>3. Total(w, s \ {f}) = Total(w, rest)
      BY <1>2
    <2>4. IsFiniteSet(rest) /\ Weighs(w, rest)
      BY <2>1, FS_Subset DEF Weighs
    <2>5. Total(w, rest) \in Int /\ w[f] \in Int
      BY <2>1, <2>4, TotalIsInt DEF Weighs
    <2> HIDE DEF f, rest
    <2>6. CASE f \in A
      <3>1. IsFiniteSet(s \cap A) /\ Weighs(w, s \cap A) /\ f \in s \cap A
        BY <2>1, <2>6, FS_Subset DEF Weighs
      <3>2. (s \cap A) \ {f} = rest
        BY DEF rest
      <3>3. Total(w, s \cap A) = w[f] + Total(w, rest)
        BY <3>1, <3>2, TotalWithout
      <3>4. QED
        BY <2>2, <2>3, <3>3
    <2>7. CASE f \notin A
      <3>1. s \cap A = rest
        BY <2>7 DEF rest
      <3>2. w[f] = 0
        BY <2>1, <2>7
      <3>3. Total(w, s \cap A) = Total(w, rest)
        BY <3>1
      <3>4. QED
        BY <2>2, <2>3, <2>5, <3>2, <3>3
    <2>8. QED
      BY <2>6, <2>7
  <1> HIDE DEF T
  <1>3. S \in T
    BY <1>1, <1>2, SubsetsFromEmpty
  <1>4. S \cap A = A
    OBVIOUS
  <1>5. QED
    BY <1>3, <1>4 DEF T

(* Two weights that differ at one element. *)
LEMMA OneChanged ==
  ASSUME NEW S, IsFiniteSet(S), NEW v, NEW w, Weighs(v, S), Weighs(w, S), NEW x \in S,
         \A y \in S \ {x} : w[y] = v[y]
  PROVE  Total(w, S) = Total(v, S) + (w[x] - v[x])
  <1>1. IsFiniteSet(S \ {x}) /\ Weighs(v, S \ {x})
    BY FS_Subset DEF Weighs
  <1>2. Total(v, S) = v[x] + Total(v, S \ {x}) /\ Total(w, S) = w[x] + Total(w, S \ {x})
    BY TotalWithout
  <1>3. Total(w, S \ {x}) = Total(v, S \ {x})
    BY <1>1, SameTotal
  <1>4. Total(v, S \ {x}) \in Int /\ v[x] \in Int /\ w[x] \in Int
    BY <1>1, TotalIsInt DEF Weighs
  <1>5. QED
    BY <1>2, <1>3, <1>4

(* A sum by groups: the elements of S in the class r weigh as much as r. *)
ClassOf(c, S, r) == {x \in S : c[x] = r}
ByClass(w, c, S, R) == [r \in R |-> Total(w, ClassOf(c, S, r))]

LEMMA ClassWeighs ==
  ASSUME NEW S, IsFiniteSet(S), NEW w, Weighs(w, S), NEW c, NEW R
  PROVE  Weighs(ByClass(w, c, S, R), R)
  <1> SUFFICES ASSUME NEW r \in R PROVE Total(w, ClassOf(c, S, r)) \in Int
    BY DEF Weighs, ByClass
  <1>1. IsFiniteSet(ClassOf(c, S, r)) /\ Weighs(w, ClassOf(c, S, r))
    BY FS_Subset DEF ClassOf, Weighs
  <1>2. QED
    BY <1>1, TotalIsInt

LEMMA TotalByClass ==
  ASSUME NEW S, IsFiniteSet(S), NEW w, Weighs(w, S),
         NEW R, IsFiniteSet(R), NEW c, \A x \in S : c[x] \in R
  PROVE  Total(ByClass(w, c, S, R), R) = Total(w, S)
  <1> DEFINE T == {s \in SUBSET S : Total(ByClass(w, c, s, R), R) = Total(w, s)}
  <1>1. {} \in T
    <2> DEFINE b == ByClass(w, c, {}, R)
    <2>1. \A r \in R : b[r] = 0
      <3>1. \A r \in R : ClassOf(c, {}, r) = {}
        BY DEF ClassOf
      <3>2. QED
        BY <3>1, TotalOfNone DEF ByClass
    <2>2. Weighs(b, R)
      BY <2>1 DEF Weighs
    <2> HIDE DEF b
    <2>3. Total(b, R) = Total(b, {})
      BY <2>1, <2>2, TotalOfRest
    <2>4. QED
      BY <2>3, TotalOfNone DEF b
  <1>2. ASSUME NEW s \in SUBSET S, s # {}, s \ {First(s)} \in T PROVE s \in T
    <2> DEFINE f == First(s)
               rest == s \ {f}
               b == ByClass(w, c, s, R)
               a == ByClass(w, c, rest, R)
    <2>1. /\ IsFiniteSet(s) /\ f \in s /\ f \in S /\ Weighs(w, s)
          /\ IsFiniteSet(rest) /\ Weighs(w, rest)
      BY <1>2, FirstOut, FS_Subset DEF Weighs
    <2>2. Weighs(b, R) /\ Weighs(a, R)
      BY <2>1, ClassWeighs
    <2>3. c[f] \in R /\ w[f] \in Int
      BY <2>1 DEF Weighs
    <2>4. Total(w, s) = w[f] + Total(w, rest)
      BY <1>2, <2>1, TotalFirst
    <2>5. Total(a, R) = Total(w, rest)
      BY <1>2
    <2>6. Total(w, rest) \in Int
      BY <2>1, TotalIsInt
    <2>7. \A r \in R \ {c[f]} : b[r] = a[r]
      <3>1. \A r \in R \ {c[f]} : ClassOf(c, s, r) = ClassOf(c, rest, r)
        BY DEF ClassOf
      <3>2. QED
        BY <3>1 DEF ByClass
    <2>8. b[c[f]] = w[f] + a[c[f]]
      <3> DEFINE k == ClassOf(c, s, c[f])
      <3>1. k \ {f} = ClassOf(c, rest, c[f]) /\ f \in k
        BY <2>1 DEF ClassOf
      <3>2. IsFiniteSet(k) /\ Weighs(w, k)
        BY <2>1, FS_Subset DEF ClassOf, Weighs
      <3>3. b[c[f]] = Total(w, k) /\ a[c[f]] = Total(w, ClassOf(c, rest, c[f]))
        BY <2>3 DEF ByClass
      <3> HIDE DEF k
      <3>4. Total(w, k) = w[f] + Total(w, k \ {f})
        BY <3>1, <3>2, TotalWithout
      <3>5. QED
        BY <3>1, <3>3, <3>4
    <2> HIDE DEF f, rest, a, b
    <2>9. Total(b, R) = Total(a, R) + (b[c[f]] - a[c[f]])
      BY <2>2, <2>3, <2>7, OneChanged
    <2>10. b[c[f]] \in Int /\ a[c[f]] \in Int
      BY <2>2, <2>3 DEF Weighs
    <2>11. Total(b, R) = Total(w, s)
      BY <2>3, <2>4, <2>5, <2>6, <2>8, <2>9, <2>10
    <2>12. QED
      BY <2>11 DEF b
  <1> HIDE DEF T
  <1>3. S \in T
    BY <1>1, <1>2, SubsetsFromEmpty
  <1>4. QED
    BY <1>3 DEF T

(* The same weights under other names: m names each element of S. *)
Image(m, S) == {m[x] : x \in S}

Renames(m, S, v, w) ==
  /\ \A x \in S : v[x] = w[m[x]]
  /\ \A x, y \in S : m[x] = m[y] => x = y

LEMMA TotalRenamed ==
  ASSUME NEW S, IsFiniteSet(S), NEW v, NEW w, Weighs(v, S),
         NEW m, Renames(m, S, v, w), IsFiniteSet(Image(m, S))
  PROVE  Total(v, S) = Total(w, Image(m, S))
  <1> DEFINE T == {s \in SUBSET S : Total(v, s) = Total(w, Image(m, s))}
  <1>1. {} \in T
    <2>1. Image(m, {}) = {}
      BY DEF Image
    <2>2. QED
      BY <2>1, TotalOfNone
  <1>2. ASSUME NEW s \in SUBSET S, s # {}, s \ {First(s)} \in T PROVE s \in T
    <2> DEFINE f == First(s)
               rest == s \ {f}
    <2>1. IsFiniteSet(s) /\ f \in s /\ f \in S
      BY <1>2, FirstOut, FS_Subset
    <2>2. Total(v, s) = v[f] + Total(v, rest)
      BY <1>2, <2>1, TotalFirst
    <2>3. Total(v, rest) = Total(w, Image(m, rest))
      BY <1>2
    <2> HIDE DEF f
    <2>4. /\ Image(m, s) \ {m[f]} = Image(m, rest) /\ m[f] \in Image(m, s)
          /\ Image(m, s) \subseteq Image(m, S)
      BY <2>1 DEF Image, Renames
    <2> HIDE DEF rest
    <2>5. IsFiniteSet(Image(m, s)) /\ Weighs(w, Image(m, s))
      <3>1. IsFiniteSet(Image(m, s))
        BY <2>4, FS_Subset
      <3>2. Weighs(w, Image(m, s))
        BY DEF Image, Weighs, Renames
      <3>3. QED
        BY <3>1, <3>2
    <2>6. Total(w, Image(m, s)) = w[m[f]] + Total(w, Image(m, rest))
      BY <2>4, <2>5, TotalWithout
    <2>7. v[f] = w[m[f]]
      BY <2>1 DEF Renames
    <2>8. QED
      BY <2>2, <2>3, <2>6, <2>7
  <1> HIDE DEF T
  <1>3. S \in T
    BY <1>1, <1>2, SubsetsFromEmpty
  <1>4. QED
    BY <1>3 DEF T

(* An exact value in ten thousandths of a cent and one in cents that are at  *)
(* most n half cents apart: what holds for each holds for the sums.          *)
WithinHalf(exact, cents, n) ==
  /\ -10000 * n <= 2 * (exact - 10000 * cents)
  /\ 2 * (exact - 10000 * cents) <= 10000 * n

LEMMA HalvesAdd ==
  ASSUME NEW p \in Int, NEW q \in Int, NEW x \in Int, NEW y \in Int, NEW n \in Nat,
         WithinHalf(p, q, 1), WithinHalf(x, y, n)
  PROVE  WithinHalf(p + x, q + y, 1 + n)
  BY SMT DEF WithinHalf

LEMMA TotalsApart ==
  ASSUME NEW S, IsFiniteSet(S), NEW e, NEW a, Weighs(e, S), Weighs(a, S),
         \A x \in S : WithinHalf(e[x], a[x], 1)
  PROVE  WithinHalf(Total(e, S), Total(a, S), Cardinality(S))
  <1> DEFINE T == {s \in SUBSET S : WithinHalf(Total(e, s), Total(a, s), Cardinality(s))}
  <1>1. {} \in T
    <2>1. Total(e, {}) = 0 /\ Total(a, {}) = 0 /\ Cardinality({}) = 0
      BY TotalOfNone, FS_EmptySet
    <2>2. QED
      BY <2>1, SMT DEF WithinHalf
  <1>2. ASSUME NEW s \in SUBSET S, s # {}, s \ {First(s)} \in T PROVE s \in T
    <2> DEFINE f == First(s)
               rest == s \ {f}
    <2>1. /\ IsFiniteSet(s) /\ f \in S /\ IsFiniteSet(rest) /\ Weighs(e, rest) /\ Weighs(a, rest)
          /\ Cardinality(rest) = Cardinality(s) - 1 /\ Cardinality(s) \in Nat
          /\ Cardinality(rest) \in Nat
      <3>1. f \in s /\ Cardinality(rest) = Cardinality(s) - 1 /\ Cardinality(s) \in Nat
        BY <1>2, FirstOut
      <3>2. IsFiniteSet(s) /\ IsFiniteSet(rest)
        BY FS_Subset
      <3>3. Weighs(e, rest) /\ Weighs(a, rest)
        BY DEF Weighs
      <3>4. Cardinality(rest) \in Nat
        BY <3>2, FS_CardinalityType
      <3>5. QED
        BY <3>1, <3>2, <3>3, <3>4
    <2>2. Total(e, s) = e[f] + Total(e, rest) /\ Total(a, s) = a[f] + Total(a, rest)
      <3>1. s # {}
        BY <1>2
      <3>2. /\ IsFiniteSet(s) /\ IsFiniteSet(rest)
            /\ Weighs(e, s) /\ Weighs(a, s)
        BY <2>1 DEF Weighs
      <3> HIDE DEF T
      <3>3. Total(e, s) = e[f] + Total(e, rest)
        BY <3>1, <3>2, TotalFirst
      <3>4. Total(a, s) = a[f] + Total(a, rest)
        BY <3>1, <3>2, TotalFirst
      <3>5. QED
        BY <3>3, <3>4
    <2>3. e[f] \in Int /\ a[f] \in Int /\ Total(e, rest) \in Int /\ Total(a, rest) \in Int
      BY <2>1, TotalIsInt DEF Weighs
    <2>4. WithinHalf(e[f], a[f], 1) /\ WithinHalf(Total(e, rest), Total(a, rest), Cardinality(rest))
      BY <1>2, <2>1
    <2> HIDE DEF f, rest
    <2>5. WithinHalf(e[f] + Total(e, rest), a[f] + Total(a, rest), 1 + Cardinality(rest))
      BY <2>1, <2>3, <2>4, HalvesAdd
    <2>6. 1 + Cardinality(rest) = Cardinality(s)
      BY <2>1
    <2>7. WithinHalf(Total(e, s), Total(a, s), Cardinality(s))
      BY <2>2, <2>5, <2>6
    <2>8. QED
      BY <2>7
  <1> HIDE DEF T
  <1>3. S \in T
    BY <1>1, <1>2, SubsetsFromEmpty
  <1>4. QED
    BY <1>3 DEF T

(* SumFunction adds up what a function maps to. *)
LEMMA SumFunctionIsTotal ==
  ASSUME NEW S, NEW w, DOMAIN w = S
  PROVE  SumFunction(w) = Total(w, S)
  <1> DEFINE Body(g, s) ==
               IF s = {} THEN 0
               ELSE LET x == CHOOSE y \in s : TRUE IN w[x] + g[s \ {x}]
  <1>1. SumFunction(w) = (CHOOSE g : g = [s \in SUBSET S |-> Body(g, s)])[S]
    BY DEF SumFunction, SumFunctionOnSet, FoldFunction, FoldFunctionOnSet, MapThenFoldSet
  <1>2. ASSUME NEW g, NEW s \in SUBSET S PROVE Body(g, s) = Adds(w, g, s)
    BY DEF Adds, First
  <1> HIDE DEF Body
  <1>3. \A g : [s \in SUBSET S |-> Body(g, s)] = [s \in SUBSET S |-> Adds(w, g, s)]
    BY <1>2
  <1>4. (CHOOSE g : g = [s \in SUBSET S |-> Body(g, s)]) = Sums(w, S)
    BY <1>3 DEF Sums
  <1>5. QED
    BY <1>1, <1>4 DEF Total


-----------------------------------------------------------------------------
(* The amounts of an invoice as weights of its lines and of its tax rows.  *)
LineTotals(lines) == [i \in 1 .. Len(lines) |-> LineSubtotal(lines[i])]
AmountsAt(lines) == [p \in TaxPlaces(lines) |-> TaxAt(lines, p).amount]

LEMMA SubtotalIs ==
  ASSUME NEW lines
  PROVE  Subtotal(lines) = Total(LineTotals(lines), 1 .. Len(lines))
  <1>1. Subtotal(lines) = SumFunction(LineTotals(lines))
    BY DEF Subtotal, SumOver, LineTotals
  <1>2. DOMAIN LineTotals(lines) = 1 .. Len(lines)
    BY DEF LineTotals
  <1>3. QED
    BY <1>1, <1>2, SumFunctionIsTotal

LEMMA TaxTotalIs ==
  ASSUME NEW lines
  PROVE  TaxTotal(lines) = Total(AmountsAt(lines), TaxPlaces(lines))
  <1>1. TaxTotal(lines) = SumFunction(AmountsAt(lines))
    BY DEF TaxTotal, SumOver, AmountsAt
  <1>2. DOMAIN AmountsAt(lines) = TaxPlaces(lines)
    BY DEF AmountsAt
  <1>3. QED
    BY <1>1, <1>2, SumFunctionIsTotal

(* What a line, and what a tax row of it, weighs. *)
LEMMA LineWeighs ==
  ASSUME NEW line \in Line
  PROVE  /\ LineSubtotal(line) \in Nat
         /\ line.taxes \in Seq(TaxRow) /\ Len(line.taxes) \in Nat
  <1>1. line.price \in Nat /\ line.quantity \in Nat /\ line.taxes \in Seq(TaxRow)
    BY DEF Line
  <1>2. line.price * line.quantity \in Nat
    <2>1. \A m, n \in Nat : m * n \in Nat
      OBVIOUS
    <2>2. QED
      BY <1>1, <2>1
  <1>3. Len(line.taxes) \in Nat
    BY <1>1, LengthIn
  <1>4. QED
    BY <1>1, <1>2, <1>3 DEF LineSubtotal

LEMMA PlaceWeighs ==
  ASSUME NEW lines \in Seq(Line), NEW p \in TaxPlaces(lines)
  PROVE  /\ p[1] \in 1 .. Len(lines) /\ lines[p[1]] \in Line
         /\ TaxAt(lines, p) \in TaxRow
         /\ TaxAt(lines, p).amount \in Nat /\ TaxAt(lines, p).rate \in Rates
         /\ TaxAt(lines, p).rate \in Nat
  <1>1. PICK i \in 1 .. Len(lines) : \E k \in 1 .. Len(lines[i].taxes) : p = <<i, k>>
    BY PlacesAre
  <1>2. PICK k \in 1 .. Len(lines[i].taxes) : p = <<i, k>>
    BY <1>1
  <1>3. lines[i] \in Line
    BY ElementIn
  <1>4. lines[i].taxes[k] \in TaxRow
    BY <1>2, <1>3, LineWeighs, ElementIn
  <1>5. p[1] = i /\ TaxAt(lines, p) = lines[i].taxes[k]
    BY <1>2 DEF TaxAt
  <1>6. lines[i].taxes[k].amount \in Nat /\ lines[i].taxes[k].rate \in Rates
    BY <1>4 DEF TaxRow
  <1>7. QED
    BY <1>3, <1>4, <1>5, <1>6, DocumentConstants

LEMMA PlacesAreFinite ==
  ASSUME NEW lines \in Seq(Line)
  PROVE  /\ IsFiniteSet(TaxPlaces(lines)) /\ IsFiniteSet(1 .. Len(lines)) /\ Len(lines) \in Nat
         /\ Cardinality(TaxPlaces(lines)) \in Nat
  <1> DEFINE row(i) == {i} \X (1 .. Len(lines[i].taxes))
             rows == {row(i) : i \in 1 .. Len(lines)}
  <1>1. Len(lines) \in Nat /\ IsFiniteSet(1 .. Len(lines))
    BY LengthIn, FS_Interval
  <1>2. \A r \in rows : IsFiniteSet(r)
    <2>1. ASSUME NEW i \in 1 .. Len(lines) PROVE IsFiniteSet(row(i))
      <3>1. Len(lines[i].taxes) \in Nat
        BY ElementIn, LineWeighs
      <3>2. IsFiniteSet(1 .. Len(lines[i].taxes))
        <4>1. \A n \in Nat : IsFiniteSet(1 .. n)
          BY FS_Interval
        <4>2. QED
          BY <3>1, <4>1
      <3>3. IsFiniteSet({i})
        BY FS_Singleton
      <3>4. QED
        BY <3>2, <3>3, FS_Product
    <2>2. QED
      BY <2>1
  <1>3. IsFiniteSet(rows)
    <2> DEFINE f == [i \in 1 .. Len(lines) |-> row(i)]
    <2>1. f \in Surjection(1 .. Len(lines), rows)
      BY DEF Surjection
    <2> HIDE DEF f, rows
    <2>2. QED
      BY <1>1, <2>1, FS_Surjection
  <1>4. TaxPlaces(lines) = UNION rows
    BY DEF TaxPlaces
  <1> HIDE DEF rows
  <1>5. IsFiniteSet(TaxPlaces(lines))
    BY <1>2, <1>3, <1>4, FS_UNION
  <1>6. QED
    BY <1>1, <1>5, FS_CardinalityType

LEMMA LinesWeigh ==
  ASSUME NEW lines \in Seq(Line)
  PROVE  /\ Weighs(LineTotals(lines), 1 .. Len(lines))
         /\ Weighs(AmountsAt(lines), TaxPlaces(lines))
         /\ Subtotal(lines) \in Int /\ TaxTotal(lines) \in Int
  <1>1. Weighs(LineTotals(lines), 1 .. Len(lines))
    <2>1. ASSUME NEW i \in 1 .. Len(lines) PROVE LineTotals(lines)[i] \in Int
      BY ElementIn, LineWeighs DEF LineTotals
    <2>2. QED
      BY <2>1 DEF Weighs
  <1>2. Weighs(AmountsAt(lines), TaxPlaces(lines))
    <2>1. ASSUME NEW p \in TaxPlaces(lines) PROVE AmountsAt(lines)[p] \in Int
      BY PlaceWeighs DEF AmountsAt
    <2>2. QED
      BY <2>1 DEF Weighs
  <1>3. QED
    BY <1>1, <1>2, SubtotalIs, TaxTotalIs, TotalIsInt, PlacesAreFinite

(* Lines with the same figures have the same sums: the sums are of equal   *)
(* functions.                                                              *)
SameFigures(few, many) ==
  /\ Len(many) = Len(few)
  /\ \A i \in 1 .. Len(few) :
       /\ LineSubtotal(many[i]) = LineSubtotal(few[i])
       /\ Len(many[i].taxes) = Len(few[i].taxes)
       /\ many[i].taxes = <<>> <=> few[i].taxes = <<>>
       /\ \A k \in 1 .. Len(few[i].taxes) :
            /\ many[i].taxes[k].rate = few[i].taxes[k].rate
            /\ many[i].taxes[k].amount = few[i].taxes[k].amount

DetailsOf(lines) ==
  [i \in 1 .. Len(lines) |-> [subtotal |-> LineSubtotal(lines[i]), taxes |-> DetailTaxes(lines[i])]]

RightlyTaxed(lines) ==
  \A p \in TaxPlaces(lines) :
    TaxAt(lines, p).amount = TaxAmount(LineSubtotal(lines[p[1]]), TaxAt(lines, p).rate)

LEMMA SamePlaces ==
  ASSUME NEW lines, NEW more, SameFigures(lines, more)
  PROVE  /\ TaxPlaces(more) = TaxPlaces(lines)
         /\ \A p \in TaxPlaces(lines) :
              /\ TaxAt(more, p).rate = TaxAt(lines, p).rate
              /\ TaxAt(more, p).amount = TaxAt(lines, p).amount
              /\ LineSubtotal(more[p[1]]) = LineSubtotal(lines[p[1]])
  <1>1. \A p : p \in TaxPlaces(more) <=> p \in TaxPlaces(lines)
    BY PlacesAre DEF SameFigures
  <1>2. ASSUME NEW p \in TaxPlaces(lines)
        PROVE  /\ TaxAt(more, p).rate = TaxAt(lines, p).rate
               /\ TaxAt(more, p).amount = TaxAt(lines, p).amount
               /\ LineSubtotal(more[p[1]]) = LineSubtotal(lines[p[1]])
    <2>1. PICK i \in 1 .. Len(lines) : \E k \in 1 .. Len(lines[i].taxes) : p = <<i, k>>
      BY PlacesAre
    <2>2. PICK k \in 1 .. Len(lines[i].taxes) : p = <<i, k>>
      BY <2>1
    <2>3. p[1] = i /\ TaxAt(lines, p) = lines[i].taxes[k] /\ TaxAt(more, p) = more[i].taxes[k]
      BY <2>2 DEF TaxAt
    <2>4. QED
      BY <2>3 DEF SameFigures
  <1>3. TaxPlaces(more) = TaxPlaces(lines)
    BY <1>1
  <1>4. QED
    BY <1>2, <1>3

LEMMA SameSums ==
  ASSUME NEW lines, NEW more, SameFigures(lines, more)
  PROVE  /\ Subtotal(more) = Subtotal(lines) /\ TaxTotal(more) = TaxTotal(lines)
         /\ RightlyTaxed(lines) => RightlyTaxed(more)
  <1>1. LineTotals(more) = LineTotals(lines) /\ Len(more) = Len(lines)
    BY DEF LineTotals, SameFigures
  <1>2. AmountsAt(more) = AmountsAt(lines) /\ TaxPlaces(more) = TaxPlaces(lines)
    BY SamePlaces DEF AmountsAt
  <1>3. RightlyTaxed(lines) => RightlyTaxed(more)
    BY SamePlaces DEF RightlyTaxed
  <1>4. Subtotal(more) = Subtotal(lines)
    BY <1>1, SubtotalIs
  <1>5. TaxTotal(more) = TaxTotal(lines)
    BY <1>2, TaxTotalIs
  <1>6. QED
    BY <1>3, <1>4, <1>5

LEMMA SameGroups ==
  ASSUME NEW lines, NEW more, SameFigures(lines, more)
  PROVE  TaxGroups(more) = TaxGroups(lines)
  <1>1. TaxPlaces(more) = TaxPlaces(lines) /\ Subtotal(more) = Subtotal(lines)
    BY SamePlaces, SameSums
  <1>2. RatesIn(more) = RatesIn(lines)
    <2>1. \A r : r \in RatesIn(more) <=> r \in RatesIn(lines)
      BY SamePlaces DEF RatesIn
    <2>2. QED
      BY <2>1
  <1>3. ASSUME NEW r PROVE Group(more, r) = Group(lines, r)
    <2>1. PlacesOf(more, r) = PlacesOf(lines, r) /\ PlacesOf(lines, r) \subseteq TaxPlaces(lines)
      BY SamePlaces DEF PlacesOf
    <2>2. [p \in PlacesOf(more, r) |-> LineSubtotal(more[p[1]])]
            = [p \in PlacesOf(lines, r) |-> LineSubtotal(lines[p[1]])]
      BY <2>1, SamePlaces
    <2>3. [p \in PlacesOf(more, r) |-> TaxAt(more, p).amount]
            = [p \in PlacesOf(lines, r) |-> TaxAt(lines, p).amount]
      BY <2>1, SamePlaces
    <2>4. QED
      BY <2>2, <2>3 DEF Group, SumOver
  <1>4. QED
    BY <1>1, <1>2, <1>3 DEF TaxGroups

LEMMA SameDetails ==
  ASSUME NEW lines, NEW more, SameFigures(lines, more)
  PROVE  DetailsOf(more) = DetailsOf(lines)
  <1>1. Len(more) = Len(lines)
    BY DEF SameFigures
  <1>2. ASSUME NEW i \in 1 .. Len(lines)
        PROVE  DetailTaxes(more[i]) = DetailTaxes(lines[i]) /\ LineSubtotal(more[i]) = LineSubtotal(lines[i])
    <2>1. LineSubtotal(more[i]) = LineSubtotal(lines[i])
      BY DEF SameFigures
    <2>2. Len(more[i].taxes) = Len(lines[i].taxes) /\ (more[i].taxes = <<>> <=> lines[i].taxes = <<>>)
      BY DEF SameFigures
    <2>3. \A k \in 1 .. Len(lines[i].taxes) :
            /\ more[i].taxes[k].rate = lines[i].taxes[k].rate
            /\ more[i].taxes[k].amount = lines[i].taxes[k].amount
      BY DEF SameFigures
    <2>4. QED
      BY <2>1, <2>2, <2>3, Zenon DEF DetailTaxes
  <1>3. QED
    BY <1>1, <1>2 DEF DetailsOf

LEMMA LineFigures ==
  ASSUME NEW line \in Line, NEW t
  PROVE  /\ LineSubtotal(Forgets(line, t)) = LineSubtotal(line)
         /\ Len(Forgets(line, t).taxes) = Len(line.taxes)
         /\ Forgets(line, t).taxes = <<>> <=> line.taxes = <<>>
         /\ \A k \in 1 .. Len(line.taxes) :
              /\ Forgets(line, t).taxes[k].rate = line.taxes[k].rate
              /\ Forgets(line, t).taxes[k].amount = line.taxes[k].amount
  <1> DEFINE old == line.taxes
             forget(k) == IF old[k].tax = t THEN [old[k] EXCEPT !.tax = None] ELSE old[k]
             new == [k \in DOMAIN old |-> forget(k)]
  <1>1. old \in Seq(TaxRow) /\ DOMAIN old = 1 .. Len(old) /\ Len(old) \in Nat
    BY LineWeighs
  <1>2. ASSUME NEW k \in DOMAIN old
        PROVE  forget(k) \in TaxRow /\ forget(k).rate = old[k].rate /\ forget(k).amount = old[k].amount
    <2>1. old[k] \in TaxRow
      BY <1>1
    <2>2. \A row \in TaxRow : /\ [row EXCEPT !.tax = None] \in TaxRow
                              /\ [row EXCEPT !.tax = None].rate = row.rate
                              /\ [row EXCEPT !.tax = None].amount = row.amount
      BY DEF TaxRow
    <2>3. QED
      BY <2>1, <2>2
  <1>3. Forgets(line, t) = [line EXCEPT !.taxes = new]
    BY DEF Forgets
  <1> HIDE DEF forget
  <1>4. new \in [1 .. Len(old) -> TaxRow]
    BY <1>1, <1>2
  <1>5. new \in Seq(TaxRow) /\ Len(new) = Len(old)
    BY <1>1, <1>4, SequenceOver
  <1>6. \A k \in 1 .. Len(old) : new[k].rate = old[k].rate /\ new[k].amount = old[k].amount
    BY <1>1, <1>2
  <1> HIDE DEF old, new
  <1>7. /\ [line EXCEPT !.taxes = new].taxes = new
        /\ [line EXCEPT !.taxes = new].price = line.price
        /\ [line EXCEPT !.taxes = new].quantity = line.quantity
    BY DEF Line
  <1>8. new = <<>> <=> old = <<>>
    BY <1>1, <1>5, EmptySeq
  <1>9. QED
    BY <1>3, <1>5, <1>6, <1>7, <1>8 DEF LineSubtotal, old

LEMMA ForgettingFigures ==
  ASSUME NEW x, IsInvoice(x), NEW t
  PROVE  SameFigures(x.lines, ForgetsIn(x, t).lines)
  <1> DEFINE old == x.lines
             new == [i \in DOMAIN old |-> Forgets(old[i], t)]
  <1>1. old \in Seq(Line) /\ DOMAIN old = 1 .. Len(old) /\ Len(old) \in Nat
    BY DEF IsInvoice
  <1>2. ForgetsIn(x, t).lines = new
    <2>1. ForgetsIn(x, t) = [x EXCEPT !.lines = new]
      BY DEF ForgetsIn
    <2> HIDE DEF new
    <2>2. [x EXCEPT !.lines = new].lines = new
      BY OtherLines, ZenonT(60)
    <2>3. QED
      BY <2>1, <2>2
  <1>3. Len(new) = Len(old)
    BY <1>1
  <1>4. \A i \in 1 .. Len(old) : new[i] = Forgets(old[i], t) /\ old[i] \in Line
    BY <1>1, ElementIn
  <1> HIDE DEF old, new
  <1>5. SameFigures(old, new)
    BY <1>3, <1>4, LineFigures DEF SameFigures
  <1>6. QED
    BY <1>2, <1>5 DEF old

-----------------------------------------------------------------------------
(* The invariant of the amounts: each tax is that of its line, and what is *)
(* stored is made of the lines.                                            *)
SumsUp(x) ==
  /\ RightlyTaxed(x.lines)
  /\ x.subtotal = Subtotal(x.lines) /\ x.taxTotal = TaxTotal(x.lines)
  /\ x.xml.untaxed = Subtotal(x.lines) /\ x.xml.groups = TaxGroups(x.lines)
  /\ x.total = Subtotal(x.lines) + TaxTotal(x.lines)
  /\ x.xml.total = Subtotal(x.lines) + TaxTotal(x.lines)
  /\ x.xml.details = DetailsOf(x.lines)

AmountsInv ==
  /\ \A c \in Cashiers : RightlyTaxed(work[c].lines)
  /\ \A x \in Stored : SumsUp(x)

LEMMA NewSumsUp ==
  ASSUME NEW c, NEW number, NEW code, RightlyTaxed(Lines(c))
  PROVE  SumsUp(NewInvoice(c, number, code))
  <1> DEFINE x == NewInvoice(c, number, code)
  <1>1. /\ x.lines = Lines(c) /\ x.subtotal = Subtotal(Lines(c)) /\ x.taxTotal = TaxTotal(Lines(c))
        /\ x.total = Subtotal(Lines(c)) + TaxTotal(Lines(c))
    BY DEF NewInvoice
  <1>2. /\ x.xml.untaxed = Subtotal(Lines(c)) /\ x.xml.groups = TaxGroups(Lines(c))
        /\ x.xml.total = Subtotal(Lines(c)) + TaxTotal(Lines(c))
        /\ x.xml.details = DetailsOf(Lines(c))
    BY DEF NewInvoice, BuildSriXml, DetailsOf
  <1> HIDE DEF x
  <1>3. SumsUp(x)
    BY <1>1, <1>2 DEF SumsUp
  <1>4. QED
    BY <1>3 DEF x

LEMMA ForgettingSums ==
  ASSUME NEW x, IsInvoice(x), SumsUp(x), NEW t
  PROVE  SumsUp(ForgetsIn(x, t))
  <1> DEFINE new == [i \in DOMAIN x.lines |-> Forgets(x.lines[i], t)]
             y == [x EXCEPT !.lines = new]
  <1>1. ForgetsIn(x, t) = y
    BY DEF ForgetsIn
  <1> DEFINE with(l) == [number |-> x.number, seller |-> x.seller, client |-> x.client, lines |-> l,
                         subtotal |-> x.subtotal, taxTotal |-> x.taxTotal, total |-> x.total,
                         key |-> x.key, xml |-> x.xml]
  <1> HIDE DEF new
  <1>2. /\ y.xml = x.xml /\ y.subtotal = x.subtotal /\ y.taxTotal = x.taxTotal /\ y.total = x.total
    <2>1. x = with(x.lines) /\ \A l, m : [with(l) EXCEPT !.lines = m] = with(m)
      BY DEF IsInvoice
    <2> HIDE DEF with
    <2>2. y = with(new)
      BY <2>1
    <2>3. QED
      BY <2>2 DEF with
  <1> HIDE DEF y, with
  <1>3. SameFigures(x.lines, y.lines)
    BY <1>1, ForgettingFigures
  <1>4. /\ Subtotal(y.lines) = Subtotal(x.lines) /\ TaxTotal(y.lines) = TaxTotal(x.lines)
        /\ RightlyTaxed(y.lines) /\ TaxGroups(y.lines) = TaxGroups(x.lines)
        /\ DetailsOf(y.lines) = DetailsOf(x.lines)
    BY <1>3, SameSums, SameGroups, SameDetails DEF SumsUp
  <1>5. SumsUp(y)
    BY <1>2, <1>4 DEF SumsUp
  <1>6. QED
    BY <1>1, <1>5

(* The steps of a creation. *)
LEMMA AmountsStep ==
  ASSUME AmountsInv, DInv, NEW c \in Cashiers, NEW v, Becomes(c, v), RightlyTaxed(v.lines),
         \A x \in Stored' : SumsUp(x)
  PROVE  AmountsInv'
  BY DEF AmountsInv, DInv, Becomes

LEMMA ReadsTaxRightly ==
  ASSUME AmountsInv, DInv, NEW c \in Cashiers, ReadsTax(c), ~ Refused(c)
  PROVE  AmountsInv'
  <1>1. PICK v, taxed, q : Becomes(c, v) /\ TaxRead(work[c], v, taxed, q)
    BY TaxIsRead
  <1> DEFINE all == work[c].lines
  <1>2. all \in Seq(Line) /\ RightlyTaxed(all)
    BY DEF DInv, WorkType, AmountsInv
  <1> HIDE DEF all
  <1>3. /\ TaxAdded(all, v.lines, taxed, q)
        /\ LineSubtotal(v.lines[Len(all)]) = LineSubtotal(all[Len(all)])
        /\ taxed.amount = TaxAmount(LineSubtotal(all[Len(all)]), taxed.rate)
    BY <1>1 DEF TaxRead, all
  <1>4. /\ TaxPlaces(v.lines) = TaxPlaces(all) \cup {q}
        /\ \A p \in TaxPlaces(all) : TaxAt(v.lines, p) = TaxAt(all, p)
        /\ TaxAt(v.lines, q) = taxed
    BY <1>2, <1>3, OneMoreTax
  <1>5. q[1] = Len(all) /\ \A i \in 1 .. Len(all) : LineSubtotal(v.lines[i]) = LineSubtotal(all[i])
    BY <1>3 DEF TaxAdded
  <1>6. \A p \in TaxPlaces(all) : p[1] \in 1 .. Len(all)
    BY PlacesAre
  <1>7. RightlyTaxed(v.lines)
    <2>1. ASSUME NEW p \in TaxPlaces(all)
          PROVE  TaxAt(v.lines, p).amount
                   = TaxAmount(LineSubtotal(v.lines[p[1]]), TaxAt(v.lines, p).rate)
      BY <1>2, <1>4, <1>5, <1>6 DEF RightlyTaxed
    <2>2. TaxAt(v.lines, q).amount = TaxAmount(LineSubtotal(v.lines[q[1]]), TaxAt(v.lines, q).rate)
      BY <1>3, <1>4, <1>5
    <2>3. QED
      BY <1>4, <2>1, <2>2 DEF RightlyTaxed
  <1>8. Stored' = Stored
    BY DEF ReadsTax, Stored
  <1>9. QED
    BY <1>1, <1>7, <1>8, AmountsStep DEF AmountsInv

LEMMA ReadsProductRightly ==
  ASSUME AmountsInv, DInv, NEW c \in Cashiers, ReadsProduct(c), ~ Refused(c)
  PROVE  AmountsInv'
  <1> DEFINE item == Items(c)[Len(Lines(c)) + 1]
             line == [product |-> item.product, quantity |-> item.quantity,
                      price |-> product[item.product].price, taxes |-> <<>>]
             all == work[c].lines
             w == [work[c] EXCEPT !.lines = Append(@, line)]
  <1>1. Becomes(c, w) /\ line.taxes = <<>> /\ Stored' = Stored
    BY DEF ReadsProduct, Stored
  <1> HIDE DEF line
  <1>2. all \in Seq(Line) /\ RightlyTaxed(all) /\ work[c] \in WorkType
    BY DEF DInv, WorkType, AmountsInv
  <1>3. w.lines = Append(all, line)
    BY <1>2 DEF WorkType
  <1> HIDE DEF w, all
  <1>4. /\ TaxPlaces(w.lines) = TaxPlaces(all)
        /\ \A p \in TaxPlaces(all) : TaxAt(w.lines, p) = TaxAt(all, p)
    BY <1>1, <1>2, <1>3, OneMoreLine
  <1>5. ASSUME NEW p \in TaxPlaces(all) PROVE w.lines[p[1]] = all[p[1]]
    <2>1. p[1] \in 1 .. Len(all)
      BY PlacesAre
    <2>2. all \in Seq(Line \cup {line}) /\ line \in Line \cup {line}
      BY <1>2, SeqMonotonic
    <2>3. QED
      BY <1>3, <2>1, <2>2, AppendProperties
  <1>6. RightlyTaxed(w.lines)
    BY <1>2, <1>4, <1>5 DEF RightlyTaxed
  <1>7. QED
    BY <1>1, <1>6, AmountsStep DEF AmountsInv

LEMMA LinesRightlyKept ==
  ASSUME AmountsInv, DInv, NEW c \in Cashiers, NEW v, Becomes(c, v), v.lines = work[c].lines,
         \A x \in Stored' : SumsUp(x)
  PROVE  AmountsInv'
  <1>1. RightlyTaxed(v.lines)
    BY DEF AmountsInv
  <1>2. QED
    BY <1>1, AmountsStep

LEMMA CreatesRightly ==
  ASSUME AmountsInv, DInv, NEW c \in Cashiers, Creates(c)
  PROVE  AmountsInv'
  <1>1. work[c] \in WorkType
    BY DEF DInv
  <1>2. CASE Refused(c) /\ UNCHANGED invoices
    <2> DEFINE v == [work[c] EXCEPT !.state = "refused"]
    <2>1. Becomes(c, v) /\ v.lines = work[c].lines /\ Stored' = Stored
      BY <1>1, <1>2 DEF Refused, WorkType, Stored
    <2>2. QED
      BY <2>1, LinesRightlyKept DEF AmountsInv
  <1>3. CASE Begins(c)
    <2>1. PICK cart \in Carts :
            Becomes(c, [Idle EXCEPT !.cart = cart,
                          !.state = IF TwiceTheSame(cart.items) THEN "refused" ELSE "reading"])
      BY <1>3 DEF Begins
    <2> DEFINE v == [Idle EXCEPT !.cart = cart,
                       !.state = IF TwiceTheSame(cart.items) THEN "refused" ELSE "reading"]
    <2>2. v.lines = <<>>
      BY DEF Idle
    <2> HIDE DEF v
    <2>3. RightlyTaxed(v.lines)
      <3>1. Len(v.lines) = 0
        BY <2>2
      <3>2. QED
        BY <3>1, PlacesAre DEF RightlyTaxed
    <2>4. Stored' = Stored
      BY <1>3 DEF Begins, Stored
    <2>5. QED
      BY <2>1, <2>3, <2>4, AmountsStep DEF v, AmountsInv
  <1>4. CASE ReadsProduct(c) /\ ~ Refused(c)
    BY <1>4, ReadsProductRightly
  <1>5. CASE ReadsTax(c) /\ ~ Refused(c)
    BY <1>5, ReadsTaxRightly
  <1>6. CASE ReadsClient(c)
    <2> DEFINE asked == work[c].cart.client
               v == [work[c] EXCEPT !.state = "writing",
                       !.client = IF asked = None THEN None ELSE client[asked]]
    <2>1. Becomes(c, v) /\ v.lines = work[c].lines /\ Stored' = Stored
      BY <1>1, <1>6 DEF ReadsClient, WorkType, Stored
    <2>2. QED
      BY <2>1, LinesRightlyKept DEF AmountsInv
  <1>7. ASSUME NEW code \in NumericCodes,
               invoices' = Append(invoices, NewInvoice(c, FirstNumber + Len(invoices), code)),
               Becomes(c, [work[c] EXCEPT !.state = "stored"])
        PROVE  AmountsInv'
    <2> DEFINE v == [work[c] EXCEPT !.state = "stored"]
               new == NewInvoice(c, FirstNumber + Len(invoices), code)
    <2>1. Becomes(c, v) /\ v.lines = work[c].lines
      BY <1>1, <1>7 DEF WorkType
    <2>2. SumsUp(new)
      BY NewSumsUp DEF AmountsInv, Lines
    <2> HIDE DEF new, v
    <2>3. invoices' = Append(invoices, new)
      BY <1>7 DEF new
    <2>4. \A x \in Stored' : x \in Stored \/ x = new
      <3>1. invoices \in Seq(Stored \cup {new}) /\ new \in Stored \cup {new}
        BY SeqMonotonic DEF DInv
      <3>2. invoices' \in Seq(Stored \cup {new})
        BY <2>3, <3>1
      <3>3. \A n \in DOMAIN invoices' : invoices'[n] \in Stored \cup {new}
        BY <3>2
      <3>4. QED
        BY <3>3 DEF Stored
    <2>5. QED
      BY <2>1, <2>2, <2>4, LinesRightlyKept DEF AmountsInv
  <1>8. CASE ReadsProduct(c) /\ Refused(c)
    BY <1>2, <1>8 DEF ReadsProduct
  <1>9. CASE ReadsTax(c) /\ Refused(c)
    BY <1>2, <1>9 DEF ReadsTax
  <1>10. CASE Stores(c)
    BY <1>2, <1>7, <1>10 DEF Stores
  <1>11. QED
    BY <1>3, <1>4, <1>5, <1>6, <1>8, <1>9, <1>10 DEF Creates

LEMMA AmountsHold ==
  /\ Init => AmountsInv
  /\ DInv /\ AmountsInv /\ [Next]_vars => AmountsInv'
  <1>1. Init => AmountsInv
    <2> SUFFICES ASSUME Init PROVE AmountsInv
      OBVIOUS
    <2>1. RightlyTaxed(Idle.lines)
      <3>1. Len(Idle.lines) = 0
        BY DEF Idle
      <3>2. QED
        BY <3>1, PlacesAre DEF RightlyTaxed
    <2>2. Stored = {}
      BY DEF Init, Stored
    <2>3. QED
      BY <2>1, <2>2 DEF Init, AmountsInv
  <1>2. DInv /\ AmountsInv /\ [Next]_vars => AmountsInv'
    <2> SUFFICES ASSUME DInv, AmountsInv, [Next]_vars PROVE AmountsInv'
      OBVIOUS
    <2>1. CASE UNCHANGED <<work, invoices>>
      BY <2>1 DEF AmountsInv, Stored
    <2>2. ASSUME NEW t \in Taxes, DeleteTax(t) PROVE AmountsInv'
      <3>1. /\ UNCHANGED work
            /\ invoices' = [n \in DOMAIN invoices |-> ForgetsIn(invoices[n], t)]
        BY <2>2 DEF DeleteTax, Edits
      <3>2. ASSUME NEW n \in DOMAIN invoices PROVE SumsUp(ForgetsIn(invoices[n], t))
        <4>1. IsInvoice(invoices[n]) /\ SumsUp(invoices[n])
          BY DEF DInv, AmountsInv, Stored
        <4>2. QED
          BY <4>1, ForgettingSums
      <3>3. QED
        BY <3>1, <3>2 DEF AmountsInv, Stored
    <2>3. CASE EditsSomething
      BY <2>1, <2>2, <2>3 DEF EditsSomething, EditProduct, EditTax, EditClient, Edits
    <2>4. QED
      BY <2>1, <2>3, CreatesRightly DEF Next, vars
  <1>3. QED
    BY <1>1, <1>2

-----------------------------------------------------------------------------
(* The sums that are computed apart.  The reply shows no subtotal for a    *)
(* line of nothing: none is missed.                                        *)
LEMMA ShownAddUp ==
  ASSUME NEW lines \in Seq(Line)
  PROVE  SumFunction([i \in {j \in DOMAIN lines : ResponseSubtotal(lines[j]) # None} |->
                        ResponseSubtotal(lines[i])]) = Subtotal(lines)
  <1> DEFINE shown == {i \in DOMAIN lines : ResponseSubtotal(lines[i]) # None}
             f == [i \in shown |-> ResponseSubtotal(lines[i])]
             all == 1 .. Len(lines)
             w == LineTotals(lines)
  <1>1. DOMAIN lines = all /\ IsFiniteSet(all) /\ Weighs(w, all)
    BY PlacesAreFinite, LinesWeigh
  <1>2. SUFFICES SumFunction(f) = Subtotal(lines)
    OBVIOUS
  <1>3. SumFunction(f) = Total(f, shown)
    BY SumFunctionIsTotal
  <1>4. ASSUME NEW i \in all
        PROVE  /\ i \in shown => f[i] = w[i]
               /\ i \notin shown => w[i] = 0
    <2>1. lines[i] \in Line /\ LineSubtotal(lines[i]) \in Nat
      BY ElementIn, LineWeighs
    <2>2. lines[i].price \in Nat /\ lines[i].quantity \in Nat
      BY <2>1 DEF Line
    <2>3. w[i] = LineSubtotal(lines[i])
      BY DEF LineTotals
    <2>4. CASE lines[i].price = 0 \/ lines[i].quantity = 0
      <3>1. LineSubtotal(lines[i]) = 0
        BY <2>2, <2>4 DEF LineSubtotal
      <3>2. i \notin shown
        BY <2>4 DEF ResponseSubtotal
      <3>3. QED
        BY <2>3, <3>1, <3>2
    <2>5. CASE ~ (lines[i].price = 0 \/ lines[i].quantity = 0)
      <3>1. ResponseSubtotal(lines[i]) = LineSubtotal(lines[i])
        BY <2>5 DEF ResponseSubtotal
      <3>2. LineSubtotal(lines[i]) # None
        BY <2>1, DocumentConstants
      <3>3. i \in shown
        BY <1>1, <3>1, <3>2
      <3>4. QED
        BY <2>3, <3>1, <3>3
    <2>6. QED
      BY <2>4, <2>5
  <1>5. shown \in SUBSET all
    BY <1>1
  <1>6. QED
    <2> HIDE DEF shown, f, all, w
    <2>1. IsFiniteSet(shown)
      BY <1>1, <1>5, FS_Subset
    <2>2. Total(f, shown) = Total(w, shown)
      BY <1>4, <1>5, <2>1, SameTotal
    <2>3. Total(w, all) = Total(w, shown)
      BY <1>1, <1>4, <1>5, TotalOfRest
    <2>4. Subtotal(lines) = Total(w, all)
      BY SubtotalIs DEF w, all
    <2>5. QED
      BY <1>3, <2>2, <2>3, <2>4

(* The groups of the XML: each place is in the group of its rate.          *)
Bases(lines) == [p \in TaxPlaces(lines) |-> LineSubtotal(lines[p[1]])]

LEMMA BasesWeigh ==
  ASSUME NEW lines \in Seq(Line)
  PROVE  Weighs(Bases(lines), TaxPlaces(lines))
  <1>1. ASSUME NEW p \in TaxPlaces(lines) PROVE Bases(lines)[p] \in Int
    BY PlaceWeighs, LineWeighs DEF Bases
  <1>2. QED
    BY <1>1 DEF Weighs

LEMMA RatesAreFinite ==
  ASSUME NEW lines \in Seq(Line)
  PROVE  IsFiniteSet(RatesIn(lines))
  <1> DEFINE c == [p \in TaxPlaces(lines) |-> TaxAt(lines, p).rate]
  <1>1. c \in Surjection(TaxPlaces(lines), RatesIn(lines))
    BY DEF Surjection, RatesIn
  <1> HIDE DEF c
  <1>2. QED
    BY <1>1, PlacesAreFinite, FS_Surjection

LEMMA AddUpByRate ==
  ASSUME NEW lines \in Seq(Line), NEW w, Weighs(w, TaxPlaces(lines)),
         NEW g, \A r \in RatesIn(lines) : g[r] = Total(w, PlacesOf(lines, r))
  PROVE  Total(g, RatesIn(lines)) = Total(w, TaxPlaces(lines))
  <1> DEFINE S == TaxPlaces(lines)
             R == RatesIn(lines)
             c == [p \in S |-> TaxAt(lines, p).rate]
  <1>1. IsFiniteSet(S) /\ IsFiniteSet(R)
    BY PlacesAreFinite, RatesAreFinite
  <1>2. \A p \in S : c[p] \in R
    BY DEF RatesIn
  <1>3. \A r \in R : ClassOf(c, S, r) = PlacesOf(lines, r)
    BY DEF ClassOf, PlacesOf
  <1> HIDE DEF S, R, c
  <1>4. Total(ByClass(w, c, S, R), R) = Total(w, S)
    BY <1>1, <1>2, TotalByClass DEF S
  <1>5. \A r \in R : g[r] = ByClass(w, c, S, R)[r]
    BY <1>3 DEF ByClass, R
  <1>6. Total(g, R) = Total(ByClass(w, c, S, R), R)
    BY <1>1, <1>5, SameTotal
  <1>7. QED
    BY <1>4, <1>6 DEF S, R

LEMMA GroupIs ==
  ASSUME NEW lines \in Seq(Line), NEW r
  PROVE  /\ Group(lines, r).value = Total(AmountsAt(lines), PlacesOf(lines, r))
         /\ Group(lines, r).base = Total(Bases(lines), PlacesOf(lines, r))
  <1> DEFINE P == PlacesOf(lines, r)
             f == [p \in P |-> TaxAt(lines, p).amount]
             b == [p \in P |-> LineSubtotal(lines[p[1]])]
  <1>1. P \subseteq TaxPlaces(lines)
    BY DEF PlacesOf
  <1>2. IsFiniteSet(P)
    BY <1>1, PlacesAreFinite, FS_Subset
  <1>3. Group(lines, r).value = SumFunction(f) /\ Group(lines, r).base = SumFunction(b)
    BY DEF Group, SumOver
  <1>4. /\ \A p \in P : f[p] = AmountsAt(lines)[p]
        /\ \A p \in P : b[p] = Bases(lines)[p]
    BY <1>1 DEF AmountsAt, Bases
  <1>5. DOMAIN f = P /\ DOMAIN b = P
    OBVIOUS
  <1> HIDE DEF P, f, b
  <1>6. SumFunction(f) = Total(f, P) /\ SumFunction(b) = Total(b, P)
    BY <1>5, SumFunctionIsTotal
  <1>7. Total(f, P) = Total(AmountsAt(lines), P) /\ Total(b, P) = Total(Bases(lines), P)
    BY <1>2, <1>4, SameTotal
  <1>8. QED
    BY <1>3, <1>6, <1>7 DEF P

LEMMA TotalOfOne ==
  ASSUME NEW w, NEW x, w[x] \in Int
  PROVE  Total(w, {x}) = w[x]
  <1>1. IsFiniteSet({x}) /\ Weighs(w, {x})
    BY FS_Singleton DEF Weighs
  <1>2. {x} \ {x} = {}
    OBVIOUS
  <1>3. Total(w, {x}) = w[x] + Total(w, {})
    BY <1>1, <1>2, TotalWithout
  <1>4. QED
    BY <1>3, TotalOfNone

LEMMA ValuesOfGroups ==
  ASSUME NEW lines \in Seq(Line)
  PROVE  SumFunction([r \in DOMAIN TaxGroups(lines) |-> TaxGroups(lines)[r].value]) = TaxTotal(lines)
  <1> DEFINE groups == TaxGroups(lines)
             g == [r \in DOMAIN groups |-> groups[r].value]
  <1>1. SUFFICES SumFunction(g) = TaxTotal(lines)
    OBVIOUS
  <1>2. SumFunction(g) = Total(g, DOMAIN groups)
    BY SumFunctionIsTotal
  <1>3. CASE TaxPlaces(lines) = {}
    <2>1. DOMAIN groups = {0} /\ groups[0].value = 0
      BY <1>3 DEF TaxGroups
    <2>2. g[0] = 0
      BY <2>1
    <2> HIDE DEF g, groups
    <2>3. Total(g, DOMAIN groups) = 0
      <3>1. g[0] \in Int
        BY <2>2
      <3>2. Total(g, {0}) = g[0]
        BY <3>1, TotalOfOne
      <3>3. QED
        BY <2>1, <2>2, <3>2
    <2>4. TaxTotal(lines) = 0
      BY <1>3, TaxTotalIs, TotalOfNone
    <2>5. QED
      BY <1>2, <2>3, <2>4
  <1>4. CASE TaxPlaces(lines) # {}
    <2>1. DOMAIN groups = RatesIn(lines) /\ \A r \in RatesIn(lines) : groups[r] = Group(lines, r)
      BY <1>4 DEF TaxGroups
    <2>2. \A r \in RatesIn(lines) : g[r] = Group(lines, r).value
      BY <2>1
    <2> HIDE DEF g, groups
    <2>3. \A r \in RatesIn(lines) : g[r] = Total(AmountsAt(lines), PlacesOf(lines, r))
      BY <2>2, GroupIs
    <2>4. Total(g, RatesIn(lines)) = Total(AmountsAt(lines), TaxPlaces(lines))
      BY <2>3, LinesWeigh, AddUpByRate
    <2>5. QED
      BY <1>2, <2>1, <2>4, TaxTotalIs
  <1>5. QED
    BY <1>3, <1>4

(* The details of the XML: a line has its own tax rows, or one of nothing. *)
RowOfLine(lines, i) == ClassOf([p \in TaxPlaces(lines) |-> p[1]], TaxPlaces(lines), i)

LEMMA RowIs ==
  ASSUME NEW lines, NEW i \in 1 .. Len(lines), NEW m, m = [k \in 1 .. Len(lines[i].taxes) |-> <<i, k>>]
  PROVE  /\ RowOfLine(lines, i) = Image(m, 1 .. Len(lines[i].taxes))
         /\ RowOfLine(lines, i) \subseteq TaxPlaces(lines)
  <1>1. ASSUME NEW p PROVE p \in RowOfLine(lines, i) <=> p \in Image(m, 1 .. Len(lines[i].taxes))
    <2>1. p \in RowOfLine(lines, i) <=> p \in TaxPlaces(lines) /\ p[1] = i
      BY DEF RowOfLine, ClassOf
    <2>2. p \in Image(m, 1 .. Len(lines[i].taxes)) <=> \E k \in 1 .. Len(lines[i].taxes) : p = <<i, k>>
      BY DEF Image
    <2>3. p \in TaxPlaces(lines) <=>
            \E j \in 1 .. Len(lines) : \E k \in 1 .. Len(lines[j].taxes) : p = <<j, k>>
      BY PlacesAre
    <2>4. QED
      BY <2>1, <2>2, <2>3
  <1>2. QED
    BY <1>1 DEF RowOfLine, ClassOf

LEMMA RowAddsUp ==
  ASSUME NEW lines \in Seq(Line), NEW i \in 1 .. Len(lines), NEW v,
         \A k \in 1 .. Len(lines[i].taxes) : v[k] = lines[i].taxes[k].amount
  PROVE  Total(v, 1 .. Len(lines[i].taxes)) = Total(AmountsAt(lines), RowOfLine(lines, i))
  <1> DEFINE old == lines[i].taxes
             n == Len(old)
             m == [k \in 1 .. n |-> <<i, k>>]
             S == 1 .. n
  <1>1. old \in Seq(TaxRow) /\ n \in Nat
    BY ElementIn, LineWeighs
  <1>2. RowOfLine(lines, i) = Image(m, S) /\ RowOfLine(lines, i) \subseteq TaxPlaces(lines)
    BY RowIs
  <1>3. ASSUME NEW k \in S PROVE v[k] = AmountsAt(lines)[m[k]] /\ v[k] \in Int
    <2>1. v[k] = old[k].amount
      OBVIOUS
    <2>2. <<i, k>> \in TaxPlaces(lines) /\ m[k] = <<i, k>>
      BY PlacesAre
    <2>3. AmountsAt(lines)[m[k]] = old[k].amount
      BY <2>2 DEF AmountsAt, TaxAt
    <2>4. old[k] \in TaxRow
      BY <1>1, ElementIn
    <2>5. QED
      BY <2>1, <2>3, <2>4 DEF TaxRow
  <1>4. \A k, j \in S : m[k] = m[j] => k = j
    OBVIOUS
  <1>5. IsFiniteSet(S)
    <2>1. \A j \in Nat : IsFiniteSet(1 .. j)
      BY FS_Interval
    <2>2. QED
      BY <1>1, <2>1
  <1>6. IsFiniteSet(TaxPlaces(lines))
    BY PlacesAreFinite
  <1> HIDE DEF m, n, S
  <1>7. Weighs(v, S)
    BY <1>3 DEF Weighs
  <1>8. Renames(m, S, v, AmountsAt(lines))
    BY <1>3, <1>4 DEF Renames
  <1>9. IsFiniteSet(Image(m, S))
    BY <1>2, <1>6, FS_Subset
  <1>10. Total(v, S) = Total(AmountsAt(lines), Image(m, S))
    BY <1>5, <1>7, <1>8, <1>9, TotalRenamed
  <1>11. QED
    BY <1>2, <1>10 DEF S, n

LEMMA DetailAddsUp ==
  ASSUME NEW lines \in Seq(Line), NEW i \in 1 .. Len(lines),
         NEW taxes, taxes = DetailTaxes(lines[i]),
         NEW f, f = [k \in 1 .. Len(taxes) |-> taxes[k].value]
  PROVE  SumFunction(f) = Total(AmountsAt(lines), RowOfLine(lines, i))
  <1> DEFINE old == lines[i].taxes
             n == Len(old)
  <1>1. lines[i] \in Line /\ old \in Seq(TaxRow) /\ n \in Nat
    BY ElementIn, LineWeighs
  <1>2. SumFunction(f) = Total(f, 1 .. Len(taxes))
    BY SumFunctionIsTotal
  <1>4. CASE old = <<>>
    <2>1. taxes = <<[code |-> 0, rate |-> 0, base |-> LineSubtotal(lines[i]), value |-> 0]>>
      BY <1>4 DEF DetailTaxes
    <2>2. Len(taxes) = 1 /\ taxes[1].value = 0
      BY <2>1
    <2>3. 1 .. Len(taxes) = {1} /\ f[1] = 0
      BY <2>2
    <2>4. 1 .. n = {}
      BY <1>4
    <2>5. Total(f, 1 .. n) = Total(AmountsAt(lines), RowOfLine(lines, i))
      BY <2>4, RowAddsUp
    <2>6. Total(f, {1}) = f[1]
      <3>1. f[1] \in Int
        BY <2>3
      <3>2. QED
        BY <3>1, TotalOfOne
    <2>7. QED
      BY <1>2, <2>3, <2>4, <2>5, <2>6, TotalOfNone
  <1>5. CASE old # <<>>
    <2> DEFINE base == LineSubtotal(lines[i])
               detail(k) == [code |-> PercentCode(old[k].rate), rate |-> old[k].rate,
                             base |-> base, value |-> old[k].amount]
    <2>1. taxes = [k \in 1 .. n |-> detail(k)]
      BY <1>5 DEF DetailTaxes
    <2>2. \A k \in 1 .. n : detail(k).value = old[k].amount
      OBVIOUS
    <2> HIDE DEF detail
    <2>3. Len(taxes) = n
      BY <1>1, <2>1
    <2>4. \A k \in 1 .. n : f[k] = old[k].amount
      BY <2>1, <2>2, <2>3
    <2>5. Total(f, 1 .. n) = Total(AmountsAt(lines), RowOfLine(lines, i))
      BY <2>4, RowAddsUp
    <2>6. QED
      BY <1>2, <2>3, <2>5
  <1>6. QED
    BY <1>4, <1>5

LEMMA ValuesOfDetails ==
  ASSUME NEW lines \in Seq(Line)
  PROVE  DetailValues(DetailsOf(lines)) = TaxTotal(lines)
  <1> DEFINE details == DetailsOf(lines)
             R == 1 .. Len(lines)
             S == TaxPlaces(lines)
             c == [p \in S |-> p[1]]
             g == [i \in R |-> SumOver(1 .. Len(details[i].taxes), LAMBDA k : details[i].taxes[k].value)]
  <1>1. Len(details) = Len(lines)
    <2>1. Len(lines) \in Nat
      BY LengthIn
    <2>2. QED
      BY <2>1 DEF DetailsOf
  <1>2. \A i \in R : details[i].taxes = DetailTaxes(lines[i])
    BY DEF DetailsOf
  <1>3. DetailValues(details) = SumFunction(g)
    <2>1. DetailValues(details) =
            SumOver(1 .. Len(details), LAMBDA i :
              SumOver(1 .. Len(details[i].taxes), LAMBDA k : details[i].taxes[k].value))
      BY DEF DetailValues
    <2> HIDE DEF details
    <2>2. QED
      BY <1>1, <2>1 DEF SumOver
  <1>4. \A i \in R : g[i] = Total(AmountsAt(lines), RowOfLine(lines, i))
    <2>1. ASSUME NEW i \in R PROVE g[i] = Total(AmountsAt(lines), RowOfLine(lines, i))
      <3> DEFINE taxes == details[i].taxes
      <3>1. taxes = DetailTaxes(lines[i])
        BY <1>2
      <3>2. g[i] = SumFunction([k \in 1 .. Len(taxes) |-> taxes[k].value])
        BY DEF SumOver
      <3> HIDE DEF g, taxes
      <3>3. SumFunction([k \in 1 .. Len(taxes) |-> taxes[k].value])
              = Total(AmountsAt(lines), RowOfLine(lines, i))
        BY <3>1, DetailAddsUp
      <3>4. QED
        BY <3>2, <3>3
    <2>2. QED
      BY <2>1
  <1>5. DOMAIN g = R
    OBVIOUS
  <1>6. IsFiniteSet(S) /\ IsFiniteSet(R) /\ Weighs(AmountsAt(lines), S)
    BY PlacesAreFinite, LinesWeigh
  <1>7. \A p \in S : c[p] \in R
    BY PlacesAre
  <1>8. \A i \in R : ClassOf(c, S, i) = RowOfLine(lines, i)
    BY DEF RowOfLine
  <1> HIDE DEF g, R, S, c
  <1>9. SumFunction(g) = Total(g, R)
    BY <1>5, SumFunctionIsTotal
  <1>10. Total(ByClass(AmountsAt(lines), c, S, R), R) = Total(AmountsAt(lines), S)
    BY <1>6, <1>7, TotalByClass
  <1>11. \A i \in R : g[i] = ByClass(AmountsAt(lines), c, S, R)[i]
    BY <1>4, <1>8 DEF ByClass
  <1>12. Total(g, R) = Total(ByClass(AmountsAt(lines), c, S, R), R)
    BY <1>6, <1>11, SameTotal
  <1>13. QED
    BY <1>3, <1>9, <1>10, <1>12, TaxTotalIs DEF S, details

(* Rounding. *)
LEMMA QuantizeIsNear ==
  ASSUME NEW n \in Nat
  PROVE  WithinHalf(n, Quantize(n, 10000), 1)
  <1> DEFINE q == (2 * n + 10000) \div 20000
  <1>1. q \in Int /\ 20000 * q <= 2 * n + 10000 /\ 2 * n + 10000 < 20000 * q + 20000
    BY SMT
  <1>2. Quantize(n, 10000) = q
    BY SMT DEF Quantize
  <1> HIDE DEF q
  <1>3. WithinHalf(n, q, 1)
    BY <1>1, SMT DEF WithinHalf
  <1>4. QED
    BY <1>2, <1>3

Exacts(lines) == [p \in TaxPlaces(lines) |-> LineSubtotal(lines[p[1]]) * TaxAt(lines, p).rate]

LEMMA RoundingStaysNear ==
  ASSUME NEW lines \in Seq(Line), RightlyTaxed(lines)
  PROVE  WithinHalf(Exact(lines), TaxTotal(lines), Cardinality(TaxPlaces(lines)))
  <1> DEFINE S == TaxPlaces(lines)
             e == Exacts(lines)
             a == AmountsAt(lines)
  <1>1. ASSUME NEW p \in S PROVE e[p] \in Nat /\ WithinHalf(e[p], a[p], 1)
    <2> DEFINE s == LineSubtotal(lines[p[1]])
               r == TaxAt(lines, p).rate
    <2>1. s \in Nat /\ r \in Nat
      BY PlaceWeighs, LineWeighs
    <2>2. e[p] = s * r /\ a[p] = TaxAmount(s, r)
      BY DEF Exacts, AmountsAt, RightlyTaxed
    <2>3. TaxAmount(s, r) = Quantize(s * r, 10000)
      BY DEF TaxAmount
    <2> HIDE DEF s, r
    <2>4. s * r \in Nat
      <3>1. \A m, n \in Nat : m * n \in Nat
        OBVIOUS
      <3>2. QED
        BY <2>1, <3>1
    <2>5. WithinHalf(s * r, Quantize(s * r, 10000), 1)
      BY <2>4, QuantizeIsNear
    <2>6. QED
      BY <2>2, <2>3, <2>4, <2>5
  <1>2. IsFiniteSet(S) /\ Weighs(a, S)
    BY PlacesAreFinite, LinesWeigh
  <1>3. Exact(lines) = SumFunction(e) /\ DOMAIN e = S
    BY DEF Exact, SumOver, Exacts
  <1>4. TaxTotal(lines) = Total(a, S)
    BY TaxTotalIs
  <1> HIDE DEF S, e, a
  <1>5. Weighs(e, S)
    BY <1>1 DEF Weighs
  <1>6. WithinHalf(Total(e, S), Total(a, S), Cardinality(S))
    BY <1>1, <1>2, <1>5, TotalsApart
  <1>7. Exact(lines) = Total(e, S)
    BY <1>3, SumFunctionIsTotal
  <1>8. QED
    BY <1>4, <1>6, <1>7 DEF S

LEMMA ExactIsInt ==
  ASSUME NEW lines \in Seq(Line)
  PROVE  Exact(lines) \in Int
  <1> DEFINE S == TaxPlaces(lines)
             e == Exacts(lines)
  <1>1. ASSUME NEW p \in S PROVE e[p] \in Int
    <2>1. LineSubtotal(lines[p[1]]) \in Nat /\ TaxAt(lines, p).rate \in Nat
      BY PlaceWeighs, LineWeighs
    <2>2. \A m, n \in Nat : m * n \in Int
      OBVIOUS
    <2>3. QED
      BY <2>1, <2>2 DEF Exacts
  <1>2. Exact(lines) = SumFunction(e) /\ DOMAIN e = S
    BY DEF Exact, SumOver, Exacts
  <1>3. IsFiniteSet(S)
    BY PlacesAreFinite
  <1> HIDE DEF S, e
  <1>4. Weighs(e, S)
    BY <1>1 DEF Weighs
  <1>5. Exact(lines) = Total(e, S)
    BY <1>2, SumFunctionIsTotal
  <1>6. QED
    BY <1>3, <1>4, <1>5, TotalIsInt

(* The amounts of the row, of the lines in the reply, of the groups and    *)
(* the details of the XML and of the PDF are computed apart and agree to   *)
(* the cent, for any carts, prices, rates and edits; rounding moves the    *)
(* tax by half a cent per tax row at most.                                 *)
THEOREM AmountsAgreeAlways == Spec => []AmountsAgree
  <1>1. DInv /\ AmountsInv => AmountsAgree
    <2> SUFFICES ASSUME DInv, AmountsInv, NEW invoice \in Stored PROVE SumsAgree(invoice)
      BY DEF AmountsAgree
    <2> DEFINE lines == invoice.lines
               groups == invoice.xml.groups
               shown == {i \in DOMAIN lines : ResponseSubtotal(lines[i]) # None}
               rows == Cardinality(TaxPlaces(lines))
    <2>1. lines \in Seq(Line) /\ SumsUp(invoice)
      BY DEF DInv, IsInvoice, AmountsInv
    <2>2. /\ invoice.subtotal = Subtotal(lines) /\ invoice.taxTotal = TaxTotal(lines)
          /\ groups = TaxGroups(lines) /\ invoice.xml.details = DetailsOf(lines)
          /\ RightlyTaxed(lines)
      BY <2>1 DEF SumsUp
    <2>3. SumFunction([i \in shown |-> ResponseSubtotal(lines[i])]) = invoice.subtotal
      BY <2>1, <2>2, ShownAddUp
    <2>4. SumFunction([r \in DOMAIN groups |-> groups[r].value]) = invoice.taxTotal
      BY <2>1, <2>2, ValuesOfGroups
    <2>5. DetailValues(invoice.xml.details) = invoice.taxTotal
      BY <2>1, <2>2, ValuesOfDetails
    <2>6. invoice.xml.untaxed + invoice.taxTotal = PdfPayment(invoice)
      BY <2>1 DEF SumsUp, PdfPayment
    <2>7. PdfPayment(invoice) = PdfBreakdown(invoice).total
      BY <2>1 DEF SumsUp, PdfPayment, PdfBreakdown, BreakdownOfXml, Breakdown
    <2>8. PdfItems(invoice) = PdfItemsOfRow(lines)
      <3>1. DOMAIN lines = 1 .. Len(lines)
        BY <2>1
      <3>2. /\ DOMAIN invoice.xml.details = 1 .. Len(lines)
            /\ \A i \in 1 .. Len(lines) : invoice.xml.details[i].subtotal = LineSubtotal(lines[i])
        BY <2>2 DEF DetailsOf
      <3> HIDE DEF lines
      <3>3. QED
        BY <3>1, <3>2 DEF PdfItems, PdfItemsOfRow
    <2>9. 2 * (Exact(lines) - 10000 * invoice.taxTotal) \in -10000 * rows .. 10000 * rows
      <3> DEFINE x == Exact(lines)
                 t == TaxTotal(lines)
      <3>1. WithinHalf(x, t, rows)
        BY <2>1, <2>2, RoundingStaysNear
      <3>2. x \in Int /\ t \in Int /\ rows \in Int
        BY <2>1, ExactIsInt, LinesWeigh, PlacesAreFinite
      <3>3. t = invoice.taxTotal
        BY <2>2
      <3> HIDE DEF x, t, rows
      <3>4. 2 * (x - 10000 * t) \in -10000 * rows .. 10000 * rows
        BY <3>1, <3>2, SMT DEF WithinHalf
      <3>5. QED
        BY <3>3, <3>4 DEF x
    <2>10. QED
      BY <2>3, <2>4, <2>5, <2>6, <2>7, <2>8, <2>9 DEF SumsAgree, SumOver
  <1>2. QED
    BY <1>1, AmountsHold, InitDInv, NextStands, PTL DEF Spec

(* The bases of the groups, and the PDF with and without the XML.          *)
BasesOf(groups) == SumFunction([r \in DOMAIN groups |-> groups[r].base])

LEMMA UntaxedBases ==
  ASSUME NEW lines \in Seq(Line), TaxPlaces(lines) = {}, NEW total
  PROVE  /\ BasesOf(TaxGroups(lines)) = Subtotal(lines)
         /\ BreakdownOfXml(TaxGroups(lines), total)
              = BreakdownOfRow(lines, Subtotal(lines), TaxTotal(lines), total)
  <1> DEFINE groups == TaxGroups(lines)
             b == [r \in DOMAIN groups |-> groups[r].base]
             v == [r \in {} |-> groups[r].value]
             n == [r \in {} |-> groups[r].base]
  <1>1. DOMAIN groups = {0} /\ groups[0].base = Subtotal(lines)
    BY DEF TaxGroups
  <1>2. Subtotal(lines) \in Int
    BY LinesWeigh
  <1>3. SumFunction(b) = Subtotal(lines)
    <2>1. DOMAIN b = {0} /\ b[0] = Subtotal(lines)
      BY <1>1
    <2> HIDE DEF b
    <2>2. SumFunction(b) = Total(b, {0})
      BY <2>1, SumFunctionIsTotal
    <2>3. b[0] \in Int
      BY <1>2, <2>1
    <2>4. Total(b, {0}) = b[0]
      BY <2>3, TotalOfOne
    <2>5. QED
      BY <2>1, <2>2, <2>4
  <1>4. SumFunction(v) = 0 /\ SumFunction(n) = 0
    <2>1. DOMAIN v = {} /\ DOMAIN n = {}
      OBVIOUS
    <2> HIDE DEF v, n
    <2>2. SumFunction(v) = Total(v, {}) /\ SumFunction(n) = Total(n, {})
      BY <2>1, SumFunctionIsTotal
    <2>3. QED
      BY <2>2, TotalOfNone
  <1>5. TaxTotal(lines) = 0
    BY TaxTotalIs, TotalOfNone
  <1>6. DOMAIN groups \ {0} = {} /\ DOMAIN groups \cap {0} = DOMAIN groups
    BY <1>1
  <1>7. BreakdownOfXml(groups, total) = Breakdown(0, Subtotal(lines), 0 + Subtotal(lines), 0, total)
    <2> HIDE DEF groups
    <2>1. BreakdownOfXml(groups, total)
            = Breakdown(SumFunction(n), SumFunction(b), SumFunction(n) + SumFunction(b),
                        SumFunction(v), total)
      BY <1>6, Zenon DEF BreakdownOfXml, SumOver
    <2>2. QED
      BY <1>3, <1>4, <2>1
  <1>8. BreakdownOfRow(lines, Subtotal(lines), TaxTotal(lines), total)
          = Breakdown(0, Subtotal(lines), Subtotal(lines), 0, total)
    BY <1>5 DEF BreakdownOfRow
  <1>9. 0 + Subtotal(lines) = Subtotal(lines)
    BY <1>2
  <1>10. QED
    BY <1>3, <1>7, <1>8, <1>9 DEF BasesOf

LEMMA BasesByRate ==
  ASSUME NEW lines \in Seq(Line), TaxPlaces(lines) # {}
  PROVE  BasesOf(TaxGroups(lines)) = Total(Bases(lines), TaxPlaces(lines))
  <1> DEFINE groups == TaxGroups(lines)
             b == [r \in DOMAIN groups |-> groups[r].base]
  <1>1. DOMAIN groups = RatesIn(lines) /\ \A r \in RatesIn(lines) : groups[r] = Group(lines, r)
    BY DEF TaxGroups
  <1>2. \A r \in RatesIn(lines) : b[r] = Group(lines, r).base
    BY <1>1
  <1>3. DOMAIN b = RatesIn(lines)
    BY <1>1
  <1> HIDE DEF b, groups
  <1>4. \A r \in RatesIn(lines) : b[r] = Total(Bases(lines), PlacesOf(lines, r))
    BY <1>2, GroupIs
  <1>5. Total(b, RatesIn(lines)) = Total(Bases(lines), TaxPlaces(lines))
    BY <1>4, BasesWeigh, AddUpByRate
  <1>6. SumFunction(b) = Total(b, RatesIn(lines))
    BY <1>3, SumFunctionIsTotal
  <1>7. QED
    BY <1>5, <1>6 DEF BasesOf, b, groups

OneTaxEach(lines) ==
  \A i \in DOMAIN lines : Len(lines[i].taxes) = 1 /\ lines[i].taxes[1].rate # 0

LEMMA BasesOfOneTaxEach ==
  ASSUME NEW lines \in Seq(Line), OneTaxEach(lines)
  PROVE  Total(Bases(lines), TaxPlaces(lines)) = Subtotal(lines) /\ 0 \notin RatesIn(lines)
  <1> DEFINE S == 1 .. Len(lines)
             v == LineTotals(lines)
             w == Bases(lines)
             m == [i \in S |-> <<i, 1>>]
  <1>1. DOMAIN lines = S /\ \A i \in S : 1 .. Len(lines[i].taxes) = {1} /\ lines[i].taxes[1].rate # 0
    <2>1. DOMAIN lines = S
      OBVIOUS
    <2>2. ASSUME NEW i \in S PROVE Len(lines[i].taxes) = 1 /\ lines[i].taxes[1].rate # 0
      BY <2>1 DEF OneTaxEach
    <2>3. 1 .. 1 = {1}
      OBVIOUS
    <2>4. QED
      BY <2>1, <2>2, <2>3
  <1>2. \A p : p \in TaxPlaces(lines) <=> \E i \in S : p = <<i, 1>>
    BY <1>1, PlacesAre
  <1>3. Image(m, S) = TaxPlaces(lines)
    BY <1>2 DEF Image
  <1>4. Renames(m, S, v, w)
    <2>1. ASSUME NEW i \in S PROVE v[i] = w[m[i]]
      <3>1. <<i, 1>> \in TaxPlaces(lines) /\ m[i] = <<i, 1>>
        BY <1>2
      <3>2. QED
        BY <3>1 DEF LineTotals, Bases
    <2>2. \A i, j \in S : m[i] = m[j] => i = j
      OBVIOUS
    <2>3. QED
      BY <2>1, <2>2 DEF Renames
  <1>5. 0 \notin RatesIn(lines)
    <2>1. ASSUME NEW p \in TaxPlaces(lines) PROVE TaxAt(lines, p).rate # 0
      <3>1. PICK i \in S : p = <<i, 1>>
        BY <1>2
      <3>2. TaxAt(lines, p) = lines[i].taxes[1]
        BY <3>1 DEF TaxAt
      <3>3. QED
        BY <1>1, <3>2
    <2>2. QED
      BY <2>1 DEF RatesIn
  <1>6. /\ IsFiniteSet(S) /\ Weighs(v, S) /\ IsFiniteSet(TaxPlaces(lines))
        /\ Subtotal(lines) = Total(v, S)
    BY PlacesAreFinite, LinesWeigh, SubtotalIs
  <1> HIDE DEF S, v, w, m
  <1>7. Total(v, S) = Total(w, Image(m, S))
    BY <1>3, <1>4, <1>6, TotalRenamed
  <1>8. QED
    BY <1>3, <1>5, <1>6, <1>7 DEF w

LEMMA TaxedBases ==
  ASSUME NEW lines \in Seq(Line), TaxPlaces(lines) # {}, OneTaxEach(lines), NEW total
  PROVE  /\ BasesOf(TaxGroups(lines)) = Subtotal(lines)
         /\ BreakdownOfXml(TaxGroups(lines), total)
              = BreakdownOfRow(lines, Subtotal(lines), TaxTotal(lines), total)
  <1> DEFINE groups == TaxGroups(lines)
             b == [r \in DOMAIN groups |-> groups[r].base]
             v == [r \in DOMAIN groups |-> groups[r].value]
             n == [r \in {} |-> groups[r].base]
  <1>1. SumFunction(b) = Subtotal(lines) /\ SumFunction(b) = BasesOf(groups)
    BY BasesByRate, BasesOfOneTaxEach DEF BasesOf
  <1>2. SumFunction(v) = TaxTotal(lines)
    BY ValuesOfGroups
  <1>3. SumFunction(n) = 0
    <2>1. DOMAIN n = {}
      OBVIOUS
    <2> HIDE DEF n
    <2>2. SumFunction(n) = Total(n, {})
      BY <2>1, SumFunctionIsTotal
    <2>3. QED
      BY <2>2, TotalOfNone
  <1>4. DOMAIN groups \ {0} = DOMAIN groups /\ DOMAIN groups \cap {0} = {}
    BY BasesOfOneTaxEach DEF TaxGroups
  <1>5. BreakdownOfXml(groups, total)
          = Breakdown(Subtotal(lines), 0, Subtotal(lines) + 0, TaxTotal(lines), total)
    <2> HIDE DEF groups
    <2>1. BreakdownOfXml(groups, total)
            = Breakdown(SumFunction(b), SumFunction(n), SumFunction(b) + SumFunction(n),
                        SumFunction(v), total)
      BY <1>4, Zenon DEF BreakdownOfXml, SumOver
    <2>2. QED
      BY <1>1, <1>2, <1>3, <2>1
  <1>6. BreakdownOfRow(lines, Subtotal(lines), TaxTotal(lines), total)
          = Breakdown(Subtotal(lines), 0, Subtotal(lines), TaxTotal(lines), total)
    BY DEF BreakdownOfRow
  <1>7. Subtotal(lines) + 0 = Subtotal(lines)
    BY LinesWeigh
  <1>8. QED
    BY <1>1, <1>5, <1>6, <1>7

(* Where each line carries one tax that is not of 0%, or none carries any, *)
(* the bases of the XML's groups make up the subtotal and the PDF says the *)
(* same with the XML and without.                                          *)
THEOREM BasesAreWhole == Spec => []BasesMakeTheSubtotal
  <1>1. DInv /\ AmountsInv => BasesMakeTheSubtotal
    <2> SUFFICES ASSUME DInv, AmountsInv, NEW invoice \in Stored, PlainlyTaxed(invoice.lines)
                 PROVE  BasesAddUp(invoice)
      BY DEF BasesMakeTheSubtotal
    <2> DEFINE lines == invoice.lines
               groups == invoice.xml.groups
    <2>1. lines \in Seq(Line) /\ SumsUp(invoice)
      BY DEF DInv, IsInvoice, AmountsInv
    <2>2. /\ invoice.subtotal = Subtotal(lines) /\ invoice.taxTotal = TaxTotal(lines)
          /\ groups = TaxGroups(lines)
      BY <2>1 DEF SumsUp
    <2>3. TaxPlaces(lines) = {} \/ OneTaxEach(lines)
      <3>1. CASE \A i \in DOMAIN lines : lines[i].taxes = <<>>
        <4>1. \A i \in 1 .. Len(lines) : Len(lines[i].taxes) = 0
          BY <2>1, <3>1
        <4>2. QED
          BY <4>1, PlacesAre
      <3>2. CASE OneTaxEach(lines)
        BY <3>2
      <3>3. QED
        BY <3>1, <3>2 DEF PlainlyTaxed, OneTaxEach
    <2>4. /\ BasesOf(groups) = invoice.subtotal
          /\ BreakdownOfXml(groups, invoice.total)
               = BreakdownOfRow(lines, invoice.subtotal, invoice.taxTotal, invoice.total)
      BY <2>1, <2>2, <2>3, UntaxedBases, TaxedBases
    <2>5. SumOver(DOMAIN groups, LAMBDA r : groups[r].base) = invoice.subtotal
      BY <2>4 DEF BasesOf, SumOver
    <2>6. QED
      BY <2>4, <2>5 DEF BasesAddUp, PdfBreakdown, SumOver
  <1>2. QED
    BY <1>1, AmountsHold, InitDInv, NextStands, PTL DEF Spec

-----------------------------------------------------------------------------
(* What is typed, of any length: the loops over its digits are sums.       *)
LEMMA RangesAreFinite ==
  ASSUME NEW n \in Nat
  PROVE  IsFiniteSet(1 .. n)
  BY FS_Interval

LEMMA OneMoreInRange ==
  ASSUME NEW n \in Nat, NEW w, Weighs(w, 1 .. n + 1)
  PROVE  /\ Total(w, 1 .. n + 1) = Total(w, 1 .. n) + w[n + 1]
         /\ Total(w, 1 .. n) \in Int /\ w[n + 1] \in Int
  <1>1. n + 1 \in Nat /\ n + 1 \in 1 .. n + 1 /\ (1 .. n + 1) \ {n + 1} = 1 .. n
    OBVIOUS
  <1>2. IsFiniteSet(1 .. n + 1) /\ IsFiniteSet(1 .. n)
    BY <1>1, RangesAreFinite
  <1>3. Total(w, 1 .. n + 1) = w[n + 1] + Total(w, 1 .. n)
    BY <1>1, <1>2, TotalWithout
  <1>4. Weighs(w, 1 .. n) /\ w[n + 1] \in Int
    BY <1>1 DEF Weighs
  <1>5. Total(w, 1 .. n) \in Int
    BY <1>2, <1>4, TotalIsInt
  <1>6. QED
    BY <1>3, <1>4, <1>5

(* A value for each step of a loop of n steps, and its sum so far. *)
SoFar(w, n) == [i \in 0 .. n |-> Total(w, 1 .. i)]

LEMMA SoFarGoesOn ==
  ASSUME NEW n \in Nat, NEW w, Weighs(w, 1 .. n), NEW i \in 0 .. n
  PROVE  /\ i = 0 => SoFar(w, n)[i] = 0
         /\ i # 0 => /\ i - 1 \in 0 .. n
                     /\ SoFar(w, n)[i] = SoFar(w, n)[i - 1] + w[i]
                     /\ SoFar(w, n)[i - 1] \in Int
  <1>1. CASE i = 0
    <2>1. 1 .. i = {}
      BY <1>1
    <2>2. QED
      BY <1>1, <2>1, TotalOfNone DEF SoFar
  <1>2. CASE i # 0
    <2> DEFINE j == i - 1
    <2>1. j \in Nat /\ j \in 0 .. n /\ j + 1 = i
      BY <1>2
    <2>2. Weighs(w, 1 .. j + 1)
      BY <2>1 DEF Weighs
    <2>3. SoFar(w, n)[i] = Total(w, 1 .. j + 1) /\ SoFar(w, n)[j] = Total(w, 1 .. j)
      BY <2>1 DEF SoFar
    <2> HIDE DEF j
    <2>4. SoFar(w, n)[i] = SoFar(w, n)[j] + w[i] /\ SoFar(w, n)[j] \in Int
      BY <2>1, <2>2, <2>3, OneMoreInRange
    <2>5. QED
      BY <1>2, <2>1, <2>4 DEF j
  <1>3. QED
    BY <1>1, <1>2

(* What is defined from step to step is defined once. *)
LEMMA StepByStep ==
  ASSUME NEW n \in Nat, NEW g, NEW h, g[0] = h[0],
         \A i \in 1 .. n : g[i - 1] = h[i - 1] => g[i] = h[i]
  PROVE  g[n] = h[n]
  <1> DEFINE T == {i \in Nat : i <= n => g[i] = h[i]}
  <1>1. 0 \in T
    OBVIOUS
  <1>2. ASSUME NEW i \in Nat, i \in T PROVE i + 1 \in T
    <2>1. SUFFICES ASSUME i + 1 <= n PROVE g[i + 1] = h[i + 1]
      OBVIOUS
    <2>2. i + 1 \in 1 .. n /\ (i + 1) - 1 = i /\ g[i] = h[i]
      BY <1>2, <2>1
    <2>3. QED
      BY <2>2
  <1> HIDE DEF T
  <1>3. n \in T
    BY <1>1, <1>2, NumbersFromZero
  <1>4. QED
    BY <1>3 DEF T

(* The loop of SumUpTo, its terms being a function. *)
Adding(w, sum, i) == IF i = 0 THEN 0 ELSE sum[i - 1] + w[i]
AddsUp(sum, w, n) == sum = [i \in 0 .. n |-> Adding(w, sum, i)]

LEMMA SoFarAddsUp ==
  ASSUME NEW n \in Nat, NEW w, Weighs(w, 1 .. n)
  PROVE  AddsUp(SoFar(w, n), w, n)
  <1> DEFINE h == SoFar(w, n)
  <1>1. ASSUME NEW i \in 0 .. n PROVE h[i] = Adding(w, h, i)
    BY SoFarGoesOn DEF Adding
  <1>2. h = [i \in 0 .. n |-> h[i]]
    BY DEF SoFar
  <1> HIDE DEF h
  <1>3. h = [i \in 0 .. n |-> Adding(w, h, i)]
    BY <1>1, <1>2
  <1>4. QED
    BY <1>3 DEF h, AddsUp

LEMMA AddsUpToTotal ==
  ASSUME NEW n \in Nat, NEW w, Weighs(w, 1 .. n), NEW g, AddsUp(g, w, n)
  PROVE  g[n] = Total(w, 1 .. n)
  <1> DEFINE h == SoFar(w, n)
  <1>1. h = [i \in 0 .. n |-> Adding(w, h, i)]
    BY SoFarAddsUp DEF AddsUp
  <1> HIDE DEF h
  <1>2. g = [i \in 0 .. n |-> Adding(w, g, i)]
    BY DEF AddsUp
  <1>3. g[0] = h[0]
    BY <1>1, <1>2 DEF Adding
  <1>4. ASSUME NEW i \in 1 .. n, g[i - 1] = h[i - 1] PROVE g[i] = h[i]
    <2>1. i \in 0 .. n /\ i # 0
      OBVIOUS
    <2>2. g[i] = Adding(w, g, i) /\ h[i] = Adding(w, h, i)
      BY <1>1, <1>2, <2>1
    <2>3. QED
      BY <1>4, <2>1, <2>2 DEF Adding
  <1>5. g[n] = h[n]
    BY <1>3, <1>4, StepByStep
  <1>6. h[n] = Total(w, 1 .. n)
    BY DEF h, SoFar
  <1>7. QED
    BY <1>5, <1>6

(* The sum behind the verificator of a key. *)
KeyWeight(i) == 7 - ((i - 1) % 6)
KeyWeights(key) == [i \in 1 .. Len(key) |-> key[i] * KeyWeight(i)]

LEMMA WeightsRunDown ==
  ASSUME NEW i \in Nat, i # 0
  PROVE  /\ KeyWeight(i) \in 2 .. 7 /\ NextMultiple(KeyWeight(i)) = KeyWeight(i + 1)
         /\ KeyWeight(1) = 7
         /\ KeyWeight(i) - KeyWeight(i + 1) \in {1, -5}
  <1>1. (i - 1) % 6 \in 0 .. 5
    BY SMT
  <1>2. ((i + 1) - 1) % 6 = IF (i - 1) % 6 = 5 THEN 0 ELSE ((i - 1) % 6) + 1
    BY SMT
  <1>3. KeyWeight(1) = 7
    BY SMT DEF KeyWeight
  <1>4. QED
    BY <1>1, <1>2, <1>3, SMT DEF KeyWeight, NextMultiple

LEMMA DigitsWeigh ==
  ASSUME NEW key \in Seq(Digits)
  PROVE  /\ Weighs(KeyWeights(key), 1 .. Len(key)) /\ Len(key) \in Nat
         /\ IsFiniteSet(1 .. Len(key))
         /\ \A i \in 1 .. Len(key) : key[i] \in Digits /\ KeyWeight(i) \in 2 .. 7
  <1>1. Len(key) \in Nat
    BY LengthIn
  <1>2. ASSUME NEW i \in 1 .. Len(key)
        PROVE  key[i] \in Digits /\ KeyWeight(i) \in 2 .. 7 /\ KeyWeights(key)[i] \in Int
    <2>1. key[i] \in Digits
      BY ElementIn
    <2>2. i \in Nat /\ i # 0
      BY <1>1
    <2>3. KeyWeight(i) \in 2 .. 7
      BY <2>2, WeightsRunDown
    <2>4. KeyWeights(key)[i] = key[i] * KeyWeight(i)
      BY DEF KeyWeights
    <2>5. \A m, k \in Int : m * k \in Int
      OBVIOUS
    <2>6. key[i] \in Int /\ KeyWeight(i) \in Int
      BY <2>1, <2>3 DEF Digits
    <2>7. QED
      BY <2>1, <2>3, <2>4, <2>5, <2>6
  <1>3. QED
    BY <1>1, <1>2, RangesAreFinite DEF Weighs

Loop(key, loop, i) ==
  IF i = 0 THEN [addition |-> 0, multiple |-> 7]
  ELSE [addition |-> loop[i - 1].addition + key[i] * loop[i - 1].multiple,
        multiple |-> NextMultiple(loop[i - 1].multiple)]

LEMMA AdditionIs ==
  ASSUME NEW key \in Seq(Digits)
  PROVE  Addition(key) = Total(KeyWeights(key), 1 .. Len(key)) /\ Addition(key) \in Int
  <1> DEFINE n == Len(key)
             w == KeyWeights(key)
             s == SoFar(w, n)
             h == [i \in 0 .. n |-> [addition |-> s[i], multiple |-> KeyWeight(i + 1)]]
             g == CHOOSE loop : loop = [i \in 0 .. n |-> Loop(key, loop, i)]
  <1>1. n \in Nat /\ Weighs(w, 1 .. n) /\ IsFiniteSet(1 .. n)
    BY DigitsWeigh
  <1>2. h = [i \in 0 .. n |-> Loop(key, h, i)]
    <2>1. ASSUME NEW i \in 0 .. n PROVE h[i] = Loop(key, h, i)
      <3>1. CASE i = 0
        <4>1. s[i] = 0
          BY <1>1, <3>1, SoFarGoesOn
        <4>2. KeyWeight(i + 1) = 7
          BY <3>1, SMT DEF KeyWeight
        <4> HIDE DEF s
        <4>3. QED
          BY <3>1, <4>1, <4>2 DEF Loop
      <3>2. CASE i # 0
        <4>1. i - 1 \in 0 .. n /\ s[i] = s[i - 1] + w[i]
          BY <1>1, <3>2, SoFarGoesOn
        <4>2. w[i] = key[i] * KeyWeight(i)
          BY <1>1, <3>2 DEF KeyWeights
        <4>3. i \in Nat /\ (i - 1) + 1 = i
          BY <1>1
        <4>4. NextMultiple(KeyWeight(i)) = KeyWeight(i + 1)
          BY <3>2, <4>3, WeightsRunDown
        <4> HIDE DEF s, w
        <4>5. h[i - 1] = [addition |-> s[i - 1], multiple |-> KeyWeight(i)]
          BY <4>1, <4>3
        <4>6. Loop(key, h, i) = [addition |-> s[i - 1] + key[i] * KeyWeight(i),
                                 multiple |-> NextMultiple(KeyWeight(i))]
          BY <3>2, <4>5 DEF Loop
        <4>7. QED
          BY <4>1, <4>2, <4>4, <4>6
      <3>3. QED
        BY <3>1, <3>2
    <2>2. h = [i \in 0 .. n |-> h[i]]
      OBVIOUS
    <2> HIDE DEF h
    <2>3. QED
      BY <2>1, <2>2
  <1>3. h[n].addition = Total(w, 1 .. n)
    BY <1>1 DEF SoFar
  <1> HIDE DEF h
  <1>4. g = [i \in 0 .. n |-> Loop(key, g, i)]
    BY <1>2
  <1>5. Addition(key) = g[n].addition
    BY DEF Addition, Loop
  <1> HIDE DEF g
  <1>6. g[0] = h[0]
    BY <1>1, <1>2, <1>4 DEF Loop
  <1>7. ASSUME NEW i \in 1 .. n, g[i - 1] = h[i - 1] PROVE g[i] = h[i]
    <2>1. i \in 0 .. n /\ i # 0
      BY <1>1
    <2>2. g[i] = Loop(key, g, i) /\ h[i] = Loop(key, h, i)
      BY <1>2, <1>4, <2>1
    <2>3. QED
      BY <1>7, <2>1, <2>2 DEF Loop
  <1> HIDE DEF n
  <1>8. g[n] = h[n]
    BY <1>1, <1>6, <1>7, StepByStep
  <1>9. Addition(key) = Total(w, 1 .. n)
    BY <1>3, <1>5, <1>8
  <1>10. QED
    BY <1>1, <1>9, TotalIsInt DEF n

-----------------------------------------------------------------------------
(* The verificator is the SRI's. *)
LEMMA OnlyDigitsTyped ==
  ASSUME \A typed \in Seq(Digits) : Typed(typed) \subseteq Digits
  PROVE  Typing => [](text \in Seq(Digits))
  <1>1. NothingTyped => text \in Seq(Digits)
    BY DEF NothingTyped
  <1>2. text \in Seq(Digits) /\ [Types]_text => (text \in Seq(Digits))'
    <2> SUFFICES ASSUME text \in Seq(Digits), [Types]_text PROVE text' \in Seq(Digits)
      OBVIOUS
    <2>1. CASE Types
      <3>1. PICK d \in Typed(text) : text' = Append(text, d)
        BY <2>1 DEF Types
      <3>2. d \in Digits
        BY <3>1
      <3>3. QED
        BY <3>1, <3>2
    <2>2. CASE text' = text
      BY <2>2
    <2>3. QED
      BY <2>1, <2>2
  <1>3. QED
    BY <1>1, <1>2, PTL DEF Typing

(* The terms of FromTheRight, and the place each digit has from the left. *)
RightWeights(key) == [i \in 1 .. Len(key) |-> key[Len(key) + 1 - i] * (2 + ((i - 1) % 6))]
FromTheLeft(n) == [i \in 1 .. n |-> n + 1 - i]

LEMMA RightIsLeft ==
  ASSUME NEW key \in Seq(Digits), Len(key) % 6 = 0
  PROVE  /\ Weighs(RightWeights(key), 1 .. Len(key))
         /\ Total(RightWeights(key), 1 .. Len(key)) = Addition(key)
  <1> DEFINE n == Len(key)
             v == RightWeights(key)
             w == KeyWeights(key)
             m == FromTheLeft(n)
             S == 1 .. n
  <1>1. n \in Nat /\ IsFiniteSet(S) /\ Weighs(w, S)
    BY DigitsWeigh
  <1>2. ASSUME NEW i \in S PROVE m[i] \in S /\ m[i] = n + 1 - i /\ v[i] = w[m[i]]
    <2>1. m[i] \in S /\ m[i] = n + 1 - i
      BY <1>1 DEF FromTheLeft
    <2>2. KeyWeight(n + 1 - i) = 2 + ((i - 1) % 6)
      <3>1. \A k \in Nat : \A j \in 1 .. k : k % 6 = 0 => ((k + 1 - j) - 1) % 6 = 5 - ((j - 1) % 6)
        BY SMT
      <3>2. ((n + 1 - i) - 1) % 6 = 5 - ((i - 1) % 6)
        BY <1>1, <3>1
      <3>3. (i - 1) % 6 \in Int
        BY <1>1, SMT
      <3>4. QED
        BY <3>2, <3>3 DEF KeyWeight
    <2>3. v[i] = key[n + 1 - i] * (2 + ((i - 1) % 6))
      BY DEF RightWeights
    <2>4. w[n + 1 - i] = key[n + 1 - i] * KeyWeight(n + 1 - i)
      BY <2>1 DEF KeyWeights
    <2> HIDE DEF v, w, m
    <2>5. QED
      BY <2>1, <2>2, <2>3, <2>4
  <1>3. Image(m, S) = S
    <2>1. Image(m, S) \subseteq S
      BY <1>2 DEF Image
    <2>2. ASSUME NEW j \in S PROVE j \in Image(m, S)
      <3>1. n + 1 - j \in S /\ n + 1 - (n + 1 - j) = j
        BY <1>1
      <3>2. m[n + 1 - j] = j
        BY <1>2, <3>1
      <3> HIDE DEF m
      <3>3. QED
        BY <3>1, <3>2 DEF Image
    <2>3. QED
      BY <2>1, <2>2
  <1>4. Renames(m, S, v, w)
    <2>1. ASSUME NEW i \in S, NEW j \in S, m[i] = m[j] PROVE i = j
      <3>1. n + 1 - i = n + 1 - j
        BY <1>2, <2>1
      <3>2. QED
        BY <1>1, <3>1
    <2>2. QED
      BY <1>2, <2>1 DEF Renames
  <1>5. Weighs(v, S)
    BY <1>1, <1>2 DEF Weighs
  <1> HIDE DEF v, w, m, S
  <1>6. Total(v, S) = Total(w, S)
    BY <1>1, <1>3, <1>4, <1>5, TotalRenamed
  <1>7. QED
    BY <1>5, <1>6, AdditionIs DEF v, w, S

(* generate_verificator_digit, which starts at the left with 7, gives the  *)
(* digit of the SRI, which starts at the right with 2, wherever the number *)
(* of digits is a whole number of rounds.                                  *)
THEOREM VerificatorIsRight ==
  ASSUME \A typed \in Seq(Digits) : Typed(typed) \subseteq Digits
  PROVE  Typing => []VerificatorIsTheStandard
  <1>1. text \in Seq(Digits) => VerificatorIsTheStandard
    <2> SUFFICES ASSUME text \in Seq(Digits), Len(text) % 6 = 0
                 PROVE  GenerateVerificatorDigit(text) = FromTheRight
      BY DEF VerificatorIsTheStandard
    <2> DEFINE n == Len(text)
               v == RightWeights(text)
               term(i) == text[n + 1 - i] * (2 + ((i - 1) % 6))
               Sum(sum) == [i \in 0 .. n |-> IF i = 0 THEN 0 ELSE sum[i - 1] + term(i)]
               g == CHOOSE sum : sum = Sum(sum)
               a == Addition(text)
               digit == (11 - (a % 11)) % 11
    <2>1. n \in Nat /\ Weighs(v, 1 .. n) /\ Total(v, 1 .. n) = a
      BY RightIsLeft, DigitsWeigh
    <2>2. \A i \in 1 .. n : v[i] = term(i)
      BY DEF RightWeights
    <2>3. ASSUME NEW sum PROVE sum = Sum(sum) <=> AddsUp(sum, v, n)
      <3>1. \A i \in 0 .. n : i # 0 => i \in 1 .. n
        BY <2>1
      <3> HIDE DEF v, term
      <3>2. \A i \in 0 .. n : Adding(v, sum, i) = IF i = 0 THEN 0 ELSE sum[i - 1] + term(i)
        BY <2>2, <3>1 DEF Adding
      <3>3. QED
        BY <3>2 DEF AddsUp
    <2> HIDE DEF v
    <2>4. AddsUp(SoFar(v, n), v, n)
      BY <2>1, SoFarAddsUp
    <2>5. AddsUp(g, v, n)
      <3>1. SoFar(v, n) = Sum(SoFar(v, n))
        BY <2>3, <2>4
      <3> HIDE DEF Sum
      <3>2. g = Sum(g)
        BY <3>1
      <3> HIDE DEF g
      <3>3. QED
        BY <2>3, <3>2 DEF Sum
    <2>6. FromTheRight = IF (11 - (g[n] % 11)) % 11 = 10 THEN 1 ELSE (11 - (g[n] % 11)) % 11
      BY DEF FromTheRight, SumUpTo
    <2> HIDE DEF g, n
    <2>7. g[n] = a
      BY <2>1, <2>5, AddsUpToTotal
    <2>8. a \in Int
      BY AdditionIs
    <2> HIDE DEF a
    <2>9. VerificatorOf(a) = IF digit = 10 THEN 1 ELSE digit
      BY <2>8, SMT DEF VerificatorOf
    <2>10. GenerateVerificatorDigit(text) = VerificatorOf(a)
      BY DEF GenerateVerificatorDigit, a
    <2>11. QED
      BY <2>6, <2>7, <2>9, <2>10
  <1>2. QED
    BY <1>1, OnlyDigitsTyped, PTL

-----------------------------------------------------------------------------
(* Wrong and swapped digits. *)
Typo(s, i, d) == [s EXCEPT ![i] = d]
SameElsewhere(s, u, n, i) == \A j \in 1 .. n : j # i => u[j] = s[j]

LEMMA TypoIs ==
  ASSUME NEW s \in Seq(Digits), NEW i \in 1 .. Len(s), NEW d \in Digits
  PROVE  /\ Typo(s, i, d) \in Seq(Digits) /\ Len(Typo(s, i, d)) = Len(s)
         /\ Typo(s, i, d)[i] = d /\ s[i] \in Digits
         /\ SameElsewhere(s, Typo(s, i, d), Len(s), i)
         /\ Typo(s, i, d) # s => d # s[i]
  BY ElementIn DEF Typo, SameElsewhere

LEMMA TypoLength ==
  ASSUME NEW s \in Seq(Digits), NEW i, NEW d
  PROVE  Len(Typo(s, i, d)) = Len(s)
  BY DEF Typo

LEMMA SwapIs ==
  ASSUME text \in Seq(Digits), NEW i \in 1 .. Len(text), i + 1 \in 1 .. Len(text)
  PROVE  /\ text[i] \in Digits /\ text[i + 1] \in Digits
         /\ Swap(i) = Typo(Typo(text, i, text[i + 1]), i + 1, text[i])
         /\ Swap(i) # text => text[i] # text[i + 1]
  <1>1. text[i] \in Digits /\ text[i + 1] \in Digits
    BY ElementIn
  <1>2. i # i + 1 /\ i \in DOMAIN text /\ i + 1 \in DOMAIN text
    OBVIOUS
  <1>3. Swap(i) = Typo(Typo(text, i, text[i + 1]), i + 1, text[i])
    BY DEF Swap, Typo
  <1>4. text[i] = text[i + 1] => Swap(i) = text
    BY <1>2 DEF Swap
  <1>5. QED
    BY <1>1, <1>3, <1>4

(* What a wrong digit adds to the sum behind a key's verificator. *)
LEMMA TypoAdds ==
  ASSUME NEW key \in Seq(Digits), NEW i \in 1 .. Len(key), NEW d \in Digits
  PROVE  Addition(Typo(key, i, d)) = Addition(key) + (d - key[i]) * KeyWeight(i)
  <1> DEFINE other == Typo(key, i, d)
             n == Len(key)
             v == KeyWeights(key)
             w == KeyWeights(other)
  <1>1. /\ other \in Seq(Digits) /\ Len(other) = n /\ other[i] = d /\ key[i] \in Digits
        /\ SameElsewhere(key, other, n, i)
    BY TypoIs
  <1> HIDE DEF other
  <1>2. IsFiniteSet(1 .. n) /\ Weighs(v, 1 .. n) /\ Weighs(w, 1 .. n) /\ KeyWeight(i) \in 2 .. 7
    BY <1>1, DigitsWeigh
  <1>3. /\ v[i] = key[i] * KeyWeight(i) /\ w[i] = d * KeyWeight(i)
        /\ \A j \in (1 .. n) \ {i} : w[j] = v[j]
    BY <1>1 DEF KeyWeights, SameElsewhere
  <1> HIDE DEF v, w
  <1>4. Total(w, 1 .. n) = Total(v, 1 .. n) + (w[i] - v[i])
    BY <1>2, <1>3, OneChanged
  <1>5. Addition(other) = Addition(key) + (w[i] - v[i])
    BY <1>1, <1>4, AdditionIs DEF v, w
  <1>6. w[i] - v[i] = (d - key[i]) * KeyWeight(i)
    <2>1. \A x, y, k \in Int : x * k - y * k = (x - y) * k
      BY SMT
    <2>2. d \in Int /\ key[i] \in Int /\ KeyWeight(i) \in Int
      BY <1>1, <1>2 DEF Digits
    <2>3. QED
      BY <1>3, <2>1, <2>2
  <1>7. QED
    BY <1>5, <1>6 DEF other

LEMMA DigitsApart ==
  ASSUME NEW x \in Digits, NEW y \in Digits, x # y
  PROVE  x \in Int /\ y \in Int /\ x - y \in (-9) .. 9 /\ x - y # 0
  BY SMT DEF Digits

LEMMA RemaindersApart ==
  ASSUME NEW a \in Int, NEW e \in (-9) .. 9, e # 0, NEW k \in (2 .. 7) \cup {1, -5}
  PROVE  a + e * k \in Int /\ (a + e * k) % 11 # a % 11
  <1>1. \A c \in Int : c % 11 # 0 => (a + c) % 11 # a % 11
    BY SMT
  <1>2. (e * 2) % 11 # 0 /\ (e * 3) % 11 # 0 /\ (e * 4) % 11 # 0 /\ (e * 5) % 11 # 0
    BY SMT
  <1>3. (e * 6) % 11 # 0 /\ (e * 7) % 11 # 0 /\ (e * 1) % 11 # 0 /\ (e * (-5)) % 11 # 0
    BY SMT
  <1>4. (e * k) % 11 # 0
    <2>1. k \in {1, 2, 3, 4, 5, 6, 7, -5}
      OBVIOUS
    <2>2. QED
      BY <1>2, <1>3, <2>1, Zenon
  <1>5. e * k \in Int
    <2>1. \A x, y \in Int : x * y \in Int
      BY SMT
    <2>2. QED
      BY <2>1
  <1>6. QED
    BY <1>1, <1>4, <1>5

LEMMA OnlyOneAndTenAlike ==
  ASSUME NEW a \in Int, NEW b \in Int, a % 11 # b % 11, VerificatorOf(b) = VerificatorOf(a)
  PROVE  {b % 11, a % 11} = {1, 10}
  <1>1. a % 11 \in 0 .. 10 /\ b % 11 \in 0 .. 10
    BY SMT
  <1>2. \A r \in 0 .. 10 : \A q \in 0 .. 10 :
          (/\ r # q
           /\ (CASE 11 - r = 10 -> 1 [] 11 - r = 11 -> 0 [] OTHER -> 11 - r)
                = (CASE 11 - q = 10 -> 1 [] 11 - q = 11 -> 0 [] OTHER -> 11 - q))
            => (r = 1 /\ q = 10) \/ (r = 10 /\ q = 1)
    BY SMT
  <1>3. (b % 11 = 1 /\ a % 11 = 10) \/ (b % 11 = 10 /\ a % 11 = 1)
    BY <1>1, <1>2 DEF VerificatorOf
  <1>4. QED
    BY <1>3

LEMMA WrongDigitShows ==
  ASSUME text \in Seq(Digits), NEW other \in Mistyped
  PROVE  Addition(other) \in Int /\ Addition(other) % 11 # Addition(text) % 11
  <1>1. PICK i \in 1 .. Len(text), d \in Digits : other = Typo(text, i, d) /\ other # text
    BY DEF Mistyped, Places, Typo
  <1>2. text[i] \in Digits /\ d # text[i]
    BY <1>1, TypoIs
  <1>3. Addition(other) = Addition(text) + (d - text[i]) * KeyWeight(i) /\ Addition(text) \in Int
    BY <1>1, TypoAdds, AdditionIs
  <1>4. d - text[i] \in (-9) .. 9 /\ d - text[i] # 0
    BY <1>2, DigitsApart
  <1>5. KeyWeight(i) \in 2 .. 7
    BY DigitsWeigh
  <1>6. QED
    BY <1>3, <1>4, <1>5, RemaindersApart

LEMMA SwappedDigitsShow ==
  ASSUME text \in Seq(Digits), NEW other \in Swapped
  PROVE  Addition(other) \in Int /\ Addition(other) % 11 # Addition(text) % 11
  <1>1. PICK i \in (1 .. Len(text)) \ {Len(text)} : other = Swap(i) /\ other # text
    BY DEF Swapped, Places
  <1> DEFINE x == text[i]
             y == text[i + 1]
             k == KeyWeight(i)
             l == KeyWeight(i + 1)
             middle == Typo(text, i, y)
  <1>2. i \in 1 .. Len(text) /\ i + 1 \in 1 .. Len(text) /\ i \in Nat /\ i # 0 /\ i + 1 # i
    BY LengthIn
  <1>3. x \in Digits /\ y \in Digits /\ x # y /\ other = Typo(middle, i + 1, x)
    BY <1>1, <1>2, SwapIs
  <1>4. middle \in Seq(Digits) /\ Len(middle) = Len(text) /\ middle[i + 1] = y
    <2>1. y \in Digits
      BY <1>3
    <2>2. /\ Typo(text, i, y) \in Seq(Digits) /\ Len(Typo(text, i, y)) = Len(text)
          /\ SameElsewhere(text, Typo(text, i, y), Len(text), i)
      BY <1>2, <2>1, TypoIs
    <2>3. QED
      BY <1>2, <2>2 DEF SameElsewhere
  <1>5. Addition(middle) = Addition(text) + (y - x) * k /\ Addition(text) \in Int
    BY <1>2, <1>3, TypoAdds, AdditionIs
  <1>6. Addition(other) = Addition(middle) + (x - y) * l
    BY <1>2, <1>3, <1>4, TypoAdds
  <1>7. k \in Int /\ l \in Int /\ k - l \in {1, -5}
    <2>1. k \in 2 .. 7 /\ l \in 2 .. 7
      BY <1>2, DigitsWeigh
    <2>2. k - l \in {1, -5}
      BY <1>2, WeightsRunDown
    <2>3. QED
      BY <2>1, <2>2
  <1>8. x \in Int /\ y \in Int /\ y - x \in (-9) .. 9 /\ y - x # 0
    <2> HIDE DEF x, y
    <2>1. QED
      BY <1>3, DigitsApart
  <1> HIDE DEF x, y, k, l, middle
  <1>9. Addition(other) = Addition(text) + (y - x) * (k - l)
    <2>1. \A a, p, q, r, s \in Int : (a + (q - p) * r) + (p - q) * s = a + (q - p) * (r - s)
      BY SMT
    <2>2. QED
      BY <1>5, <1>6, <1>7, <1>8, <2>1
  <1>10. QED
    BY <1>5, <1>7, <1>8, <1>9, RemaindersApart

(* A wrong digit or two swapped neighbours change the verificator of every *)
(* access key, unless the remainders are 1 and 10.                         *)
THEOREM TyposOfKeysShow ==
  ASSUME \A typed \in Seq(Digits) : Typed(typed) \subseteq Digits
  PROVE  Typing => []KeyTyposShow
  <1>1. text \in Seq(Digits) => KeyTyposShow
    <2> SUFFICES ASSUME text \in Seq(Digits), NEW other \in Mistyped \cup Swapped,
                        GenerateVerificatorDigit(other) = GenerateVerificatorDigit(text)
                 PROVE  {Addition(other) % 11, Addition(text) % 11} = {1, 10}
      BY DEF KeyTyposShow
    <2>1. Addition(other) \in Int /\ Addition(other) % 11 # Addition(text) % 11
      BY WrongDigitShows, SwappedDigitsShow
    <2>2. Addition(text) \in Int
      BY AdditionIs
    <2>3. VerificatorOf(Addition(other)) = VerificatorOf(Addition(text))
      BY DEF GenerateVerificatorDigit
    <2>4. QED
      BY <2>1, <2>2, <2>3, OnlyOneAndTenAlike
  <1>2. QED
    BY <1>1, OnlyDigitsTyped, PTL

(* The nine terms of a cedula's sum and, tenth, its verifier, which counts *)
(* as it is: together a number of tens.                                    *)
CedulaWeights(value) == [i \in 1 .. 10 |-> Reduced(value[i] * Coefficient(i))]
TenDigits(value) == value \in Seq(Digits) /\ Len(value) = 10

LEMMA CedulaDigits ==
  ASSUME NEW value, TenDigits(value)
  PROVE  /\ Weighs(CedulaWeights(value), 1 .. 10) /\ Weighs(CedulaWeights(value), 1 .. 9)
         /\ IsFiniteSet(1 .. 10)
         /\ \A i \in 1 .. 10 :
              value[i] \in Digits /\ CedulaWeights(value)[i] = Reduced(value[i] * Coefficient(i))
  <1>1. \A i \in 1 .. 10 : value[i] \in Digits
    BY ElementIn DEF TenDigits
  <1>2. ASSUME NEW i \in 1 .. 10 PROVE CedulaWeights(value)[i] \in Int
    <2>1. \A x \in Digits : Reduced(x * 1) \in Int /\ Reduced(x * 2) \in Int
      BY SMT DEF Digits, Reduced
    <2>2. Coefficient(i) \in {1, 2}
      BY DEF Coefficient
    <2>3. QED
      BY <1>1, <2>1, <2>2 DEF CedulaWeights
  <1>3. IsFiniteSet(1 .. 10)
    BY RangesAreFinite
  <1>4. QED
    BY <1>1, <1>2, <1>3 DEF Weighs, CedulaWeights

LEMMA CedulaTotalIs ==
  ASSUME NEW value, TenDigits(value)
  PROVE  CedulaTotal(value) = Total(CedulaWeights(value), 1 .. 9) /\ CedulaTotal(value) \in Int
  <1> DEFINE v == CedulaWeights(value)
             term(i) == Reduced(value[i] * Coefficient(i))
             Sum(sum) == [i \in 0 .. 9 |-> IF i = 0 THEN 0 ELSE sum[i - 1] + term(i)]
             g == CHOOSE sum : sum = Sum(sum)
  <1>1. Weighs(v, 1 .. 9) /\ \A i \in 1 .. 9 : v[i] = term(i)
    BY CedulaDigits DEF CedulaWeights
  <1>2. ASSUME NEW sum PROVE sum = Sum(sum) <=> AddsUp(sum, v, 9)
    <2>1. \A i \in 0 .. 9 : i # 0 => i \in 1 .. 9
      OBVIOUS
    <2> HIDE DEF v, term
    <2>2. \A i \in 0 .. 9 : Adding(v, sum, i) = IF i = 0 THEN 0 ELSE sum[i - 1] + term(i)
      BY <1>1, <2>1 DEF Adding
    <2>3. QED
      BY <2>2 DEF AddsUp
  <1>3. CedulaTotal(value) = g[9]
    BY DEF CedulaTotal, SumUpTo
  <1> HIDE DEF v
  <1>4. AddsUp(SoFar(v, 9), v, 9)
    BY <1>1, SoFarAddsUp
  <1>5. AddsUp(g, v, 9)
    <2>1. SoFar(v, 9) = Sum(SoFar(v, 9))
      BY <1>2, <1>4
    <2> HIDE DEF Sum
    <2>2. g = Sum(g)
      BY <2>1
    <2> HIDE DEF g
    <2>3. QED
      BY <1>2, <2>2 DEF Sum
  <1> HIDE DEF g
  <1>6. g[9] = Total(v, 1 .. 9)
    BY <1>1, <1>5, AddsUpToTotal
  <1>7. Total(v, 1 .. 9) \in Int
    <2>1. IsFiniteSet(1 .. 9)
      BY RangesAreFinite
    <2>2. QED
      BY <1>1, <2>1, TotalIsInt
  <1>8. QED
    BY <1>3, <1>6, <1>7 DEF v

WholeTens(total) == total \in Int /\ total % 10 = 0

LEMMA ValidIsWhole ==
  ASSUME NEW value, TenDigits(value), IsValidCedula(value)
  PROVE  WholeTens(Total(CedulaWeights(value), 1 .. 10))
  <1> DEFINE v == CedulaWeights(value)
             total == CedulaTotal(value)
  <1>1. total \in Int /\ total = Total(v, 1 .. 9)
    BY CedulaTotalIs
  <1>2. v[10] = value[10] /\ value[10] \in Digits
    <2>1. Coefficient(10) = 1
      BY SMT DEF Coefficient
    <2>2. \A x \in Digits : Reduced(x * 1) = x
      BY SMT DEF Digits, Reduced
    <2>3. QED
      BY <2>1, <2>2, CedulaDigits
  <1>3. Weighs(v, 1 .. 9 + 1)
    BY CedulaDigits
  <1>4. Total(v, 1 .. 10) = total + value[10]
    <2> HIDE DEF v
    <2>1. 9 \in Nat /\ 9 + 1 = 10
      OBVIOUS
    <2>2. Total(v, 1 .. 9 + 1) = Total(v, 1 .. 9) + v[9 + 1]
      BY <1>3, <2>1, OneMoreInRange
    <2>3. QED
      BY <1>1, <1>2, <2>1, <2>2
  <1>5. value[10] = (10 - (total % 10)) % 10
    BY DEF IsValidCedula, CedulaVerifier
  <1> HIDE DEF total, v
  <1>6. (total + value[10]) % 10 = 0 /\ total + value[10] \in Int
    <2>1. \A t \in Int : (t + ((10 - (t % 10)) % 10)) % 10 = 0
      BY SMT
    <2>2. value[10] \in Int
      BY <1>2 DEF Digits
    <2>3. QED
      BY <1>1, <1>5, <2>1, <2>2
  <1>7. QED
    BY <1>4, <1>6 DEF v, WholeTens

LEMMA TypoOfTen ==
  ASSUME NEW value, TenDigits(value), NEW i \in 1 .. 10, NEW d \in Digits
  PROVE  /\ TenDigits(Typo(value, i, d)) /\ Typo(value, i, d)[i] = d
         /\ SameElsewhere(value, Typo(value, i, d), 10, i)
         /\ Typo(value, i, d) # value => d # value[i]
  <1>1. value \in Seq(Digits) /\ Len(value) = 10
    BY DEF TenDigits
  <1>2. i \in 1 .. Len(value)
    BY <1>1
  <1>3. Typo(value, i, d) \in Seq(Digits) /\ Len(Typo(value, i, d)) = Len(value)
    <2>1. Typo(value, i, d) \in Seq(Digits)
      BY <1>1, <1>2, TypoIs, Zenon
    <2>2. Len(Typo(value, i, d)) = Len(value)
      BY <1>1, TypoLength
    <2>3. QED
      BY <2>1, <2>2
  <1>4. Typo(value, i, d)[i] = d /\ SameElsewhere(value, Typo(value, i, d), Len(value), i)
    BY <1>1, <1>2, TypoIs
  <1>5. Typo(value, i, d) # value => d # value[i]
    BY <1>1, <1>2, TypoIs
  <1>6. QED
    BY <1>1, <1>3, <1>4, <1>5 DEF TenDigits

(* What a term gains when its digit x becomes y. *)
Moved(x, y, c) == Reduced(y * c) - Reduced(x * c)

LEMMA TypoInCedula ==
  ASSUME NEW value, TenDigits(value), NEW i \in 1 .. 10, NEW d \in Digits
  PROVE  /\ TenDigits(Typo(value, i, d))
         /\ Total(CedulaWeights(Typo(value, i, d)), 1 .. 10)
              = Total(CedulaWeights(value), 1 .. 10)
                + Moved(value[i], d, Coefficient(i))
  <1> DEFINE other == Typo(value, i, d)
             v == CedulaWeights(value)
             w == CedulaWeights(other)
  <1>1. other[i] = d /\ SameElsewhere(value, other, 10, i) /\ TenDigits(other)
    BY TypoOfTen
  <1> HIDE DEF other
  <1>2. IsFiniteSet(1 .. 10) /\ Weighs(v, 1 .. 10) /\ Weighs(w, 1 .. 10)
    BY <1>1, CedulaDigits
  <1>3. v[i] = Reduced(value[i] * Coefficient(i)) /\ w[i] = Reduced(d * Coefficient(i))
    BY <1>1 DEF CedulaWeights
  <1>4. \A j \in (1 .. 10) \ {i} : w[j] = v[j]
    BY <1>1 DEF CedulaWeights, SameElsewhere
  <1> HIDE DEF v, w
  <1>5. Total(w, 1 .. 10) = Total(v, 1 .. 10) + (w[i] - v[i])
    BY <1>2, <1>4, OneChanged
  <1>6. QED
    BY <1>1, <1>3, <1>5 DEF other, v, w, Moved

(* The digits whose terms differ as they do. *)
Alike(x, y) == x = y \/ {x, y} = {0, 9}

LEMMA TermsApart ==
  ASSUME NEW x \in Digits, NEW y \in Digits, NEW total, WholeTens(total),
         NEW c \in {1, 2}, NEW d \in {1, 2}
  PROVE  /\ WholeTens(total + Moved(x, y, c)) => x = y
         /\ c # d /\ WholeTens(total + Moved(x, y, c) + Moved(y, x, d))
              => Alike(x, y)
  <1>0. total \in Int /\ total % 10 = 0
    BY DEF WholeTens
  <1>1. Reduced(x * 1) = x /\ Reduced(y * 1) = y
    BY SMT DEF Digits, Reduced
  <1>2. \A u \in Digits : Reduced(u * 2) = IF u < 5 THEN 2 * u ELSE 2 * u - 9
    BY SMT DEF Digits, Reduced
  <1> DEFINE a == Reduced(x * 2)
             b == Reduced(y * 2)
  <1>3. a = (IF x < 5 THEN 2 * x ELSE 2 * x - 9) /\ b = IF y < 5 THEN 2 * y ELSE 2 * y - 9
    BY <1>2
  <1> HIDE DEF a, b
  <1>4. (total + (y - x)) % 10 = 0 => x = y
    BY <1>0, SMT DEF Digits
  <1>5. (total + (b - a)) % 10 = 0 => x = y
    BY <1>0, <1>3, SMT DEF Digits
  <1>6. (total + (b - a) + (x - y)) % 10 = 0 => x = y \/ (x = 0 /\ y = 9) \/ (x = 9 /\ y = 0)
    BY <1>0, <1>3, SMT DEF Digits
  <1>7. (total + (y - x) + (a - b)) % 10 = 0 => x = y \/ (x = 0 /\ y = 9) \/ (x = 9 /\ y = 0)
    BY <1>0, <1>3, SMT DEF Digits
  <1>8. ASSUME WholeTens(total + Moved(x, y, c)) PROVE x = y
    <2>1. CASE c = 1
      BY <1>1, <1>4, <1>8, <2>1 DEF Moved, WholeTens
    <2>2. CASE c = 2
      BY <1>5, <1>8, <2>2 DEF a, b, Moved, WholeTens
    <2>3. QED
      BY <2>1, <2>2
  <1>9. ASSUME c # d, WholeTens(total + Moved(x, y, c) + Moved(y, x, d))
        PROVE  Alike(x, y)
    <2>1. CASE c = 1 /\ d = 2
      BY <1>1, <1>7, <1>9, <2>1 DEF a, b, Moved, WholeTens, Alike
    <2>2. CASE c = 2 /\ d = 1
      BY <1>1, <1>6, <1>9, <2>2 DEF a, b, Moved, WholeTens, Alike
    <2>3. QED
      BY <1>9, <2>1, <2>2
  <1>10. QED
    BY <1>8, <1>9

LEMMA ValidHasTenDigits ==
  ASSUME NEW value \in Seq(Digits), IsValidCedula(value)
  PROVE  TenDigits(value)
  BY DEF IsValidCedula, TenDigits

(* No wrong digit turns a valid cedula into another; two swapped digits    *)
(* are only overlooked where one is 0 and the other 9.                     *)
THEOREM TyposOfCedulasShow ==
  ASSUME \A typed \in Seq(Digits) : Typed(typed) \subseteq Digits
  PROVE  Typing => []CedulaTyposShow
  <1>1. text \in Seq(Digits) => CedulaTyposShow
    <2> SUFFICES ASSUME text \in Seq(Digits), IsValidCedula(text)
                 PROVE  /\ \A other \in Mistyped : ~IsValidCedula(other)
                        /\ \A i \in 1 .. 9 : IsValidCedula(Swap(i)) =>
                             text[i] = text[i + 1] \/ {text[i], text[i + 1]} = {0, 9}
      BY DEF CedulaTyposShow
    <2> DEFINE total == Total(CedulaWeights(text), 1 .. 10)
    <2>1. TenDigits(text)
      BY ValidHasTenDigits
    <2>2. WholeTens(total)
      BY <2>1, ValidIsWhole
    <2>3. \A i \in 1 .. 10 : text[i] \in Digits /\ Coefficient(i) \in {1, 2}
      BY <2>1, CedulaDigits DEF Coefficient
    <2>4. ASSUME NEW other \in Mistyped, IsValidCedula(other) PROVE FALSE
      <3>1. PICK i \in 1 .. 10, d \in Digits : other = Typo(text, i, d) /\ other # text
        BY <2>1, <2>4 DEF Mistyped, Places, Typo, TenDigits
      <3>2. d # text[i]
        BY <2>1, <3>1, TypoOfTen
      <3>3. /\ TenDigits(other)
            /\ Total(CedulaWeights(other), 1 .. 10)
                 = total + Moved(text[i], d, Coefficient(i))
        BY <2>1, <3>1, TypoInCedula
      <3>4. WholeTens(Total(CedulaWeights(other), 1 .. 10))
        BY <2>4, <3>3, ValidIsWhole
      <3> HIDE DEF total
      <3>5. QED
        BY <2>2, <2>3, <3>2, <3>3, <3>4, TermsApart
    <2>5. ASSUME NEW i \in 1 .. 9, IsValidCedula(Swap(i))
          PROVE  text[i] = text[i + 1] \/ {text[i], text[i + 1]} = {0, 9}
      <3> DEFINE x == text[i]
                 y == text[i + 1]
                 c == Coefficient(i)
                 d == Coefficient(i + 1)
                 middle == Typo(text, i, y)
      <3>1. i \in 1 .. 10 /\ i + 1 \in 1 .. 10
        OBVIOUS
      <3>2. x \in Digits /\ y \in Digits /\ Swap(i) = Typo(middle, i + 1, x)
        BY <2>1, <3>1, SwapIs DEF TenDigits
      <3>3. /\ TenDigits(middle) /\ middle[i + 1] = y
            /\ Total(CedulaWeights(middle), 1 .. 10) = total + Moved(x, y, c)
        <4>1. y \in Digits /\ i + 1 # i
          BY <3>2
        <4> HIDE DEF y
        <4>2. TenDigits(middle) /\ SameElsewhere(text, middle, 10, i)
          BY <2>1, <3>1, <4>1, TypoOfTen
        <4>3. Total(CedulaWeights(middle), 1 .. 10) = total + Moved(x, y, c)
          BY <2>1, <3>1, <4>1, TypoInCedula
        <4>4. middle[i + 1] = text[i + 1]
          BY <3>1, <4>1, <4>2 DEF SameElsewhere
        <4>5. QED
          BY <4>2, <4>3, <4>4 DEF y
      <3>4. /\ TenDigits(Swap(i))
            /\ Total(CedulaWeights(Swap(i)), 1 .. 10)
                 = Total(CedulaWeights(middle), 1 .. 10) + Moved(y, x, d)
        <4> HIDE DEF middle
        <4>1. QED
          BY <3>1, <3>2, <3>3, TypoInCedula
      <3>5. WholeTens(Total(CedulaWeights(Swap(i)), 1 .. 10))
        BY <2>5, <3>4, ValidIsWhole
      <3>6. c \in {1, 2} /\ d \in {1, 2} /\ c # d
        BY <3>1, SMT DEF Coefficient
      <3> HIDE DEF total, x, y, c, d, middle
      <3>7. WholeTens(total + Moved(x, y, c) + Moved(y, x, d))
        BY <3>3, <3>4, <3>5
      <3>8. Alike(x, y)
        BY <2>2, <3>2, <3>6, <3>7, TermsApart
      <3>9. QED
        BY <3>8 DEF x, y, Alike
    <2>6. QED
      BY <2>4, <2>5
  <1>2. QED
    BY <1>1, OnlyDigitsTyped, PTL
=============================================================================
