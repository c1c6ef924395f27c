------------------------- MODULE InvoiceStockProofs -------------------------
(***************************************************************************)
(* Proofs about InvoiceStock, for all products, invoices, lines and jobs,  *)
(* in every interleaving.                                                  *)
(*                                                                         *)
(* OnPath says what an open job knows by itself, from its own reads: it    *)
(* was let through with the status it saw, the lines it has passed were on *)
(* sale and in stock in the rows it read, or it has written for each the   *)
(* columns computed from the row it read.  A commit whose reads still hold *)
(* is therefore one step of StockBook, and one whose status still holds is *)
(* a step of the transition table; the others are what unseen counts.      *)
(* WithinTrail is carried by the same bounds on what the open jobs read    *)
(* and, shifted by the units of the movement that commits with it, wrote.  *)
(* The bounds only widen as movements are added, so a read stays within    *)
(* them however stale it becomes.  WholeInvoices follows from what each    *)
(* open job has written so far, the sum over the invoices being taken      *)
(* apart one invoice at a time.                                            *)
(***************************************************************************)
EXTENDS InvoiceStock, FiniteSetTheorems, WellFoundedInduction, TLAPS

(* What is committed. *)
tables == <<status, stock, active, exits, entries, sold, restored, byHand, unseen>>

-----------------------------------------------------------------------------
LEMMA SeqElement ==
  ASSUME NEW S, NEW s \in Seq(S), NEW k \in DOMAIN s
  PROVE  s[k] \in S
  OBVIOUS
LEMMA NoRowsEmpty == DOMAIN NoRows = {}
  BY DEF NoRows

(* The items of a job are products with quantities, and the units of a     *)
(* line's product are that line's quantity, because no product is on an    *)
(* invoice twice.                                                          *)
LEMMA ItemTyped ==
  ASSUME NEW j \in Jobs, NEW k \in DOMAIN Items(j)
  PROVE  /\ Items(j)[k].product \in Products
         /\ Items(j)[k].qty \in Nat
         /\ TakesStock(j) \/ PutsStockBack(j) =>
              /\ j.inv \in Invoices
              /\ Items(j)[k].qty = Units(j.inv, Items(j)[k].product)
  <1>1. CASE j.kind = "edit"
    <2>1. Items(j) = <<[product |-> j.product, qty |-> 0]>>
      BY <1>1 DEF Items
    <2>2. k = 1
      BY <2>1
    <2>3. j.product \in Products
      BY <1>1, JobsAreTyped
    <2>4. QED
      BY <1>1, <2>1, <2>2, <2>3 DEF TakesStock, PutsStockBack
  <1>2. CASE j.kind # "edit" /\ Items(j) = <<>>
    BY <1>2
  <1>3. CASE j.kind # "edit" /\ Items(j) # <<>>
    <2>1. Items(j) = Lines[j.inv] /\ j.inv \in Invoices
      BY <1>3, JobsAreTyped DEF Items, TakesStock, PutsStockBack
    <2>2. Lines[j.inv] \in Seq([product : Products, qty : Nat \ {0}])
      BY <2>1, JobsAreTyped
    <2>3. Lines[j.inv][k] \in [product : Products, qty : Nat \ {0}]
      BY <2>1, <2>2, SeqElement
    <2>4. Units(j.inv, Lines[j.inv][k].product) = Lines[j.inv][k].qty
      <3>1. \A l \in DOMAIN Lines[j.inv] :
              Lines[j.inv][l].product = Lines[j.inv][k].product => l = k
        BY <2>1, JobsAreTyped
      <3>2. QED
        BY <2>1, <3>1 DEF Units
    <2>5. QED
      BY <2>1, <2>3, <2>4
  <1>4. QED
    BY <1>1, <1>2, <1>3

LEMMA UnitsTyped ==
  ASSUME NEW i \in Invoices, NEW p \in Products
  PROVE  Units(i, p) \in Nat
  <1>1. CASE \E k \in DOMAIN Lines[i] : Lines[i][k].product = p
    <2>1. PICK k \in DOMAIN Lines[i] :
             k = CHOOSE l \in DOMAIN Lines[i] : Lines[i][l].product = p
      BY <1>1
    <2>2. Lines[i] \in Seq([product : Products, qty : Nat \ {0}])
      BY JobsAreTyped
    <2>3. Lines[i][k] \in [product : Products, qty : Nat \ {0}]
      BY <2>1, <2>2, SeqElement, ZenonT(60)
    <2>4. QED
      BY <1>1, <2>1, <2>3 DEF Units
  <1>2. CASE ~ \E k \in DOMAIN Lines[i] : Lines[i][k].product = p
    BY <1>2 DEF Units
  <1>3. QED
    BY <1>1, <1>2

(* Closing a session drops what its job held. *)
LEMMA EndJobQuiet ==
  ASSUME TypeOK, NEW j \in Jobs, EndJob(j)
  PROVE  /\ pc' \in [Jobs -> PC] /\ line' \in [Jobs -> Nat \ {0}]
         /\ saw' \in [Jobs -> InvoiceStatuses \cup {"NONE", None}]
         /\ DOMAIN rows' = Jobs /\ DOMAIN writes' = Jobs
         /\ pc'[j] = "ended" /\ line'[j] = 1 /\ saw'[j] = None
         /\ rows'[j] = NoRows /\ writes'[j] = NoRows
         /\ \A u \in Jobs \ {j} : /\ pc'[u] = pc[u] /\ line'[u] = line[u] /\ saw'[u] = saw[u]
                                  /\ rows'[u] = rows[u] /\ writes'[u] = writes[u]
  BY DEF TypeOK, EndJob, PC


LEMMA DecisionTyped ==
  ASSUME NEW j \in Jobs, j.kind # "edit"
  PROVE  j.inv \in Invoices /\ Decision(j) \in InvoiceStatuses
  BY JobsAreTyped DEF Decision, InvoiceStatuses, TakesStock

(* A commit adds whole numbers of units to the movement rows. *)
LEMMA CommitTrail ==
  ASSUME TypeOK, NEW j \in Jobs, Commit(j), NEW p \in Products
  PROVE  /\ Moved(j, p) \in Nat \/ ~ (TakesStock(j) \/ PutsStockBack(j))
         /\ exits'[p] = IF TakesStock(j) THEN exits[p] + Moved(j, p) ELSE exits[p]
         /\ entries'[p] = IF PutsStockBack(j) THEN entries[p] + Moved(j, p) ELSE entries[p]
         /\ exits'[p] \in Nat /\ entries'[p] \in Nat
         /\ exits'[p] >= exits[p] /\ entries'[p] >= entries[p]
  <1>1. TakesStock(j) \/ PutsStockBack(j) => Moved(j, p) \in Nat
    BY UnitsTyped, JobsAreTyped DEF Moved, TakesStock, PutsStockBack
  <1>2. exits[p] \in Nat /\ entries[p] \in Nat
    BY DEF TypeOK
  <1>3. exits'[p] = IF TakesStock(j) THEN exits[p] + Moved(j, p) ELSE exits[p]
    BY DEF Commit
  <1>4. entries'[p] = IF PutsStockBack(j) THEN entries[p] + Moved(j, p) ELSE entries[p]
    BY DEF Commit
  <1>5. QED
    BY <1>1, <1>2, <1>3, <1>4

(* What a commit leaves in the stock column: the job's value where it      *)
(* wrote one.                                                              *)
LEMMA CommitStock ==
  ASSUME NEW j \in Jobs, Commit(j), NEW p \in Products
  PROVE  /\ stock'[p] = IF p \in DOMAIN writes[j] /\ writes[j][p].stock # None
                         THEN writes[j][p].stock ELSE stock[p]
         /\ active'[p] = IF p \in DOMAIN writes[j] /\ writes[j][p].active # None
                          THEN writes[j][p].active ELSE active[p]
  BY DEF Commit, After

(* The columns of an UPDATE are integers and booleans or left out. *)
(* What a job has read and written. *)
RowsTyped(r) == /\ DOMAIN r \subseteq Products
                /\ \A p \in DOMAIN r : r[p] \in [stock : Int, active : BOOLEAN]
WritesTyped(w) == /\ DOMAIN w \subseteq Products
                  /\ \A p \in DOMAIN w : /\ w[p].stock \in Int \cup {None}
                                         /\ w[p].active \in BOOLEAN \cup {None}

LEMMA NothingTyped == RowsTyped(NoRows) /\ WritesTyped(NoRows)
  BY NoRowsEmpty DEF RowsTyped, WritesTyped

LEMMA JobsTyped ==
  TypeOK <=>
  /\ status \in [Invoices -> InvoiceStatuses \cup {"NONE"}]
  /\ stock \in [Products -> Int]
  /\ active \in [Products -> BOOLEAN]
  /\ pc \in [Jobs -> PC]
  /\ line \in [Jobs -> Nat \ {0}]
  /\ saw \in [Jobs -> InvoiceStatuses \cup {"NONE", None}]
  /\ DOMAIN rows = Jobs /\ DOMAIN writes = Jobs
  /\ \A j \in Jobs : RowsTyped(rows[j]) /\ WritesTyped(writes[j])
  /\ exits \in [Products -> Nat] /\ entries \in [Products -> Nat]
  /\ sold \in [Invoices -> Nat] /\ restored \in [Invoices -> Nat]
  /\ byHand \in [Invoices -> Nat] /\ unseen \in [Invoices -> Nat]
  BY DEF TypeOK, RowsTyped, WritesTyped

(* The columns of an UPDATE are integers and booleans or left out. *)
LEMMA ColumnsTyped ==
  ASSUME NEW j \in Jobs, LinesLeft(j), NEW v \in [stock : Int, active : BOOLEAN]
  PROVE  /\ NewColumns(j, v).stock \in Int \cup {None}
         /\ NewColumns(j, v).active \in BOOLEAN \cup {None}
  <1>2. Item(j).qty \in Nat
    BY ItemTyped DEF LinesLeft, Item
  <1>3. CASE j.kind = "edit"
    BY <1>3, JobsAreTyped DEF NewColumns, Changed
  <1>4. CASE j.kind # "edit"
    BY <1>2, <1>4 DEF NewColumns
  <1>5. QED
    BY <1>3, <1>4

(* What SeesRow and WriteLine make of what a job has read and written: one *)
(* more row.                                                               *)
LEMMA SeesRowRows ==
  ASSUME TypeOK, NEW j \in Jobs, LinesLeft(j), SeesRow(j), NEW p, p = Item(j).product
  PROVE  /\ p \in Products
         /\ DOMAIN rows' = Jobs
         /\ \A u \in Jobs \ {j} : rows'[u] = rows[u]
         /\ DOMAIN rows'[j] = DOMAIN rows[j] \cup {p}
         /\ rows'[j][p] = Row(p)
         /\ \A q \in DOMAIN rows[j] : q # p => rows'[j][q] = rows[j][q]
  <1>1. rows' = [rows EXCEPT ![j] = With(rows[j], p, Row(p))]
    BY DEF SeesRow
  <1>2. /\ rows'[j] = With(rows[j], p, Row(p))
        /\ \A u \in Jobs \ {j} : rows'[u] = rows[u]
        /\ DOMAIN rows' = Jobs
    BY <1>1 DEF TypeOK
  <1>3. p \in Products
    BY ItemTyped DEF LinesLeft, Item
  <1>4. QED
    BY <1>2, <1>3 DEF With

LEMMA SeesRowType ==
  ASSUME TypeOK, NEW j \in Jobs, LinesLeft(j), SeesRow(j), NEW u \in Jobs
  PROVE  RowsTyped(rows'[u])
  <1> DEFINE p == Item(j).product
  <1>1. /\ p \in Products
        /\ \A x \in Jobs \ {j} : rows'[x] = rows[x]
        /\ DOMAIN rows'[j] = DOMAIN rows[j] \cup {p}
        /\ rows'[j][p] = Row(p)
        /\ \A q \in DOMAIN rows[j] : q # p => rows'[j][q] = rows[j][q]
    BY SeesRowRows
  <1> HIDE DEF p
  <1>2. Row(p) \in [stock : Int, active : BOOLEAN]
    BY <1>1 DEF Row, TypeOK
  <1>3. QED
    BY <1>1, <1>2 DEF RowsTyped, TypeOK

LEMMA WriteLineWrites ==
  ASSUME TypeOK, NEW j \in Jobs, WriteLine(j),
         NEW p, p = Item(j).product, NEW c, c = NewColumns(j, rows[j][p])
  PROVE  /\ p \in DOMAIN rows[j] /\ rows[j][p] \in [stock : Int, active : BOOLEAN]
         /\ DOMAIN writes' = Jobs
         /\ \A u \in Jobs \ {j} : writes'[u] = writes[u]
         /\ DOMAIN writes'[j] = DOMAIN writes[j] \cup {p}
         /\ writes'[j][p] = c
         /\ \A q \in DOMAIN writes[j] : q # p => writes'[j][q] = writes[j][q]
  <1>1. writes' = [writes EXCEPT ![j] = With(writes[j], p, c)] /\ p \in DOMAIN rows[j]
    BY DEF WriteLine, LineRead
  <1>2. /\ writes'[j] = With(writes[j], p, c)
        /\ \A u \in Jobs \ {j} : writes'[u] = writes[u]
        /\ DOMAIN writes' = Jobs
    BY <1>1 DEF TypeOK
  <1>3. rows[j][p] \in [stock : Int, active : BOOLEAN]
    BY <1>1 DEF TypeOK
  <1>4. QED
    BY <1>1, <1>2, <1>3 DEF With

LEMMA WriteLineType == ASSUME TypeOK, NEW j \in Jobs, WriteLine(j) PROVE TypeOK'
  <1> DEFINE p == Item(j).product
             c == NewColumns(j, rows[j][p])
  <1>1. /\ p \in DOMAIN rows[j] /\ rows[j][p] \in [stock : Int, active : BOOLEAN]
        /\ DOMAIN writes' = Jobs
        /\ \A u \in Jobs \ {j} : writes'[u] = writes[u]
        /\ DOMAIN writes'[j] = DOMAIN writes[j] \cup {p}
        /\ writes'[j][p] = c
        /\ \A q \in DOMAIN writes[j] : q # p => writes'[j][q] = writes[j][q]
    BY WriteLineWrites
  <1>2. p \in Products /\ c.stock \in Int \cup {None} /\ c.active \in BOOLEAN \cup {None}
    BY <1>1, ItemTyped, ColumnsTyped DEF WriteLine, LinesLeft, Item
  <1>3. /\ line' = [line EXCEPT ![j] = line[j] + 1]
        /\ UNCHANGED tables /\ UNCHANGED <<pc, saw, rows>>
    BY DEF WriteLine, trailVars, tables
  <1> HIDE DEF p, c
  <1>4. line' \in [Jobs -> Nat \ {0}]
    BY <1>3 DEF TypeOK
  <1>5. ASSUME NEW u \in Jobs PROVE WritesTyped(writes'[u])
    BY <1>1, <1>2 DEF TypeOK, WritesTyped
  <1>6. QED
    BY <1>1, <1>3, <1>4, <1>5 DEF TypeOK, WritesTyped, tables

LEMMA CommitType == ASSUME TypeOK, NEW j \in Jobs, Commit(j) PROVE TypeOK'
  <1>1. EndJob(j)
    BY DEF Commit
  <1>2. status' \in [Invoices -> InvoiceStatuses \cup {"NONE"}]
    BY DecisionTyped DEF Commit, TypeOK
  <1>3. stock' \in [Products -> Int] /\ active' \in [Products -> BOOLEAN]
    <2>1. DOMAIN stock' = Products /\ DOMAIN active' = Products
          /\ stock' = [p \in Products |-> stock'[p]]
          /\ active' = [p \in Products |-> active'[p]]
      BY DEF Commit, After
    <2>2. \A p \in Products : stock'[p] \in Int /\ active'[p] \in BOOLEAN
      BY CommitStock DEF TypeOK
    <2>3. QED
      BY <2>1, <2>2
  <1>4. exits' \in [Products -> Nat] /\ entries' \in [Products -> Nat]
    <2>1. /\ exits' = [p \in Products |-> exits'[p]]
          /\ entries' = [p \in Products |-> entries'[p]]
      BY DEF Commit, TypeOK
    <2>2. QED
      BY <2>1, CommitTrail
  <1>5. sold' \in [Invoices -> Nat] /\ restored' \in [Invoices -> Nat]
    BY DecisionTyped DEF Commit, TypeOK, TakesStock, PutsStockBack
  <1>6. byHand' \in [Invoices -> Nat] /\ unseen' \in [Invoices -> Nat]
    BY DecisionTyped DEF Commit, TypeOK, ConfirmsByHand, StatusCurrent
  <1>7. \A u \in Jobs : RowsTyped(rows'[u]) /\ WritesTyped(writes'[u])
    BY <1>1, EndJobQuiet, NothingTyped, JobsTyped
  <1>8. /\ pc' \in [Jobs -> PC] /\ line' \in [Jobs -> Nat \ {0}]
        /\ saw' \in [Jobs -> InvoiceStatuses \cup {"NONE", None}]
        /\ DOMAIN rows' = Jobs /\ DOMAIN writes' = Jobs
    BY <1>1, EndJobQuiet
  <1>9. QED
    BY <1>2, <1>3, <1>4, <1>5, <1>6, <1>7, <1>8 DEF TypeOK, RowsTyped, WritesTyped

(* Steps that close a session, read a row or move a program counter. *)
LEMMA EndJobType ==
  ASSUME TypeOK, NEW j \in Jobs, EndJob(j), UNCHANGED tables
  PROVE  TypeOK'
  <1>1. \A u \in Jobs : RowsTyped(rows'[u]) /\ WritesTyped(writes'[u])
    BY EndJobQuiet, NothingTyped, JobsTyped
  <1>2. /\ pc' \in [Jobs -> PC] /\ line' \in [Jobs -> Nat \ {0}]
        /\ saw' \in [Jobs -> InvoiceStatuses \cup {"NONE", None}]
        /\ DOMAIN rows' = Jobs /\ DOMAIN writes' = Jobs
    BY EndJobQuiet
  <1>3. QED
    BY <1>1, <1>2 DEF TypeOK, RowsTyped, WritesTyped, tables

LEMMA SeesRowKeepsType ==
  ASSUME TypeOK, NEW j \in Jobs, LinesLeft(j), SeesRow(j),
         UNCHANGED tables, UNCHANGED <<pc, saw, writes>>, line' \in [Jobs -> Nat \ {0}]
  PROVE  TypeOK'
  <1>1. \A u \in Jobs : RowsTyped(rows'[u])
    BY SeesRowType
  <1>2. DOMAIN rows' = Jobs
    BY SeesRowRows
  <1>3. QED
    BY <1>1, <1>2 DEF TypeOK, RowsTyped, tables

LEMMA StepType == TypeOK /\ [Next]_vars => TypeOK'
  <1> SUFFICES ASSUME TypeOK, [Next]_vars PROVE TypeOK'
    OBVIOUS
  <1>1. ASSUME NEW j \in Jobs, BeginLines(j) PROVE TypeOK'
    BY <1>1 DEF BeginLines, trailVars, TypeOK, PC
  <1>2. ASSUME NEW j \in Jobs, ReadInvoice(j) PROVE TypeOK'
    <2>1. j.inv \in Invoices
      BY <1>2, JobsAreTyped DEF ReadInvoice, Deciding
    <2>2. QED
      BY <1>2, <2>1 DEF ReadInvoice, trailVars, TypeOK, PC
  <1>3. ASSUME NEW j \in Jobs, CheckLine(j) PROVE TypeOK'
    <2>1. UNCHANGED tables /\ LinesLeft(j)
      BY <1>3 DEF CheckLine, trailVars, tables
    <2>2. CASE EndJob(j)
      BY <2>1, <2>2, EndJobType
    <2>3. CASE SeesRow(j) /\ line' = [line EXCEPT ![j] = @ + 1] /\ UNCHANGED <<pc, saw, writes>>
      <3>1. line' \in [Jobs -> Nat \ {0}]
        BY <2>3 DEF TypeOK
      <3>2. QED
        BY <2>1, <2>3, <3>1, SeesRowKeepsType
    <2>4. QED
      BY <1>3, <2>2, <2>3 DEF CheckLine
  <1>4. ASSUME NEW j \in Jobs, ReadLine(j) PROVE TypeOK'
    BY <1>4, SeesRowKeepsType DEF ReadLine, trailVars, tables, TypeOK
  <1>5. ASSUME NEW j \in Jobs, WriteStatus(j) PROVE TypeOK'
    BY <1>5 DEF WriteStatus, trailVars, TypeOK, PC
  <1>6. ASSUME NEW j \in Jobs, Abort(j) PROVE TypeOK'
    BY <1>6, EndJobType DEF Abort, trailVars, tables
  <1>7. CASE UNCHANGED vars
    BY <1>7 DEF vars, TypeOK
  <1>8. QED
    BY <1>1, <1>2, <1>3, <1>4, <1>5, <1>6, <1>7, WriteLineType, CommitType DEF Next

LEMMA InitType == Init => TypeOK
  BY JobsAreTyped, NoRowsEmpty DEF Init, TypeOK, PC

(* Every variable keeps its type: a stock is an integer, counts never      *)
(* fall below zero, rows are products.                                     *)
THEOREM TypeCorrect == Spec => []TypeOK
  BY InitType, StepType, PTL DEF Spec

-----------------------------------------------------------------------------
(***************************************************************************)
(* What an open job knows from its own reads.                              *)
(***************************************************************************)
(* The columns line k of job j sets, computed from the row it read.        *)
LineColumns(j, k) ==
  LET v == rows[j][Items(j)[k].product]
      q == Items(j)[k].qty
  IN  IF j.kind = "edit"
      THEN [stock |-> Changed(v.stock, j.put), active |-> Changed(v.active, j.on)]
      ELSE [stock |-> IF TakesStock(j) THEN v.stock - q ELSE v.stock + q, active |-> None]

Done(j) == {k \in DOMAIN Items(j) : k < line[j]}
AtRest(j) == line[j] = 1 /\ rows[j] = NoRows /\ writes[j] = NoRows

(* A creation has found the lines it has passed available. *)
CreateOnPath(j) ==
  /\ saw[j] = "NONE" /\ writes[j] = NoRows
  /\ \A k \in Done(j) : LET p == Items(j)[k].product
                        IN  /\ p \in DOMAIN rows[j]
                            /\ rows[j][p].active /\ rows[j][p].stock >= Items(j)[k].qty

(* Any other job has written the lines it has passed, and no other row. *)
WritesOnPath(j) ==
  /\ DOMAIN writes[j] = {Items(j)[k].product : k \in Done(j)}
  /\ \A k \in Done(j) : /\ Items(j)[k].product \in DOMAIN rows[j]
                        /\ writes[j][Items(j)[k].product] = LineColumns(j, k)

OpenOnPath(j) ==
  /\ j.kind \in Deciding => saw[j] \in InvoiceStatuses \cup {"NONE"} /\ Proceeds(j, saw[j])
  /\ j.kind = "create" => CreateOnPath(j)
  /\ j.kind # "create" => WritesOnPath(j)
  /\ pc[j] = "ready" => ~ LinesLeft(j)

OnPath(j) == IF Open(j) THEN OpenOnPath(j) ELSE AtRest(j)

PathInv == TypeOK /\ \A j \in Jobs : OnPath(j)

(* No product is on two lines of a job. *)
LEMMA ItemsDistinct ==
  ASSUME NEW j \in Jobs, NEW k \in DOMAIN Items(j), NEW l \in DOMAIN Items(j),
         Items(j)[k].product = Items(j)[l].product
  PROVE  k = l
  <1>1. CASE j.kind = "edit"
    BY <1>1 DEF Items
  <1>2. CASE j.kind # "edit" /\ Items(j) = <<>>
    BY <1>2
  <1>3. CASE j.kind # "edit" /\ Items(j) # <<>>
    <2>1. Items(j) = Lines[j.inv] /\ j.inv \in Invoices
      BY <1>3, JobsAreTyped DEF Items, TakesStock, PutsStockBack
    <2>2. QED
      BY <2>1, JobsAreTyped
  <1>4. QED
    BY <1>1, <1>2, <1>3

(* The lines of a job are numbered from 1. *)
LEMMA ItemsLength ==
  ASSUME NEW j \in Jobs
  PROVE  \E n \in Nat : DOMAIN Items(j) = 1 .. n
  <1>1. CASE j.kind = "edit"
    BY <1>1 DEF Items
  <1>2. CASE j.kind # "edit" /\ Items(j) = <<>>
    BY <1>2
  <1>3. CASE j.kind # "edit" /\ Items(j) # <<>>
    <2>1. Items(j) = Lines[j.inv] /\ j.inv \in Invoices
      BY <1>3, JobsAreTyped DEF Items, TakesStock, PutsStockBack
    <2>2. Lines[j.inv] \in Seq([product : Products, qty : Nat \ {0}])
      BY <2>1, JobsAreTyped
    <2>3. DOMAIN Lines[j.inv] = 1 .. Len(Lines[j.inv]) /\ Len(Lines[j.inv]) \in Nat
      BY <2>2
    <2>4. QED
      BY <2>1, <2>3
  <1>4. QED
    BY <1>1, <1>2, <1>3

(* Nothing is passed at the first line. *)
LEMMA NothingDone ==
  ASSUME NEW j \in Jobs, line[j] = 1
  PROVE  Done(j) = {}
  BY ItemsLength DEF Done

(* A job whose own state does not change stays on its path. *)
Still(u) == /\ pc'[u] = pc[u] /\ line'[u] = line[u] /\ saw'[u] = saw[u]
            /\ rows'[u] = rows[u] /\ writes'[u] = writes[u]

LEMMA PathFrame ==
  ASSUME NEW u \in Jobs, OnPath(u), Still(u)
  PROVE  OnPath(u)'
  <1>1. Open(u)' = Open(u) /\ AtRest(u)' = AtRest(u)
    BY DEF Open, AtRest, Still
  <1>2. Done(u)' = Done(u) /\ LinesLeft(u)' = LinesLeft(u) /\ Item(u)' = Item(u)
    BY DEF Done, LinesLeft, Item, Still
  <1>3. Proceeds(u, saw[u])' = Proceeds(u, saw[u])
    BY DEF Proceeds, Still
  <1>4. CreateOnPath(u)' = CreateOnPath(u)
    BY <1>2 DEF CreateOnPath, Still
  <1>5. \A k : LineColumns(u, k)' = LineColumns(u, k)
    BY DEF LineColumns, Still
  <1>6. WritesOnPath(u)' = WritesOnPath(u)
    BY <1>2, <1>5 DEF WritesOnPath, Still
  <1>7. OpenOnPath(u)' = OpenOnPath(u)
    BY <1>2, <1>3, <1>4, <1>6 DEF OpenOnPath, Still
  <1>8. QED
    BY <1>1, <1>7 DEF OnPath

(* A closed session is at rest. *)
LEMMA EndJobRests ==
  ASSUME TypeOK, NEW j \in Jobs, EndJob(j)
  PROVE  OnPath(j)' /\ \A u \in Jobs \ {j} : Still(u)
  BY EndJobQuiet DEF OnPath, Open, AtRest, Still

(* A job that has just been let in. *)
LEMMA StartsOnPath ==
  ASSUME NEW j \in Jobs, OnPath(j), ~ Open(j), pc'[j] = "lines",
         UNCHANGED <<line, rows, writes>>,
         j.kind \in Deciding => saw'[j] \in InvoiceStatuses \cup {"NONE"} /\ Proceeds(j, saw'[j]),
         j.kind = "create" => saw'[j] = "NONE"
  PROVE  OnPath(j)'
  <1>1. AtRest(j)
    BY DEF OnPath
  <1>2. Done(j)' = {}
    <2>1. Done(j) = {}
      BY <1>1, NothingDone DEF AtRest
    <2>2. QED
      BY <2>1 DEF Done
  <1>3. CreateOnPath(j)' \/ j.kind # "create"
    BY <1>1, <1>2 DEF AtRest, CreateOnPath
  <1>4. WritesOnPath(j)'
    BY <1>1, <1>2, NoRowsEmpty DEF AtRest, WritesOnPath
  <1>5. Proceeds(j, saw[j])' = Proceeds(j, saw'[j])
    BY DEF Proceeds
  <1>6. OpenOnPath(j)'
    BY <1>1, <1>3, <1>4, <1>5 DEF OpenOnPath, AtRest
  <1>7. QED
    BY <1>6 DEF OnPath, Open

(* The next line is passed. *)
LEMMA OneMoreDone ==
  ASSUME TypeOK, NEW j \in Jobs, LinesLeft(j), line'[j] = line[j] + 1
  PROVE  /\ line[j] \in DOMAIN Items(j)
         /\ Done(j)' = Done(j) \cup {line[j]}
         /\ \A k \in Done(j) : Items(j)[k].product # Item(j).product
  <1>1. DOMAIN Items(j) \subseteq Nat
    BY ItemsLength
  <1>2. line[j] \in DOMAIN Items(j) /\ line[j] \in Nat
    BY DEF LinesLeft, TypeOK
  <1>3. Done(j)' = Done(j) \cup {line[j]}
    BY <1>1, <1>2 DEF Done
  <1>4. \A k \in Done(j) : Items(j)[k].product # Item(j).product
    <2> SUFFICES ASSUME NEW k \in Done(j), Items(j)[k].product = Item(j).product
                 PROVE  FALSE
      OBVIOUS
    <2>1. k \in DOMAIN Items(j) /\ k < line[j] /\ k \in Nat
      BY <1>1 DEF Done
    <2>2. k = line[j]
      BY <1>2, <2>1, ItemsDistinct DEF Item
    <2>3. QED
      BY <1>2, <2>1, <2>2
  <1>5. QED
    BY <1>2, <1>3, <1>4

LEMMA BeginLinesPath ==
  ASSUME PathInv, NEW j \in Jobs, BeginLines(j) PROVE \A u \in Jobs : OnPath(u)'
  <1>1. /\ j.kind \notin Deciding /\ ~ Open(j) /\ pc'[j] = "lines"
        /\ j.kind = "create" => saw'[j] = "NONE"
    BY DEF BeginLines, Open, Deciding, PathInv, TypeOK
  <1>2. OnPath(j)'
    BY <1>1, StartsOnPath DEF BeginLines, PathInv
  <1>3. \A u \in Jobs \ {j} : Still(u)
    BY DEF BeginLines, Still, PathInv, TypeOK
  <1>4. QED
    BY <1>2, <1>3, PathFrame DEF PathInv

LEMMA ReadInvoicePath ==
  ASSUME PathInv, NEW j \in Jobs, ReadInvoice(j) PROVE \A u \in Jobs : OnPath(u)'
  <1>1. ~ Open(j) /\ j.kind # "create" /\ OnPath(j) /\ UNCHANGED <<line, rows, writes>>
    BY DEF ReadInvoice, Open, Deciding, PathInv
  <1>2. OnPath(j)'
    <2>1. CASE Proceeds(j, status[j.inv])
      <3>1. pc'[j] = "lines" /\ saw'[j] = status[j.inv]
        BY <2>1 DEF ReadInvoice, PathInv, TypeOK
      <3>3. saw'[j] \in InvoiceStatuses \cup {"NONE"}
        BY <3>1, JobsAreTyped DEF ReadInvoice, Deciding, PathInv, TypeOK
      <3>2. QED
        BY <1>1, <2>1, <3>1, <3>3, StartsOnPath
    <2>2. CASE ~ Proceeds(j, status[j.inv])
      <3>1. pc'[j] = "ended"
        BY <2>2 DEF ReadInvoice, PathInv, TypeOK
      <3>2. QED
        BY <1>1, <3>1 DEF OnPath, AtRest, Open
    <2>3. QED
      BY <2>1, <2>2
  <1>3. \A u \in Jobs \ {j} : Still(u)
    BY DEF ReadInvoice, Still, PathInv, TypeOK
  <1>4. QED
    BY <1>2, <1>3, PathFrame DEF PathInv

LEMMA EndJobPath ==
  ASSUME PathInv, NEW j \in Jobs, EndJob(j) PROVE \A u \in Jobs : OnPath(u)'
  BY EndJobRests, PathFrame DEF PathInv

LEMMA CheckLinePath ==
  ASSUME PathInv, NEW j \in Jobs, CheckLine(j) PROVE \A u \in Jobs : OnPath(u)'
  <1> DEFINE p == Item(j).product
  <1>1. TypeOK /\ j.kind = "create" /\ pc[j] = "lines" /\ LinesLeft(j) /\ OpenOnPath(j)
    BY DEF CheckLine, PathInv, OnPath, Open
  <1>2. CASE EndJob(j)
    BY <1>2, EndJobPath
  <1>3. CASE /\ active[p] /\ stock[p] >= Item(j).qty
             /\ SeesRow(j) /\ line' = [line EXCEPT ![j] = @ + 1] /\ UNCHANGED <<pc, saw, writes>>
    <2>1. line'[j] = line[j] + 1 /\ \A u \in Jobs \ {j} : line'[u] = line[u]
      BY <1>1, <1>3 DEF TypeOK
    <2>2. /\ Done(j)' = Done(j) \cup {line[j]}
          /\ \A k \in Done(j) : Items(j)[k].product # p
          /\ p = Items(j)[line[j]].product
      BY <1>1, <2>1, OneMoreDone DEF Item
    <2>3. /\ \A u \in Jobs \ {j} : rows'[u] = rows[u]
          /\ DOMAIN rows'[j] = DOMAIN rows[j] \cup {p}
          /\ rows'[j][p] = Row(p)
          /\ \A q \in DOMAIN rows[j] : q # p => rows'[j][q] = rows[j][q]
      BY <1>1, <1>3, SeesRowRows
    <2>4. Row(p).active /\ Row(p).stock >= Items(j)[line[j]].qty
      BY <1>3 DEF Row, Item
    <2> HIDE DEF p
    <2>5. CreateOnPath(j)
      BY <1>1 DEF OpenOnPath
    <2>6. CreateOnPath(j)'
      <3> SUFFICES ASSUME NEW k \in Done(j)'
                   PROVE  /\ Items(j)[k].product \in DOMAIN rows'[j]
                          /\ rows'[j][Items(j)[k].product].active
                          /\ rows'[j][Items(j)[k].product].stock >= Items(j)[k].qty
        BY <1>3, <2>5 DEF CreateOnPath
      <3>1. CASE k = line[j]
        BY <2>2, <2>3, <2>4, <3>1
      <3>2. CASE k \in Done(j)
        BY <2>2, <2>3, <2>5, <3>2 DEF CreateOnPath
      <3>3. QED
        BY <2>2, <3>1, <3>2
    <2>7. OpenOnPath(j)'
      BY <1>1, <1>3, <2>6 DEF OpenOnPath, Deciding
    <2>8. OnPath(j)'
      BY <1>1, <1>3, <2>7 DEF OnPath, Open
    <2>9. \A u \in Jobs \ {j} : Still(u)
      BY <1>3, <2>1, <2>3 DEF Still
    <2>10. QED
      BY <2>8, <2>9, PathFrame DEF PathInv
  <1>4. QED
    BY <1>2, <1>3 DEF CheckLine

LEMMA ReadLinePath ==
  ASSUME PathInv, NEW j \in Jobs, ReadLine(j) PROVE \A u \in Jobs : OnPath(u)'
  <1> DEFINE p == Item(j).product
  <1>1. /\ TypeOK /\ j.kind # "create" /\ pc[j] = "lines" /\ LinesLeft(j) /\ OpenOnPath(j)
        /\ p \notin DOMAIN rows[j] /\ SeesRow(j)
        /\ UNCHANGED <<pc, line, saw, writes>>
    BY DEF ReadLine, LineRead, PathInv, OnPath, Open
  <1>2. /\ \A u \in Jobs \ {j} : rows'[u] = rows[u]
        /\ DOMAIN rows'[j] = DOMAIN rows[j] \cup {p}
        /\ \A q \in DOMAIN rows[j] : q # p => rows'[j][q] = rows[j][q]
    BY <1>1, SeesRowRows
  <1> HIDE DEF p
  <1>3. /\ Done(j)' = Done(j) /\ LinesLeft(j)' = LinesLeft(j)
        /\ Proceeds(j, saw[j])' = Proceeds(j, saw[j])
    BY <1>1 DEF Done, LinesLeft, Proceeds
  <1>4. WritesOnPath(j)
    BY <1>1 DEF OpenOnPath
  <1>5. \A k \in Done(j) : /\ Items(j)[k].product \in DOMAIN rows'[j]
                           /\ LineColumns(j, k)' = LineColumns(j, k)
    BY <1>1, <1>2, <1>4 DEF WritesOnPath, LineColumns
  <1>6. WritesOnPath(j)'
    BY <1>1, <1>3, <1>4, <1>5 DEF WritesOnPath
  <1>7. OpenOnPath(j)'
    BY <1>1, <1>3, <1>6 DEF OpenOnPath
  <1>8. OnPath(j)'
    BY <1>1, <1>7 DEF OnPath, Open
  <1>9. \A u \in Jobs \ {j} : Still(u)
    BY <1>1, <1>2 DEF Still
  <1>10. QED
    BY <1>8, <1>9, PathFrame DEF PathInv

LEMMA WriteLinePath ==
  ASSUME PathInv, NEW j \in Jobs, WriteLine(j) PROVE \A u \in Jobs : OnPath(u)'
  <1> DEFINE p == Item(j).product
             c == NewColumns(j, rows[j][p])
  <1>1. /\ TypeOK /\ j.kind # "create" /\ pc[j] = "lines" /\ LinesLeft(j) /\ OpenOnPath(j)
        /\ line' = [line EXCEPT ![j] = line[j] + 1]
        /\ UNCHANGED <<pc, saw, rows>>
    BY DEF WriteLine, PathInv, OnPath, Open
  <1>2. /\ p \in DOMAIN rows[j]
        /\ \A u \in Jobs \ {j} : writes'[u] = writes[u]
        /\ DOMAIN writes'[j] = DOMAIN writes[j] \cup {p}
        /\ writes'[j][p] = c
        /\ \A q \in DOMAIN writes[j] : q # p => writes'[j][q] = writes[j][q]
    BY <1>1, WriteLineWrites
  <1>3. c = LineColumns(j, line[j])
    BY DEF NewColumns, LineColumns, Item
  <1>4. line'[j] = line[j] + 1 /\ \A u \in Jobs \ {j} : line'[u] = line[u]
    BY <1>1 DEF TypeOK
  <1>5. /\ Done(j)' = Done(j) \cup {line[j]}
        /\ \A k \in Done(j) : Items(j)[k].product # p
        /\ p = Items(j)[line[j]].product
    BY <1>1, <1>4, OneMoreDone DEF Item
  <1> HIDE DEF p, c
  <1>6. WritesOnPath(j)'
    <2>1. \A k : LineColumns(j, k)' = LineColumns(j, k)
      BY <1>1 DEF LineColumns
    <2>2. WritesOnPath(j)
      BY <1>1 DEF OpenOnPath
    <2>3. DOMAIN writes'[j] = {Items(j)[k].product : k \in Done(j)'}
      BY <1>2, <1>5, <2>2 DEF WritesOnPath
    <2>4. ASSUME NEW k \in Done(j)'
          PROVE  /\ Items(j)[k].product \in DOMAIN rows'[j]
                 /\ writes'[j][Items(j)[k].product] = LineColumns(j, k)
      <3>1. CASE k = line[j]
        BY <1>1, <1>2, <1>3, <1>5, <3>1
      <3>2. CASE k \in Done(j)
        BY <1>1, <1>2, <1>5, <2>2, <3>2 DEF WritesOnPath
      <3>3. QED
        BY <1>5, <3>1, <3>2
    <2>5. QED
      BY <2>1, <2>3, <2>4 DEF WritesOnPath
  <1>7. Proceeds(j, saw[j])' = Proceeds(j, saw[j])
    BY <1>1 DEF Proceeds
  <1>8. OpenOnPath(j)'
    BY <1>1, <1>6, <1>7 DEF OpenOnPath
  <1>9. OnPath(j)'
    BY <1>1, <1>8 DEF OnPath, Open
  <1>10. \A u \in Jobs \ {j} : Still(u)
    BY <1>1, <1>2, <1>4 DEF Still
  <1>11. QED
    BY <1>9, <1>10, PathFrame DEF PathInv

LEMMA WriteStatusPath ==
  ASSUME PathInv, NEW j \in Jobs, WriteStatus(j) PROVE \A u \in Jobs : OnPath(u)'
  <1>1. /\ pc[j] = "lines" /\ ~ LinesLeft(j) /\ OpenOnPath(j) /\ pc'[j] = "ready"
        /\ \A u \in Jobs \ {j} : pc'[u] = pc[u]
        /\ UNCHANGED <<line, saw, rows, writes>>
    BY DEF WriteStatus, PathInv, OnPath, Open, TypeOK
  <1>2. /\ Done(j)' = Done(j) /\ LinesLeft(j)' = LinesLeft(j)
        /\ Proceeds(j, saw[j])' = Proceeds(j, saw[j])
    BY <1>1 DEF Done, LinesLeft, Proceeds
  <1>3. CreateOnPath(j)' = CreateOnPath(j)
    BY <1>1, <1>2 DEF CreateOnPath
  <1>4. \A k : LineColumns(j, k)' = LineColumns(j, k)
    BY <1>1 DEF LineColumns
  <1>5. WritesOnPath(j)' = WritesOnPath(j)
    BY <1>1, <1>2, <1>4 DEF WritesOnPath
  <1>6. OpenOnPath(j)'
    BY <1>1, <1>2, <1>3, <1>5 DEF OpenOnPath
  <1>7. OnPath(j)'
    BY <1>1, <1>6 DEF OnPath, Open
  <1>8. \A u \in Jobs \ {j} : Still(u)
    BY <1>1 DEF Still
  <1>9. QED
    BY <1>7, <1>8, PathFrame DEF PathInv

LEMMA InitPath == Init => PathInv
  <1> SUFFICES ASSUME Init PROVE PathInv
    OBVIOUS
  <1>1. \A j \in Jobs : ~ Open(j) /\ AtRest(j)
    BY DEF Init, Open, AtRest
  <1>2. QED
    BY <1>1, InitType DEF PathInv, OnPath

LEMMA StepPath == PathInv /\ [Next]_vars => PathInv'
  <1> SUFFICES ASSUME PathInv, [Next]_vars PROVE PathInv'
    OBVIOUS
  <1>1. TypeOK'
    BY StepType DEF PathInv
  <1>2. ASSUME NEW j \in Jobs, Commit(j) \/ Abort(j) PROVE \A u \in Jobs : OnPath(u)'
    BY <1>2, EndJobPath DEF Commit, Abort
  <1>3. CASE UNCHANGED vars
    <2>1. \A u \in Jobs : OnPath(u)'
      BY <1>3, PathFrame DEF PathInv, vars, Still
    <2>2. QED
      BY <1>1, <2>1 DEF PathInv
  <1>4. QED
    BY <1>1, <1>2, <1>3, BeginLinesPath, ReadInvoicePath, CheckLinePath, ReadLinePath,
       WriteLinePath, WriteStatusPath DEF Next, PathInv

LEMMA AlwaysOnPath == Spec => []PathInv
  BY InitPath, StepPath, PTL DEF Spec

-----------------------------------------------------------------------------
(* Only a commit changes what is committed. *)
LEMMA OnlyCommits ==
  ASSUME [Next]_vars
  PROVE  (\E j \in Jobs : Commit(j)) \/ UNCHANGED tables
  BY DEF Next, vars, trailVars, tables, BeginLines, ReadInvoice, CheckLine, ReadLine, WriteLine,
         WriteStatus, Abort

(***************************************************************************)
(* The stock and the movement rows.                                        *)
(***************************************************************************)
(* Units u of product p are within the bounds of the movement rows. *)
Between(p, u) == Stock0[p] - exits[p] <= u /\ u <= Stock0[p] + entries[p]

ReadsInTrail ==
  \A j \in Jobs : \A p \in DOMAIN rows[j] : LeftToSales(p) => Between(p, rows[j][p].stock)

(* Job j may write the stock w of product p. *)
MayWrite(j, p, w) ==
  /\ TakesStock(j) \/ PutsStockBack(j)
  /\ TakesStock(j) =>
       Stock0[p] - exits[p] - Units(j.inv, p) <= w /\ w <= Stock0[p] + entries[p]
  /\ PutsStockBack(j) =>
       Stock0[p] - exits[p] <= w /\ w <= Stock0[p] + entries[p] + Units(j.inv, p)

WritesInTrail ==
  \A j \in Jobs : \A p \in DOMAIN writes[j] :
    LeftToSales(p) /\ writes[j][p].stock # None => MayWrite(j, p, writes[j][p].stock)

TrailInv == WithinTrail /\ ReadsInTrail /\ WritesInTrail

(* No job becomes idle again. *)
LEMMA StaysLeft ==
  ASSUME TypeOK, [Next]_vars, NEW p, LeftToSales(p)'
  PROVE  LeftToSales(p)
  <1>1. \A u \in Jobs : pc'[u] = "idle" => pc[u] = "idle"
    <2> SUFFICES ASSUME NEW u \in Jobs, pc[u] # "idle" PROVE pc'[u] # "idle"
      OBVIOUS
    <2>1. CASE UNCHANGED vars
      BY <2>1 DEF vars
    <2>2. ASSUME NEW j \in Jobs, EndJob(j) PROVE pc'[u] # "idle"
      BY <2>2 DEF EndJob, TypeOK
    <2>3. ASSUME NEW j \in Jobs, \/ BeginLines(j) \/ ReadInvoice(j) \/ ReadLine(j) \/ WriteLine(j)
                                 \/ WriteStatus(j) \/ (CheckLine(j) /\ ~ EndJob(j))
          PROVE  pc'[u] # "idle"
      BY <2>3 DEF BeginLines, ReadInvoice, ReadLine, WriteLine, WriteStatus, CheckLine, TypeOK
    <2>4. QED
      BY <2>1, <2>2, <2>3 DEF Next, Commit, Abort
  <1>2. QED
    BY <1>1 DEF LeftToSales

LEMMA InitTrail == Init => TrailInv
  <1> SUFFICES ASSUME Init PROVE TrailInv
    OBVIOUS
  <1>1. WithinTrail
    BY JobsAreTyped DEF Init, WithinTrail
  <1>2. ReadsInTrail /\ WritesInTrail
    BY NoRowsEmpty DEF Init, ReadsInTrail, WritesInTrail
  <1>3. QED
    BY <1>1, <1>2 DEF TrailInv

(* Steps that change no table, and leave what each job has read and        *)
(* written or drop it.                                                     *)
LEMMA QuietStep ==
  ASSUME TypeOK, TrailInv, [Next]_vars, UNCHANGED tables,
         \A u \in Jobs : /\ rows'[u] \in {rows[u], NoRows}
                         /\ writes'[u] \in {writes[u], NoRows}
  PROVE  TrailInv'
  <1>1. \A p : LeftToSales(p)' => LeftToSales(p)
    BY StaysLeft
  <1>2. WithinTrail'
    BY <1>1 DEF TrailInv, WithinTrail, tables
  <1>3. \A p, w : Between(p, w)' = Between(p, w')
    BY DEF Between, tables
  <1>4. ReadsInTrail'
    BY <1>1, <1>3, NoRowsEmpty DEF TrailInv, ReadsInTrail
  <1>5. \A u, p, w : MayWrite(u, p, w)' = MayWrite(u, p, w')
    BY DEF MayWrite, tables
  <1>6. WritesInTrail'
    BY <1>1, <1>5, NoRowsEmpty DEF TrailInv, WritesInTrail
  <1>7. QED
    BY <1>2, <1>4, <1>6 DEF TrailInv

(* A read takes the committed stock, which is within the bounds. *)
LEMMA SeesRowStep ==
  ASSUME TypeOK, TrailInv, [Next]_vars, NEW j \in Jobs, LinesLeft(j), SeesRow(j),
         UNCHANGED tables, UNCHANGED writes
  PROVE  TrailInv'
  <1> DEFINE p == Item(j).product
  <1>1. \A q : LeftToSales(q)' => LeftToSales(q)
    BY StaysLeft
  <1>2. /\ p \in Products
        /\ \A u \in Jobs \ {j} : rows'[u] = rows[u]
        /\ DOMAIN rows'[j] = DOMAIN rows[j] \cup {p}
        /\ rows'[j][p] = Row(p)
        /\ \A q \in DOMAIN rows[j] : q # p => rows'[j][q] = rows[j][q]
    BY SeesRowRows
  <1> HIDE DEF p
  <1>3. WithinTrail'
    BY <1>1 DEF TrailInv, WithinTrail, tables
  <1>4. \A u, q, w : MayWrite(u, q, w)' = MayWrite(u, q, w')
    BY DEF MayWrite, tables
  <1>5. WritesInTrail'
    BY <1>1, <1>4 DEF TrailInv, WritesInTrail
  <1>6. ReadsInTrail'
    <2> SUFFICES ASSUME NEW u \in Jobs, NEW q \in DOMAIN rows'[u], LeftToSales(q)'
                 PROVE  Between(q, rows[u][q].stock)'
      BY DEF ReadsInTrail
    <2>1. LeftToSales(q) /\ UNCHANGED <<exits, entries>>
      BY <1>1 DEF tables
    <2>2. CASE u = j /\ q = p
      <3>1. Between(q, stock[q])
        BY <1>2, <2>1, <2>2 DEF TrailInv, WithinTrail, Between
      <3>2. rows'[u][q].stock = stock[q]
        BY <1>2, <2>2 DEF Row
      <3>3. QED
        BY <2>1, <3>1, <3>2 DEF Between
    <2>3. CASE u # j \/ q # p
      <3>1. q \in DOMAIN rows[u] /\ rows'[u][q] = rows[u][q]
        BY <1>2, <2>3
      <3>2. QED
        BY <2>1, <3>1 DEF TrailInv, ReadsInTrail, Between
    <2>4. QED
      BY <2>2, <2>3
  <1>7. QED
    BY <1>3, <1>5, <1>6 DEF TrailInv

(* The stock an UPDATE sets: the stock it read less (more) the units of    *)
(* the movement recorded with it, unless an edit sets the stock.           *)
LEMMA Columns ==
  ASSUME TypeOK, TrailInv, NEW j \in Jobs, WriteLine(j),
         NEW p, p = Item(j).product, NEW c, c = NewColumns(j, rows[j][p]),
         LeftToSales(p), c.stock # None
  PROVE  MayWrite(j, p, c.stock)
  <1>1. /\ p \in DOMAIN rows[j] /\ rows[j][p] \in [stock : Int, active : BOOLEAN]
        /\ LinesLeft(j) /\ pc[j] = "lines" /\ j.kind # "create"
    BY WriteLineWrites DEF WriteLine
  <1>2. Between(p, rows[j][p].stock)
    BY <1>1 DEF TrailInv, ReadsInTrail
  <1>3. /\ p \in Products /\ Item(j).qty \in Nat
        /\ TakesStock(j) \/ PutsStockBack(j) => Item(j).qty = Units(j.inv, p)
    BY <1>1, ItemTyped DEF LinesLeft, Item
  <1>4. exits[p] \in Nat /\ entries[p] \in Nat /\ Stock0[p] \in Nat
    BY <1>3, JobsAreTyped DEF TypeOK
  <1>5. j.kind # "edit"
    <2> SUFFICES ASSUME j.kind = "edit" PROVE FALSE
      OBVIOUS
    <2>1. p = j.product
      BY <1>1 DEF Item, Items, LinesLeft
    <2>2. j.put = None
      BY <1>1, <2>1 DEF LeftToSales
    <2>3. QED
      BY <2>2 DEF NewColumns, Changed
  <1>6. TakesStock(j) \/ PutsStockBack(j)
    <2>1. Items(j) # <<>>
      BY <1>1 DEF LinesLeft
    <2>2. QED
      BY <1>1, <1>5, <2>1 DEF Items
  <1>7. CASE TakesStock(j)
    <2>1. ~ PutsStockBack(j)
      BY <1>7 DEF TakesStock, PutsStockBack
    <2>2. c.stock = rows[j][p].stock - Item(j).qty
      BY <1>5, <1>7 DEF NewColumns
    <2>3. QED
      BY <1>1, <1>2, <1>3, <1>4, <1>7, <2>1, <2>2 DEF MayWrite, Between
  <1>8. CASE ~ TakesStock(j)
    <2>1. c.stock = rows[j][p].stock + Item(j).qty
      BY <1>5, <1>8 DEF NewColumns
    <2>2. QED
      BY <1>1, <1>2, <1>3, <1>4, <1>6, <1>8, <2>1 DEF MayWrite, Between
  <1>9. QED
    BY <1>7, <1>8

LEMMA WriteLineStep ==
  ASSUME TypeOK, TrailInv, [Next]_vars, NEW j \in Jobs, WriteLine(j)
  PROVE  TrailInv'
  <1> DEFINE p == Item(j).product
             c == NewColumns(j, rows[j][p])
  <1>1. \A q : LeftToSales(q)' => LeftToSales(q)
    BY StaysLeft
  <1>2. LeftToSales(p) /\ c.stock # None => MayWrite(j, p, c.stock)
    BY Columns
  <1>3. /\ \A u \in Jobs \ {j} : writes'[u] = writes[u]
        /\ DOMAIN writes'[j] = DOMAIN writes[j] \cup {p}
        /\ writes'[j][p] = c
        /\ \A q \in DOMAIN writes[j] : q # p => writes'[j][q] = writes[j][q]
    BY WriteLineWrites
  <1>4. UNCHANGED tables /\ UNCHANGED rows
    BY DEF WriteLine, trailVars, tables
  <1> HIDE DEF p, c
  <1>5. WithinTrail'
    BY <1>1, <1>4 DEF TrailInv, WithinTrail, tables
  <1>6. ReadsInTrail'
    <2>1. \A q, w : Between(q, w)' = Between(q, w')
      BY <1>4 DEF Between, tables
    <2>2. QED
      BY <1>1, <1>4, <2>1 DEF TrailInv, ReadsInTrail
  <1>7. WritesInTrail'
    <2> SUFFICES ASSUME NEW u \in Jobs, NEW q \in DOMAIN writes'[u], LeftToSales(q)',
                        writes'[u][q].stock # None
                 PROVE  MayWrite(u, q, writes[u][q].stock)'
      BY DEF WritesInTrail
    <2>1. LeftToSales(q) /\ UNCHANGED <<exits, entries>>
      BY <1>1, <1>4 DEF tables
    <2>2. CASE u = j /\ q = p
      BY <1>2, <1>3, <2>1, <2>2 DEF MayWrite
    <2>3. CASE u # j \/ q # p
      <3>1. q \in DOMAIN writes[u] /\ writes'[u][q] = writes[u][q]
        BY <1>3, <2>3
      <3>2. MayWrite(u, q, writes[u][q].stock)
        BY <2>1, <3>1 DEF TrailInv, WritesInTrail
      <3>3. QED
        BY <2>1, <3>1, <3>2 DEF MayWrite
    <2>4. QED
      BY <2>2, <2>3
  <1>8. QED
    BY <1>5, <1>6, <1>7 DEF TrailInv

(* A commit moves the stock as far as it moves the bounds, and the bounds  *)
(* of what the other jobs hold only widen.                                 *)
LEMMA CommitStep ==
  ASSUME TypeOK, TrailInv, [Next]_vars, NEW j \in Jobs, Commit(j) PROVE TrailInv'
  <1>0. \A p : LeftToSales(p)' => LeftToSales(p)
    BY StaysLeft
  <1>1. \A u \in Jobs : rows'[u] \in {rows[u], NoRows} /\ writes'[u] \in {writes[u], NoRows}
    BY EndJobQuiet DEF Commit
  <1>2. ASSUME NEW p \in Products
        PROVE  /\ exits[p] \in Nat /\ entries[p] \in Nat /\ Stock0[p] \in Nat
               /\ exits'[p] \in Nat /\ entries'[p] \in Nat
               /\ exits'[p] >= exits[p] /\ entries'[p] >= entries[p]
    BY CommitTrail, JobsAreTyped DEF TypeOK
  <1>3. WithinTrail'
    <2> SUFFICES ASSUME NEW p \in Products, LeftToSales(p)
                 PROVE  Stock0[p] - exits'[p] <= stock'[p] /\ stock'[p] <= Stock0[p] + entries'[p]
      BY <1>0 DEF WithinTrail
    <2>1. CASE p \in DOMAIN writes[j] /\ writes[j][p].stock # None
      <3>1. stock'[p] = writes[j][p].stock /\ stock'[p] \in Int
        BY <2>1, CommitStock DEF TypeOK
      <3>2. Moved(j, p) = Units(j.inv, p)
        BY <2>1 DEF Moved
      <3>3. MayWrite(j, p, stock'[p])
        BY <2>1, <3>1 DEF TrailInv, WritesInTrail
      <3>4. TakesStock(j) => ~ PutsStockBack(j)
        BY DEF TakesStock, PutsStockBack
      <3>5. QED
        BY <1>2, <3>1, <3>2, <3>3, <3>4, CommitTrail DEF MayWrite
    <2>2. CASE ~ (p \in DOMAIN writes[j] /\ writes[j][p].stock # None)
      <3>1. stock'[p] = stock[p] /\ stock[p] \in Int
        BY <2>2, CommitStock DEF TypeOK
      <3>2. QED
        BY <1>2, <3>1 DEF TrailInv, WithinTrail
    <2>3. QED
      BY <2>1, <2>2
  <1>4. ReadsInTrail'
    <2> SUFFICES ASSUME NEW u \in Jobs, NEW p \in DOMAIN rows'[u], LeftToSales(p)
                 PROVE  Between(p, rows[u][p].stock)'
      BY <1>0 DEF ReadsInTrail
    <2>1. rows'[u] = rows[u] /\ p \in Products /\ rows[u][p].stock \in Int
      BY <1>1, NoRowsEmpty DEF TypeOK
    <2>2. Between(p, rows[u][p].stock)
      BY <2>1 DEF TrailInv, ReadsInTrail
    <2>3. QED
      BY <1>2, <2>1, <2>2 DEF Between
  <1>5. WritesInTrail'
    <2> SUFFICES ASSUME NEW u \in Jobs, NEW p \in DOMAIN writes'[u], LeftToSales(p),
                        writes'[u][p].stock # None
                 PROVE  MayWrite(u, p, writes[u][p].stock)'
      BY <1>0 DEF WritesInTrail
    <2>1. writes'[u] = writes[u]
      BY <1>1, NoRowsEmpty
    <2>2. p \in Products /\ writes[u][p].stock \in Int
      BY <2>1 DEF TypeOK
    <2>3. TakesStock(u) \/ PutsStockBack(u) => Units(u.inv, p) \in Nat
      BY <2>2, UnitsTyped, JobsAreTyped DEF TakesStock, PutsStockBack
    <2>4. MayWrite(u, p, writes[u][p].stock)
      BY <2>1 DEF TrailInv, WritesInTrail
    <2>5. QED
      BY <1>2, <2>1, <2>2, <2>3, <2>4 DEF MayWrite
  <1>6. QED
    BY <1>3, <1>4, <1>5 DEF TrailInv

LEMMA StepTrail == TypeOK /\ TrailInv /\ [Next]_vars => TrailInv'
  <1> SUFFICES ASSUME TypeOK, TrailInv, [Next]_vars PROVE TrailInv'
    OBVIOUS
  <1>1. ASSUME NEW j \in Jobs, EndJob(j), UNCHANGED tables PROVE TrailInv'
    BY <1>1, EndJobQuiet, QuietStep
  <1>2. ASSUME NEW j \in Jobs, BeginLines(j) \/ ReadInvoice(j) \/ WriteStatus(j) PROVE TrailInv'
    BY <1>2, QuietStep DEF BeginLines, ReadInvoice, WriteStatus, trailVars, tables
  <1>3. ASSUME NEW j \in Jobs, CheckLine(j) \/ ReadLine(j) PROVE TrailInv'
    BY <1>1, <1>3, SeesRowStep DEF CheckLine, ReadLine, trailVars, tables
  <1>4. ASSUME NEW j \in Jobs, Abort(j) PROVE TrailInv'
    BY <1>1, <1>4 DEF Abort, trailVars, tables
  <1>5. CASE UNCHANGED vars
    BY <1>5, QuietStep DEF vars, tables
  <1>6. QED
    BY <1>2, <1>3, <1>4, <1>5, WriteLineStep, CommitStep DEF Next

(* Whatever the jobs and however they interleave, the stock of a product   *)
(* stays within what the committed movement rows allow until a request to  *)
(* set it begins.                                                          *)
THEOREM StockWithinTrail == Spec => []WithinTrail
  <1>1. TrailInv => WithinTrail
    BY DEF TrailInv
  <1>2. QED
    BY <1>1, InitTrail, StepTrail, TypeCorrect, PTL DEF Spec

-----------------------------------------------------------------------------
(***************************************************************************)
(* Sales, returns and statuses.                                            *)
(***************************************************************************)
(* What a commit does to the counts of its invoice. *)
LEMMA CommitCounts ==
  ASSUME TypeOK, NEW j \in Jobs, Commit(j), NEW i \in Invoices
  PROVE  LET mine == j.kind # "edit" /\ i = j.inv
         IN  /\ status'[i] = IF mine THEN Decision(j) ELSE status[i]
             /\ sold'[i] = IF mine /\ TakesStock(j) THEN sold[i] + 1 ELSE sold[i]
             /\ restored'[i] = IF mine /\ PutsStockBack(j) THEN restored[i] + 1 ELSE restored[i]
             /\ byHand'[i] = IF mine /\ ConfirmsByHand(j) THEN byHand[i] + 1 ELSE byHand[i]
             /\ unseen'[i] = IF mine /\ ~ StatusCurrent(j) THEN unseen[i] + 1 ELSE unseen[i]
  <1>1. CASE j.kind = "edit"
    BY <1>1 DEF Commit, TakesStock, PutsStockBack, ConfirmsByHand, StatusCurrent
  <1>2. CASE j.kind # "edit"
    <2>1. j.inv \in Invoices
      BY <1>2, JobsAreTyped
    <2>2. /\ status' = [status EXCEPT ![j.inv] = Decision(j)]
          /\ sold' = IF TakesStock(j) THEN [sold EXCEPT ![j.inv] = sold[j.inv] + 1] ELSE sold
          /\ restored' = IF PutsStockBack(j) THEN [restored EXCEPT ![j.inv] = restored[j.inv] + 1]
                         ELSE restored
          /\ byHand' = IF ConfirmsByHand(j) THEN [byHand EXCEPT ![j.inv] = byHand[j.inv] + 1]
                       ELSE byHand
          /\ unseen' = IF StatusCurrent(j) THEN unseen
                       ELSE [unseen EXCEPT ![j.inv] = unseen[j.inv] + 1]
      BY <1>2 DEF Commit
    <2>3. QED
      BY <1>2, <2>1, <2>2 DEF TypeOK
  <1>3. QED
    BY <1>1, <1>2

(* What a job decides, from the status it saw. *)
LEMMA Decisions ==
  ASSUME PathInv, NEW j \in Jobs, Open(j), j.kind # "edit"
  PROVE  /\ j.inv \in Invoices
         /\ \/ /\ j.kind = "create" /\ ~ TakesStock(j) /\ ~ PutsStockBack(j) /\ ~ ConfirmsByHand(j)
               /\ saw[j] = "NONE" /\ Decision(j) = "PENDING_VALIDATION"
            \/ /\ j.kind # "create" /\ TakesStock(j) /\ ~ PutsStockBack(j) /\ ~ ConfirmsByHand(j)
               /\ saw[j] = "PENDING_VALIDATION" /\ Decision(j) = "CONFIRMED"
            \/ /\ j.kind = "rejected" /\ ~ TakesStock(j) /\ ~ PutsStockBack(j) /\ ~ ConfirmsByHand(j)
               /\ saw[j] = "PENDING_VALIDATION" /\ Decision(j) = "REJECTED"
            \/ /\ j.kind = "admin" /\ ~ TakesStock(j) /\ Decision(j) = j.target
               /\ saw[j] \in InvoiceStatuses /\ j.target \in InvoiceStatuses
               /\ CanTransition(saw[j], j.target)
  <1>1. j.kind \in Kinds /\ j.inv \in Invoices /\ OpenOnPath(j)
    BY JobsAreTyped DEF PathInv, OnPath
  <1>2. CASE j.kind = "create"
    BY <1>1, <1>2 DEF OpenOnPath, CreateOnPath, TakesStock, PutsStockBack, ConfirmsByHand, Decision
  <1>3. CASE j.kind = "admin"
    <2>1. /\ j.target \in InvoiceStatuses /\ saw[j] # "NONE" /\ CanTransition(saw[j], j.target)
      BY <1>1, <1>3, JobsAreTyped DEF OpenOnPath, Proceeds, Deciding
    <2>2. saw[j] \in InvoiceStatuses
      BY <1>1, <1>3, <2>1 DEF OpenOnPath, Deciding
    <2>3. QED
      BY <1>1, <1>3, <2>1, <2>2 DEF TakesStock, Decision
  <1>4. CASE j.kind \in {"timer", "validated", "rejected"}
    BY <1>1, <1>4 DEF OpenOnPath, Deciding, Proceeds, TakesStock, PutsStockBack, ConfirmsByHand,
                      Decision
  <1>5. QED
    BY <1>1, <1>2, <1>3, <1>4 DEF Kinds, Deciding

(* A cancellation goes ahead only after it has seen CONFIRMED, and what    *)
(* was sold or confirmed by hand once is so for good.                      *)
SoldInv ==
  /\ SoldIfConfirmed
  /\ \A j \in Jobs : Open(j) /\ PutsStockBack(j) => sold[j.inv] + byHand[j.inv] > 0

LEMMA SoldStep == PathInv /\ SoldInv /\ [Next]_vars => SoldInv'
  <1> SUFFICES ASSUME PathInv, SoldInv, [Next]_vars PROVE SoldInv'
    OBVIOUS
  <1>1. ASSUME UNCHANGED tables,
               \A u \in Jobs : Open(u)' /\ PutsStockBack(u) =>
                                 Open(u) \/ sold[u.inv] + byHand[u.inv] > 0
        PROVE  SoldInv'
    BY <1>1 DEF SoldInv, SoldIfConfirmed, tables
  <1>2. ASSUME NEW j \in Jobs, BeginLines(j) PROVE SoldInv'
    BY <1>1, <1>2 DEF BeginLines, trailVars, tables, Open, PutsStockBack, PathInv, TypeOK
  <1>3. ASSUME NEW j \in Jobs, ReadInvoice(j) PROVE SoldInv'
    <2>0. UNCHANGED tables /\ \A u \in Jobs \ {j} : Open(u)' = Open(u)
      BY <1>3 DEF ReadInvoice, trailVars, tables, Open, PathInv, TypeOK
    <2>1. CASE PutsStockBack(j) /\ Proceeds(j, status[j.inv])
      <3>1. j.inv \in Invoices /\ status[j.inv] \in InvoiceStatuses
        BY <2>1, JobsAreTyped DEF PutsStockBack, Proceeds, PathInv, TypeOK
      <3>2. status[j.inv] = "CONFIRMED"
        BY <2>1, <3>1 DEF PutsStockBack, Proceeds, CanTransition, Allowed, InvoiceStatuses
      <3>3. sold[j.inv] + byHand[j.inv] > 0
        BY <3>1, <3>2 DEF SoldInv, SoldIfConfirmed
      <3>4. QED
        BY <1>1, <2>0, <3>3
    <2>2. CASE ~ PutsStockBack(j)
      BY <1>1, <2>0, <2>2
    <2>3. CASE ~ Proceeds(j, status[j.inv])
      <3>1. ~ Open(j)'
        BY <1>3, <2>3 DEF ReadInvoice, Open, PathInv, TypeOK
      <3>2. QED
        BY <1>1, <2>0, <3>1
    <2>4. QED
      BY <2>1, <2>2, <2>3
  <1>4. ASSUME NEW j \in Jobs, EndJob(j), UNCHANGED tables PROVE SoldInv'
    BY <1>1, <1>4 DEF EndJob, Open, PathInv, TypeOK
  <1>5. ASSUME NEW j \in Jobs, CheckLine(j) \/ ReadLine(j) \/ WriteLine(j) PROVE SoldInv'
    BY <1>1, <1>4, <1>5 DEF CheckLine, ReadLine, WriteLine, trailVars, tables, Open
  <1>6. ASSUME NEW j \in Jobs, WriteStatus(j) PROVE SoldInv'
    BY <1>1, <1>6 DEF WriteStatus, trailVars, tables, Open, PathInv, TypeOK
  <1>7. ASSUME NEW j \in Jobs, Abort(j) PROVE SoldInv'
    BY <1>4, <1>7 DEF Abort, trailVars, tables
  <1>8. ASSUME NEW j \in Jobs, Commit(j) PROVE SoldInv'
    <2>1. \A u \in Jobs : Open(u)' => Open(u)
      BY <1>8 DEF Commit, EndJob, Open, PathInv, TypeOK
    <2>2. ASSUME NEW i \in Invoices
          PROVE  /\ sold[i] \in Nat /\ byHand[i] \in Nat /\ restored[i] \in Nat
                 /\ sold'[i] \in Nat /\ byHand'[i] \in Nat /\ restored'[i] \in Nat
                 /\ sold'[i] >= sold[i] /\ byHand'[i] >= byHand[i] /\ restored'[i] >= restored[i]
      <3>1. sold[i] \in Nat /\ byHand[i] \in Nat /\ restored[i] \in Nat
        BY DEF PathInv, TypeOK
      <3>2. QED
        BY <1>8, <3>1, CommitCounts DEF PathInv
    <2>3. \A u \in Jobs : Open(u)' /\ PutsStockBack(u) => sold'[u.inv] + byHand'[u.inv] > 0
      <3> SUFFICES ASSUME NEW u \in Jobs, Open(u), PutsStockBack(u)
                   PROVE  sold'[u.inv] + byHand'[u.inv] > 0
        BY <2>1
      <3>1. u.inv \in Invoices
        BY JobsAreTyped DEF PutsStockBack
      <3>2. sold[u.inv] + byHand[u.inv] > 0
        BY DEF SoldInv
      <3>3. QED
        BY <2>2, <3>1, <3>2
    <2>4. SoldIfConfirmed'
      <3> SUFFICES ASSUME NEW i \in Invoices
                   PROVE  /\ status'[i] \in {"CONFIRMED", "CANCELLED"} => sold'[i] + byHand'[i] > 0
                          /\ status'[i] = "CANCELLED" => restored'[i] > 0
        BY DEF SoldIfConfirmed
      <3>0. /\ status[i] \in {"CONFIRMED", "CANCELLED"} => sold[i] + byHand[i] > 0
            /\ status[i] = "CANCELLED" => restored[i] > 0
        BY DEF SoldInv, SoldIfConfirmed
      <3>1. CASE ~ (j.kind # "edit" /\ i = j.inv)
        <4>1. status'[i] = status[i]
          BY <1>8, <3>1, CommitCounts DEF PathInv
        <4>2. QED
          BY <2>2, <3>0, <4>1
      <3>2. CASE j.kind # "edit" /\ i = j.inv
        <4>1. /\ status'[i] = Decision(j)
              /\ TakesStock(j) => sold'[i] = sold[i] + 1
              /\ ConfirmsByHand(j) => byHand'[i] = byHand[i] + 1
              /\ PutsStockBack(j) => restored'[i] = restored[i] + 1
          BY <1>8, <3>2, CommitCounts DEF PathInv
        <4>2. CASE PutsStockBack(j)
          <5>1. sold[i] + byHand[i] > 0
            BY <1>8, <3>2, <4>2 DEF Commit, Open, SoldInv
          <5>2. QED
            BY <2>2, <4>1, <4>2, <5>1
        <4>3. CASE ~ PutsStockBack(j)
          <5>1. /\ Decision(j) = "CONFIRMED" => TakesStock(j) \/ ConfirmsByHand(j)
                /\ Decision(j) # "CANCELLED"
            BY <3>2, <4>3 DEF Decision, PutsStockBack, ConfirmsByHand
          <5>2. QED
            BY <2>2, <4>1, <5>1
        <4>4. QED
          BY <4>2, <4>3
      <3>3. QED
        BY <3>1, <3>2
    <2>5. QED
      BY <2>3, <2>4 DEF SoldInv
  <1>9. CASE UNCHANGED vars
    BY <1>1, <1>9 DEF vars, tables, Open
  <1>10. QED
    BY <1>2, <1>3, <1>5, <1>6, <1>7, <1>8, <1>9 DEF Next

(* In every interleaving, an invoice that reads CONFIRMED or CANCELLED was *)
(* sold or confirmed by hand, and a cancelled one was put back.            *)
THEOREM ConfirmedMeansSold == Spec => []SoldIfConfirmed
  <1>1. Init => SoldInv
    BY DEF Init, SoldInv, SoldIfConfirmed, Open
  <1>2. SoldInv => SoldIfConfirmed
    BY DEF SoldInv
  <1>3. QED
    BY <1>1, <1>2, SoldStep, AlwaysOnPath, PTL DEF Spec

-----------------------------------------------------------------------------
(* A decision over the status that was seen is a step of the table. *)
LEMMA SeenDecision ==
  ASSUME PathInv, NEW j \in Jobs, Open(j), j.kind # "edit", StatusCurrent(j)
  PROVE  /\ status[j.inv] = saw[j]
         /\ status[j.inv] # "NONE" => CanTransition(status[j.inv], Decision(j))
  <1>1. status[j.inv] = saw[j]
    BY DEF StatusCurrent
  <1>2. CanTransition("PENDING_VALIDATION", "CONFIRMED") /\ CanTransition("PENDING_VALIDATION", "REJECTED")
    BY DEF CanTransition, Allowed, InvoiceStatuses
  <1>3. QED
    BY <1>1, <1>2, Decisions

(* Whatever status the endpoint is asked for, an invoice leaves the        *)
(* transition table only by a decision over a status that was no longer    *)
(* the one seen.                                                           *)
THEOREM TableLeftUnseen == Spec => OnlyUnseenStepsLeaveTheTable
  <1> DEFINE Step == \A i \in Invoices :
               status[i] # "NONE" /\ status'[i] # status[i] =>
                 CanTransition(status[i], status'[i]) \/ unseen'[i] > unseen[i]
  <1>1. PathInv /\ [Next]_vars => [Step]_vars
    <2> SUFFICES ASSUME PathInv, [Next]_vars, NEW i \in Invoices,
                        status[i] # "NONE", status'[i] # status[i]
                 PROVE  CanTransition(status[i], status'[i]) \/ unseen'[i] > unseen[i]
      OBVIOUS
    <2>1. PICK j \in Jobs : Commit(j)
      BY OnlyCommits DEF tables
    <2>2. /\ j.kind # "edit" /\ i = j.inv /\ status'[i] = Decision(j) /\ Open(j)
          /\ ~ StatusCurrent(j) => unseen'[i] = unseen[i] + 1
      BY <2>1, CommitCounts DEF PathInv, Commit, Open
    <2>3. unseen[i] \in Nat
      BY DEF PathInv, TypeOK
    <2>4. QED
      BY <2>2, <2>3, SeenDecision
  <1>2. QED
    BY <1>1, AlwaysOnPath, PTL DEF Spec, OnlyUnseenStepsLeaveTheTable

(* How often an invoice was sold, restored and confirmed by hand, beside   *)
(* its status and the decisions that did not see it.                       *)
Tally(i) ==
  /\ status[i] # "DRAFT"
  /\ unseen[i] = 0 =>
       /\ sold[i] + byHand[i] = IF status[i] \in {"CONFIRMED", "CANCELLED"} THEN 1 ELSE 0
       /\ restored[i] = IF status[i] = "CANCELLED" THEN 1 ELSE 0
  /\ sold[i] + (IF status[i] \in {"NONE", "PENDING_VALIDATION"} THEN 1 ELSE 0) <= 1 + unseen[i]
  /\ restored[i] + (IF status[i] = "CONFIRMED" THEN 1 ELSE 0) <= sold[i] + byHand[i] + unseen[i]

(* The steps of the table. *)
LEMMA TableSteps ==
  ASSUME NEW s \in InvoiceStatuses, NEW t \in InvoiceStatuses, CanTransition(s, t)
  PROVE  \/ s = "DRAFT" /\ t = "PENDING_VALIDATION"
         \/ s = "PENDING_VALIDATION" /\ t \in {"VALIDATED", "REJECTED", "CONFIRMED"}
         \/ s = "VALIDATED" /\ t = "CONFIRMED"
         \/ s = "CONFIRMED" /\ t = "CANCELLED"
  BY DEF CanTransition, Allowed, InvoiceStatuses

TallyInv == \A i \in Invoices : Tally(i)

LEMMA TallyStep == PathInv /\ TallyInv /\ [Next]_vars => TallyInv'
  <1> SUFFICES ASSUME PathInv, TallyInv, [Next]_vars, NEW i \in Invoices
               PROVE  Tally(i)'
    BY DEF TallyInv
  <1>0. Tally(i)
    BY DEF TallyInv
  <1>1. CASE UNCHANGED tables
    BY <1>0, <1>1 DEF Tally, tables
  <1>2. ASSUME NEW j \in Jobs, Commit(j), j.kind = "edit" \/ i # j.inv PROVE Tally(i)'
    <2>1. /\ status'[i] = status[i] /\ sold'[i] = sold[i] /\ restored'[i] = restored[i]
          /\ byHand'[i] = byHand[i] /\ unseen'[i] = unseen[i]
      BY <1>2, CommitCounts DEF PathInv
    <2>2. QED
      BY <1>0, <2>1 DEF Tally
  <1>3. ASSUME NEW j \in Jobs, Commit(j), j.kind # "edit", i = j.inv PROVE Tally(i)'
    <2>1. /\ sold[i] \in Nat /\ restored[i] \in Nat /\ byHand[i] \in Nat /\ unseen[i] \in Nat
      BY DEF PathInv, TypeOK
    <2>2. /\ status'[i] = Decision(j)
          /\ sold'[i] = IF TakesStock(j) THEN sold[i] + 1 ELSE sold[i]
          /\ restored'[i] = IF PutsStockBack(j) THEN restored[i] + 1 ELSE restored[i]
          /\ byHand'[i] = IF ConfirmsByHand(j) THEN byHand[i] + 1 ELSE byHand[i]
          /\ unseen'[i] = IF StatusCurrent(j) THEN unseen[i] ELSE unseen[i] + 1
      BY <1>3, CommitCounts DEF PathInv
    <2>3. StatusCurrent(j) => status[i] = saw[j]
      BY <1>3 DEF StatusCurrent
    <2>4. Open(j)
      BY <1>3 DEF Commit, Open
    <2>5. CASE j.kind # "admin"
      <3>1. \/ /\ ~ TakesStock(j) /\ ~ PutsStockBack(j) /\ ~ ConfirmsByHand(j)
               /\ saw[j] = "NONE" /\ Decision(j) = "PENDING_VALIDATION"
            \/ /\ TakesStock(j) /\ ~ PutsStockBack(j) /\ ~ ConfirmsByHand(j)
               /\ saw[j] = "PENDING_VALIDATION" /\ Decision(j) = "CONFIRMED"
            \/ /\ ~ TakesStock(j) /\ ~ PutsStockBack(j) /\ ~ ConfirmsByHand(j)
               /\ saw[j] = "PENDING_VALIDATION" /\ Decision(j) = "REJECTED"
        BY <1>3, <2>4, <2>5, Decisions
      <3>2. CASE StatusCurrent(j)
        <4>1. status[i] = saw[j] /\ unseen'[i] = unseen[i]
          BY <2>2, <2>3, <3>2
        <4>2. CASE saw[j] = "NONE"
          BY <1>0, <2>1, <2>2, <3>1, <4>1, <4>2 DEF Tally
        <4>3. CASE saw[j] = "PENDING_VALIDATION" /\ TakesStock(j)
          BY <1>0, <2>1, <2>2, <3>1, <4>1, <4>3 DEF Tally
        <4>4. CASE saw[j] = "PENDING_VALIDATION" /\ ~ TakesStock(j)
          BY <1>0, <2>1, <2>2, <3>1, <4>1, <4>4 DEF Tally
        <4>5. QED
          BY <3>1, <4>2, <4>3, <4>4
      <3>3. CASE ~ StatusCurrent(j)
        BY <1>0, <2>1, <2>2, <3>1, <3>3 DEF Tally
      <3>4. QED
        BY <3>2, <3>3
    <2>6. CASE j.kind = "admin"
      <3>1. /\ ~ TakesStock(j) /\ Decision(j) = j.target
            /\ (PutsStockBack(j) <=> j.target = "CANCELLED")
            /\ (ConfirmsByHand(j) <=> j.target = "CONFIRMED")
            /\ \/ saw[j] = "DRAFT" /\ j.target = "PENDING_VALIDATION"
               \/ saw[j] = "PENDING_VALIDATION" /\ j.target \in {"VALIDATED", "REJECTED", "CONFIRMED"}
               \/ saw[j] = "VALIDATED" /\ j.target = "CONFIRMED"
               \/ saw[j] = "CONFIRMED" /\ j.target = "CANCELLED"
        BY <1>3, <2>4, <2>6, Decisions, TableSteps DEF PutsStockBack, ConfirmsByHand, TakesStock
      <3>2. CASE StatusCurrent(j)
        BY <1>0, <2>1, <2>2, <2>3, <3>1, <3>2 DEF Tally
      <3>3. CASE ~ StatusCurrent(j)
        BY <1>0, <2>1, <2>2, <3>1, <3>3 DEF Tally
      <3>4. QED
        BY <3>2, <3>3
    <2>7. QED
      BY <2>5, <2>6
  <1>4. QED
    BY <1>1, <1>2, <1>3, OnlyCommits

(* Whatever the jobs and however they overlap, sales and returns are those *)
(* the status tells of unless a decision was committed over a status it    *)
(* had not seen, and each such decision explains one too many at most.     *)
THEOREM UnseenExplainExtraSales == Spec => []ExtraSalesAreUnseen
  <1>1. Init => TallyInv
    BY DEF Init, Tally, TallyInv
  <1>2. PathInv /\ TallyInv => ExtraSalesAreUnseen
    <2> SUFFICES ASSUME PathInv, NEW i \in Invoices, Tally(i)
                 PROVE  /\ unseen[i] = 0 =>
                             /\ sold[i] + byHand[i] = IF status[i] \in {"CONFIRMED", "CANCELLED"}
                                                      THEN 1 ELSE 0
                             /\ restored[i] = IF status[i] = "CANCELLED" THEN 1 ELSE 0
                        /\ sold[i] <= 1 + unseen[i]
                        /\ restored[i] <= sold[i] + byHand[i] + unseen[i]
      BY DEF ExtraSalesAreUnseen, TallyInv
    <2>1. /\ sold[i] \in Nat /\ restored[i] \in Nat /\ byHand[i] \in Nat /\ unseen[i] \in Nat
      BY DEF PathInv, TypeOK
    <2>2. QED
      BY <2>1 DEF Tally
  <1>3. QED
    BY <1>1, <1>2, TallyStep, AlwaysOnPath, PTL DEF Spec

-----------------------------------------------------------------------------
(***************************************************************************)
(* A commit whose reads still hold is one step of StockBook.               *)
(***************************************************************************)
(* All the lines of a job that commits are done. *)
LEMMA AllDone ==
  ASSUME PathInv, NEW j \in Jobs, pc[j] = "ready"
  PROVE  Open(j) /\ OpenOnPath(j) /\ Done(j) = DOMAIN Items(j)
  <1>1. Open(j) /\ OpenOnPath(j) /\ ~ LinesLeft(j)
    BY DEF Open, PathInv, OnPath, OpenOnPath
  <1>2. ASSUME NEW k \in DOMAIN Items(j) PROVE k < line[j]
    <2>1. PICK n \in Nat : DOMAIN Items(j) = 1 .. n
      BY ItemsLength
    <2>2. line[j] \in Nat \ {0} /\ line[j] \notin 1 .. n /\ k \in 1 .. n
      BY <1>1, <2>1 DEF LinesLeft, PathInv, TypeOK
    <2>3. QED
      BY <2>1, <2>2
  <1>3. QED
    BY <1>1, <1>2 DEF Done

(* A table keeps the rows a commit has not written. *)
LEMMA CommitTables ==
  ASSUME NEW j \in Jobs, Commit(j)
  PROVE  /\ stock' = [p \in Products |-> stock'[p]]
         /\ active' = [p \in Products |-> active'[p]]
         /\ \A p \in Products \ DOMAIN writes[j] : stock'[p] = stock[p] /\ active'[p] = active[p]
  <1>1. /\ stock' = [p \in Products |-> stock'[p]]
        /\ active' = [p \in Products |-> active'[p]]
    BY DEF Commit, After
  <1>2. QED
    BY <1>1, CommitStock

(* The rows a job writes, computed from the committed ones. *)
LEMMA CurrentColumns ==
  ASSUME PathInv, NEW j \in Jobs, pc[j] = "ready", Current(j), j.kind # "create",
         NEW k \in DOMAIN Items(j), NEW p, p = Items(j)[k].product
  PROVE  /\ p \in Products /\ p \in DOMAIN writes[j]
         /\ j.kind # "edit" =>
              /\ writes[j][p].active = None
              /\ writes[j][p].stock = IF TakesStock(j) THEN stock[p] - Items(j)[k].qty
                                                       ELSE stock[p] + Items(j)[k].qty
  <1>1. WritesOnPath(j) /\ k \in Done(j)
    BY AllDone DEF OpenOnPath
  <1>2. p \in DOMAIN writes[j] /\ writes[j][p] = LineColumns(j, k) /\ p \in DOMAIN rows[j]
    BY <1>1 DEF WritesOnPath
  <1>3. rows[j][p].stock = stock[p]
    <2>1. rows[j][p] = Row(p)
      BY <1>2 DEF Current
    <2>2. QED
      BY <2>1 DEF Row
  <1>4. QED
    BY <1>2, <1>3, ItemTyped DEF LineColumns

(* What a job that moves an invoice's stock leaves in the tables. *)
LEMMA MovesWholeInvoice ==
  ASSUME PathInv, NEW j \in Jobs, Commit(j), Current(j), TakesStock(j) \/ PutsStockBack(j)
  PROVE  /\ TakesStock(j) => stock' = [p \in Products |-> stock[p] - Units(j.inv, p)]
         /\ PutsStockBack(j) => stock' = [p \in Products |-> stock[p] + Units(j.inv, p)]
         /\ active' = active
  <1>1. j.kind \notin {"edit", "create"} /\ j.inv \in Invoices /\ Items(j) = Lines[j.inv]
        /\ (PutsStockBack(j) => ~ TakesStock(j)) /\ pc[j] = "ready"
    BY JobsAreTyped DEF TakesStock, PutsStockBack, Items, Commit
  <1>2. ASSUME NEW p \in Products
        PROVE  /\ stock'[p] = IF TakesStock(j) THEN stock[p] - Units(j.inv, p)
                                               ELSE stock[p] + Units(j.inv, p)
               /\ active'[p] = active[p]
    <2>0. stock[p] \in Int
      BY DEF PathInv, TypeOK
    <2>1. CASE \E k \in DOMAIN Items(j) : Items(j)[k].product = p
      <3>1. PICK k \in DOMAIN Items(j) : Items(j)[k].product = p
        BY <2>1
      <3>2. Items(j)[k].qty = Units(j.inv, p) /\ Items(j)[k].qty \in Nat
        BY <3>1, ItemTyped
      <3>3. /\ p \in DOMAIN writes[j] /\ writes[j][p].active = None
            /\ writes[j][p].stock = IF TakesStock(j) THEN stock[p] - Units(j.inv, p)
                                                     ELSE stock[p] + Units(j.inv, p)
        BY <1>1, <3>1, <3>2, CurrentColumns
      <3>4. writes[j][p].stock # None
        BY <2>0, <3>2, <3>3, JobsAreTyped
      <3>5. QED
        BY <3>3, <3>4, CommitStock
    <2>2. CASE \A k \in DOMAIN Items(j) : Items(j)[k].product # p
      <3>1. Units(j.inv, p) = 0
        BY <1>1, <2>2 DEF Units
      <3>2. p \notin DOMAIN writes[j]
        BY <1>1, <2>2, AllDone DEF OpenOnPath, WritesOnPath
      <3>3. stock'[p] = stock[p] /\ active'[p] = active[p]
        BY <3>2, CommitTables
      <3>4. QED
        BY <2>0, <3>1, <3>3
    <2>3. QED
      BY <2>1, <2>2
  <1>3. active' = active
    BY <1>2, CommitTables DEF PathInv, TypeOK
  <1>4. QED
    BY <1>1, <1>2, <1>3, CommitTables

(* What a job without movements leaves in them. *)
LEMMA MovesNothing ==
  ASSUME PathInv, NEW j \in Jobs, Commit(j), j.kind # "edit",
         ~ TakesStock(j), ~ PutsStockBack(j)
  PROVE  UNCHANGED <<stock, active>>
  <1>1. OpenOnPath(j)
    BY AllDone DEF Commit
  <1>2. DOMAIN writes[j] = {}
    <2>1. CASE j.kind = "create"
      BY <1>1, <2>1, NoRowsEmpty DEF OpenOnPath, CreateOnPath
    <2>2. CASE j.kind # "create"
      <3>1. DOMAIN Items(j) = {}
        BY <2>2 DEF Items
      <3>2. Done(j) = {}
        BY <3>1 DEF Done
      <3>3. QED
        BY <1>1, <2>2, <3>2 DEF OpenOnPath, WritesOnPath
    <2>3. QED
      BY <2>1, <2>2
  <1>3. \A p \in Products : stock'[p] = stock[p] /\ active'[p] = active[p]
    BY <1>2, CommitTables
  <1>4. QED
    BY <1>3, CommitTables DEF PathInv, TypeOK

LEMMA EditIsBookStep ==
  ASSUME PathInv, NEW j \in Jobs, Commit(j), j.kind = "edit"
  PROVE  BookNext
  <1>1. Items(j) = <<[product |-> j.product, qty |-> 0]>> /\ j.product \in Products
    BY JobsAreTyped DEF Items
  <1>2. DOMAIN writes[j] \subseteq {j.product}
    <2>1. WritesOnPath(j)
      BY AllDone DEF Commit, OpenOnPath
    <2>2. QED
      BY <1>1, <2>1 DEF WritesOnPath, Done
  <1>3. \A p \in Products \ {j.product} : stock'[p] = stock[p] /\ active'[p] = active[p]
    BY <1>2, CommitTables
  <1>4. UNCHANGED <<status, byHand>>
    BY DEF Commit, ConfirmsByHand
  <1>5. EditProduct(j.product)
    BY <1>3, <1>4, CommitTables DEF EditProduct, PathInv, TypeOK
  <1>6. QED
    BY <1>1, <1>5 DEF BookNext

LEMMA CommitIsBookStep ==
  ASSUME PathInv, NEW j \in Jobs, Commit(j), Current(j)
  PROVE  BookNext
  <1>1. CASE j.kind = "edit"
    BY <1>1, EditIsBookStep
  <1>2. CASE j.kind # "edit"
    <2>1. /\ j.inv \in Invoices /\ Open(j)
          /\ status' = [status EXCEPT ![j.inv] = Decision(j)]
          /\ status[j.inv] = saw[j]
          /\ byHand' = IF ConfirmsByHand(j) THEN [byHand EXCEPT ![j.inv] = byHand[j.inv] + 1]
                       ELSE byHand
      BY <1>2, JobsAreTyped DEF Commit, Open, Current, StatusCurrent
    <2>2. CASE j.kind = "create"
      <3>1. UNCHANGED <<stock, active, byHand>> /\ status[j.inv] = "NONE"
            /\ Decision(j) = "PENDING_VALIDATION"
        BY <1>2, <2>1, <2>2, Decisions, MovesNothing
      <3>2. Items(j) = Lines[j.inv] /\ CreateOnPath(j) /\ Done(j) = DOMAIN Items(j)
        BY <2>2, AllDone DEF Items, OpenOnPath, Commit
      <3>3. ASSUME NEW k \in DOMAIN Lines[j.inv]
            PROVE  /\ active[Lines[j.inv][k].product]
                   /\ stock[Lines[j.inv][k].product] >= Lines[j.inv][k].qty
        <4> DEFINE p == Lines[j.inv][k].product
        <4>1. p \in DOMAIN rows[j] /\ rows[j][p].active /\ rows[j][p].stock >= Lines[j.inv][k].qty
          BY <3>2 DEF CreateOnPath
        <4>2. rows[j][p] = Row(p)
          BY <4>1 DEF Current
        <4>3. Row(p).active = active[p] /\ Row(p).stock = stock[p]
          BY DEF Row
        <4>4. QED
          BY <4>1, <4>2, <4>3
      <3>4. Accept(j.inv)
        BY <2>1, <3>1, <3>3 DEF Accept
      <3>5. QED
        BY <2>1, <3>4 DEF BookNext
    <2>3. CASE TakesStock(j)
      <3>1. Confirm(j.inv)
        BY <1>2, <2>1, <2>3, Decisions, MovesWholeInvoice DEF Confirm, TakesStock
      <3>2. QED
        BY <2>1, <3>1 DEF BookNext
    <2>4. CASE j.kind = "rejected"
      <3>1. ~ TakesStock(j) /\ ~ PutsStockBack(j)
        BY <2>4 DEF TakesStock, PutsStockBack
      <3>2. Reject(j.inv)
        BY <1>2, <2>1, <2>4, <3>1, Decisions, MovesNothing DEF Reject
      <3>3. QED
        BY <2>1, <3>2 DEF BookNext
    <2>5. CASE j.kind = "admin"
      <3>1. /\ ~ TakesStock(j) /\ Decision(j) = j.target /\ j.target \in InvoiceStatuses
            /\ saw[j] \in InvoiceStatuses /\ CanTransition(saw[j], j.target)
        BY <1>2, <2>1, <2>5, Decisions DEF TakesStock
      <3>2. CASE j.target = "CANCELLED"
        <4>1. PutsStockBack(j) /\ ~ ConfirmsByHand(j)
          BY <2>5, <3>2 DEF PutsStockBack, ConfirmsByHand
        <4>2. status[j.inv] = "CONFIRMED"
          BY <2>1, <3>1, <3>2, TableSteps
        <4>3. Cancel(j.inv)
          BY <2>1, <3>1, <3>2, <4>1, <4>2, MovesWholeInvoice DEF Cancel
        <4>4. QED
          BY <2>1, <4>3 DEF BookNext
      <3>3. CASE j.target # "CANCELLED"
        <4>1. ~ PutsStockBack(j) /\ (ConfirmsByHand(j) <=> j.target = "CONFIRMED")
          BY <2>5, <3>3 DEF PutsStockBack, ConfirmsByHand
        <4>2. UNCHANGED <<stock, active>>
          BY <1>2, <3>1, <4>1, MovesNothing
        <4>3. MoveByHand(j.inv, j.target)
          BY <2>1, <3>1, <3>3, <4>1, <4>2 DEF MoveByHand
        <4>4. QED
          BY <2>1, <3>1, <4>3 DEF BookNext
      <3>4. QED
        BY <3>2, <3>3
    <2>6. QED
      BY <1>2, <2>1, <2>2, <2>3, <2>4, <2>5, Decisions
  <1>3. QED
    BY <1>1, <1>2

(* However transactions interleave, one whose reads all still hold when it *)
(* commits is a single step of StockBook on the tables as they are then:   *)
(* its checks, all its movements and the status, nobody's update lost.     *)
THEOREM CurrentCommitsFollowTheBook == Spec => CurrentCommitsAreBookSteps
  <1> DEFINE Step == (\A j \in Jobs : pc[j] = "ready" /\ pc'[j] = "ended" => Current(j))
                       => [BookNext]_bookVars
  <1>1. PathInv /\ [Next]_vars => [Step]_vars
    <2> SUFFICES ASSUME PathInv, [Next]_vars,
                        \A j \in Jobs : pc[j] = "ready" /\ pc'[j] = "ended" => Current(j)
                 PROVE  [BookNext]_bookVars
      OBVIOUS
    <2>1. ASSUME NEW j \in Jobs, Commit(j) PROVE BookNext
      <3>1. pc[j] = "ready" /\ pc'[j] = "ended"
        BY <2>1, EndJobQuiet DEF Commit, PathInv
      <3>2. QED
        BY <2>1, <3>1, CommitIsBookStep
    <2>2. CASE UNCHANGED tables
      BY <2>2 DEF tables, bookVars
    <2>3. QED
      BY <2>1, <2>2, OnlyCommits
  <1>2. QED
    BY <1>1, AlwaysOnPath, PTL DEF Spec, CurrentCommitsAreBookSteps

-----------------------------------------------------------------------------
(***************************************************************************)
(* Sums over the invoices.  FoldSet is a recursive function over the       *)
(* subsets of a finite set, which a proof sees as a CHOOSE of its own      *)
(* equation.  That such a function exists, and what it adds up to, is by   *)
(* induction; sets stand for the predicates, and the least element of a    *)
(* set of numbers for the induction principle.                             *)
(***************************************************************************)
(* Induction, with sets for predicates. *)
LEMMA NumbersFromZero ==
  ASSUME NEW T, 0 \in T, \A n \in Nat : n \in T => n + 1 \in T
  PROVE  Nat \subseteq T
  <1> SUFFICES ASSUME Nat \ T # {} PROVE FALSE
    OBVIOUS
  <1>1. PICK n \in Nat \ T : \A m \in Nat \ T : ~ (<<m, n>> \in OpToRel(<, Nat))
    BY NatLessThanWellFounded, WFMin
  <1>2. \A m \in Nat \ T : ~ m < n
    BY <1>1 DEF OpToRel
  <1>3. n \in Nat /\ n # 0 /\ n - 1 \in Nat /\ n - 1 < n
    OBVIOUS
  <1>4. n - 1 \in T
    BY <1>2, <1>3
  <1>5. (n - 1) + 1 = n
    BY <1>3
  <1>6. QED
    BY <1>3, <1>4, <1>5

First(s) == CHOOSE x \in s : TRUE

LEMMA FirstOut ==
  ASSUME NEW S, IsFiniteSet(S), NEW s \in SUBSET S
  PROVE  /\ Cardinality(s) \in Nat
         /\ s = {} <=> Cardinality(s) = 0
         /\ s # {} => /\ First(s) \in s /\ s \ {First(s)} \in SUBSET S
                      /\ Cardinality(s \ {First(s)}) = Cardinality(s) - 1
  <1>1. IsFiniteSet(s)
    BY FS_Subset
  <1>2. s # {} => First(s) \in s
    BY DEF First
  <1>3. QED
    BY <1>1, <1>2, FS_CardinalityType, FS_EmptySet, FS_RemoveElement

LEMMA SubsetsFromEmpty ==
  ASSUME NEW S, IsFiniteSet(S), NEW T, {} \in T,
         \A s \in SUBSET S : s # {} /\ s \ {First(s)} \in T => s \in T
  PROVE  SUBSET S \subseteq T
  <1> DEFINE N == {n \in Nat : \A s \in SUBSET S : Cardinality(s) = n => s \in T}
  <1>1. 0 \in N
    BY FirstOut
  <1>2. ASSUME NEW n \in Nat, n \in N PROVE n + 1 \in N
    <2> SUFFICES ASSUME NEW s \in SUBSET S, Cardinality(s) = n + 1 PROVE s \in T
      OBVIOUS
    <2>1. s # {} /\ s \ {First(s)} \in SUBSET S /\ Cardinality(s \ {First(s)}) = n
      BY FirstOut
    <2>2. QED
      BY <1>2, <2>1
  <1> HIDE DEF N
  <1>3. Nat \subseteq N
    BY <1>1, <1>2, NumbersFromZero
  <1>4. QED
    BY <1>3, FirstOut DEF N

(* The running sums of w over the subsets of S. *)
Adds(w, g, s) == IF s = {} THEN 0 ELSE g[s \ {First(s)}] + w[First(s)]
Sums(w, S) == CHOOSE g : g = [s \in SUBSET S |-> Adds(w, g, s)]

LEMMA SumsExist ==
  ASSUME NEW S, IsFiniteSet(S), NEW w
  PROVE  \A s \in SUBSET S : Sums(w, S)[s] = Adds(w, Sums(w, S), s)
  <1> DEFINE N == {n \in Nat : \E g : \A s \in SUBSET S :
                                 Cardinality(s) <= n => g[s] = Adds(w, g, s)}
  <1>1. 0 \in N
    <2> DEFINE g == [s \in SUBSET S |-> 0]
    <2>1. ASSUME NEW s \in SUBSET S, Cardinality(s) <= 0 PROVE g[s] = Adds(w, g, s)
      <3>1. Cardinality(s) \in Nat /\ (s = {} <=> Cardinality(s) = 0)
        BY FirstOut
      <3>2. s = {}
        BY <2>1, <3>1
      <3>3. QED
        BY <3>2 DEF Adds
    <2> HIDE DEF g
    <2>2. QED
      BY <2>1
  <1>2. ASSUME NEW n \in Nat, n \in N PROVE n + 1 \in N
    <2>1. PICK g : \A s \in SUBSET S : Cardinality(s) <= n => g[s] = Adds(w, g, s)
      BY <1>2
    <2> DEFINE h == [s \in SUBSET S |-> Adds(w, g, s)]
    <2>2. ASSUME NEW s \in SUBSET S, Cardinality(s) <= n + 1 PROVE h[s] = Adds(w, h, s)
      <3>1. CASE s = {}
        BY <3>1 DEF Adds
      <3>2. CASE s # {}
        <4>1. s \ {First(s)} \in SUBSET S /\ Cardinality(s \ {First(s)}) <= n
          BY <2>2, <3>2, FirstOut
        <4>2. h[s \ {First(s)}] = g[s \ {First(s)}]
          BY <2>1, <4>1
        <4> HIDE DEF h
        <4>3. Adds(w, h, s) = Adds(w, g, s)
          BY <4>2 DEF Adds
        <4>4. QED
          BY <4>3 DEF h
      <3>3. QED
        BY <3>1, <3>2
    <2> HIDE DEF h
    <2>3. QED
      BY <2>2
  <1> HIDE DEF N
  <1>3. Cardinality(S) \in N
    BY <1>1, <1>2, NumbersFromZero, FS_CardinalityType
  <1>4. PICK g : \A s \in SUBSET S : Cardinality(s) <= Cardinality(S) => g[s] = Adds(w, g, s)
    BY <1>3 DEF N
  <1> DEFINE h == [s \in SUBSET S |-> g[s]]
  <1>5. h = [s \in SUBSET S |-> Adds(w, h, s)]
    <2>1. ASSUME NEW s \in SUBSET S PROVE h[s] = Adds(w, h, s)
      <3>1. Cardinality(s) <= Cardinality(S)
        BY FS_Subset
      <3>2. s # {} => s \ {First(s)} \in SUBSET S
        OBVIOUS
      <3>3. QED
        BY <1>4, <3>1, <3>2 DEF Adds
    <2>2. QED
      BY <2>1
  <1> HIDE DEF h
  <1>6. Sums(w, S) = [s \in SUBSET S |-> Adds(w, Sums(w, S), s)]
    BY <1>5 DEF Sums
  <1>7. QED
    BY <1>6

(* Two weights that differ at one element. *)
LEMMA SumsDiffer ==
  ASSUME NEW S, IsFiniteSet(S), NEW v \in [S -> Int], NEW w \in [S -> Int], NEW x \in S,
         \A y \in S \ {x} : w[y] = v[y]
  PROVE  Sums(v, S)[S] \in Int /\ Sums(w, S)[S] = Sums(v, S)[S] + (w[x] - v[x])
  <1> DEFINE T == {s \in SUBSET S :
               /\ Sums(v, S)[s] \in Int
               /\ Sums(w, S)[s] = Sums(v, S)[s] + (IF x \in s THEN w[x] - v[x] ELSE 0)}
  <1>0. ASSUME NEW u PROVE Sums(u, S)[{}] = 0
    <2>1. Sums(u, S)[{}] = Adds(u, Sums(u, S), {})
      BY SumsExist
    <2>2. QED
      BY <2>1 DEF Adds
  <1>1. {} \in T
    BY <1>0
  <1>2. ASSUME NEW s \in SUBSET S, s # {}, s \ {First(s)} \in T PROVE s \in T
    <2>1. First(s) \in S /\ First(s) \in s
      BY <1>2, FirstOut
    <2>2. /\ Sums(v, S)[s] = Sums(v, S)[s \ {First(s)}] + v[First(s)]
          /\ Sums(w, S)[s] = Sums(w, S)[s \ {First(s)}] + w[First(s)]
      <3>1. /\ Sums(v, S)[s] = Adds(v, Sums(v, S), s)
            /\ Sums(w, S)[s] = Adds(w, Sums(w, S), s)
        BY SumsExist
      <3>2. QED
        BY <1>2, <3>1 DEF Adds
    <2>3. v[First(s)] \in Int /\ w[First(s)] \in Int /\ v[x] \in Int /\ w[x] \in Int
      BY <2>1
    <2>4. CASE First(s) = x
      <3>1. x \in s /\ x \notin s \ {First(s)}
        BY <2>1, <2>4
      <3>2. QED
        BY <1>2, <2>2, <2>3, <2>4, <3>1
    <2>5. CASE First(s) # x
      <3>1. w[First(s)] = v[First(s)] /\ (x \in s <=> x \in s \ {First(s)})
        BY <2>1, <2>5
      <3>2. QED
        BY <1>2, <2>2, <2>3, <3>1
    <2>6. QED
      BY <2>4, <2>5
  <1> HIDE DEF T
  <1>3. S \in T
    BY <1>1, <1>2, SubsetsFromEmpty
  <1>4. QED
    BY <1>3 DEF T

LEMMA UnitsAreSums ==
  ASSUME NEW count, NEW p, NEW w, w = [i \in Invoices |-> count[i] * Units(i, p)]
  PROVE  UnitsOver(count, p) = Sums(w, Invoices)[Invoices]
  <1> DEFINE Body(g, s) ==
               IF s = {} THEN 0
               ELSE LET x == CHOOSE y \in s : TRUE
                    IN  g[s \ {x}] + count[x] * Units(x, p)
  <1>1. UnitsOver(count, p) = (CHOOSE g : g = [s \in SUBSET Invoices |-> Body(g, s)])[Invoices]
    BY DEF UnitsOver, FoldSet, MapThenFoldSet
  <1>2. ASSUME NEW g, NEW s \in SUBSET Invoices PROVE Body(g, s) = Adds(w, g, s)
    <2>1. s # {} => First(s) \in Invoices
      BY DEF First
    <2>2. QED
      BY <2>1 DEF Adds, First
  <1> HIDE DEF Body
  <1>3. \A g : [s \in SUBSET Invoices |-> Body(g, s)] = [s \in SUBSET Invoices |-> Adds(w, g, s)]
    BY <1>2
  <1>4. QED
    BY <1>1, <1>3 DEF Sums

(* One more sale of one invoice adds its units. *)
LEMMA OneMoreSale ==
  ASSUME IsFiniteSet(Invoices), NEW p \in Products, NEW count \in [Invoices -> Nat],
         NEW i \in Invoices
  PROVE  UnitsOver([count EXCEPT ![i] = count[i] + 1], p) = UnitsOver(count, p) + Units(i, p)
  <1> DEFINE more == [count EXCEPT ![i] = count[i] + 1]
             v == [k \in Invoices |-> count[k] * Units(k, p)]
             w == [k \in Invoices |-> more[k] * Units(k, p)]
  <1>1. \A k \in Invoices : Units(k, p) \in Nat
    BY UnitsTyped
  <1>2. v \in [Invoices -> Int] /\ w \in [Invoices -> Int]
    BY <1>1
  <1>3. \A k \in Invoices \ {i} : w[k] = v[k]
    OBVIOUS
  <1>4. w[i] - v[i] = Units(i, p)
    <2>1. \A a, b \in Nat : (a + 1) * b - a * b = b
      OBVIOUS
    <2>2. w[i] = (count[i] + 1) * Units(i, p) /\ v[i] = count[i] * Units(i, p)
      OBVIOUS
    <2>3. QED
      BY <1>1, <2>1, <2>2
  <1> HIDE DEF more
  <1>5. v = [k \in Invoices |-> count[k] * Units(k, p)] /\ w = [k \in Invoices |-> more[k] * Units(k, p)]
    OBVIOUS
  <1> HIDE DEF v, w
  <1>6. /\ UnitsOver(count, p) = Sums(v, Invoices)[Invoices]
        /\ UnitsOver(more, p) = Sums(w, Invoices)[Invoices]
    BY <1>5, UnitsAreSums
  <1>7. Sums(w, Invoices)[Invoices] = Sums(v, Invoices)[Invoices] + (w[i] - v[i])
    BY <1>2, <1>3, SumsDiffer
  <1>8. QED
    BY <1>4, <1>6, <1>7 DEF more

LEMMA NoSales ==
  ASSUME IsFiniteSet(Invoices), NEW p \in Products
  PROVE  UnitsOver([i \in Invoices |-> 0], p) = 0
  <1> DEFINE zero == [i \in Invoices |-> 0]
             w == [k \in Invoices |-> zero[k] * Units(k, p)]
             T == {s \in SUBSET Invoices : Sums(w, Invoices)[s] = 0}
  <1>1. \A k \in Invoices : w[k] = 0
    BY UnitsTyped
  <1>2. UnitsOver(zero, p) = Sums(w, Invoices)[Invoices]
    BY UnitsAreSums
  <1> HIDE DEF w
  <1>3. \A s \in SUBSET Invoices : Sums(w, Invoices)[s] = Adds(w, Sums(w, Invoices), s)
    BY SumsExist
  <1>4. {} \in T
    BY <1>3 DEF Adds
  <1>5. ASSUME NEW s \in SUBSET Invoices, s # {}, s \ {First(s)} \in T PROVE s \in T
    <2>1. First(s) \in Invoices
      BY <1>5, FirstOut
    <2>2. QED
      BY <1>1, <1>3, <1>5, <2>1 DEF Adds
  <1> HIDE DEF T
  <1>6. Invoices \in T
    BY <1>4, <1>5, SubsetsFromEmpty
  <1>7. QED
    BY <1>2, <1>6 DEF T

-----------------------------------------------------------------------------
(* A commit that moves stock records the units of every line. *)
LEMMA MovedIsUnits ==
  ASSUME PathInv, NEW j \in Jobs, pc[j] = "ready",
         TakesStock(j) \/ PutsStockBack(j), NEW p \in Products
  PROVE  Moved(j, p) = Units(j.inv, p)
  <1>1. j.kind # "create" /\ Items(j) = Lines[j.inv]
    BY DEF Items, TakesStock, PutsStockBack
  <1>2. DOMAIN writes[j] = {Items(j)[k].product : k \in DOMAIN Items(j)}
    BY <1>1, AllDone DEF OpenOnPath, WritesOnPath
  <1>3. CASE p \in DOMAIN writes[j]
    BY <1>3 DEF Moved
  <1>4. CASE p \notin DOMAIN writes[j]
    <2>1. \A k \in DOMAIN Lines[j.inv] : Lines[j.inv][k].product # p
      BY <1>1, <1>2, <1>4
    <2>2. QED
      BY <1>4, <2>1 DEF Moved, Units
  <1>5. QED
    BY <1>3, <1>4

LEMMA WholeStep ==
  ASSUME IsFiniteSet(Invoices) PROVE PathInv /\ WholeInvoices /\ [Next]_vars => WholeInvoices'
  <1> SUFFICES ASSUME PathInv, WholeInvoices, [Next]_vars PROVE WholeInvoices'
    OBVIOUS
  <1>1. CASE UNCHANGED tables
    BY <1>1 DEF WholeInvoices, tables
  <1>2. ASSUME NEW j \in Jobs, Commit(j) PROVE WholeInvoices'
    <2> SUFFICES ASSUME NEW p \in Products
                 PROVE  exits'[p] = UnitsOver(sold', p) /\ entries'[p] = UnitsOver(restored', p)
      BY DEF WholeInvoices
    <2>0. TypeOK
      BY DEF PathInv
    <2>1. exits[p] = UnitsOver(sold, p) /\ entries[p] = UnitsOver(restored, p)
      BY DEF WholeInvoices
    <2>2. sold \in [Invoices -> Nat] /\ restored \in [Invoices -> Nat]
      BY <2>0 DEF TypeOK
    <2>3. TakesStock(j) \/ PutsStockBack(j) => Moved(j, p) = Units(j.inv, p) /\ j.inv \in Invoices
      BY <1>2, MovedIsUnits, JobsAreTyped DEF Commit, TakesStock, PutsStockBack
    <2>4. exits'[p] = UnitsOver(sold', p)
      <3>1. CASE TakesStock(j)
        <4>1. sold' = [sold EXCEPT ![j.inv] = sold[j.inv] + 1]
          BY <1>2, <3>1 DEF Commit
        <4>2. UnitsOver(sold', p) = UnitsOver(sold, p) + Units(j.inv, p)
          BY <2>2, <2>3, <3>1, <4>1, OneMoreSale
        <4>3. QED
          BY <1>2, <2>0, <2>1, <2>3, <3>1, <4>2, CommitTrail
      <3>2. CASE ~ TakesStock(j)
        BY <1>2, <2>1, <3>2 DEF Commit
      <3>3. QED
        BY <3>1, <3>2
    <2>5. entries'[p] = UnitsOver(restored', p)
      <3>1. CASE PutsStockBack(j)
        <4>1. restored' = [restored EXCEPT ![j.inv] = restored[j.inv] + 1]
          BY <1>2, <3>1 DEF Commit
        <4>2. UnitsOver(restored', p) = UnitsOver(restored, p) + Units(j.inv, p)
          BY <2>2, <2>3, <3>1, <4>1, OneMoreSale
        <4>3. QED
          BY <1>2, <2>0, <2>1, <2>3, <3>1, <4>2, CommitTrail
      <3>2. CASE ~ PutsStockBack(j)
        BY <1>2, <2>1, <3>2 DEF Commit
      <3>3. QED
        BY <3>1, <3>2
    <2>6. QED
      BY <2>4, <2>5
  <1>3. QED
    BY <1>1, <1>2, OnlyCommits

(* Whatever the jobs, however they interleave and wherever they abort, the *)
(* EXIT (ENTRY) rows of a product are those of the invoices sold           *)
(* (restored), every line of them.                                         *)
THEOREM MovementsAreWhole == ASSUME IsFiniteSet(Invoices) PROVE Spec => []WholeInvoices
  <1>1. Init => WholeInvoices
    BY NoSales DEF Init, WholeInvoices
  <1>2. QED
    BY <1>1, WholeStep, AlwaysOnPath, PTL DEF Spec
=============================================================================
