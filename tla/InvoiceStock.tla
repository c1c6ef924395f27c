---------------------------- MODULE InvoiceStock ----------------------------
(***************************************************************************)
(* The database transactions that decide invoices and move stock, and how  *)
(* they interleave under READ COMMITTED.                                   *)
(*                                                                         *)
(* A job is one transaction:                                               *)
(*   create     POST /invoices                                             *)
(*   timer      _auto_confirm_invoice, two seconds after the POST          *)
(*   validated  the consumer's handling of one invoice.validated message   *)
(*   rejected   the consumer's handling of one invoice.rejected message    *)
(*   admin      PATCH /invoices/{id}/status with a target status           *)
(*   edit       PUT or DELETE /products/{id}                               *)
(*                                                                         *)
(* Every job reads the row it decides about with a plain SELECT, reads and *)
(* writes products one line at a time, writes the status last, commits.    *)
(* The ORM writes back the absolute values it computed from what it read   *)
(* (no row lock on read, no version check); an UPDATE holds the row until  *)
(* the transaction ends.  An exception anywhere rolls the whole job back.  *)
(***************************************************************************)
EXTENDS StockBook, FiniteSetsExt

CONSTANTS Jobs,        (* records: kind and inv; an admin job also target; *)
                       (* an edit: product, put and on, the values it sets *)
          Stock0,      (* [Products -> Nat], the stock at the beginning    *)
          None         (* no value *)

VARIABLES pc,          (* where each job is                                *)
          line,        (* line each job is at                              *)
          saw,         (* the status it read, or None                      *)
          rows,        (* the product rows it read, [product -> row]       *)
          writes,      (* its uncommitted UPDATEs, [product -> columns]; a
                          column that is not written is None               *)
          exits,       (* per product, units in committed EXIT movements   *)
          entries,     (* per product, units in committed ENTRY movements  *)
          sold,        (* per invoice, committed jobs that took stock out  *)
          restored,    (* per invoice, committed jobs that put it back     *)
          unseen       (* per invoice, jobs that committed a decision over
                          a status that was no longer the one they read    *)

trailVars == <<exits, entries, sold, restored, byHand, unseen>>
vars == <<status, stock, active, pc, line, saw, rows, writes,
          exits, entries, sold, restored, byHand, unseen>>

PC == {"idle", "lines", "ready", "ended"}

Deciding == {"timer", "validated", "rejected", "admin"}
Kinds == Deciding \cup {"create", "edit"}

ASSUME JobsAreTyped ==
  /\ Stock0 \in [Products -> Nat]
  /\ None \notin Int
  /\ \A i \in Invoices :
       /\ Lines[i] \in Seq([product : Products, qty : Nat \ {0}])
       /\ \A k, l \in DOMAIN Lines[i] :
            Lines[i][k].product = Lines[i][l].product => k = l
  /\ \A j \in Jobs :
       /\ j.kind \in Kinds
       /\ j.kind # "edit" => j.inv \in Invoices
       /\ j.kind = "admin" => j.target \in InvoiceStatuses
       /\ j.kind = "edit" => j.product \in Products /\ j.put \in Nat \cup {None}
                             /\ j.on \in BOOLEAN \cup {None}

-----------------------------------------------------------------------------
Open(j) == pc[j] \in {"lines", "ready"}

TakesStock(j) == j.kind \in {"timer", "validated"}
PutsStockBack(j) == j.kind = "admin" /\ j.target = "CANCELLED"
ConfirmsByHand(j) == j.kind = "admin" /\ j.target = "CONFIRMED"

(* The product rows a job works through, in order, with the quantities. *)
Items(j) ==
  IF j.kind = "edit" THEN <<[product |-> j.product, qty |-> 0]>>
  ELSE IF j.kind = "create" \/ TakesStock(j) \/ PutsStockBack(j) THEN Lines[j.inv]
  ELSE <<>>

LinesLeft(j) == line[j] \in DOMAIN Items(j)
Item(j) == Items(j)[line[j]]

(* The status a deciding job writes.  The consumer's VALIDATED is          *)
(* overwritten by CONFIRMED before anybody can see it.                     *)
Decision(j) ==
  IF TakesStock(j) THEN "CONFIRMED"
  ELSE IF j.kind = "rejected" THEN "REJECTED"
  ELSE IF j.kind = "admin" THEN j.target
  ELSE "PENDING_VALIDATION"

(* The columns an UPDATE of item row v sets: the ORM leaves out those it    *)
(* did not change.                                                         *)
Changed(old, new) == IF new = old THEN None ELSE new

(* Fault: a cancellation takes the units out once more. *)
NewColumnsTakingTwice(j, v) ==
  [stock |-> v.stock - Item(j).qty, active |-> None]

NewColumns(j, v) ==
  IF j.kind = "edit"
  THEN [stock |-> Changed(v.stock, j.put), active |-> Changed(v.active, j.on)]
  ELSE [stock |-> IF TakesStock(j) THEN v.stock - Item(j).qty ELSE v.stock + Item(j).qty,
        active |-> None]

NoRows == [p \in {} |-> None]

(* The function f with x mapped to v. *)
With(f, x, v) == [y \in DOMAIN f \cup {x} |-> IF y = x THEN v ELSE f[y]]

Holds(j, p) == Open(j) /\ p \in DOMAIN writes[j]

(* A row lock: another open transaction has updated the row. *)
RowBusy(j, p) == \E u \in Jobs \ {j} : Holds(u, p)
InvoiceBusy(j) ==
  /\ j.kind \in Deciding
  /\ \E u \in Jobs \ {j} : u.kind \in Deciding /\ u.inv = j.inv /\ pc[u] = "ready"

(* The row of product p as it is committed. *)
Row(p) == [stock |-> stock[p], active |-> active[p]]

(* j reads the row of the product of the line it is at. *)
SeesRow(j) == rows' = [rows EXCEPT ![j] = With(@, Item(j).product, Row(Item(j).product))]
LineRead(j) == Item(j).product \in DOMAIN rows[j]

(* What j has read is still what is committed.  update_status offers to    *)
(* compare versions, which would tell, and no caller asks for it.          *)
StatusCurrent(j) == j.kind = "edit" \/ saw[j] = status[j.inv]
Current(j) == StatusCurrent(j) /\ \A p \in DOMAIN rows[j] : rows[j][p] = Row(p)

-----------------------------------------------------------------------------
Init ==
  /\ status = [i \in Invoices |-> "NONE"]
  /\ stock = Stock0
  /\ active = [p \in Products |-> TRUE]
  /\ pc = [j \in Jobs |-> "idle"]
  /\ line = [j \in Jobs |-> 1]
  /\ saw = [j \in Jobs |-> None]
  /\ rows = [j \in Jobs |-> NoRows]
  /\ writes = [j \in Jobs |-> NoRows]
  /\ exits = [p \in Products |-> 0]
  /\ entries = [p \in Products |-> 0]
  /\ sold = [i \in Invoices |-> 0]
  /\ restored = [i \in Invoices |-> 0]
  /\ byHand = [i \in Invoices |-> 0]
  /\ unseen = [i \in Invoices |-> 0]

(* POST /invoices and product edits start with their first product. *)
BeginLines(j) ==
  /\ j.kind \in {"create", "edit"}
  /\ pc[j] = "idle"
  /\ j.kind = "create" => status[j.inv] = "NONE"
  /\ pc' = [pc EXCEPT ![j] = "lines"]
  /\ saw' = [saw EXCEPT ![j] = IF j.kind = "create" THEN "NONE" ELSE None]
  /\ UNCHANGED <<status, stock, active, line, rows, writes>>
  /\ UNCHANGED trailVars

(* Fault: the endpoint cancels whatever exists. *)
ProceedsUnchecked(j, s) ==
  IF j.kind = "admin" THEN s # "NONE" ELSE s = "PENDING_VALIDATION"

(* Fault: timer and consumer do not look at the status. *)
ProceedsBlindly(j, s) ==
  IF j.kind = "admin" THEN s # "NONE" /\ CanTransition(s, j.target) ELSE s # "NONE"

(* Whether a deciding job goes on once it has read the invoice: timer and  *)
(* consumer look for PENDING_VALIDATION, the endpoint asks the table.      *)
Proceeds(j, s) ==
  IF j.kind = "admin" THEN s # "NONE" /\ CanTransition(s, j.target)
                      ELSE s = "PENDING_VALIDATION"

(* The session is closed: what the transaction read and wrote is gone. *)
EndJob(j) ==
  /\ pc' = [pc EXCEPT ![j] = "ended"]
  /\ line' = [line EXCEPT ![j] = 1]
  /\ saw' = [saw EXCEPT ![j] = None]
  /\ rows' = [rows EXCEPT ![j] = NoRows]
  /\ writes' = [writes EXCEPT ![j] = NoRows]

(* SELECT the invoice; a missing or already decided one ends the job. *)
ReadInvoice(j) ==
  /\ j.kind \in Deciding
  /\ pc[j] = "idle"
  /\ IF Proceeds(j, status[j.inv])
     THEN /\ pc' = [pc EXCEPT ![j] = "lines"]
          /\ saw' = [saw EXCEPT ![j] = status[j.inv]]
     ELSE pc' = [pc EXCEPT ![j] = "ended"] /\ UNCHANGED saw
  /\ UNCHANGED <<status, stock, active, line, rows, writes>>
  /\ UNCHANGED trailVars

(* Fault: only the product's state is checked, not its stock. *)
CheckLineOnSale(j) ==
  /\ j.kind = "create" /\ pc[j] = "lines" /\ LinesLeft(j)
  /\ active[Item(j).product]
  /\ SeesRow(j)
  /\ line' = [line EXCEPT ![j] = @ + 1]
  /\ UNCHANGED <<status, stock, active, pc, saw, writes>>
  /\ UNCHANGED trailVars

(* POST /invoices: the product must be on sale and in stock now; nothing   *)
(* is reserved.                                                            *)
CheckLine(j) ==
  /\ j.kind = "create" /\ pc[j] = "lines" /\ LinesLeft(j)
  /\ IF active[Item(j).product] /\ stock[Item(j).product] >= Item(j).qty
     THEN /\ SeesRow(j)
          /\ line' = [line EXCEPT ![j] = @ + 1]
          /\ UNCHANGED <<pc, saw, writes>>
     ELSE EndJob(j)
  /\ UNCHANGED <<status, stock, active>>
  /\ UNCHANGED trailVars

(* decrement_stock, the cancellation loop, UpdateProductHandler: the       *)
(* SELECT of the product ...                                               *)
ReadLine(j) ==
  /\ j.kind # "create" /\ pc[j] = "lines" /\ LinesLeft(j)
  /\ ~ LineRead(j)
  /\ SeesRow(j)
  /\ UNCHANGED <<status, stock, active, pc, line, saw, writes>>
  /\ UNCHANGED trailVars

(* ... and, once the row is free, its UPDATE and the movement row. *)
WriteLine(j) ==
  /\ j.kind # "create" /\ pc[j] = "lines" /\ LinesLeft(j)
  /\ LineRead(j)
  /\ ~ RowBusy(j, Item(j).product)
  /\ writes' = [writes EXCEPT ![j] = With(@, Item(j).product,
                                          NewColumns(j, rows[j][Item(j).product]))]
  /\ line' = [line EXCEPT ![j] = @ + 1]
  /\ UNCHANGED <<status, stock, active, pc, saw, rows>>
  /\ UNCHANGED trailVars

(* Fault: the loop over the details may stop early. *)
WriteStatusEarly(j) ==
  /\ pc[j] = "lines" /\ (LinesLeft(j) => ~ LineRead(j))
  /\ ~ InvoiceBusy(j)
  /\ pc' = [pc EXCEPT ![j] = "ready"]
  /\ UNCHANGED <<status, stock, active, line, saw, rows, writes>>
  /\ UNCHANGED trailVars

(* update_status, or the INSERT of the invoice; an edit has none. *)
WriteStatus(j) ==
  /\ pc[j] = "lines" /\ ~ LinesLeft(j)
  /\ ~ InvoiceBusy(j)
  /\ pc' = [pc EXCEPT ![j] = "ready"]
  /\ UNCHANGED <<status, stock, active, line, saw, rows, writes>>
  /\ UNCHANGED trailVars

(* A column of the products table once job j commits. *)
After(j, column, table) ==
  [p \in Products |-> IF p \in DOMAIN writes[j] /\ writes[j][p][column] # None
                      THEN writes[j][p][column] ELSE table[p]]

(* The units a job's movement rows record for product p. *)
Moved(j, p) == IF p \in DOMAIN writes[j] THEN Units(j.inv, p) ELSE 0

Commit(j) ==
  /\ pc[j] = "ready"
  /\ EndJob(j)
  /\ stock' = After(j, "stock", stock)
  /\ active' = After(j, "active", active)
  /\ status' = IF j.kind = "edit" THEN status
               ELSE [status EXCEPT ![j.inv] = Decision(j)]
  /\ IF TakesStock(j)
     THEN /\ exits' = [p \in Products |-> exits[p] + Moved(j, p)]
          /\ sold' = [sold EXCEPT ![j.inv] = @ + 1]
     ELSE UNCHANGED <<exits, sold>>
  /\ IF PutsStockBack(j)
     THEN /\ entries' = [p \in Products |-> entries[p] + Moved(j, p)]
          /\ restored' = [restored EXCEPT ![j.inv] = @ + 1]
     ELSE UNCHANGED <<entries, restored>>
  /\ byHand' = IF ConfirmsByHand(j) THEN [byHand EXCEPT ![j.inv] = @ + 1] ELSE byHand
  /\ unseen' = IF StatusCurrent(j) THEN unseen ELSE [unseen EXCEPT ![j.inv] = @ + 1]

(* An exception, a deadlock victim, a lost connection, a crash: rollback.  *)
(* Nothing runs the job again.                                             *)
Abort(j) ==
  /\ Open(j)
  /\ EndJob(j)
  /\ UNCHANGED <<status, stock, active>>
  /\ UNCHANGED trailVars

Next == \E j \in Jobs :
          \/ BeginLines(j) \/ ReadInvoice(j) \/ CheckLine(j) \/ ReadLine(j)
          \/ WriteLine(j) \/ WriteStatus(j) \/ Commit(j) \/ Abort(j)

Spec == Init /\ [][Next]_vars
-----------------------------------------------------------------------------
TypeOK ==
  /\ status \in [Invoices -> InvoiceStatuses \cup {"NONE"}]
  /\ stock \in [Products -> Int]
  /\ active \in [Products -> BOOLEAN]
  /\ pc \in [Jobs -> PC]
  /\ line \in [Jobs -> Nat \ {0}]
  /\ saw \in [Jobs -> InvoiceStatuses \cup {"NONE", None}]
  /\ DOMAIN rows = Jobs /\ DOMAIN writes = Jobs
  /\ \A j \in Jobs : /\ DOMAIN rows[j] \subseteq Products
                     /\ \A p \in DOMAIN rows[j] : rows[j][p] \in [stock : Int, active : BOOLEAN]
                     /\ DOMAIN writes[j] \subseteq Products
                     /\ \A p \in DOMAIN writes[j] :
                          /\ writes[j][p].stock \in Int \cup {None}
                          /\ writes[j][p].active \in BOOLEAN \cup {None}
  /\ exits \in [Products -> Nat]
  /\ entries \in [Products -> Nat]
  /\ sold \in [Invoices -> Nat]
  /\ restored \in [Invoices -> Nat]
  /\ byHand \in [Invoices -> Nat]
  /\ unseen \in [Invoices -> Nat]

UnitsOver(count, p) ==
  FoldSet(LAMBDA i, sum : sum + count[i] * Units(i, p), 0, Invoices)

(* Movement rows come in whole invoices: whatever aborts, deadlocks or     *)
(* crashes between two lines, the committed EXIT (ENTRY) rows of a product *)
(* are those of the invoices that were sold (restored), every line of them.*)
WholeInvoices ==
  \A p \in Products : /\ exits[p] = UnitsOver(sold, p)
                      /\ entries[p] = UnitsOver(restored, p)

(* No request to set p's stock has begun. *)
LeftToSales(p) ==
  \A j \in Jobs : j.kind = "edit" /\ j.product = p /\ j.put # None => pc[j] = "idle"

(* An invoice that reads CONFIRMED or CANCELLED has had its units taken    *)
(* out of stock at least once, unless an administrator set it CONFIRMED    *)
(* by hand, and a cancelled one has had them put back, in any interleaving *)
(* of timers, deliveries and requests.                                     *)
SoldIfConfirmed ==
  \A i \in Invoices :
    /\ status[i] \in {"CONFIRMED", "CANCELLED"} => sold[i] + byHand[i] > 0
    /\ status[i] = "CANCELLED" => restored[i] > 0

(* Lost updates only ever lose movements: until an administrator sets it,  *)
(* the stock is never below what the EXIT rows account for nor above what  *)
(* the ENTRY rows account for.                                             *)
WithinTrail ==
  \A p \in Products : LeftToSales(p) =>
    Stock0[p] - exits[p] <= stock[p] /\ stock[p] <= Stock0[p] + entries[p]

(* Timers, messages and requests about one invoice may all overlap.  Its   *)
(* units are taken once, or it is confirmed by hand, and put back once, as *)
(* its status says, unless a decision was committed over a status that had *)
(* changed since it was read; and each such decision, which a look at the  *)
(* version column would refuse, explains one sale and one return too many  *)
(* at most.                                                                *)
ExtraSalesAreUnseen ==
  \A i \in Invoices :
    /\ unseen[i] = 0 =>
         /\ sold[i] + byHand[i] = IF status[i] \in {"CONFIRMED", "CANCELLED"} THEN 1 ELSE 0
         /\ restored[i] = IF status[i] = "CANCELLED" THEN 1 ELSE 0
    /\ sold[i] <= 1 + unseen[i]
    /\ restored[i] <= sold[i] + byHand[i] + unseen[i]

(* The status of an invoice leaves the transition table only by a decision *)
(* committed over a status that had changed since it was read: an invoice  *)
(* already sold becomes REJECTED, a cancelled one CONFIRMED again.         *)
OnlyUnseenStepsLeaveTheTable ==
  [][\A i \in Invoices :
       status[i] # "NONE" /\ status'[i] # status[i] =>
         CanTransition(status[i], status'[i]) \/ unseen'[i] > unseen[i]]_vars

(* However transactions interleave, one whose reads all still hold when it *)
(* commits takes effect as a single step of StockBook: its checks, every   *)
(* line's movement and the status together, and nobody else's update lost. *)
CurrentCommitsAreBookSteps ==
  [][(\A j \in Jobs : pc[j] = "ready" /\ pc'[j] = "ended" => Current(j))
       => [BookNext]_bookVars]_vars

(* What consumer.py says of the bypass: "publishing a duplicate            *)
(* `invoice.validated` is a no-op".                                        *)
DuplicatesAreNoOps == \A i \in Invoices : sold[i] <= 1
=============================================================================
