------------------------------ MODULE StockBook ------------------------------
(***************************************************************************)
(* What invoices and stock are meant to do together, one indivisible step  *)
(* per request: an invoice is accepted when its products are active and in *)
(* stock, a confirmation takes its units out, a cancellation puts them     *)
(* back, a rejection leaves the stock alone.  A status set by hand moves   *)
(* no stock, unless it is a cancellation.                                  *)
(***************************************************************************)
EXTENDS Integers, Sequences, InvoiceStatus

CONSTANTS Products, Invoices,
          Lines             (* the details of each invoice *)

VARIABLES status,           (* status of each invoice, "NONE" before it exists *)
          stock, active,    (* per product *)
          byHand            (* per invoice, times it was set CONFIRMED by hand *)

bookVars == <<status, stock, active, byHand>>

(* Units of product p on invoice i; no product is on an invoice twice. *)
Units(i, p) ==
  IF \E k \in DOMAIN Lines[i] : Lines[i][k].product = p
  THEN Lines[i][CHOOSE k \in DOMAIN Lines[i] : Lines[i][k].product = p].qty
  ELSE 0

Accept(i) ==
  /\ status[i] = "NONE"
  /\ \A k \in DOMAIN Lines[i] :
       active[Lines[i][k].product] /\ stock[Lines[i][k].product] >= Lines[i][k].qty
  /\ status' = [status EXCEPT ![i] = "PENDING_VALIDATION"]
  /\ UNCHANGED <<stock, active, byHand>>

(* The stock was looked at by Accept, and is not looked at again. *)
Confirm(i) ==
  /\ status[i] = "PENDING_VALIDATION"
  /\ status' = [status EXCEPT ![i] = "CONFIRMED"]
  /\ stock' = [p \in Products |-> stock[p] - Units(i, p)]
  /\ UNCHANGED <<active, byHand>>

Reject(i) ==
  /\ status[i] = "PENDING_VALIDATION"
  /\ status' = [status EXCEPT ![i] = "REJECTED"]
  /\ UNCHANGED <<stock, active, byHand>>

Cancel(i) ==
  /\ status[i] = "CONFIRMED"
  /\ status' = [status EXCEPT ![i] = "CANCELLED"]
  /\ stock' = [p \in Products |-> stock[p] + Units(i, p)]
  /\ UNCHANGED <<active, byHand>>

(* An administrator moves an invoice along the table by hand: the stock    *)
(* that goes with the new status is left alone.                            *)
MoveByHand(i, s) ==
  /\ status[i] \in InvoiceStatuses
  /\ s # "CANCELLED" /\ CanTransition(status[i], s)
  /\ status' = [status EXCEPT ![i] = s]
  /\ byHand' = IF s = "CONFIRMED" THEN [byHand EXCEPT ![i] = @ + 1] ELSE byHand
  /\ UNCHANGED <<stock, active>>

(* An administrator edits one product: its stock, whether it is on sale. *)
EditProduct(p) ==
  /\ stock' = [stock EXCEPT ![p] = stock'[p]]
  /\ active' = [active EXCEPT ![p] = active'[p]]
  /\ UNCHANGED <<status, byHand>>

BookNext ==
  \/ \E i \in Invoices : Accept(i) \/ Confirm(i) \/ Reject(i) \/ Cancel(i)
  \/ \E i \in Invoices, s \in InvoiceStatuses : MoveByHand(i, s)
  \/ \E p \in Products : EditProduct(p)
=============================================================================
