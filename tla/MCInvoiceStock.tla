--------------------------- MODULE MCInvoiceStock ---------------------------
(***************************************************************************)
(* TLC instances of InvoiceStock.                                          *)
(***************************************************************************)
EXTENDS InvoiceStock, TLC

CONSTANTS i1, i2, p1, p2

OneOf(p) == [product |-> p, qty |-> 1]

(* Two products in stock, one invoice of both and one of the second. *)
SharedLines == (i1 :> <<OneOf(p1), OneOf(p2)>>) @@ (i2 :> <<OneOf(p2)>>)
OneAndTwo == p1 :> 1 @@ p2 :> 2

Job(k, i) == [kind |-> k, inv |-> i, n |-> 1]
Again(j) == [j EXCEPT !.n = 2]
Admin(i, s) == [kind |-> "admin", inv |-> i, target |-> s, n |-> 1]
Edit(p, v, b) == [kind |-> "edit", product |-> p, put |-> v, on |-> b]

(* i1 is decided by the timer and the bypass's message and cancelled,      *)
(* while i2, which a timer, a rejection and an administrator decide,       *)
(* competes with it for p2, and the last unit of p1 is edited away.        *)
EverySide ==
  {Job("create", i1), Job("timer", i1), Job("validated", i1), Admin(i1, "CANCELLED"),
   Job("create", i2), Job("timer", i2), Job("rejected", i2), Admin(i2, "CONFIRMED"),
   Edit(p1, 0, None)}

(* One invoice, its timer and two messages that it was validated. *)
Duplicates ==
  {Job("create", i1), Job("timer", i1), Job("validated", i1), Again(Job("validated", i1))}
=============================================================================
