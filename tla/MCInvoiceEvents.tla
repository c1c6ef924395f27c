-------------------------- MODULE MCInvoiceEvents --------------------------
(***************************************************************************)
(* TLC instances of InvoiceEvents.                                         *)
(***************************************************************************)
EXTENDS InvoiceEvents, TLC

(* Workers and invoices differ by name only.  Used by the safety runs; the *)
(* liveness runs do without it.                                            *)
Symmetry == Permutations(Workers) \cup Permutations(Invoices)
=============================================================================
