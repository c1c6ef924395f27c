------------------------- MODULE MCInvoiceNumbering -------------------------
(***************************************************************************)
(* TLC instance of InvoiceNumbering.  Transactions are interchangeable,    *)
(* but symmetry is unsound for the liveness property and is not used.      *)
(***************************************************************************)
EXTENDS InvoiceNumbering
=============================================================================
