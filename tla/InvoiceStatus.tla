---------------------------- MODULE InvoiceStatus ----------------------------
(***************************************************************************)
(* The invoice status enum and its transition table, as the code has it:   *)
(* the module docstring of invoice_status.py does not list the step from   *)
(* PENDING_VALIDATION to CONFIRMED, the table does.                        *)
(***************************************************************************)

InvoiceStatuses == {"DRAFT", "PENDING_VALIDATION", "VALIDATED", "REJECTED",
                    "CONFIRMED", "CANCELLED"}

Allowed ==
  [s \in InvoiceStatuses |->
     CASE s = "DRAFT"              -> {"PENDING_VALIDATION"}
       [] s = "PENDING_VALIDATION" -> {"VALIDATED", "REJECTED", "CONFIRMED"}
       [] s = "VALIDATED"          -> {"CONFIRMED"}
       [] s = "CONFIRMED"          -> {"CANCELLED"}
       [] s \in {"REJECTED", "CANCELLED"} -> {}]

CanTransition(src, dst) == dst \in Allowed[src]
=============================================================================
