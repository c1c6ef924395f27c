------------------------------ MODULE Handlers ------------------------------
(***************************************************************************)
(* The use-case handlers as the requests see them.  Each opens a unit of   *)
(* work, looks up what it looks up, writes one row and commits:            *)
(*   needs   "row": NotFoundError unless its row exists;  "none"           *)
(*   seeks   the columns it searches for a duplicate before it writes      *)
(*   does    insert, update, deactivate (is_active off), delete, touch     *)
(*           (a write this model does not look into), refuse, read         *)
(***************************************************************************)

Handler(table, does, needs, seeks) ==
  [table |-> table, does |-> does, needs |-> needs, seeks |-> seeks]

Unique == "unique"     (* email, username or name *)
Cedula == "cedula"

CreateUserHandler == Handler("USER", "insert", "none", {Unique, Cedula})
UpdateUserHandler == Handler("USER", "update", "row", {Unique, Cedula})
DeleteUserHandler == Handler("USER", "deactivate", "none", {})
AssignRolesHandler == Handler("USER", "touch", "row", {})
UnlockUserHandler == Handler("USER", "touch", "row", {})
RegisterUserHandler == Handler("USER", "insert", "none", {Unique})

(* The unique email of a client is not looked up, nor are unique names. *)
CreateClientHandler == Handler("CLIENT", "insert", "none", {Cedula})
UpdateClientHandler == Handler("CLIENT", "update", "row", {Cedula})
DeleteClientHandler == Handler("CLIENT", "deactivate", "none", {})

CreateProductHandler == Handler("PRODUCT", "insert", "none", {})
UpdateProductHandler == Handler("PRODUCT", "update", "row", {})
DeleteProductHandler == Handler("PRODUCT", "deactivate", "none", {})

CreateTaxHandler == Handler("TAX", "insert", "none", {})
UpdateTaxHandler == Handler("TAX", "update", "row", {})
DeleteTaxHandler == Handler("TAX", "delete", "none", {})

(* The invoice handlers are the subject of modules of their own.  A PATCH  *)
(* of an invoice is always refused: no invoice is ever a DRAFT.            *)
CreateInvoiceHandler == Handler("INVOICE", "insert", "none", {})
UpdateInvoiceHandler == Handler("INVOICE", "refuse", "row", {})
ChangeInvoiceStatusHandler == Handler("INVOICE", "touch", "row", {})

NoHandler == Handler("none", "read", "none", {})
=============================================================================
