------------------------------- MODULE Routes -------------------------------
(***************************************************************************)
(* The endpoints of the API, router by router, as programs of a few steps. *)
(*                                                                         *)
(* A router opens a unit of work, and every handler it calls opens another *)
(* of its own.  A step says which of the two queries the database:         *)
(*   before   the router's session reads the row, for the audit            *)
(*   handle   the handler's unit of work: checks, one write, commit        *)
(*   inner    a handler's unit of work that only reads                     *)
(*   audit    the router's session inserts the audit row                   *)
(*   reread   a Get handler reads the new row in a unit of work of its own *)
(*   outer    the router's session runs the queries                        *)
(* After the last step the router's unit of work commits.                  *)
(***************************************************************************)
EXTENDS Handlers

Anyone == "any"
Admin == "ADMINISTRATOR"
Owner == "owner"         (* an administrator, or the seller of the invoice *)

Route(needs, handler, program, logs) ==
  [needs |-> needs, handler |-> handler, program |-> program, logs |-> logs]

Read(needs) == Route(needs, NoHandler, <<"inner">>, "none")
Query(needs) == Route(needs, NoHandler, <<"outer">>, "none")
Silent(needs, handler) == Route(needs, handler, <<"handle">>, "none")
Create(needs, handler) == Route(needs, handler, <<"handle", "audit", "reread">>, "CREATE")
Update(handler) == Route(Admin, handler, <<"before", "handle", "audit">>, "UPDATE")
Change(handler) == Route(Admin, handler, <<"handle", "audit">>, "STATUS_CHANGE")

(* users.py: the whole router asks for the administrator. *)
UsersListings ==
  [list_users |-> Read(Admin), list_all_roles |-> Read(Admin), list_error_logs |-> Read(Admin),
   get_user |-> Read(Admin)]
UsersRouter ==
  [get_user_roles |-> Read(Admin), create_user |-> Create(Admin, CreateUserHandler), update_user |-> Update(UpdateUserHandler),
   delete_user |-> Change(DeleteUserHandler), unlock_user |-> Silent(Admin, UnlockUserHandler)]

(* The replacement of roles, audited as an update of the user. *)
AssignRolesRoute == [assign_roles |-> Update(AssignRolesHandler)]

ClientsRouter ==
  [list_clients |-> Read(Anyone), get_client |-> Read(Anyone),
   create_client |-> Create(Anyone, CreateClientHandler),
   update_client |-> Update(UpdateClientHandler), delete_client |-> Change(DeleteClientHandler)]

ProductsRouter ==
  [list_products |-> Read(Anyone), list_products_for_sale |-> Read(Anyone),
   get_product |-> Read(Anyone), create_product |-> Create(Admin, CreateProductHandler),
   update_product |-> Update(UpdateProductHandler),
   delete_product |-> Change(DeleteProductHandler)]

(* A tax has no is_active: its row is deleted. *)
TaxesRouter ==
  [list_taxes |-> Read(Anyone), get_tax |-> Read(Anyone),
   create_tax |-> Create(Admin, CreateTaxHandler), update_tax |-> Update(UpdateTaxHandler),
   delete_tax |-> Change(DeleteTaxHandler)]

(* list_invoices filters instead of refusing.  PATCH /invoices/{id} asks   *)
(* for no role and leaves no audit row.                                    *)
InvoicesListings ==
  [list_invoices |-> Read(Anyone), get_invoice |-> Read(Owner),
   get_invoice_by_number |-> Read(Owner)]
InvoicesRouter ==
  [create_invoice |-> Create(Anyone, CreateInvoiceHandler),
   update_invoice |-> Silent(Anyone, UpdateInvoiceHandler),
   change_invoice_status |-> Change(ChangeInvoiceStatusHandler)]

InvoicePdfRouter == [invoice_pdf |-> Read(Owner), invoice_pdf_by_number |-> Read(Owner)]

(* register: the handler inserts in its own unit of work, the router's     *)
(* session reads the new user; no audit row.  The tokens' side of the      *)
(* other endpoints is in Accounts.                                         *)
AuthRouter ==
  [register |-> Route(Admin, RegisterUserHandler, <<"handle", "outer">>, "none"),
   me |-> Query(Anyone), refresh |-> Read(Anyone), logout |-> Read(Anyone)]

ReportsRouter ==
  [summary |-> Query(Admin), top_products |-> Query(Admin), top_clients |-> Query(Admin),
   top_sellers |-> Query(Admin), by_day |-> Query(Admin), sales_xlsx |-> Query(Admin)]

RolesRouter == [list_roles |-> Read(Admin)]
AuditRouter == [list_audit_logs |-> Read(Admin)]

RoutesOf(router) == {router[name] : name \in DOMAIN router}

(* create_app. *)
AllRoutes ==
  UNION {RoutesOf(router) : router \in
    {UsersListings, UsersRouter, AssignRolesRoute, ClientsRouter, ProductsRouter, TaxesRouter,
     InvoicesListings, InvoicesRouter, InvoicePdfRouter, AuthRouter, ReportsRouter, RolesRouter,
     AuditRouter}}
=============================================================================
