----------------------------- MODULE MCRequests -----------------------------
(***************************************************************************)
(* TLC instances of Requests.  Requests on different tables meet in the    *)
(* pool only, where a route counts by its steps: it is enough to combine   *)
(* the routes of one table, and two that only read, among themselves.      *)
(***************************************************************************)
EXTENDS Requests

Reading == {Read(Owner), Query(Admin)}
RoutesOn(table) == {route \in AllRoutes : route.handler.table = table}
OneTableAtATime == {RoutesOn(table) \cup Reading : table \in Tables}
=============================================================================
