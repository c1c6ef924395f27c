------------------------------ MODULE Requests ------------------------------
(***************************************************************************)
(* What happens to a request between the router and the database: the two  *)
(* units of work it runs, the connections they take from one pool, the     *)
(* checks, locks and unique indexes of the write, the audit row that       *)
(* follows it, and the ways a request ends.                                *)
(*                                                                         *)
(* A unit of work takes a connection at its first query and gives it back  *)
(* at its end.  While the router's session holds one, the handler waits    *)
(* for a second; a wait ends with a free connection or with the pool's     *)
(* timeout.  One worker process, that is one pool, is modelled; a crash    *)
(* loses every request in flight.                                          *)
(***************************************************************************)
EXTENDS Routes, Naturals, Sequences, FiniteSets

CONSTANTS Requests,
          Menus,        (* sets of routes: the requests in flight together  *)
                        (* are of one of them                               *)
          Cedulas,      (* cedulas in the payloads; a new row may omit it   *)
          Keys,         (* contended values of a unique column              *)
          Capacity,     (* connections the pool hands out: 5 + 10           *)
          MaxFaults,    (* bounds the statements that fail in the database  *)
                        (* and the crashes of the worker, together          *)
          None

ASSUME RequestConstants ==
  /\ \A menu \in Menus : menu \subseteq AllRoutes
  /\ IsFiniteSet(Requests) /\ Capacity \in Nat \ {0} /\ MaxFaults \in Nat
  /\ None \notin Cedulas \cup Keys \cup Requests

VARIABLES req,      (* each request's call, its place and its reply         *)
          rows,     (* the tables                                           *)
          audits,   (* requests with a row in audit_logs                    *)
          errors,   (* requests with a row in error_logs                    *)
          done,     (* requests whose handler has committed                 *)
          saw,      (* per request, done as it was when it looked for its   *)
                    (* cedula                                               *)
          faults

vars == <<req, rows, audits, errors, done, saw, faults>>

(* An existing row has the id None; an insert draws a new one.             *)
Row(table, id, cedula, key, by) ==
  [table |-> table, id |-> id, active |-> TRUE, cedula |-> cedula, key |-> key, by |-> by]

NoRoute == Route(Anyone, NoHandler, <<>>, "none")
Call(route, id, cedula, key) ==
  [route |-> route, id |-> id, cedula |-> cedula, key |-> key, state |-> "running", at |-> 1,
   phase |-> "ready", holds |-> FALSE, noted |-> FALSE, reply |-> "none"]
NotArrived == [Call(NoRoute, None, None, None) EXCEPT !.state = "new"]

Tables == {"USER", "CLIENT", "PRODUCT", "TAX", "INVOICE"}

Init ==
  /\ req = [r \in Requests |-> NotArrived]
  /\ \E c \in Cedulas \cup {None} : rows = {Row(t, None, c, None, None) : t \in Tables}
  /\ audits = {} /\ errors = {} /\ done = {}
  /\ saw = [r \in Requests |-> {}]
  /\ faults = 0

-----------------------------------------------------------------------------
(* The pool.                                                               *)
InUse ==
  Cardinality({r \in Requests : req[r].holds})
  + Cardinality({r \in Requests : req[r].phase # "ready"})
(* Fault: one connection too many. *)
OneMore == InUse <= Capacity

Free == InUse < Capacity

Running(r) == req[r].state = "running"
AtStep(r, steps) ==
  /\ Running(r) /\ req[r].phase = "ready" /\ req[r].at <= Len(req[r].route.program)
  /\ req[r].route.program[req[r].at] \in steps

OuterSteps == {"before", "audit", "outer"}
InnerSteps == {"handle", "inner", "reread"}

(* The router's session keeps the connection it has; a handler's takes one. *)
CanQuery(r) == Free \/ (AtStep(r, OuterSteps) /\ req[r].holds)
Waits(r) == AtStep(r, OuterSteps \cup InnerSteps) /\ ~CanQuery(r)

Advance(r) == req' = [req EXCEPT ![r].at = @ + 1, ![r].phase = "ready"]
AdvanceHolding(r, noted) ==
  req' = [req EXCEPT ![r].at = @ + 1, ![r].holds = TRUE, ![r].noted = noted]

(* An exception rolls both units of work back.  An AppError or an          *)
(* HTTPException is the reply; any other goes to the global handler.       *)
Leaves(r, state, reply) ==
  req' = [req EXCEPT ![r].state = state, ![r].reply = reply, ![r].phase = "ready",
                     ![r].holds = FALSE, ![r].noted = FALSE]

(* Fault: the exception is swallowed. *)
GoesOn(r) == Advance(r)

Refused(r) == Leaves(r, "ended", "refused")
Raised(r) == Leaves(r, "raised", "none")

-----------------------------------------------------------------------------
(* Arrival: require_role, and the payloads.                                *)
Ids(r, route) ==   (* the existing row, or the one another request inserts, if it does *)
  IF route.handler.does \in {"read", "insert"} THEN {None} ELSE {None} \cup (Requests \ {r})
CedulasOf(route) ==
  IF route.handler.table \in {"USER", "CLIENT"} /\ route.handler.does \in {"insert", "update"}
  THEN Cedulas \cup {None} ELSE {None}
KeysOf(route) ==
  IF route.handler.table # "INVOICE" /\ route.handler.does \in {"insert", "update"}
  THEN Keys \cup {None} ELSE {None}

Offered ==
  UNION {menu \in Menus : \A r \in Requests : req[r].route \in menu \cup {NoRoute}}

Arrives(r) ==
  /\ req[r].state = "new"
  /\ \E route \in Offered : \E id \in Ids(r, route), c \in CedulasOf(route), k \in KeysOf(route) :
       \/ req' = [req EXCEPT ![r] = Call(route, id, c, k)]
       \/ route.needs = Admin
          /\ req' = [req EXCEPT ![r].state = "ended", ![r].reply = "refused"]
  /\ UNCHANGED <<rows, audits, errors, done, saw, faults>>

Called(r) == req[r].route.handler

(* The row a call is about: its target, or the new one. *)
Target(r) == IF Called(r).does = "insert" THEN r ELSE req[r].id
Found(r) == {x \in rows : x.table = Called(r).table /\ x.id = Target(r)}

-----------------------------------------------------------------------------
(* The router's session.                                                   *)

(* PUT /taxes reads is_active of a model that has none. *)
BeforeFails(r) == Called(r).table = "TAX" /\ Found(r) # {}

ReadsBefore(r) ==
  /\ AtStep(r, {"before"}) /\ CanQuery(r)
  /\ IF BeforeFails(r) THEN Raised(r) ELSE AdvanceHolding(r, FALSE)
  /\ UNCHANGED <<rows, audits, errors, done, saw, faults>>

RunsQueries(r) ==
  /\ AtStep(r, {"outer"}) /\ CanQuery(r)
  /\ AdvanceHolding(r, FALSE)
  /\ UNCHANGED <<rows, audits, errors, done, saw, faults>>

(* json.dumps of a payload that holds a Decimal: price, current_rate. *)
DetailFails(r) == Called(r).does = "insert" /\ Called(r).table \in {"PRODUCT", "TAX"}

WritesAudit(r) ==
  /\ AtStep(r, {"audit"}) /\ CanQuery(r)
  /\ IF DetailFails(r) THEN Raised(r) ELSE AdvanceHolding(r, TRUE)
  /\ UNCHANGED <<rows, audits, errors, done, saw, faults>>

(* Fault: the reply leaves without the commit of the router's session. *)
RepliesAtOnce(r) ==
  /\ Running(r) /\ req[r].at > Len(req[r].route.program)
  /\ Leaves(r, "ended", "ok")
  /\ UNCHANGED <<rows, audits, errors, done, saw, faults>>

(* The router's unit of work commits, and the reply is sent. *)
Replies(r) ==
  /\ Running(r) /\ req[r].at > Len(req[r].route.program)
  /\ Leaves(r, "ended", "ok")
  /\ audits' = IF req[r].noted THEN audits \cup {r} ELSE audits
  /\ UNCHANGED <<rows, errors, done, saw, faults>>

-----------------------------------------------------------------------------
(* The handler's unit of work.                                             *)

(* Other rows, active or not, with the same cedula: find_by_cedula. *)
Namesakes(r) ==
  IF req[r].cedula = None THEN {}
  ELSE {x \in rows : x.table = Called(r).table /\ x.cedula = req[r].cedula}
KeyTaken(r) ==
  req[r].key # None /\ \E x \in rows :
    x.table = Called(r).table /\ x.key = req[r].key /\ x.id # Target(r)

Missing(r) == Called(r).needs = "row" /\ Found(r) = {}

(* find_by_cedula raises when the cedula is there twice already.  A new    *)
(* user's email and username are looked up before the cedula.              *)
CheckRaises(r) ==
  /\ Cedula \in Called(r).seeks /\ Cardinality(Namesakes(r)) > 1
  /\ ~(Called(r).table = "USER" /\ Called(r).does = "insert" /\ KeyTaken(r))

(* Fault: the duplicate is not looked for when a row is updated. *)
RefusesInsertsOnly(r) ==
  \/ Called(r).does = "refuse"
  \/ Called(r).does = "insert" /\ Cedula \in Called(r).seeks /\ Namesakes(r) # {}

CheckRefuses(r) ==
  \/ Called(r).does = "refuse"
  \/ Cedula \in Called(r).seeks /\ \E x \in Namesakes(r) : x.id # Target(r)
  \/ Unique \in Called(r).seeks /\ KeyTaken(r)

HandlerChecks(r) ==
  /\ AtStep(r, {"handle"}) /\ CanQuery(r)
  /\ saw' = IF req[r].cedula = None THEN saw ELSE [saw EXCEPT ![r] = done]
  /\ IF Missing(r) THEN Refused(r)
     ELSE IF CheckRaises(r) THEN Raised(r)
     ELSE IF CheckRefuses(r) THEN Refused(r)
     ELSE req' = [req EXCEPT ![r].phase = "checked"]
  /\ UNCHANGED <<rows, audits, errors, done, faults>>

(* The flush: it waits for an uncommitted write of the same row or of the  *)
(* same value of a unique column, and raises if that value is taken now or *)
(* the row to update is gone.                                              *)
Blocked(r) ==
  \E o \in Requests \ {r} :
    /\ req[o].phase = "written" /\ Called(o).table = Called(r).table
    /\ Target(o) = Target(r) \/ (req[o].key = req[r].key /\ req[r].key # None)

FlushRaises(r) == KeyTaken(r) \/ Missing(r)

HandlerWrites(r) ==
  /\ req[r].phase = "checked" /\ ~Blocked(r)
  /\ IF FlushRaises(r) THEN Raised(r) ELSE req' = [req EXCEPT ![r].phase = "written"]
  /\ UNCHANGED <<rows, audits, errors, done, saw, faults>>

Updated(x, r) ==
  [x EXCEPT !.cedula = IF req[r].cedula = None THEN @ ELSE req[r].cedula,
            !.by = IF req[r].cedula = None THEN @ ELSE r,
            !.key = IF req[r].key = None THEN @ ELSE req[r].key]

Effect(r) ==
  LET does == Called(r).does  keep == rows \ Found(r) IN
  CASE does = "insert" ->
         rows \cup {Row(Called(r).table, r, req[r].cedula, req[r].key, r)}
    [] does = "update" -> keep \cup {Updated(x, r) : x \in Found(r)}
    [] does = "deactivate" -> keep \cup {[x EXCEPT !.active = FALSE] : x \in Found(r)}
    [] does = "delete" -> keep
    [] does = "touch" -> rows

HandlerCommits(r) ==
  /\ req[r].phase = "written"
  /\ rows' = Effect(r)
  /\ done' = done \cup {r}
  /\ Advance(r)
  /\ UNCHANGED <<audits, errors, saw, faults>>

(* A handler that only reads may find no row, or one of another seller. *)
HandlerReads(r) ==
  /\ AtStep(r, {"inner"}) /\ CanQuery(r)
  /\ Advance(r) \/ Refused(r)
  /\ UNCHANGED <<rows, audits, errors, done, saw, faults>>

Rereads(r) ==
  /\ AtStep(r, {"reread"}) /\ CanQuery(r)
  /\ IF Found(r) = {} THEN Refused(r) ELSE Advance(r)
  /\ UNCHANGED <<rows, audits, errors, done, saw, faults>>

-----------------------------------------------------------------------------
(* What goes wrong.                                                        *)

(* Fault: the pool waits for ever. *)
WaitsForEver(r) == FALSE /\ UNCHANGED vars

TimesOut(r) ==
  /\ Waits(r) /\ Raised(r)
  /\ UNCHANGED <<rows, audits, errors, done, saw, faults>>

(* The database fails a statement or a commit. *)
Breaks(r) ==
  /\ Running(r) /\ faults < MaxFaults
  /\ faults' = faults + 1 /\ Raised(r)
  /\ UNCHANGED <<rows, audits, errors, done, saw>>

(* The global handler: a row in error_logs in a unit of work of its own,   *)
(* which may fail unnoticed, and the reply 500.                            *)
LogsError(r) ==
  /\ req[r].state = "raised"
  /\ Leaves(r, "ended", "error")
  /\ errors' \in IF Free THEN {errors \cup {r}} ELSE {errors}
  /\ UNCHANGED <<rows, audits, done, saw, faults>>

Crashes ==
  /\ faults < MaxFaults /\ faults' = faults + 1
  /\ req' = [r \in Requests |->
       IF req[r].state \in {"running", "raised"}
       THEN [req[r] EXCEPT !.state = "ended", !.reply = "lost", !.phase = "ready",
                           !.holds = FALSE, !.noted = FALSE]
       ELSE req[r]]
  /\ UNCHANGED <<rows, audits, errors, done, saw>>

-----------------------------------------------------------------------------
Step(r) ==
  \/ ReadsBefore(r) \/ RunsQueries(r) \/ WritesAudit(r) \/ Replies(r)
  \/ HandlerChecks(r) \/ HandlerWrites(r) \/ HandlerCommits(r) \/ HandlerReads(r) \/ Rereads(r)
  \/ TimesOut(r) \/ LogsError(r)

Next == Crashes \/ \E r \in Requests : Arrives(r) \/ Step(r) \/ Breaks(r)

(* The event loop serves every request it has; the database answers, and   *)
(* the pool's timeout elapses.                                             *)
Fairness == \A r \in Requests : WF_vars(Step(r))

Spec == Init /\ [][Next]_vars /\ Fairness

-----------------------------------------------------------------------------
TypeOK ==
  /\ rows \subseteq [table : Tables, id : Requests \cup {None}, active : BOOLEAN,
                     cedula : Cedulas \cup {None}, key : Keys \cup {None}, by : Requests \cup {None}]
  /\ audits \subseteq Requests /\ errors \subseteq Requests /\ done \subseteq Requests
  /\ saw \in [Requests -> SUBSET Requests]
  /\ faults \in 0 .. MaxFaults
  /\ req \in [Requests ->
       [route : (UNION Menus) \cup {NoRoute}, id : Requests \cup {None}, cedula : Cedulas \cup {None},
        key : Keys \cup {None}, state : {"new", "running", "raised", "ended"}, at : 1 .. 4,
        phase : {"ready", "checked", "written"}, holds : BOOLEAN, noted : BOOLEAN,
        reply : {"none", "ok", "refused", "error", "lost"}]]
  /\ InUse <= Capacity

Audited(r) == req[r].route.logs # "none"
Ended(r, reply) == req[r].state = "ended" /\ req[r].reply = reply

(* What the caller is told is what happened: after a success the change is *)
(* committed and audited, after a refusal nothing was changed.             *)
RepliesAreTrue ==
  \A r \in Requests :
    /\ Ended(r, "ok") /\ Called(r).does # "read" => r \in done
    /\ Ended(r, "ok") /\ Audited(r) => r \in audits
    /\ Ended(r, "refused") => r \notin done

(* No audit row speaks of a change that was rolled back. *)
AuditsAreTrue == audits \subseteq done

(* Two rows carry one cedula only if a registration, which does not check, *)
(* wrote one of them, or their two writers checked before either committed.*)
Registered(w) == w # None /\ Cedula \notin Called(w).seeks
Overlapped(v, w) == v # None /\ w # None /\ v \notin saw[w] /\ w \notin saw[v]

CedulaTwiceOnlyByOverlap ==
  \A x, y \in rows :
    x.table = y.table /\ x.id # y.id /\ x.cedula = y.cedula /\ x.cedula # None
      => Registered(x.by) \/ Registered(y.by) \/ Overlapped(x.by, y.by)

(* Every request is answered or lost: requests that wait for each other's  *)
(* connections or rows do not wait for ever.                               *)
EveryRequestEnds ==
  \A r \in Requests : req[r].state \in {"running", "raised"} ~> req[r].state = "ended"

=============================================================================
