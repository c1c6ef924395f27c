--------------------------- MODULE RequestsProofs ---------------------------
(***************************************************************************)
(* Proofs about Requests, for any number of requests, any mix of routes    *)
(* and any capacity of the pool.                                           *)
(*                                                                         *)
(* What is true of an answer follows from where its request is in its      *)
(* route's program, and that from the shape all routes have: one handler   *)
(* step at most, the audit right after it, nothing that can refuse after a *)
(* change but the re-reading of a new row.                                 *)
(***************************************************************************)
EXTENDS Requests, FiniteSetTheorems, TLAPS

-----------------------------------------------------------------------------
(* The shape of a route's program.                                         *)
HandleAt(route) ==
  IF route.handler.does = "read" THEN 0 ELSE IF route.program[1] = "before" THEN 2 ELSE 1

WellShaped(route) ==
  LET p == route.program
      h == HandleAt(route)
      does == route.handler.does
  IN  /\ Len(p) \in 1 .. 3 /\ h <= Len(p)
      /\ does \in {"insert", "update", "deactivate", "delete", "touch", "refuse", "read"}
      /\ \A i \in 1 .. Len(p) :
           /\ p[i] = "handle" <=> i = h
           /\ p[i] = "audit" <=> route.logs # "none" /\ i = h + 1
           /\ p[i] = "reread" => does = "insert" /\ i = h + 2 /\ route.logs # "none"
           /\ p[i] = "inner" => does = "read"
           /\ p[i] = "before" => i < h
           /\ p[i] = "outer" => route.logs = "none"
      /\ does # "read" => route.handler.table \in Tables
      /\ route.logs # "none" => h # 0 /\ h + 1 <= Len(p)
      /\ does = "delete" => route.handler.table = "TAX"

LEMMA PlainShapes ==
  ASSUME NEW needs
  PROVE  /\ WellShaped(Read(needs)) /\ WellShaped(Query(needs))
         /\ WellShaped(Route(needs, RegisterUserHandler, <<"handle", "outer">>, "none"))
         /\ WellShaped(Silent(needs, UnlockUserHandler))
         /\ WellShaped(Silent(needs, UpdateInvoiceHandler))
  BY DEF WellShaped, HandleAt, Read, Query, Silent, Route, Handler, NoHandler,
         RegisterUserHandler, UnlockUserHandler, UpdateInvoiceHandler, Tables

LEMMA CreateShape ==
  ASSUME NEW needs, NEW table \in Tables, NEW seeks
  PROVE  WellShaped(Create(needs, Handler(table, "insert", "none", seeks)))
  BY DEF WellShaped, HandleAt, Create, Route, Handler

LEMMA UpdateShape ==
  ASSUME NEW table \in Tables, NEW does \in {"update", "touch"}, NEW seeks
  PROVE  WellShaped(Update(Handler(table, does, "row", seeks)))
  BY DEF WellShaped, HandleAt, Update, Route, Handler

LEMMA ChangeShape ==
  ASSUME NEW table \in Tables, NEW does \in {"deactivate", "touch", "delete"}, NEW needs, NEW seeks,
         does = "delete" => table = "TAX"
  PROVE  WellShaped(Change(Handler(table, does, needs, seeks)))
  BY DEF WellShaped, HandleAt, Change, Route, Handler

LEMMA RoutesAreWellShaped == \A route \in AllRoutes : WellShaped(route)
  <1>1. \A route \in RoutesOf(UsersListings) \cup RoutesOf(InvoicePdfRouter) \cup RoutesOf(ReportsRouter)
                     \cup RoutesOf(RolesRouter) \cup RoutesOf(AuditRouter) \cup RoutesOf(InvoicesListings) :
          WellShaped(route)
    BY PlainShapes DEF RoutesOf, UsersListings, InvoicePdfRouter, ReportsRouter, RolesRouter,
                       AuditRouter, InvoicesListings
  <1>2. \A route \in RoutesOf(UsersRouter) \cup RoutesOf(AssignRolesRoute) : WellShaped(route)
    BY PlainShapes, CreateShape, UpdateShape, ChangeShape
    DEF RoutesOf, UsersRouter, AssignRolesRoute, CreateUserHandler, UpdateUserHandler,
        DeleteUserHandler, AssignRolesHandler, Cedula, Unique, Tables
  <1>3. \A route \in RoutesOf(ClientsRouter) : WellShaped(route)
    BY PlainShapes, CreateShape, UpdateShape, ChangeShape
    DEF RoutesOf, ClientsRouter, CreateClientHandler, UpdateClientHandler, DeleteClientHandler, Tables
  <1>4. \A route \in RoutesOf(ProductsRouter) : WellShaped(route)
    BY PlainShapes, CreateShape, UpdateShape, ChangeShape
    DEF RoutesOf, ProductsRouter, CreateProductHandler, UpdateProductHandler, DeleteProductHandler, Tables
  <1>5. \A route \in RoutesOf(TaxesRouter) : WellShaped(route)
    BY PlainShapes, CreateShape, UpdateShape, ChangeShape
    DEF RoutesOf, TaxesRouter, CreateTaxHandler, UpdateTaxHandler, DeleteTaxHandler, Tables
  <1>6. \A route \in RoutesOf(InvoicesRouter) : WellShaped(route)
    BY PlainShapes, CreateShape, UpdateShape, ChangeShape
    DEF RoutesOf, InvoicesRouter, CreateInvoiceHandler, ChangeInvoiceStatusHandler, Tables
  <1>7. \A route \in RoutesOf(AuthRouter) : WellShaped(route)
    BY PlainShapes DEF RoutesOf, AuthRouter
  <1>8. QED
    BY <1>1, <1>2, <1>3, <1>4, <1>5, <1>6, <1>7 DEF AllRoutes

-----------------------------------------------------------------------------
(* Where a request is.                                                     *)
Requested ==
  [route : AllRoutes \cup {NoRoute}, id : Requests \cup {None}, cedula : Cedulas \cup {None},
   key : Keys \cup {None}, state : {"new", "running", "raised", "ended"}, at : Nat,
   phase : {"ready", "checked", "written"}, holds : BOOLEAN, noted : BOOLEAN,
   reply : {"none", "ok", "refused", "error", "lost"}]

(* What a request keeps from its arrival on. *)
SameCall(q, o) == q.route = o.route /\ q.id = o.id /\ q.cedula = o.cedula /\ q.key = o.key

LEMMA LeavesTo ==
  ASSUME req \in [Requests -> Requested], NEW r \in Requests,
         NEW state \in {"ended", "raised"}, NEW reply \in {"none", "ok", "refused", "error"},
         Leaves(r, state, reply)
  PROVE  /\ req' \in [Requests -> Requested] /\ \A o \in Requests \ {r} : req'[o] = req[o]
         /\ SameCall(req'[r], req[r]) /\ req'[r].state = state /\ req'[r].reply = reply
         /\ req'[r].phase = "ready" /\ ~ req'[r].noted
         /\ ~ req'[r].holds /\ req'[r].at = req[r].at
  <1> DEFINE q == [req[r] EXCEPT !.state = state, !.reply = reply, !.phase = "ready",
                                 !.holds = FALSE, !.noted = FALSE]
  <1>1. req' = [req EXCEPT ![r] = q]
    BY DEF Leaves
  <1>2. q \in Requested
    <2>1. req[r] \in Requested
      OBVIOUS
    <2>2. QED
      BY <2>1 DEF Requested
  <1>3. /\ SameCall(q, req[r]) /\ q.state = state /\ q.reply = reply
        /\ q.phase = "ready" /\ ~ q.noted /\ ~ q.holds /\ q.at = req[r].at
    <2>1. req[r] \in Requested
      OBVIOUS
    <2>2. QED
      BY <2>1 DEF Requested, SameCall
  <1> HIDE DEF q
  <1>4. QED
    BY <1>1, <1>2, <1>3

LEMMA GoesOnTo ==
  ASSUME req \in [Requests -> Requested], NEW r \in Requests, Advance(r)
  PROVE  /\ req' \in [Requests -> Requested] /\ \A o \in Requests \ {r} : req'[o] = req[o]
         /\ SameCall(req'[r], req[r]) /\ req'[r].state = req[r].state
         /\ req'[r].at = req[r].at + 1 /\ req'[r].phase = "ready"
         /\ req'[r].noted = req[r].noted /\ req'[r].reply = req[r].reply
         /\ req'[r].holds = req[r].holds
  <1> DEFINE q == [req[r] EXCEPT !.at = req[r].at + 1, !.phase = "ready"]
  <1>1. req' = [req EXCEPT ![r] = q]
    BY DEF Advance
  <1>2. q \in Requested
    <2> DEFINE next == req[r].at + 1
    <2>1. req[r] \in Requested
      OBVIOUS
    <2>2. next \in Nat
      BY <2>1 DEF Requested
    <2> HIDE DEF next
    <2>3. [req[r] EXCEPT !.at = next, !.phase = "ready"] \in Requested
      BY <2>1, <2>2 DEF Requested
    <2>4. QED
      BY <2>3 DEF next
  <1>3. /\ SameCall(q, req[r]) /\ q.state = req[r].state /\ q.at = req[r].at + 1
        /\ q.phase = "ready" /\ q.noted = req[r].noted /\ q.reply = req[r].reply
        /\ q.holds = req[r].holds
    <2>1. req[r] \in Requested
      OBVIOUS
    <2>2. QED
      BY <2>1 DEF Requested, SameCall
  <1> HIDE DEF q
  <1>4. QED
    BY <1>1, <1>2, <1>3

LEMMA GoesOnHolding ==
  ASSUME req \in [Requests -> Requested], NEW r \in Requests, NEW noted \in BOOLEAN,
         AdvanceHolding(r, noted)
  PROVE  /\ req' \in [Requests -> Requested] /\ \A o \in Requests \ {r} : req'[o] = req[o]
         /\ SameCall(req'[r], req[r]) /\ req'[r].state = req[r].state
         /\ req'[r].at = req[r].at + 1 /\ req'[r].phase = req[r].phase
         /\ req'[r].noted = noted /\ req'[r].reply = req[r].reply
  <1> DEFINE q == [req[r] EXCEPT !.at = req[r].at + 1, !.holds = TRUE, !.noted = noted]
  <1>1. req' = [req EXCEPT ![r] = q]
    BY DEF AdvanceHolding
  <1>2. q \in Requested
    <2> DEFINE next == req[r].at + 1
    <2>1. req[r] \in Requested
      OBVIOUS
    <2>2. next \in Nat
      BY <2>1 DEF Requested
    <2> HIDE DEF next
    <2>3. [req[r] EXCEPT !.at = next, !.holds = TRUE, !.noted = noted] \in Requested
      BY <2>1, <2>2 DEF Requested
    <2>4. QED
      BY <2>3 DEF next
  <1>3. /\ SameCall(q, req[r]) /\ q.state = req[r].state /\ q.at = req[r].at + 1
        /\ q.phase = req[r].phase /\ q.noted = noted /\ q.reply = req[r].reply
    <2>1. req[r] \in Requested
      OBVIOUS
    <2>2. QED
      BY <2>1 DEF Requested, SameCall
  <1> HIDE DEF q
  <1>4. QED
    BY <1>1, <1>2, <1>3

-----------------------------------------------------------------------------
(* The handler's change is committed from the step after it on, the audit  *)
(* row is waiting from the step after that on.                             *)
Place(r) ==
  LET q == req[r]
      h == HandleAt(q.route)
  IN  /\ Running(r) => q.route \in AllRoutes /\ q.at \in 1 .. Len(q.route.program) + 1
      /\ q.phase # "ready" => Running(r) /\ q.at = h /\ h # 0 /\ Called(r).does # "refuse"
      /\ q.noted => Running(r) /\ r \in done
      /\ r \in done => /\ q.state # "new" /\ Called(r).does # "read"
                       /\ Running(r) => q.at > h
      /\ Running(r) /\ h # 0 /\ q.at > h => r \in done
      /\ Running(r) /\ Audited(r) /\ q.at > h + 1 => q.noted /\ ~ DetailFails(r)

Answered(r) ==
  /\ Ended(r, "ok") /\ Called(r).does # "read" => r \in done
  /\ Ended(r, "ok") /\ Audited(r) => r \in audits
  /\ Ended(r, "refused") => r \notin done

(* Only taxes are deleted: a new row of another table is found again. *)
Stays(r) == r \in done /\ Called(r).does = "insert" /\ Called(r).table # "TAX" => Found(r) # {}

Rows == [table : Tables, id : Requests \cup {None}, active : BOOLEAN,
         cedula : Cedulas \cup {None}, key : Keys \cup {None}, by : Requests \cup {None}]

Typed == req \in [Requests -> Requested] /\ done \subseteq Requests /\ rows \subseteq Rows
RInv == Typed /\ audits \subseteq done /\ \A r \in Requests : Place(r) /\ Answered(r) /\ Stays(r)

LEMMA InitRInv == Init => RInv
  <1> SUFFICES ASSUME Init PROVE RInv
    OBVIOUS
  <1>1. NotArrived \in Requested
    BY DEF NotArrived, Call, NoRoute, Requested
  <1>2. NotArrived.state = "new" /\ NotArrived.phase = "ready" /\ ~ NotArrived.noted
    BY DEF NotArrived, Call
  <1>3. Typed /\ audits \subseteq done
    <2>1. \A t \in Tables, c \in Cedulas \cup {None} : Row(t, None, c, None, None) \in Rows
      BY DEF Row, Rows
    <2>2. rows \subseteq Rows
      BY <2>1 DEF Init
    <2>3. QED
      BY <1>1, <2>2 DEF Init, Typed
  <1>4. ASSUME NEW r \in Requests PROVE Place(r) /\ Answered(r) /\ Stays(r)
    BY <1>2 DEF Init, Place, Answered, Stays, Running, Ended
  <1>5. QED
    BY <1>3, <1>4 DEF RInv

(* The others do not notice. *)
LEMMA OthersStay ==
  ASSUME RInv, NEW r \in Requests, NEW o \in Requests \ {r}, req'[o] = req[o],
         done \subseteq done', done' \subseteq done \cup {r}, audits \subseteq audits'
  PROVE  /\ Place(o)' /\ Answered(o)'
         /\ rows' = rows => Stays(o)'
  <1>1. Place(o) /\ Answered(o) /\ Stays(o)
    BY DEF RInv
  <1>2. o \in done' <=> o \in done
    OBVIOUS
  <1>3. Place(o)'
    BY <1>1, <1>2 DEF Place, Running, Called, Audited, DetailFails
  <1>4. Answered(o)'
    BY <1>1, <1>2 DEF Answered, Ended, Called, Audited
  <1>5. rows' = rows => Stays(o)'
    BY <1>1, <1>2 DEF Stays, Called, Found, Target
  <1>6. QED
    BY <1>3, <1>4, <1>5

(* A request that ends without success. *)
LEMMA LeaveStep ==
  ASSUME RInv, NEW r \in Requests, NEW state \in {"ended", "raised"},
         NEW reply \in {"none", "refused", "error"}, Leaves(r, state, reply),
         reply = "refused" => r \notin done, UNCHANGED <<rows, audits, done>>
  PROVE  RInv'
  <1>1. /\ req' \in [Requests -> Requested] /\ \A o \in Requests \ {r} : req'[o] = req[o]
        /\ SameCall(req'[r], req[r]) /\ req'[r].state = state /\ req'[r].reply = reply
        /\ req'[r].phase = "ready" /\ ~ req'[r].noted
    BY LeavesTo DEF RInv, Typed
  <1>2. Place(r) /\ Stays(r)
    BY DEF RInv
  <1>3. Place(r)' /\ Answered(r)'
    BY <1>1, <1>2 DEF Place, Answered, Running, Ended, Called, SameCall
  <1>4. Stays(r)'
    BY <1>1, <1>2 DEF Stays, Called, Found, Target, SameCall
  <1>5. QED
    BY <1>1, <1>3, <1>4, OthersStay DEF RInv, Typed

(* One more step of the program, done or not done by its end. *)
LEMMA OnStep ==
  ASSUME RInv, NEW r \in Requests, Running(r), UNCHANGED <<rows, audits, done>>,
         req' \in [Requests -> Requested], \A o \in Requests \ {r} : req'[o] = req[o],
         SameCall(req'[r], req[r]), req'[r].state = "running",
         req'[r].at = req[r].at + 1, req'[r].phase = "ready",
         req[r].at <= Len(req[r].route.program),
         req[r].at # HandleAt(req[r].route),
         req'[r].noted => r \in done,
         Audited(r) /\ req[r].at > HandleAt(req[r].route) => req'[r].noted /\ ~ DetailFails(r)
  PROVE  RInv'
  <1>1. Place(r) /\ Stays(r)
    BY DEF RInv
  <1>2. req[r].at \in Nat /\ HandleAt(req[r].route) \in Nat /\ Len(req[r].route.program) \in Nat
    <2>1. WellShaped(req[r].route)
      BY <1>1, RoutesAreWellShaped DEF Place
    <2>2. req[r] \in Requested
      BY DEF RInv, Typed
    <2>3. QED
      BY <2>1, <2>2 DEF WellShaped, HandleAt, Requested
  <1>3. req'[r].route = req[r].route
    BY DEF SameCall
  <1> DEFINE h == HandleAt(req[r].route)
             len == Len(req[r].route.program)
  <1>4. /\ req[r].route \in AllRoutes /\ req[r].at \in 1 .. len + 1
        /\ r \in done => Called(r).does # "read" /\ req[r].at > h
        /\ h # 0 /\ req[r].at > h => r \in done
    BY <1>1 DEF Place
  <1> HIDE DEF h, len
  <1>5. Place(r)'
    <2>1. req'[r].at \in 1 .. len + 1
      BY <1>2, <1>4 DEF len
    <2>2. r \in done => req'[r].at > h
      BY <1>2, <1>4 DEF h
    <2>3. h # 0 /\ req'[r].at > h => r \in done
      BY <1>2, <1>4 DEF h
    <2>4. Audited(r) /\ req'[r].at > h + 1 => req'[r].noted /\ ~ DetailFails(r)
      BY <1>2 DEF h
    <2>5. QED
      BY <1>3, <1>4, <2>1, <2>2, <2>3, <2>4
      DEF h, len, Place, Running, Called, Audited, DetailFails
  <1>6. Answered(r)' /\ Stays(r)'
    BY <1>1 DEF Answered, Ended, Stays, Called, Found, Target, SameCall
  <1>7. QED
    BY <1>5, <1>6, OthersStay DEF RInv, Typed

(* What is known of a request at a step of its program. *)
LEMMA AtAStep ==
  ASSUME RInv, NEW r \in Requests, NEW steps, AtStep(r, steps)
  PROVE  /\ WellShaped(req[r].route) /\ Running(r) /\ req[r].phase = "ready"
         /\ req[r].at \in 1 .. Len(req[r].route.program)
         /\ req[r].route.program[req[r].at] \in steps /\ Place(r) /\ Stays(r)
  <1>1. Place(r) /\ Stays(r) /\ Running(r) /\ req[r].phase = "ready"
        /\ req[r].at <= Len(req[r].route.program) /\ req[r].route.program[req[r].at] \in steps
    BY DEF RInv, AtStep
  <1>2. WellShaped(req[r].route) /\ req[r].at \in 1 .. Len(req[r].route.program) + 1
    BY <1>1, RoutesAreWellShaped DEF Place
  <1>3. Len(req[r].route.program) \in Nat
    BY <1>2 DEF WellShaped
  <1>4. QED
    BY <1>1, <1>2, <1>3

LEMMA ReadingSteps ==
  ASSUME RInv, NEW r \in Requests, ReadsBefore(r) \/ RunsQueries(r) \/ HandlerReads(r)
  PROVE  RInv'
  <1> USE DEF RInv, Typed
  <1>1. CASE ReadsBefore(r)
    <2>1. CASE Raised(r)
      BY <1>1, <2>1, LeaveStep DEF ReadsBefore, Raised
    <2>2. CASE AdvanceHolding(r, FALSE)
      <3>1. AtStep(r, {"before"}) /\ UNCHANGED <<rows, audits, done>>
        BY <1>1 DEF ReadsBefore
      <3>2. req[r].at < HandleAt(req[r].route) /\ HandleAt(req[r].route) \in Nat /\ req[r].at \in Nat
            /\ req[r].at <= Len(req[r].route.program)
        BY <3>1, AtAStep DEF WellShaped, HandleAt
      <3>3. Running(r) /\ req[r].phase = "ready" /\ req[r].state = "running"
        BY <3>1, AtAStep DEF Running
      <3>4. QED
        <4>1. /\ req' \in [Requests -> Requested] /\ \A o \in Requests \ {r} : req'[o] = req[o]
              /\ SameCall(req'[r], req[r]) /\ req'[r].state = "running"
              /\ req'[r].at = req[r].at + 1 /\ req'[r].phase = "ready" /\ req'[r].noted = FALSE
          BY <2>2, <3>3, GoesOnHolding
        <4>2. ~ (req[r].at > HandleAt(req[r].route)) /\ req[r].at # HandleAt(req[r].route)
          BY <3>2
        <4>3. QED
          BY <3>1, <3>2, <3>3, <4>1, <4>2, OnStep
    <2>3. QED
      BY <1>1, <2>1, <2>2 DEF ReadsBefore
  <1>2. CASE RunsQueries(r)
    <2>1. AtStep(r, {"outer"}) /\ AdvanceHolding(r, FALSE) /\ UNCHANGED <<rows, audits, done>>
      BY <1>2 DEF RunsQueries
    <2>2. req[r].at # HandleAt(req[r].route) /\ ~ Audited(r) /\ req[r].at <= Len(req[r].route.program)
      BY <2>1, AtAStep DEF WellShaped, Audited
    <2>3. Running(r) /\ req[r].phase = "ready" /\ req[r].state = "running"
      BY <2>1, AtAStep DEF Running
    <2>4. QED
      BY <2>1, <2>2, <2>3, GoesOnHolding, OnStep
  <1>3. CASE HandlerReads(r)
    <2>1. AtStep(r, {"inner"}) /\ UNCHANGED <<rows, audits, done>>
      BY <1>3 DEF HandlerReads
    <2>2. Called(r).does = "read" /\ req[r].at # HandleAt(req[r].route)
          /\ req[r].at <= Len(req[r].route.program)
      BY <2>1, AtAStep DEF WellShaped, Called
    <2>3. ~ Audited(r) /\ r \notin done
      BY <2>1, <2>2, AtAStep DEF WellShaped, Audited, HandleAt, Called, Place
    <2>4. Running(r) /\ req[r].state = "running" /\ (req[r].noted => r \in done)
      BY <2>1, AtAStep DEF Running, Place
    <2>5. CASE Advance(r)
      BY <2>1, <2>2, <2>3, <2>4, <2>5, GoesOnTo, OnStep
    <2>6. CASE Refused(r)
      BY <2>1, <2>3, <2>6, LeaveStep DEF Refused
    <2>7. QED
      BY <1>3, <2>5, <2>6 DEF HandlerReads
  <1>4. QED
    BY <1>1, <1>2, <1>3

LEMMA AuditStep ==
  ASSUME RInv, NEW r \in Requests, WritesAudit(r)
  PROVE  RInv'
  <1>1. AtStep(r, {"audit"}) /\ UNCHANGED <<rows, audits, done>>
    BY DEF WritesAudit
  <1>2. CASE Raised(r)
    BY <1>1, <1>2, LeaveStep DEF Raised
  <1>3. CASE AdvanceHolding(r, TRUE) /\ ~ DetailFails(r)
    <2>1. /\ req[r].at = HandleAt(req[r].route) + 1 /\ HandleAt(req[r].route) \in Nat \ {0}
          /\ req[r].at <= Len(req[r].route.program)
      BY <1>1, AtAStep DEF WellShaped, HandleAt
    <2>2. r \in done
      BY <1>1, <2>1, AtAStep DEF Place
    <2>3. Running(r) /\ req[r].phase = "ready" /\ req[r].state = "running"
      BY <1>1, AtAStep DEF Running
    <2>4. QED
      <3>1. /\ req' \in [Requests -> Requested] /\ \A o \in Requests \ {r} : req'[o] = req[o]
            /\ SameCall(req'[r], req[r]) /\ req'[r].state = "running"
            /\ req'[r].at = req[r].at + 1 /\ req'[r].phase = "ready" /\ req'[r].noted
        BY <1>3, <2>3, GoesOnHolding DEF RInv, Typed
      <3>2. req[r].at # HandleAt(req[r].route)
        BY <2>1
      <3>3. QED
        BY <1>1, <1>3, <2>1, <2>2, <2>3, <3>1, <3>2, OnStep
  <1>4. QED
    BY <1>2, <1>3 DEF WritesAudit

LEMMA RereadStep ==
  ASSUME RInv, NEW r \in Requests, Rereads(r)
  PROVE  RInv'
  <1>1. AtStep(r, {"reread"}) /\ UNCHANGED <<rows, audits, done>>
    BY DEF Rereads
  <1>2. /\ req[r].at = HandleAt(req[r].route) + 2 /\ HandleAt(req[r].route) \in Nat \ {0}
        /\ Called(r).does = "insert" /\ Audited(r) /\ req[r].at <= Len(req[r].route.program)
    BY <1>1, AtAStep DEF WellShaped, HandleAt, Called, Audited
  <1>3. r \in done /\ req[r].noted /\ ~ DetailFails(r)
    BY <1>1, <1>2, AtAStep DEF Place
  <1>4. Found(r) # {}
    BY <1>1, <1>2, <1>3, AtAStep DEF Stays, DetailFails
  <1>5. Advance(r)
    BY <1>4 DEF Rereads
  <1>6. Running(r) /\ req[r].state = "running"
    BY <1>1, AtAStep DEF Running
  <1>7. QED
    BY <1>1, <1>2, <1>3, <1>5, <1>6, GoesOnTo, OnStep DEF RInv, Typed

LEMMA ReplyStep ==
  ASSUME RInv, NEW r \in Requests, Replies(r)
  PROVE  RInv'
  <1>1. /\ Running(r) /\ req[r].at > Len(req[r].route.program) /\ Leaves(r, "ended", "ok")
        /\ audits' = (IF req[r].noted THEN audits \cup {r} ELSE audits)
        /\ UNCHANGED <<rows, done>>
    BY DEF Replies
  <1>2. /\ req' \in [Requests -> Requested] /\ \A o \in Requests \ {r} : req'[o] = req[o]
        /\ SameCall(req'[r], req[r]) /\ req'[r].state = "ended" /\ req'[r].reply = "ok"
        /\ req'[r].phase = "ready" /\ ~ req'[r].noted
    BY <1>1, LeavesTo DEF RInv, Typed
  <1>3. Place(r) /\ Stays(r)
    BY DEF RInv
  <1>4. /\ WellShaped(req[r].route) /\ req[r].at \in Nat
        /\ Len(req[r].route.program) \in Nat /\ HandleAt(req[r].route) \in Nat
    BY <1>1, <1>3, RoutesAreWellShaped DEF Place, WellShaped, HandleAt
  <1>5. Called(r).does # "read" => r \in done
    BY <1>1, <1>3, <1>4 DEF Place, WellShaped, HandleAt, Called
  <1>6. Audited(r) => r \in audits'
    BY <1>1, <1>3, <1>4 DEF Place, WellShaped, Audited
  <1>7. audits' \subseteq done /\ audits \subseteq audits'
    BY <1>1, <1>3 DEF RInv, Place
  <1>8. Place(r)' /\ Answered(r)'
    BY <1>1, <1>2, <1>3, <1>5, <1>6 DEF Place, Answered, Running, Ended, Called, Audited, SameCall
  <1>9. Stays(r)'
    BY <1>1, <1>2, <1>3 DEF Stays, Called, Found, Target, SameCall
  <1>10. QED
    BY <1>1, <1>2, <1>7, <1>8, <1>9, OthersStay DEF RInv, Typed

-----------------------------------------------------------------------------
(* The handler's unit of work.                                             *)
LEMMA PhaseStep ==
  ASSUME RInv, NEW r \in Requests, NEW phase \in {"checked", "written"},
         Running(r), req[r].at = HandleAt(req[r].route), HandleAt(req[r].route) # 0,
         Called(r).does # "refuse", req' = [req EXCEPT ![r].phase = phase],
         UNCHANGED <<rows, audits, done>>
  PROVE  RInv'
  <1> DEFINE q == [req[r] EXCEPT !.phase = phase]
  <1>1. req[r] \in Requested /\ req \in [Requests -> Requested]
    BY DEF RInv, Typed
  <1>2. /\ q \in Requested /\ SameCall(q, req[r]) /\ q.state = req[r].state /\ q.at = req[r].at
        /\ q.phase = phase /\ q.noted = req[r].noted /\ q.reply = req[r].reply
    BY <1>1 DEF Requested, SameCall
  <1>3. req' = [req EXCEPT ![r] = q]
    OBVIOUS
  <1> HIDE DEF q
  <1>4. /\ req' \in [Requests -> Requested] /\ \A o \in Requests \ {r} : req'[o] = req[o]
        /\ req'[r] = q
    BY <1>1, <1>2, <1>3
  <1>5. Place(r) /\ Answered(r) /\ Stays(r)
    BY DEF RInv
  <1>6. Place(r)'
    BY <1>2, <1>4, <1>5 DEF Place, Running, Called, Audited, DetailFails, SameCall
  <1>7. Answered(r)' /\ Stays(r)'
    BY <1>2, <1>4, <1>5 DEF Answered, Running, Ended, Stays, Called, Found, Target, SameCall
  <1>8. QED
    BY <1>4, <1>6, <1>7, OthersStay DEF RInv, Typed

LEMMA ChecksStep ==
  ASSUME RInv, NEW r \in Requests, HandlerChecks(r)
  PROVE  RInv'
  <1>1. AtStep(r, {"handle"}) /\ UNCHANGED <<rows, audits, done>>
    BY DEF HandlerChecks
  <1>2. req[r].at = HandleAt(req[r].route) /\ HandleAt(req[r].route) # 0 /\ Running(r)
    BY <1>1, AtAStep DEF WellShaped
  <1>3. r \notin done
    <2>1. Place(r) /\ HandleAt(req[r].route) \in Nat
      BY <1>1, AtAStep DEF HandleAt
    <2>2. QED
      BY <1>2, <2>1 DEF Place
  <1>4. CASE Refused(r)
    BY <1>1, <1>3, <1>4, LeaveStep DEF Refused
  <1>5. CASE Raised(r)
    BY <1>1, <1>5, LeaveStep DEF Raised
  <1>6. CASE ~ CheckRefuses(r) /\ req' = [req EXCEPT ![r].phase = "checked"]
    BY <1>1, <1>2, <1>6, PhaseStep DEF CheckRefuses
  <1>7. QED
    BY <1>4, <1>5, <1>6 DEF HandlerChecks

LEMMA WritesStep ==
  ASSUME RInv, NEW r \in Requests, HandlerWrites(r)
  PROVE  RInv'
  <1>1. req[r].phase = "checked" /\ UNCHANGED <<rows, audits, done>>
    BY DEF HandlerWrites
  <1>2. /\ req[r].at = HandleAt(req[r].route) /\ HandleAt(req[r].route) # 0 /\ Running(r)
        /\ Called(r).does # "refuse"
    BY <1>1 DEF RInv, Place
  <1>3. CASE Raised(r)
    BY <1>1, <1>3, LeaveStep DEF Raised
  <1>4. CASE req' = [req EXCEPT ![r].phase = "written"]
    BY <1>1, <1>2, <1>4, PhaseStep
  <1>5. QED
    BY <1>3, <1>4 DEF HandlerWrites

(* What a commit leaves of the tables. *)
LEMMA EffectKeeps ==
  ASSUME RInv, NEW r \in Requests, req[r].phase = "written", rows' = Effect(r)
  PROVE  /\ rows' \subseteq Rows
         /\ Called(r).does = "insert" => \E x \in rows' : x.table = Called(r).table /\ x.id = r
         /\ \A x \in rows : x.table # "TAX" => \E y \in rows' : y.table = x.table /\ y.id = x.id
  <1>1. /\ WellShaped(req[r].route) /\ Called(r).does # "refuse" /\ Called(r).does # "read"
        /\ req[r] \in Requested
    <2>1. Place(r) /\ req[r] \in Requested
      BY DEF RInv, Typed
    <2>2. QED
      BY <2>1, RoutesAreWellShaped DEF Place, HandleAt, Called
  <1>2. rows \subseteq Rows
    BY DEF RInv, Typed
  <1>3. CASE Called(r).does = "insert"
    <2> DEFINE new == Row(Called(r).table, r, req[r].cedula, req[r].key, r)
    <2>1. new \in Rows /\ new.table = Called(r).table /\ new.id = r
      BY <1>1, <1>3 DEF WellShaped, Called, Rows, Row, Requested
    <2>2. rows' = rows \cup {new}
      BY <1>3 DEF Effect
    <2> HIDE DEF new
    <2>3. QED
      BY <1>2, <2>1, <2>2
  <1>4. CASE Called(r).does = "update"
    <2>1. rows' = (rows \ Found(r)) \cup {Updated(x, r) : x \in Found(r)}
      BY <1>4 DEF Effect
    <2>2. \A x \in rows : Updated(x, r) \in Rows /\ Updated(x, r).table = x.table /\ Updated(x, r).id = x.id
      BY <1>1, <1>2, ZenonT(60) DEF Updated, Rows, Requested
    <2>3. QED
      BY <1>2, <1>4, <2>1, <2>2 DEF Found
  <1>5. CASE Called(r).does = "deactivate"
    <2> DEFINE off(x) == [x EXCEPT !.active = FALSE]
    <2>1. rows' = (rows \ Found(r)) \cup {off(x) : x \in Found(r)}
      BY <1>5 DEF Effect
    <2>2. \A x \in rows : off(x) \in Rows /\ off(x).table = x.table /\ off(x).id = x.id
      BY <1>2 DEF Rows
    <2> HIDE DEF off
    <2>3. QED
      BY <1>2, <1>5, <2>1, <2>2 DEF Found
  <1>6. CASE Called(r).does = "delete"
    <2>1. rows' = rows \ Found(r) /\ Called(r).table = "TAX"
      BY <1>1, <1>6 DEF Effect, WellShaped, Called
    <2>2. QED
      BY <1>2, <1>6, <2>1 DEF Found
  <1>7. CASE Called(r).does = "touch"
    <2>1. rows' = rows
      BY <1>7 DEF Effect
    <2>2. QED
      BY <1>2, <1>7, <2>1
  <1>8. QED
    BY <1>1, <1>3, <1>4, <1>5, <1>6, <1>7 DEF WellShaped, Called

LEMMA CommitStep ==
  ASSUME RInv, NEW r \in Requests, HandlerCommits(r)
  PROVE  RInv'
  <1>1. /\ req[r].phase = "written" /\ rows' = Effect(r) /\ done' = done \cup {r}
        /\ Advance(r) /\ audits' = audits
    BY DEF HandlerCommits
  <1>2. /\ req' \in [Requests -> Requested] /\ \A o \in Requests \ {r} : req'[o] = req[o]
        /\ SameCall(req'[r], req[r]) /\ req'[r].state = req[r].state
        /\ req'[r].at = req[r].at + 1 /\ req'[r].phase = "ready"
        /\ req'[r].noted = req[r].noted /\ req'[r].reply = req[r].reply
    BY <1>1, GoesOnTo DEF RInv, Typed
  <1>3. Place(r) /\ Running(r) /\ req[r].at = HandleAt(req[r].route) /\ HandleAt(req[r].route) # 0
    BY <1>1 DEF RInv, Place
  <1>4. /\ WellShaped(req[r].route) /\ req[r].route \in AllRoutes /\ HandleAt(req[r].route) \in Nat
        /\ Len(req[r].route.program) \in Nat /\ HandleAt(req[r].route) <= Len(req[r].route.program)
    BY <1>3, RoutesAreWellShaped DEF Place, WellShaped, HandleAt
  <1>5. r \notin done /\ ~ req[r].noted
    BY <1>3, <1>4 DEF Place
  <1>6. Place(r)'
    <2>1. Called(r).does # "read"
      BY <1>3 DEF HandleAt, Called
    <2>2. req'[r].route = req[r].route
      BY <1>2 DEF SameCall
    <2> DEFINE h == HandleAt(req[r].route)
    <2>3. /\ req'[r].at = h + 1 /\ req'[r].at \in 1 .. Len(req[r].route.program) + 1
          /\ req'[r].at > h /\ ~ (req'[r].at > h + 1)
      BY <1>2, <1>3, <1>4
    <2> HIDE DEF h
    <2>4. QED
      BY <1>1, <1>2, <1>3, <1>4, <1>5, <2>1, <2>2, <2>3
      DEF h, Place, Running, Called, Audited, DetailFails
  <1>7. Answered(r)'
    BY <1>2, <1>3 DEF Answered, Running, Ended
  <1>8. ASSUME NEW o \in Requests PROVE Stays(o)'
    <2>1. Stays(o)
      BY DEF RInv
    <2>2. CASE o = r
      <3>1. Called(r)' = Called(r) /\ Target(r)' = Target(r)
        BY <1>2 DEF SameCall, Called, Target
      <3>2. Called(r).does = "insert" => \E x \in rows' : x.table = Called(r).table /\ x.id = Target(r)
        BY <1>1, EffectKeeps DEF Target
      <3>3. QED
        BY <2>2, <3>1, <3>2 DEF Stays, Found
    <2>3. CASE o # r
      <3>1. Called(o)' = Called(o) /\ Target(o)' = Target(o) /\ (o \in done' <=> o \in done)
        BY <1>1, <1>2, <2>3 DEF Called, Target
      <3>2. QED
        BY <1>1, <2>1, <3>1, EffectKeeps DEF Stays, Found
    <2>4. QED
      BY <2>2, <2>3
  <1>9. Typed'
    <2>1. rows' \subseteq Rows
      BY <1>1, EffectKeeps
    <2>2. QED
      BY <1>1, <1>2, <2>1 DEF RInv, Typed
  <1>10. \A o \in Requests \ {r} : Place(o)' /\ Answered(o)'
    BY <1>1, <1>2, OthersStay
  <1>11. QED
    BY <1>1, <1>6, <1>7, <1>8, <1>9, <1>10 DEF RInv

-----------------------------------------------------------------------------
(* How a request comes and goes.                                           *)
LEMMA FailureSteps ==
  ASSUME RInv, NEW r \in Requests, TimesOut(r) \/ Breaks(r) \/ LogsError(r)
  PROVE  RInv'
  <1>1. CASE TimesOut(r) \/ Breaks(r)
    BY <1>1, LeaveStep DEF TimesOut, Breaks, Raised
  <1>2. CASE LogsError(r)
    BY <1>2, LeaveStep DEF LogsError
  <1>3. QED
    BY <1>1, <1>2

LEMMA ArrivalStep ==
  ASSUME RInv, NEW r \in Requests, Arrives(r)
  PROVE  RInv'
  <1>1. req[r].state = "new" /\ UNCHANGED <<rows, audits, done>>
    BY DEF Arrives
  <1>2. req \in [Requests -> Requested] /\ req[r] \in Requested /\ Place(r) /\ Stays(r)
    BY DEF RInv, Typed
  <1>3. r \notin done /\ req[r].phase = "ready" /\ ~ req[r].noted
    BY <1>1, <1>2 DEF Place, Running, Requested
  <1>4. ASSUME NEW q \in Requested, req' = [req EXCEPT ![r] = q],
               (Place(r) /\ Answered(r))'
        PROVE  RInv'
    <2>1. req' \in [Requests -> Requested] /\ \A o \in Requests \ {r} : req'[o] = req[o]
      BY <1>2, <1>4
    <2>2. Stays(r)'
      BY <1>1, <1>3 DEF Stays
    <2>3. QED
      BY <1>1, <1>4, <2>1, <2>2, OthersStay DEF RInv, Typed
  <1>5. CASE req' = [req EXCEPT ![r].state = "ended", ![r].reply = "refused"]
    <2> DEFINE q == [req[r] EXCEPT !.state = "ended", !.reply = "refused"]
    <2>1. q \in Requested /\ q.state = "ended" /\ q.reply = "refused" /\ q.phase = req[r].phase
          /\ q.noted = req[r].noted
      BY <1>2 DEF Requested
    <2>2. req' = [req EXCEPT ![r] = q]
      BY <1>5
    <2> HIDE DEF q
    <2>3. req'[r] = q
      BY <1>2, <2>2
    <2>4. (Place(r) /\ Answered(r))'
      BY <1>1, <1>3, <2>1, <2>3 DEF Place, Answered, Running, Ended
    <2>5. QED
      BY <1>4, <2>1, <2>2, <2>4
  <1>6. ASSUME NEW route \in Offered, NEW id \in Ids(r, route), NEW c \in CedulasOf(route),
               NEW k \in KeysOf(route), req' = [req EXCEPT ![r] = Call(route, id, c, k)]
        PROVE  RInv'
    <2> DEFINE q == Call(route, id, c, k)
    <2>1. route \in AllRoutes
      BY RequestConstants DEF Offered
    <2>2. id \in Requests \cup {None} /\ c \in Cedulas \cup {None} /\ k \in Keys \cup {None}
      BY DEF Ids, CedulasOf, KeysOf
    <2>3. q \in Requested /\ q.route = route /\ q.state = "running" /\ q.at = 1
          /\ q.phase = "ready" /\ ~ q.noted
      BY <2>1, <2>2 DEF Call, Requested
    <2>4. req' = [req EXCEPT ![r] = q]
      BY <1>6
    <2> HIDE DEF q
    <2>5. req'[r] = q
      BY <1>2, <2>4
    <2>6. HandleAt(route) \in Nat /\ Len(route.program) \in Nat
      BY <2>1, RoutesAreWellShaped DEF WellShaped, HandleAt
    <2> DEFINE h == HandleAt(route)
               len == Len(route.program)
    <2>7. 1 \in 1 .. len + 1 /\ (h # 0 => ~ (1 > h)) /\ ~ (1 > h + 1)
      BY <2>6
    <2> HIDE DEF h, len
    <2>8. (Place(r) /\ Answered(r))'
      BY <1>1, <1>3, <2>1, <2>3, <2>5, <2>7 DEF h, len, Place, Answered, Running, Ended
    <2>9. QED
      BY <1>4, <2>3, <2>4, <2>8
  <1>7. QED
    BY <1>5, <1>6 DEF Arrives

LEMMA CrashStep == RInv /\ Crashes => RInv'
  <1> SUFFICES ASSUME RInv, Crashes PROVE RInv'
    OBVIOUS
  <1> DEFINE lost(o) == [req[o] EXCEPT !.state = "ended", !.reply = "lost", !.phase = "ready",
                                       !.holds = FALSE, !.noted = FALSE]
  <1>1. /\ req' = [o \in Requests |-> IF req[o].state \in {"running", "raised"} THEN lost(o) ELSE req[o]]
        /\ UNCHANGED <<rows, audits, done>>
    BY DEF Crashes
  <1>2. ASSUME NEW o \in Requests
        PROVE  /\ lost(o) \in Requested /\ SameCall(lost(o), req[o]) /\ lost(o).state = "ended"
               /\ lost(o).reply = "lost" /\ lost(o).phase = "ready" /\ ~ lost(o).noted
    <2>1. req[o] \in Requested
      BY DEF RInv, Typed
    <2>2. QED
      BY <2>1 DEF Requested, SameCall
  <1> HIDE DEF lost
  <1>3. Typed'
    BY <1>1, <1>2 DEF RInv, Typed
  <1>4. ASSUME NEW o \in Requests PROVE (Place(o) /\ Answered(o) /\ Stays(o))'
    <2>1. Place(o) /\ Answered(o) /\ Stays(o)
      BY DEF RInv
    <2>2. CASE req'[o] = req[o]
      BY <1>1, <2>1, <2>2
      DEF Place, Answered, Stays, Running, Ended, Called, Audited, DetailFails, Found, Target
    <2>3. CASE req'[o] = lost(o)
      BY <1>1, <1>2, <2>1, <2>3
      DEF Place, Answered, Stays, Running, Ended, Called, Found, Target, SameCall
    <2>4. QED
      BY <1>1, <2>2, <2>3
  <1>5. QED
    BY <1>1, <1>3, <1>4 DEF RInv

LEMMA NextRInv == RInv /\ [Next]_vars => RInv'
  <1> SUFFICES ASSUME RInv, [Next]_vars PROVE RInv'
    OBVIOUS
  <1>1. CASE UNCHANGED vars
    BY <1>1
    DEF vars, RInv, Typed, Place, Answered, Stays, Running, Ended, Called, Audited, DetailFails,
        Found, Target
  <1>2. CASE Crashes
    BY <1>2, CrashStep
  <1>3. ASSUME NEW r \in Requests, Arrives(r) \/ Step(r) \/ Breaks(r) PROVE RInv'
    BY <1>3, ReadingSteps, AuditStep, RereadStep, ReplyStep, ChecksStep, WritesStep, CommitStep,
       FailureSteps, ArrivalStep DEF Step
  <1>4. QED
    BY <1>1, <1>2, <1>3 DEF Next

LEMMA RInvHolds == Spec => []RInv
  BY InitRInv, NextRInv, PTL DEF Spec

-----------------------------------------------------------------------------
(* No audit row speaks of a change that was rolled back, whatever the mix  *)
(* of requests, the statements that fail and the crashes.                  *)
THEOREM AuditsNeverLie == Spec => []AuditsAreTrue
  <1>1. RInv => AuditsAreTrue
    BY DEF RInv, AuditsAreTrue
  <1>2. QED
    BY <1>1, RInvHolds, PTL

(* What a caller is told is what happened: a success was committed and,    *)
(* where the route audits, audited; a refusal changed nothing.             *)
THEOREM AnswersAreTrue == Spec => []RepliesAreTrue
  <1>1. RInv => RepliesAreTrue
    BY DEF RInv, RepliesAreTrue, Answered
  <1>2. QED
    BY <1>1, RInvHolds, PTL

-----------------------------------------------------------------------------
(* Who wrote a cedula, and what a request had looked at when it checked.   *)
HasChecked(r) == req[r].phase # "ready" \/ r \in done

(* A row is as its last writer of a cedula left it. *)
WrittenBy(x) ==
  /\ x.by = None => x.id = None
  /\ x.by # None => /\ x.by \in done /\ x.id = Target(x.by)
                    /\ x.table = Called(x.by).table /\ x.cedula = req[x.by].cedula

(* No row that was there when r checked had its cedula, and none of those  *)
(* got it since without a new writer.                                      *)
Looked(r) ==
  HasChecked(r) /\ Cedula \in Called(r).seeks /\ req[r].cedula # None =>
    \A x \in rows :
      x.table = Called(r).table /\ x.cedula = req[r].cedula /\ (x.by = None \/ x.by \in saw[r])
        => x.id = Target(r)

CInv ==
  /\ saw \in [Requests -> SUBSET done]
  /\ \A x \in rows : WrittenBy(x)
  /\ \A r \in Requests : Looked(r)

LEMMA InitCInv == Init => CInv
  <1> SUFFICES ASSUME Init PROVE CInv
    OBVIOUS
  <1>1. saw \in [Requests -> SUBSET done]
    BY DEF Init
  <1>2. \A x \in rows : WrittenBy(x)
    BY DEF Init, WrittenBy, Row
  <1>3. NotArrived.phase = "ready"
    BY DEF NotArrived, Call
  <1>4. \A r \in Requests : Looked(r)
    BY <1>3 DEF Init, Looked, HasChecked
  <1>5. QED
    BY <1>1, <1>2, <1>4 DEF CInv

(* A step that leaves the tables alone, and who has checked what. *)
LEMMA QuietStep ==
  ASSUME RInv, CInv, UNCHANGED <<rows, done, saw>>,
         \A o \in Requests : HasChecked(o)' => HasChecked(o),
         \A o \in Requests : HasChecked(o) => SameCall(req'[o], req[o])
  PROVE  CInv'
  <1>1. \A o \in Requests : HasChecked(o) =>
          Called(o)' = Called(o) /\ Target(o)' = Target(o) /\ req'[o].cedula = req[o].cedula
    BY DEF SameCall, Called, Target
  <1>2. ASSUME NEW x \in rows PROVE WrittenBy(x)'
    <2>1. WrittenBy(x) /\ x.by \in Requests \cup {None}
      BY DEF CInv, RInv, Typed, Rows
    <2>2. QED
      BY <1>1, <2>1 DEF WrittenBy, HasChecked
  <1>3. ASSUME NEW o \in Requests PROVE Looked(o)'
    <2>1. Looked(o)
      BY DEF CInv
    <2>2. CASE HasChecked(o)'
      <3>1. HasChecked(o)
        BY <2>2
      <3>2. QED
        BY <1>1, <2>1, <3>1 DEF Looked
    <2>3. CASE ~ HasChecked(o)'
      BY <2>3 DEF Looked
    <2>4. QED
      BY <2>2, <2>3
  <1>4. QED
    BY <1>2, <1>3 DEF CInv

(* A step of one request. *)
LEMMA QuietStepOf ==
  ASSUME RInv, CInv, NEW r \in Requests, UNCHANGED <<rows, done, saw>>,
         \A o \in Requests \ {r} : req'[o] = req[o],
         HasChecked(r)' => HasChecked(r), HasChecked(r) => SameCall(req'[r], req[r])
  PROVE  CInv'
  <1>1. \A o \in Requests \ {r} : HasChecked(o)' = HasChecked(o) /\ SameCall(req'[o], req[o])
    BY DEF HasChecked, SameCall
  <1>2. QED
    BY <1>1, QuietStep

LEMMA QuietSteps ==
  ASSUME RInv, CInv, NEW r \in Requests,
         \/ ReadsBefore(r) \/ RunsQueries(r) \/ WritesAudit(r) \/ Replies(r) \/ HandlerWrites(r)
         \/ HandlerReads(r) \/ Rereads(r) \/ TimesOut(r) \/ LogsError(r) \/ Breaks(r)
  PROVE  CInv'
  <1>1. UNCHANGED <<rows, done, saw>>
    BY DEF ReadsBefore, RunsQueries, WritesAudit, Replies, HandlerWrites, HandlerReads, Rereads,
           TimesOut, LogsError, Breaks
  <1>2. ASSUME NEW state \in {"ended", "raised"}, NEW reply \in {"none", "ok", "refused", "error"},
               Leaves(r, state, reply)
        PROVE  CInv'
    <2>1. /\ \A o \in Requests \ {r} : req'[o] = req[o]
          /\ SameCall(req'[r], req[r]) /\ req'[r].phase = "ready"
      BY <1>2, LeavesTo DEF RInv, Typed
    <2>2. QED
      BY <1>1, <2>1, QuietStepOf DEF HasChecked
  <1>3. CASE Advance(r)
    <2>1. /\ \A o \in Requests \ {r} : req'[o] = req[o]
          /\ SameCall(req'[r], req[r]) /\ req'[r].phase = "ready"
      BY <1>3, GoesOnTo DEF RInv, Typed
    <2>2. QED
      BY <1>1, <2>1, QuietStepOf DEF HasChecked
  <1>4. ASSUME NEW noted \in BOOLEAN, AdvanceHolding(r, noted) PROVE CInv'
    <2>1. /\ \A o \in Requests \ {r} : req'[o] = req[o]
          /\ SameCall(req'[r], req[r]) /\ req'[r].phase = req[r].phase
      BY <1>4, GoesOnHolding DEF RInv, Typed
    <2>2. QED
      BY <1>1, <2>1, QuietStepOf DEF HasChecked
  <1>5. CASE req[r].phase = "checked" /\ req' = [req EXCEPT ![r].phase = "written"]
    <2>1. req \in [Requests -> Requested] /\ req[r] \in Requested
      BY DEF RInv, Typed
    <2>2. \A o \in Requests \ {r} : req'[o] = req[o]
      BY <1>5, <2>1
    <2>3. SameCall(req'[r], req[r])
      BY <1>5, <2>1 DEF SameCall, Requested
    <2>4. HasChecked(r)
      BY <1>5 DEF HasChecked
    <2>5. QED
      BY <1>1, <2>2, <2>3, <2>4, QuietStepOf
  <1>6. CASE HandlerWrites(r)
    BY <1>2, <1>5, <1>6 DEF HandlerWrites, Raised
  <1>7. CASE HandlerReads(r) \/ Rereads(r)
    BY <1>2, <1>3, <1>7 DEF HandlerReads, Rereads, Refused
  <1>8. CASE ReadsBefore(r) \/ RunsQueries(r) \/ WritesAudit(r)
    BY <1>2, <1>4, <1>8 DEF ReadsBefore, RunsQueries, WritesAudit, Raised
  <1>9. CASE Replies(r) \/ TimesOut(r) \/ LogsError(r) \/ Breaks(r)
    BY <1>2, <1>9 DEF Replies, TimesOut, LogsError, Breaks, Raised
  <1>10. QED
    BY <1>6, <1>7, <1>8, <1>9

LEMMA ArrivesQuietly ==
  ASSUME RInv, CInv, NEW r \in Requests, Arrives(r)
  PROVE  CInv'
  <1>1. /\ req \in [Requests -> Requested] /\ Place(r) /\ req[r].state = "new"
        /\ UNCHANGED <<rows, done, saw>>
    BY DEF RInv, Typed, Arrives
  <1>2. ~ HasChecked(r)
    BY <1>1 DEF Place, Running, HasChecked
  <1>3. ASSUME NEW q, req' = [req EXCEPT ![r] = q], q.phase = "ready" PROVE CInv'
    <2>1. /\ \A o \in Requests \ {r} : req'[o] = req[o]
          /\ ~ HasChecked(r)'
      BY <1>1, <1>2, <1>3 DEF HasChecked
    <2>2. QED
      BY <1>1, <1>2, <2>1, QuietStepOf
  <1>4. CASE req' = [req EXCEPT ![r].state = "ended", ![r].reply = "refused"]
    <2> DEFINE q == [req[r] EXCEPT !.state = "ended", !.reply = "refused"]
    <2>1. req[r] \in Requested
      BY <1>1
    <2>2. q.phase = "ready"
      BY <1>2, <2>1 DEF Requested, HasChecked
    <2>3. req' = [req EXCEPT ![r] = q]
      BY <1>4
    <2> HIDE DEF q
    <2>4. QED
      BY <1>3, <2>2, <2>3
  <1>5. ASSUME NEW route, NEW id, NEW c, NEW k, req' = [req EXCEPT ![r] = Call(route, id, c, k)]
        PROVE  CInv'
    <2>1. Call(route, id, c, k).phase = "ready"
      BY DEF Call
    <2>2. QED
      BY <1>3, <1>5, <2>1
  <1>6. QED
    BY <1>4, <1>5 DEF Arrives

LEMMA ChecksLook ==
  ASSUME RInv, CInv, NEW r \in Requests, HandlerChecks(r)
  PROVE  CInv'
  <1>1. /\ AtStep(r, {"handle"}) /\ UNCHANGED <<rows, done>>
        /\ saw' = (IF req[r].cedula = None THEN saw ELSE [saw EXCEPT ![r] = done])
    BY DEF HandlerChecks
  <1>2. req \in [Requests -> Requested] /\ req[r] \in Requested
        /\ rows \subseteq Rows /\ done \subseteq Requests
    BY DEF RInv, Typed
  <1>3. /\ saw' \in [Requests -> SUBSET done'] /\ \A o \in Requests \ {r} : saw'[o] = saw[o]
    BY <1>1 DEF CInv
  <1>4. req[r].phase = "ready" /\ r \notin done
    <2>1. /\ Place(r) /\ Running(r) /\ req[r].phase = "ready"
          /\ HandleAt(req[r].route) \in Nat /\ req[r].at = HandleAt(req[r].route)
      BY <1>1, AtAStep DEF WellShaped, HandleAt
    <2>2. QED
      BY <2>1 DEF Place
  <1>5. \A o \in Requests \ {r} : req'[o] = req[o]
    <2>1. CASE Refused(r) \/ Raised(r)
      BY <1>2, <2>1, LeavesTo DEF Refused, Raised
    <2>2. CASE req' = [req EXCEPT ![r].phase = "checked"]
      BY <1>2, <2>2
    <2>3. QED
      BY <2>1, <2>2 DEF HandlerChecks
  <1>6. ASSUME NEW x \in rows PROVE WrittenBy(x)'
    <2>1. WrittenBy(x) /\ x.by \in Requests \cup {None}
      BY <1>2 DEF CInv, Rows
    <2>2. QED
      BY <1>1, <1>4, <1>5, <2>1 DEF WrittenBy, Target, Called
  <1>7. ASSUME NEW o \in Requests \ {r} PROVE Looked(o)'
    <2>1. Looked(o) /\ req'[o] = req[o] /\ saw'[o] = saw[o]
      BY <1>3, <1>5 DEF CInv
    <2>2. QED
      BY <1>1, <2>1 DEF Looked, HasChecked, Target, Called
  <1>8. Looked(r)'
    <2>1. CASE Refused(r) \/ Raised(r)
      <3>1. req'[r].phase = "ready"
        BY <1>2, <2>1, LeavesTo DEF Refused, Raised
      <3>2. QED
        BY <1>1, <1>4, <3>1 DEF Looked, HasChecked
    <2>2. CASE ~ CheckRefuses(r) /\ req' = [req EXCEPT ![r].phase = "checked"]
      <3>1. SameCall(req'[r], req[r])
        BY <1>2, <2>2 DEF Requested, SameCall
      <3>2. Called(r)' = Called(r) /\ Target(r)' = Target(r) /\ req'[r].cedula = req[r].cedula
        BY <3>1 DEF SameCall, Called, Target
      <3>3. Cedula \in Called(r).seeks => \A x \in Namesakes(r) : x.id = Target(r)
        BY <2>2 DEF CheckRefuses
      <3>4. QED
        BY <1>1, <3>2, <3>3 DEF Looked, Namesakes
    <2>3. QED
      BY <2>1, <2>2 DEF HandlerChecks
  <1>9. QED
    BY <1>1, <1>3, <1>6, <1>7, <1>8 DEF CInv

(* A committed row has its new writer, or is as it was but for what nobody *)
(* looks up.                                                               *)
LEMMA EffectWrites ==
  ASSUME RInv, NEW r \in Requests, req[r].phase = "written", rows' = Effect(r), NEW y \in rows'
  PROVE  \/ \E x \in rows : y.by = x.by /\ y.id = x.id /\ y.table = x.table /\ y.cedula = x.cedula
         \/ y.by = r /\ y.id = Target(r) /\ y.table = Called(r).table /\ y.cedula = req[r].cedula
  <1>1. WellShaped(req[r].route) /\ Called(r).does # "refuse" /\ Called(r).does # "read"
    <2>1. Place(r)
      BY DEF RInv
    <2>2. QED
      BY <2>1, RoutesAreWellShaped DEF Place, HandleAt, Called
  <1>2. rows \subseteq Rows
    BY DEF RInv, Typed
  <1>3. CASE y \in rows
    BY <1>3
  <1>4. CASE Called(r).does = "insert" /\ y \notin rows
    <2>1. y = Row(Called(r).table, r, req[r].cedula, req[r].key, r)
      BY <1>4 DEF Effect
    <2>2. QED
      BY <1>4, <2>1 DEF Row, Target
  <1>5. CASE Called(r).does = "update" /\ y \notin rows
    <2>1. PICK x \in Found(r) : y = Updated(x, r)
      BY <1>5 DEF Effect
    <2>2. x \in rows /\ x \in Rows /\ x.table = Called(r).table /\ x.id = Target(r)
      BY <1>2 DEF Found
    <2>3. CASE req[r].cedula = None
      BY <2>1, <2>2, <2>3 DEF Updated, Rows
    <2>4. CASE req[r].cedula # None
      BY <2>1, <2>2, <2>4 DEF Updated, Rows
    <2>5. QED
      BY <2>3, <2>4
  <1>6. CASE Called(r).does = "deactivate" /\ y \notin rows
    <2>1. PICK x \in Found(r) : y = [x EXCEPT !.active = FALSE]
      BY <1>6 DEF Effect
    <2>2. x \in rows /\ x \in Rows
      BY <1>2 DEF Found
    <2>3. QED
      BY <2>1, <2>2 DEF Rows
  <1>7. CASE Called(r).does \in {"delete", "touch"}
    BY <1>3, <1>7 DEF Effect
  <1>8. QED
    BY <1>1, <1>3, <1>4, <1>5, <1>6, <1>7 DEF WellShaped, Called

LEMMA CommitWrites ==
  ASSUME RInv, CInv, NEW r \in Requests, HandlerCommits(r)
  PROVE  CInv'
  <1>1. /\ req[r].phase = "written" /\ rows' = Effect(r) /\ done' = done \cup {r}
        /\ Advance(r) /\ saw' = saw
    BY DEF HandlerCommits
  <1>2. /\ \A o \in Requests \ {r} : req'[o] = req[o]
        /\ SameCall(req'[r], req[r]) /\ req'[r].phase = "ready"
    BY <1>1, GoesOnTo DEF RInv, Typed
  <1>3. \A o \in Requests : /\ Called(o)' = Called(o) /\ Target(o)' = Target(o)
                             /\ req'[o].cedula = req[o].cedula
    BY <1>2 DEF SameCall, Called, Target
  <1>4. r \notin done /\ r # None /\ None \notin done
    <2>1. Place(r) /\ HandleAt(req[r].route) \in Nat /\ done \subseteq Requests
      BY DEF RInv, Typed, HandleAt
    <2>2. QED
      BY <1>1, <2>1, RequestConstants DEF Place
  <1>5. \A o \in Requests : HasChecked(o)' => HasChecked(o)
    BY <1>1, <1>2 DEF HasChecked
  <1>6. saw' \in [Requests -> SUBSET done']
    BY <1>1 DEF CInv
  <1>7. rows \subseteq Rows
    BY DEF RInv, Typed
  <1>8. ASSUME NEW y \in rows' PROVE WrittenBy(y)'
    <2>1. CASE \E x \in rows : y.by = x.by /\ y.id = x.id /\ y.table = x.table /\ y.cedula = x.cedula
      <3>1. PICK x \in rows : y.by = x.by /\ y.id = x.id /\ y.table = x.table /\ y.cedula = x.cedula
        BY <2>1
      <3>2. WrittenBy(x) /\ x.by \in Requests \cup {None}
        BY <1>7 DEF CInv, Rows
      <3>3. QED
        BY <1>1, <1>3, <3>1, <3>2 DEF WrittenBy
    <2>2. CASE y.by = r /\ y.id = Target(r) /\ y.table = Called(r).table /\ y.cedula = req[r].cedula
      BY <1>1, <1>3, <1>4, <2>2 DEF WrittenBy
    <2>3. QED
      BY <1>1, <2>1, <2>2, EffectWrites
  <1>9. ASSUME NEW o \in Requests PROVE Looked(o)'
    <2>1. SUFFICES ASSUME HasChecked(o)', Cedula \in Called(o).seeks, req[o].cedula # None,
                          NEW y \in rows', y.table = Called(o).table, y.cedula = req[o].cedula,
                          y.by = None \/ y.by \in saw[o]
                   PROVE  y.id = Target(o)
      BY <1>1, <1>3 DEF Looked
    <2>2. y.by # r
      BY <1>4, <2>1 DEF CInv
    <2>3. PICK x \in rows : y.by = x.by /\ y.id = x.id /\ y.table = x.table /\ y.cedula = x.cedula
      BY <1>1, <2>2, EffectWrites
    <2>4. HasChecked(o) /\ Looked(o)
      BY <1>5, <2>1 DEF CInv
    <2>5. QED
      BY <2>1, <2>3, <2>4 DEF Looked
  <1>10. QED
    BY <1>6, <1>8, <1>9 DEF CInv

LEMMA NextCInv == RInv /\ CInv /\ [Next]_vars => CInv'
  <1> SUFFICES ASSUME RInv, CInv, [Next]_vars PROVE CInv'
    OBVIOUS
  <1>1. CASE UNCHANGED vars
    BY <1>1, QuietStep DEF vars, HasChecked, SameCall
  <1>2. CASE Crashes
    <2> DEFINE lost(o) == [req[o] EXCEPT !.state = "ended", !.reply = "lost", !.phase = "ready",
                                         !.holds = FALSE, !.noted = FALSE]
    <2>1. /\ req' = [o \in Requests |-> IF req[o].state \in {"running", "raised"} THEN lost(o) ELSE req[o]]
          /\ UNCHANGED <<rows, done, saw>>
      BY <1>2 DEF Crashes
    <2>2. ASSUME NEW o \in Requests PROVE SameCall(lost(o), req[o]) /\ lost(o).phase = "ready"
      <3>1. req[o] \in Requested
        BY DEF RInv, Typed
      <3>2. QED
        BY <3>1 DEF Requested, SameCall
    <2> HIDE DEF lost
    <2>3. \A o \in Requests : SameCall(req'[o], req[o]) /\ (HasChecked(o)' => HasChecked(o))
      BY <2>1, <2>2 DEF HasChecked, SameCall
    <2>4. QED
      BY <2>1, <2>3, QuietStep
  <1>3. ASSUME NEW r \in Requests, Arrives(r) \/ Step(r) \/ Breaks(r) PROVE CInv'
    BY <1>3, QuietSteps, ArrivesQuietly, ChecksLook, CommitWrites DEF Step
  <1>4. QED
    BY <1>1, <1>2, <1>3 DEF Next

(* Two rows carry one cedula only by a registration, which does not check, *)
(* or by two requests each of which checked before the other committed.    *)
THEOREM TwiceOnlyByOverlap == Spec => []CedulaTwiceOnlyByOverlap
  <1>1. RInv /\ CInv => CedulaTwiceOnlyByOverlap
    <2>1. SUFFICES ASSUME RInv, CInv, NEW x \in rows, NEW y \in rows,
                          x.table = y.table, x.id # y.id, x.cedula = y.cedula, x.cedula # None,
                          ~ Registered(x.by), ~ Registered(y.by)
                   PROVE  Overlapped(x.by, y.by)
      BY DEF CedulaTwiceOnlyByOverlap
    <2>2. WrittenBy(x) /\ WrittenBy(y) /\ x.by \in Requests \cup {None} /\ y.by \in Requests \cup {None}
      BY <2>1 DEF CInv, RInv, Typed, Rows
    <2>3. ASSUME NEW u \in rows, NEW v \in rows, u.table = v.table, u.id # v.id,
                 u.cedula = v.cedula, v.cedula # None, v.by \in Requests, WrittenBy(v),
                 ~ Registered(v.by), v.by # None
          PROVE  u.by # None /\ u.by \notin saw[v.by]
      <3>1. Looked(v.by) /\ HasChecked(v.by) /\ Cedula \in Called(v.by).seeks
        BY <2>1, <2>3 DEF CInv, WrittenBy, HasChecked, Registered
      <3>2. QED
        BY <2>3, <3>1 DEF Looked, WrittenBy
    <2>4. x.by # None \/ y.by # None
      BY <2>1, <2>2 DEF WrittenBy
    <2>5. x.by # None /\ y.by # None
      BY <2>1, <2>2, <2>3, <2>4
    <2>6. QED
      BY <2>1, <2>2, <2>3, <2>5 DEF Overlapped
  <1>2. Spec => []CInv
    BY InitCInv, NextCInv, RInvHolds, PTL DEF Spec
  <1>3. QED
    BY <1>1, <1>2, RInvHolds, PTL

-----------------------------------------------------------------------------
(* The connections in use.                                                 *)
Holders == {r \in Requests : req[r].holds}
Handling == {r \in Requests : req[r].phase # "ready"}

LEMMA Counts ==
  /\ IsFiniteSet(Holders) /\ Cardinality(Holders) \in Nat
  /\ IsFiniteSet(Handling) /\ Cardinality(Handling) \in Nat
  /\ InUse = Cardinality(Holders) + Cardinality(Handling)
  <1>1. IsFiniteSet(Holders) /\ IsFiniteSet(Handling)
    BY RequestConstants, FS_Subset DEF Holders, Handling
  <1>2. QED
    BY <1>1, FS_CardinalityType DEF InUse, Holders, Handling

LEMMA AtMostOneMore ==
  ASSUME NEW S, IsFiniteSet(S), NEW x, NEW T, T \subseteq S \cup {x}
  PROVE  Cardinality(T) <= Cardinality(S) + 1
  <1>1. IsFiniteSet(S \cup {x}) /\ Cardinality(S \cup {x}) <= Cardinality(S) + 1
    <2>1. Cardinality(S) \in Nat
      BY FS_CardinalityType
    <2>2. /\ IsFiniteSet(S \cup {x})
          /\ Cardinality(S \cup {x}) = IF x \in S THEN Cardinality(S) ELSE Cardinality(S) + 1
      BY FS_AddElement
    <2>3. QED
      BY <2>1, <2>2
  <1>2. IsFiniteSet(T) /\ Cardinality(T) <= Cardinality(S \cup {x})
    BY <1>1, FS_Subset
  <1>3. Cardinality(T) \in Nat /\ Cardinality(S) \in Nat /\ Cardinality(S \cup {x}) \in Nat
    BY <1>1, <1>2, FS_CardinalityType
  <1>4. QED
    BY <1>1, <1>2, <1>3

LEMMA PoolShrinks ==
  ASSUME InUse <= Capacity, Holders' \subseteq Holders, Handling' \subseteq Handling
  PROVE  (InUse <= Capacity)'
  <1>1. /\ IsFiniteSet(Holders') /\ Cardinality(Holders') <= Cardinality(Holders)
        /\ IsFiniteSet(Handling') /\ Cardinality(Handling') <= Cardinality(Handling)
    BY Counts, FS_Subset
  <1>2. Cardinality(Holders') \in Nat /\ Cardinality(Handling') \in Nat
    BY <1>1, FS_CardinalityType
  <1>3. InUse' = Cardinality(Holders') + Cardinality(Handling')
    BY DEF InUse, Holders, Handling
  <1>4. QED
    BY <1>1, <1>2, <1>3, Counts, RequestConstants

LEMMA PoolGivesOne ==
  ASSUME Free, NEW r \in Requests,
         \/ Holders' \subseteq Holders \cup {r} /\ Handling' \subseteq Handling
         \/ Holders' \subseteq Holders /\ Handling' \subseteq Handling \cup {r}
  PROVE  (InUse <= Capacity)'
  <1>1. /\ IsFiniteSet(Holders \cup {r}) /\ IsFiniteSet(Handling \cup {r})
        /\ Holders' \subseteq Holders \cup {r} /\ Handling' \subseteq Handling \cup {r}
    BY Counts, FS_AddElement
  <1>2. IsFiniteSet(Holders') /\ IsFiniteSet(Handling')
    BY <1>1, FS_Subset
  <1>3. Cardinality(Holders') \in Nat /\ Cardinality(Handling') \in Nat
    BY <1>2, FS_CardinalityType
  <1>4. Cardinality(Holders') + Cardinality(Handling') <= Cardinality(Holders) + Cardinality(Handling) + 1
    <2>1. CASE Holders' \subseteq Holders \cup {r} /\ Handling' \subseteq Handling
      <3>1. Cardinality(Handling') <= Cardinality(Handling)
        BY <2>1, Counts, FS_Subset
      <3>2. Cardinality(Holders') <= Cardinality(Holders) + 1
        BY <2>1, Counts, AtMostOneMore
      <3>3. QED
        BY <1>3, <3>1, <3>2, Counts
    <2>2. CASE Holders' \subseteq Holders /\ Handling' \subseteq Handling \cup {r}
      <3>1. Cardinality(Holders') <= Cardinality(Holders)
        BY <2>2, Counts, FS_Subset
      <3>2. Cardinality(Handling') <= Cardinality(Handling) + 1
        BY <2>2, Counts, AtMostOneMore
      <3>3. QED
        BY <1>3, <3>1, <3>2, Counts
    <2>3. QED
      BY <2>1, <2>2
  <1>5. InUse' = Cardinality(Holders') + Cardinality(Handling')
    BY DEF InUse, Holders, Handling
  <1>6. QED
    BY <1>3, <1>4, <1>5, Counts, RequestConstants DEF Free

Mine(r) == req[r].route \in (UNION Menus) \cup {NoRoute} /\ req[r].at \in 1 .. 4
TInv ==
  /\ errors \subseteq Requests /\ faults \in 0 .. MaxFaults
  /\ \A r \in Requests : Mine(r)
  /\ InUse <= Capacity

LEMMA InitTInv == Init => TInv
  <1> SUFFICES ASSUME Init PROVE TInv
    OBVIOUS
  <1>1. NotArrived.route = NoRoute /\ NotArrived.at = 1 /\ NotArrived.phase = "ready" /\ ~ NotArrived.holds
    BY DEF NotArrived, Call
  <1>2. Holders = {} /\ Handling = {}
    BY <1>1 DEF Init, Holders, Handling
  <1>3. InUse <= Capacity
    BY <1>2, Counts, FS_EmptySet, RequestConstants
  <1>4. QED
    BY <1>1, <1>3, RequestConstants DEF Init, TInv, Mine

(* A step of one request. *)
LEMMA TypedStep ==
  ASSUME RInv, TInv, NEW r \in Requests, \A o \in Requests \ {r} : req'[o] = req[o],
         Mine(r)', errors' \subseteq Requests, faults' \in 0 .. MaxFaults,
         (req'[r].holds => req[r].holds) \/ Free,
         (req'[r].phase # "ready" => req[r].phase # "ready") \/ Free,
         (req'[r].holds => req[r].holds) \/ (req'[r].phase # "ready" => req[r].phase # "ready")
  PROVE  TInv'
  <1>1. \A o \in Requests : Mine(o)'
    BY DEF TInv, Mine
  <1>2. /\ Holders' \subseteq Holders \cup {r} /\ Handling' \subseteq Handling \cup {r}
        /\ (req'[r].holds => req[r].holds) => Holders' \subseteq Holders
        /\ (req'[r].phase # "ready" => req[r].phase # "ready") => Handling' \subseteq Handling
    BY DEF Holders, Handling
  <1>3. (InUse <= Capacity)'
    <2>1. CASE Free
      BY <1>2, <2>1, PoolGivesOne
    <2>2. CASE ~ Free
      BY <1>2, <2>2, PoolShrinks DEF TInv
    <2>3. QED
      BY <2>1, <2>2
  <1>4. QED
    BY <1>1, <1>3 DEF TInv

(* A step of a program that is not over is one of the first three. *)
LEMMA NextPlace ==
  ASSUME RInv, TInv, NEW r \in Requests, Running(r), req[r].at <= Len(req[r].route.program)
  PROVE  req[r].at + 1 \in 1 .. 4
  <1>1. WellShaped(req[r].route)
    BY RoutesAreWellShaped DEF RInv, Place
  <1>2. Len(req[r].route.program) \in 1 .. 3 /\ req[r].at \in 1 .. 4
    BY <1>1 DEF WellShaped, TInv, Mine
  <1> DEFINE at == req[r].at
             len == Len(req[r].route.program)
  <1>3. len \in 1 .. 3 /\ at \in 1 .. 4 /\ at <= len
    BY <1>2
  <1> HIDE DEF at, len
  <1>4. at + 1 \in 1 .. 4
    BY <1>3
  <1>5. QED
    BY <1>4 DEF at

LEMMA StepTInv ==
  ASSUME RInv, TInv, NEW r \in Requests, Step(r) \/ Breaks(r)
  PROVE  TInv'
  <1>1. /\ errors' \subseteq Requests /\ faults' \in 0 .. MaxFaults
        /\ Mine(r) /\ req \in [Requests -> Requested] /\ req[r] \in Requested
    <2>1. errors' \subseteq errors \cup {r}
      <3>1. CASE LogsError(r)
        BY <3>1 DEF LogsError
      <3>2. CASE ~ LogsError(r)
        BY <3>2 DEF Step, Breaks, ReadsBefore, RunsQueries, WritesAudit, Replies, HandlerChecks,
                    HandlerWrites, HandlerCommits, HandlerReads, Rereads, TimesOut
      <3>3. QED
        BY <3>1, <3>2
    <2>2. faults' \in 0 .. MaxFaults
      <3>1. CASE Breaks(r)
        BY <3>1, RequestConstants DEF Breaks, TInv
      <3>2. CASE Step(r)
        BY <3>2 DEF TInv, Step, ReadsBefore, RunsQueries, WritesAudit, Replies, HandlerChecks,
                    HandlerWrites, HandlerCommits, HandlerReads, Rereads, TimesOut, LogsError
      <3>3. QED
        BY <3>1, <3>2
    <2>3. QED
      BY <2>1, <2>2 DEF RInv, Typed, TInv
  <1>2. ASSUME NEW state \in {"ended", "raised"}, NEW reply \in {"none", "ok", "refused", "error"},
               Leaves(r, state, reply)
        PROVE  TInv'
    <2>1. /\ \A o \in Requests \ {r} : req'[o] = req[o]
          /\ SameCall(req'[r], req[r]) /\ req'[r].phase = "ready"
          /\ ~ req'[r].holds /\ req'[r].at = req[r].at
      BY <1>1, <1>2, LeavesTo
    <2>2. Mine(r)'
      BY <1>1, <2>1 DEF Mine, SameCall
    <2>3. QED
      BY <1>1, <2>1, <2>2, TypedStep
  <1>3. ASSUME Advance(r), Running(r), req[r].at <= Len(req[r].route.program) PROVE TInv'
    <2>1. /\ \A o \in Requests \ {r} : req'[o] = req[o]
          /\ SameCall(req'[r], req[r]) /\ req'[r].phase = "ready"
          /\ req'[r].holds = req[r].holds /\ req'[r].at = req[r].at + 1
      BY <1>1, <1>3, GoesOnTo
    <2>2. Mine(r)'
      BY <1>1, <1>3, <2>1, NextPlace DEF Mine, SameCall
    <2>3. QED
      BY <1>1, <2>1, <2>2, TypedStep
  <1>4. ASSUME NEW noted \in BOOLEAN, AdvanceHolding(r, noted), CanQuery(r), Running(r),
               req[r].at <= Len(req[r].route.program)
        PROVE  TInv'
    <2>1. /\ \A o \in Requests \ {r} : req'[o] = req[o]
          /\ SameCall(req'[r], req[r]) /\ req'[r].phase = req[r].phase
          /\ req'[r].at = req[r].at + 1
      BY <1>1, <1>4, GoesOnHolding
    <2>2. Mine(r)'
      BY <1>1, <1>4, <2>1, NextPlace DEF Mine, SameCall
    <2>3. Free \/ req[r].holds
      BY <1>4 DEF CanQuery
    <2>4. QED
      BY <1>1, <2>1, <2>2, <2>3, TypedStep
  <1>5. ASSUME NEW phase, req' = [req EXCEPT ![r].phase = phase], Free \/ req[r].phase # "ready"
        PROVE  TInv'
    <2>1. \A o \in Requests \ {r} : req'[o] = req[o]
      BY <1>1, <1>5
    <2>2. req'[r].route = req[r].route /\ req'[r].at = req[r].at /\ req'[r].holds = req[r].holds
      BY <1>1, <1>5 DEF Requested
    <2>3. Mine(r)'
      BY <1>1, <2>2 DEF Mine
    <2>4. QED
      BY <1>1, <1>5, <2>1, <2>2, <2>3, TypedStep
  <1>6. CASE ReadsBefore(r) \/ RunsQueries(r) \/ WritesAudit(r)
    BY <1>2, <1>4, <1>6 DEF ReadsBefore, RunsQueries, WritesAudit, Raised, AtStep
  <1>7. CASE HandlerReads(r) \/ Rereads(r)
    BY <1>2, <1>3, <1>7 DEF HandlerReads, Rereads, Refused, AtStep
  <1>8. CASE Replies(r) \/ TimesOut(r) \/ LogsError(r) \/ Breaks(r)
    BY <1>2, <1>8 DEF Replies, TimesOut, LogsError, Breaks, Raised
  <1>9. CASE HandlerChecks(r)
    <2>1. Free
      BY <1>9 DEF HandlerChecks, CanQuery, AtStep, OuterSteps
    <2>2. QED
      BY <1>2, <1>5, <1>9, <2>1 DEF HandlerChecks, Refused, Raised
  <1>10. CASE HandlerWrites(r)
    BY <1>2, <1>5, <1>10 DEF HandlerWrites, Raised
  <1>11. CASE HandlerCommits(r)
    <2>1. Advance(r) /\ Running(r) /\ req[r].at = HandleAt(req[r].route) /\ req[r].route \in AllRoutes
      BY <1>11 DEF HandlerCommits, RInv, Place
    <2>2. req[r].at <= Len(req[r].route.program)
      BY <2>1, RoutesAreWellShaped DEF WellShaped
    <2>3. QED
      BY <1>3, <2>1, <2>2
  <1>12. QED
    BY <1>6, <1>7, <1>8, <1>9, <1>10, <1>11 DEF Step

LEMMA NextTInv == RInv /\ TInv /\ [Next]_vars => TInv'
  <1> SUFFICES ASSUME RInv, TInv, [Next]_vars PROVE TInv'
    OBVIOUS
  <1>1. CASE UNCHANGED vars
    BY <1>1 DEF vars, TInv, Mine, InUse
  <1>2. CASE Crashes
    <2> DEFINE lost(o) == [req[o] EXCEPT !.state = "ended", !.reply = "lost", !.phase = "ready",
                                         !.holds = FALSE, !.noted = FALSE]
    <2>1. /\ req' = [o \in Requests |-> IF req[o].state \in {"running", "raised"} THEN lost(o) ELSE req[o]]
          /\ errors' = errors /\ faults < MaxFaults /\ faults' = faults + 1
      BY <1>2 DEF Crashes
    <2>2. ASSUME NEW o \in Requests
          PROVE  /\ lost(o).route = req[o].route /\ lost(o).at = req[o].at
                 /\ lost(o).phase = "ready" /\ ~ lost(o).holds
      <3>1. req[o] \in Requested
        BY DEF RInv, Typed
      <3>2. QED
        BY <3>1 DEF Requested
    <2> HIDE DEF lost
    <2>3. \A o \in Requests : Mine(o)'
      BY <2>1, <2>2 DEF TInv, Mine
    <2>4. Holders' \subseteq Holders /\ Handling' \subseteq Handling
      BY <2>1, <2>2 DEF Holders, Handling
    <2>5. QED
      BY <2>1, <2>3, <2>4, PoolShrinks, RequestConstants DEF TInv
  <1>3. ASSUME NEW r \in Requests, Step(r) \/ Breaks(r) PROVE TInv'
    BY <1>3, StepTInv
  <1>4. ASSUME NEW r \in Requests, Arrives(r) PROVE TInv'
    <2>1. /\ req \in [Requests -> Requested] /\ req[r] \in Requested /\ Mine(r)
          /\ errors' = errors /\ faults' = faults
      BY <1>4 DEF RInv, Typed, TInv, Arrives
    <2>2. CASE req' = [req EXCEPT ![r].state = "ended", ![r].reply = "refused"]
      <3> DEFINE q == [req[r] EXCEPT !.state = "ended", !.reply = "refused"]
      <3>1. q.route = req[r].route /\ q.at = req[r].at /\ q.holds = req[r].holds /\ q.phase = req[r].phase
        BY <2>1 DEF Requested
      <3>2. req' = [req EXCEPT ![r] = q]
        BY <2>2
      <3> HIDE DEF q
      <3>3. req'[r] = q /\ \A o \in Requests \ {r} : req'[o] = req[o]
        BY <2>1, <3>2
      <3>4. Mine(r)'
        BY <2>1, <3>1, <3>3 DEF Mine
      <3>5. QED
        BY <2>1, <3>1, <3>3, <3>4, TypedStep DEF TInv
    <2>3. ASSUME NEW route \in Offered, NEW id, NEW c, NEW k, req' = [req EXCEPT ![r] = Call(route, id, c, k)]
          PROVE  TInv'
      <3> DEFINE q == Call(route, id, c, k)
      <3>1. q.route = route /\ q.at = 1 /\ ~ q.holds /\ q.phase = "ready"
        BY DEF Call
      <3>2. req' = [req EXCEPT ![r] = q]
        BY <2>3
      <3> HIDE DEF q
      <3>3. req'[r] = q /\ \A o \in Requests \ {r} : req'[o] = req[o]
        BY <2>1, <3>2
      <3>4. Mine(r)'
        BY <3>1, <3>3 DEF Mine, Offered
      <3>5. QED
        BY <2>1, <3>1, <3>3, <3>4, TypedStep DEF TInv
    <2>4. QED
      BY <1>4, <2>2, <2>3 DEF Arrives
  <1>5. QED
    BY <1>1, <1>2, <1>3, <1>4 DEF Next

(* Types, and no more connections in use than the pool has: the router's   *)
(* session takes one only when one is free or it holds it already.         *)
THEOREM TypeCorrect == Spec => []TypeOK
  <1>1. RInv /\ CInv /\ TInv => TypeOK
    <2> SUFFICES ASSUME RInv, CInv, TInv PROVE TypeOK
      OBVIOUS
    <2>1. ASSUME NEW r \in Requests PROVE req[r] \in Requested /\ Mine(r)
      BY DEF RInv, Typed, TInv
    <2>2. req \in [Requests ->
            [route : (UNION Menus) \cup {NoRoute}, id : Requests \cup {None}, cedula : Cedulas \cup {None},
             key : Keys \cup {None}, state : {"new", "running", "raised", "ended"}, at : 1 .. 4,
             phase : {"ready", "checked", "written"}, holds : BOOLEAN, noted : BOOLEAN,
             reply : {"none", "ok", "refused", "error", "lost"}]]
      BY <2>1 DEF RInv, Typed, Requested, Mine
    <2>3. QED
      BY <2>2 DEF TypeOK, RInv, Typed, Rows, CInv, TInv
  <1>2. Spec => []CInv
    BY InitCInv, NextCInv, RInvHolds, PTL DEF Spec
  <1>3. Spec => []TInv
    BY InitTInv, NextTInv, RInvHolds, PTL DEF Spec
  <1>4. QED
    BY <1>1, <1>2, <1>3, RInvHolds, PTL
=============================================================================
