------------------------------- MODULE Seeds -------------------------------
(***************************************************************************)
(* The seed scripts run by hand against a database that the API may be     *)
(* using.  seed.py is one transaction that deletes every table and fills   *)
(* it again; seed_large.py clears the rows of its last run, commits, and   *)
(* inserts products, clients and invoices in a transaction each.  Either   *)
(* may be stopped at any point, and POST /invoices goes on in the middle.  *)
(*                                                                         *)
(* One script runs at a time.  The clients and the products a run inserts  *)
(* are told apart by that run only.  The invoices of the API are numbered  *)
(* one above the suffix of the invoice with the greatest id, whichever     *)
(* series that invoice belongs to: 001-001-n (seed.py), STRESS-n           *)
(* (seed_large.py) or INV-n.  A transaction waits for the row locks of     *)
(* another's uncommitted deletes and foreign key checks; what it reads it  *)
(* does not lock.  A creation is one request, with one line.               *)
(***************************************************************************)
EXTENDS Naturals, FiniteSets

CONSTANTS Creators,     (* POST /invoices requests under way               *)
          DemoCount,    (* invoices seed.py writes (120 in the code)       *)
          StressCount,  (* invoices seed_large.py writes (100 000)         *)
          MaxRuns,      (* bound: scripts started                          *)
          MaxId         (* bound: invoice ids drawn                        *)

ASSUME Sizes ==
  DemoCount \in Nat /\ StressCount \in Nat \ {0} /\ MaxRuns \in Nat /\ MaxId \in Nat

VARIABLES invoices,  (* committed rows                                     *)
          users,     (* the runs of seed.py whose users are committed      *)
          clients,   (* the runs whose clients are committed               *)
          products,  (* the runs whose products are committed              *)
          nextId,    (* next value of the invoices id sequence             *)
          job,       (* the script that runs, or the last one              *)
          draft,     (* what each creator has read so far                  *)
          pc,        (* where it is                                        *)
          stressed   (* seed_large.py wrote invoices since the last wipe   *)

vars == <<invoices, users, clients, products, nextId, job, draft, pc, stressed>>

Kinds == {"seed", "stress"}
Run == [kind : Kinds, run : 1 .. MaxRuns]
None == [kind |-> "none", run |-> 0]

Invoice == [id : 1 .. MaxId, series : {"001-001", "STRESS", "INV"}, n : Nat,
            seller : 0 .. MaxRuns, client : Run \cup {None},
            product : Run \cup {None}]

Phases == {"invoices", "people", "products", "cleared", "newProducts",
           "newClients", "fill", "filled", "done", "failed"}

TypeOK ==
  /\ invoices \subseteq Invoice
  /\ users \subseteq 1 .. MaxRuns
  /\ clients \subseteq Run
  /\ products \subseteq Run
  /\ nextId \in 1 .. MaxId + 1
  /\ job \in [kind : Kinds, run : 0 .. MaxRuns, phase : Phases,
              doomed : SUBSET Invoice, fresh : SUBSET Invoice]
  /\ pc \in [Creators -> {"idle", "product", "client", "seller", "numbered",
                          "waiting", "linking", "inserted", "lines", "over"}]
  /\ draft \in [Creators -> [seller : 0 .. MaxRuns, client : Run \cup {None},
                             product : Run \cup {None}, n : Nat, id : 0 .. MaxId]]

-----------------------------------------------------------------------------
(* What the script's transaction has deleted and not yet committed.        *)
Clears(run) == job.kind = "seed" \/ run.kind = "stress"
Emptied == IF job.kind = "seed" THEN {"fill", "filled"} ELSE {"cleared"}

GoingUsers ==
  {u \in users : job.kind = "seed" /\ job.phase \in {"products"} \cup Emptied}
GoingClients ==
  {c \in clients : Clears(c) /\ job.phase \in {"products"} \cup Emptied}
GoingProducts == {p \in products : Clears(p) /\ job.phase \in Emptied}

(* Fault: ORDER BY id, ascending. *)
IsFirst(r) == \A s \in invoices : r.id <= s.id

(* The row ORDER BY id DESC LIMIT 1 returns. *)
IsLast(r) == \A s \in invoices : s.id <= r.id

NextNumber == IF invoices = {} THEN 1
              ELSE (CHOOSE r \in invoices : IsLast(r)).n + 1

HasNumber(r, n) == r.series = "INV" /\ r.n = n
Taken(n) == \E r \in invoices \ job.doomed : HasNumber(r, n)

(* Another transaction has inserted, or deleted, the number. *)
IndexHeld(c) ==
  \/ \E d \in Creators \ {c} : pc[d] \in {"linking", "inserted", "lines"}
                               /\ draft[d].n = draft[c].n
  \/ \E r \in job.doomed : HasNumber(r, draft[c].n)

(* The unique index first, then the foreign keys of the new row: where the *)
(* INSERT of c's invoice leads.                                            *)
Verdict(c) ==
  IF Taken(draft[c].n) THEN "over"
  ELSE IF IndexHeld(c) THEN "waiting"
  ELSE IF draft[c].seller \notin users \/ draft[c].client \notin clients \cup {None} THEN "over"
  ELSE IF draft[c].seller \in GoingUsers \/ draft[c].client \in GoingClients
       THEN "linking" ELSE "inserted"

Blank == [seller |-> 0, client |-> None, product |-> None, n |-> 0, id |-> 0]

(* c's transaction goes on with row, or is over. *)
Moves(c, to, row) ==
  /\ pc' = [pc EXCEPT ![c] = to]
  /\ draft' = [draft EXCEPT ![c] = IF to = "over" THEN Blank ELSE row]

-----------------------------------------------------------------------------
(* A migrated, empty database. *)
Init ==
  /\ invoices = {} /\ users = {} /\ clients = {} /\ products = {}
  /\ nextId = 1
  /\ job = [kind |-> "seed", run |-> 0, phase |-> "done", doomed |-> {}, fresh |-> {}]
  /\ draft = [c \in Creators |-> Blank]
  /\ pc = [c \in Creators |-> "idle"]
  /\ stressed = FALSE

(* The product of the line, the client, if one is named, and the seller    *)
(* are looked up one after the other, and then the number.                 *)
ReadProduct(c) ==
  /\ pc[c] = "idle"
  /\ \E p \in products : Moves(c, "product", [Blank EXCEPT !.product = p])
  /\ UNCHANGED <<invoices, users, clients, products, nextId, job, stressed>>

ReadClient(c) ==
  /\ pc[c] = "product"
  /\ \E k \in clients \cup {None} : Moves(c, "client", [draft[c] EXCEPT !.client = k])
  /\ UNCHANGED <<invoices, users, clients, products, nextId, job, stressed>>

ReadSeller(c) ==
  /\ pc[c] = "client"
  /\ \E s \in users : Moves(c, "seller", [draft[c] EXCEPT !.seller = s])
  /\ UNCHANGED <<invoices, users, clients, products, nextId, job, stressed>>

ReadNumber(c) ==
  /\ pc[c] = "seller"
  /\ Moves(c, "numbered", [draft[c] EXCEPT !.n = NextNumber])
  /\ UNCHANGED <<invoices, users, clients, products, nextId, job, stressed>>

Insert(c) ==
  /\ pc[c] = "numbered"
  /\ nextId <= MaxId
  /\ Moves(c, Verdict(c), [draft[c] EXCEPT !.id = nextId])
  /\ nextId' = nextId + 1
  /\ UNCHANGED <<invoices, users, clients, products, job, stressed>>

(* The lock that stopped the INSERT is gone: it looks again. *)
Wake(c) ==
  /\ pc[c] \in {"waiting", "linking"}
  /\ Verdict(c) # pc[c]
  /\ Moves(c, Verdict(c), draft[c])
  /\ UNCHANGED <<invoices, users, clients, products, nextId, job, stressed>>

(* Fault: the line's product is no foreign key. *)
InsertsAnyLine(c) ==
  /\ pc[c] = "inserted"
  /\ Moves(c, "lines", draft[c])
  /\ UNCHANGED <<invoices, users, clients, products, nextId, job, stressed>>

(* The details: a product that is being deleted is waited for, one that is *)
(* gone refuses the line.                                                  *)
InsertsLine(c) ==
  /\ pc[c] = "inserted"
  /\ draft[c].product \notin GoingProducts
  /\ Moves(c, IF draft[c].product \in products THEN "lines" ELSE "over", draft[c])
  /\ UNCHANGED <<invoices, users, clients, products, nextId, job, stressed>>

Commit(c) ==
  /\ pc[c] = "lines"
  /\ invoices' = invoices \cup
       {[id |-> draft[c].id, series |-> "INV", n |-> draft[c].n, seller |-> draft[c].seller,
         client |-> draft[c].client, product |-> draft[c].product]}
  /\ Moves(c, "over", Blank)
  /\ UNCHANGED <<users, clients, products, nextId, job, stressed>>

(* An error, a crash, or the victim of a deadlock with the script. *)
Rollback(c) ==
  /\ pc[c] \notin {"idle", "over"}
  /\ Moves(c, "over", Blank)
  /\ UNCHANGED <<invoices, users, clients, products, nextId, job, stressed>>

-----------------------------------------------------------------------------
(* The script's steps: `job' moves to its next phase.                      *)
GoTo(phase) == job' = [job EXCEPT !.phase = phase]
ThisRun == [kind |-> job.kind, run |-> job.run]

Launch(kind) ==
  /\ job.phase \in {"done", "failed"}
  /\ job.run < MaxRuns
  /\ job' = [kind |-> kind, run |-> job.run + 1, phase |-> "invoices",
             doomed |-> {}, fresh |-> {}]
  /\ UNCHANGED <<invoices, users, clients, products, nextId, draft, pc, stressed>>

(* Fault: seed_large.py takes the invoices of its clients with them. *)
DoomsByClient(r) ==
  job.kind = "seed" \/ r.series = "STRESS" \/ r.client.kind = "stress"

Dooms(r) == job.kind = "seed" \/ r.series = "STRESS"

(* DELETE FROM invoices, with their details: the rows committed by now. *)
DeletesInvoices ==
  /\ job.phase = "invoices"
  /\ job' = [job EXCEPT !.phase = "people", !.doomed = {r \in invoices : Dooms(r)}]
  /\ UNCHANGED <<invoices, users, clients, products, nextId, draft, pc, stressed>>

(* DELETE FROM users (seed.py) and clients: an uncommitted invoice that    *)
(* refers to one of them is waited for.                                    *)
DeletesPeople ==
  /\ job.phase = "people"
  /\ \A c \in Creators : pc[c] \in {"inserted", "lines"} =>
        job.kind = "stress" /\ draft[c].client.kind # "stress"
  /\ GoTo("products")
  /\ UNCHANGED <<invoices, users, clients, products, nextId, draft, pc, stressed>>

(* DELETE FROM products: an uncommitted line of one of them is waited for. *)
DeletesProducts ==
  /\ job.phase = "products"
  /\ \A c \in Creators : pc[c] = "lines" => ~ Clears(draft[c].product)
  /\ GoTo(IF job.kind = "seed" THEN "fill" ELSE "cleared")
  /\ UNCHANGED <<invoices, users, clients, products, nextId, draft, pc, stressed>>

(* Fault: the foreign keys have no ON DELETE clause and are not enforced.  *)
KeepsReferences(rows) == rows

(* ON DELETE SET NULL, on the invoices that outlive what they refer to. *)
Nulled(rows) ==
  {[r EXCEPT !.seller = IF r.seller \in GoingUsers THEN 0 ELSE r.seller,
             !.client = IF r.client \in GoingClients THEN None ELSE r.client,
             !.product = IF r.product \in GoingProducts THEN None ELSE r.product]
     : r \in rows}

Cleared(fresh, phase) ==
  /\ invoices' = Nulled(invoices \ job.doomed) \cup fresh
  /\ job' = [job EXCEPT !.phase = phase, !.doomed = {}, !.fresh = {}]

(* _truncate_stress commits. *)
CommitsClearing ==
  /\ job.phase = "cleared"
  /\ Cleared({}, "newProducts")
  /\ clients' = clients \ GoingClients
  /\ products' = products \ GoingProducts
  /\ UNCHANGED <<users, nextId, draft, pc, stressed>>

(* _bulk_insert_products and _bulk_insert_clients, a transaction each. *)
BulkInserts ==
  /\ \/ /\ job.phase = "newProducts"
        /\ products' = products \cup {ThisRun}
        /\ GoTo("newClients")
        /\ UNCHANGED clients
     \/ /\ job.phase = "newClients"
        /\ clients' = clients \cup {ThisRun}
        /\ GoTo(IF users = {} THEN "done" ELSE "fill")  (* "Skipping invoices" *)
        /\ UNCHANGED products
  /\ UNCHANGED <<invoices, users, nextId, draft, pc, stressed>>

(* Fault: range(COUNT_INVOICES - 1). *)
OneTooFew == 0 .. StressCount - 2

(* STRESS-00000000 is the first. *)
StressNumbers == 0 .. StressCount - 1

SeedRow(id, n) ==
  [id |-> id, series |-> "001-001", n |-> n, seller |-> job.run, client |-> ThisRun,
   product |-> ThisRun]

(* The historical invoices, numbered from 1 in the order of their ids.     *)
SeedFills ==
  /\ job.kind = "seed" /\ job.phase = "fill"
  /\ nextId + DemoCount <= MaxId + 1
  /\ job' = [job EXCEPT !.phase = "filled",
                        !.fresh = {SeedRow(nextId + i - 1, i) : i \in 1 .. DemoCount}]
  /\ nextId' = nextId + DemoCount
  /\ UNCHANGED <<invoices, users, clients, products, draft, pc, stressed>>

(* A row of _bulk_insert_invoices: any client, any seller, and no line.    *)
StressFills ==
  /\ job.kind = "stress" /\ job.phase = "fill"
  /\ nextId <= MaxId
  /\ LET n == Cardinality(job.fresh)
     IN  /\ n \in StressNumbers
         /\ ~ \E r \in invoices : r.series = "STRESS" /\ r.n = n
         /\ \E s \in users, k \in clients :
              job' = [job EXCEPT
                        !.phase = IF n + 1 \in StressNumbers THEN "fill" ELSE "filled",
                        !.fresh = @ \cup {[id |-> nextId, series |-> "STRESS", n |-> n,
                                           seller |-> s, client |-> k, product |-> None]}]
  /\ nextId' = nextId + 1
  /\ UNCHANGED <<invoices, users, clients, products, draft, pc, stressed>>

SeedCommits ==
  /\ job.kind = "seed" /\ job.phase = "filled"
  /\ Cleared(job.fresh, "done")
  /\ users' = {job.run}
  /\ clients' = {ThisRun}
  /\ products' = {ThisRun}
  /\ stressed' = FALSE
  /\ UNCHANGED <<nextId, draft, pc>>

StressCommits ==
  /\ job.kind = "stress" /\ job.phase = "filled"
  /\ Cleared(job.fresh, "done")
  /\ stressed' = TRUE
  /\ UNCHANGED <<users, clients, products, nextId, draft, pc>>

(* Stopped, cut off, or the victim of a deadlock: the transaction under    *)
(* way is undone, those before it stand.                                   *)
ScriptFails ==
  /\ job.phase \notin {"done", "failed"}
  /\ job' = [job EXCEPT !.phase = "failed", !.doomed = {}, !.fresh = {}]
  /\ UNCHANGED <<invoices, users, clients, products, nextId, draft, pc, stressed>>

Script == \/ DeletesInvoices \/ DeletesPeople \/ DeletesProducts
          \/ CommitsClearing \/ BulkInserts
          \/ SeedFills \/ StressFills \/ SeedCommits \/ StressCommits
          \/ ScriptFails

Next == \/ \E kind \in Kinds : Launch(kind)
        \/ Script
        \/ \E c \in Creators :
             \/ ReadProduct(c) \/ ReadClient(c) \/ ReadSeller(c) \/ ReadNumber(c)
             \/ Insert(c) \/ Wake(c) \/ InsertsLine(c) \/ Commit(c) \/ Rollback(c)

Spec == Init /\ [][Next]_vars

-----------------------------------------------------------------------------
(* No invoice refers to a seller or a client that is gone, and no line to  *)
(* a product, although POST /invoices read them before a script deleted    *)
(* them: the foreign keys make one wait for the other, or fail.            *)
ReferencesResolve ==
  \A r \in invoices : /\ r.seller \in users \cup {0}
                      /\ r.client \in clients \cup {None}
                      /\ r.product \in products \cup {None}

(* A number read before seed.py renumbers from 1 is not used after it: its *)
(* seller is gone by then.  So the next number is free, but for the two    *)
(* ways in which the scripts do upset the numbering: seed_large.py wrote   *)
(* invoices since the wipe (its numbers start below those in use), or an   *)
(* invoice committed while seed.py was deleting outlived its seller.  Then *)
(* every creation may fail until a script is run again.                    *)
NumbersGoOn ==
  ~ stressed /\ (\A r \in invoices : r.seller # 0) => ~ \E r \in invoices :
      HasNumber(r, NextNumber)

(* "Safe to re-run: clears the previous stress rows first": a run that     *)
(* ends leaves exactly its rows, whatever an earlier one that was stopped  *)
(* half way left behind (no invoices if there is no user yet).             *)
StressIsWhole ==
  job.phase = "done" /\ job.kind = "stress" =>
    /\ {r.n : r \in {s \in invoices : s.series = "STRESS"}} =
         IF users = {} THEN {} ELSE 0 .. StressCount - 1
    /\ {k \in clients : k.kind = "stress"} = {ThisRun}
    /\ {k \in products : k.kind = "stress"} = {ThisRun}

(* "(but not the demo seed)": a run of seed_large.py takes no invoice of   *)
(* another series away, and changes of one at most its client and the      *)
(* product of its line, when they were stress rows.                        *)
StressSparesOthers ==
  [][ job.kind = "stress" /\ job'.kind = "stress" =>
        \A r \in invoices : r.series # "STRESS" =>
          \E s \in invoices' :
            /\ s = [r EXCEPT !.client = s.client, !.product = s.product]
            /\ s.client # r.client => s.client = None /\ r.client.kind = "stress"
            /\ s.product # r.product => s.product = None /\ r.product.kind = "stress" ]_vars
=============================================================================
