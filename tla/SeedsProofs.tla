---------------------------- MODULE SeedsProofs ----------------------------
(***************************************************************************)
(* Proofs about Seeds, for any number of creators, runs and rows.          *)
(*                                                                         *)
(* ReferencesResolve is not inductive: it says nothing of the rows that    *)
(* are about to be committed.  Linked does: a creation that has inserted   *)
(* its row, and every row of the script, refers to rows that no            *)
(* uncommitted delete is taking away.  StressIsWhole needs to know how far *)
(* seed_large.py is at every phase, NumbersGoOn which numbers the          *)
(* creations under way have read (TurnInv).                                *)
(***************************************************************************)
EXTENDS Seeds, FiniteSetTheorems, WellFoundedInduction, TLAPS

Active == job.phase \notin {"done", "failed"}

Draft == [seller : 0 .. MaxRuns, client : Run \cup {None}, product : Run \cup {None},
          n : Nat, id : 0 .. MaxId]

Stages == {"idle", "product", "client", "seller", "numbered",
           "waiting", "linking", "inserted", "lines", "over"}

Typed ==
  /\ TypeOK
  /\ \A c \in Creators :
       pc[c] \in {"waiting", "linking", "inserted", "lines"} => draft[c].id # 0
  /\ Active => job.run # 0

FreshRefers(r) ==
  IF job.kind = "seed" THEN r.seller = job.run /\ r.client = ThisRun /\ r.product = ThisRun
  ELSE r.seller \in users /\ r.client \in clients /\ r.product = None

(* Rows about to be committed refer to rows that stay. *)
Linked ==
  /\ \A c \in Creators : pc[c] \in {"inserted", "lines"} =>
       draft[c].seller \in users \ GoingUsers
       /\ draft[c].client \in (clients \ GoingClients) \cup {None}
  /\ \A c \in Creators : pc[c] = "lines" => draft[c].product \in products \ GoingProducts
  /\ \A r \in job.fresh : FreshRefers(r)
  /\ job.phase \in {"cleared", "newProducts", "newClients"} => job.kind = "stress"

Stress(rs) == {k \in rs : k.kind = "stress"}
StressRows == {r \in invoices : r.series = "STRESS"}

(* How far seed_large.py is. *)
Numbered(rows, n) == /\ \A r \in rows : r.series = "STRESS" /\ r.id < nextId
                     /\ IsFiniteSet(rows) /\ {r.n : r \in rows} = 0 .. n - 1
StressGoesOn ==
  job.kind = "stress" =>
    /\ \A r \in job.doomed : r.series = "STRESS"
    /\ job.phase \in {"people", "products", "cleared"} => StressRows \subseteq job.doomed
    /\ job.phase \in {"newProducts", "newClients", "fill", "filled"} => StressRows = {}
    /\ job.phase \in {"newProducts", "newClients"} => Stress(clients) = {}
    /\ job.phase = "newProducts" => Stress(products) = {}
    /\ job.phase \in {"newClients", "fill", "filled"} => Stress(products) = {ThisRun}
    /\ job.phase \in {"fill", "filled"} => Stress(clients) = {ThisRun} /\ users # {}
    /\ job.phase \notin {"fill", "filled"} => job.fresh = {}
    /\ job.phase = "fill" => /\ Numbered(job.fresh, Cardinality(job.fresh))
                             /\ Cardinality(job.fresh) < StressCount
    /\ job.phase = "filled" => Numbered(job.fresh, StressCount)

SInv == Typed /\ ReferencesResolve /\ Linked /\ StressGoesOn /\ StressIsWhole

-----------------------------------------------------------------------------
LEMMA InitSInv == Init => SInv
  BY Sizes
  DEF Init, SInv, Typed, TypeOK, Active, ReferencesResolve, Linked, StressGoesOn,
      StressIsWhole, Blank, Draft, Kinds, Phases, None

(* Finitely many ids: one is the greatest. *)
LEMMA Greatest ==
  ASSUME Typed, invoices # {}
  PROVE  \E r \in invoices : IsLast(r)
  <1> DEFINE gaps == {MaxId - r.id : r \in invoices}
  <1>1. gaps \subseteq Nat /\ gaps # {}
    BY Sizes DEF Typed, TypeOK, Invoice
  <1> HIDE DEF gaps
  <1>2. PICK g \in gaps : \A h \in gaps : ~ (<<h, g>> \in OpToRel(<, Nat))
    BY <1>1, NatLessThanWellFounded, WFMin
  <1>3. \A h \in gaps : ~ h < g
    BY <1>1, <1>2 DEF OpToRel
  <1> USE DEF gaps
  <1>4. PICK r \in invoices : g = MaxId - r.id
    OBVIOUS
  <1>5. ASSUME NEW s \in invoices PROVE s.id <= r.id
    <2>1. ~ (MaxId - s.id < MaxId - r.id)
      BY <1>3, <1>4
    <2>2. s.id \in Nat /\ r.id \in Nat
      BY Sizes DEF Typed, TypeOK, Invoice
    <2>3. QED
      BY <2>1, <2>2, Sizes
  <1>6. QED
    BY <1>4, <1>5 DEF IsLast

LEMMA NextNumberType == ASSUME Typed PROVE NextNumber \in Nat
  <1>1. CASE invoices = {}
    BY <1>1 DEF NextNumber
  <1>2. CASE invoices # {}
    <2>1. (CHOOSE r \in invoices : IsLast(r)) \in invoices
      BY <1>2, Greatest
    <2>2. (CHOOSE r \in invoices : IsLast(r)).n \in Nat
      BY <2>1 DEF Typed, TypeOK, Invoice
    <2>3. QED
      BY <1>2, <2>2 DEF NextNumber
  <1>3. QED
    BY <1>1, <1>2

-----------------------------------------------------------------------------
(* Types, action by action. *)
LEMMA DraftTypes ==
  ASSUME Typed
  PROVE  /\ draft \in [Creators -> Draft] /\ pc \in [Creators -> Stages]
         /\ Blank \in Draft /\ None \notin Run
  BY Sizes DEF Typed, TypeOK, Draft, Stages, Blank, None, Run, Kinds

(* A creation that goes on with its row, or ends. *)
LEMMA MovesTypes ==
  ASSUME Typed, NEW c \in Creators, NEW row, NEW to \in Stages, Moves(c, to, row),
         row \in Draft \/ to = "over",
         to \in {"waiting", "linking", "inserted", "lines"} => row.id # 0,
         invoices' \subseteq Invoice, nextId' \in 1 .. MaxId + 1,
         UNCHANGED <<users, clients, products, job>>
  PROVE  Typed'
  <1> DEFINE new == IF to = "over" THEN Blank ELSE row
  <1>1. pc' = [pc EXCEPT ![c] = to] /\ draft' = [draft EXCEPT ![c] = new]
    BY DEF Moves
  <1>2. new \in Draft /\ (to \in {"waiting", "linking", "inserted", "lines"} => new.id # 0)
    BY DraftTypes
  <1> HIDE DEF new
  <1>3. pc' \in [Creators -> Stages] /\ draft' \in [Creators -> Draft]
    BY <1>1, <1>2, DraftTypes
  <1>4. ASSUME NEW d \in Creators, pc'[d] \in {"waiting", "linking", "inserted", "lines"}
        PROVE  draft'[d].id # 0
    BY <1>1, <1>2, <1>4, DraftTypes DEF Typed
  <1>5. TypeOK'
    BY <1>3 DEF Typed, TypeOK, Draft, Stages
  <1>6. QED
    BY <1>4, <1>5 DEF Typed, Active

LEMMA VerdictType == \A c : Verdict(c) \in {"over", "waiting", "linking", "inserted"}
  BY DEF Verdict

LEMMA RowsStay ==
  ASSUME Typed
  PROVE  invoices \subseteq Invoice /\ nextId \in 1 .. MaxId + 1
  BY DEF Typed, TypeOK

LEMMA ReadTypes ==
  ASSUME Typed, NEW c \in Creators, ReadProduct(c) \/ ReadClient(c) \/ ReadSeller(c) \/ ReadNumber(c)
  PROVE  Typed'
  <1>1. draft[c] \in Draft /\ Blank \in Draft
    BY DraftTypes
  <1>2. CASE ReadProduct(c)
    <2>1. PICK p \in products : Moves(c, "product", [Blank EXCEPT !.product = p])
      BY <1>2 DEF ReadProduct
    <2>2. [Blank EXCEPT !.product = p] \in Draft
      BY <1>1 DEF Draft, Typed, TypeOK
    <2>3. QED
      BY <1>2, <2>1, <2>2, MovesTypes, RowsStay DEF ReadProduct, Stages
  <1>3. CASE ReadClient(c)
    <2>1. PICK k \in clients \cup {None} : Moves(c, "client", [draft[c] EXCEPT !.client = k])
      BY <1>3 DEF ReadClient
    <2>2. [draft[c] EXCEPT !.client = k] \in Draft
      BY <1>1 DEF Draft, Typed, TypeOK
    <2>3. QED
      BY <1>3, <2>1, <2>2, MovesTypes, RowsStay DEF ReadClient, Stages
  <1>4. CASE ReadSeller(c)
    <2>1. PICK s \in users : Moves(c, "seller", [draft[c] EXCEPT !.seller = s])
      BY <1>4 DEF ReadSeller
    <2>2. [draft[c] EXCEPT !.seller = s] \in Draft
      <3>1. s \in 0 .. MaxRuns
        BY Sizes DEF Typed, TypeOK
      <3>2. QED
        BY <1>1, <3>1 DEF Draft
    <2>3. QED
      BY <1>4, <2>1, <2>2, MovesTypes, RowsStay DEF ReadSeller, Stages
  <1>5. CASE ReadNumber(c)
    <2>1. [draft[c] EXCEPT !.n = NextNumber] \in Draft
      BY <1>1, NextNumberType DEF Draft
    <2>2. QED
      BY <1>5, <2>1, MovesTypes, RowsStay DEF ReadNumber, Stages
  <1>6. QED
    BY <1>2, <1>3, <1>4, <1>5

LEMMA CreatorTypes ==
  ASSUME Typed, NEW c \in Creators,
         Insert(c) \/ Wake(c) \/ InsertsLine(c) \/ Commit(c) \/ Rollback(c)
  PROVE  Typed'
  <1>1. draft[c] \in Draft
    BY DraftTypes
  <1>2. CASE Insert(c)
    <2> DEFINE row == [draft[c] EXCEPT !.id = nextId]
    <2>0. nextId \in 1 .. MaxId /\ nextId' \in 1 .. MaxId + 1
      BY <1>2, RowsStay, Sizes DEF Insert
    <2>1. row \in Draft /\ row.id # 0
      BY <1>1, <2>0, Sizes DEF Draft
    <2>2. Moves(c, Verdict(c), row)
      BY <1>2 DEF Insert
    <2> HIDE DEF row
    <2>3. QED
      BY <1>2, <2>0, <2>1, <2>2, MovesTypes, VerdictType, RowsStay DEF Insert, Stages
  <1>3. CASE Wake(c)
    <2>1. draft[c].id # 0
      BY <1>3 DEF Wake, Typed
    <2>2. QED
      BY <1>1, <1>3, <2>1, MovesTypes, VerdictType, RowsStay DEF Wake, Stages
  <1>4. CASE InsertsLine(c)
    <2>1. draft[c].id # 0
      BY <1>4 DEF InsertsLine, Typed
    <2> DEFINE to == IF draft[c].product \in products THEN "lines" ELSE "over"
    <2>2. to \in Stages /\ Moves(c, to, draft[c])
      BY <1>4 DEF InsertsLine, Stages
    <2> HIDE DEF to
    <2>3. QED
      BY <1>1, <1>4, <2>1, <2>2, MovesTypes, RowsStay DEF InsertsLine
  <1>5. CASE Commit(c)
    <2> DEFINE row == [id |-> draft[c].id, series |-> "INV", n |-> draft[c].n,
                       seller |-> draft[c].seller, client |-> draft[c].client,
                       product |-> draft[c].product]
    <2>1. row \in Invoice
      BY <1>1, <1>5, Sizes DEF Commit, Typed, Draft, Invoice
    <2>2. invoices' \subseteq Invoice
      BY <1>5, <2>1, RowsStay DEF Commit
    <2> HIDE DEF row
    <2>3. QED
      BY <1>5, <2>2, MovesTypes, RowsStay DEF Commit, Stages
  <1>6. CASE Rollback(c)
    BY <1>6, MovesTypes, RowsStay DEF Rollback, Stages
  <1>7. QED
    BY <1>2, <1>3, <1>4, <1>5, <1>6

LEMMA NulledTypes ==
  ASSUME NEW rows, rows \subseteq Invoice
  PROVE  /\ Nulled(rows) \subseteq Invoice
         /\ \A r \in Nulled(rows) : \E q \in rows :
              /\ r.id = q.id /\ r.series = q.series /\ r.n = q.n
              /\ r.seller = IF q.seller \in GoingUsers THEN 0 ELSE q.seller
              /\ r.client = IF q.client \in GoingClients THEN None ELSE q.client
              /\ r.product = IF q.product \in GoingProducts THEN None ELSE q.product
         /\ \A q \in rows :
              [q EXCEPT !.seller = IF q.seller \in GoingUsers THEN 0 ELSE q.seller,
                        !.client = IF q.client \in GoingClients THEN None ELSE q.client,
                        !.product = IF q.product \in GoingProducts THEN None ELSE q.product] \in Nulled(rows)
  <1> DEFINE after(q) == [q EXCEPT !.seller = IF q.seller \in GoingUsers THEN 0 ELSE q.seller,
                                   !.client = IF q.client \in GoingClients THEN None ELSE q.client,
                        !.product = IF q.product \in GoingProducts THEN None ELSE q.product]
  <1>1. ASSUME NEW q \in rows
        PROVE  /\ after(q) \in Invoice
               /\ after(q).id = q.id /\ after(q).series = q.series /\ after(q).n = q.n
               /\ after(q).seller = IF q.seller \in GoingUsers THEN 0 ELSE q.seller
               /\ after(q).client = IF q.client \in GoingClients THEN None ELSE q.client
               /\ after(q).product = IF q.product \in GoingProducts THEN None ELSE q.product
    <2> DEFINE s == IF q.seller \in GoingUsers THEN 0 ELSE q.seller
               k == IF q.client \in GoingClients THEN None ELSE q.client
               p == IF q.product \in GoingProducts THEN None ELSE q.product
    <2>1. q \in Invoice
      OBVIOUS
    <2>2. s \in 0 .. MaxRuns /\ k \in Run \cup {None} /\ p \in Run \cup {None}
      BY <2>1, Sizes DEF Invoice
    <2>3. after(q) = [q EXCEPT !.seller = s, !.client = k, !.product = p]
      OBVIOUS
    <2> HIDE DEF s, k, p, after
    <2>4. /\ after(q) \in Invoice /\ after(q).id = q.id /\ after(q).series = q.series
          /\ after(q).n = q.n /\ after(q).seller = s /\ after(q).client = k
          /\ after(q).product = p
      BY <2>1, <2>2, <2>3 DEF Invoice
    <2>5. QED
      BY <2>4 DEF s, k, p
  <1>2. Nulled(rows) = {after(q) : q \in rows}
    BY DEF Nulled
  <1> HIDE DEF after
  <1>3. Nulled(rows) \subseteq Invoice
    BY <1>1, <1>2
  <1>4. ASSUME NEW r \in Nulled(rows)
        PROVE  \E q \in rows :
                 /\ r.id = q.id /\ r.series = q.series /\ r.n = q.n
                 /\ r.seller = IF q.seller \in GoingUsers THEN 0 ELSE q.seller
                 /\ r.client = IF q.client \in GoingClients THEN None ELSE q.client
                 /\ r.product = IF q.product \in GoingProducts THEN None ELSE q.product
    <2>1. PICK q \in rows : r = after(q)
      BY <1>2
    <2>2. QED
      BY <1>1, <2>1
  <1>5. \A q \in rows : after(q) \in Nulled(rows)
    BY <1>2
  <1>6. QED
    BY <1>3, <1>4, <1>5 DEF after

JobType == [kind : Kinds, run : 0 .. MaxRuns, phase : Phases,
            doomed : SUBSET Invoice, fresh : SUBSET Invoice]

(* The script's transactions that fill tables. *)
LEMMA FillTypes ==
  ASSUME Typed, SeedFills \/ StressFills
  PROVE  Typed'
  <1>0. Active /\ job.run # 0 /\ ThisRun \in Run /\ job \in JobType /\ job.run \in 1 .. MaxRuns
    <2>1. Active
      BY DEF SeedFills, StressFills, Active
    <2>2. job \in JobType /\ job.run # 0
      BY <2>1 DEF Typed, TypeOK, JobType
    <2>3. QED
      BY <2>1, <2>2, Sizes DEF JobType, ThisRun, Run
  <1>1. CASE SeedFills
    <2>1. \A i \in 1 .. DemoCount : SeedRow(nextId + i - 1, i) \in Invoice
      BY <1>0, <1>1, Sizes DEF SeedFills, SeedRow, Invoice, Typed, TypeOK
    <2> DEFINE rows == {SeedRow(nextId + i - 1, i) : i \in 1 .. DemoCount}
    <2>2. rows \subseteq Invoice
      BY <2>1
    <2>3. job' = [job EXCEPT !.phase = "filled", !.fresh = rows]
      BY <1>1 DEF SeedFills
    <2> HIDE DEF rows
    <2>4. job' \in JobType /\ job'.run = job.run
      BY <1>0, <2>2, <2>3 DEF JobType, Phases
    <2>5. nextId' \in 1 .. MaxId + 1
      BY <1>1, Sizes DEF SeedFills, Typed, TypeOK
    <2>6. QED
      BY <1>0, <1>1, <2>4, <2>5 DEF SeedFills, Typed, TypeOK, JobType, Active
  <1>2. CASE StressFills
    <2>0. nextId <= MaxId /\ nextId' = nextId + 1
      BY <1>2, Zenon DEF StressFills
    <2>1. PICK s \in users, k \in clients, phase \in {"fill", "filled"} :
            /\ job' = [job EXCEPT !.phase = phase,
                        !.fresh = @ \cup {[id |-> nextId, series |-> "STRESS",
                                           n |-> Cardinality(job.fresh), seller |-> s, client |-> k, product |-> None]}]
            /\ Cardinality(job.fresh) \in StressNumbers
      BY <1>2 DEF StressFills
    <2> DEFINE row == [id |-> nextId, series |-> "STRESS",
                       n |-> Cardinality(job.fresh), seller |-> s, client |-> k, product |-> None]
    <2>2. row \in Invoice
      <3>1. nextId \in 1 .. MaxId
        BY <2>0, Sizes DEF Typed, TypeOK
      <3>2. Cardinality(job.fresh) \in Nat
        BY <2>1, Sizes DEF StressNumbers
      <3>3. s \in 0 .. MaxRuns /\ k \in Run
        BY Sizes DEF Typed, TypeOK
      <3>4. QED
        BY <3>1, <3>2, <3>3 DEF Invoice
    <2>3. job' = [job EXCEPT !.phase = phase, !.fresh = job.fresh \cup {row}]
      BY <2>1
    <2> HIDE DEF row
    <2>4. job' \in JobType /\ job'.run = job.run
      BY <1>0, <2>2, <2>3 DEF JobType, Phases
    <2>5. nextId' \in 1 .. MaxId + 1
      BY <2>0, Sizes DEF Typed, TypeOK
    <2>6. QED
      BY <1>0, <1>2, <2>4, <2>5 DEF StressFills, Typed, TypeOK, JobType, Active
  <1>3. QED
    BY <1>1, <1>2

LEMMA ClearedTypes ==
  ASSUME Typed, NEW phase \in Phases, NEW fresh, fresh \subseteq Invoice, Cleared(fresh, phase)
  PROVE  invoices' \subseteq Invoice /\ job' \in JobType /\ job'.run = job.run
  <1>1. invoices \ job.doomed \subseteq Invoice
    BY DEF Typed, TypeOK
  <1>2. invoices' \subseteq Invoice
    BY <1>1, NulledTypes DEF Cleared
  <1>3. job \in JobType
    BY DEF Typed, TypeOK, JobType
  <1>4. job' \in JobType /\ job'.run = job.run
    BY <1>3 DEF Cleared, JobType
  <1>5. QED
    BY <1>2, <1>4

LEMMA ScriptTypes ==
  ASSUME Typed, Script
  PROVE  Typed'
  <1>0. job \in JobType /\ (Active => ThisRun \in Run /\ job.run \in 1 .. MaxRuns)
    BY Sizes DEF Active, Typed, TypeOK, JobType, ThisRun, Run
  <1>1. CASE DeletesInvoices
    <2>1. {r \in invoices : Dooms(r)} \subseteq Invoice
      BY DEF Typed, TypeOK
    <2>2. job' \in JobType /\ job'.run = job.run
      BY <1>0, <1>1, <2>1 DEF DeletesInvoices, JobType, Phases
    <2>3. QED
      BY <1>0, <1>1, <2>2 DEF DeletesInvoices, Typed, TypeOK, JobType, Active
  <1>2. ASSUME NEW phase \in Phases, GoTo(phase) PROVE job' \in JobType /\ job'.run = job.run
    BY <1>0, <1>2 DEF GoTo, JobType
  <1>3. CASE DeletesPeople
    BY <1>0, <1>2, <1>3 DEF DeletesPeople, Typed, TypeOK, JobType, Active, Phases
  <1>4. CASE DeletesProducts
    BY <1>0, <1>2, <1>4 DEF DeletesProducts, Typed, TypeOK, JobType, Active, Phases
  <1>5. CASE CommitsClearing
    <2>1. invoices' \subseteq Invoice /\ job' \in JobType /\ job'.run = job.run
      BY <1>5, ClearedTypes DEF CommitsClearing, Phases
    <2>2. QED
      BY <1>0, <1>5, <2>1 DEF CommitsClearing, Typed, TypeOK, JobType, Active
  <1>6. CASE BulkInserts
    BY <1>0, <1>2, <1>6 DEF BulkInserts, Typed, TypeOK, JobType, Active, Phases
  <1>7. CASE SeedCommits
    <2>1. job.fresh \subseteq Invoice
      BY <1>0 DEF JobType
    <2>2. invoices' \subseteq Invoice /\ job' \in JobType /\ job'.run = job.run
      BY <1>7, <2>1, ClearedTypes DEF SeedCommits, Phases
    <2>3. ThisRun \in Run /\ job.run \in 1 .. MaxRuns
      BY <1>0, <1>7 DEF SeedCommits, Active
    <2>4. QED
      BY <1>7, <2>2, <2>3 DEF SeedCommits, Typed, TypeOK, JobType, Active
  <1>8. CASE StressCommits
    <2>1. job.fresh \subseteq Invoice
      BY <1>0 DEF JobType
    <2>2. invoices' \subseteq Invoice /\ job' \in JobType /\ job'.run = job.run
      BY <1>8, <2>1, ClearedTypes DEF StressCommits, Phases
    <2>3. QED
      BY <1>0, <1>8, <2>2 DEF StressCommits, Typed, TypeOK, JobType, Active
  <1>9. CASE ScriptFails
    <2>1. job' \in JobType /\ job'.run = job.run
      BY <1>0, <1>9 DEF ScriptFails, JobType, Phases
    <2>2. QED
      BY <1>0, <1>9, <2>1 DEF ScriptFails, Typed, TypeOK, JobType, Active
  <1>10. QED
    BY <1>1, <1>3, <1>4, <1>5, <1>6, <1>7, <1>8, <1>9, FillTypes DEF Script

LEMMA LaunchTypes ==
  ASSUME Typed, NEW kind \in Kinds, Launch(kind)
  PROVE  Typed'
  <1>1. job' \in JobType /\ job'.run # 0
    BY Sizes DEF Launch, Typed, TypeOK, JobType, Phases
  <1>2. QED
    BY <1>1 DEF Launch, Typed, TypeOK, JobType

LEMMA StepTyped == Typed /\ [Next]_vars => Typed'
  <1>1. ASSUME Typed, UNCHANGED vars PROVE Typed'
    BY <1>1 DEF vars, Typed, TypeOK, Active
  <1>2. QED
    BY <1>1, ReadTypes, CreatorTypes, ScriptTypes, LaunchTypes DEF Next

-----------------------------------------------------------------------------
(* References.  A creation's row is checked against what the script is     *)
(* taking away when it is inserted, and stops the script after that.       *)
RefInv == ReferencesResolve /\ Linked

LEMMA VerdictInserted ==
  ASSUME NEW c, Verdict(c) = "inserted"
  PROVE  /\ draft[c].seller \in users \ GoingUsers
         /\ draft[c].client \in (clients \ GoingClients) \cup {None}
  BY DEF Verdict, GoingUsers, GoingClients

LEMMA MovesRefs ==
  ASSUME Typed, RefInv, NEW c \in Creators, NEW to \in Stages, NEW row, Moves(c, to, row),
         UNCHANGED <<users, clients, products, job>>,
         to \in {"inserted", "lines"} => /\ row.seller \in users \ GoingUsers
                                        /\ row.client \in (clients \ GoingClients) \cup {None},
         to = "lines" => row.product \in products \ GoingProducts
  PROVE  Linked'
  <1>1. GoingUsers' = GoingUsers /\ GoingClients' = GoingClients /\ GoingProducts' = GoingProducts
    BY DEF GoingUsers, GoingClients, GoingProducts, Emptied, Clears
  <1>2. /\ pc'[c] = to /\ (to # "over" => draft'[c] = row)
        /\ \A d \in Creators \ {c} : pc'[d] = pc[d] /\ draft'[d] = draft[d]
    BY DraftTypes DEF Moves
  <1>3. \A r \in job'.fresh : FreshRefers(r)'
    BY DEF RefInv, Linked, FreshRefers, ThisRun
  <1>4. ASSUME NEW d \in Creators, pc'[d] \in {"inserted", "lines"}
        PROVE  /\ draft'[d].seller \in users \ GoingUsers
               /\ draft'[d].client \in (clients \ GoingClients) \cup {None}
    <2>1. CASE d = c
      BY <1>2, <1>4, <2>1
    <2>2. CASE d # c
      BY <1>2, <1>4, <2>2 DEF RefInv, Linked
    <2>3. QED
      BY <2>1, <2>2
  <1>5. ASSUME NEW d \in Creators, pc'[d] = "lines"
        PROVE  draft'[d].product \in products \ GoingProducts
    <2>1. CASE d = c
      BY <1>2, <1>5, <2>1
    <2>2. CASE d # c
      BY <1>2, <1>5, <2>2 DEF RefInv, Linked
    <2>3. QED
      BY <2>1, <2>2
  <1>6. QED
    BY <1>1, <1>3, <1>4, <1>5 DEF RefInv, Linked

LEMMA ReadRefs ==
  ASSUME Typed, RefInv, NEW c \in Creators,
         \/ ReadProduct(c) \/ ReadClient(c) \/ ReadSeller(c) \/ ReadNumber(c) \/ Rollback(c)
  PROVE  RefInv'
  <1>1. UNCHANGED <<invoices, users, clients, products, job>>
    BY DEF ReadProduct, ReadClient, ReadSeller, ReadNumber, Rollback
  <1>2. \E to \in {"product", "client", "seller", "numbered", "over"} : \E row : Moves(c, to, row)
    <2>1. CASE ReadProduct(c)
      BY <2>1 DEF ReadProduct
    <2>2. CASE ReadClient(c)
      BY <2>2 DEF ReadClient
    <2>3. CASE ReadSeller(c)
      BY <2>3 DEF ReadSeller
    <2>4. CASE ReadNumber(c)
      BY <2>4 DEF ReadNumber
    <2>5. CASE Rollback(c)
      BY <2>5 DEF Rollback
    <2>6. QED
      BY <2>1, <2>2, <2>3, <2>4, <2>5
  <1>3. PICK to \in {"product", "client", "seller", "numbered", "over"} : \E row : Moves(c, to, row)
    BY <1>2
  <1>4. PICK row : Moves(c, to, row)
    BY <1>3
  <1>5. to \in Stages /\ to \notin {"inserted", "lines"}
    BY DEF Stages
  <1>6. Linked'
    BY <1>1, <1>4, <1>5, MovesRefs
  <1>7. QED
    BY <1>1, <1>6 DEF RefInv, ReferencesResolve

LEMMA CreatorRefs ==
  ASSUME Typed, RefInv, NEW c \in Creators,
         Insert(c) \/ Wake(c) \/ InsertsLine(c) \/ Commit(c)
  PROVE  RefInv'
  <1>1. UNCHANGED <<users, clients, products, job>>
    BY DEF Insert, Wake, InsertsLine, Commit
  <1>2. CASE Insert(c)
    <2> DEFINE row == [draft[c] EXCEPT !.id = nextId]
    <2>1. row.seller = draft[c].seller /\ row.client = draft[c].client
      BY DraftTypes DEF Draft
    <2>2. Moves(c, Verdict(c), row) /\ invoices' = invoices
      BY <1>2 DEF Insert
    <2> HIDE DEF row
    <2>3. Verdict(c) \in Stages /\ Verdict(c) # "lines"
      BY VerdictType DEF Stages
    <2>4. Linked'
      BY <1>1, <2>1, <2>2, <2>3, MovesRefs, VerdictInserted
    <2>5. QED
      BY <1>1, <2>2, <2>4 DEF RefInv, ReferencesResolve
  <1>3. CASE Wake(c)
    <2>1. Moves(c, Verdict(c), draft[c]) /\ invoices' = invoices
      BY <1>3 DEF Wake
    <2>2. Verdict(c) \in Stages /\ Verdict(c) # "lines"
      BY VerdictType DEF Stages
    <2>3. Linked'
      BY <1>1, <2>1, <2>2, MovesRefs, VerdictInserted
    <2>4. QED
      BY <1>1, <2>1, <2>3 DEF RefInv, ReferencesResolve
  <1>4. CASE InsertsLine(c)
    <2> DEFINE to == IF draft[c].product \in products THEN "lines" ELSE "over"
    <2>1. /\ to \in Stages /\ Moves(c, to, draft[c]) /\ invoices' = invoices
          /\ pc[c] = "inserted" /\ to # "inserted"
          /\ to = "lines" => draft[c].product \in products \ GoingProducts
      BY <1>4 DEF InsertsLine, Stages
    <2> HIDE DEF to
    <2>2. Linked'
      BY <1>1, <2>1, MovesRefs DEF RefInv, Linked
    <2>3. QED
      BY <1>1, <2>1, <2>2 DEF RefInv, ReferencesResolve
  <1>5. CASE Commit(c)
    <2>1. /\ draft[c].seller \in users /\ draft[c].client \in clients \cup {None}
          /\ draft[c].product \in products
      BY <1>5 DEF Commit, RefInv, Linked
    <2>2. ReferencesResolve'
      BY <1>1, <1>5, <2>1 DEF Commit, RefInv, ReferencesResolve
    <2>3. "over" \in Stages /\ Moves(c, "over", Blank)
      BY <1>5 DEF Commit, Stages
    <2>4. Linked'
      BY <1>1, <2>3, MovesRefs
    <2>5. QED
      BY <2>2, <2>4 DEF RefInv
  <1>6. QED
    BY <1>2, <1>3, <1>4, <1>5

(* What a phase of the script is taking away. *)
GoingByPhase ==
  /\ GoingUsers \subseteq users /\ GoingClients \subseteq clients
  /\ GoingProducts \subseteq products
  /\ \A p \in GoingProducts : job.kind = "seed" \/ p.kind = "stress"
  /\ job.kind = "seed" /\ job.phase \in {"fill", "filled"} => GoingProducts = products
  /\ job.phase \notin {"cleared", "fill", "filled"} => GoingProducts = {}
  /\ job.kind = "stress" /\ job.phase # "cleared" => GoingProducts = {}
  /\ job.kind = "seed" /\ job.phase \in {"products", "fill", "filled"} =>
       GoingUsers = users /\ GoingClients = clients
  /\ job.kind = "stress" => GoingUsers = {}
  /\ job.kind = "stress" /\ job.phase \in {"products", "cleared"} => GoingClients = Stress(clients)
  /\ job.kind = "stress" /\ job.phase \notin {"products", "cleared"} => GoingClients = {}
  /\ job.phase \in {"done", "failed", "invoices", "people", "newProducts", "newClients"} =>
       GoingUsers = {} /\ GoingClients = {}

LEMMA Going == GoingByPhase
  BY DEF GoingByPhase, GoingUsers, GoingClients, GoingProducts, Emptied, Clears, Stress

LEMMA GoingNext == GoingByPhase'
  BY Going, PTL

(* The script's steps that take no committed row away. *)
LEMMA QuietRefs ==
  ASSUME Typed, RefInv, UNCHANGED <<invoices, users, draft, pc>>,
         clients \subseteq clients', products \subseteq products',
         job'.kind = job.kind, job'.run = job.run,
         \A c \in Creators : pc[c] \in {"inserted", "lines"} =>
           draft[c].seller \notin GoingUsers' /\ draft[c].client \notin GoingClients',
         \A c \in Creators : pc[c] = "lines" => draft[c].product \notin GoingProducts',
         \A r \in job'.fresh : FreshRefers(r),
         job'.phase \in {"cleared", "newProducts", "newClients"} => job.kind = "stress"
  PROVE  RefInv'
  <1>1. ReferencesResolve'
    BY DEF RefInv, ReferencesResolve
  <1>2. \A r \in job'.fresh : FreshRefers(r)'
    BY DEF FreshRefers, ThisRun
  <1>3. \A c \in Creators : pc'[c] \in {"inserted", "lines"} =>
          /\ draft'[c].seller \in users' \ GoingUsers'
          /\ draft'[c].client \in (clients' \ GoingClients') \cup {None}
    BY DEF RefInv, Linked
  <1>4. \A c \in Creators : pc'[c] = "lines" => draft'[c].product \in products' \ GoingProducts'
    BY DEF RefInv, Linked
  <1>5. QED
    BY <1>1, <1>2, <1>3, <1>4 DEF RefInv, Linked

LEMMA ClearedRefs ==
  ASSUME Typed, RefInv, NEW phase \in Phases, NEW fresh, Cleared(fresh, phase),
         users \ GoingUsers \subseteq users', clients \ GoingClients \subseteq clients',
         products \ GoingProducts \subseteq products',
         \A r \in fresh : /\ r.seller \in users' \cup {0} /\ r.client \in clients' \cup {None}
                          /\ r.product \in products' \cup {None}
  PROVE  ReferencesResolve'
  <1> SUFFICES ASSUME NEW r \in invoices'
               PROVE  /\ r.seller \in users' \cup {0} /\ r.client \in clients' \cup {None}
                      /\ r.product \in products' \cup {None}
    BY DEF ReferencesResolve
  <1>1. CASE r \in fresh
    BY <1>1
  <1>2. CASE r \in Nulled(invoices \ job.doomed)
    <2>1. invoices \ job.doomed \subseteq Invoice
      BY DEF Typed, TypeOK
    <2> DEFINE rows == invoices \ job.doomed
    <2> HIDE DEF rows
    <2>0. rows \subseteq Invoice /\ r \in Nulled(rows)
      BY <1>2, <2>1 DEF rows
    <2>2. PICK q \in rows :
            /\ r.seller = IF q.seller \in GoingUsers THEN 0 ELSE q.seller
            /\ r.client = IF q.client \in GoingClients THEN None ELSE q.client
            /\ r.product = IF q.product \in GoingProducts THEN None ELSE q.product
      <3>1. \A x \in Nulled(rows) : \E q \in rows :
              /\ x.id = q.id /\ x.series = q.series /\ x.n = q.n
              /\ x.seller = IF q.seller \in GoingUsers THEN 0 ELSE q.seller
              /\ x.client = IF q.client \in GoingClients THEN None ELSE q.client
              /\ x.product = IF q.product \in GoingProducts THEN None ELSE q.product
        BY <2>0, NulledTypes
      <3>2. QED
        BY <2>0, <3>1
    <2>3. /\ q.seller \in users \cup {0} /\ q.client \in clients \cup {None}
          /\ q.product \in products \cup {None}
      BY DEF rows, RefInv, ReferencesResolve
    <2>4. QED
      BY <2>2, <2>3
  <1>3. QED
    BY <1>1, <1>2 DEF Cleared

LEMMA JobMoves ==
  ASSUME Typed
  PROVE  /\ \A phase : GoTo(phase) => job'.phase = phase /\ job'.kind = job.kind
                                     /\ job'.run = job.run /\ job'.fresh = job.fresh
                                     /\ job'.doomed = job.doomed
         /\ \A phase, fresh : Cleared(fresh, phase) =>
              job'.phase = phase /\ job'.kind = job.kind /\ job'.run = job.run
              /\ job'.fresh = {} /\ job'.doomed = {}
  <1>1. job \in JobType
    BY DEF Typed, TypeOK, JobType
  <1>2. QED
    BY <1>1 DEF GoTo, Cleared, JobType

LEMMA DeleteRefs ==
  ASSUME Typed, RefInv, DeletesInvoices \/ DeletesPeople \/ DeletesProducts
  PROVE  RefInv'
  <1>0. job \in JobType /\ job.kind \in Kinds
    BY DEF Typed, TypeOK, JobType
  <1>1. CASE DeletesInvoices
    <2>1. job'.phase = "people" /\ job'.kind = job.kind /\ job'.run = job.run /\ job'.fresh = job.fresh
      BY <1>0, <1>1 DEF DeletesInvoices, JobType
    <2>2. GoingUsers' = {} /\ GoingClients' = {} /\ GoingProducts' = {}
      BY <2>1, GoingNext DEF GoingByPhase
    <2>3. QED
      BY <1>1, <2>1, <2>2, QuietRefs DEF DeletesInvoices, RefInv, Linked
  <1>2. CASE DeletesPeople
    <2>1. job'.phase = "products" /\ job'.kind = job.kind /\ job'.run = job.run /\ job'.fresh = job.fresh
      BY <1>2, JobMoves DEF DeletesPeople
    <2>2. ASSUME NEW c \in Creators, pc[c] \in {"inserted", "lines"}
          PROVE  draft[c].seller \notin GoingUsers' /\ draft[c].client \notin GoingClients'
      <3>1. job.kind = "stress" /\ draft[c].client.kind # "stress"
        BY <1>2, <2>2 DEF DeletesPeople
      <3>2. GoingUsers' = {} /\ GoingClients' = Stress(clients)'
        BY <2>1, <3>1, GoingNext DEF GoingByPhase
      <3>3. QED
        BY <3>1, <3>2 DEF Stress
    <2>3. GoingProducts' = {}
      BY <2>1, GoingNext DEF GoingByPhase
    <2>4. QED
      BY <1>2, <2>1, <2>2, <2>3, QuietRefs DEF DeletesPeople, RefInv, Linked
  <1>3. CASE DeletesProducts
    <2>1. /\ job'.phase = IF job.kind = "seed" THEN "fill" ELSE "cleared"
          /\ job'.kind = job.kind /\ job'.run = job.run /\ job'.fresh = job.fresh
          /\ job.phase = "products" /\ clients' = clients /\ users' = users
      BY <1>3, JobMoves DEF DeletesProducts
    <2>2. GoingUsers' = GoingUsers /\ GoingClients' = GoingClients
      BY <1>0, <2>1, Going, GoingNext DEF GoingByPhase, Kinds, Stress
    <2>3. ASSUME NEW c \in Creators, pc[c] = "lines" PROVE draft[c].product \notin GoingProducts'
      <3>1. ~ (job.kind = "seed" \/ draft[c].product.kind = "stress")
        BY <1>3, <2>3 DEF DeletesProducts, Clears
      <3>2. QED
        BY <2>1, <3>1, GoingNext DEF GoingByPhase
    <2>4. UNCHANGED <<invoices, users, clients, products, draft, pc>>
      BY <1>3 DEF DeletesProducts
    <2>5. QED
      <3>1. \A r \in job'.fresh : FreshRefers(r)
        BY <2>1 DEF RefInv, Linked
      <3>2. \A c \in Creators : pc[c] \in {"inserted", "lines"} =>
              draft[c].seller \notin GoingUsers' /\ draft[c].client \notin GoingClients'
        <4>1. None \notin clients
          BY DraftTypes DEF Typed, TypeOK
        <4>2. QED
          BY <2>2, <4>1, Going DEF GoingByPhase, RefInv, Linked
      <3>3. job'.phase \in {"cleared", "newProducts", "newClients"} => job.kind = "stress"
        BY <1>0, <2>1 DEF Kinds
      <3>4. QED
        BY <2>1, <2>3, <2>4, <3>1, <3>2, <3>3, QuietRefs
  <1>4. QED
    BY <1>1, <1>2, <1>3

LEMMA BulkRefs ==
  ASSUME Typed, RefInv, CommitsClearing \/ BulkInserts
  PROVE  RefInv'
  <1>0. job \in JobType /\ job.kind = "stress"
    BY DEF Typed, TypeOK, JobType, CommitsClearing, BulkInserts, RefInv, Linked
  <1>1. CASE CommitsClearing
    <2>1. job'.phase = "newProducts" /\ job'.kind = "stress" /\ job'.run = job.run /\ job'.fresh = {}
      BY <1>0, <1>1, JobMoves DEF CommitsClearing
    <2>2. GoingUsers = {} /\ GoingUsers' = {} /\ GoingClients' = {} /\ GoingProducts' = {}
      BY <1>0, <2>1, Going, GoingNext DEF GoingByPhase
    <2>3. ReferencesResolve'
      BY <1>1, <2>2, ClearedRefs DEF CommitsClearing, Phases
    <2>4. Linked'
      BY <1>1, <2>1, <2>2 DEF CommitsClearing, RefInv, Linked
    <2>5. QED
      BY <2>3, <2>4 DEF RefInv
  <1>2. CASE BulkInserts
    <2>1. /\ job'.phase \in {"newClients", "done", "fill"} /\ job'.kind = "stress"
          /\ job'.run = job.run /\ job'.fresh = job.fresh
      BY <1>0, <1>2, JobMoves DEF BulkInserts
    <2>2. GoingUsers' = {} /\ GoingClients' = {} /\ GoingProducts' = {}
      BY <2>1, GoingNext DEF GoingByPhase
    <2>3. /\ clients \subseteq clients' /\ products \subseteq products'
          /\ UNCHANGED <<invoices, users, draft, pc>>
      BY <1>2 DEF BulkInserts
    <2>4. QED
      BY <1>0, <2>1, <2>2, <2>3, QuietRefs DEF RefInv, Linked
  <1>3. QED
    BY <1>1, <1>2

LEMMA FillRefs ==
  ASSUME Typed, RefInv, SeedFills \/ StressFills
  PROVE  RefInv'
  <1>0. job \in JobType
    BY DEF Typed, TypeOK, JobType
  <1>1. CASE SeedFills
    <2> DEFINE rows == {SeedRow(nextId + i - 1, i) : i \in 1 .. DemoCount}
    <2>1. job' = [job EXCEPT !.phase = "filled", !.fresh = rows] /\ job.kind = "seed" /\ job.phase = "fill"
      BY <1>1 DEF SeedFills
    <2>2. \A r \in rows : FreshRefers(r)
      BY <2>1 DEF SeedRow, FreshRefers
    <2> HIDE DEF rows
    <2>3. job'.phase = "filled" /\ job'.kind = "seed" /\ job'.run = job.run /\ job'.fresh = rows
      BY <1>0, <2>1 DEF JobType
    <2>4. users' = users /\ clients' = clients /\ products' = products
      BY <1>1 DEF SeedFills
    <2>5. /\ GoingUsers' = GoingUsers /\ GoingClients' = GoingClients
          /\ GoingProducts' = GoingProducts
      BY <2>1, <2>3, <2>4, Going, GoingNext DEF GoingByPhase
    <2>6. QED
      <3>1. UNCHANGED <<invoices, users, clients, products, draft, pc>>
        BY <1>1 DEF SeedFills
      <3>2. /\ \A c \in Creators : pc[c] \in {"inserted", "lines"} =>
                 draft[c].seller \notin GoingUsers' /\ draft[c].client \notin GoingClients'
            /\ \A c \in Creators : pc[c] = "lines" => draft[c].product \notin GoingProducts'
        <4>1. None \notin clients
          BY DraftTypes DEF Typed, TypeOK
        <4>2. QED
          BY <2>5, <4>1, Going DEF GoingByPhase, RefInv, Linked
      <3>3. QED
        BY <2>1, <2>2, <2>3, <3>1, <3>2, QuietRefs
  <1>2. CASE StressFills
    <2>1. PICK s \in users, k \in clients, phase \in {"fill", "filled"} :
            job' = [job EXCEPT !.phase = phase,
                      !.fresh = @ \cup {[id |-> nextId, series |-> "STRESS",
                                         n |-> Cardinality(job.fresh), seller |-> s, client |-> k, product |-> None]}]
      BY <1>2 DEF StressFills
    <2> DEFINE row == [id |-> nextId, series |-> "STRESS",
                       n |-> Cardinality(job.fresh), seller |-> s, client |-> k, product |-> None]
    <2>2. row.seller \in users /\ row.client \in clients /\ row.product = None
      OBVIOUS
    <2>3. job' = [job EXCEPT !.phase = phase, !.fresh = job.fresh \cup {row}] /\ job.kind = "stress"
      BY <1>2, <2>1 DEF StressFills
    <2> HIDE DEF row
    <2>4. /\ job'.phase = phase /\ job'.kind = "stress" /\ job'.run = job.run
          /\ job'.fresh = job.fresh \cup {row}
      BY <1>0, <2>3 DEF JobType
    <2>5. GoingUsers' = {} /\ GoingClients' = {} /\ GoingProducts' = {}
      BY <2>4, GoingNext DEF GoingByPhase
    <2>6. UNCHANGED <<invoices, users, clients, products, draft, pc>>
      BY <1>2, Zenon DEF StressFills
    <2>7. FreshRefers(row)
      BY <2>2, <2>3 DEF FreshRefers
    <2>8. QED
      BY <2>3, <2>4, <2>5, <2>6, <2>7, QuietRefs DEF RefInv, Linked
  <1>3. QED
    BY <1>1, <1>2

LEMMA CommitRefs ==
  ASSUME Typed, RefInv, SeedCommits \/ StressCommits
  PROVE  RefInv'
  <1>1. CASE SeedCommits
    <2>1. /\ job.kind = "seed" /\ job.phase = "filled"
          /\ job'.phase = "done" /\ job'.fresh = {}
      BY <1>1, JobMoves DEF SeedCommits
    <2>2. GoingUsers = users /\ GoingClients = clients /\ GoingProducts = products
      BY <2>1, Going DEF GoingByPhase
    <2>3. \A r \in job.fresh : /\ r.seller \in users' \cup {0} /\ r.client \in clients' \cup {None}
                              /\ r.product \in products' \cup {None}
      BY <1>1, <2>1 DEF SeedCommits, RefInv, Linked, FreshRefers
    <2>4. ReferencesResolve'
      BY <1>1, <2>2, <2>3, ClearedRefs DEF SeedCommits, Phases
    <2>5. \A c \in Creators : pc[c] \notin {"inserted", "lines"}
      BY <2>2 DEF RefInv, Linked
    <2>6. Linked'
      BY <1>1, <2>1, <2>5 DEF SeedCommits, Linked
    <2>7. QED
      BY <2>4, <2>6 DEF RefInv
  <1>2. CASE StressCommits
    <2>1. /\ job.kind = "stress" /\ job.phase = "filled"
          /\ job'.phase = "done" /\ job'.fresh = {}
      BY <1>2, JobMoves DEF StressCommits
    <2>2. GoingUsers' = {} /\ GoingClients' = {} /\ GoingProducts' = {}
      BY <2>1, GoingNext DEF GoingByPhase
    <2>3. ReferencesResolve'
      BY <1>2, <2>1, ClearedRefs DEF StressCommits, Phases, RefInv, Linked, FreshRefers
    <2>4. Linked'
      BY <1>2, <2>1, <2>2 DEF StressCommits, RefInv, Linked
    <2>5. QED
      BY <2>3, <2>4 DEF RefInv
  <1>3. QED
    BY <1>1, <1>2

LEMMA EndRefs ==
  ASSUME Typed, RefInv, ScriptFails \/ \E kind \in Kinds : Launch(kind)
  PROVE  RefInv'
  <1>0. job \in JobType
    BY DEF Typed, TypeOK, JobType
  <1>1. job'.phase \in {"failed", "invoices"} /\ job'.fresh = {}
    <2>1. ScriptFails => job'.phase = "failed" /\ job'.fresh = {}
      BY <1>0 DEF ScriptFails, JobType
    <2>2. \A kind : Launch(kind) => job'.phase = "invoices" /\ job'.fresh = {}
      BY DEF Launch
    <2>3. QED
      BY <2>1, <2>2
  <1>2. GoingUsers' = {} /\ GoingClients' = {} /\ GoingProducts' = {}
    BY <1>1, GoingNext DEF GoingByPhase
  <1>3. UNCHANGED <<invoices, users, clients, products, draft, pc>>
    BY DEF ScriptFails, Launch
  <1>4. QED
    BY <1>1, <1>2, <1>3 DEF RefInv, ReferencesResolve, Linked

LEMMA StepRefs == Typed /\ RefInv /\ [Next]_vars => RefInv'
  <1>1. ASSUME Typed, RefInv, UNCHANGED vars PROVE RefInv'
    BY <1>1 DEF vars, RefInv, ReferencesResolve, Linked, FreshRefers, GoingUsers,
                GoingClients, GoingProducts, Emptied, Clears, ThisRun
  <1>2. QED
    BY <1>1, ReadRefs, CreatorRefs, DeleteRefs, BulkRefs, FillRefs, CommitRefs, EndRefs DEF Next, Script

(* Types, for any number of creators, runs and invoices. *)
THEOREM TypeCorrect == Spec => []TypeOK
  <1>1. Init => Typed
    BY InitSInv DEF SInv
  <1>2. Typed => TypeOK
    BY DEF Typed
  <1>3. QED
    BY <1>1, <1>2, StepTyped, PTL DEF Spec

(* No invoice ever refers to a seller or a client that is gone, and no     *)
(* line to a product, wherever the scripts are stopped and whatever is     *)
(* created while they delete.                                              *)
THEOREM NothingDangles == Spec => []ReferencesResolve
  <1>1. Init => Typed /\ RefInv
    BY InitSInv DEF SInv, RefInv
  <1>2. RefInv => ReferencesResolve
    BY DEF RefInv
  <1>3. QED
    BY <1>1, <1>2, StepTyped, StepRefs, PTL DEF Spec

-----------------------------------------------------------------------------
(* seed_large.py, phase by phase.                                          *)
WholeInv == StressGoesOn /\ StressIsWhole

LEMMA WholeByRows ==
  StressIsWhole <=>
    (job.phase = "done" /\ job.kind = "stress" =>
       /\ {r.n : r \in StressRows} = IF users = {} THEN {} ELSE 0 .. StressCount - 1
       /\ Stress(clients) = {ThisRun} /\ Stress(products) = {ThisRun})
  BY DEF StressIsWhole, StressRows, Stress

LEMMA WholeByRowsNext ==
  StressIsWhole' <=>
    (job'.phase = "done" /\ job'.kind = "stress" =>
       /\ {r.n : r \in StressRows'} = IF users' = {} THEN {} ELSE 0 .. StressCount - 1
       /\ Stress(clients)' = {ThisRun}' /\ Stress(products)' = {ThisRun}')
  BY DEF StressIsWhole, StressRows, Stress

(* Creations add invoices of another series. *)
LEMMA CreatorWhole ==
  ASSUME Typed, WholeInv, NEW c \in Creators,
         \/ ReadProduct(c) \/ ReadClient(c) \/ ReadSeller(c) \/ ReadNumber(c)
         \/ Insert(c) \/ Wake(c) \/ InsertsLine(c) \/ Commit(c) \/ Rollback(c)
  PROVE  WholeInv'
  <1>1. /\ UNCHANGED <<users, clients, products, job>>
        /\ nextId' \in {nextId, nextId + 1} /\ nextId \in Nat
    BY Sizes DEF ReadProduct, ReadClient, ReadSeller, ReadNumber, Insert, Wake, InsertsLine,
                 Commit, Rollback, Typed, TypeOK
  <1>2. StressRows' = StressRows
    BY DEF ReadProduct, ReadClient, ReadSeller, ReadNumber, Insert, Wake, InsertsLine,
           Commit, Rollback, StressRows
  <1>3. ASSUME NEW n, Numbered(job.fresh, n) PROVE Numbered(job.fresh, n)'
    <2>1. \A r \in job.fresh : r.id \in Nat
      BY Sizes DEF Typed, TypeOK, Invoice
    <2>2. QED
      BY <1>1, <1>3, <2>1 DEF Numbered
  <1>4. StressGoesOn'
    BY <1>1, <1>2, <1>3 DEF WholeInv, StressGoesOn, Stress, ThisRun
  <1>5. StressIsWhole'
    BY <1>1, <1>2, WholeByRows, WholeByRowsNext DEF WholeInv, Stress, ThisRun
  <1>6. QED
    BY <1>4, <1>5 DEF WholeInv

LEMMA SeedWhole == ASSUME job'.kind = "seed" PROVE WholeInv'
  BY WholeByRowsNext DEF WholeInv, StressGoesOn

(* A script that starts or stops. *)
LEMMA EndWhole ==
  ASSUME Typed, ScriptFails \/ \E kind \in Kinds : Launch(kind)
  PROVE  WholeInv'
  <1>1. job'.phase \in {"failed", "invoices"} /\ job'.fresh = {} /\ job'.doomed = {}
    <2>1. job \in JobType
      BY DEF Typed, TypeOK, JobType
    <2>2. ScriptFails => job'.phase = "failed" /\ job'.fresh = {} /\ job'.doomed = {}
      BY <2>1 DEF ScriptFails, JobType
    <2>3. \A kind : Launch(kind) => job'.phase = "invoices" /\ job'.fresh = {} /\ job'.doomed = {}
      BY DEF Launch
    <2>4. QED
      BY <2>2, <2>3
  <1>2. QED
    BY <1>1, WholeByRowsNext DEF WholeInv, StressGoesOn

LEMMA DeleteWhole ==
  ASSUME Typed, WholeInv, job.kind = "stress",
         DeletesInvoices \/ DeletesPeople \/ DeletesProducts
  PROVE  WholeInv'
  <1>0. job \in JobType
    BY DEF Typed, TypeOK, JobType
  <1>1. CASE DeletesInvoices
    <2>1. /\ job'.phase = "people" /\ job'.fresh = job.fresh /\ job.phase = "invoices"
          /\ job'.doomed = {r \in invoices : Dooms(r)} /\ invoices' = invoices
      BY <1>0, <1>1 DEF DeletesInvoices, JobType
    <2>2. job'.doomed = StressRows
      BY <2>1 DEF Dooms, StressRows
    <2>3. StressGoesOn'
      BY <2>1, <2>2 DEF WholeInv, StressGoesOn, StressRows
    <2>4. QED
      BY <2>1, <2>3, WholeByRowsNext DEF WholeInv
  <1>2. CASE DeletesPeople \/ DeletesProducts
    <2>1. /\ job'.phase \in {"products", "cleared"} /\ job.phase \in {"people", "products"}
          /\ job'.fresh = job.fresh /\ job'.doomed = job.doomed /\ invoices' = invoices
      BY <1>2, JobMoves DEF DeletesPeople, DeletesProducts
    <2>2. StressGoesOn'
      BY <2>1 DEF WholeInv, StressGoesOn, StressRows
    <2>3. QED
      BY <2>1, <2>2, WholeByRowsNext DEF WholeInv
  <1>3. QED
    BY <1>1, <1>2

(* What a transaction of the script leaves of the stress invoices. *)
LEMMA ClearedRows ==
  ASSUME Typed, NEW phase \in Phases, NEW fresh, Cleared(fresh, phase),
         StressRows \subseteq job.doomed, \A r \in fresh : r.series = "STRESS"
  PROVE  StressRows' = fresh
  <1> DEFINE rows == invoices \ job.doomed
  <1>1. rows \subseteq Invoice /\ \A q \in rows : q.series # "STRESS"
    BY DEF Typed, TypeOK, StressRows
  <1> HIDE DEF rows
  <1>2. \A x \in Nulled(rows) : \E q \in rows :
          /\ x.id = q.id /\ x.series = q.series /\ x.n = q.n
          /\ x.seller = IF q.seller \in GoingUsers THEN 0 ELSE q.seller
          /\ x.client = IF q.client \in GoingClients THEN None ELSE q.client
          /\ x.product = IF q.product \in GoingProducts THEN None ELSE q.product
    BY <1>1, NulledTypes
  <1>3. \A x \in Nulled(rows) : x.series # "STRESS"
    BY <1>1, <1>2
  <1>4. invoices' = Nulled(rows) \cup fresh
    BY DEF Cleared, rows
  <1>5. QED
    BY <1>3, <1>4 DEF StressRows

LEMMA BulkWhole ==
  ASSUME Typed, WholeInv, job.kind = "stress", CommitsClearing \/ BulkInserts
  PROVE  WholeInv'
  <1>0. job \in JobType
    BY DEF Typed, TypeOK, JobType
  <1>1. CASE CommitsClearing
    <2>1. /\ job'.phase = "newProducts" /\ job'.kind = "stress" /\ job'.fresh = {}
          /\ job'.doomed = {} /\ job.phase = "cleared"
      BY <1>1, JobMoves DEF CommitsClearing
    <2>2. StressRows' = {}
      BY <1>1, <2>1, ClearedRows DEF CommitsClearing, Phases, WholeInv, StressGoesOn
    <2>3. GoingClients = Stress(clients) /\ GoingProducts = Stress(products)
      BY <2>1, Going DEF GoingByPhase, GoingProducts, Emptied, Clears, Stress
    <2>4. Stress(clients)' = {} /\ Stress(products)' = {}
      BY <1>1, <2>3 DEF CommitsClearing, Stress
    <2>5. StressGoesOn'
      BY <2>1, <2>2, <2>4 DEF StressGoesOn
    <2>6. QED
      BY <2>1, <2>5, WholeByRowsNext DEF WholeInv
  <1>2. CASE BulkInserts
    <2>1. ThisRun.kind = "stress" /\ invoices' = invoices /\ users' = users /\ StressRows' = StressRows
      BY <1>2 DEF BulkInserts, ThisRun, StressRows
    <2>2. CASE job.phase = "newProducts"
      <3>1. /\ job'.phase = "newClients" /\ job'.kind = "stress" /\ job'.run = job.run
            /\ job'.fresh = job.fresh /\ job'.doomed = job.doomed
            /\ products' = products \cup {ThisRun} /\ clients' = clients
        BY <1>2, <2>2, JobMoves DEF BulkInserts
      <3>2. Stress(products)' = {ThisRun}' /\ Stress(clients)' = {}
        BY <2>1, <2>2, <3>1 DEF WholeInv, StressGoesOn, Stress, ThisRun
      <3>3. StressGoesOn'
        BY <2>1, <2>2, <3>1, <3>2 DEF WholeInv, StressGoesOn
      <3>4. QED
        BY <3>1, <3>3, WholeByRowsNext DEF WholeInv
    <2>3. CASE job.phase = "newClients"
      <3>1. /\ job'.phase = IF users = {} THEN "done" ELSE "fill"
            /\ job'.kind = "stress" /\ job'.run = job.run
            /\ job'.fresh = job.fresh /\ job'.doomed = job.doomed
            /\ clients' = clients \cup {ThisRun} /\ products' = products
        BY <1>2, <2>3, JobMoves DEF BulkInserts
      <3>2. Stress(products)' = {ThisRun}' /\ Stress(clients)' = {ThisRun}'
        BY <2>1, <2>3, <3>1 DEF WholeInv, StressGoesOn, Stress, ThisRun
      <3>3. job'.fresh = {} /\ StressRows' = {}
        BY <2>1, <2>3, <3>1 DEF WholeInv, StressGoesOn
      <3>4. Numbered({}, 0)' /\ Cardinality({}) = 0 /\ 0 < StressCount
        BY FS_EmptySet, Sizes DEF Numbered
      <3>5. StressGoesOn'
        BY <2>1, <2>3, <3>1, <3>2, <3>3, <3>4 DEF WholeInv, StressGoesOn
      <3>6. StressIsWhole'
        BY <2>1, <3>1, <3>2, <3>3, WholeByRowsNext
      <3>7. QED
        BY <3>5, <3>6 DEF WholeInv
    <2>4. QED
      BY <1>2, <2>2, <2>3 DEF BulkInserts
  <1>3. QED
    BY <1>1, <1>2

(* One more stress row, with an id of its own, takes the next number. *)
LEMMA OneMore ==
  ASSUME Typed, NEW n \in Nat, Numbered(job.fresh, n), Cardinality(job.fresh) = n,
         NEW row, row.series = "STRESS", row.n = n, row.id = nextId, nextId' = nextId + 1
  PROVE  /\ Cardinality(job.fresh \cup {row}) = n + 1
         /\ \A r \in job.fresh \cup {row} : r.series = "STRESS" /\ r.id < nextId'
         /\ IsFiniteSet(job.fresh \cup {row})
         /\ {r.n : r \in job.fresh \cup {row}} = 0 .. (n + 1) - 1
  <1>1. nextId \in Nat /\ \A r \in job.fresh : r.id \in Nat
    BY Sizes DEF Typed, TypeOK, Invoice
  <1>2. row \notin job.fresh
    BY <1>1 DEF Numbered
  <1>3. IsFiniteSet(job.fresh \cup {row}) /\ Cardinality(job.fresh \cup {row}) = n + 1
    BY <1>2, FS_AddElement DEF Numbered
  <1>4. \A r \in job.fresh \cup {row} : r.series = "STRESS" /\ r.id < nextId'
    BY <1>1 DEF Numbered
  <1>5. {r.n : r \in job.fresh \cup {row}} = {r.n : r \in job.fresh} \cup {n}
    OBVIOUS
  <1>6. {r.n : r \in job.fresh \cup {row}} = 0 .. (n + 1) - 1
    BY <1>5 DEF Numbered
  <1>7. QED
    BY <1>3, <1>4, <1>6

LEMMA FillWhole ==
  ASSUME Typed, WholeInv, StressFills
  PROVE  WholeInv'
  <1>0. job \in JobType
    BY DEF Typed, TypeOK, JobType
  <1>1. /\ job.kind = "stress" /\ job.phase = "fill" /\ nextId' = nextId + 1
        /\ UNCHANGED <<invoices, users, clients, products>>
    BY Zenon DEF StressFills
  <1> DEFINE n == Cardinality(job.fresh)
  <1>2. PICK s \in users, k \in clients :
          job' = [job EXCEPT !.phase = IF n + 1 \in StressNumbers THEN "fill" ELSE "filled",
                             !.fresh = @ \cup {[id |-> nextId, series |-> "STRESS", n |-> n,
                                                seller |-> s, client |-> k, product |-> None]}]
    BY DEF StressFills
  <1>3. n \in Nat /\ n < StressCount /\ Numbered(job.fresh, n)
    BY <1>1, FS_CardinalityType DEF WholeInv, StressGoesOn, Numbered
  <1> DEFINE row == [id |-> nextId, series |-> "STRESS", n |-> n, seller |-> s, client |-> k, product |-> None]
             phase == IF n + 1 \in StressNumbers THEN "fill" ELSE "filled"
  <1>4. row.series = "STRESS" /\ row.n = n /\ row.id = nextId
    OBVIOUS
  <1>5. job' = [job EXCEPT !.phase = phase, !.fresh = job.fresh \cup {row}]
    BY <1>2
  <1>6. \/ phase = "fill" /\ n + 1 < StressCount
        \/ phase = "filled" /\ n + 1 = StressCount
    BY <1>3, Sizes DEF StressNumbers
  <1> HIDE DEF row, phase
  <1>7. /\ job'.phase = phase /\ job'.kind = "stress" /\ job'.run = job.run
        /\ job'.doomed = job.doomed /\ job'.fresh = job.fresh \cup {row}
    BY <1>0, <1>1, <1>5 DEF JobType
  <1> DEFINE rows == job.fresh \cup {row}
  <1>8. /\ Cardinality(rows) = n + 1 /\ IsFiniteSet(rows)
        /\ \A r \in rows : r.series = "STRESS" /\ r.id < nextId'
        /\ {r.n : r \in rows} = 0 .. (n + 1) - 1
    BY <1>1, <1>3, <1>4, OneMore
  <1> HIDE DEF n, rows
  <1>9. job'.fresh = rows
    BY <1>7 DEF rows
  <1>10. StressRows' = {} /\ Stress(clients)' = {ThisRun}' /\ Stress(products)' = {ThisRun}' /\ users' # {}
    BY <1>1, <1>7 DEF WholeInv, StressGoesOn, StressRows, Stress, ThisRun
  <1>11. \A r \in job.doomed : r.series = "STRESS"
    BY <1>1 DEF WholeInv, StressGoesOn
  <1>12. CASE phase = "fill" /\ n + 1 < StressCount
    BY <1>7, <1>8, <1>12, <1>9, <1>10, <1>11, WholeByRowsNext DEF WholeInv, StressGoesOn, Numbered
  <1>13. CASE phase = "filled" /\ n + 1 = StressCount
    BY <1>7, <1>8, <1>13, <1>9, <1>10, <1>11, WholeByRowsNext DEF WholeInv, StressGoesOn, Numbered
  <1>14. QED
    BY <1>6, <1>12, <1>13

LEMMA CommitWhole ==
  ASSUME Typed, WholeInv, StressCommits
  PROVE  WholeInv'
  <1>1. /\ job.kind = "stress" /\ job.phase = "filled" /\ Cleared(job.fresh, "done")
        /\ UNCHANGED <<users, clients, products>>
    BY DEF StressCommits
  <1>2. /\ job'.phase = "done" /\ job'.kind = "stress" /\ job'.run = job.run
        /\ job'.fresh = {} /\ job'.doomed = {}
    BY <1>1, JobMoves
  <1>3. Numbered(job.fresh, StressCount) /\ StressRows = {} /\ users # {}
    BY <1>1 DEF WholeInv, StressGoesOn
  <1>4. StressRows' = job.fresh
    BY <1>1, <1>3, ClearedRows DEF Phases, Numbered
  <1>5. StressGoesOn'
    BY <1>2 DEF StressGoesOn
  <1>6. Stress(clients)' = {ThisRun}' /\ Stress(products)' = {ThisRun}'
    BY <1>1, <1>2 DEF WholeInv, StressGoesOn, Stress, ThisRun
  <1>7. StressIsWhole'
    BY <1>1, <1>3, <1>4, <1>6, WholeByRowsNext DEF Numbered
  <1>8. QED
    BY <1>5, <1>7 DEF WholeInv

AllInv == Typed /\ RefInv /\ WholeInv

LEMMA StepAll == AllInv /\ [Next]_vars => AllInv'
  <1> SUFFICES ASSUME AllInv, [Next]_vars PROVE WholeInv'
    BY StepTyped, StepRefs DEF AllInv
  <1> Typed /\ WholeInv
    BY DEF AllInv
  <1>1. CASE UNCHANGED vars
    BY <1>1 DEF vars, WholeInv, StressGoesOn, StressIsWhole, StressRows, Stress, ThisRun, Numbered
  <1>2. CASE Script
    <2>1. job.kind \in Kinds
      BY DEF Typed, TypeOK
    <2>2. CASE job.kind = "stress"
      BY <1>2, <2>2, DeleteWhole, BulkWhole, FillWhole, CommitWhole, EndWhole
      DEF Script, SeedFills, SeedCommits
    <2>3. CASE job.kind = "seed"
      <3>1. job \in JobType /\ ~ StressFills /\ ~ StressCommits
        BY <2>3 DEF Typed, TypeOK, JobType, StressFills, StressCommits
      <3>2. DeletesInvoices \/ SeedFills \/ ScriptFails => job'.kind = "seed"
        BY <2>3, <3>1 DEF DeletesInvoices, SeedFills, ScriptFails, JobType
      <3>3. DeletesPeople \/ DeletesProducts \/ CommitsClearing \/ BulkInserts \/ SeedCommits
              => job'.kind = "seed"
        BY <2>3, JobMoves DEF DeletesPeople, DeletesProducts, CommitsClearing, BulkInserts, SeedCommits
      <3>4. QED
        BY <1>2, <3>1, <3>2, <3>3, SeedWhole DEF Script
    <2>4. QED
      BY <2>1, <2>2, <2>3 DEF Kinds
  <1>3. QED
    BY <1>1, <1>2, CreatorWhole, EndWhole DEF Next

LEMMA AllAlways == Spec => []AllInv
  <1>1. Init => AllInv
    BY InitSInv DEF SInv, AllInv, RefInv, WholeInv
  <1>2. QED
    BY <1>1, StepAll, PTL DEF Spec

(* A run of seed_large.py that ends leaves exactly its own rows, whatever  *)
(* earlier runs that were stopped half way left behind.                    *)
THEOREM RunsAreWhole == Spec => []StressIsWhole
  <1>1. AllInv => StressIsWhole
    BY DEF AllInv, WholeInv
  <1>2. QED
    BY <1>1, AllAlways, PTL

Spares ==
  job.kind = "stress" /\ job'.kind = "stress" =>
    \A r \in invoices : r.series # "STRESS" =>
      \E s \in invoices' :
        /\ s = [r EXCEPT !.client = s.client, !.product = s.product]
        /\ s.client # r.client => s.client = None /\ r.client.kind = "stress"
        /\ s.product # r.product => s.product = None /\ r.product.kind = "stress"

LEMMA ClearedSpares ==
  ASSUME AllInv, NEW phase, NEW fresh, Cleared(fresh, phase), job.kind = "stress"
  PROVE  Spares
  <1> SUFFICES ASSUME NEW r \in invoices, r.series # "STRESS"
               PROVE  \E s \in invoices' :
                        /\ s = [r EXCEPT !.client = s.client, !.product = s.product]
                        /\ s.client # r.client => s.client = None /\ r.client.kind = "stress"
                        /\ s.product # r.product => s.product = None /\ r.product.kind = "stress"
    BY DEF Spares
  <1> DEFINE k == IF r.client \in GoingClients THEN None ELSE r.client
             p == IF r.product \in GoingProducts THEN None ELSE r.product
             t == IF r.seller \in GoingUsers THEN 0 ELSE r.seller
             s == [r EXCEPT !.seller = t, !.client = k, !.product = p]
             rows == invoices \ job.doomed
  <1>1. r \in rows /\ rows \subseteq Invoice
    BY DEF AllInv, WholeInv, StressGoesOn, Typed, TypeOK
  <1>2. t = r.seller
    BY Going DEF GoingByPhase
  <1>3. /\ k # r.client => k = None /\ r.client.kind = "stress"
        /\ p # r.product => p = None /\ r.product.kind = "stress"
    BY Going DEF GoingByPhase, Stress
  <1> HIDE DEF rows
  <1>4. s \in Nulled(rows)
    BY <1>1, NulledTypes
  <1>5. s \in invoices'
    BY <1>4 DEF Cleared, rows
  <1> HIDE DEF k, t, p
  <1>6. s.client = k /\ s.product = p /\ s = [r EXCEPT !.client = s.client, !.product = s.product]
    BY <1>1, <1>2 DEF Invoice
  <1>7. QED
    BY <1>3, <1>5, <1>6

(* seed_large.py takes no invoice of another series away, and changes of   *)
(* one at most its client and the product of its line, when they were      *)
(* stress rows.                                                            *)
THEOREM OthersAreSpared == Spec => StressSparesOthers
  <1>1. ASSUME AllInv, [Next]_vars PROVE Spares
    <2>1. CASE CommitsClearing \/ StressCommits \/ SeedCommits
      BY <1>1, <2>1, ClearedSpares DEF CommitsClearing, StressCommits, SeedCommits, Spares
    <2>2. CASE invoices \subseteq invoices'
      <3>1. \A r \in invoices : r = [r EXCEPT !.client = r.client, !.product = r.product]
        BY <1>1 DEF AllInv, Typed, TypeOK, Invoice
      <3>2. QED
        BY <2>2, <3>1 DEF Spares
    <2>3. invoices \subseteq invoices' \/ CommitsClearing \/ StressCommits \/ SeedCommits
      BY <1>1, Zenon
      DEF Next, Script, Launch, DeletesInvoices, DeletesPeople, DeletesProducts, BulkInserts,
          SeedFills, StressFills, ScriptFails, ReadProduct, ReadClient, ReadSeller, ReadNumber,
          Insert, Wake, InsertsLine, Commit, Rollback, vars
    <2>4. QED
      BY <2>1, <2>2, <2>3
  <1>2. QED
    BY <1>1, AllAlways, PTL DEF Spec, StressSparesOthers, Spares

-----------------------------------------------------------------------------
(* Numbers.  A creation whose seller is still there is at most one ahead   *)
(* of the rows: either its number is the next one, and then its id is      *)
(* beyond every row, or somebody has committed that number since and the   *)
(* index refuses it.  The last row therefore keeps the greatest number.  A *)
(* creation whose seller a script took away never commits: the seller was  *)
(* one of an earlier run, and no run brings it back.                       *)
InTurn == ~ stressed /\ \A r \in invoices : r.seller # 0

NoRow(n) == \A r \in invoices : ~ HasNumber(r, n)

IdsDrawn ==
  /\ \A r \in invoices \cup job.fresh : r.id < nextId
  /\ \A c \in Creators : draft[c].id < nextId

(* What the unique index sees to. *)
Holds(c) == pc[c] \in {"linking", "inserted", "lines"}
NumbersHeld ==
  \A c \in Creators : Holds(c) =>
    /\ NoRow(draft[c].n)
    /\ \A d \in Creators \ {c} : Holds(d) => draft[d].n # draft[c].n

(* What seed.py's transaction holds. *)
SeedFresh ==
  /\ job.kind = "seed" /\ job.phase = "filled" =>
       /\ \A r, s \in job.fresh : r.id <= s.id => r.n <= s.n
       /\ \A r \in job.fresh : r.series = "001-001"
  /\ job.kind = "seed" /\ job.phase \in {"people", "products", "fill", "filled"} =>
       StressRows \subseteq job.doomed

StressShows == ~ stressed => StressRows = {}

LastIsGreatest == \A r, s \in invoices : IsLast(s) => r.n <= s.n

Reads == {"numbered", "waiting", "linking", "inserted", "lines"}

ReadInTurn ==
  \A c \in Creators : pc[c] \in Reads /\ draft[c].seller \in users =>
    /\ draft[c].n <= NextNumber
    /\ draft[c].n < NextNumber => ~ NoRow(draft[c].n)
    /\ draft[c].n = NextNumber /\ pc[c] # "numbered" =>
         \A r \in invoices : r.id < draft[c].id

(* The sellers of earlier runs. *)
Past(u) == u <= job.run /\ (Active => u < job.run)
SellersPast == (\A u \in users : Past(u)) /\ \A c \in Creators : Past(draft[c].seller)

TurnInv ==
  /\ IdsDrawn /\ NumbersHeld /\ SeedFresh /\ StressShows /\ SellersPast
  /\ InTurn => LastIsGreatest /\ ReadInTurn

NextByLast ==
  Typed => \/ invoices = {} /\ NextNumber = 1
           \/ \E r \in invoices : IsLast(r) /\ NextNumber = r.n + 1

LEMMA NextIsLast == NextByLast
  <1> SUFFICES ASSUME Typed, invoices # {}
               PROVE  \E r \in invoices : IsLast(r) /\ NextNumber = r.n + 1
    BY DEF NextByLast, NextNumber
  <1> DEFINE last == CHOOSE r \in invoices : IsLast(r)
  <1>1. last \in invoices /\ IsLast(last)
    BY Greatest
  <1>2. NextNumber = last.n + 1
    BY DEF NextNumber
  <1>3. QED
    BY <1>1, <1>2

LEMMA NextIsLastNext == NextByLast'
  BY NextIsLast, PTL

LEMMA RowTypes ==
  ASSUME Typed
  PROVE  /\ \A r \in invoices : r.id \in Nat /\ r.n \in Nat
         /\ \A r \in job.fresh : r.id \in Nat /\ r.n \in Nat
         /\ \A c \in Creators : draft[c].id \in Nat /\ draft[c].n \in Nat
         /\ nextId \in Nat /\ NextNumber \in Nat
  <1>1. \A r \in Invoice : r.id \in Nat /\ r.n \in Nat
    BY Sizes DEF Invoice
  <1>2. \A d \in Draft : d.id \in Nat /\ d.n \in Nat
    BY Sizes DEF Draft
  <1>3. nextId \in Nat
    BY Sizes DEF Typed, TypeOK
  <1>4. invoices \subseteq Invoice /\ job.fresh \subseteq Invoice /\ draft \in [Creators -> Draft]
    BY DraftTypes DEF Typed, TypeOK
  <1>5. QED
    BY <1>1, <1>2, <1>3, <1>4, NextNumberType

LEMMA BelowNext ==
  ASSUME Typed, LastIsGreatest, NEW r \in invoices
  PROVE  r.n < NextNumber
  <1>1. PICK s \in invoices : IsLast(s) /\ NextNumber = s.n + 1
    BY NextIsLast DEF NextByLast
  <1>2. r.n <= s.n /\ r.n \in Nat /\ s.n \in Nat
    BY <1>1, RowTypes DEF LastIsGreatest
  <1>3. QED
    BY <1>1, <1>2

LEMMA InitTurn == Init => TurnInv
  <1> SUFFICES ASSUME Init PROVE TurnInv
    OBVIOUS
  <1>1. IdsDrawn /\ NumbersHeld /\ SeedFresh /\ StressShows
    BY DEF Init, Blank, IdsDrawn, NumbersHeld, Holds, SeedFresh, StressShows, StressRows
  <1>2. LastIsGreatest /\ ReadInTurn
    BY DEF Init, LastIsGreatest, ReadInTurn, Reads
  <1>3. SellersPast
    BY DEF Init, SellersPast, Past, Active, Blank
  <1>4. QED
    BY <1>1, <1>2, <1>3 DEF TurnInv

(* A verdict that goes on found nobody with the number. *)
LEMMA VerdictHolds ==
  ASSUME NEW c, Verdict(c) \in {"linking", "inserted"}
  PROVE  /\ NoRow(draft[c].n)
         /\ \A d \in Creators \ {c} : Holds(d) => draft[d].n # draft[c].n
  <1>1. ~ Taken(draft[c].n) /\ ~ IndexHeld(c)
    BY DEF Verdict
  <1>2. QED
    BY <1>1 DEF Taken, IndexHeld, NoRow, Holds

LEMMA VerdictTaken ==
  ASSUME NEW c, ~ NoRow(draft[c].n)
  PROVE  Verdict(c) \in {"over", "waiting"}
  BY VerdictHolds, VerdictType

(* The sellers known so far stay of the past while creations go on. *)
LEMMA MovesPast ==
  ASSUME Typed, SellersPast, NEW c \in Creators, NEW to, NEW row, Moves(c, to, row),
         UNCHANGED <<users, job>>, to # "over" => Past(row.seller)
  PROVE  SellersPast'
  <1>1. Past(Blank.seller)
    BY DEF Blank, Past, Typed, TypeOK, Active
  <1>2. \A u : Past(u)' <=> Past(u)
    BY DEF Past, Active
  <1>3. ASSUME NEW d \in Creators PROVE Past(draft'[d].seller)
    BY <1>1, DraftTypes DEF Moves, SellersPast
  <1>4. QED
    BY <1>2, <1>3 DEF SellersPast

(* What a creator's step needs, besides the rows staying. *)
LEMMA CreatorTurn ==
  ASSUME Typed, TurnInv, NEW c \in Creators, NEW to \in Stages, NEW row, Moves(c, to, row),
         UNCHANGED <<invoices, job, stressed, users>>, nextId' \in {nextId, nextId + 1},
         to # "over" =>
           /\ row.id \in Nat /\ row.n \in Nat /\ row.id < nextId' /\ Past(row.seller)
           /\ to \in {"linking", "inserted", "lines"} =>
                /\ NoRow(row.n)
                /\ \A d \in Creators \ {c} : Holds(d) => draft[d].n # row.n
           /\ InTurn /\ to \in Reads /\ row.seller \in users =>
                /\ row.n <= NextNumber
                /\ row.n < NextNumber => ~ NoRow(row.n)
                /\ row.n = NextNumber /\ to # "numbered" => \A r \in invoices : r.id < row.id
  PROVE  TurnInv'
  <1> DEFINE new == IF to = "over" THEN Blank ELSE row
  <1>0. /\ \A r \in invoices : r.id \in Nat /\ r.n \in Nat
        /\ \A r \in job.fresh : r.id \in Nat
        /\ \A d \in Creators : draft[d].id \in Nat /\ draft[d].n \in Nat
        /\ nextId \in Nat /\ NextNumber \in Nat
    BY RowTypes
  <1>1. /\ pc'[c] = to /\ draft'[c] = new
        /\ \A d \in Creators \ {c} : pc'[d] = pc[d] /\ draft'[d] = draft[d]
    BY DraftTypes DEF Moves
  <1>2. new.id \in Nat /\ new.id < nextId'
    <2>1. 0 < nextId'
      BY Sizes DEF Typed, TypeOK
    <2>2. Blank.id = 0
      BY DEF Blank
    <2>3. QED
      BY <2>1, <2>2
  <1>3. to # "over" => new = row
    OBVIOUS
  <1> HIDE DEF new
  <1>4. IdsDrawn'
    <2>1. \A r \in invoices' \cup job'.fresh : r.id < nextId'
      BY <1>0 DEF TurnInv, IdsDrawn
    <2>2. \A d \in Creators : draft'[d].id < nextId'
      BY <1>0, <1>1, <1>2 DEF TurnInv, IdsDrawn
    <2>3. QED
      BY <2>1, <2>2 DEF IdsDrawn
  <1>5. \A n : NoRow(n)' <=> NoRow(n)
    BY DEF NoRow
  <1>6. NumbersHeld'
    <2>1. \A d \in Creators \ {c} : Holds(d)' <=> Holds(d)
      BY <1>1 DEF Holds
    <2>2. Holds(c)' <=> to \in {"linking", "inserted", "lines"}
      BY <1>1 DEF Holds
    <2>3. ASSUME NEW d \in Creators, Holds(d)' PROVE NoRow(draft'[d].n)
      BY <1>1, <1>3, <2>1, <2>2, <2>3 DEF TurnInv, NumbersHeld
    <2>4. ASSUME NEW d \in Creators, NEW e \in Creators \ {d}, Holds(d)', Holds(e)'
          PROVE  draft'[e].n # draft'[d].n
      BY <1>1, <1>3, <2>1, <2>2, <2>4 DEF TurnInv, NumbersHeld
    <2>5. QED
      BY <1>5, <2>3, <2>4 DEF NumbersHeld
  <1>7. SeedFresh'
    BY DEF TurnInv, SeedFresh, StressRows
  <1>8. StressShows'
    BY DEF TurnInv, StressShows, StressRows
  <1>9. NextNumber' = NextNumber
    BY DEF NextNumber, IsLast
  <1>10. ASSUME InTurn' PROVE LastIsGreatest' /\ ReadInTurn'
    <2>1. InTurn
      BY <1>10 DEF InTurn
    <2>2. LastIsGreatest'
      BY <2>1 DEF TurnInv, LastIsGreatest, IsLast
    <2>3. ASSUME NEW d \in Creators, pc'[d] \in Reads, draft'[d].seller \in users
          PROVE  /\ draft'[d].n <= NextNumber
                 /\ draft'[d].n < NextNumber => ~ NoRow(draft'[d].n)
                 /\ draft'[d].n = NextNumber /\ pc'[d] # "numbered" =>
                      \A r \in invoices : r.id < draft'[d].id
      <3>1. CASE d = c
        BY <1>1, <1>3, <2>1, <2>3, <3>1 DEF Reads
      <3>2. CASE d # c
        BY <1>1, <2>1, <2>3, <3>2 DEF TurnInv, ReadInTurn
      <3>3. QED
        BY <3>1, <3>2
    <2>4. QED
      BY <1>5, <1>9, <2>2, <2>3 DEF ReadInTurn
  <1>11. SellersPast'
    BY MovesPast DEF TurnInv
  <1>12. QED
    BY <1>4, <1>6, <1>7, <1>8, <1>10, <1>11 DEF TurnInv

LEMMA DraftFields ==
  ASSUME Typed, NEW c \in Creators
  PROVE  /\ \A k : LET d == [draft[c] EXCEPT !.client = k]
                  IN  d.id = draft[c].id /\ d.n = draft[c].n /\ d.seller = draft[c].seller
         /\ \A s : LET d == [draft[c] EXCEPT !.seller = s]
                  IN  d.id = draft[c].id /\ d.n = draft[c].n /\ d.seller = s
         /\ \A n : LET d == [draft[c] EXCEPT !.n = n]
                  IN  d.id = draft[c].id /\ d.n = n /\ d.seller = draft[c].seller
         /\ \A i : LET d == [draft[c] EXCEPT !.id = i]
                  IN  d.id = i /\ d.n = draft[c].n /\ d.seller = draft[c].seller
         /\ \A p : LET d == [Blank EXCEPT !.product = p]
                  IN  d.id = 0 /\ d.n = 0 /\ d.seller = 0
  <1>1. draft[c] \in Draft
    BY DraftTypes
  <1>2. QED
    BY <1>1 DEF Draft, Blank

(* A creation looks things up. *)
LEMMA ReadTurn ==
  ASSUME Typed, TurnInv, NEW c \in Creators,
         ReadProduct(c) \/ ReadClient(c) \/ ReadSeller(c) \/ ReadNumber(c) \/ Rollback(c)
  PROVE  TurnInv'
  <1>0. /\ draft[c].id \in Nat /\ draft[c].n \in Nat /\ draft[c].id < nextId
        /\ Past(draft[c].seller) /\ \A u \in users : Past(u)
        /\ NextNumber \in Nat /\ nextId \in Nat
    BY RowTypes DEF TurnInv, IdsDrawn, SellersPast
  <1>1. UNCHANGED <<invoices, job, stressed, users, nextId>>
    BY DEF ReadProduct, ReadClient, ReadSeller, ReadNumber, Rollback
  <1>2. CASE ReadProduct(c)
    <2>1. PICK p : Moves(c, "product", [Blank EXCEPT !.product = p])
      BY <1>2 DEF ReadProduct
    <2> DEFINE row == [Blank EXCEPT !.product = p]
    <2>2. row.id = 0 /\ row.n = 0 /\ row.seller = 0
      BY DraftFields
    <2>3. Moves(c, "product", row) /\ "product" \in Stages /\ "product" \notin Reads
      BY <2>1 DEF Stages, Reads
    <2> HIDE DEF row
    <2>4. Past(0) /\ 0 < nextId
      BY Sizes DEF Past, Typed, TypeOK, Active
    <2>5. QED
      BY <1>1, <2>2, <2>3, <2>4, CreatorTurn
  <1>3. CASE ReadClient(c)
    <2>1. PICK k : Moves(c, "client", [draft[c] EXCEPT !.client = k])
      BY <1>3 DEF ReadClient
    <2> DEFINE row == [draft[c] EXCEPT !.client = k]
    <2>2. row.id = draft[c].id /\ row.n = draft[c].n /\ row.seller = draft[c].seller
      BY DraftFields
    <2>3. Moves(c, "client", row) /\ "client" \in Stages /\ "client" \notin Reads
      BY <2>1 DEF Stages, Reads
    <2> HIDE DEF row
    <2>4. QED
      BY <1>0, <1>1, <2>2, <2>3, CreatorTurn
  <1>4. CASE ReadSeller(c)
    <2>1. PICK s \in users : Moves(c, "seller", [draft[c] EXCEPT !.seller = s])
      BY <1>4 DEF ReadSeller
    <2> DEFINE row == [draft[c] EXCEPT !.seller = s]
    <2>2. row.id = draft[c].id /\ row.n = draft[c].n /\ row.seller = s
      BY DraftFields
    <2>3. Moves(c, "seller", row) /\ "seller" \in Stages /\ "seller" \notin Reads
      BY <2>1 DEF Stages, Reads
    <2> HIDE DEF row
    <2>4. QED
      BY <1>0, <1>1, <2>2, <2>3, CreatorTurn
  <1>5. CASE ReadNumber(c)
    <2> DEFINE row == [draft[c] EXCEPT !.n = NextNumber]
    <2>1. row.id = draft[c].id /\ row.n = NextNumber /\ row.seller = draft[c].seller
      BY DraftFields
    <2>2. Moves(c, "numbered", row) /\ "numbered" \in Stages
      BY <1>5 DEF ReadNumber, Stages
    <2> HIDE DEF row
    <2>3. row.n <= NextNumber /\ ~ row.n < NextNumber
      BY <1>0, <2>1
    <2>4. QED
      BY <1>0, <1>1, <2>1, <2>2, <2>3, CreatorTurn
  <1>6. CASE Rollback(c)
    BY <1>1, <1>6, CreatorTurn DEF Rollback, Stages
  <1>7. QED
    BY <1>2, <1>3, <1>4, <1>5, <1>6

(* A creation goes on with the row it has drawn an id for. *)
LEMMA QuietTurn ==
  ASSUME Typed, TurnInv, NEW c \in Creators, Insert(c) \/ Wake(c) \/ InsertsLine(c)
  PROVE  TurnInv'
  <1>0. UNCHANGED <<invoices, job, stressed, users>> /\ pc[c] \in Reads
    BY DEF Insert, Wake, InsertsLine, Reads
  <1>1. /\ draft[c].id \in Nat /\ draft[c].n \in Nat /\ draft[c].id < nextId
        /\ Past(draft[c].seller) /\ nextId \in Nat
    BY RowTypes DEF TurnInv, IdsDrawn, SellersPast
  <1>2. InTurn /\ draft[c].seller \in users =>
          /\ draft[c].n <= NextNumber
          /\ draft[c].n < NextNumber => ~ NoRow(draft[c].n)
          /\ draft[c].n = NextNumber /\ pc[c] # "numbered" => \A r \in invoices : r.id < draft[c].id
    BY <1>0 DEF TurnInv, ReadInTurn
  <1>3. Verdict(c) \in Stages /\ Verdict(c) # "lines"
    BY VerdictType DEF Stages
  <1>4. CASE Insert(c)
    <2> DEFINE row == [draft[c] EXCEPT !.id = nextId]
    <2>1. row.n = draft[c].n /\ row.id = nextId /\ row.seller = draft[c].seller
      BY DraftFields
    <2>2. Moves(c, Verdict(c), row) /\ nextId' = nextId + 1
      BY <1>4 DEF Insert
    <2> HIDE DEF row
    <2>3. row.id \in Nat /\ row.n \in Nat /\ row.id < nextId'
      BY <1>1, <2>1, <2>2
    <2>4. \A r \in invoices : r.id < row.id
      BY <2>1 DEF TurnInv, IdsDrawn
    <2>5. Verdict(c) \in {"linking", "inserted"} =>
            /\ NoRow(row.n)
            /\ \A d \in Creators \ {c} : Holds(d) => draft[d].n # row.n
      BY <2>1, VerdictHolds
    <2>6. QED
      BY <1>0, <1>1, <1>2, <1>3, <2>1, <2>2, <2>3, <2>4, <2>5, CreatorTurn
  <1>5. CASE Wake(c)
    <2>1. Moves(c, Verdict(c), draft[c]) /\ pc[c] # "numbered" /\ nextId' = nextId
      BY <1>5 DEF Wake
    <2>2. QED
      BY <1>0, <1>1, <1>2, <1>3, <2>1, VerdictHolds, CreatorTurn
  <1>6. CASE InsertsLine(c)
    <2> DEFINE to == IF draft[c].product \in products THEN "lines" ELSE "over"
    <2>1. to \in Stages /\ Moves(c, to, draft[c]) /\ pc[c] = "inserted" /\ nextId' = nextId
      BY <1>6 DEF InsertsLine, Stages
    <2> HIDE DEF to
    <2>2. NoRow(draft[c].n) /\ \A d \in Creators \ {c} : Holds(d) => draft[d].n # draft[c].n
      BY <2>1 DEF TurnInv, NumbersHeld, Holds
    <2>3. QED
      BY <1>0, <1>1, <1>2, <2>1, <2>2, CreatorTurn
  <1>7. QED
    BY <1>4, <1>5, <1>6

(* The row that is committed has the next number and the greatest id. *)
LEMMA CommitTurn ==
  ASSUME Typed, Typed', RefInv, TurnInv, NEW c \in Creators, Commit(c)
  PROVE  TurnInv'
  <1> DEFINE row == [id |-> draft[c].id, series |-> "INV", n |-> draft[c].n,
                     seller |-> draft[c].seller, client |-> draft[c].client,
                     product |-> draft[c].product]
             m == draft[c].n
  <1>0. row.id = draft[c].id /\ row.n = m /\ row.series = "INV"
    OBVIOUS
  <1>1. /\ pc[c] = "lines" /\ invoices' = invoices \cup {row} /\ Moves(c, "over", Blank)
        /\ UNCHANGED <<nextId, job, stressed, users>>
    BY DEF Commit
  <1> HIDE DEF row
  <1>2. /\ \A r \in invoices : r.id \in Nat /\ r.n \in Nat
        /\ \A d \in Creators : draft[d].id \in Nat /\ draft[d].n \in Nat
        /\ nextId \in Nat /\ NextNumber \in Nat /\ m \in Nat
    BY RowTypes
  <1>3. /\ pc'[c] = "over" /\ draft'[c] = Blank
        /\ \A d \in Creators \ {c} : pc'[d] = pc[d] /\ draft'[d] = draft[d]
    BY <1>1, DraftTypes DEF Moves
  <1>4. Holds(c) /\ NoRow(m) /\ \A d \in Creators \ {c} : Holds(d) => draft[d].n # m
    BY <1>1 DEF Holds, TurnInv, NumbersHeld
  <1>5. HasNumber(row, m) /\ \A n : HasNumber(row, n) => n = m
    BY <1>0 DEF HasNumber
  <1>6. IdsDrawn'
    <2>1. Blank.id = 0 /\ 0 < nextId
      BY Sizes DEF Blank, Typed, TypeOK
    <2>2. QED
      BY <1>0, <1>1, <1>2, <1>3, <2>1 DEF TurnInv, IdsDrawn
  <1>7. NumbersHeld'
    <2>1. ASSUME NEW d \in Creators, Holds(d)' PROVE d # c /\ Holds(d) /\ draft'[d] = draft[d]
      BY <1>3, <2>1 DEF Holds
    <2>2. ASSUME NEW d \in Creators, Holds(d)' PROVE NoRow(draft[d].n)'
      <3>1. draft[d].n # m /\ NoRow(draft[d].n)
        BY <1>4, <2>1, <2>2 DEF TurnInv, NumbersHeld
      <3>2. \A r \in invoices' : ~ HasNumber(r, draft[d].n)
        BY <1>1, <1>5, <3>1 DEF NoRow
      <3>3. QED
        BY <2>1, <2>2, <3>2 DEF NoRow
    <2>3. ASSUME NEW d \in Creators, NEW e \in Creators \ {d}, Holds(d)', Holds(e)'
          PROVE  draft'[e].n # draft'[d].n
      BY <2>1, <2>3 DEF TurnInv, NumbersHeld
    <2>4. QED
      BY <2>1, <2>2, <2>3 DEF NumbersHeld
  <1>8. SeedFresh'
    <2>1. StressRows' = StressRows
      BY <1>0, <1>1 DEF StressRows
    <2>2. QED
      BY <1>1, <2>1 DEF TurnInv, SeedFresh
  <1>9. StressShows'
    BY <1>0, <1>1 DEF TurnInv, StressShows, StressRows
  <1>10. ASSUME InTurn' PROVE LastIsGreatest' /\ ReadInTurn'
    <2>1. InTurn /\ LastIsGreatest /\ ReadInTurn
      BY <1>1, <1>10 DEF InTurn, TurnInv
    <2>2. m = NextNumber /\ \A r \in invoices : r.id < row.id
      <3>1. draft[c].seller \in users /\ pc[c] \in Reads
        BY <1>1 DEF RefInv, Linked, Reads
      <3>2. QED
        BY <1>0, <1>1, <1>2, <1>4, <2>1, <3>1 DEF ReadInTurn
    <2>3. \A s \in invoices' : IsLast(s)' => s = row
      BY <1>0, <1>1, <1>2, <2>2 DEF IsLast
    <2>4. \A r \in invoices' : r.n <= row.n
      BY <1>0, <1>1, <1>2, <2>1, <2>2, BelowNext
    <2>5. LastIsGreatest'
      BY <2>3, <2>4 DEF LastIsGreatest
    <2>6. NextNumber' = m + 1
      BY <1>0, <1>1, <2>3, NextIsLastNext DEF NextByLast
    <2>7. ASSUME NEW d \in Creators, pc'[d] \in Reads, draft'[d].seller \in users
          PROVE  /\ draft'[d].n <= m /\ draft'[d].n \in Nat
                 /\ \E r \in invoices' : HasNumber(r, draft'[d].n)
      <3> DEFINE k == draft[d].n
      <3>1. draft'[d] = draft[d] /\ pc[d] \in Reads /\ draft[d].seller \in users
        BY <1>3, <2>7 DEF Reads
      <3>2. k <= m /\ k \in Nat
        BY <1>2, <2>1, <2>2, <3>1 DEF ReadInTurn
      <3>3. CASE k = m
        <4> HIDE DEF k, m
        <4>1. \E r \in invoices' : HasNumber(r, k)
          BY <1>1, <1>5, <3>3
        <4>2. QED
          BY <3>1, <3>2, <4>1 DEF k
      <3>4. CASE k < m
        <4>1. ~ NoRow(k)
          BY <2>1, <2>2, <3>1, <3>4 DEF ReadInTurn
        <4> HIDE DEF k
        <4>2. \E r \in invoices' : HasNumber(r, k)
          BY <1>1, <4>1 DEF NoRow
        <4>3. QED
          BY <3>1, <3>2, <4>2 DEF k
      <3>5. QED
        BY <1>2, <3>2, <3>3, <3>4
    <2>8. ASSUME NEW d \in Creators, pc'[d] \in Reads, draft'[d].seller \in users
          PROVE  draft'[d].n <= m /\ draft'[d].n \in Nat /\ ~ NoRow(draft[d].n)'
      BY <2>7, <2>8 DEF NoRow
    <2>9. ReadInTurn'
      BY <1>1, <1>2, <2>6, <2>8 DEF ReadInTurn
    <2>10. QED
      BY <2>5, <2>9
  <1>11. SellersPast'
    BY <1>1, MovesPast DEF TurnInv
  <1>12. QED
    BY <1>6, <1>7, <1>8, <1>9, <1>10, <1>11 DEF TurnInv

(* The script's steps that leave the invoices and the creations alone. *)
LEMMA ScriptTurn ==
  ASSUME Typed, TurnInv, UNCHANGED <<invoices, draft, pc, stressed, users>>,
         nextId <= nextId', nextId' \in Nat, \A r \in job'.fresh : r.id < nextId',
         \A u \in Nat : Past(u) => Past(u)',
         job'.kind = "seed" /\ job'.phase = "filled" =>
           /\ \A r, s \in job'.fresh : r.id <= s.id => r.n <= s.n
           /\ \A r \in job'.fresh : r.series = "001-001",
         job'.kind = "seed" /\ job'.phase \in {"people", "products", "fill", "filled"} =>
           StressRows \subseteq job'.doomed
  PROVE  TurnInv'
  <1>1. IdsDrawn'
    BY RowTypes DEF TurnInv, IdsDrawn
  <1>2. NumbersHeld' /\ SeedFresh' /\ StressShows'
    BY DEF TurnInv, NumbersHeld, Holds, NoRow, SeedFresh, StressShows, StressRows
  <1>3. NextNumber' = NextNumber
    BY DEF NextNumber, IsLast
  <1>4. InTurn' => LastIsGreatest' /\ ReadInTurn'
    BY <1>3 DEF TurnInv, InTurn, LastIsGreatest, ReadInTurn, NoRow, IsLast
  <1>5. SellersPast'
    <2>1. (\A u \in users : u \in Nat) /\ \A c \in Creators : draft[c].seller \in Nat
      BY Sizes, DraftTypes DEF Typed, TypeOK, Draft
    <2>2. QED
      BY <2>1 DEF TurnInv, SellersPast
  <1>6. QED
    BY <1>1, <1>2, <1>4, <1>5 DEF TurnInv

(* A run that goes on, fails, or begins: who was of the past stays so. *)
LEMMA StillPast ==
  ASSUME Typed, \/ job'.run = job.run /\ (Active' => Active)
                \/ job'.run = job.run + 1
  PROVE  \A u \in Nat : Past(u) => Past(u)'
  <1>1. job.run \in Nat
    BY Sizes DEF Typed, TypeOK
  <1>2. QED
    BY <1>1 DEF Past

LEMMA DeleteTurn ==
  ASSUME AllInv, TurnInv, \/ DeletesInvoices \/ DeletesPeople \/ DeletesProducts \/ BulkInserts
                          \/ ScriptFails \/ \E kind \in Kinds : Launch(kind)
  PROVE  TurnInv'
  <1>0. Typed /\ job \in JobType /\ nextId \in Nat /\ \A r \in job.fresh : r.id < nextId
    BY RowTypes DEF AllInv, Typed, TypeOK, JobType, TurnInv, IdsDrawn
  <1>1. UNCHANGED <<invoices, draft, pc, stressed, nextId, users>>
    BY DEF DeletesInvoices, DeletesPeople, DeletesProducts, BulkInserts, ScriptFails, Launch
  <1>9. \A u \in Nat : Past(u) => Past(u)'
    <2>1. CASE DeletesInvoices \/ DeletesPeople \/ DeletesProducts \/ BulkInserts \/ ScriptFails
      <3>1. Active
        BY <2>1 DEF Active, DeletesInvoices, DeletesPeople, DeletesProducts, BulkInserts, ScriptFails
      <3>2. job'.run = job.run
        BY <1>0, <2>1, JobMoves DEF DeletesInvoices, DeletesPeople, DeletesProducts, BulkInserts,
                                   ScriptFails, JobType
      <3>3. QED
        BY <1>0, <3>1, <3>2, StillPast
    <2>2. CASE \E kind \in Kinds : Launch(kind)
      <3>1. job'.run = job.run + 1
        BY <2>2 DEF Launch
      <3>2. QED
        BY <1>0, <3>1, StillPast
    <2>3. QED
      BY <2>1, <2>2
  <1>2. CASE DeletesInvoices
    <2>1. /\ job'.phase = "people" /\ job'.fresh = job.fresh /\ job'.kind = job.kind
          /\ job'.doomed = {r \in invoices : Dooms(r)}
      BY <1>0, <1>2 DEF DeletesInvoices, JobType
    <2>2. StressRows \subseteq job'.doomed
      BY <2>1 DEF StressRows, Dooms
    <2>3. QED
      BY <1>0, <1>1, <1>9, <2>1, <2>2, ScriptTurn
  <1>3. CASE DeletesPeople
    <2>1. /\ job'.phase = "products" /\ job'.fresh = job.fresh /\ job'.kind = job.kind
          /\ job'.doomed = job.doomed /\ job.phase = "people"
      BY <1>0, <1>3, JobMoves DEF DeletesPeople
    <2>2. QED
      BY <1>0, <1>1, <1>9, <2>1, ScriptTurn DEF TurnInv, SeedFresh
  <1>4. CASE DeletesProducts
    <2>1. /\ job'.phase \in {"fill", "cleared"} /\ job'.fresh = job.fresh
          /\ job'.kind = job.kind /\ job'.doomed = job.doomed /\ job.phase = "products"
          /\ job'.phase # "filled"
      BY <1>0, <1>4, JobMoves DEF DeletesProducts
    <2>2. QED
      BY <1>0, <1>1, <1>9, <2>1, ScriptTurn DEF TurnInv, SeedFresh
  <1>5. CASE BulkInserts
    <2>1. job.kind = "stress"
      BY <1>5 DEF BulkInserts, AllInv, RefInv, Linked
    <2>2. job'.kind = "stress" /\ job'.fresh = job.fresh
      BY <1>0, <1>5, <2>1, JobMoves DEF BulkInserts
    <2>3. QED
      BY <1>0, <1>1, <1>9, <2>2, ScriptTurn
  <1>6. CASE ScriptFails \/ \E kind \in Kinds : Launch(kind)
    <2>1. job'.phase \in {"failed", "invoices"} /\ job'.fresh = {}
      <3>1. ScriptFails => job'.phase = "failed" /\ job'.fresh = {}
        BY <1>0 DEF ScriptFails, JobType
      <3>2. \A kind : Launch(kind) => job'.phase = "invoices" /\ job'.fresh = {}
        BY DEF Launch
      <3>3. QED
        BY <1>6, <3>1, <3>2
    <2>2. QED
      BY <1>0, <1>1, <1>9, <2>1, ScriptTurn
  <1>7. QED
    BY <1>2, <1>3, <1>4, <1>5, <1>6

LEMMA FillTurn ==
  ASSUME AllInv, TurnInv, SeedFills \/ StressFills
  PROVE  TurnInv'
  <1>0. Typed /\ job \in JobType /\ nextId \in Nat /\ DemoCount \in Nat
        /\ \A r \in job.fresh : r.id < nextId /\ r.id \in Nat
    BY RowTypes, Sizes DEF AllInv, Typed, TypeOK, JobType, TurnInv, IdsDrawn
  <1>1. CASE SeedFills
    <2> DEFINE rows == {SeedRow(nextId + i - 1, i) : i \in 1 .. DemoCount}
    <2>1. /\ job' = [job EXCEPT !.phase = "filled", !.fresh = rows]
          /\ job.kind = "seed" /\ job.phase = "fill" /\ nextId' = nextId + DemoCount
          /\ UNCHANGED <<invoices, draft, pc, stressed, users>>
      BY <1>1 DEF SeedFills
    <2>2. \A i : SeedRow(nextId + i - 1, i).id = nextId + i - 1 /\ SeedRow(nextId + i - 1, i).n = i
                 /\ SeedRow(nextId + i - 1, i).series = "001-001"
      BY DEF SeedRow
    <2>3. \A r \in rows : \E i \in 1 .. DemoCount :
            r.id = nextId + i - 1 /\ r.n = i /\ r.series = "001-001"
      BY <2>2
    <2> HIDE DEF rows
    <2>4. \A r \in rows : r.id < nextId' /\ r.series = "001-001"
      BY <1>0, <2>1, <2>3
    <2>5. ASSUME NEW r \in rows, NEW s \in rows, r.id <= s.id PROVE r.n <= s.n
      BY <1>0, <2>3, <2>5
    <2>6. /\ job'.phase = "filled" /\ job'.fresh = rows /\ job'.doomed = job.doomed
      BY <1>0, <2>1 DEF JobType
    <2>7. StressRows \subseteq job.doomed
      BY <2>1 DEF TurnInv, SeedFresh
    <2>8. nextId <= nextId' /\ nextId' \in Nat
      BY <1>0, <2>1
    <2>9. \A u \in Nat : Past(u) => Past(u)'
      <3>1. job'.run = job.run /\ Active
        BY <1>0, <2>1 DEF JobType, Active
      <3>2. QED
        BY <1>0, <3>1, StillPast
    <2>10. QED
      BY <1>0, <2>1, <2>4, <2>5, <2>6, <2>7, <2>8, <2>9, ScriptTurn
  <1>2. CASE StressFills
    <2>1. PICK s \in users, k \in clients, phase \in {"fill", "filled"} :
            job' = [job EXCEPT !.phase = phase,
                      !.fresh = @ \cup {[id |-> nextId, series |-> "STRESS",
                                         n |-> Cardinality(job.fresh), seller |-> s, client |-> k, product |-> None]}]
      BY <1>2 DEF StressFills
    <2> DEFINE row == [id |-> nextId, series |-> "STRESS",
                       n |-> Cardinality(job.fresh), seller |-> s, client |-> k, product |-> None]
    <2>2. row.id = nextId
      OBVIOUS
    <2>3. job' = [job EXCEPT !.phase = phase, !.fresh = job.fresh \cup {row}] /\ job.kind = "stress"
      BY <1>2, <2>1 DEF StressFills
    <2> HIDE DEF row
    <2>4. job'.kind = "stress" /\ job'.fresh = job.fresh \cup {row}
      BY <1>0, <2>3 DEF JobType
    <2>5. /\ UNCHANGED <<invoices, draft, pc, stressed, users>> /\ nextId' = nextId + 1
          /\ job.phase = "fill"
      BY <1>2, Zenon DEF StressFills
    <2>6. \A r \in job'.fresh : r.id < nextId'
      BY <1>0, <2>2, <2>4, <2>5
    <2>7. nextId <= nextId' /\ nextId' \in Nat
      BY <1>0, <2>5
    <2>8. \A u \in Nat : Past(u) => Past(u)'
      <3>1. job'.run = job.run /\ Active
        BY <1>0, <2>3, <2>5 DEF JobType, Active
      <3>2. QED
        BY <1>0, <3>1, StillPast
    <2>9. QED
      BY <1>0, <2>4, <2>5, <2>6, <2>7, <2>8, ScriptTurn
  <1>3. QED
    BY <1>1, <1>2

(* The rows a transaction of the script leaves keep their ids and numbers. *)
LEMMA LeftRows ==
  ASSUME Typed, NEW fresh, NEW phase, Cleared(fresh, phase)
  PROVE  /\ \A r \in invoices' : r \in fresh \/ \E q \in invoices \ job.doomed :
              /\ r.id = q.id /\ r.series = q.series /\ r.n = q.n
              /\ r.seller = IF q.seller \in GoingUsers THEN 0 ELSE q.seller
         /\ \A q \in invoices \ job.doomed : \E r \in invoices' :
              /\ r.id = q.id /\ r.series = q.series /\ r.n = q.n
              /\ r.seller = IF q.seller \in GoingUsers THEN 0 ELSE q.seller
  <1> DEFINE rows == invoices \ job.doomed
             after(q) == [q EXCEPT !.seller = IF q.seller \in GoingUsers THEN 0 ELSE q.seller,
                                   !.client = IF q.client \in GoingClients THEN None ELSE q.client,
                        !.product = IF q.product \in GoingProducts THEN None ELSE q.product]
  <1>1. rows \subseteq Invoice /\ invoices' = Nulled(rows) \cup fresh
    BY DEF Typed, TypeOK, Cleared
  <1>2. Nulled(rows) = {after(q) : q \in rows}
    BY DEF Nulled
  <1>3. ASSUME NEW q \in rows
        PROVE  /\ after(q).id = q.id /\ after(q).series = q.series /\ after(q).n = q.n
               /\ after(q).seller = IF q.seller \in GoingUsers THEN 0 ELSE q.seller
    <2> HIDE DEF rows
    <2>1. q \in Invoice
      BY <1>1
    <2>2. QED
      BY <2>1 DEF Invoice
  <1> HIDE DEF after
  <1>4. QED
    BY <1>1, <1>2, <1>3, ZenonT(60)

(* Rows that go, and rows of another series that come, take no number. *)
LEMMA LeftNumbers ==
  ASSUME AllInv, TurnInv, NEW fresh, NEW phase, Cleared(fresh, phase),
         \A r \in fresh : r.series # "INV" /\ r.id < nextId, UNCHANGED <<draft, pc, nextId>>
  PROVE  IdsDrawn' /\ NumbersHeld'
  <1>0. Typed /\ job'.fresh = {}
    BY JobMoves DEF AllInv
  <1>1. \A r \in invoices' : r \in fresh \/ \E q \in invoices : r.id = q.id /\ r.series = q.series /\ r.n = q.n
    BY <1>0, LeftRows
  <1>2. IdsDrawn'
    BY <1>0, <1>1 DEF TurnInv, IdsDrawn
  <1>3. ASSUME NEW n, NoRow(n) PROVE \A r \in invoices' : ~ HasNumber(r, n)
    BY <1>1, <1>3 DEF NoRow, HasNumber
  <1>4. NumbersHeld'
    BY <1>3 DEF TurnInv, NumbersHeld, Holds, NoRow
  <1>5. QED
    BY <1>2, <1>4

LEMMA ClearingTurn ==
  ASSUME AllInv, Typed', TurnInv, CommitsClearing
  PROVE  TurnInv'
  <1>0. /\ Typed /\ Cleared({}, "newProducts")
        /\ UNCHANGED <<draft, pc, nextId, stressed, users>> /\ job.phase = "cleared"
    BY DEF AllInv, CommitsClearing
  <1>1. job.kind = "stress" /\ job'.kind = "stress" /\ GoingUsers = {}
    BY <1>0, JobMoves, Going DEF CommitsClearing, AllInv, RefInv, Linked, GoingByPhase
  <1>2. IdsDrawn' /\ NumbersHeld' /\ SeedFresh'
    BY <1>0, <1>1, LeftNumbers DEF SeedFresh
  <1>3. /\ \A r \in invoices' : \E q \in invoices :
             r.id = q.id /\ r.series = q.series /\ r.n = q.n /\ r.seller = q.seller
        /\ \A q \in invoices \ job.doomed : \E r \in invoices' :
             r.id = q.id /\ r.series = q.series /\ r.n = q.n /\ r.seller = q.seller
    BY <1>0, <1>1, LeftRows
  <1>4. StressShows'
    BY <1>0, <1>3 DEF TurnInv, StressShows, StressRows
  <1>5. ASSUME InTurn' PROVE LastIsGreatest' /\ ReadInTurn'
    <2>1. \A q \in invoices : \E r \in invoices' :
            r.id = q.id /\ r.series = q.series /\ r.n = q.n /\ r.seller = q.seller
      <3>1. StressRows = {} /\ \A r \in job.doomed : r.series = "STRESS"
        BY <1>0, <1>1, <1>5 DEF InTurn, TurnInv, StressShows, AllInv, WholeInv, StressGoesOn
      <3>2. invoices \ job.doomed = invoices
        BY <3>1 DEF StressRows
      <3>3. QED
        BY <1>3, <3>2
    <2>2. InTurn /\ LastIsGreatest /\ ReadInTurn
      BY <1>0, <1>5, <2>1 DEF InTurn, TurnInv
    <2>3. ASSUME NEW s \in invoices', IsLast(s)'
          PROVE  \E q \in invoices : IsLast(q) /\ q.n = s.n
      BY <1>3, <2>1, <2>3 DEF IsLast
    <2>4. LastIsGreatest'
      BY <1>3, <2>2, <2>3 DEF LastIsGreatest
    <2>5. NextNumber' = NextNumber
      <3>1. CASE invoices' = {}
        BY <1>0, <2>1, <3>1, NextIsLast, NextIsLastNext DEF NextByLast
      <3>2. CASE invoices' # {}
        <4>1. PICK s \in invoices' : IsLast(s)' /\ NextNumber' = s.n + 1
          BY <3>2, NextIsLastNext DEF NextByLast
        <4>2. PICK q \in invoices : IsLast(q) /\ q.n = s.n
          BY <2>3, <4>1
        <4>3. PICK p \in invoices : IsLast(p) /\ NextNumber = p.n + 1
          BY <1>0, <4>2, NextIsLast DEF NextByLast
        <4>4. p.n <= q.n /\ q.n <= p.n /\ p.n \in Nat /\ q.n \in Nat
          BY <1>0, <2>2, <4>2, <4>3, RowTypes DEF LastIsGreatest
        <4>5. QED
          BY <4>1, <4>2, <4>3, <4>4
      <3>3. QED
        BY <3>1, <3>2
    <2>6. ASSUME NEW n PROVE (\E r \in invoices : HasNumber(r, n)) => \E r \in invoices' : HasNumber(r, n)
      BY <2>1 DEF HasNumber
    <2>7. ASSUME NEW d \in Creators, pc'[d] \in Reads, draft'[d].seller \in users'
          PROVE  /\ draft'[d].n <= NextNumber
                 /\ draft'[d].n < NextNumber => ~ NoRow(draft[d].n)'
                 /\ draft'[d].n = NextNumber /\ pc'[d] # "numbered" =>
                      \A r \in invoices' : r.id < draft'[d].id
      <3>1. draft' = draft /\ pc' = pc
        BY <1>0
      <3>2. /\ draft[d].n <= NextNumber
            /\ draft[d].n < NextNumber => ~ NoRow(draft[d].n)
            /\ draft[d].n = NextNumber /\ pc[d] # "numbered" => \A r \in invoices : r.id < draft[d].id
        BY <1>0, <2>2, <2>7, <3>1 DEF ReadInTurn
      <3>3. draft[d].n < NextNumber => ~ NoRow(draft[d].n)'
        BY <2>6, <3>1, <3>2 DEF NoRow
      <3>4. QED
        BY <1>3, <3>1, <3>2, <3>3
    <2>8. ReadInTurn'
      BY <2>5, <2>7 DEF ReadInTurn
    <2>9. QED
      BY <2>4, <2>8
  <1>6. SellersPast'
    <2>1. job'.run = job.run /\ Active
      BY <1>0, JobMoves DEF Active
    <2>2. \A u \in Nat : Past(u) => Past(u)'
      BY <1>0, <2>1, StillPast
    <2>3. (\A u \in users : u \in Nat) /\ \A c \in Creators : draft[c].seller \in Nat
      BY <1>0, Sizes, DraftTypes DEF Typed, TypeOK, Draft
    <2>4. QED
      BY <1>0, <2>2, <2>3 DEF TurnInv, SellersPast
  <1>7. QED
    BY <1>2, <1>4, <1>5, <1>6 DEF TurnInv

(* What seed.py leaves: its own rows, or an invoice without its seller.    *)
LEMMA SeedTurn ==
  ASSUME AllInv, TurnInv, SeedCommits
  PROVE  TurnInv'
  <1>0. /\ Typed /\ Cleared(job.fresh, "done") /\ UNCHANGED <<draft, pc, nextId>>
        /\ stressed' = FALSE /\ job.kind = "seed" /\ job.phase = "filled"
        /\ users' = {job.run}
    BY DEF AllInv, SeedCommits
  <1>1. job'.phase = "done" /\ job'.run = job.run /\ GoingUsers = users
    BY <1>0, JobMoves, Going DEF GoingByPhase
  <1>2. /\ \A r, s \in job.fresh : r.id <= s.id => r.n <= s.n
        /\ \A r \in job.fresh : r.series = "001-001" /\ r.id < nextId
        /\ StressRows \subseteq job.doomed
    BY <1>0 DEF TurnInv, SeedFresh, IdsDrawn
  <1>3. IdsDrawn' /\ NumbersHeld' /\ SeedFresh'
    BY <1>0, <1>1, <1>2, LeftNumbers DEF SeedFresh
  <1>4. \A r \in invoices' : r \in job.fresh \/ \E q \in invoices \ job.doomed :
           /\ r.series = q.series
           /\ r.seller = IF q.seller \in GoingUsers THEN 0 ELSE q.seller
    BY <1>0, LeftRows
  <1>5. StressShows'
    BY <1>2, <1>4 DEF StressShows, StressRows
  <1>6. ASSUME InTurn' PROVE LastIsGreatest'
    <2>1. \A q \in invoices : q.seller \in users \cup {0}
      BY DEF AllInv, RefInv, ReferencesResolve
    <2>2. \A r \in invoices' : r \in job.fresh
      BY <1>1, <1>4, <1>6, <2>1 DEF InTurn
    <2>3. QED
      BY <1>2, <2>2 DEF LastIsGreatest, IsLast
  <1>7. \A c \in Creators : draft[c].seller < job.run /\ draft[c].seller \in Nat /\ job.run \in Nat
    BY <1>0, Sizes, DraftTypes DEF TurnInv, SellersPast, Past, Active, Draft, Typed, TypeOK
  <1>8. ReadInTurn'
    BY <1>0, <1>7 DEF ReadInTurn
  <1>9. SellersPast'
    <2>1. ~ Active'
      BY <1>1 DEF Active
    <2>2. \A u : u <= job.run => Past(u)'
      BY <1>1, <2>1 DEF Past
    <2>3. \A u \in users' : u <= job.run
      BY <1>0, Sizes DEF Typed, TypeOK
    <2>4. \A c \in Creators : draft'[c].seller <= job.run
      BY <1>0, <1>7
    <2>5. QED
      BY <2>2, <2>3, <2>4 DEF SellersPast
  <1>10. QED
    BY <1>3, <1>5, <1>6, <1>8, <1>9 DEF TurnInv

LEMMA StressTurn ==
  ASSUME AllInv, TurnInv, StressCommits
  PROVE  TurnInv'
  <1>0. /\ Typed /\ Cleared(job.fresh, "done") /\ UNCHANGED <<draft, pc, nextId>>
        /\ stressed' = TRUE /\ job.kind = "stress" /\ job.phase = "filled"
    BY DEF AllInv, StressCommits
  <1>1. \A r \in job.fresh : r.series = "STRESS" /\ r.id < nextId
    BY <1>0 DEF AllInv, WholeInv, StressGoesOn, Numbered
  <1>2. job'.kind = "stress" /\ job'.run = job.run /\ Active /\ users' = users
    BY <1>0, JobMoves DEF Active, StressCommits
  <1>3. SellersPast'
    <2>1. \A u \in Nat : Past(u) => Past(u)'
      BY <1>0, <1>2, StillPast
    <2>2. (\A u \in users : u \in Nat) /\ \A c \in Creators : draft[c].seller \in Nat
      BY <1>0, Sizes, DraftTypes DEF Typed, TypeOK, Draft
    <2>3. QED
      BY <1>0, <1>2, <2>1, <2>2 DEF TurnInv, SellersPast
  <1>4. QED
    BY <1>0, <1>1, <1>2, <1>3, LeftNumbers DEF TurnInv, SeedFresh, StressShows, InTurn

LEMMA StepTurn == AllInv /\ TurnInv /\ [Next]_vars => TurnInv'
  <1> SUFFICES ASSUME AllInv, TurnInv, [Next]_vars PROVE TurnInv'
    OBVIOUS
  <1>0. Typed /\ Typed'
    BY StepTyped DEF AllInv
  <1>1. CASE UNCHANGED vars
    <2>1. (\A u \in Nat : Past(u) => Past(u)') /\ UNCHANGED <<invoices, draft, pc, stressed, users, nextId, job>>
      BY <1>1 DEF vars, Past, Active
    <2>2. QED
      BY <1>0, <2>1, RowTypes, ScriptTurn DEF TurnInv, SeedFresh, IdsDrawn
  <1>2. CASE Script
    BY <1>0, <1>2, DeleteTurn, FillTurn, ClearingTurn, SeedTurn, StressTurn DEF Script
  <1>3. QED
    BY <1>0, <1>1, <1>2, ReadTurn, QuietTurn, CommitTurn, DeleteTurn DEF Next, AllInv

(* A number read before seed.py renumbers is not used after it, and the    *)
(* next number is free unless seed_large.py has written invoices since the *)
(* database was wiped, or an invoice has outlived its seller: whatever the *)
(* scripts and any number of creations have done before.                   *)
THEOREM NumbersAreFree == Spec => []NumbersGoOn
  <1>1. AllInv /\ TurnInv => NumbersGoOn
    <2> SUFFICES ASSUME AllInv, TurnInv, InTurn, NEW r \in invoices, HasNumber(r, NextNumber)
                 PROVE  FALSE
      BY DEF NumbersGoOn, InTurn
    <2>1. Typed /\ LastIsGreatest
      BY DEF AllInv, TurnInv
    <2>2. r.n < NextNumber /\ r.n = NextNumber /\ r.n \in Nat
      BY <2>1, BelowNext, RowTypes DEF HasNumber
    <2>3. QED
      BY <2>2
  <1>2. Init => AllInv
    BY InitSInv DEF SInv, AllInv, RefInv, WholeInv
  <1>3. QED
    BY <1>1, <1>2, StepAll, InitTurn, StepTurn, PTL DEF Spec
=============================================================================
