----------------------- MODULE InvoiceNumberingProofs -----------------------
(***************************************************************************)
(* Proofs about InvoiceNumbering, for every set of Creators.               *)
(*                                                                         *)
(* Gapless and IdsFollowNumbers are not inductive: they say nothing of the *)
(* transactions in flight.  What carries them is that a number in flight   *)
(* is backed by committed rows 1 .. n-1 (Backed), that an entry in the     *)
(* unique index excludes every other entry for the number (Exclusive), and *)
(* that the id of a row not yet committed is above the ids of all smaller  *)
(* committed numbers (IdAbove).                                            *)
(***************************************************************************)
EXTENDS InvoiceNumbering, TLAPS

HasNumber(t) == pc[t] \in {"numbered", "waiting", "inserted"}

HasId(t) == pc[t] \in {"waiting", "inserted"}

Fresh ==
  /\ \A r \in rows : r.id < nextId
  /\ \A t \in Creators : HasId(t) => id[t] \in Nat \ {0} /\ id[t] < nextId
  /\ \A t, u \in Creators : HasId(t) /\ HasId(u) /\ id[t] = id[u] => t = u

Backed ==
  \A t \in Creators : HasNumber(t) =>
    /\ num[t] \in Nat \ {0}
    /\ \A m \in 1 .. num[t] - 1 : Taken(m)

Exclusive ==
  \A t \in Creators : pc[t] = "inserted" =>
    ~ Taken(num[t]) /\ ~ HeldByOther(t, num[t])

IdAbove ==
  \A t \in Creators : HasId(t) =>
    \A r \in rows : r.num < num[t] => r.id < id[t]

IInv ==
  /\ TypeOK
  /\ Gapless
  /\ IdsFollowNumbers
  /\ Fresh
  /\ Backed
  /\ Exclusive
  /\ IdAbove

-----------------------------------------------------------------------------
LEMMA InitIInv == Init => IInv
  BY DEF Init, IInv, TypeOK, PC, Row, Gapless, IdsFollowNumbers, Fresh, Backed,
         Exclusive, IdAbove, HasNumber, HasId, Taken, HeldByOther

(* An entry in the index is about to become the end of the book: every     *)
(* committed number is smaller.                                            *)
LEMMA InsertedIsNext ==
  ASSUME IInv, NEW t \in Creators, pc[t] = "inserted", NEW r \in rows
  PROVE  r.num < num[t] /\ r.id < id[t]
  <1>1. r.num \in Nat /\ num[t] \in Nat \ {0}
    BY DEF IInv, TypeOK, Row, Backed, HasNumber
  <1>2. CASE num[t] <= r.num
    <2>1. num[t] \in 1 .. r.num
      BY <1>1, <1>2
    <2>2. Taken(num[t])
      BY <2>1 DEF IInv, Gapless, Taken
    <2>3. QED
      BY <2>2 DEF IInv, Exclusive
  <1>3. CASE r.num < num[t]
    BY <1>3 DEF IInv, IdAbove, HasId
  <1>4. QED
    BY <1>1, <1>2, <1>3

(* What the index answers, stated without the nested conditional. *)
LEMMA Verdict ==
  ASSUME NEW t, NEW n
  PROVE  /\ IndexVerdict(t, n) \in {"aborted", "waiting", "inserted"}
         /\ IndexVerdict(t, n) = "inserted" => ~ Taken(n) /\ ~ HeldByOther(t, n)
  BY DEF IndexVerdict

LEMMA NumberStep ==
  ASSUME IInv, NEW t \in Creators, NextInvoiceNumber(t)
  PROVE  IInv'
  <1>1. /\ rows' = rows /\ nextId' = nextId /\ id' = id
        /\ pc[t] = "begin" /\ pc' = [pc EXCEPT ![t] = "numbered"]
    BY DEF NextInvoiceNumber
  <1>2. PICK n \in Nat \ {0} : /\ num' = [num EXCEPT ![t] = n]
                               /\ \A m \in 1 .. n - 1 : Taken(m)
    <2>1. CASE rows = {} /\ num' = [num EXCEPT ![t] = 1]
      <3>1. 1 \in Nat \ {0} /\ \A m \in 1 .. 1 - 1 : Taken(m)
        OBVIOUS
      <3>2. QED
        BY <2>1, <3>1
    <2>2. CASE \E r \in rows : IsLast(r) /\ num' = [num EXCEPT ![t] = r.num + 1]
      <3>1. PICK r \in rows : num' = [num EXCEPT ![t] = r.num + 1]
        BY <2>2
      <3>2. r.num \in Nat \ {0}
        BY DEF IInv, TypeOK, Row
      <3>3. \A m \in 1 .. r.num : Taken(m)
        BY DEF IInv, Gapless, Taken
      <3>4. r.num + 1 \in Nat \ {0} /\ \A m \in 1 .. (r.num + 1) - 1 : Taken(m)
        BY <3>2, <3>3
      <3>5. QED
        BY <3>1, <3>4
    <2>3. QED
      BY <2>1, <2>2 DEF NextInvoiceNumber
  <1>3. TypeOK'
    BY <1>1, <1>2 DEF IInv, TypeOK, PC
  <1>4. Gapless' /\ IdsFollowNumbers'
    BY <1>1 DEF IInv, Gapless, IdsFollowNumbers
  <1>5. Fresh' /\ IdAbove'
    BY <1>1, <1>2 DEF IInv, TypeOK, Fresh, IdAbove, HasId
  <1>6. Backed'
    BY <1>1, <1>2 DEF IInv, TypeOK, Backed, HasNumber, Taken
  <1>7. Exclusive'
    BY <1>1, <1>2 DEF IInv, TypeOK, Exclusive, Taken, HeldByOther
  <1>8. QED
    BY <1>3, <1>4, <1>5, <1>6, <1>7 DEF IInv

LEMMA InsertStep ==
  ASSUME IInv, NEW t \in Creators, Insert(t)
  PROVE  IInv'
  <1> DEFINE v == IndexVerdict(t, num[t])
  <1>1. /\ rows' = rows /\ nextId' = nextId + 1 /\ num' = num
        /\ id' = [id EXCEPT ![t] = nextId]
        /\ pc[t] = "numbered" /\ pc' = [pc EXCEPT ![t] = v]
    BY DEF Insert
  <1>2. /\ v \in {"aborted", "waiting", "inserted"}
        /\ v = "inserted" => ~ Taken(num[t]) /\ ~ HeldByOther(t, num[t])
    BY Verdict
  <1> HIDE DEF v
  <1>3. TypeOK'
    BY <1>1, <1>2 DEF IInv, TypeOK, PC
  <1>4. Gapless' /\ IdsFollowNumbers'
    BY <1>1 DEF IInv, Gapless, IdsFollowNumbers
  <1>5. Fresh'
    BY <1>1, <1>2 DEF IInv, TypeOK, Row, Fresh, HasId
  <1>6. Backed'
    BY <1>1, <1>2 DEF IInv, TypeOK, Backed, HasNumber, Taken
  <1>7. Exclusive'
    BY <1>1, <1>2 DEF IInv, TypeOK, Exclusive, Taken, HeldByOther
  <1>8. IdAbove'
    BY <1>1, <1>2 DEF IInv, TypeOK, Row, Fresh, IdAbove, HasId
  <1>9. QED
    BY <1>3, <1>4, <1>5, <1>6, <1>7, <1>8 DEF IInv

LEMMA WakeStep ==
  ASSUME IInv, NEW t \in Creators, Wake(t)
  PROVE  IInv'
  <1> DEFINE v == IndexVerdict(t, num[t])
  <1>1. /\ rows' = rows /\ nextId' = nextId /\ num' = num /\ id' = id
        /\ pc[t] = "waiting" /\ pc' = [pc EXCEPT ![t] = v]
    BY DEF Wake
  <1>2. /\ v \in {"aborted", "waiting", "inserted"}
        /\ v = "inserted" => ~ Taken(num[t]) /\ ~ HeldByOther(t, num[t])
    BY Verdict
  <1> HIDE DEF v
  <1>3. TypeOK'
    BY <1>1, <1>2 DEF IInv, TypeOK, PC
  <1>4. Gapless' /\ IdsFollowNumbers'
    BY <1>1 DEF IInv, Gapless, IdsFollowNumbers
  <1>5. Fresh' /\ IdAbove'
    BY <1>1, <1>2 DEF IInv, TypeOK, Fresh, IdAbove, HasId
  <1>6. Backed'
    BY <1>1, <1>2 DEF IInv, TypeOK, Backed, HasNumber, Taken
  <1>7. Exclusive'
    BY <1>1, <1>2 DEF IInv, TypeOK, Exclusive, Taken, HeldByOther
  <1>8. QED
    BY <1>3, <1>4, <1>5, <1>6, <1>7 DEF IInv

LEMMA CommitStep ==
  ASSUME IInv, NEW t \in Creators, Commit(t)
  PROVE  IInv'
  <1> DEFINE new == [id |-> id[t], num |-> num[t]]
  <1>1. /\ rows' = rows \cup {new}
        /\ nextId' = nextId /\ num' = num /\ id' = id
        /\ pc[t] = "inserted" /\ pc' = [pc EXCEPT ![t] = "committed"]
    BY DEF Commit
  <1>2. /\ new \in Row
        /\ new.num = num[t] /\ new.id = id[t] /\ new.id < nextId
        /\ \A m \in 1 .. num[t] - 1 : Taken(m)
    BY <1>1 DEF IInv, TypeOK, Fresh, Backed, HasId, HasNumber, Row
  <1>3. \A r \in rows : r.num < new.num /\ r.id < new.id
    BY <1>1, <1>2, InsertedIsNext
  <1> HIDE DEF new
  <1>4. TypeOK'
    BY <1>1, <1>2 DEF IInv, TypeOK, PC
  <1>5. Gapless'
    <2> SUFFICES ASSUME NEW r \in rows', NEW m \in 1 .. r.num
                 PROVE  \E s \in rows' : s.num = m
      BY DEF Gapless
    <2>1. CASE r \in rows
      BY <2>1, <1>1 DEF IInv, Gapless
    <2>2. CASE r = new /\ m = num[t]
      BY <2>2, <1>1, <1>2
    <2>3. CASE r = new /\ m # num[t]
      <3>1. m \in 1 .. num[t] - 1
        BY <2>3, <1>2 DEF Row
      <3>2. QED
        BY <3>1, <1>1, <1>2 DEF Taken
    <2>4. QED
      BY <2>1, <2>2, <2>3, <1>1
  <1>6. IdsFollowNumbers'
    <2> SUFFICES ASSUME NEW r \in rows', NEW s \in rows'
                 PROVE  r.id < s.id <=> r.num < s.num
      BY DEF IdsFollowNumbers
    <2>1. CASE r \in rows /\ s \in rows
      BY <2>1 DEF IInv, IdsFollowNumbers
    <2>2. CASE r = new \/ s = new
      BY <2>2, <1>1, <1>2, <1>3 DEF IInv, TypeOK, Row
    <2>3. QED
      BY <2>1, <2>2, <1>1
  <1>7. Fresh'
    BY <1>1, <1>2 DEF IInv, TypeOK, Fresh, HasId
  <1>8. Backed'
    BY <1>1 DEF IInv, TypeOK, Backed, HasNumber, Taken
  <1>9. Exclusive'
    BY <1>1, <1>2 DEF IInv, TypeOK, Exclusive, Taken, HeldByOther
  <1>10. IdAbove'
    <2> SUFFICES ASSUME NEW u \in Creators, HasId(u)', NEW r \in rows', r.num < num'[u]
                 PROVE  r.id < id'[u]
      BY DEF IdAbove
    <2>1. u # t /\ HasId(u) /\ HasNumber(u) /\ num'[u] = num[u] /\ id'[u] = id[u]
      BY <1>1 DEF IInv, TypeOK, HasId, HasNumber
    <2>2. CASE r \in rows
      BY <2>1, <2>2 DEF IInv, IdAbove
    <2>3. CASE r = new
      (* new.num < num[u] would be a taken number already: u's number is backed. *)
      <3>1. num[t] \in 1 .. num[u] - 1
        BY <2>1, <2>3, <1>2 DEF IInv, Backed, Row
      <3>2. Taken(num[t])
        BY <3>1, <2>1 DEF IInv, Backed
      <3>3. QED
        BY <3>2, <1>1 DEF IInv, Exclusive
    <2>4. QED
      BY <2>2, <2>3, <1>1
  <1>11. QED
    BY <1>4, <1>5, <1>6, <1>7, <1>8, <1>9, <1>10 DEF IInv

LEMMA RollbackStep ==
  ASSUME IInv, NEW t \in Creators, Rollback(t)
  PROVE  IInv'
  <1>1. /\ rows' = rows /\ nextId' = nextId /\ num' = num /\ id' = id
        /\ pc' = [pc EXCEPT ![t] = "aborted"]
    BY DEF Rollback
  <1>2. TypeOK' /\ Gapless' /\ IdsFollowNumbers'
    BY <1>1 DEF IInv, TypeOK, PC, Gapless, IdsFollowNumbers
  <1>3. Fresh' /\ Backed' /\ IdAbove'
    BY <1>1 DEF IInv, TypeOK, Fresh, Backed, IdAbove, HasId, HasNumber, Taken
  <1>4. Exclusive'
    BY <1>1 DEF IInv, TypeOK, Exclusive, Taken, HeldByOther
  <1>5. QED
    BY <1>2, <1>3, <1>4 DEF IInv

LEMMA StutterStep ==
  ASSUME IInv, UNCHANGED vars
  PROVE  IInv'
  BY DEF vars, IInv, TypeOK, Gapless, IdsFollowNumbers, Fresh, Backed, Exclusive,
         IdAbove, HasId, HasNumber, Taken, HeldByOther

LEMMA StepIInv == IInv /\ [Next]_vars => IInv'
  BY NumberStep, InsertStep, WakeStep, CommitStep, RollbackStep, StutterStep DEF Next

LEMMA Inductive == Spec => []IInv
  BY InitIInv, StepIInv, PTL DEF Spec

-----------------------------------------------------------------------------
(* The variables keep their types: numbers and ids are positive once they  *)
(* are in the table.                                                       *)
THEOREM TypeCorrect == Spec => []TypeOK
  <1>1. IInv => TypeOK
    BY DEF IInv
  <1>2. QED
    BY <1>1, Inductive, PTL

(* However many POST /invoices run at once, wait for each other and roll   *)
(* back, the committed invoices are numbered 1 .. n without a hole.        *)
THEOREM NoGaps == Spec => []Gapless
  <1>1. IInv => Gapless
    BY DEF IInv
  <1>2. QED
    BY <1>1, Inductive, PTL

(* The row with the greatest id is the one with the greatest number, which *)
(* is what next_invoice_number takes for granted.                          *)
THEOREM IdOrder == Spec => []IdsFollowNumbers
  <1>1. IInv => IdsFollowNumbers
    BY DEF IInv
  <1>2. QED
    BY <1>1, Inductive, PTL

(* No two committed invoices share a number. *)
COROLLARY UniqueNumbers == Spec => [](\A r, s \in rows : r.num = s.num => r = s)
  <1>1. IInv => \A r, s \in rows : r.num = s.num => r = s
    <2> SUFFICES ASSUME IInv, NEW r \in rows, NEW s \in rows, r.num = s.num
                 PROVE  r = s
      OBVIOUS
    <2>1. r \in Row /\ s \in Row
      BY DEF IInv, TypeOK
    <2>2. r.id = s.id
      BY <2>1 DEF IInv, IdsFollowNumbers, Row
    <2>3. QED
      BY <2>1, <2>2 DEF Row
  <1>2. QED
    BY <1>1, Inductive, PTL

-----------------------------------------------------------------------------
(* The numbers in the book. *)
Issued == {r.num : r \in rows}

(* A committing transaction finds exactly 1 .. n-1 issued. *)
LEMMA IssuedBeforeCommit ==
  ASSUME IInv, NEW t \in Creators, pc[t] = "inserted"
  PROVE  Issued = 1 .. num[t] - 1
  <1>1. num[t] \in Nat \ {0} /\ \A m \in 1 .. num[t] - 1 : Taken(m)
    BY DEF IInv, Backed, HasNumber
  <1>2. ASSUME NEW r \in rows PROVE r.num \in 1 .. num[t] - 1
    BY <1>1, InsertedIsNext DEF IInv, TypeOK, Row
  <1>3. QED
    BY <1>1, <1>2 DEF Issued, Taken

(* The transactions implement the abstract book: a commit issues the next  *)
(* number and every other step leaves the book as it is.                   *)
THEOREM ImplementsBook == Spec => IssuesInOrder
  <1>1. Init => Book!Init
    BY DEF Init, Book!Init
  <1>2. IInv /\ [Next]_vars => [Book!Issue]_(Issued)
    <2> SUFFICES ASSUME IInv, Next
                 PROVE  Book!Issue \/ UNCHANGED Issued
      BY DEF vars, Issued
    <2>1. PICK t \in Creators : \/ NextInvoiceNumber(t) \/ Insert(t) \/ Wake(t)
                                \/ Commit(t) \/ Rollback(t)
      BY DEF Next
    <2>2. CASE Commit(t)
      <3>1. num[t] \in Nat \ {0} /\ Issued = 1 .. num[t] - 1
        BY <2>2, IssuedBeforeCommit DEF Commit, IInv, Backed, HasNumber
      <3>2. Issued' = Issued \cup {num[t]}
        <4> DEFINE new == [id |-> id[t], num |-> num[t]]
        <4>1. rows' = rows \cup {new} /\ new.num = num[t]
          BY <2>2 DEF Commit
        <4> HIDE DEF new
        <4>2. Issued' = {r.num : r \in rows \cup {new}}
          BY <4>1 DEF Issued
        <4>3. QED
          BY <4>1, <4>2 DEF Issued
      <3>3. num[t] \in Issued' /\ Issued' = 1 .. num[t]
        BY <3>1, <3>2
      <3>4. QED
        BY <3>1, <3>3 DEF Book!Issue, Issued
    <2>3. CASE ~ Commit(t)
      <3>1. rows' = rows
        BY <2>1, <2>3 DEF NextInvoiceNumber, Insert, Wake, Rollback
      <3>2. QED
        BY <3>1 DEF Issued
    <2>4. QED
      BY <2>2, <2>3
  <1>3. QED
    BY <1>1, <1>2, Inductive, PTL DEF Spec, IssuesInOrder, Book!Spec, Issued
=============================================================================
