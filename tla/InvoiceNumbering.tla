-------------------------- MODULE InvoiceNumbering --------------------------
(***************************************************************************)
(* How concurrent POST /invoices transactions number the invoices they     *)
(* insert.                                                                 *)
(*                                                                         *)
(* Every transaction runs under READ COMMITTED.  It reads the number of    *)
(* the committed invoice with the greatest id and adds one                 *)
(* (next_invoice_number), then inserts a row whose id comes from a         *)
(* PostgreSQL sequence - never rolled back - and whose number must be      *)
(* unique (the unique index on invoices.invoice_number).  An INSERT that   *)
(* meets an uncommitted row with its number waits for that row's           *)
(* transaction to end.  No lock is taken between the read and the INSERT   *)
(* and nothing is retried: the question is whether the book of committed   *)
(* invoices stays gapless and in order all the same.                       *)
(*                                                                         *)
(* Numbers are naturals: "INV-000007" is 7.  The six-digit format pads and *)
(* never truncates, so reading the suffix back returns the number.         *)
(***************************************************************************)
EXTENDS Naturals

CONSTANT Creators    (* the POST /invoices transactions, one request each  *)

VARIABLES rows,      (* committed invoices: a set of [id, num] records     *)
          nextId,    (* next value of the invoices id sequence             *)
          pc,        (* where each transaction is                          *)
          num,       (* the number each transaction computed (0 = none)    *)
          id         (* the id its INSERT drew from the sequence (0 = none)*)

vars == <<rows, nextId, pc, num, id>>

PC == {"begin", "numbered", "waiting", "inserted", "committed", "aborted"}

Row == [id : Nat \ {0}, num : Nat \ {0}]

TypeOK ==
  /\ rows \subseteq Row
  /\ nextId \in Nat \ {0}
  /\ pc \in [Creators -> PC]
  /\ num \in [Creators -> Nat]
  /\ id \in [Creators -> Nat]

-----------------------------------------------------------------------------
(* r is the row ORDER BY id DESC LIMIT 1 returns. *)
IsLast(r) == \A s \in rows : s.id <= r.id

(* The number is in the unique index, put there by a committed row. *)
Taken(n) == \E r \in rows : r.num = n

(* Fault: transactions that merely wait are taken for holders too. *)
HeldByAnyRival(t, n) ==
  \E u \in Creators \ {t} : pc[u] \in {"inserted", "waiting"} /\ num[u] = n

(* Another transaction holds an uncommitted index entry for n. *)
HeldByOther(t, n) == \E u \in Creators \ {t} : pc[u] = "inserted" /\ num[u] = n

(* Fault: the column has no unique index. *)
NoIndexVerdict(t, n) == "inserted"

(* What the unique index makes of t's entry for n: a committed duplicate   *)
(* fails the INSERT with an IntegrityError, which rolls t back; an         *)
(* uncommitted one blocks t; otherwise t's entry is in the index.          *)
IndexVerdict(t, n) ==
  IF Taken(n) THEN "aborted"
  ELSE IF HeldByOther(t, n) THEN "waiting" ELSE "inserted"

-----------------------------------------------------------------------------
Init ==
  /\ rows = {}
  /\ nextId = 1
  /\ pc = [t \in Creators |-> "begin"]
  /\ num = [t \in Creators |-> 0]
  /\ id = [t \in Creators |-> 0]

(* Fault: the number comes from the id sequence. *)
NumberFromSequence(t) ==
  /\ pc[t] = "begin"
  /\ pc' = [pc EXCEPT ![t] = "numbered"]
  /\ num' = [num EXCEPT ![t] = nextId]
  /\ nextId' = nextId + 1
  /\ UNCHANGED <<rows, id>>

(* The products, taxes, client and seller were found: read the last number. *)
NextInvoiceNumber(t) ==
  /\ pc[t] = "begin"
  /\ pc' = [pc EXCEPT ![t] = "numbered"]
  /\ \/ /\ rows = {}
        /\ num' = [num EXCEPT ![t] = 1]
     \/ \E r \in rows :
          /\ IsLast(r)
          /\ num' = [num EXCEPT ![t] = r.num + 1]
  /\ UNCHANGED <<rows, nextId, id>>

(* Fault: instead of waiting for the holder of its number, an INSERT moves *)
(* on to the next number.                                                  *)
InsertSkippingHeld(t) ==
  /\ pc[t] = "numbered"
  /\ id' = [id EXCEPT ![t] = nextId]
  /\ nextId' = nextId + 1
  /\ LET n == IF HeldByOther(t, num[t]) THEN num[t] + 1 ELSE num[t]
     IN  /\ num' = [num EXCEPT ![t] = n]
         /\ pc' = [pc EXCEPT ![t] = IndexVerdict(t, n)]
  /\ UNCHANGED rows

(* INSERT INTO invoices: nextval() is evaluated first, then the index. *)
Insert(t) ==
  /\ pc[t] = "numbered"
  /\ id' = [id EXCEPT ![t] = nextId]
  /\ nextId' = nextId + 1
  /\ pc' = [pc EXCEPT ![t] = IndexVerdict(t, num[t])]
  /\ UNCHANGED <<rows, num>>

(* The transaction t waited for has ended: the index is looked at again. *)
Wake(t) ==
  /\ pc[t] = "waiting"
  /\ ~ HeldByOther(t, num[t])
  /\ pc' = [pc EXCEPT ![t] = IndexVerdict(t, num[t])]
  /\ UNCHANGED <<rows, nextId, num, id>>

(* Details, access key and XML are written; the unit of work commits. *)
Commit(t) ==
  /\ pc[t] = "inserted"
  /\ rows' = rows \cup {[id |-> id[t], num |-> num[t]]}
  /\ pc' = [pc EXCEPT ![t] = "committed"]
  /\ UNCHANGED <<nextId, num, id>>

(* A business error, a lost connection or a crash before the commit.  The  *)
(* id drawn from the sequence is not given back.                           *)
Rollback(t) ==
  /\ pc[t] \in {"begin", "numbered", "waiting", "inserted"}
  /\ pc' = [pc EXCEPT ![t] = "aborted"]
  /\ UNCHANGED <<rows, nextId, num, id>>

Next == \E t \in Creators :
          \/ NextInvoiceNumber(t)
          \/ Insert(t)
          \/ Wake(t)
          \/ Commit(t)
          \/ Rollback(t)

(* The server finishes what it started; a rollback is never owed.          *)
Progress(t) == NextInvoiceNumber(t) \/ Insert(t) \/ Wake(t) \/ Commit(t)

Spec == Init /\ [][Next]_vars

FairSpec == Spec /\ \A t \in Creators : WF_vars(Progress(t))

-----------------------------------------------------------------------------
(* The book has no holes: a committed invoice numbered n has committed     *)
(* predecessors 1 .. n-1, whatever was rolled back in between.             *)
Gapless == \A r \in rows : \A m \in 1 .. r.num : \E s \in rows : s.num = m

(* Ids and numbers grow together.  next_invoice_number relies on it: it    *)
(* takes the row with the greatest id for the one with the greatest        *)
(* number, while an id is drawn from the sequence long after the number    *)
(* was computed.  It also makes numbers unique.                            *)
IdsFollowNumbers == \A r, s \in rows : r.id < s.id <=> r.num < s.num

(* With fair scheduling every POST ends: waiting on the unique index is    *)
(* never circular, because a transaction that holds an entry waits for     *)
(* nothing.                                                                *)
EveryCreateEnds == \A t \in Creators : <>(pc[t] \in {"committed", "aborted"})

-----------------------------------------------------------------------------
Book == INSTANCE NumberBook WITH issued <- {r.num : r \in rows}

(* Readers of the table see a book that is issued one number at a time, in *)
(* order, and from which nothing ever disappears, however the creating     *)
(* transactions interleave, wait for each other and roll back.             *)
IssuesInOrder == Book!Spec
=============================================================================
