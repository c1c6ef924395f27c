---------------------------- MODULE InvoiceEvents ----------------------------
(***************************************************************************)
(* How an invoice gets decided: the events POST /invoices and the          *)
(* consumer exchange through the broker, the ledger of processed events,   *)
(* the two-second timers, and the failures in between.                     *)
(*                                                                         *)
(* A POST publishes invoice.created and arms a timer, both BEFORE its      *)
(* transaction commits.  A consumer in every worker process takes messages *)
(* from one queue; for each it looks the event id up in the ledger, writes *)
(* it there in a transaction of its own, and only then acts: it sleeps two *)
(* seconds and publishes invoice.validated, or decides the invoice.  The   *)
(* message is acknowledged last; one whose handler raises is discarded (no *)
(* queue names the dead-letter exchange).                                  *)
(*                                                                         *)
(* A decision is one indivisible transaction here: how its statements      *)
(* interleave with others is the subject of InvoiceStock.  External: the   *)
(* broker (a queue that redelivers what a closed channel left unconfirmed) *)
(* and the validator service.                                              *)
(***************************************************************************)
EXTENDS Naturals, FiniteSets

CONSTANTS Invoices, Workers,
          Prefetch,     (* deliveries a worker handles at a time            *)
          MaxCrashes,   (* budgets, to keep the state space finite: worker  *)
          MaxLosses,    (* crashes, lost broker connections, and            *)
          MaxFailures   (* exceptions or refused connections                *)

ASSUME Budgets ==
  /\ IsFiniteSet(Workers)
  /\ Prefetch \in Nat \ {0}
  /\ MaxCrashes \in Nat /\ MaxLosses \in Nat /\ MaxFailures \in Nat

VARIABLES post,         (* each invoice's POST: none, sent, committed, rolledback *)
          home,         (* the worker that serves it                        *)
          status,       (* the committed status                             *)
          timer,        (* the worker's call_later: is it still to fire     *)
          validator,    (* external: has it been asked, has it answered     *)
          published,    (* every message the broker ever accepted           *)
          ready,        (* messages in the queue                            *)
          deliveries,   (* messages being handled                           *)
          ledger,       (* processed_events                                 *)
          dropped,      (* messages the broker discarded                    *)
          acted,        (* per message, how often its handler acted         *)
          listening,    (* the workers whose consumer runs                  *)
          crashes, losses, failures

requestVars == <<post, home, timer>>
brokerVars == <<published, ready, dropped, validator>>
consumerVars == <<deliveries, ledger, acted>>
faultVars == <<listening, crashes, losses, failures>>
vars == <<requestVars, status, brokerVars, consumerVars, faultVars>>

(* Messages.  Every publish draws a fresh event id, so the bypass's        *)
(* messages are told apart by the delivery that published them.            *)
Message(type, i, by, n) == [type |-> type, inv |-> i, by |-> by, n |-> n]
Created(i) == Message("created", i, "sys_api", 0)
Bypass(i, n) == Message("validated", i, "bypass", n)
Verdict(i, type) == Message(type, i, "validator", 0)

Messages ==
  {Created(i) : i \in Invoices} \cup {Bypass(i, n) : i \in Invoices, n \in 0 .. MaxLosses}
  \cup {Verdict(i, t) : i \in Invoices, t \in {"validated", "rejected"}}

(* _on_validated, _on_rejected, _auto_confirm_invoice: an invoice that is  *)
(* not there (yet) or no longer pending is left alone.                     *)
Decide(i, s) ==
  status' = IF status[i] = "PENDING_VALIDATION" THEN [status EXCEPT ![i] = s] ELSE status

(* An exception, a connection refused: one failure of the budget. *)
Fail == failures < MaxFailures /\ failures' = failures + 1
Raise == Fail /\ UNCHANGED <<listening, crashes, losses>>

-----------------------------------------------------------------------------
Init ==
  /\ post = [i \in Invoices |-> "none"]
  /\ home \in [Invoices -> Workers]
  /\ status = [i \in Invoices |-> "NONE"]
  /\ timer = [i \in Invoices |-> FALSE]
  /\ validator = [i \in Invoices |-> "idle"]
  /\ published = {} /\ ready = {} /\ dropped = {}
  /\ deliveries = {} /\ ledger = {}
  /\ acted = [m \in Messages |-> 0]
  /\ crashes = 0 /\ losses = 0
  /\ listening \in SUBSET Workers
  /\ failures = Cardinality(Workers \ listening) /\ failures <= MaxFailures

(* POST /invoices, everything written and flushed: publish - an exception  *)
(* is swallowed - and arm the timer.  The transaction is still open.       *)
Announce(i) ==
  /\ post[i] = "none"
  /\ post' = [post EXCEPT ![i] = "sent"]
  /\ timer' = [timer EXCEPT ![i] = TRUE]
  /\ \/ /\ published' = published \cup {Created(i)}
        /\ ready' = ready \cup {Created(i)}
        /\ validator' = [validator EXCEPT ![i] = "asked"]
        /\ UNCHANGED faultVars
     \/ Raise /\ UNCHANGED <<published, ready, validator>>
  /\ UNCHANGED <<home, status, dropped, consumerVars>>

(* The unit of work ends: commit, or rollback if the commit fails. *)
EndPost(i) ==
  /\ post[i] = "sent"
  /\ \/ /\ post' = [post EXCEPT ![i] = "committed"]
        /\ status' = [status EXCEPT ![i] = "PENDING_VALIDATION"]
     \/ post' = [post EXCEPT ![i] = "rolledback"] /\ UNCHANGED status
  /\ UNCHANGED <<home, timer, brokerVars, consumerVars, faultVars>>

(* _auto_confirm_invoice; its exceptions are swallowed. *)
TimerFires(i) ==
  /\ timer[i]
  /\ timer' = [timer EXCEPT ![i] = FALSE]
  /\ \/ Decide(i, "CONFIRMED") /\ UNCHANGED faultVars
     \/ Raise /\ UNCHANGED status
  /\ UNCHANGED <<post, home, brokerVars, consumerVars>>

(* External: sys_invoice_check may answer invoice.created, either way. *)
ValidatorAnswers(i) ==
  /\ validator[i] = "asked"
  /\ validator' = [validator EXCEPT ![i] = "answered"]
  /\ \E t \in {"validated", "rejected"} :
       /\ published' = published \cup {Verdict(i, t)}
       /\ ready' = ready \cup {Verdict(i, t)}
  /\ UNCHANGED <<dropped, requestVars, status, consumerVars, faultVars>>

-----------------------------------------------------------------------------
(* A delivery: its message, the worker handling it, how far it is, the     *)
(* connection losses before it (a message is delivered again only after    *)
(* its worker died or lost the connection), and whether the broker still   *)
(* waits for its acknowledgement.                                          *)
HeldBy(w) == {d \in deliveries : d.on = w /\ d.held}

(* The broker hands a message to a listening worker. *)
Receive(w, m) ==
  /\ w \in listening /\ m \in ready
  /\ Cardinality(HeldBy(w)) < Prefetch
  /\ ready' = ready \ {m}
  /\ deliveries' = deliveries \cup
       {[msg |-> m, on |-> w, at |-> "check", try |-> losses, held |-> TRUE]}
  /\ UNCHANGED <<published, dropped, validator, ledger, acted, requestVars, status, faultVars>>

GoesTo(d, at) == deliveries' = (deliveries \ {d}) \cup {[d EXCEPT !.at = at]}

(* The handler is done; the broker forgets the message. *)
Settle(d) == deliveries' = deliveries \ {d}

(* The handler raised: reject without requeue. *)
Discard(d) ==
  /\ Settle(d)
  /\ dropped' = IF d.held THEN dropped \cup {d.msg} ELSE dropped

(* Fault: the ledger is written but never consulted. *)
CheckNothing(d) ==
  /\ d.at = "check"
  /\ GoesTo(d, "mark")
  /\ UNCHANGED <<brokerVars, ledger, acted, requestVars, status, faultVars>>

(* Fault: a duplicate is put back into the queue. *)
CheckLedgerRequeuing(d) ==
  /\ d.at = "check"
  /\ IF d.msg \in ledger
     THEN Settle(d) /\ ready' = ready \cup {d.msg}
     ELSE GoesTo(d, "mark") /\ UNCHANGED ready
  /\ UNCHANGED <<published, dropped, validator, ledger, acted, requestVars, status, faultVars>>

(* has_processed *)
CheckLedger(d) ==
  /\ d.at = "check"
  /\ IF d.msg \in ledger THEN Settle(d) ELSE GoesTo(d, "mark")
  /\ UNCHANGED <<brokerVars, ledger, acted, requestVars, status, faultVars>>

(* mark_processed (ON CONFLICT DO NOTHING) and its commit. *)
Mark(d) ==
  /\ d.at = "mark"
  /\ \/ /\ ledger' = ledger \cup {d.msg}
        /\ GoesTo(d, "act")
        /\ UNCHANGED <<dropped, faultVars>>
     \/ Raise /\ Discard(d) /\ UNCHANGED ledger
  /\ UNCHANGED <<published, ready, validator, acted, requestVars, status>>

(* Fault: the verdict is left to the validator. *)
PublishNothing(d) ==
  /\ d.msg.type = "created"
  /\ UNCHANGED <<published, ready, status>>

(* invoice.created: two seconds later, which the POST's transaction may    *)
(* outlast, publish invoice.validated.                                     *)
PublishValidated(d) ==
  /\ d.msg.type = "created"
  /\ published' = published \cup {Bypass(d.msg.inv, d.try)}
  /\ ready' = ready \cup {Bypass(d.msg.inv, d.try)}
  /\ UNCHANGED status

(* invoice.validated, invoice.rejected: decide. *)
ActOnVerdict(d) ==
  /\ \/ d.msg.type = "validated" /\ Decide(d.msg.inv, "CONFIRMED")
     \/ d.msg.type = "rejected" /\ Decide(d.msg.inv, "REJECTED")
  /\ UNCHANGED <<published, ready>>

Act(d) ==
  /\ d.at = "act"
  /\ \/ /\ PublishValidated(d) \/ ActOnVerdict(d)
        /\ GoesTo(d, "ack")
        /\ acted' = [acted EXCEPT ![d.msg] = @ + 1]
        /\ UNCHANGED <<dropped, faultVars>>
     \/ Raise /\ Discard(d) /\ UNCHANGED <<published, ready, acted, status>>
  /\ UNCHANGED <<validator, ledger, requestVars>>

Ack(d) ==
  /\ d.at = "ack"
  /\ Settle(d)
  /\ UNCHANGED <<brokerVars, ledger, acted, requestVars, status, faultVars>>

-----------------------------------------------------------------------------
(* main.py's lifespan: connect and start the consumer; without the broker  *)
(* the process serves requests and consumes nothing.                       *)
Restart(w) == \/ listening' = listening \cup {w} /\ UNCHANGED failures
              \/ listening' = listening \ {w} /\ Fail

(* Fault: messages are taken off the queue for good when delivered. *)
CrashAutoAcked(w) ==
  /\ crashes < MaxCrashes /\ crashes' = crashes + 1
  /\ deliveries' = {d \in deliveries : d.on # w}
  /\ post' = [i \in Invoices |-> IF post[i] = "sent" /\ home[i] = w THEN "rolledback" ELSE post[i]]
  /\ timer' = [i \in Invoices |-> timer[i] /\ home[i] # w]
  /\ UNCHANGED <<home, ready, published, dropped, validator, ledger, acted, status, losses>>
  /\ Restart(w)

(* A worker process dies or is stopped and comes back: its handlers, its   *)
(* timers and its open transactions are gone, what it had not acknowledged *)
(* returns to the queue.                                                   *)
Crash(w) ==
  /\ crashes < MaxCrashes /\ crashes' = crashes + 1
  /\ deliveries' = {d \in deliveries : d.on # w}
  /\ ready' = ready \cup {d.msg : d \in HeldBy(w)}
  /\ post' = [i \in Invoices |-> IF post[i] = "sent" /\ home[i] = w THEN "rolledback" ELSE post[i]]
  /\ timer' = [i \in Invoices |-> timer[i] /\ home[i] # w]
  /\ UNCHANGED <<home, published, dropped, validator, ledger, acted, status, losses>>
  /\ Restart(w)

(* A worker's connection to the broker breaks and is restored: the broker  *)
(* requeues, the handlers keep running.                                    *)
LoseConnection(w) ==
  /\ losses < MaxLosses /\ losses' = losses + 1
  /\ HeldBy(w) # {}
  /\ ready' = ready \cup {d.msg : d \in HeldBy(w)}
  /\ deliveries' = {IF d.on = w THEN [d EXCEPT !.held = FALSE] ELSE d : d \in deliveries}
  /\ UNCHANGED <<published, dropped, validator, ledger, acted, requestVars, status,
                 listening, crashes, failures>>

Handle == \E d \in deliveries : CheckLedger(d) \/ Mark(d) \/ Act(d) \/ Ack(d)
Deliver == \E w \in Workers, m \in Messages : Receive(w, m)

Next ==
  \/ \E i \in Invoices : Announce(i) \/ EndPost(i) \/ TimerFires(i) \/ ValidatorAnswers(i)
  \/ Deliver \/ Handle
  \/ \E w \in Workers : Crash(w) \/ LoseConnection(w)

Spec == Init /\ [][Next]_vars

(* The event loop runs what is ready and the broker delivers; nobody owes  *)
(* a request, a verdict or a failure.                                      *)
FairSpec ==
  /\ Spec
  /\ WF_vars(Deliver) /\ WF_vars(Handle)
  /\ \A i \in Invoices : WF_vars(EndPost(i)) /\ WF_vars(TimerFires(i))

-----------------------------------------------------------------------------
Delivery == [msg : Messages, on : Workers, at : {"check", "mark", "act", "ack"},
             try : 0 .. MaxLosses, held : BOOLEAN]

TypeOK ==
  /\ post \in [Invoices -> {"none", "sent", "committed", "rolledback"}]
  /\ home \in [Invoices -> Workers]
  /\ status \in [Invoices -> {"NONE", "PENDING_VALIDATION", "CONFIRMED", "REJECTED"}]
  /\ timer \in [Invoices -> BOOLEAN]
  /\ validator \in [Invoices -> {"idle", "asked", "answered"}]
  /\ published \subseteq Messages /\ ready \subseteq Messages
  /\ deliveries \subseteq Delivery
  /\ ledger \subseteq Messages /\ dropped \subseteq Messages
  /\ acted \in [Messages -> Nat]
  /\ listening \subseteq Workers
  /\ crashes \in 0 .. MaxCrashes /\ losses \in 0 .. MaxLosses /\ failures \in 0 .. MaxFailures

(* No message disappears unnoticed: what was published is in the queue,    *)
(* in the hands of a handler that has yet to answer for it, written in the *)
(* ledger, or was discarded after an exception - whatever crashed or lost  *)
(* its connection in between.                                              *)
AccountedFor ==
  \A m \in published : \/ m \in ready \cup ledger \cup dropped
                       \/ \E d \in deliveries : d.held /\ d.msg = m

(* The ledger should make a handler act once per event, however often it   *)
(* is redelivered.  Its look-up and its entry are apart, but a handler     *)
(* that crashes never makes a second one act; only a lost connection,      *)
(* which leaves the first one running, can, and each at most once.         *)
ActedOncePerLoss == \A m \in Messages : acted[m] <= 1 + losses

(* Timer and bypass, which look for an invoice after two seconds, make up  *)
(* for each other: unless a worker crashes again, a committed invoice is   *)
(* decided if more of them have yet to look than exceptions are to come.   *)
(* A bypass is to come only where a worker listens: if none found the      *)
(* broker when it started (main.py), the message waits for a restart.  An  *)
(* invoice committed after both have looked is never looked for again.     *)
BypassToCome(i) ==
  \/ listening # {} /\ Created(i) \in published \ (ledger \cup dropped)
  \/ \E d \in deliveries : d.msg = Created(i) /\ d.at \in {"mark", "act"}
ChancesLeft(i) == (IF timer[i] THEN 1 ELSE 0) + (IF BypassToCome(i) THEN 1 ELSE 0)
DecidedWhileChancesLast ==
  \A i \in Invoices, n \in 0 .. MaxCrashes :
    post[i] = "committed" /\ crashes = n /\ ChancesLeft(i) > MaxFailures - failures
      ~> status[i] \in {"CONFIRMED", "REJECTED"} \/ crashes > n

(* Where a worker listens the queue drains: redeliveries and messages      *)
(* about invoices that never were are settled, none circulates for ever    *)
(* and none is left behind another.  Where none does, every handler still  *)
(* ends, and only what is in the queue waits for a restart.                *)
QueueDrains == <>[](deliveries = {} /\ (ready = {} \/ listening = {}))
=============================================================================
