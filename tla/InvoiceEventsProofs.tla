------------------------ MODULE InvoiceEventsProofs ------------------------
(***************************************************************************)
(* Proofs about InvoiceEvents, for any number of invoices, workers and     *)
(* failures.                                                               *)
(*                                                                         *)
(* AccountedFor is not inductive: a handler that acknowledges takes its    *)
(* message out of the broker's hands, and nothing in AccountedFor says     *)
(* that the ledger has it by then.  MarkedFirst does.                      *)
(***************************************************************************)
EXTENDS InvoiceEvents, FiniteSetTheorems, TLAPS

(* A handler that acts, or is to acknowledge, has marked its message. *)
MarkedFirst == \A d \in deliveries : d.at \in {"act", "ack"} => d.msg \in ledger

(* Deliveries are records with these fields. *)
Shape(d) == d = [msg |-> d.msg, on |-> d.on, at |-> d.at, try |-> d.try, held |-> d.held]
Shaped == \A d \in deliveries : Shape(d)

Held(m) == \E d \in deliveries : d.held /\ d.msg = m

EInv == Shaped /\ MarkedFirst /\ AccountedFor

-----------------------------------------------------------------------------
LEMMA InitEInv == Init => EInv
  BY DEF Init, EInv, Shaped, MarkedFirst, AccountedFor

(* What moving a delivery on does to it and to the others. *)
LEMMA MovedOn ==
  ASSUME NEW d, Shape(d), NEW at
  PROVE  LET e == [d EXCEPT !.at = at]
         IN  Shape(e) /\ e.msg = d.msg /\ e.at = at /\ e.held = d.held
  BY DEF Shape

LEMMA LetGo ==
  ASSUME NEW d, Shape(d), NEW h
  PROVE  LET e == [d EXCEPT !.held = h]
         IN  Shape(e) /\ e.msg = d.msg /\ e.at = d.at
  BY DEF Shape

(* Steps that publish or put back, and leave handlers and ledger alone. *)
LEMMA QueueStep ==
  ASSUME EInv, UNCHANGED <<deliveries, ledger, dropped>>,
         ready \subseteq ready', published' \subseteq published \cup ready'
  PROVE  EInv'
  BY DEF EInv, Shaped, MarkedFirst, AccountedFor

LEMMA ReceiveStep ==
  ASSUME EInv, NEW w \in Workers, NEW m \in Messages, Receive(w, m)
  PROVE  EInv'
  <1> DEFINE e == [msg |-> m, on |-> w, at |-> "check", try |-> losses, held |-> TRUE]
  <1>1. /\ deliveries' = deliveries \cup {e} /\ ready' = ready \ {m}
        /\ UNCHANGED <<published, ledger, dropped>>
    BY DEF Receive
  <1>2. Shape(e) /\ e.msg = m /\ e.at = "check" /\ e.held
    BY DEF Shape
  <1> HIDE DEF e
  <1>3. Shaped' /\ MarkedFirst'
    BY <1>1, <1>2 DEF EInv, Shaped, MarkedFirst
  <1>4. AccountedFor'
    BY <1>1, <1>2 DEF EInv, AccountedFor
  <1>5. QED
    BY <1>3, <1>4 DEF EInv

(* A handler moves on, the ledger and the queue only grow.  *)
LEMMA GoOnStep ==
  ASSUME EInv, NEW d \in deliveries, NEW at, GoesTo(d, at),
         at \in {"act", "ack"} => d.msg \in ledger',
         ledger \subseteq ledger', ready \subseteq ready', dropped' = dropped,
         published' \subseteq published \cup ready'
  PROVE  EInv'
  <1> DEFINE e == [d EXCEPT !.at = at]
  <1>1. deliveries' = (deliveries \ {d}) \cup {e}
    BY DEF GoesTo
  <1>2. Shape(e) /\ e.msg = d.msg /\ e.at = at /\ e.held = d.held
    BY MovedOn DEF EInv, Shaped
  <1> HIDE DEF e
  <1>3. Shaped' /\ MarkedFirst'
    BY <1>1, <1>2 DEF EInv, Shaped, MarkedFirst
  <1>4. AccountedFor'
    <2> SUFFICES ASSUME NEW m \in published'
                 PROVE  \/ m \in ready' \cup ledger' \cup dropped'
                        \/ \E u \in deliveries' : u.held /\ u.msg = m
      BY DEF AccountedFor
    <2>1. CASE m \in ready \cup ledger \cup dropped \/ m \in ready'
      BY <2>1
    <2>2. CASE \E u \in deliveries : u.held /\ u.msg = m
      <3>1. PICK u \in deliveries : u.held /\ u.msg = m
        BY <2>2
      <3>2. CASE u = d
        BY <1>1, <1>2, <3>1, <3>2
      <3>3. CASE u # d
        BY <1>1, <3>1, <3>3
      <3>4. QED
        BY <3>2, <3>3
    <2>3. QED
      BY <2>1, <2>2 DEF EInv, AccountedFor
  <1>5. QED
    BY <1>3, <1>4 DEF EInv

(* A handler ends: its message is in the ledger or was discarded. *)
LEMMA SettleStep ==
  ASSUME EInv, NEW d \in deliveries, Settle(d),
         d.held => d.msg \in ledger \cup dropped',
         UNCHANGED <<published, ready, ledger>>, dropped \subseteq dropped'
  PROVE  EInv'
  <1>1. Shaped' /\ MarkedFirst'
    BY DEF Settle, EInv, Shaped, MarkedFirst
  <1>2. AccountedFor'
    BY DEF Settle, EInv, AccountedFor
  <1>3. QED
    BY <1>1, <1>2 DEF EInv

LEMMA HandleStep ==
  ASSUME EInv, NEW d \in deliveries, CheckLedger(d) \/ Mark(d) \/ Act(d) \/ Ack(d)
  PROVE  EInv'
  <1>1. ASSUME Discard(d), UNCHANGED <<published, ready, ledger>> PROVE EInv'
    BY <1>1, SettleStep DEF Discard
  <1>2. CASE CheckLedger(d)
    <2>1. CASE d.msg \in ledger
      BY <1>2, <2>1, SettleStep DEF CheckLedger, brokerVars
    <2>2. CASE d.msg \notin ledger
      BY <1>2, <2>2, GoOnStep DEF CheckLedger, brokerVars
    <2>3. QED
      BY <2>1, <2>2
  <1>3. CASE Mark(d)
    BY <1>1, <1>3, GoOnStep DEF Mark
  <1>4. CASE Act(d)
    <2>1. d.msg \in ledger
      BY <1>4 DEF Act, EInv, MarkedFirst
    <2>2. CASE Discard(d) /\ UNCHANGED <<published, ready>>
      BY <1>1, <1>4, <2>2 DEF Act
    <2>3. CASE (PublishValidated(d) \/ ActOnVerdict(d)) /\ GoesTo(d, "ack") /\ UNCHANGED dropped
      BY <1>4, <2>1, <2>3, GoOnStep DEF Act, PublishValidated, ActOnVerdict
    <2>4. QED
      BY <1>4, <2>2, <2>3 DEF Act
  <1>5. CASE Ack(d)
    <2>1. d.msg \in ledger
      BY <1>5 DEF Ack, EInv, MarkedFirst
    <2>2. QED
      BY <1>5, <2>1, SettleStep DEF Ack, brokerVars
  <1>6. QED
    BY <1>2, <1>3, <1>4, <1>5

LEMMA CrashStep == ASSUME EInv, NEW w \in Workers, Crash(w) PROVE EInv'
  <1>1. /\ deliveries' = {d \in deliveries : d.on # w}
        /\ ready' = ready \cup {d.msg : d \in HeldBy(w)}
        /\ UNCHANGED <<published, ledger, dropped>>
    BY DEF Crash
  <1>2. Shaped' /\ MarkedFirst'
    BY <1>1 DEF EInv, Shaped, MarkedFirst
  <1>3. AccountedFor'
    BY <1>1 DEF EInv, AccountedFor, HeldBy
  <1>4. QED
    BY <1>2, <1>3 DEF EInv

LEMMA LoseConnectionStep ==
  ASSUME EInv, NEW w \in Workers, LoseConnection(w) PROVE EInv'
  <1> DEFINE after(d) == IF d.on = w THEN [d EXCEPT !.held = FALSE] ELSE d
  <1>1. /\ deliveries' = {after(d) : d \in deliveries}
        /\ ready' = ready \cup {d.msg : d \in HeldBy(w)}
        /\ UNCHANGED <<published, ledger, dropped>>
    BY DEF LoseConnection
  <1>2. ASSUME NEW d \in deliveries
        PROVE  Shape(after(d)) /\ after(d).msg = d.msg /\ after(d).at = d.at
    BY LetGo DEF EInv, Shaped
  <1>3. ASSUME NEW d \in deliveries, d.on # w PROVE after(d) = d
    BY <1>3
  <1> HIDE DEF after
  <1>4. Shaped' /\ MarkedFirst'
    BY <1>1, <1>2 DEF EInv, Shaped, MarkedFirst
  <1>5. AccountedFor'
    BY <1>1, <1>2, <1>3 DEF EInv, AccountedFor, HeldBy
  <1>6. QED
    BY <1>4, <1>5 DEF EInv

LEMMA StepEInv == EInv /\ [Next]_vars => EInv'
  <1> SUFFICES ASSUME EInv, [Next]_vars PROVE EInv'
    OBVIOUS
  <1>1. ASSUME NEW i \in Invoices, Announce(i) PROVE EInv'
    BY <1>1, QueueStep DEF Announce, consumerVars
  <1>2. ASSUME NEW i \in Invoices, EndPost(i) \/ TimerFires(i) PROVE EInv'
    BY <1>2, QueueStep DEF EndPost, TimerFires, brokerVars, consumerVars
  <1>3. ASSUME NEW i \in Invoices, ValidatorAnswers(i) PROVE EInv'
    BY <1>3, QueueStep DEF ValidatorAnswers, consumerVars
  <1>4. CASE Deliver
    BY <1>4, ReceiveStep DEF Deliver
  <1>5. CASE Handle
    BY <1>5, HandleStep DEF Handle
  <1>6. CASE UNCHANGED vars
    BY <1>6, QueueStep DEF vars, brokerVars, consumerVars
  <1>7. QED
    BY <1>1, <1>2, <1>3, <1>4, <1>5, <1>6, CrashStep, LoseConnectionStep DEF Next

(* No published message ever disappears unnoticed, through any number of   *)
(* crashes, lost connections and exceptions.                               *)
THEOREM NothingLost == Spec => []AccountedFor
  <1>1. EInv => AccountedFor
    BY DEF EInv
  <1>2. QED
    BY <1>1, InitEInv, StepEInv, PTL DEF Spec

-----------------------------------------------------------------------------
(* Types.  A delivery that moves keeps its fields' types.                  *)
LEMMA InitTypes == Init => TypeOK
  <1> SUFFICES ASSUME Init PROVE TypeOK
    OBVIOUS
  <1>1. failures \in 0 .. MaxFailures
    <2>1. IsFiniteSet(Workers \ listening)
      BY Budgets, FS_Subset
    <2>2. failures \in Nat
      BY <2>1, FS_CardinalityType DEF Init
    <2>3. QED
      BY <2>2, Budgets DEF Init
  <1>2. QED
    BY <1>1, Budgets DEF Init, TypeOK

LEMMA MessageTypes ==
  /\ \A i \in Invoices : Created(i) \in Messages
  /\ \A i \in Invoices, n \in 0 .. MaxLosses : Bypass(i, n) \in Messages
  /\ \A i \in Invoices, t \in {"validated", "rejected"} : Verdict(i, t) \in Messages
  /\ \A m \in Messages : m.inv \in Invoices
  <1>1. /\ \A i \in Invoices : Created(i) \in Messages
        /\ \A i \in Invoices, n \in 0 .. MaxLosses : Bypass(i, n) \in Messages
        /\ \A i \in Invoices, t \in {"validated", "rejected"} : Verdict(i, t) \in Messages
    BY DEF Messages
  <1>2. \A i, n, t : Created(i).inv = i /\ Bypass(i, n).inv = i /\ Verdict(i, t).inv = i
    BY DEF Created, Bypass, Verdict, Message
  <1>3. ASSUME NEW m \in Messages PROVE m.inv \in Invoices
    BY <1>2 DEF Messages
  <1>4. QED
    BY <1>1, <1>3

LEMMA DecideTypes ==
  ASSUME TypeOK, NEW i \in Invoices, NEW s \in {"CONFIRMED", "REJECTED"}, Decide(i, s)
  PROVE  status' \in [Invoices -> {"NONE", "PENDING_VALIDATION", "CONFIRMED", "REJECTED"}]
  BY DEF TypeOK, Decide

LEMMA FailTypes ==
  ASSUME TypeOK
  PROVE  /\ Raise => /\ failures' \in 0 .. MaxFailures /\ listening' \subseteq Workers
                      /\ crashes' \in 0 .. MaxCrashes /\ losses' \in 0 .. MaxLosses
         /\ \A w \in Workers : Restart(w) => /\ failures' \in 0 .. MaxFailures
                                             /\ listening' \subseteq Workers
  BY Budgets DEF TypeOK, Raise, Fail, Restart

LEMMA GoesToTypes ==
  ASSUME deliveries \subseteq Delivery, NEW d \in deliveries
  PROVE  /\ Settle(d) \/ Discard(d) => deliveries' \subseteq Delivery
         /\ \A at \in {"check", "mark", "act", "ack"} : GoesTo(d, at) => deliveries' \subseteq Delivery
  BY DEF Delivery, Settle, Discard, GoesTo

LEMMA RequestTypes ==
  ASSUME TypeOK, NEW i \in Invoices,
         Announce(i) \/ EndPost(i) \/ TimerFires(i) \/ ValidatorAnswers(i)
  PROVE  TypeOK'
  <1>1. CASE Announce(i)
    BY <1>1, MessageTypes, FailTypes DEF Announce, TypeOK, faultVars, consumerVars
  <1>2. CASE EndPost(i)
    BY <1>2 DEF EndPost, TypeOK, faultVars, brokerVars, consumerVars
  <1>3. CASE TimerFires(i)
    BY <1>3, DecideTypes, FailTypes DEF TimerFires, TypeOK, faultVars, brokerVars, consumerVars
  <1>4. CASE ValidatorAnswers(i)
    BY <1>4, MessageTypes DEF ValidatorAnswers, TypeOK, faultVars, requestVars, consumerVars
  <1>5. QED
    BY <1>1, <1>2, <1>3, <1>4

LEMMA ReceiveTypes ==
  ASSUME TypeOK, NEW w \in Workers, NEW m \in Messages, Receive(w, m)
  PROVE  TypeOK'
  <1> DEFINE e == [msg |-> m, on |-> w, at |-> "check", try |-> losses, held |-> TRUE]
  <1>1. e \in Delivery /\ deliveries' = deliveries \cup {e}
    BY DEF Receive, TypeOK, Delivery
  <1> HIDE DEF e
  <1>2. QED
    BY <1>1 DEF Receive, TypeOK, faultVars, requestVars

LEMMA HandleTypes ==
  ASSUME TypeOK, NEW d \in deliveries, CheckLedger(d) \/ Mark(d) \/ Act(d) \/ Ack(d)
  PROVE  TypeOK'
  <1>1. d.msg \in Messages /\ d.try \in 0 .. MaxLosses /\ deliveries \subseteq Delivery
    BY DEF TypeOK, Delivery
  <1>2. CASE CheckLedger(d)
    BY <1>1, <1>2, GoesToTypes
    DEF CheckLedger, TypeOK, brokerVars, requestVars, faultVars
  <1>3. CASE Mark(d)
    BY <1>1, <1>3, GoesToTypes, FailTypes DEF Mark, Discard, TypeOK, requestVars, faultVars
  <1>4. CASE Act(d)
    <2>1. deliveries' \subseteq Delivery /\ dropped' \subseteq Messages
      BY <1>1, <1>4, GoesToTypes DEF Act, Discard, TypeOK
    <2>2. published' \subseteq Messages /\ ready' \subseteq Messages
      BY <1>1, <1>4, MessageTypes DEF Act, PublishValidated, ActOnVerdict, TypeOK
    <2>3. status' \in [Invoices -> {"NONE", "PENDING_VALIDATION", "CONFIRMED", "REJECTED"}]
      BY <1>1, <1>4, MessageTypes, DecideTypes DEF Act, PublishValidated, ActOnVerdict, TypeOK
    <2>4. acted' \in [Messages -> Nat]
      BY <1>1, <1>4 DEF Act, TypeOK
    <2>5. /\ listening' \subseteq Workers /\ failures' \in 0 .. MaxFailures
          /\ crashes' \in 0 .. MaxCrashes /\ losses' \in 0 .. MaxLosses
      BY <1>4, FailTypes DEF Act, TypeOK, faultVars
    <2>6. QED
      BY <1>4, <2>1, <2>2, <2>3, <2>4, <2>5 DEF Act, TypeOK, requestVars
  <1>5. CASE Ack(d)
    BY <1>1, <1>5, GoesToTypes DEF Ack, TypeOK, brokerVars, requestVars, faultVars
  <1>6. QED
    BY <1>2, <1>3, <1>4, <1>5

LEMMA FaultTypes ==
  ASSUME TypeOK, NEW w \in Workers, Crash(w) \/ LoseConnection(w)
  PROVE  TypeOK'
  <1>1. {d.msg : d \in HeldBy(w)} \subseteq Messages
    BY DEF HeldBy, TypeOK, Delivery
  <1>2. CASE Crash(w)
    BY <1>1, <1>2, FailTypes, Budgets DEF Crash, TypeOK
  <1>3. CASE LoseConnection(w)
    <2>1. \A d \in deliveries : [d EXCEPT !.held = FALSE] \in Delivery
      BY DEF TypeOK, Delivery
    <2>2. deliveries' \subseteq Delivery
      BY <1>3, <2>1 DEF LoseConnection, TypeOK
    <2>3. QED
      BY <1>1, <1>3, <2>2, Budgets DEF LoseConnection, TypeOK, requestVars
  <1>4. QED
    BY <1>2, <1>3

LEMMA StepTypes == TypeOK /\ [Next]_vars => TypeOK'
  <1> SUFFICES ASSUME TypeOK, [Next]_vars PROVE TypeOK'
    OBVIOUS
  <1>1. CASE UNCHANGED vars
    BY <1>1 DEF TypeOK, vars, requestVars, brokerVars, consumerVars, faultVars
  <1>2. QED
    BY <1>1, RequestTypes, ReceiveTypes, HandleTypes, FaultTypes DEF Next, Deliver, Handle

(* Every variable keeps its type, with any number of invoices, workers,    *)
(* failures, crashes and lost connections.                                 *)
THEOREM TypeCorrect == Spec => []TypeOK
  BY InitTypes, StepTypes, PTL DEF Spec

-----------------------------------------------------------------------------
(* How often a message is acted on.  Deliveries of one message overlap     *)
(* only through lost connections, so that they differ in the losses that   *)
(* went before them; and a message in the ledger gets no further handler   *)
(* past the look-up.                                                       *)
Committed(d) == d.at \in {"mark", "act"}
Tries(m) == {d.try : d \in {e \in deliveries : e.msg = m /\ Committed(e)}}

(* What the broker or a handler has, or the ledger knows, was published. *)
Known ==
  /\ ready \cup ledger \subseteq published
  /\ \A d \in deliveries : d.msg \in published

(* No message is published twice: each comes with a step that happens once. *)
PublishedOnce ==
  /\ \A i \in Invoices : Created(i) \in published \/ validator[i] # "idle" => post[i] # "none"
  /\ \A i \in Invoices, t \in {"validated", "rejected"} :
       Verdict(i, t) \in published => validator[i] = "answered"
  /\ \A i \in Invoices, n \in 0 .. MaxLosses : Bypass(i, n) \in published => Created(i) \in ledger
  /\ \A d \in deliveries :
       Committed(d) /\ d.msg = Created(d.msg.inv) => Bypass(d.msg.inv, d.try) \notin published

(* Two deliveries of a message: the later one came after a loss, and only  *)
(* it is waited for.                                                       *)
Apart ==
  \A d, e \in deliveries :
    d.msg = e.msg /\ d # e => d.try # e.try /\ (d.held => ~ e.held /\ e.try < d.try)

(* A delivery whose message is back in the queue lost its connection. *)
LetGoOf ==
  \A d \in deliveries : d.try <= losses /\ (d.msg \in ready => ~ d.held /\ d.try < losses)

Counted ==
  \A m \in Messages :
    IF m \in ledger THEN acted[m] + Cardinality(Tries(m)) <= 1 + losses ELSE acted[m] = 0

OnceInv == Known /\ PublishedOnce /\ Apart /\ LetGoOf /\ Counted

LEMMA MessageIds ==
  /\ \A i, j, n : Created(i) # Bypass(j, n)
  /\ \A i, j, t : t \in {"validated", "rejected"} => Created(i) # Verdict(j, t)
  /\ \A i, j, n, t : Bypass(i, n) # Verdict(j, t)
  /\ \A i, j : Created(i) = Created(j) => i = j
  /\ \A i, j, n, k : Bypass(i, n) = Bypass(j, k) => i = j /\ n = k
  /\ \A i, j, t, u : Verdict(i, t) = Verdict(j, u) => i = j /\ t = u
  BY DEF Created, Bypass, Verdict, Message

LEMMA InitOnce == Init => OnceInv
  BY DEF Init, OnceInv, Known, PublishedOnce, Apart, LetGoOf, Counted

(* The tries of a message are at most one per loss, and one before any. *)
LEMMA TriesBound ==
  ASSUME TypeOK, LetGoOf, NEW m
  PROVE  /\ IsFiniteSet(Tries(m)) /\ Cardinality(Tries(m)) \in Nat
         /\ Cardinality(Tries(m)) <= 1 + losses
  <1>1. losses \in Nat /\ Tries(m) \subseteq 0 .. losses
    BY Budgets DEF TypeOK, LetGoOf, Tries, Delivery
  <1>2. IsFiniteSet(0 .. losses) /\ Cardinality(0 .. losses) = losses + 1
    BY <1>1, FS_Interval
  <1>3. IsFiniteSet(Tries(m)) /\ Cardinality(Tries(m)) <= Cardinality(0 .. losses)
    BY <1>1, <1>2, FS_Subset
  <1>4. QED
    BY <1>1, <1>2, <1>3, FS_CardinalityType

(* A message already counted stays within its bound when it gets no        *)
(* further try.                                                            *)
LEMMA CountKept ==
  ASSUME TypeOK, TypeOK', OnceInv, NEW m \in Messages, m \in ledger,
         Tries(m)' \subseteq Tries(m), acted'[m] = acted[m], losses <= losses'
  PROVE  acted'[m] + Cardinality(Tries(m)') <= 1 + losses'
  <1>1. IsFiniteSet(Tries(m)) /\ Cardinality(Tries(m)) \in Nat
    BY TriesBound DEF OnceInv
  <1>2. Cardinality(Tries(m)') <= Cardinality(Tries(m)) /\ Cardinality(Tries(m)') \in Nat
    BY <1>1, FS_Subset, FS_CardinalityType
  <1>3. acted[m] + Cardinality(Tries(m)) <= 1 + losses
    BY DEF OnceInv, Counted
  <1>4. acted[m] \in Nat /\ losses \in Nat /\ losses' \in Nat
    BY Budgets DEF TypeOK
  <1>5. QED
    BY <1>1, <1>2, <1>3, <1>4

(* Deliveries end, what they held may return to the queue. *)
LEMMA ShrinkOnce ==
  ASSUME TypeOK, TypeOK', OnceInv, deliveries' \subseteq deliveries,
         UNCHANGED <<published, ledger, acted, losses, validator>>,
         ready' \subseteq ready \cup {d.msg : d \in {e \in deliveries \ deliveries' : e.held}},
         \A i \in Invoices : post[i] # "none" => post'[i] # "none"
  PROVE  OnceInv'
  <1>1. Known' /\ PublishedOnce' /\ Apart'
    BY DEF OnceInv, Known, PublishedOnce, Apart, Committed
  <1>2. LetGoOf'
    <2> SUFFICES ASSUME NEW d \in deliveries', d.msg \in ready'
                 PROVE  ~ d.held /\ d.try < losses
      BY DEF OnceInv, LetGoOf
    <2>1. CASE d.msg \in ready
      BY <2>1 DEF OnceInv, LetGoOf
    <2>2. CASE d.msg \notin ready
      <3>1. PICK e \in deliveries \ deliveries' : e.held /\ e.msg = d.msg
        BY <2>2
      <3>2. ~ d.held /\ d.try < e.try /\ e.try <= losses
        BY <3>1 DEF OnceInv, Apart, LetGoOf
      <3>3. d.try \in Nat /\ e.try \in Nat /\ losses \in Nat
        BY <3>1, Budgets DEF TypeOK, Delivery
      <3>4. QED
        BY <3>2, <3>3
    <2>3. QED
      BY <2>1, <2>2
  <1>3. Counted'
    <2> SUFFICES ASSUME NEW m \in Messages
                 PROVE  IF m \in ledger THEN acted'[m] + Cardinality(Tries(m)') <= 1 + losses'
                        ELSE acted'[m] = 0
      BY DEF Counted
    <2>1. Tries(m)' \subseteq Tries(m)
      BY DEF Tries, Committed
    <2>2. losses <= losses'
      BY Budgets DEF TypeOK
    <2>3. QED
      BY <2>1, <2>2, CountKept DEF OnceInv, Counted
  <1>4. QED
    BY <1>1, <1>2, <1>3 DEF OnceInv

(* A message that was never published enters the queue. *)
LEMMA PublishOnce ==
  ASSUME TypeOK, OnceInv, NEW m, m \notin published, UNCHANGED <<deliveries, losses>>,
         published' = published \cup {m}, ready' = ready \cup {m}, ledger' = ledger
  PROVE  Known' /\ LetGoOf'
  BY DEF OnceInv, Known, LetGoOf

LEMMA CountedKept ==
  ASSUME TypeOK, TypeOK', OnceInv, UNCHANGED <<deliveries, ledger, acted, losses>>
  PROVE  Apart' /\ Counted'
  BY DEF OnceInv, Apart, Counted, Tries, Committed

LEMMA AnnounceOnce ==
  ASSUME TypeOK, TypeOK', OnceInv, NEW i \in Invoices, Announce(i)
  PROVE  OnceInv'
  <1>1. /\ post[i] = "none" /\ post' = [post EXCEPT ![i] = "sent"]
        /\ UNCHANGED <<deliveries, ledger, acted, losses>>
    BY DEF Announce, consumerVars, Raise, faultVars
  <1>2. \A j \in Invoices : post[j] # "none" => post'[j] # "none"
    BY <1>1 DEF TypeOK
  <1>3. CASE UNCHANGED <<published, ready, validator>>
    BY <1>1, <1>2, <1>3, ShrinkOnce
  <1>4. CASE /\ published' = published \cup {Created(i)} /\ ready' = ready \cup {Created(i)}
             /\ validator' = [validator EXCEPT ![i] = "asked"]
    <2>1. Created(i) \notin published
      BY <1>1 DEF OnceInv, PublishedOnce
    <2>2. Known' /\ LetGoOf'
      BY <1>1, <1>4, <2>1, PublishOnce
    <2>3. \A j \in Invoices : Created(j) \in published' \/ validator'[j] # "idle" => post'[j] # "none"
      BY <1>1, <1>2, <1>4, MessageIds DEF OnceInv, PublishedOnce, TypeOK
    <2>4. ASSUME NEW j \in Invoices, NEW t \in {"validated", "rejected"}, Verdict(j, t) \in published'
          PROVE  validator'[j] = "answered"
      <3>1. validator[j] = "answered"
        BY <1>4, <2>4, MessageIds DEF OnceInv, PublishedOnce
      <3>2. validator[i] # "answered"
        BY <1>1 DEF OnceInv, PublishedOnce
      <3>3. QED
        BY <1>4, <3>1, <3>2 DEF TypeOK
    <2>5. /\ \A j \in Invoices, n \in 0 .. MaxLosses :
               Bypass(j, n) \in published' => Created(j) \in ledger'
          /\ \A d \in deliveries' :
               Committed(d) /\ d.msg = Created(d.msg.inv) => Bypass(d.msg.inv, d.try) \notin published'
      BY <1>1, <1>4, MessageIds DEF OnceInv, PublishedOnce
    <2>6. QED
      BY <1>1, <2>2, <2>3, <2>4, <2>5, CountedKept DEF OnceInv, PublishedOnce
  <1>5. QED
    BY <1>3, <1>4 DEF Announce

LEMMA AnswerOnce ==
  ASSUME TypeOK, TypeOK', OnceInv, NEW i \in Invoices, ValidatorAnswers(i)
  PROVE  OnceInv'
  <1>1. /\ validator[i] = "asked" /\ validator' = [validator EXCEPT ![i] = "answered"]
        /\ UNCHANGED <<deliveries, ledger, acted, losses, post>>
    BY DEF ValidatorAnswers, consumerVars, requestVars, faultVars
  <1>2. PICK t \in {"validated", "rejected"} :
          published' = published \cup {Verdict(i, t)} /\ ready' = ready \cup {Verdict(i, t)}
    BY DEF ValidatorAnswers
  <1>3. Verdict(i, t) \notin published
    BY <1>1 DEF OnceInv, PublishedOnce
  <1>4. Known' /\ LetGoOf'
    BY <1>1, <1>2, <1>3, PublishOnce
  <1>5. ASSUME NEW j \in Invoices, NEW u \in {"validated", "rejected"}, Verdict(j, u) \in published'
        PROVE  validator'[j] = "answered"
    <2>1. j = i \/ validator[j] = "answered"
      BY <1>2, <1>5, MessageIds DEF OnceInv, PublishedOnce
    <2>2. QED
      BY <1>1, <2>1 DEF TypeOK
  <1>6. /\ \A j \in Invoices : Created(j) \in published' \/ validator'[j] # "idle" => post'[j] # "none"
        /\ \A j \in Invoices, n \in 0 .. MaxLosses :
             Bypass(j, n) \in published' => Created(j) \in ledger'
        /\ \A d \in deliveries' :
             Committed(d) /\ d.msg = Created(d.msg.inv) => Bypass(d.msg.inv, d.try) \notin published'
    BY <1>1, <1>2, MessageIds DEF OnceInv, PublishedOnce
  <1>7. QED
    BY <1>1, <1>4, <1>5, <1>6, CountedKept DEF OnceInv, PublishedOnce

LEMMA ReceiveOnce ==
  ASSUME TypeOK, TypeOK', EInv, OnceInv, NEW w \in Workers, NEW m \in Messages, Receive(w, m)
  PROVE  OnceInv'
  <1> DEFINE e == [msg |-> m, on |-> w, at |-> "check", try |-> losses, held |-> TRUE]
  <1>1. /\ m \in ready /\ ready' = ready \ {m} /\ deliveries' = deliveries \cup {e}
        /\ UNCHANGED <<published, ledger, acted, losses, post, validator>>
    BY DEF Receive, requestVars, faultVars
  <1>2. e.msg = m /\ e.at = "check" /\ e.try = losses /\ e.held
    OBVIOUS
  <1> HIDE DEF e
  <1>3. ~ Committed(e)
    BY <1>2 DEF Committed
  <1>4. Known' /\ PublishedOnce'
    BY <1>1, <1>2, <1>3 DEF OnceInv, Known, PublishedOnce, Committed
  <1>5. \A d \in deliveries : d.msg = m => ~ d.held /\ d.try < losses
    BY <1>1 DEF OnceInv, LetGoOf
  <1>6. losses \in Nat /\ \A d \in deliveries : d.try \in Nat
    BY Budgets DEF TypeOK, Delivery
  <1>7. LetGoOf'
    BY <1>1, <1>2, <1>6 DEF OnceInv, LetGoOf
  <1>8. Apart'
    BY <1>1, <1>2, <1>5, <1>6 DEF OnceInv, Apart
  <1>9. \A k : Tries(k)' = Tries(k)
    BY <1>1, <1>2, <1>3 DEF Tries, Committed
  <1>10. Counted'
    BY <1>1, <1>9 DEF OnceInv, Counted
  <1>11. QED
    BY <1>4, <1>7, <1>8, <1>10 DEF OnceInv

(* A handler goes on: a delivery that differs from it only in the step.    *)
LEMMA GoesToOnce ==
  ASSUME EInv, NEW d \in deliveries, NEW at, GoesTo(d, at)
  PROVE  \E e : /\ deliveries' = (deliveries \ {d}) \cup {e} /\ e.at = at
                 /\ e.msg = d.msg /\ e.try = d.try /\ e.held = d.held
  <1> DEFINE e == [d EXCEPT !.at = at]
  <1>1. e.at = at /\ e.msg = d.msg /\ e.try = d.try /\ e.held = d.held
    BY DEF EInv, Shaped, Shape
  <1>2. deliveries' = (deliveries \ {d}) \cup {e}
    BY DEF GoesTo
  <1> HIDE DEF e
  <1>3. QED
    BY <1>1, <1>2

LEMMA ApartKept ==
  ASSUME OnceInv, NEW d \in deliveries, NEW e, deliveries' = (deliveries \ {d}) \cup {e},
         e.msg = d.msg, e.try = d.try, e.held = d.held, losses' = losses
  PROVE  Apart' /\ (ready' = ready => LetGoOf')
  BY DEF OnceInv, Apart, LetGoOf

LEMMA CheckOnce ==
  ASSUME TypeOK, TypeOK', EInv, OnceInv, NEW d \in deliveries, CheckLedger(d)
  PROVE  OnceInv'
  <1>1. /\ d.at = "check"
        /\ UNCHANGED <<published, ready, ledger, acted, losses, post, validator>>
    BY DEF CheckLedger, brokerVars, requestVars, faultVars
  <1>2. CASE d.msg \in ledger
    BY <1>1, <1>2, ShrinkOnce DEF CheckLedger, Settle
  <1>3. CASE d.msg \notin ledger
    <2>1. PICK e : /\ deliveries' = (deliveries \ {d}) \cup {e} /\ e.at = "mark"
                   /\ e.msg = d.msg /\ e.try = d.try /\ e.held = d.held
      BY <1>3, GoesToOnce DEF CheckLedger
    <2>2. Known' /\ Apart' /\ LetGoOf'
      BY <1>1, <2>1, ApartKept DEF OnceInv, Known
    <2>3. d.msg = Created(d.msg.inv) => Bypass(d.msg.inv, d.try) \notin published
      <3>1. d.msg.inv \in Invoices /\ d.try \in 0 .. MaxLosses
        BY MessageTypes DEF TypeOK, Delivery
      <3>2. QED
        BY <1>3, <3>1 DEF OnceInv, PublishedOnce
    <2>4. PublishedOnce'
      BY <1>1, <2>1, <2>3 DEF OnceInv, PublishedOnce, Committed
    <2>5. Counted'
      <3> SUFFICES ASSUME NEW m \in Messages
                   PROVE  IF m \in ledger THEN acted'[m] + Cardinality(Tries(m)') <= 1 + losses'
                          ELSE acted'[m] = 0
        BY <1>1 DEF Counted
      <3>1. m \in ledger => Tries(m)' \subseteq Tries(m)
        BY <1>3, <2>1 DEF Tries, Committed
      <3>2. losses <= losses'
        BY <1>1, Budgets DEF TypeOK
      <3>3. QED
        BY <1>1, <3>1, <3>2, CountKept DEF OnceInv, Counted
    <2>6. QED
      BY <2>2, <2>4, <2>5 DEF OnceInv
  <1>4. QED
    BY <1>2, <1>3

LEMMA MarkOnce ==
  ASSUME TypeOK, TypeOK', EInv, OnceInv, NEW d \in deliveries, Mark(d)
  PROVE  OnceInv'
  <1>1. /\ d.at = "mark"
        /\ UNCHANGED <<published, ready, acted, losses, post, validator>>
    BY DEF Mark, Raise, requestVars, faultVars
  <1>2. CASE Discard(d) /\ ledger' = ledger
    BY <1>1, <1>2, ShrinkOnce DEF Discard, Settle
  <1>3. CASE ledger' = ledger \cup {d.msg} /\ GoesTo(d, "act")
    <2>1. PICK e : /\ deliveries' = (deliveries \ {d}) \cup {e} /\ e.at = "act"
                   /\ e.msg = d.msg /\ e.try = d.try /\ e.held = d.held
      BY <1>3, GoesToOnce
    <2>2. Known' /\ Apart' /\ LetGoOf'
      BY <1>1, <1>3, <2>1, ApartKept DEF OnceInv, Known
    <2>3. PublishedOnce'
      BY <1>1, <1>3, <2>1 DEF OnceInv, PublishedOnce, Committed
    <2>4. Counted'
      <3> SUFFICES ASSUME NEW m \in Messages
                   PROVE  IF m \in ledger' THEN acted'[m] + Cardinality(Tries(m)') <= 1 + losses'
                          ELSE acted'[m] = 0
        BY DEF Counted
      <3>1. Tries(m)' \subseteq Tries(m)
        BY <1>1, <2>1 DEF Tries, Committed
      <3>2. losses <= losses' /\ losses' \in Nat
        BY <1>1, Budgets DEF TypeOK
      <3>3. CASE m \in ledger
        BY <1>1, <1>3, <3>1, <3>2, <3>3, CountKept
      <3>4. CASE m \notin ledger
        <4>1. acted'[m] = 0
          BY <1>1, <3>4 DEF OnceInv, Counted
        <4>2. IsFiniteSet(Tries(m)) /\ Cardinality(Tries(m)) <= 1 + losses
              /\ Cardinality(Tries(m)) \in Nat
          BY TriesBound DEF OnceInv
        <4>3. Cardinality(Tries(m)') <= Cardinality(Tries(m)) /\ Cardinality(Tries(m)') \in Nat
          BY <3>1, <4>2, FS_Subset, FS_CardinalityType
        <4>4. QED
          BY <1>1, <3>2, <4>1, <4>2, <4>3
      <3>5. QED
        BY <3>3, <3>4
    <2>5. QED
      BY <2>2, <2>3, <2>4 DEF OnceInv
  <1>4. QED
    BY <1>2, <1>3 DEF Mark

LEMMA AckOnce ==
  ASSUME TypeOK, TypeOK', OnceInv, NEW d \in deliveries, Ack(d)
  PROVE  OnceInv'
  BY ShrinkOnce DEF Ack, Settle, brokerVars, requestVars, faultVars

LEMMA CrashOnce ==
  ASSUME TypeOK, TypeOK', OnceInv, NEW w \in Workers, Crash(w)
  PROVE  OnceInv'
  <1>1. /\ deliveries' = {d \in deliveries : d.on # w}
        /\ ready' = ready \cup {d.msg : d \in HeldBy(w)}
        /\ UNCHANGED <<published, ledger, acted, losses, validator>>
    BY DEF Crash
  <1>2. ready' \subseteq ready \cup {d.msg : d \in {e \in deliveries \ deliveries' : e.held}}
    BY <1>1 DEF HeldBy
  <1>3. \A i \in Invoices : post[i] # "none" => post'[i] # "none"
    BY DEF Crash
  <1>4. QED
    BY <1>1, <1>2, <1>3, ShrinkOnce

LEMMA ActOnce ==
  ASSUME TypeOK, TypeOK', EInv, OnceInv, NEW d \in deliveries, Act(d)
  PROVE  OnceInv'
  <1>1. /\ d.at = "act" /\ d.msg \in ledger
        /\ UNCHANGED <<ledger, losses, post, validator>>
    BY DEF Act, Raise, requestVars, faultVars, EInv, MarkedFirst
  <1>2. CASE Discard(d) /\ UNCHANGED <<published, ready, acted>>
    BY <1>1, <1>2, ShrinkOnce DEF Discard, Settle
  <1>3. CASE /\ PublishValidated(d) \/ ActOnVerdict(d)
             /\ GoesTo(d, "ack") /\ acted' = [acted EXCEPT ![d.msg] = @ + 1]
    <2>1. PICK e : /\ deliveries' = (deliveries \ {d}) \cup {e} /\ e.at = "ack"
                   /\ e.msg = d.msg /\ e.try = d.try /\ e.held = d.held
      BY <1>3, GoesToOnce
    <2>2. Apart' /\ (ready' = ready => LetGoOf')
      BY <1>1, <2>1, ApartKept
    <2>3. d.msg \in Messages /\ d.msg.inv \in Invoices /\ d.try \in 0 .. MaxLosses
      BY MessageTypes DEF TypeOK, Delivery
    <2>4. Counted'
      <3> SUFFICES ASSUME NEW m \in Messages
                   PROVE  IF m \in ledger THEN acted'[m] + Cardinality(Tries(m)') <= 1 + losses'
                          ELSE acted'[m] = 0
        BY <1>1 DEF Counted
      <3>1. CASE m # d.msg
        <4>1. Tries(m)' \subseteq Tries(m) /\ acted'[m] = acted[m]
          BY <1>1, <1>3, <2>1, <3>1 DEF Tries, Committed, TypeOK
        <4>2. losses <= losses'
          BY <1>1, Budgets DEF TypeOK
        <4>3. QED
          BY <4>1, <4>2, CountKept DEF OnceInv, Counted
      <3>2. CASE m = d.msg
        <4>1. acted'[m] = acted[m] + 1 /\ acted[m] \in Nat /\ losses \in Nat
          BY <1>3, <3>2, Budgets DEF TypeOK
        <4>2. d.try \in Tries(m)
          BY <1>1, <3>2 DEF Tries, Committed
        <4>3. Tries(m)' \subseteq Tries(m) \ {d.try}
          BY <2>1, <3>2 DEF Tries, Committed, OnceInv, Apart
        <4>4. IsFiniteSet(Tries(m)) /\ Cardinality(Tries(m)) \in Nat
          BY TriesBound DEF OnceInv
        <4>5. /\ IsFiniteSet(Tries(m) \ {d.try})
              /\ Cardinality(Tries(m) \ {d.try}) = Cardinality(Tries(m)) - 1
          BY <4>2, <4>4, FS_RemoveElement
        <4>6. Cardinality(Tries(m)') <= Cardinality(Tries(m)) - 1 /\ Cardinality(Tries(m)') \in Nat
          BY <4>3, <4>5, FS_Subset, FS_CardinalityType
        <4>7. acted[m] + Cardinality(Tries(m)) <= 1 + losses
          BY <1>1, <3>2 DEF OnceInv, Counted
        <4>8. QED
          BY <1>1, <3>2, <4>1, <4>4, <4>6, <4>7
      <3>3. QED
        BY <3>1, <3>2
    <2>5. CASE ActOnVerdict(d)
      <3>1. UNCHANGED <<published, ready>>
        BY <2>5 DEF ActOnVerdict
      <3>2. Known' /\ PublishedOnce'
        BY <1>1, <2>1, <3>1 DEF OnceInv, Known, PublishedOnce, Committed
      <3>3. QED
        BY <2>2, <2>4, <3>1, <3>2 DEF OnceInv
    <2>6. CASE PublishValidated(d)
      <3> DEFINE b == Bypass(d.msg.inv, d.try)
      <3>1. published' = published \cup {b} /\ ready' = ready \cup {b} /\ d.msg.type = "created"
        BY <2>6 DEF PublishValidated
      <3>2. d.msg = Created(d.msg.inv)
        BY <2>3, <3>1 DEF Messages, Created, Bypass, Verdict, Message
      <3>3. b \notin published
        BY <1>1, <3>2 DEF OnceInv, PublishedOnce, Committed
      <3>4. Known'
        BY <1>1, <2>1, <3>1 DEF OnceInv, Known
      <3>5. LetGoOf'
        BY <1>1, <2>1, <3>1, <3>3 DEF OnceInv, Known, LetGoOf
      <3>6. /\ \A j \in Invoices : Created(j) \in published' \/ validator'[j] # "idle" => post'[j] # "none"
            /\ \A j \in Invoices, t \in {"validated", "rejected"} :
                 Verdict(j, t) \in published' => validator'[j] = "answered"
        BY <1>1, <3>1, MessageIds DEF OnceInv, PublishedOnce
      <3>7. \A j \in Invoices, n \in 0 .. MaxLosses : Bypass(j, n) \in published' => Created(j) \in ledger'
        BY <1>1, <3>1, <3>2, MessageIds DEF OnceInv, PublishedOnce
      <3>8. ASSUME NEW x \in deliveries', Committed(x), x.msg = Created(x.msg.inv)
            PROVE  Bypass(x.msg.inv, x.try) \notin published'
        <4>1. x \in deliveries /\ x # d
          BY <2>1, <3>8 DEF Committed
        <4>2. Bypass(x.msg.inv, x.try) \notin published
          BY <3>8, <4>1 DEF OnceInv, PublishedOnce
        <4>3. x.msg.inv = d.msg.inv => x.try # d.try
          BY <3>2, <3>8, <4>1 DEF OnceInv, Apart
        <4>4. QED
          BY <3>1, <4>2, <4>3, MessageIds
      <3>9. PublishedOnce'
        BY <3>6, <3>7, <3>8 DEF PublishedOnce
      <3>10. QED
        BY <2>2, <2>4, <3>4, <3>5, <3>9 DEF OnceInv
    <2>7. QED
      BY <1>3, <2>5, <2>6
  <1>4. QED
    BY <1>2, <1>3 DEF Act

LEMMA LoseConnectionOnce ==
  ASSUME TypeOK, TypeOK', EInv, OnceInv, NEW w \in Workers, LoseConnection(w)
  PROVE  OnceInv'
  <1> DEFINE after(d) == IF d.on = w THEN [d EXCEPT !.held = FALSE] ELSE d
  <1>1. /\ deliveries' = {after(d) : d \in deliveries} /\ losses' = losses + 1
        /\ ready' = ready \cup {d.msg : d \in HeldBy(w)}
        /\ UNCHANGED <<published, ledger, acted, post, validator>>
    BY DEF LoseConnection, requestVars
  <1>2. ASSUME NEW d \in deliveries
        PROVE  /\ after(d).msg = d.msg /\ after(d).at = d.at /\ after(d).try = d.try
               /\ after(d).held => d.held /\ d.on # w
    BY DEF EInv, Shaped, Shape
  <1> HIDE DEF after
  <1>3. losses \in Nat /\ \A d \in deliveries : d.try \in Nat
    BY Budgets DEF TypeOK, Delivery
  <1>4. Known' /\ PublishedOnce'
    BY <1>1, <1>2 DEF OnceInv, Known, PublishedOnce, Committed, HeldBy
  <1>5. Apart'
    <2> SUFFICES ASSUME NEW x \in deliveries', NEW y \in deliveries', x.msg = y.msg, x # y
                 PROVE  x.try # y.try /\ (x.held => ~ y.held /\ y.try < x.try)
      BY DEF Apart
    <2>1. PICK d \in deliveries : x = after(d)
      BY <1>1
    <2>2. PICK e \in deliveries : y = after(e)
      BY <1>1
    <2>3. d.msg = e.msg /\ d # e
      BY <1>2, <2>1, <2>2
    <2>4. d.try # e.try /\ (d.held => ~ e.held /\ e.try < d.try)
      BY <2>3 DEF OnceInv, Apart
    <2>5. QED
      BY <1>2, <2>1, <2>2, <2>4
  <1>6. LetGoOf'
    <2> SUFFICES ASSUME NEW x \in deliveries'
                 PROVE  x.try <= losses' /\ (x.msg \in ready' => ~ x.held /\ x.try < losses')
      BY DEF LetGoOf
    <2>1. PICK d \in deliveries : x = after(d)
      BY <1>1
    <2>2. d.try <= losses /\ (d.msg \in ready => ~ d.held)
      BY DEF OnceInv, LetGoOf
    <2>3. x.try <= losses /\ x.try < losses'
      BY <1>1, <1>2, <1>3, <2>1, <2>2
    <2>4. ASSUME NEW h \in HeldBy(w), x.msg = h.msg PROVE ~ x.held
      <3>1. h \in deliveries /\ h.held /\ h.on = w
        BY DEF HeldBy
      <3>2. CASE h = d
        BY <1>2, <2>1, <3>1, <3>2
      <3>3. CASE h # d
        BY <1>2, <2>1, <2>4, <3>1, <3>3 DEF OnceInv, Apart
      <3>4. QED
        BY <3>2, <3>3
    <2>5. QED
      BY <1>1, <1>2, <1>3, <2>1, <2>2, <2>3, <2>4
  <1>7. Counted'
    <2>1. \A m : Tries(m)' \subseteq Tries(m)
      BY <1>1, <1>2 DEF Tries, Committed
    <2>2. losses <= losses'
      BY <1>1, <1>3
    <2>3. QED
      BY <1>1, <2>1, <2>2, CountKept DEF OnceInv, Counted
  <1>8. QED
    BY <1>4, <1>5, <1>6, <1>7 DEF OnceInv

AllInv == TypeOK /\ EInv /\ OnceInv

LEMMA StepOnce == AllInv /\ [Next]_vars => AllInv'
  <1> SUFFICES ASSUME AllInv, [Next]_vars PROVE OnceInv'
    BY StepTypes, StepEInv DEF AllInv
  <1> TypeOK /\ TypeOK' /\ EInv /\ OnceInv
    BY StepTypes DEF AllInv
  <1>1. ASSUME NEW i \in Invoices, EndPost(i) \/ TimerFires(i) PROVE OnceInv'
    <2>1. /\ UNCHANGED <<deliveries, ready, published, ledger, acted, losses, validator>>
          /\ \A j \in Invoices : post[j] # "none" => post'[j] # "none"
      BY <1>1 DEF EndPost, TimerFires, brokerVars, consumerVars, faultVars, Raise, TypeOK
    <2>2. QED
      BY <2>1, ShrinkOnce
  <1>2. CASE UNCHANGED vars
    BY <1>2, ShrinkOnce DEF vars, requestVars, brokerVars, consumerVars, faultVars
  <1>3. CASE Handle
    BY <1>3, CheckOnce, MarkOnce, ActOnce, AckOnce DEF Handle
  <1>4. QED
    BY <1>1, <1>2, <1>3, AnnounceOnce, AnswerOnce, ReceiveOnce, CrashOnce, LoseConnectionOnce
    DEF Next, Deliver

(* A handler acts on an event once, and once more at most for each lost    *)
(* connection: crashes, exceptions and redeliveries never add to it.       *)
THEOREM ActsOncePerLoss == Spec => []ActedOncePerLoss
  <1>1. AllInv => ActedOncePerLoss
    <2> SUFFICES ASSUME AllInv, NEW m \in Messages PROVE acted[m] <= 1 + losses
      BY DEF ActedOncePerLoss
    <2>1. acted[m] \in Nat /\ losses \in Nat /\ Cardinality(Tries(m)) \in Nat
      BY TriesBound, Budgets DEF AllInv, OnceInv, TypeOK
    <2>2. QED
      BY <2>1 DEF AllInv, OnceInv, Counted
  <1>2. Init => AllInv
    BY InitTypes, InitEInv, InitOnce DEF AllInv
  <1>3. QED
    BY <1>1, <1>2, StepOnce, PTL DEF Spec
=============================================================================
