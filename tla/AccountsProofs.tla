--------------------------- MODULE AccountsProofs ---------------------------
(***************************************************************************)
(* Proofs about Accounts, for any users, roles, tokens and requests in     *)
(* flight.  The invariant IInv ties the calls in progress to the rows:     *)
(* a call that may mint or write has a user, a live token has an owner and *)
(* was never spent.  RolesAsAsked is not inductive: nothing in it says     *)
(* what a replacement under way will leave.  The roles of a user fall into *)
(* batches, each what one replacement inserted, and a DELETE sees a batch  *)
(* whole or, if it is of a replacement that overlaps, not at all. *)
(***************************************************************************)
EXTENDS Accounts, TLAPS

CallType ==
  [kind : {"none", "login", "exchange", "logout", "assign"},
   user : Users \cup {None}, token : Tokens \cup {None},
   want : SUBSET Roles, seen : SUBSET Roles, beside : SUBSET SUBSET Roles,
   step : {"idle", "authenticated", "found", "read", "revoked",
           "deleting", "deleted", "inserted"}]

AccountType == [active : BOOLEAN, failed : Nat, blocked : BOOLEAN]

TokenType == [user : Users \cup {None}, spent : BOOLEAN,
              state : {"none", "live", "revoked", "expired"}]

(* A call that acts for a user has one; a call on a token has one. *)
Wellformed(c) ==
  /\ c.step = "authenticated" => c.user \in Users
  /\ c.step \in {"found", "read"} => c.kind = "exchange"
  /\ c.step \in {"deleting", "deleted", "inserted"} => c.kind = "assign"
  /\ c.kind = "exchange" => c.user \in Users /\ c.token \in Tokens
  /\ c.kind = "logout" => c.token \in Tokens
  /\ c.kind = "assign" => c.user \in Users

CallsWellformed == \A s \in Slots : Wellformed(calls[s])

LiveIsUnspent ==
  \A t \in Tokens : tokens[t].state = "live" => tokens[t].user \in Users /\ ~ tokens[t].spent

AskedType == [own : SUBSET Roles, beside : SUBSET SUBSET Roles]

(* A DELETE sees a batch whole, or not at all: then it is of one that      *)
(* committed beside it.                                                    *)
SeesWhole(c, B) ==
  /\ c.seen \subseteq UNION B
  /\ \A b \in B : b \subseteq c.seen \/ (b \cap c.seen = {} /\ b \in c.beside)

Batches(u, B) ==
  /\ UNION B = roles[u] /\ asked[u].own \in B
  /\ B \subseteq asked[u].beside \cup {asked[u].own}
  /\ \A s \in Slots : calls[s].kind = "assign" /\ calls[s].user = u => SeesWhole(calls[s], B)

InBatches == \A u \in Users : \E B \in SUBSET SUBSET Roles : Batches(u, B)

(* What is inserted and not committed is in no row, here or beside.        *)
Free(c) == (roles[c.user] \ c.seen) \cap c.want = {}
Apart(c, d) ==
  c.step = "inserted" /\ d.step = "inserted" /\ c.user = d.user => c.want \cap d.want = {}

InsertsAreFree ==
  /\ \A s \in Slots : calls[s].step = "inserted" => Free(calls[s])
  /\ \A s \in Slots : \A r \in Slots \ {s} : Apart(calls[s], calls[r])

Rows == InBatches /\ InsertsAreFree

IInv == TypeOK /\ CallsWellformed /\ LiveIsUnspent /\ Rows

-----------------------------------------------------------------------------
LEMMA IdleIsTyped == Idle \in CallType /\ Idle.kind = "none" /\ Idle.step = "idle"
  BY DEF Idle, Call, CallType

LEMMA InitInv == Init => IInv
  <1> SUFFICES ASSUME Init PROVE IInv
      OBVIOUS
  <1>1. TypeOK
    <2>1. calls \in [Slots -> CallType]
      BY IdleIsTyped DEF Init
    <2>2. roles \in [Users -> SUBSET Roles] /\ asked \in [Users -> AskedType]
      BY AccountConstants DEF Init, AskedType
    <2>3. streak \in [Users -> 0 .. MaxFailedAttempts]
      BY AccountConstants DEF Init
    <2> QED
      BY <2>1, <2>2, <2>3 DEF Init, TypeOK, CallType, Claims, AskedType
  <1>2. \A s \in Slots : calls[s] = Idle
    BY DEF Init
  <1>3. CallsWellformed /\ LiveIsUnspent
    BY <1>2, IdleIsTyped DEF Init, CallsWellformed, Wellformed, LiveIsUnspent
  <1>4. InsertsAreFree
    BY <1>2, IdleIsTyped DEF InsertsAreFree, Apart
  <1>5. InBatches
    <2> SUFFICES ASSUME NEW u \in Users PROVE \E B \in SUBSET SUBSET Roles : Batches(u, B)
      BY DEF InBatches
    <2>1. roles[u] \in SUBSET Roles /\ asked[u] = [own |-> roles[u], beside |-> {}]
      BY AccountConstants DEF Init
    <2>2. Batches(u, {roles[u]})
      BY <1>2, <2>1, IdleIsTyped DEF Batches
    <2> QED
      BY <2>1, <2>2
  <1> QED
    BY <1>1, <1>3, <1>4, <1>5 DEF IInv, Rows

-----------------------------------------------------------------------------
(* A call keeps what it sees and what committed beside it, or starts with  *)
(* all the rows there are.                                                 *)
Follows(c, d) ==
  c.kind = "assign" =>
    \/ c.seen = roles[c.user]
    \/ d.kind = "assign" /\ d.user = c.user /\ d.seen = c.seen /\ d.beside = c.beside

(* A step that changes one call only, to c, and no role. *)
LEMMA OneCall ==
  ASSUME IInv, NEW s \in Slots, NEW c \in CallType, Wellformed(c),
         calls' = [calls EXCEPT ![s] = c], UNCHANGED <<roles, asked>>,
         Follows(c, calls[s]),
         c.step = "inserted" => Free(c) /\ \A r \in Slots \ {s} : Apart(c, calls[r])
  PROVE  /\ calls' \in [Slots -> CallType]
         /\ CallsWellformed' /\ Rows'
         /\ roles' \in [Users -> SUBSET Roles] /\ asked' \in [Users -> AskedType]
  <1>1. calls \in [Slots -> CallType]
    BY DEF IInv, TypeOK, CallType
  <1>2. \A r \in Slots : calls'[r] = IF r = s THEN c ELSE calls[r]
    BY <1>1
  <1>3. calls' \in [Slots -> CallType]
    BY <1>1
  <1>4. CallsWellformed'
    BY <1>2 DEF IInv, CallsWellformed
  <1>5. InBatches'
    <2> SUFFICES ASSUME NEW u \in Users
                 PROVE  \E B \in SUBSET SUBSET Roles : Batches(u, B)'
      BY DEF InBatches
    <2>1. PICK B \in SUBSET SUBSET Roles : Batches(u, B)
      BY DEF IInv, Rows, InBatches
    <2>2. c.kind = "assign" /\ c.user = u => SeesWhole(c, B)
      BY <2>1 DEF Follows, Batches, SeesWhole
    <2>3. Batches(u, B)'
      BY <1>2, <2>1, <2>2 DEF Batches
    <2> QED
      BY <2>3
  <1>6. InsertsAreFree'
    <2>1. ASSUME NEW r \in Slots, calls'[r].step = "inserted" PROVE Free(calls[r])' 
      BY <1>2, <2>1 DEF IInv, Rows, InsertsAreFree, Free
    <2>2. ASSUME NEW r \in Slots, NEW q \in Slots \ {r} PROVE Apart(calls[r], calls[q])'
      BY <1>2 DEF IInv, Rows, InsertsAreFree, Apart
    <2> QED
      BY <2>1, <2>2 DEF InsertsAreFree
  <1> QED
    BY <1>3, <1>4, <1>5, <1>6 DEF IInv, Rows, TypeOK, AskedType

(* The same step, of a call that only moves to another step. *)
LEMMA OneStep ==
  ASSUME IInv, NEW s \in Slots, UNCHANGED <<roles, asked>>,
         NEW p \in {"revoked", "deleted", "inserted"}, Go(s, p),
         p # "revoked" => calls[s].kind = "assign",
         p = "inserted" => /\ Free(calls[s])
                           /\ \A r \in Slots \ {s} :
                                calls[r].step = "inserted" /\ calls[r].user = calls[s].user
                                  => calls[s].want \cap calls[r].want = {}
  PROVE  /\ calls' \in [Slots -> CallType]
         /\ CallsWellformed' /\ Rows'
         /\ roles' \in [Users -> SUBSET Roles] /\ asked' \in [Users -> AskedType]
  <1> DEFINE c == [calls[s] EXCEPT !.step = p]
  <1>1. calls[s] \in CallType /\ Wellformed(calls[s])
    BY DEF IInv, TypeOK, CallType, CallsWellformed
  <1>2. c \in CallType /\ c.kind = calls[s].kind /\ c.user = calls[s].user
        /\ c.token = calls[s].token /\ c.seen = calls[s].seen /\ c.want = calls[s].want
        /\ c.beside = calls[s].beside /\ c.step = p
    BY <1>1 DEF CallType
  <1>3. Wellformed(c)
    BY <1>1, <1>2 DEF Wellformed
  <1>4. calls' = [calls EXCEPT ![s] = c]
    BY DEF Go, IInv, TypeOK
  <1> HIDE DEF c
  <1>5. Follows(c, calls[s])
    BY <1>2 DEF Follows
  <1>6. c.step = "inserted" => Free(c) /\ \A r \in Slots \ {s} : Apart(c, calls[r])
    BY <1>2 DEF Free, Apart
  <1> QED
    BY <1>2, <1>3, <1>4, <1>5, <1>6, OneCall

LEMMA EndStep ==
  ASSUME IInv, NEW s \in Slots, UNCHANGED <<roles, asked>>, End(s)
  PROVE  /\ calls' \in [Slots -> CallType]
         /\ CallsWellformed' /\ Rows'
         /\ roles' \in [Users -> SUBSET Roles] /\ asked' \in [Users -> AskedType]
  <1>1. Wellformed(Idle) /\ Follows(Idle, calls[s]) /\ Idle.step # "inserted"
    BY IdleIsTyped DEF Wellformed, Follows
  <1> QED
    BY <1>1, IdleIsTyped, OneCall DEF End

(* A step that touches neither calls nor roles. *)
LEMMA RowsRest == ASSUME Rows, UNCHANGED <<calls, roles, asked>> PROVE Rows'
  <1>1. InBatches'
    BY DEF Rows, InBatches, Batches
  <1>2. InsertsAreFree'
    BY DEF Rows, InsertsAreFree, Free
  <1> QED
    BY <1>1, <1>2 DEF Rows

(* The rows of tokens that the steps write. *)
LEMMA RowsAreTyped ==
  ASSUME IInv, NEW u \in Users, NEW t \in Tokens
  PROVE  /\ NewRow(u) \in TokenType /\ NewRow(u).user = u /\ ~ NewRow(u).spent
         /\ Revoked(t) \in TokenType /\ Revoked(t).state = "revoked"
  BY ZenonT(40) DEF IInv, TypeOK, TokenType, NewRow, Revoked

LEMMA ResetIsTyped ==
  ASSUME IInv, NEW u \in Users, ResetFailures(u)
  PROVE  account' \in [Users -> AccountType]
  <1> DEFINE a == [account EXCEPT ![u] = [account[u] EXCEPT !.failed = 0]]
             b == [a EXCEPT ![u] = [a[u] EXCEPT !.blocked = FALSE]]
  <1>1. account \in [Users -> AccountType]
    BY DEF IInv, TypeOK, AccountType
  <1>2. [account[u] EXCEPT !.failed = 0] \in AccountType
    BY <1>1 DEF AccountType
  <1>3. a \in [Users -> AccountType]
    BY <1>1, <1>2
  <1>4. [a[u] EXCEPT !.blocked = FALSE] \in AccountType
    <2> HIDE DEF a
    <2> QED
      BY <1>3 DEF AccountType
  <1>5. b \in [Users -> AccountType]
    <2> HIDE DEF a
    <2> QED
      BY <1>3, <1>4
  <1>6. account' = b
    BY DEF ResetFailures
  <1> QED
    BY <1>5, <1>6

-----------------------------------------------------------------------------
LEMMA LoginStep == IInv /\ LoginNext => IInv'
  <1> SUFFICES ASSUME IInv, LoginNext PROVE IInv'
      OBVIOUS
  <1> USE DEF IInv, AskedType
  <1>1. ASSUME NEW u \in Users, LoginFails(u) PROVE IInv'
    <2>1. account' = account
      BY <1>1 DEF LoginFails, AfterRaise, TypeOK
    <2>2. streak' \in [Users -> 0 .. MaxFailedAttempts]
      BY <1>1, AccountConstants DEF LoginFails, TypeOK
    <2> QED
      BY <1>1, <2>1, <2>2, RowsRest DEF LoginFails, TypeOK, CallsWellformed, LiveIsUnspent
  <1>2. ASSUME NEW s \in Slots, NEW u \in Users, LoginSucceeds(s, u) PROVE IInv'
    <2> DEFINE c == Call("login", u, None, {}, roles[u], "authenticated")
    <2>1. roles[u] \in SUBSET Roles
      BY DEF TypeOK
    <2>2. /\ c \in CallType /\ c.kind = "login" /\ c.step = "authenticated"
          /\ c.user = u
      BY <2>1 DEF Call, CallType
    <2>3. calls' = [calls EXCEPT ![s] = c] /\ UNCHANGED <<roles, asked, tokens, access>>
      BY <1>2 DEF LoginSucceeds
    <2> HIDE DEF c
    <2>7. Wellformed(c) /\ Follows(c, calls[s])
      BY <2>2 DEF Wellformed, Follows
    <2>4. /\ calls' \in [Slots -> CallType] /\ CallsWellformed' /\ Rows'
          /\ roles' \in [Users -> SUBSET Roles] /\ asked' \in [Users -> AskedType]
      BY <2>2, <2>3, <2>7, OneCall
    <2>5. account' \in [Users -> AccountType]
      BY <1>2, ResetIsTyped DEF LoginSucceeds
    <2>6. streak' \in [Users -> 0 .. MaxFailedAttempts]
      BY <1>2, AccountConstants DEF LoginSucceeds, TypeOK
    <2> QED
      BY <2>3, <2>4, <2>5, <2>6 DEF TypeOK, CallType, LiveIsUnspent, AccountType
  <1>3. ASSUME NEW s \in Slots, NEW t \in Tokens, IssueRefreshToken(s, t) PROVE IInv'
    <2>1. calls[s].user \in Users /\ calls[s].seen \in SUBSET Roles
      BY <1>3 DEF IssueRefreshToken, CallsWellformed, Wellformed, TypeOK
    <2>2. /\ calls' \in [Slots -> CallType] /\ CallsWellformed' /\ Rows'
          /\ roles' \in [Users -> SUBSET Roles] /\ asked' \in [Users -> AskedType]
      BY <1>3, EndStep DEF IssueRefreshToken
    <2>3. access' \subseteq Claims
      BY <1>3, <2>1 DEF IssueRefreshToken, Mint, Claims, TypeOK
    <2>4. tokens' \in [Tokens -> TokenType]
      BY <1>3, <2>1, RowsAreTyped DEF IssueRefreshToken, TypeOK, TokenType
    <2>5. LiveIsUnspent'
      BY <1>3, <2>1, RowsAreTyped DEF IssueRefreshToken, TypeOK, LiveIsUnspent
    <2> QED
      BY <1>3, <2>2, <2>3, <2>4, <2>5 DEF IssueRefreshToken, TypeOK, CallType, TokenType
  <1> QED
    BY <1>1, <1>2, <1>3 DEF LoginNext

LEMMA TokenStep == IInv /\ TokenNext => IInv'
  <1> SUFFICES ASSUME IInv, TokenNext PROVE IInv'
      OBVIOUS
  <1> USE DEF IInv, AskedType
  <1>1. ASSUME NEW s \in Slots, NEW t \in Tokens, ExchangeFinds(s, t) PROVE IInv'
    <2> DEFINE c == Call("exchange", tokens[t].user, t, {}, {}, "found")
    <2>1. tokens[t].user \in Users
      BY <1>1 DEF ExchangeFinds, LiveIsUnspent
    <2>2. /\ c \in CallType /\ c.kind = "exchange" /\ c.step = "found"
          /\ c.user \in Users /\ c.token \in Tokens
      BY <2>1 DEF Call, CallType
    <2>3. calls' = [calls EXCEPT ![s] = c] /\ UNCHANGED <<roles, asked>>
      BY <1>1 DEF ExchangeFinds
    <2> HIDE DEF c
    <2>4. Wellformed(c) /\ Follows(c, calls[s])
      BY <2>2 DEF Wellformed, Follows
    <2>5. /\ calls' \in [Slots -> CallType] /\ CallsWellformed' /\ Rows'
          /\ roles' \in [Users -> SUBSET Roles] /\ asked' \in [Users -> AskedType]
      BY <2>2, <2>3, <2>4, OneCall
    <2> QED
      BY <1>1, <2>5 DEF ExchangeFinds, TypeOK, CallType, LiveIsUnspent
  <1>2. ASSUME NEW s \in Slots, ExchangeReadsUser(s) PROVE IInv'
    <2> DEFINE c == [calls[s] EXCEPT !.step = "read", !.seen = roles[calls[s].user]]
    <2>1. calls[s] \in CallType /\ Wellformed(calls[s]) /\ calls[s].kind = "exchange"
      BY <1>2 DEF ExchangeReadsUser, TypeOK, CallType, CallsWellformed, Wellformed
    <2>2. roles[calls[s].user] \in SUBSET Roles
      BY <2>1 DEF TypeOK, Wellformed
    <2>3. /\ c \in CallType /\ c.kind = "exchange" /\ c.step = "read"
          /\ c.user \in Users /\ c.token \in Tokens
      BY <2>1, <2>2 DEF CallType, Wellformed
    <2>4. calls' = [calls EXCEPT ![s] = c]
      BY <1>2 DEF ExchangeReadsUser, TypeOK
    <2> HIDE DEF c
    <2>5. Wellformed(c) /\ Follows(c, calls[s])
      BY <2>3 DEF Wellformed, Follows
    <2>6. UNCHANGED <<account, roles, tokens, access, streak, asked>>
      BY <1>2 DEF ExchangeReadsUser
    <2>7. /\ calls' \in [Slots -> CallType] /\ CallsWellformed' /\ Rows'
          /\ roles' \in [Users -> SUBSET Roles] /\ asked' \in [Users -> AskedType]
      BY <2>3, <2>4, <2>5, <2>6, OneCall
    <2> QED
      BY <2>6, <2>7 DEF TypeOK, CallType, LiveIsUnspent
  <1>3. ASSUME NEW s \in Slots, ExchangeRevokes(s) PROVE IInv'
    <2>1. /\ calls' \in [Slots -> CallType] /\ CallsWellformed' /\ Rows'
          /\ roles' \in [Users -> SUBSET Roles] /\ asked' \in [Users -> AskedType]
      BY <1>3, OneStep DEF ExchangeRevokes
    <2> QED
      BY <1>3, <2>1 DEF ExchangeRevokes, TypeOK, CallType, LiveIsUnspent
  <1>4. ASSUME NEW s \in Slots, NEW t \in Tokens, ExchangeCommits(s, t) PROVE IInv'
    <2> DEFINE u == calls[s].user
               old == calls[s].token
    <2>1. u \in Users /\ old \in Tokens /\ calls[s].seen \in SUBSET Roles
      BY <1>4 DEF ExchangeCommits, CallsWellformed, Wellformed, TypeOK
    <2>2. /\ calls' \in [Slots -> CallType] /\ CallsWellformed' /\ Rows'
          /\ roles' \in [Users -> SUBSET Roles] /\ asked' \in [Users -> AskedType]
      BY <1>4, EndStep DEF ExchangeCommits
    <2>3. access' \subseteq Claims
      BY <1>4, <2>1 DEF ExchangeCommits, Mint, Claims, TypeOK
    <2>4. tokens' = [[tokens EXCEPT ![old] = Revoked(old)] EXCEPT ![t] = NewRow(u)]
      BY <1>4 DEF ExchangeCommits
    <2>5. Revoked(old) \in TokenType /\ Revoked(old).state = "revoked"
          /\ NewRow(u) \in TokenType /\ NewRow(u).user = u /\ ~ NewRow(u).spent
      BY <2>1, RowsAreTyped
    <2>6. tokens \in [Tokens -> TokenType]
      BY DEF TypeOK, TokenType
    <2> HIDE DEF u, old
    <2>7. tokens' \in [Tokens -> TokenType] /\ LiveIsUnspent'
      BY <2>1, <2>4, <2>5, <2>6 DEF LiveIsUnspent
    <2> QED
      BY <1>4, <2>2, <2>3, <2>7 DEF ExchangeCommits, TypeOK, CallType, TokenType
  <1>5. ASSUME NEW s \in Slots, NEW t \in Tokens, LogoutRevokes(s, t) PROVE IInv'
    <2> DEFINE c == Call("logout", None, t, {}, {}, "revoked")
    <2>1. c \in CallType /\ c.kind = "logout" /\ c.step = "revoked" /\ c.token = t
      BY DEF Call, CallType
    <2>2. calls' = [calls EXCEPT ![s] = c] /\ UNCHANGED <<roles, asked>>
      BY <1>5 DEF LogoutRevokes
    <2> HIDE DEF c
    <2>3. Wellformed(c) /\ Follows(c, calls[s])
      BY <2>1 DEF Wellformed, Follows
    <2>4. /\ calls' \in [Slots -> CallType] /\ CallsWellformed' /\ Rows'
          /\ roles' \in [Users -> SUBSET Roles] /\ asked' \in [Users -> AskedType]
      BY <2>1, <2>2, <2>3, OneCall
    <2> QED
      BY <1>5, <2>4 DEF LogoutRevokes, TypeOK, CallType, LiveIsUnspent
  <1>6. ASSUME NEW s \in Slots, LogoutCommits(s) PROVE IInv'
    <2> DEFINE old == calls[s].token
    <2>1. old \in Tokens
      BY <1>6 DEF LogoutCommits, CallsWellformed, Wellformed
    <2>2. /\ calls' \in [Slots -> CallType] /\ CallsWellformed' /\ Rows'
          /\ roles' \in [Users -> SUBSET Roles] /\ asked' \in [Users -> AskedType]
      BY <1>6, EndStep DEF LogoutCommits
    <2>3. tokens' = [tokens EXCEPT ![old] = Revoked(old)]
      BY <1>6 DEF LogoutCommits
    <2>6. tokens \in [Tokens -> TokenType]
      BY DEF TypeOK, TokenType
    <2> HIDE DEF old
    <2>5. Revoked(old) \in TokenType /\ Revoked(old).state = "revoked"
      BY <2>1, <2>6 DEF TokenType, Revoked
    <2>7. tokens' \in [Tokens -> TokenType] /\ LiveIsUnspent'
      BY <2>1, <2>3, <2>5, <2>6 DEF LiveIsUnspent
    <2> QED
      BY <1>6, <2>2, <2>7 DEF LogoutCommits, TypeOK, CallType, TokenType
  <1>7. ASSUME NEW t \in Tokens, TokenExpires(t) PROVE IInv'
    <2>1. tokens' \in [Tokens -> TokenType] /\ LiveIsUnspent'
      BY <1>7 DEF TokenExpires, TypeOK, TokenType, LiveIsUnspent
    <2> QED
      BY <1>7, <2>1, RowsRest DEF TokenExpires, TypeOK, TokenType, CallsWellformed
  <1>8. ASSUME NEW a \in access, AccessExpires(a) PROVE IInv'
    BY <1>8, RowsRest DEF AccessExpires, TypeOK, CallsWellformed, LiveIsUnspent
  <1> QED
    BY <1>1, <1>2, <1>3, <1>4, <1>5, <1>6, <1>7, <1>8 DEF TokenNext

-----------------------------------------------------------------------------
LEMMA AdminStep == IInv /\ AdminNext => IInv'
  <1> SUFFICES ASSUME IInv, AdminNext PROVE IInv'
      OBVIOUS
  <1> USE DEF IInv, AskedType
  <1>1. ASSUME NEW u \in Users, Unlock(u) PROVE IInv'
    BY <1>1, ResetIsTyped, RowsRest
    DEF Unlock, AccountType, TypeOK, CallsWellformed, LiveIsUnspent
  <1>2. ASSUME NEW u \in Users, NEW b \in BOOLEAN, SetActive(u, b) PROVE IInv'
    BY <1>2, RowsRest DEF SetActive, TypeOK, CallsWellformed, LiveIsUnspent
  <1>3. ASSUME NEW s \in Slots, NEW u \in Users, NEW want \in RoleLists,
               AssignStarts(s, u, want) PROVE IInv'
    <2> DEFINE c == Call("assign", u, None, want, roles[u], "deleting")
    <2>1. roles[u] \in SUBSET Roles /\ want \in SUBSET Roles
      BY AccountConstants DEF TypeOK
    <2>2. /\ c \in CallType /\ c.kind = "assign" /\ c.step = "deleting"
          /\ c.user = u /\ c.seen = roles[u]
      BY <2>1 DEF Call, CallType
    <2>3. calls' = [calls EXCEPT ![s] = c] /\ UNCHANGED <<roles, asked>>
      BY <1>3 DEF AssignStarts
    <2> HIDE DEF c
    <2>4. Wellformed(c) /\ Follows(c, calls[s])
      BY <2>2 DEF Wellformed, Follows
    <2>5. /\ calls' \in [Slots -> CallType] /\ CallsWellformed' /\ Rows'
          /\ roles' \in [Users -> SUBSET Roles] /\ asked' \in [Users -> AskedType]
      BY <2>2, <2>3, <2>4, OneCall
    <2> QED
      BY <1>3, <2>5 DEF AssignStarts, TypeOK, CallType, LiveIsUnspent
  <1>4. ASSUME NEW s \in Slots, AssignDeletes(s) PROVE IInv'
    <2>1. calls[s].kind = "assign"
      BY <1>4 DEF AssignDeletes, CallsWellformed, Wellformed
    <2>2. /\ calls' \in [Slots -> CallType] /\ CallsWellformed' /\ Rows'
          /\ roles' \in [Users -> SUBSET Roles] /\ asked' \in [Users -> AskedType]
      BY <1>4, <2>1, OneStep DEF AssignDeletes
    <2> QED
      BY <1>4, <2>2 DEF AssignDeletes, TypeOK, CallType, LiveIsUnspent
  <1>5. ASSUME NEW s \in Slots, AssignInserts(s) PROVE IInv'
    <2>1. calls[s].kind = "assign"
      BY <1>5 DEF AssignInserts, CallsWellformed, Wellformed
    <2>2. (Go(s, "inserted") /\ Free(calls[s])) \/ End(s)
      BY <1>5 DEF AssignInserts, Free
    <2>6. ASSUME NEW r \in Slots \ {s}, calls[r].step = "inserted",
                 calls[r].user = calls[s].user
          PROVE  calls[s].want \cap calls[r].want = {}
      <3>1. calls[r].kind = "assign"
        BY <2>6 DEF CallsWellformed, Wellformed
      <3> QED
        BY <1>5, <2>6, <3>1 DEF AssignInserts, Rivals
    <2>3. UNCHANGED <<account, roles, tokens, access, streak, asked>>
      BY <1>5 DEF AssignInserts
    <2>4. /\ calls' \in [Slots -> CallType] /\ CallsWellformed' /\ Rows'
          /\ roles' \in [Users -> SUBSET Roles] /\ asked' \in [Users -> AskedType]
      BY <2>1, <2>2, <2>3, <2>6, OneStep, EndStep
    <2> QED
      BY <2>3, <2>4 DEF TypeOK, CallType, LiveIsUnspent
  <1>6. ASSUME NEW s \in Slots, AssignCommits(s) PROVE IInv'
    <2> DEFINE c == calls[s]
               left(r) == [calls[r] EXCEPT !.seen = calls[r].seen \ c.seen,
                                           !.beside = calls[r].beside \cup {c.want}]
    <2>1. /\ c \in CallType /\ c.kind = "assign" /\ c.user \in Users
          /\ c.seen \in SUBSET Roles /\ c.want \in SUBSET Roles
          /\ c.beside \in SUBSET SUBSET Roles
      BY <1>6 DEF AssignCommits, CallsWellformed, Wellformed, TypeOK, CallType
    <2>2. roles' = [roles EXCEPT ![c.user] = (roles[c.user] \ c.seen) \cup c.want]
          /\ asked' = [asked EXCEPT ![c.user] = [own |-> c.want, beside |-> c.beside]]
          /\ UNCHANGED <<account, tokens, access, streak>>
      BY <1>6 DEF AssignCommits
    <2>3. roles' \in [Users -> SUBSET Roles] /\ asked' \in [Users -> AskedType]
      BY <2>1, <2>2 DEF TypeOK
    <2>4. calls' = [r \in Slots |-> IF r = s THEN Idle
                                    ELSE IF r \in Rivals(s) THEN left(r) ELSE calls[r]]
      BY <1>6 DEF AssignCommits
    <2>5. \A r \in Slots : calls[r] \in CallType /\ Wellformed(calls[r])
      BY DEF TypeOK, CallType, CallsWellformed
    <2>6. ASSUME NEW r \in Slots
          PROVE  /\ left(r) \in CallType /\ left(r).kind = calls[r].kind
                 /\ left(r).user = calls[r].user /\ left(r).token = calls[r].token
                 /\ left(r).step = calls[r].step
                 /\ left(r).seen = calls[r].seen \ c.seen
                 /\ left(r).beside = calls[r].beside \cup {c.want}
      <3> HIDE DEF c
      <3> QED
        BY <2>1, <2>5 DEF CallType
    <2>7. \A r \in Slots : calls'[r] = IF r = s THEN Idle
                                     ELSE IF r \in Rivals(s) THEN left(r) ELSE calls[r]
      BY <2>4
    <2>8. \A r \in Slots : r \in Rivals(s) <=>
            r # s /\ calls[r].kind = "assign" /\ calls[r].user = c.user
      BY DEF Rivals
    <2>9. ASSUME NEW r \in Slots PROVE calls'[r] \in CallType /\ Wellformed(calls'[r])
      <3> HIDE DEF c, left
      <3>1. Wellformed(Idle) /\ Wellformed(left(r))
        BY <2>5, <2>6, IdleIsTyped DEF Wellformed
      <3> QED
        BY <2>5, <2>6, <2>7, <3>1, IdleIsTyped
    <2>10. calls' \in [Slots -> CallType] /\ CallsWellformed'
      <3>1. calls' = [r \in Slots |-> calls'[r]]
        BY <2>4
      <3> QED
        BY <2>9, <3>1 DEF CallsWellformed
    <2>11. c.step = "inserted" /\ Free(c)
      BY <1>6 DEF AssignCommits, Rows, InsertsAreFree
    <2>12. /\ roles'[c.user] = (roles[c.user] \ c.seen) \cup c.want
           /\ asked'[c.user].own = c.want /\ asked'[c.user].beside = c.beside
           /\ \A u \in Users \ {c.user} : roles'[u] = roles[u] /\ asked'[u] = asked[u]
      <3> HIDE DEF c
      <3> QED
        BY <2>1, <2>2 DEF TypeOK
    <2>13. InBatches'
      <3> SUFFICES ASSUME NEW u \in Users
                   PROVE  \E B \in SUBSET SUBSET Roles : Batches(u, B)'
        BY DEF InBatches
      <3>1. PICK B \in SUBSET SUBSET Roles : Batches(u, B)
        BY DEF Rows, InBatches
      <3>2. CASE u # c.user
        <4>1. ASSUME NEW r \in Slots, calls'[r].kind = "assign", calls'[r].user = u
              PROVE  calls'[r] = calls[r]
          <5> HIDE DEF c, left
          <5> QED
            BY <2>6, <2>7, <2>8, <3>2, <4>1, IdleIsTyped
        <4>2. Batches(u, B)'
          <5> HIDE DEF c
          <5> QED
            BY <2>12, <3>1, <3>2, <4>1 DEF Batches
        <4> QED
          BY <4>2
      <3>3. CASE u = c.user
        <4> DEFINE K == {b \in B : ~ (b \subseteq c.seen)}
                   D == K \cup {c.want}
        <4>1. SeesWhole(c, B) /\ UNION B = roles[u]
          BY <2>1, <3>1, <3>3 DEF Batches
        <4>2. \A b \in K : b \cap c.seen = {} /\ b \in c.beside
          <5> HIDE DEF c
          <5> QED
            BY <4>1 DEF SeesWhole
        <4>3. UNION K = roles[u] \ c.seen
          <5> HIDE DEF c
          <5>1. ASSUME NEW x PROVE x \in UNION K <=> x \in roles[u] \ c.seen
            <6>1. CASE x \in UNION K
              BY <4>1, <4>2, <6>1
            <6>2. CASE x \in roles[u] \ c.seen
              <7>1. PICK b \in B : x \in b
                BY <4>1, <6>2
              <7> QED
                BY <6>2, <7>1
            <6> QED
              BY <6>1, <6>2
          <5> QED
            BY <5>1
        <4>4. D \in SUBSET SUBSET Roles
          BY <2>1
        <4>5. UNION D = roles'[u]
          <5> HIDE DEF c, K
          <5> QED
            BY <2>12, <3>3, <4>3
        <4>6. asked'[u].own \in D /\ D \subseteq asked'[u].beside \cup {asked'[u].own}
          <5> HIDE DEF c
          <5> QED
            BY <2>12, <3>3, <4>2
        <4>7. ASSUME NEW r \in Slots, calls'[r].kind = "assign", calls'[r].user = u
              PROVE  SeesWhole(calls'[r], D)
          <5>1. r \in Rivals(s) /\ calls'[r] = left(r)
            <6> HIDE DEF c, left
            <6> QED
              BY <2>7, <2>8, <3>3, <4>7, IdleIsTyped
          <5>2. SeesWhole(calls[r], B)
            BY <2>8, <3>1, <3>3, <5>1 DEF Batches
          <5> DEFINE seen == calls[r].seen
                     beside == calls[r].beside
          <5>3. left(r).seen = seen \ c.seen /\ left(r).beside = beside \cup {c.want}
            BY <2>6
          <5>4. /\ seen \subseteq roles[u]
                /\ \A b \in B : b \subseteq seen \/ (b \cap seen = {} /\ b \in beside)
            BY <4>1, <5>2 DEF SeesWhole
          <5>5. (roles[u] \ c.seen) \cap c.want = {}
            BY <2>11, <3>3 DEF Free
          <5> HIDE DEF c, left, seen, beside
          <5>6. seen \ c.seen \subseteq UNION D
            BY <4>3, <5>4
          <5>7. ASSUME NEW b \in D
                PROVE  \/ b \subseteq seen \ c.seen
                       \/ b \cap (seen \ c.seen) = {} /\ b \in beside \cup {c.want}
            <6>1. CASE b \in K
              <7>1. b \in B /\ b \cap c.seen = {}
                BY <4>2, <6>1
              <7> QED
                BY <5>4, <7>1
            <6>2. CASE b = c.want
              BY <5>4, <5>5, <6>2
            <6> QED
              BY <6>1, <6>2
          <5> HIDE DEF D
          <5> QED
            BY <5>1, <5>3, <5>6, <5>7 DEF SeesWhole
        <4> HIDE DEF D, c
        <4>8. PICK E \in SUBSET SUBSET Roles : E = D
          BY <4>4
        <4>9. Batches(u, E)'
          BY <4>5, <4>6, <4>7, <4>8 DEF Batches
        <4> QED
          BY <4>9
      <3> QED
        BY <3>2, <3>3
    <2>14. InsertsAreFree'
      <3>1. ASSUME NEW r \in Slots, calls'[r].step = "inserted"
            PROVE  r # s /\ calls[r].step = "inserted" /\ calls'[r].user = calls[r].user
                   /\ calls'[r].want = calls[r].want /\ calls[r].kind = "assign"
        <4>1. r # s
          BY <2>7, <3>1, IdleIsTyped
        <4>2. left(r).step = calls[r].step /\ left(r).user = calls[r].user
              /\ left(r).want = calls[r].want
          <5> HIDE DEF c
          <5> QED
            BY <2>5 DEF CallType
        <4>3. calls[r].step = "inserted"
          <5> HIDE DEF left, c
          <5> QED
            BY <2>7, <3>1, <4>1, <4>2
        <4>4. calls[r].kind = "assign"
          BY <2>5, <4>3 DEF Wellformed
        <4> HIDE DEF left, c
        <4> QED
          BY <2>7, <4>1, <4>2, <4>3, <4>4
      <3>2. ASSUME NEW r \in Slots, calls'[r].step = "inserted" PROVE Free(calls[r])'
        <4>1. Free(calls[r]) /\ calls[r].user \in Users
          BY <2>5, <3>1, <3>2 DEF Rows, InsertsAreFree, Wellformed
        <4>2. CASE calls[r].user # c.user
          <5>1. calls'[r] = calls[r]
            <6> HIDE DEF left, c
            <6> QED
              BY <2>7, <2>8, <3>1, <3>2, <4>2
          <5> HIDE DEF c
          <5> QED
            BY <2>12, <4>1, <4>2, <5>1 DEF Free
        <4>3. CASE calls[r].user = c.user
          <5>1. calls'[r].seen = calls[r].seen \ c.seen
            <6> HIDE DEF left, c
            <6> QED
              BY <2>6, <2>7, <2>8, <3>1, <3>2, <4>3
          <5>2. c.want \cap calls[r].want = {}
            BY <2>11, <3>1, <3>2, <4>3 DEF Rows, InsertsAreFree, Apart
          <5> HIDE DEF c
          <5> QED
            BY <2>12, <3>1, <3>2, <4>1, <4>3, <5>1, <5>2 DEF Free
        <4> QED
          BY <4>2, <4>3
      <3>3. ASSUME NEW r \in Slots, NEW q \in Slots \ {r} PROVE Apart(calls[r], calls[q])'
        BY <3>1 DEF Rows, InsertsAreFree, Apart
      <3> QED
        BY <3>2, <3>3 DEF InsertsAreFree
    <2> QED
      BY <2>2, <2>3, <2>10, <2>13, <2>14 DEF TypeOK, CallType, LiveIsUnspent, Rows
  <1> QED
    BY <1>1, <1>2, <1>3, <1>4, <1>5, <1>6 DEF AdminNext

LEMMA FailStep == ASSUME IInv, NEW s \in Slots, Fails(s) PROVE IInv'
  <1>1. /\ calls' \in [Slots -> CallType] /\ CallsWellformed' /\ Rows'
        /\ roles' \in [Users -> SUBSET Roles] /\ asked' \in [Users -> AskedType]
    BY EndStep DEF Fails
  <1> QED
    BY <1>1 DEF IInv, Fails, TypeOK, CallType, LiveIsUnspent, AskedType

LEMMA StutterStep == IInv /\ UNCHANGED vars => IInv'
  BY RowsRest DEF IInv, vars, TypeOK, CallsWellformed, LiveIsUnspent

LEMMA InvStep == IInv /\ [Next]_vars => IInv'
  BY LoginStep, TokenStep, AdminStep, FailStep, StutterStep DEF Next

(* IInv holds in every reachable state. *)
THEOREM Invariant == Spec => []IInv
  BY InitInv, InvStep, PTL DEF Spec

-----------------------------------------------------------------------------
(* Every variable keeps its type. *)
THEOREM TypeCorrect == Spec => []TypeOK
  <1>1. IInv => TypeOK
    BY DEF IInv
  <1> QED
    BY <1>1, Invariant, PTL

(* The roles of a user are those of whole requests: all the last           *)
(* replacement asked for, and beyond these only what replacements that     *)
(* committed while it was under way asked for, each whole or not at all.   *)
(* With none of them the roles are exactly those asked for.  The DELETE    *)
(* and the INSERTs of AssignRolesHandler (users/handlers.py) promise no    *)
(* more: nothing locks the user.                                           *)
THEOREM RolesFollowRequests == Spec => []RolesAsAsked
  <1>1. IInv => RolesAsAsked
    <2> SUFFICES ASSUME IInv, NEW u \in Users
                 PROVE  \E kept \in SUBSET asked[u].beside :
                          roles[u] = asked[u].own \cup UNION kept
      BY DEF RolesAsAsked
    <2>1. PICK B \in SUBSET SUBSET Roles : Batches(u, B)
      BY DEF IInv, Rows, InBatches
    <2> DEFINE kept == B \cap asked[u].beside
    <2>2. /\ UNION B = roles[u] /\ asked[u].own \in B
          /\ B \subseteq asked[u].beside \cup {asked[u].own}
      BY <2>1 DEF Batches
    <2>3. UNION B = asked[u].own \cup UNION kept
      <3>1. B = kept \cup {asked[u].own}
        BY <2>2
      <3> HIDE DEF kept
      <3> QED
        BY <3>1
    <2> QED
      BY <2>2, <2>3
  <1> QED
    BY <1>1, Invariant, PTL

(* No exchange or logout of a refresh token is followed by an exchange of  *)
(* the same token that begins afterwards, whatever ran at the same time.   *)
THEOREM SpentRefused == Spec => SpentTokensAreRefused
  <1> DEFINE A == \A s \in Slots : calls[s] = Idle /\ calls'[s].kind = "exchange"
                                    => ~ tokens[calls'[s].token].spent
  <1>1. IInv /\ [Next]_vars => [A]_vars
    <2> SUFFICES ASSUME IInv, [Next]_vars, ~ UNCHANGED vars,
                        NEW s \in Slots, calls[s] = Idle, calls'[s].kind = "exchange"
                 PROVE  ~ tokens[calls'[s].token].spent
      OBVIOUS
    <2>1. calls \in [Slots -> CallType] /\ Idle.kind = "none" /\ Idle.step = "idle"
      BY IdleIsTyped DEF IInv, TypeOK, CallType
    <2>2. ASSUME NEW r \in Slots, NEW t \in Tokens, ExchangeFinds(r, t)
          PROVE  ~ tokens[calls'[s].token].spent
      <3> DEFINE c == Call("exchange", tokens[t].user, t, {}, {}, "found")
      <3>1. c.token = t
        BY DEF Call
      <3>2. calls' = [calls EXCEPT ![r] = c] /\ ~ tokens[t].spent
        BY <2>2 DEF ExchangeFinds, IInv, LiveIsUnspent
      <3> HIDE DEF c
      <3>3. calls'[s] = c
        BY <2>1, <3>2
      <3> QED
        BY <3>1, <3>2, <3>3
    <2>3. ASSUME NEW r \in Slots, calls' = [calls EXCEPT ![r] = calls'[r]],
                 r = s => calls'[r].kind # "exchange"
          PROVE  FALSE
      BY <2>1, <2>3
    <2>4. ASSUME calls' = calls PROVE FALSE
      BY <2>1, <2>4
    <2>5. CASE LoginNext
      <3>1. ASSUME NEW r \in Slots, NEW u \in Users, LoginSucceeds(r, u) PROVE FALSE
        <4>1. calls'[r].kind = "login"
          BY <3>1, <2>1 DEF LoginSucceeds, Call
        <4> QED
          BY <3>1, <4>1, <2>1, <2>3 DEF LoginSucceeds
      <3>2. ASSUME NEW r \in Slots, NEW t \in Tokens, IssueRefreshToken(r, t) PROVE FALSE
        BY <3>2, <2>1, <2>3 DEF IssueRefreshToken, End
      <3> QED
        BY <2>4, <2>5, <3>1, <3>2 DEF LoginNext, LoginFails
    <2>6. CASE TokenNext
      <3>1. ASSUME NEW r \in Slots, NEW t \in Tokens, LogoutRevokes(r, t) PROVE FALSE
        <4>1. calls'[r].kind = "logout"
          BY <3>1, <2>1 DEF LogoutRevokes, Call
        <4> QED
          BY <3>1, <4>1, <2>1, <2>3 DEF LogoutRevokes
      <3>2. ASSUME NEW r \in Slots, NEW t \in Tokens, ExchangeCommits(r, t) PROVE FALSE
        BY <3>2, <2>1, <2>3 DEF ExchangeCommits, End
      <3>3. ASSUME NEW r \in Slots, ExchangeReadsUser(r) PROVE FALSE
        <4>1. r # s
          BY <3>3, <2>1 DEF ExchangeReadsUser
        <4> QED
          BY <3>3, <4>1, <2>1 DEF ExchangeReadsUser
      <3>4. ASSUME NEW r \in Slots, ExchangeRevokes(r) PROVE FALSE
        <4>1. r # s
          BY <3>4, <2>1 DEF ExchangeRevokes
        <4> QED
          BY <3>4, <4>1, <2>1 DEF ExchangeRevokes, Go
      <3>5. ASSUME NEW r \in Slots, LogoutCommits(r) PROVE FALSE
        BY <3>5, <2>1, <2>3 DEF LogoutCommits, End
      <3> QED
        BY <2>2, <2>4, <2>6, <3>1, <3>2, <3>3, <3>4, <3>5
        DEF TokenNext, TokenExpires, AccessExpires
    <2>7. CASE AdminNext
      <3>1. ASSUME NEW r \in Slots, NEW u \in Users, NEW want \in RoleLists,
                   AssignStarts(r, u, want) PROVE FALSE
        <4>1. calls'[r].kind = "assign"
          BY <3>1, <2>1 DEF AssignStarts, Call
        <4> QED
          BY <3>1, <4>1, <2>1, <2>3 DEF AssignStarts
      <3>2. ASSUME NEW r \in Slots, AssignDeletes(r) PROVE FALSE
        <4>1. r # s
          BY <3>2, <2>1 DEF AssignDeletes
        <4> QED
          BY <3>2, <4>1, <2>1 DEF AssignDeletes, Go
      <3>3. ASSUME NEW r \in Slots, AssignInserts(r) PROVE FALSE
        <4>1. r # s
          BY <3>3, <2>1 DEF AssignInserts
        <4> QED
          BY <3>3, <4>1, <2>1 DEF AssignInserts, Go, End
      <3>4. ASSUME NEW r \in Slots, AssignCommits(r) PROVE FALSE
        <4>1. r # s /\ s \notin Rivals(r)
          BY <3>4, <2>1 DEF AssignCommits, Rivals
        <4> QED
          BY <3>4, <4>1, <2>1 DEF AssignCommits
      <3> QED
        BY <2>4, <2>7, <3>1, <3>2, <3>3, <3>4 DEF AdminNext, Unlock, SetActive
    <2>8. CASE \E r \in Slots : Fails(r)
      BY <2>8, <2>1, <2>3 DEF Fails, End
    <2> QED
      BY <2>5, <2>6, <2>7, <2>8 DEF Next
  <1> QED
    BY <1>1, Invariant, PTL DEF Spec, SpentTokensAreRefused
=============================================================================
