------------------------------ MODULE Accounts ------------------------------
(***************************************************************************)
(* Who may act as whom: logins and their failed attempts, refresh tokens   *)
(* and their rotation, logouts, the roles of a user and the access tokens  *)
(* that carry a copy of them.                                              *)
(*                                                                         *)
(* A request is a slot of calls; it moves from statement to statement and  *)
(* commits last.  Statements read what is committed (READ COMMITTED); an   *)
(* UPDATE, DELETE or INSERT waits for the uncommitted writer of its row.   *)
(* A refresh token that is revoked or expired and that no call still holds *)
(* may be drawn again: find_active never returns it, so its old row is as  *)
(* good as none.                                                           *)
(***************************************************************************)
EXTENDS Naturals, FiniteSets

CONSTANTS Users, Roles,
          RoleLists,          (* the role sets an administrator may assign  *)
          Tokens,             (* refresh tokens alive at a time             *)
          Slots,              (* requests in flight at a time               *)
          MaxFailedAttempts,  (* login_max_failed_attempts                  *)
          None

ASSUME AccountConstants ==
  /\ RoleLists \subseteq SUBSET Roles
  /\ MaxFailedAttempts \in Nat \ {0}
  /\ None \notin Users \cup Tokens

VARIABLES account,   (* users: is_active, failed_login_attempts, blocked_at *)
          roles,     (* user_roles, committed                               *)
          tokens,    (* refresh_tokens                                      *)
          access,    (* the claims of the access tokens not yet expired     *)
          calls,     (* what each request in flight is doing                *)
          streak,    (* wrong passwords in a row, as the user counts them   *)
          asked      (* the last replacement of a user's roles: what it     *)
                     (* asked for, and what those asked for that committed  *)
                     (* while it was under way                              *)

vars == <<account, roles, tokens, access, calls, streak, asked>>

Call(kind, u, t, want, seen, step) ==
  [kind |-> kind, user |-> u, token |-> t, want |-> want, seen |-> seen,
   beside |-> {}, step |-> step]
Idle == Call("none", None, None, {}, {}, "idle")

-----------------------------------------------------------------------------
Init ==
  /\ account = [u \in Users |-> [active |-> TRUE, failed |-> 0, blocked |-> FALSE]]
  /\ roles \in [Users -> RoleLists]
  /\ tokens = [t \in Tokens |-> [user |-> None, state |-> "none", spent |-> FALSE]]
  /\ access = {}
  /\ calls = [s \in Slots |-> Idle]
  /\ streak = [u \in Users |-> 0]
  /\ asked = [u \in Users |-> [own |-> roles[u], beside |-> {}]]

End(s) == calls' = [calls EXCEPT ![s] = Idle]
Go(s, step) == calls' = [calls EXCEPT ![s].step = step]

(* create_access_token: the claims are a copy, and stay until they expire. *)
Mint(u, rs) == access' = access \cup {[user |-> u, roles |-> rs]}

Fresh(t) == tokens[t].state # "live" /\ \A s \in Slots : calls[s].token # t
NewRow(u) == [user |-> u, state |-> "live", spent |-> FALSE]

-----------------------------------------------------------------------------
(* The login.                                                              *)
MayLogIn(u) == account[u].active /\ ~account[u].blocked

(* increment_failed_attempts, then block. *)
OneMoreFailure(row) ==
  [row EXCEPT !.failed = @ + 1, !.blocked = row.failed + 1 >= MaxFailedAttempts]

(* The exception leaves through the unit of work that wrote: rollback. *)
AfterRaise(row, written) == row

LoginFails(u) ==
  /\ MayLogIn(u)
  /\ account' = [account EXCEPT ![u] = AfterRaise(@, OneMoreFailure(@))]
  /\ streak' = [streak EXCEPT ![u] = IF @ < MaxFailedAttempts THEN @ + 1 ELSE @]
  /\ UNCHANGED <<roles, tokens, access, calls, asked>>

ResetFailures(u) == account' = [account EXCEPT ![u].failed = 0, ![u].blocked = FALSE]

(* The right password: counters reset, claims built, committed. *)
LoginSucceeds(s, u) ==
  /\ calls[s] = Idle /\ MayLogIn(u)
  /\ ResetFailures(u)
  /\ streak' = [streak EXCEPT ![u] = 0]
  /\ calls' = [calls EXCEPT ![s] = Call("login", u, None, {}, roles[u], "authenticated")]
  /\ UNCHANGED <<roles, tokens, access, asked>>

(* The router goes on: the audit row and the refresh token, a transaction  *)
(* each, and the reply.  The account is not looked at again.               *)
IssueRefreshToken(s, t) ==
  /\ calls[s].step = "authenticated" /\ Fresh(t)
  /\ tokens' = [tokens EXCEPT ![t] = NewRow(calls[s].user)]
  /\ Mint(calls[s].user, calls[s].seen)
  /\ End(s)
  /\ UNCHANGED <<account, roles, streak, asked>>

-----------------------------------------------------------------------------
(* The exchange of a refresh token: one transaction, four statements.      *)
ExchangeFinds(s, t) ==
  /\ calls[s] = Idle /\ tokens[t].state = "live"
  /\ calls' = [calls EXCEPT ![s] = Call("exchange", tokens[t].user, t, {}, {}, "found")]
  /\ UNCHANGED <<account, roles, tokens, access, streak, asked>>

(* Fault: the roles are copied from a token minted before. *)
ReadOldClaims(s) ==
  /\ calls[s].step = "found"
  /\ \E a \in access \cup {[user |-> calls[s].user, roles |-> roles[calls[s].user]]} :
       a.user = calls[s].user /\ calls' = [calls EXCEPT ![s].step = "read", ![s].seen = a.roles]
  /\ UNCHANGED <<account, roles, tokens, access, streak, asked>>

(* find_by_id: the user and the roles; is_active and blocked_at are not    *)
(* looked at.                                                              *)
ExchangeReadsUser(s) ==
  /\ calls[s].step = "found"
  /\ calls' = [calls EXCEPT ![s].step = "read", ![s].seen = roles[calls[s].user]]
  /\ UNCHANGED <<account, roles, tokens, access, streak, asked>>

(* The row of t is locked by an uncommitted revocation.  One that finds    *)
(* the token revoked already locks nothing.                                *)
Locked(t) ==
  \E s \in Slots : calls[s].token = t /\ calls[s].step = "revoked" /\ tokens[t].state # "revoked"

ExchangeRevokes(s) ==
  /\ calls[s].step = "read" /\ ~Locked(calls[s].token)
  /\ Go(s, "revoked")
  /\ UNCHANGED <<account, roles, tokens, access, streak, asked>>

Revoked(t) == [tokens[t] EXCEPT !.state = "revoked", !.spent = TRUE]

(* Fault: the old token is left as it was. *)
AddOnly(s, t) ==
  /\ calls[s].kind = "exchange" /\ calls[s].step = "revoked" /\ Fresh(t)
  /\ tokens' = [tokens EXCEPT ![calls[s].token].spent = TRUE, ![t] = NewRow(calls[s].user)]
  /\ Mint(calls[s].user, calls[s].seen)
  /\ End(s)
  /\ UNCHANGED <<account, roles, streak, asked>>

(* The successor is added, both are committed, the access token is minted. *)
ExchangeCommits(s, t) ==
  /\ calls[s].kind = "exchange" /\ calls[s].step = "revoked" /\ Fresh(t)
  /\ tokens' = [tokens EXCEPT ![calls[s].token] = Revoked(calls[s].token),
                              ![t] = NewRow(calls[s].user)]
  /\ Mint(calls[s].user, calls[s].seen)
  /\ End(s)
  /\ UNCHANGED <<account, roles, streak, asked>>

LogoutRevokes(s, t) ==
  /\ calls[s] = Idle /\ tokens[t].state # "none" /\ ~Locked(t)
  /\ calls' = [calls EXCEPT ![s] = Call("logout", None, t, {}, {}, "revoked")]
  /\ UNCHANGED <<account, roles, tokens, access, streak, asked>>

LogoutCommits(s) ==
  /\ calls[s].kind = "logout" /\ calls[s].step = "revoked"
  /\ tokens' = [tokens EXCEPT ![calls[s].token] = Revoked(calls[s].token)]
  /\ End(s)
  /\ UNCHANGED <<account, roles, access, streak, asked>>

(* expires_at, and the exp claim, pass. *)
TokenExpires(t) ==
  /\ tokens[t].state = "live"
  /\ tokens' = [tokens EXCEPT ![t].state = "expired"]
  /\ UNCHANGED <<account, roles, access, calls, streak, asked>>

AccessExpires(a) ==
  /\ a \in access
  /\ access' = access \ {a}
  /\ UNCHANGED <<account, roles, tokens, calls, streak, asked>>

-----------------------------------------------------------------------------
(* Administration of accounts.                                             *)

(* PUT /users with is_active, and DELETE /users: the row stays. *)
SetActive(u, active) ==
  /\ account' = [account EXCEPT ![u].active = active]
  /\ UNCHANGED <<roles, tokens, access, calls, streak, asked>>

Unlock(u) ==
  /\ ResetFailures(u)
  /\ UNCHANGED <<roles, tokens, access, calls, streak, asked>>

(* PUT /users/{id}/roles: a DELETE of the rows its snapshot shows ...      *)
AssignStarts(s, u, want) ==
  /\ calls[s] = Idle
  /\ calls' = [calls EXCEPT ![s] = Call("assign", u, None, want, roles[u], "deleting")]
  /\ UNCHANGED <<account, roles, tokens, access, streak, asked>>

Rivals(s) == {r \in Slots \ {s} : calls[r].kind = "assign" /\ calls[r].user = calls[s].user}

(* Fault: rows are deleted only if they are not wanted. *)
DeleteNothing(s) ==
  /\ calls[s].step = "deleting"
  /\ calls' = [calls EXCEPT ![s].step = "deleted", ![s].seen = {}]
  /\ UNCHANGED <<account, roles, tokens, access, streak, asked>>

(* ... which waits for those another replacement is deleting ...           *)
AssignDeletes(s) ==
  /\ calls[s].step = "deleting"
  /\ \A r \in Rivals(s) :
       calls[r].step \in {"deleted", "inserted"} => calls[r].seen \cap calls[s].seen = {}
  /\ Go(s, "deleted")
  /\ UNCHANGED <<account, roles, tokens, access, streak, asked>>

(* ... and the INSERTs, which wait for the same row in other hands, being  *)
(* inserted or deleted there, and fail on the primary key if it is there   *)
(* already.                                                                *)
AssignInserts(s) ==
  /\ calls[s].step = "deleted"
  /\ \A r \in Rivals(s) :
       /\ calls[r].step = "inserted" => calls[r].want \cap calls[s].want = {}
       /\ calls[r].step \in {"deleted", "inserted"} => calls[r].seen \cap calls[s].want = {}
  /\ IF (roles[calls[s].user] \ calls[s].seen) \cap calls[s].want = {}
     THEN Go(s, "inserted") ELSE End(s)
  /\ UNCHANGED <<account, roles, tokens, access, streak, asked>>

(* Committed: the rows deleted here are gone for the DELETEs that wait. *)
AssignCommits(s) ==
  LET c == calls[s] IN
  /\ c.step = "inserted"
  /\ roles' = [roles EXCEPT ![c.user] = (@ \ c.seen) \cup c.want]
  /\ asked' = [asked EXCEPT ![c.user] = [own |-> c.want, beside |-> c.beside]]
  /\ calls' = [r \in Slots |->
       IF r = s THEN Idle
       ELSE IF r \in Rivals(s)
         THEN [calls[r] EXCEPT !.seen = @ \ c.seen, !.beside = @ \cup {c.want}]
         ELSE calls[r]]
  /\ UNCHANGED <<account, tokens, access, streak>>

(* A request fails before its commit: rollback. *)
Fails(s) ==
  /\ calls[s] # Idle
  /\ End(s)
  /\ UNCHANGED <<account, roles, tokens, access, streak, asked>>

-----------------------------------------------------------------------------
LoginNext ==
  \/ \E u \in Users : LoginFails(u) \/ \E s \in Slots : LoginSucceeds(s, u)
  \/ \E s \in Slots, t \in Tokens : IssueRefreshToken(s, t)

TokenNext ==
  \/ \E s \in Slots, t \in Tokens :
       ExchangeFinds(s, t) \/ ExchangeCommits(s, t) \/ LogoutRevokes(s, t)
  \/ \E s \in Slots : ExchangeReadsUser(s) \/ ExchangeRevokes(s) \/ LogoutCommits(s)
  \/ \E t \in Tokens : TokenExpires(t)
  \/ \E a \in access : AccessExpires(a)

AdminNext ==
  \/ \E u \in Users : Unlock(u) \/ \E b \in BOOLEAN : SetActive(u, b)
  \/ \E s \in Slots, u \in Users, want \in RoleLists : AssignStarts(s, u, want)
  \/ \E s \in Slots : AssignDeletes(s) \/ AssignInserts(s) \/ AssignCommits(s)

Next == LoginNext \/ TokenNext \/ AdminNext \/ \E s \in Slots : Fails(s)

(* Access tokens do expire; nothing else has to happen. *)
Claims == [user : Users, roles : SUBSET Roles]
Fairness == \A a \in Claims : WF_vars(AccessExpires(a))

Spec == Init /\ [][Next]_vars /\ Fairness

-----------------------------------------------------------------------------
TypeOK ==
  /\ account \in [Users -> [active : BOOLEAN, failed : Nat, blocked : BOOLEAN]]
  /\ roles \in [Users -> SUBSET Roles]
  /\ asked \in [Users -> [own : SUBSET Roles, beside : SUBSET SUBSET Roles]]
  /\ tokens \in [Tokens -> [user : Users \cup {None}, spent : BOOLEAN,
                            state : {"none", "live", "revoked", "expired"}]]
  /\ access \subseteq Claims
  /\ streak \in [Users -> 0 .. MaxFailedAttempts]
  /\ calls \in [Slots ->
       [kind : {"none", "login", "exchange", "logout", "assign"},
        user : Users \cup {None}, token : Tokens \cup {None},
        want : SUBSET Roles, seen : SUBSET Roles, beside : SUBSET SUBSET Roles,
        step : {"idle", "authenticated", "found", "read", "revoked",
                "deleting", "deleted", "inserted"}]]

(* Once a token was exchanged or logged out, no exchange that begins       *)
(* afterwards is served: only those that had found it before go on.        *)
SpentTokensAreRefused ==
  [][\A s \in Slots : calls[s] = Idle /\ calls'[s].kind = "exchange"
                        => ~tokens[calls'[s].token].spent]_vars

(* A user holds exactly the roles the last replacement asked for if none   *)
(* committed while it was under way, and otherwise those and the roles of  *)
(* some of these: each all or none, and never less than was asked for.     *)
RolesAsAsked ==
  \A u \in Users : \E kept \in SUBSET asked[u].beside :
    roles[u] = asked[u].own \cup UNION kept

(* A role taken away for good ends up in no valid access token, although   *)
(* the tokens carry copies and requests check nothing else.                *)
PrivilegesEnd ==
  \A u \in Users, r \in Roles :
    <>[](r \notin roles[u]) => <>[](\A a \in access : a.user = u => r \notin a.roles)

(* The lock the login promises after so many wrong passwords in a row. *)
LockedAfterFailures ==
  \A u \in Users : streak[u] >= MaxFailedAttempts => account[u].blocked
=============================================================================
