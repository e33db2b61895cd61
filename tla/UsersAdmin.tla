----------------------------- MODULE UsersAdmin -----------------------------
(***************************************************************************)
(* Who may do what: the roles and statuses of the users, UsersService's    *)
(* two changes with their audit entries, the guards in front of them, and  *)
(* the Users page of the staff console.                                    *)
(*                                                                         *)
(* A request reads the user row three times without a lock (JwtStrategy,   *)
(* PermissionsGuard, the "before" of the audit entry) and then commits the *)
(* change and its entry in one transaction; each is a step.  The access    *)
(* token carries the role its owner had when it was issued.                *)
(***************************************************************************)
EXTENDS Naturals, Sequences, FiniteSetsExt

CONSTANTS
    User,
    Console,        \* the users who work with the console; others call the API
    FirstRole,      \* the role of each user at the start
    Roles,          \* the roles in use
    MaxChanges      \* bound: audit entries

Permission == {"deposit.approve", "withdrawal.approve", "wallet.adjust",
               "user.manage", "audit.view", "transaction.view_all"}

ROLE_PERMISSIONS ==
    [super_admin |-> Permission,
     admin       |-> {"user.manage", "transaction.view_all", "audit.view"},
     finance     |-> {"deposit.approve", "withdrawal.approve", "wallet.adjust",
                      "transaction.view_all"},
     support     |-> {"transaction.view_all"},
     user        |-> {}]

Status == {"active", "suspended"}
Value == Roles \cup Status
Change == [kind : {"role"}, target : User, next : Roles]
          \cup [kind : {"status"}, target : User, next : Status]
Entry == [actor : User, kind : {"role", "status"}, target : User,
          old : Value, new : Value]

VARIABLES
    account,  \* role and status of each User row
    log,      \* the audit entries of the two changes, oldest first
    token,    \* the role inside each user's access token
    shown,    \* the Users page of each user: after how many entries it was read
    req,      \* each user's request, and how far it has come
    overtaken \* per user, whether another change committed since its guard

vars == <<account, log, token, shown, req, overtaken>>

NotOpen == MaxChanges + 1
NoChange == [kind |-> "none"]
Quiet == [at |-> "quiet", change |-> NoChange, old |-> "none"]
Busy == {"guard", "read", "commit", "answer"}

TypeOK ==
    /\ account \in [User -> [role : Roles, status : Status]]
    /\ log \in Seq(Entry) /\ Len(log) <= MaxChanges
    /\ token \in [User -> Roles]
    /\ shown \in [User -> 0..NotOpen]
    /\ req \in [User -> [at : Busy \cup {"quiet", "confirm"},
                         change : Change \cup {NoChange}, old : Value \cup {"none"}]]
    /\ overtaken \in [User -> BOOLEAN]

FirstAccounts == [u \in User |-> [role |-> FirstRole[u], status |-> "active"]]

Init ==
    /\ account = FirstAccounts
    /\ log = <<>>
    /\ token = FirstRole
    /\ shown = [u \in User |-> NotOpen]
    /\ req = [u \in User |-> Quiet]
    /\ overtaken = [u \in User |-> FALSE]

\* What an entry makes of the rows.
Applied(rows, e) ==
    [rows EXCEPT ![e.target] = IF e.kind = "role" THEN [@ EXCEPT !.role = e.new]
                               ELSE [@ EXCEPT !.status = e.new]]
Of(row, kind) == IF kind = "role" THEN row.role ELSE row.status

\* The value the first n entries leave a column of a user's row with: that of
\* the latest entry about it.
AfterEntry(n, u, kind) ==
    LET about == {i \in 1..n : log[i].target = u /\ log[i].kind = kind}
    IN  IF about = {} THEN Of(FirstAccounts[u], kind) ELSE log[Max(about)].new
AfterEntries(n) ==
    [u \in User |-> [role |-> AfterEntry(n, u, "role"), status |-> AfterEntry(n, u, "status")]]

\* Mutant: a suspended user keeps what its role grants.
HeldWhenSuspended(u, p) == p \in ROLE_PERMISSIONS[account[u].role]

\* PermissionsGuard: authority is read from the table, never from the token.
Held(u, p) ==
    /\ account[u].status = "active"
    /\ p \in ROLE_PERMISSIONS[account[u].role]

MayManage(u) == account[u].status = "active" /\ "user.manage" \in ROLE_PERMISSIONS[account[u].role]

-----------------------------------------------------------------------------
(* The console.                                                            *)

\* Sign-in or refresh: the token is issued with the role of the moment.
IssueToken(u) ==
    /\ account[u].status = "active"
    /\ token[u] # account[u].role
    /\ token' = [token EXCEPT ![u] = account[u].role]
    /\ UNCHANGED <<account, log, shown, req, overtaken>>

\* The Users page: gated by the role of the session, filled by GET /users and
\* GET /roles, which the guard protects.
OpenUsers(u) ==
    /\ u \in Console /\ req[u] = Quiet
    /\ "user.manage" \in ROLE_PERMISSIONS[token[u]]
    /\ Held(u, "user.manage")
    /\ shown[u] # Len(log)
    /\ shown' = [shown EXCEPT ![u] = Len(log)]
    /\ UNCHANGED <<account, log, token, req, overtaken>>

\* A row offers other roles (super_admin to a super_admin) and the other
\* status, both as the page shows them, and never the user's own row.
Offered(u, row, c) ==
    /\ c.target # u
    /\ c.next # Of(row, c.kind)
    /\ c.next = "super_admin" => token[u] = "super_admin"

ConfirmChange(u, c) ==
    /\ req[u] = Quiet
    /\ shown[u] # NotOpen
    /\ Offered(u, AfterEntries(shown[u])[c.target], c)
    /\ req' = [req EXCEPT ![u] = [@ EXCEPT !.at = "confirm", !.change = c]]
    /\ UNCHANGED <<account, log, token, shown, overtaken>>

CancelDialog(u) ==
    /\ req[u].at = "confirm"
    /\ req' = [req EXCEPT ![u] = Quiet]
    /\ UNCHANGED <<account, log, token, shown, overtaken>>

Done == [Quiet EXCEPT !.at = "answer"]
Advance(u, at) ==
    req' = [req EXCEPT ![u] = IF at = "answer" THEN Done ELSE [@ EXCEPT !.at = at]]

\* JwtStrategy.validate: the row must be active; the role stays the token's.
Validated(u, c) ==
    IF account[u].status = "active"
    THEN [at |-> "guard", change |-> c, old |-> "none"]
    ELSE Done

\* "Suspend user", "Change role": one PATCH through the BFF.
RunChange(u) ==
    /\ req[u].at = "confirm"
    /\ req' = [req EXCEPT ![u] = Validated(u, @.change)]
    /\ UNCHANGED <<account, log, token, shown, overtaken>>

\* A client that is not the console asks for what it likes.
CallApi(u, c) ==
    /\ u \notin Console /\ req[u] = Quiet
    /\ req' = [req EXCEPT ![u] = Validated(u, c)]
    /\ UNCHANGED <<account, log, token, shown, overtaken>>

-----------------------------------------------------------------------------
(* The request.                                                            *)

CanActivate(u) ==
    /\ req[u].at = "guard"
    /\ Advance(u, IF Held(u, "user.manage") THEN "read" ELSE "answer")
    /\ overtaken' = [overtaken EXCEPT ![u] = FALSE]
    /\ UNCHANGED <<account, log, token, shown>>

\* Mutant: any manager may assign super_admin.
RefusedCrown(u, c) == c.target = u

\* updateStatus and updateRole: nobody changes oneself, and super_admin is
\* assigned by an actor whose token says super_admin.
Refused(u, c) ==
    \/ c.target = u
    \/ c.kind = "role" /\ c.next = "super_admin" /\ token[u] # "super_admin"

\* findById: the "before" of the audit entry.
ReadBefore(u) ==
    /\ req[u].at = "read"
    /\ req' = [req EXCEPT ![u] =
                 IF Refused(u, @.change) THEN Done
                 ELSE [at |-> "commit", change |-> @.change,
                       old |-> Of(account[@.change.target], @.change.kind)]]
    /\ UNCHANGED <<account, log, token, shown, overtaken>>

EntryOf(u) ==
    [actor |-> u, kind |-> req[u].change.kind, target |-> req[u].change.target,
     old |-> req[u].old, new |-> req[u].change.next]

\* Mutant: the entry is written outside the transaction, and may be missing.
CommitUnlogged(u) ==
    /\ req[u].at = "commit" /\ Len(log) < MaxChanges
    /\ account' = Applied(account, EntryOf(u))
    /\ log' \in {log, Append(log, EntryOf(u))}
    /\ overtaken' = [x \in User |-> IF x = u THEN overtaken[u] ELSE req[x].at \in {"read", "commit"}]
    /\ Advance(u, "answer")
    /\ UNCHANGED <<token, shown>>

\* The transaction: the row (and, on a suspension, the refresh tokens: see
\* TokenRotation) and the audit entry.
Commit(u) ==
    /\ req[u].at = "commit" /\ Len(log) < MaxChanges
    /\ account' = Applied(account, EntryOf(u))
    /\ log' = Append(log, EntryOf(u))
    /\ overtaken' = [x \in User |-> IF x = u THEN overtaken[u] ELSE req[x].at \in {"read", "commit"}]
    /\ Advance(u, "answer")
    /\ UNCHANGED <<token, shown>>

\* The dialog closes; after a success the page is read again, unless the
\* answer was lost or refused.
Answer(u) ==
    /\ req[u].at = "answer"
    /\ req' = [req EXCEPT ![u] = Quiet]
    /\ \/ UNCHANGED shown
       \/ /\ shown[u] # NotOpen /\ Held(u, "user.manage")
          /\ shown' = [shown EXCEPT ![u] = Len(log)]
    /\ UNCHANGED <<account, log, token, overtaken>>

\* The bound on the entries is reached and nothing is under way.
AllOver ==
    /\ Len(log) = MaxChanges
    /\ \A u \in User : req[u].at \in {"quiet", "commit"}
    /\ UNCHANGED vars

Next ==
    \/ \E u \in User :
          \/ IssueToken(u) \/ OpenUsers(u) \/ CancelDialog(u) \/ RunChange(u)
          \/ \E c \in Change : ConfirmChange(u, c) \/ CallApi(u, c)
          \/ CanActivate(u) \/ ReadBefore(u) \/ Commit(u) \/ Answer(u)
    \/ AllOver

Spec == Init /\ [][Next]_vars

-----------------------------------------------------------------------------
(* Properties.                                                             *)

\* The self-lockout rule of updateStatus and updateRole keeps an administrator
\* in place: as long as no request is overtaken between its guard and its
\* commit, somebody active may manage users, however many changes are made.
ManagerRemainsStep ==
    (\E u \in User : MayManage(u)) /\ (\A u \in User : ~MayManage(u)')
      => \E u \in User : req[u].at = "commit" /\ req'[u].at = "answer" /\ overtaken[u]
ManagerRemains == [][ManagerRemainsStep]_account

\* The audit entries tell the story of each row: applied in order they give
\* the table, and each "old value" is the previous "new value" unless another
\* change of the row came between the read and the commit.
AuditTells ==
    /\ account = AfterEntries(Len(log))
    /\ \A u \in User : req[u].at = "commit" =>
          \/ overtaken[u]
          \/ req[u].old = Of(account[req[u].change.target], req[u].change.kind)

\* super_admin is handed down: whoever assigns it has been one.
CrownedByOnceSuper ==
    \A i \in 1..Len(log) : log[i].new = "super_admin" =>
       \E n \in 0..(i - 1) : AfterEntries(n)[log[i].actor].role = "super_admin"

\* "Takes effect on their next request", "read authority from the DB, never
\* from the token": a request about to assign super_admin is a super_admin's,
\* unless the table changed after its guard had read it.
OnlySuperAdminCrowns ==
    \A u \in User :
        req[u].at = "commit" /\ req[u].change.kind = "role" /\ req[u].change.next = "super_admin"
        => overtaken[u] \/ account[u].role = "super_admin"
=============================================================================
