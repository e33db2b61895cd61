--------------------------- MODULE TokenRotation ---------------------------
(***************************************************************************)
(* The token side of the API: TokensService and AuthService over the       *)
(* RefreshToken table and the status of one account.                       *)
(*                                                                         *)
(* A call is one request to /auth/login, /auth/register, /auth/refresh or  *)
(* /auth/logout; each database statement is a step, and calls interleave   *)
(* between them.  A call issues at most one token pair, so the pair is     *)
(* named after the call: the access token and the refresh token c are the  *)
(* ones call c returned, and a family after the call that logged in.       *)
(* Passwords and second factors are checked before a call passes its       *)
(* status check; TwoFactor models them.                                    *)
(***************************************************************************)
EXTENDS Integers, FiniteSets

CONSTANTS
    Call,
    Nobody,            \* no call, no token
    REUSE_GRACE,       \* REUSE_GRACE_MS
    ACCESS_TTL,        \* lifetime of an access token
    REFRESH_TTL,       \* REFRESH_TTL_DAYS
    MaxTime,           \* bound: the clock stops here
    MaxStatusChanges   \* bound: suspensions and reactivations

ASSUME TokenAssumption ==
    /\ Nobody \notin Call
    /\ REUSE_GRACE \in Nat \ {0}
    /\ ACCESS_TTL \in Nat \ {0}
    /\ REFRESH_TTL \in Nat
    /\ ACCESS_TTL < REFRESH_TTL
    /\ MaxTime \in Nat
    /\ MaxStatusChanges \in Nat

VARIABLES
    now,     \* Date.now()
    status,  \* User.status; "none" before the account exists
    changes, \* status changes so far
    token,   \* what a token says: when it was issued, its family
    row,     \* its RefreshToken row: Absent, Unused, or usedAt
    pc,      \* where each call is
    tok,     \* the refresh token a call presents
    ans,     \* what the call answered
    late     \* calls past their status check at the last suspension

tokenVars == <<now, status, changes, token, row, pc, tok, ans, late>>

Absent == -1
Unused == -2
Never == -1
Time == 0..MaxTime

\* Where a call can be, and the places past its last look at the status.
Issuing == {"sibling", "claim", "issue"}
Places == Issuing \cup {"idle", "rotate", "revokeFamily", "dropExpired",
                        "login", "register", "create", "logout", "done"}
Answers == {"none", "tokens", "rejected", "failed", "unreachable", "ok"}

TokenTypeOK ==
    /\ now \in Time
    /\ status \in {"none", "active", "suspended"}
    /\ changes \in 0..MaxStatusChanges
    /\ token \in [Call -> [at : Time \cup {Never}, family : Call \cup {Nobody}]]
    /\ row \in [Call -> Time \cup {Absent, Unused}]
    /\ pc \in [Call -> Places]
    /\ tok \in [Call -> Call \cup {Nobody}]
    /\ ans \in [Call -> Answers]
    /\ late \subseteq Call

TokenInit ==
    /\ now = 0
    /\ status = "none"
    /\ changes = 0
    /\ token = [c \in Call |-> [at |-> Never, family |-> Nobody]]
    /\ row = [c \in Call |-> Absent]
    /\ pc = [c \in Call |-> "idle"]
    /\ tok = [c \in Call |-> Nobody]
    /\ ans = [c \in Call |-> "none"]
    /\ late = {}

-----------------------------------------------------------------------------
GoTo(c, place) ==
    /\ pc' = [pc EXCEPT ![c] = place]
    /\ UNCHANGED ans
Answer(c, a) ==
    /\ pc' = [pc EXCEPT ![c] = "done"]
    /\ ans' = [ans EXCEPT ![c] = a]

FamilyOf(c) == token[tok[c]].family
Expired(t) == token[t].at + REFRESH_TTL < now

\* Signs an access token and inserts a refresh row; the caller says which
\* rows the statement finds.
IssueTokens(c, family, rows) ==
    /\ token' = [token EXCEPT ![c] = [at |-> now, family |-> family]]
    /\ row' = [rows EXCEPT ![c] = Unused]
    /\ Answer(c, "tokens")
    /\ UNCHANGED <<now, status, changes, tok, late>>

-----------------------------------------------------------------------------
\* Mutant: a revoked token counts as just used.
RotateBranchRevives(t) ==
    IF status # "active" THEN "rejected"
    ELSE IF row[t] \in Time /\ now - row[t] >= REUSE_GRACE THEN "revokeFamily"
    ELSE IF row[t] # Unused THEN "sibling"
    ELSE IF Expired(t) THEN "dropExpired" ELSE "claim"

\* Mutant: the grace window has no end.
RotateBranchLenient(t) ==
    IF row[t] = Absent \/ status # "active" THEN "rejected"
    ELSE IF row[t] # Unused THEN "sibling"
    ELSE IF Expired(t) THEN "dropExpired" ELSE "claim"

\* Mutant: there is no grace window.
RotateBranchStrict(t) ==
    IF row[t] = Absent \/ status # "active" THEN "rejected"
    ELSE IF row[t] # Unused THEN "revokeFamily"
    ELSE IF Expired(t) THEN "dropExpired" ELSE "claim"

\* Mutant: the status of the account is not looked at.
RotateBranchAnyStatus(t) ==
    IF row[t] = Absent THEN "rejected"
    ELSE IF row[t] # Unused
         THEN IF now - row[t] < REUSE_GRACE THEN "sibling" ELSE "revokeFamily"
    ELSE IF Expired(t) THEN "dropExpired" ELSE "claim"

\* What rotate decides from the row and the user it read, in the code's order.
RotateBranch(t) ==
    IF row[t] = Absent \/ status # "active" THEN "rejected"
    ELSE IF row[t] # Unused
         THEN IF now - row[t] < REUSE_GRACE THEN "sibling" ELSE "revokeFamily"
    ELSE IF Expired(t) THEN "dropExpired" ELSE "claim"

\* rotate: findUnique by the hash of the token, with its user.
RotateRead(c) ==
    LET branch == RotateBranch(tok[c]) IN
    /\ pc[c] = "rotate"
    /\ IF branch = "rejected" THEN Answer(c, branch) ELSE GoTo(c, branch)
    /\ UNCHANGED <<now, status, changes, token, row, tok, late>>

\* A replay after the window: deleteMany on the family, then 401.
RevokeFamily(c) ==
    /\ pc[c] = "revokeFamily"
    /\ row' = [t \in Call |-> IF token[t].family = FamilyOf(c) THEN Absent ELSE row[t]]
    /\ Answer(c, "rejected")
    /\ UNCHANGED <<now, status, changes, token, tok, late>>

\* delete of one row throws when another request already deleted it.
DropExpired(c) ==
    /\ pc[c] = "dropExpired"
    /\ row' = [row EXCEPT ![tok[c]] = Absent]
    /\ Answer(c, IF row[tok[c]] = Absent THEN "failed" ELSE "rejected")
    /\ UNCHANGED <<now, status, changes, token, tok, late>>

\* Mutant: the update does not ask for usedAt: null.
ClaimUnconditional(c) ==
    /\ pc[c] = "claim"
    /\ \/ /\ row[tok[c]] # Absent
          /\ IssueTokens(c, FamilyOf(c), [row EXCEPT ![tok[c]] = now])
       \/ /\ row[tok[c]] = Absent
          /\ GoTo(c, "sibling")
          /\ UNCHANGED <<now, status, changes, token, row, tok, late>>

\* One transaction: the conditional update and, if it hit the row, the new
\* pair.  A call that finds the row used, or gone, becomes a sibling.
Claim(c) ==
    /\ pc[c] = "claim"
    /\ \/ /\ row[tok[c]] = Unused
          /\ IssueTokens(c, FamilyOf(c), [row EXCEPT ![tok[c]] = now])
       \/ /\ row[tok[c]] # Unused
          /\ GoTo(c, "sibling")
          /\ UNCHANGED <<now, status, changes, token, row, tok, late>>

\* A concurrent sibling gets a pair of its own in the same family.
Sibling(c) ==
    /\ pc[c] = "sibling"
    /\ IssueTokens(c, FamilyOf(c), row)

-----------------------------------------------------------------------------
\* login, login2fa and loginWithPasskey: read the user, assertActive.
LoginRead(c) ==
    /\ pc[c] = "login"
    /\ IF status = "active" THEN GoTo(c, "issue") ELSE Answer(c, "rejected")
    /\ UNCHANGED <<now, status, changes, token, row, tok, late>>

\* issueTokens with a fresh family.
Issue(c) ==
    /\ pc[c] = "issue"
    /\ IssueTokens(c, c, row)

\* register: refuse a taken email or handle ...
RegisterRead(c) ==
    /\ pc[c] = "register"
    /\ IF status = "none" THEN GoTo(c, "create") ELSE Answer(c, "rejected")
    /\ UNCHANGED <<now, status, changes, token, row, tok, late>>

\* ... and create user and wallet; the unique index stops the second of two.
CreateWithDefaultWallet(c) ==
    /\ pc[c] = "create"
    /\ IF status = "none"
       THEN GoTo(c, "issue") /\ status' = "active"
       ELSE Answer(c, "failed") /\ UNCHANGED status
    /\ UNCHANGED <<now, changes, token, row, tok, late>>

\* logout: deletes the row of the token presented, and no other.
Revoke(c) ==
    /\ pc[c] = "logout"
    /\ row' = [row EXCEPT ![tok[c]] = Absent]
    /\ Answer(c, "ok")
    /\ UNCHANGED <<now, status, changes, token, tok, late>>

\* Staff change the status; suspending deletes every refresh row with it.
UpdateStatus(s) ==
    /\ status # "none"
    /\ changes < MaxStatusChanges
    /\ status' = s
    /\ changes' = changes + 1
    /\ row' = IF s = "suspended" THEN [c \in Call |-> Absent] ELSE row
    /\ late' = IF s = "suspended" THEN {c \in Call : pc[c] \in Issuing} ELSE late
    /\ UNCHANGED <<now, token, pc, tok, ans>>

\* JwtStrategy.validate: signature and lifetime, then the status of today.
Authorized(t) ==
    /\ t # Nobody
    /\ now < token[t].at + ACCESS_TTL
    /\ status = "active"

\* Every step of a call after it was sent.
TokenStep(c) ==
    \/ RotateRead(c) \/ RevokeFamily(c) \/ DropExpired(c) \/ Claim(c) \/ Sibling(c)
    \/ LoginRead(c) \/ Issue(c) \/ RegisterRead(c) \/ CreateWithDefaultWallet(c)
    \/ Revoke(c)

-----------------------------------------------------------------------------
(* Properties.                                                             *)

\* The claim is atomic: the moment a token was first used is written once,
\* however many refreshes present it, and only a revocation removes it.
UsedOnce ==
    [][\A t \in Call : row[t] \in Time => row'[t] \in {row[t], Absent}]_row

\* No row of the family is left, and no call that read one before it went.
Ended(f) ==
    /\ token[f].family = f
    /\ \A t \in Call : row[t] # Absent => token[t].family # f
    /\ \A c \in Call : pc[c] \in {"sibling", "claim"} => FamilyOf(c) # f

\* A family that has ended, by logout, replay or suspension, stays ended: no
\* later refresh, with whatever token, brings it back.
RevokedStaysDead ==
    [][\A f \in Call : Ended(f) => Ended(f)']_<<row, token, pc, tok>>

\* "The second lock" of rotate: while the account is suspended the only
\* refresh rows are those of calls that had passed their status check when
\* the suspension committed; such a row never has descendants.
SuspendedRowsAreRaces ==
    status = "suspended" => {t \in Call : row[t] # Absent} \subseteq late
=============================================================================
