----------------------------- MODULE Accounts -----------------------------
(***************************************************************************)
(* Accounts and staff: the second factor, the passkeys, the users'         *)
(* administration and the approval desk.  They share no state the models   *)
(* keep, so a behaviour is about one of them: part says which.  Each is    *)
(* instantiated over its own names; a variable that two of them call alike *)
(* is declared once, and one the part does not use stays 0.                *)
(***************************************************************************)
EXTENDS Naturals

CONSTANTS
    Session, RECOVERY_COUNT, MaxSecrets, MaxSets, MaxRequests,    \* TwoFactor
    User, Credential, Nobody, OwnerOf, Synced, MaxCount,          \* Passkeys
    Console, FirstRole, Roles, MaxChanges,                        \* UsersAdmin
    Staff, Txn, Withdrawals, OVERVIEW_TAKE, MaxSends, MaxLost     \* ApprovalDesk

FactorBounds ==
    MaxSecrets \in Nat /\ MaxSets \in Nat /\ MaxRequests \in Nat /\ RECOVERY_COUNT \in Nat
KeyBounds ==
    /\ MaxCount \in Nat /\ Nobody \notin Credential /\ Nobody \notin User
    /\ OwnerOf \in [Session -> User]
UsersBounds == MaxChanges \in Nat /\ FirstRole \in [User -> Roles]

ASSUME AccountsAssumption == FactorBounds /\ KeyBounds /\ UsersBounds /\ MaxSends \in Nat

VARIABLES part,
    user, secrets, sets, pc, given, read, stale, phase, requests, uses, proved, raced,
    row, device, made, pick, signed, shown, accepted, again,
    account, log, token, req, overtaken,
    txn, page, asked, coming, dialog, call, toast, sends, lost, heard, repeats

TF == INSTANCE TwoFactor
PK == INSTANCE Passkeys
UA == INSTANCE UsersAdmin
AD == INSTANCE ApprovalDesk

factorVars == <<user, secrets, sets, given, read, stale, phase, requests, uses, proved>>
keyVars == <<row, device, made, pick, signed, accepted, again>>
userVars == <<account, log, token, req, overtaken>>
deskVars == <<txn, page, asked, coming, dialog, call, toast, sends, lost, heard, repeats>>
vars == <<part, pc, raced, shown, factorVars, keyVars, userVars, deskVars>>

-----------------------------------------------------------------------------
NoFactors ==
    /\ user = 0 /\ secrets = 0 /\ sets = 0 /\ given = 0 /\ read = 0 /\ stale = 0
    /\ phase = 0 /\ requests = 0 /\ uses = 0 /\ proved = 0
NoKeys ==
    /\ row = 0 /\ device = 0 /\ made = 0 /\ pick = 0 /\ signed = 0
    /\ accepted = 0 /\ again = 0
NoUsers == account = 0 /\ log = 0 /\ token = 0 /\ req = 0 /\ overtaken = 0
NoDesks ==
    /\ txn = 0 /\ page = 0 /\ asked = 0 /\ coming = 0 /\ dialog = 0 /\ call = 0
    /\ toast = 0 /\ sends = 0 /\ lost = 0 /\ heard = 0 /\ repeats = 0

Init ==
    \/ part = "twoFactor" /\ TF!Init /\ shown = 0 /\ NoKeys /\ NoUsers /\ NoDesks
    \/ part = "passkeys" /\ PK!Init /\ NoFactors /\ NoUsers /\ NoDesks
    \/ part = "users" /\ UA!Init /\ pc = 0 /\ raced = 0 /\ NoFactors /\ NoKeys /\ NoDesks
    \/ part = "desk" /\ AD!Init /\ pc = 0 /\ raced = 0 /\ shown = 0
          /\ NoFactors /\ NoKeys /\ NoUsers

Next ==
    \/ part = "twoFactor" /\ TF!Next /\ UNCHANGED <<part, shown, keyVars, userVars, deskVars>>
    \/ part = "passkeys" /\ PK!Next /\ UNCHANGED <<part, factorVars, userVars, deskVars>>
    \/ part = "users" /\ UA!Next /\ UNCHANGED <<part, pc, raced, factorVars, keyVars, deskVars>>
    \/ /\ part = "desk" /\ AD!Next
       /\ UNCHANGED <<part, pc, raced, shown, factorVars, keyVars, userVars>>

Spec == Init /\ [][Next]_vars

-----------------------------------------------------------------------------
(* What each part promises; its module states the conjuncts one by one.     *)

\* two-factor.service.ts, "prove the authenticator works, then enable", "each
\* works once", "never silently downgrade": unless a handler wrote from a row
\* that had changed, the secret 2FA is on with is one whose code was
\* accepted, and a recovery code is accepted once; 2FA goes off by a disable
\* that proved the factor, or by a setup that read the row while it was off.
SecondFactorHolds ==
    /\ [](part = "twoFactor" =>
              TF!TypeOK /\ TF!EnabledSecretProved /\ TF!RecoveryCodesOnce)
    /\ [][part = "twoFactor" => TF!NoSilentDowngradeStep]_vars

\* passkeys.service.ts keeps a signature counter: unless two verifications of
\* one credential overlap, an assertion is accepted once however often it is
\* sent; a removed passkey signs nobody in, also when it is removed while its
\* assertion is being verified.
PasskeysHold ==
    /\ [](part = "passkeys" => PK!TypeOK /\ PK!AssertionOnce)
    /\ [][part = "passkeys" => PK!RemovedNeverSignsInStep]_vars

\* users.service.ts writes row and audit entry in one transaction: the
\* entries, applied in order, give the table, and an old value is the one
\* before; whoever assigned super_admin had held it; and somebody who may
\* manage users remains, unless a change is overtaken between its guard and
\* its commit.
AdministrationHolds ==
    /\ [](part = "users" => UA!TypeOK /\ UA!AuditTells /\ UA!CrownedByOnceSuper)
    /\ [][part = "users" => UA!ManagerRemainsStep]_vars

\* row-actions.tsx: a desk says "approved", "rejected" or "already reviewed"
\* only of a request that was so decided, by itself or by the other desk; once
\* the pages it asked for have come, a request it was told to be decided is no
\* longer among its rows.  Until then the row can be pressed again, and the
\* answer to that names somebody else for the desk's own decision.
DeskTruthful == part = "desk" => AD!TypeOK /\ AD!ToastTruthful /\ AD!DecidedRowsLeave
=============================================================================
