----------------------------- MODULE TwoFactor -----------------------------
(***************************************************************************)
(* The TOTP second factor of one account: TwoFactorService over the three  *)
(* columns of its User row, the security page that drives it, and the      *)
(* requests that ask for it: the second login step and step-up.            *)
(*                                                                         *)
(* A session is a browser tab; it runs one request at a time, and every    *)
(* database statement of its handler is a step.  No statement locks the    *)
(* row: a handler writes what it decided from the row it read earlier.     *)
(* A secret is numbered in the order of creation, a recovery code by its   *)
(* set and its place in it; a TOTP code is the secret it is made from.     *)
(***************************************************************************)
EXTENDS Naturals, FiniteSets

CONSTANTS
    Session,
    RECOVERY_COUNT,
    MaxSecrets,      \* bound: setups that store a secret
    MaxSets,         \* bound: enablings
    MaxRequests      \* bound: logins, step-ups and transfers

NoSecret == 0
NoCode == [set |-> 0, place |-> 0]
Secret == 1..MaxSecrets
RecoveryCode == [set : 1..MaxSets, place : 1..RECOVERY_COUNT]
Given == [totp : Secret \cup {NoSecret}, code : RecoveryCode \cup {NoCode}]
Nothing == [totp |-> NoSecret, code |-> NoCode]
Totp(x) == [totp |-> x, code |-> NoCode]
Recovery(c) == [totp |-> NoSecret, code |-> c]

VARIABLES
    user,      \* totpSecret, totpEnabled, totpRecoveryHashes of the User row
    secrets,   \* secrets generated so far
    sets,      \* sets of recovery codes generated so far
    pc,        \* where each session's handler is
    given,     \* the code it presents
    read,      \* the recovery codes it read
    stale,     \* the row was written since
    phase,     \* what the security page shows
    requests,  \* logins, step-ups and transfers so far
    uses,      \* per recovery code, how often it was accepted
    proved,    \* secrets a code of which was accepted by verifyAndEnable
    raced      \* some handler wrote from a row it should have read again

vars == <<user, secrets, sets, pc, given, read, stale, phase, requests, uses,
          proved, raced>>
pageVars == <<phase, requests>>
ghosts == <<uses, proved>>

Purpose == {"disable", "login", "stepUp"}
Places == {"idle", "setPending", "enable", "consumeRead", "consumeWrite", "proved"}
UserRow == [secret : Secret \cup {NoSecret}, enabled : BOOLEAN, codes : SUBSET RecoveryCode]

TypeOK ==
    /\ user \in UserRow
    /\ secrets \in 0..MaxSecrets /\ sets \in 0..MaxSets /\ requests \in 0..MaxRequests
    /\ pc \in [Session -> [at : Places, for : Purpose \cup {"none"}]]
    /\ given \in [Session -> Given]
    /\ read \in [Session -> SUBSET RecoveryCode]
    /\ stale \in [Session -> BOOLEAN]
    /\ phase \in [Session -> {"idle", "qr", "recovery", "enabled", "disabling"}]
    /\ uses \in [RecoveryCode -> Nat]
    /\ proved \subseteq Secret
    /\ raced \in BOOLEAN

Off == [secret |-> NoSecret, enabled |-> FALSE, codes |-> {}]
Idle == [at |-> "idle", for |-> "none"]

Init ==
    /\ user = Off
    /\ secrets = 0 /\ sets = 0 /\ requests = 0
    /\ pc = [s \in Session |-> Idle]
    /\ given = [s \in Session |-> Nothing]
    /\ read = [s \in Session |-> {}]
    /\ stale = [s \in Session |-> FALSE]
    /\ phase = [s \in Session |-> "idle"]
    /\ uses = [c \in RecoveryCode |-> 0]
    /\ proved = {}
    /\ raced = FALSE

At(s, place) == pc[s].at = place
GoTo(s, place) == pc' = [pc EXCEPT ![s].at = place]

\* The handler ends; it keeps nothing.
End(s) ==
    /\ pc' = [pc EXCEPT ![s] = Idle]
    /\ given' = [given EXCEPT ![s] = Nothing]
    /\ read' = [read EXCEPT ![s] = {}]

\* A write to the user row makes what the other handlers read stale.
Write(s, u) ==
    /\ user' = u
    /\ stale' = [x \in Session |-> IF x = s THEN FALSE ELSE ~At(x, "idle") \/ stale[x]]
    /\ raced' = (raced \/ stale[s])

\* The handler reads the row and goes on at a place.
Read(s, purpose, code, place) ==
    /\ pc' = [pc EXCEPT ![s] = [at |-> place, for |-> purpose]]
    /\ given' = [given EXCEPT ![s] = code]
    /\ stale' = [stale EXCEPT ![s] = FALSE]
    /\ UNCHANGED read

Show(s, p) == phase' = [phase EXCEPT ![s] = p]

-----------------------------------------------------------------------------
(* Enrolment: the security page and setup, verifyAndEnable.                *)

\* The page is loaded: it shows what the server says.
Load(s) ==
    /\ At(s, "idle")
    /\ Show(s, IF user.enabled THEN "enabled" ELSE "idle")
    /\ UNCHANGED <<user, secrets, sets, pc, given, read, stale, requests, ghosts, raced>>

\* Mutant: setup does not look whether 2FA is on.
SetupReadUnchecked(s) ==
    /\ At(s, "idle") /\ phase[s] = "idle" /\ secrets < MaxSecrets
    /\ Read(s, "none", Nothing, "setPending")
    /\ UNCHANGED <<user, secrets, sets, pageVars, ghosts, raced>>

\* "Enable 2FA": refused while it is on.
SetupRead(s) ==
    /\ At(s, "idle") /\ phase[s] = "idle" /\ secrets < MaxSecrets
    /\ ~user.enabled
    /\ Read(s, "none", Nothing, "setPending")
    /\ UNCHANGED <<user, secrets, sets, pageVars, ghosts, raced>>

SetTotpPending(s) ==
    /\ At(s, "setPending") /\ secrets < MaxSecrets
    /\ secrets' = secrets + 1
    /\ Write(s, [Off EXCEPT !.secret = secrets'])
    /\ End(s)
    /\ Show(s, "qr")
    /\ UNCHANGED <<sets, requests, ghosts>>

\* Mutant: a code of any secret will do.
VerifyReadAny(s, x) ==
    /\ At(s, "idle") /\ phase[s] = "qr" /\ sets < MaxSets
    /\ user.secret # NoSecret
    /\ Read(s, "none", Totp(x), "enable")
    /\ proved' = proved \cup {x}
    /\ UNCHANGED <<user, secrets, sets, pageVars, uses, raced>>

\* "Verify & enable": the code must be one of the secret in the row.
VerifyRead(s, x) ==
    /\ At(s, "idle") /\ phase[s] = "qr" /\ sets < MaxSets
    /\ x = user.secret
    /\ Read(s, "none", Totp(x), "enable")
    /\ proved' = proved \cup {x}
    /\ UNCHANGED <<user, secrets, sets, pageVars, uses, raced>>

\* The update names only totpEnabled and the hashes: the secret is whatever
\* the row holds by now.
EnableTotp(s) ==
    /\ At(s, "enable") /\ sets < MaxSets
    /\ sets' = sets + 1
    /\ Write(s, [user EXCEPT !.enabled = TRUE,
                             !.codes = [set : {sets'}, place : 1..RECOVERY_COUNT]])
    /\ End(s)
    /\ Show(s, "recovery")
    /\ UNCHANGED <<secrets, requests, ghosts>>

\* "I've saved them", "Turn off" and "Cancel".
PressOn(s) ==
    /\ \/ phase[s] = "recovery" /\ Show(s, "enabled")
       \/ phase[s] = "enabled" /\ Show(s, "disabling")
       \/ phase[s] = "disabling" /\ Show(s, "enabled")
    /\ UNCHANGED <<user, secrets, sets, pc, given, read, stale, requests, ghosts, raced>>

-----------------------------------------------------------------------------
(* Proving the factor: disable, the second login step and step-up.         *)

\* Where the purpose may be asked for, and what a request of it costs.
Asked(s, purpose) ==
    IF purpose = "disable"
    THEN phase[s] = "disabling" /\ UNCHANGED requests
    ELSE requests < MaxRequests /\ requests' = requests + 1

\* disable and verifyForLogin read the row; proveFactor accepts a TOTP code
\* of its secret or one of its recovery codes.  Anything else is refused.
ProveFactor(s, purpose, code) ==
    /\ At(s, "idle") /\ Asked(s, purpose)
    /\ user.enabled
    /\ \/ /\ code.totp # NoSecret /\ code.totp = user.secret
          /\ Read(s, purpose, code, "proved")
       \/ /\ code.code \in user.codes
          /\ Read(s, purpose, code, "consumeRead")
    /\ UNCHANGED <<user, secrets, sets, phase, ghosts, raced>>

\* consumeRecoveryHash: reads the list again ...
ConsumeRead(s) ==
    /\ At(s, "consumeRead")
    /\ GoTo(s, "consumeWrite")
    /\ read' = [read EXCEPT ![s] = user.codes]
    /\ raced' = (raced \/ stale[s])
    /\ stale' = [stale EXCEPT ![s] = FALSE]
    /\ UNCHANGED <<user, secrets, sets, given, pageVars, ghosts>>

\* Mutant: the used code stays in the list.
ConsumeWriteKeeps(s) ==
    /\ At(s, "consumeWrite")
    /\ Write(s, [user EXCEPT !.codes = read[s]])
    /\ uses' = [uses EXCEPT ![given[s].code] = @ + 1]
    /\ GoTo(s, "proved")
    /\ read' = [read EXCEPT ![s] = {}]
    /\ UNCHANGED <<secrets, sets, given, pageVars, proved>>

\* ... and writes it back without the code.
ConsumeWrite(s) ==
    /\ At(s, "consumeWrite")
    /\ Write(s, [user EXCEPT !.codes = read[s] \ {given[s].code}])
    /\ uses' = [uses EXCEPT ![given[s].code] = @ + 1]
    /\ GoTo(s, "proved")
    /\ read' = [read EXCEPT ![s] = {}]
    /\ UNCHANGED <<secrets, sets, given, pageVars, proved>>

DisableTotp(s) ==
    /\ At(s, "proved") /\ pc[s].for = "disable"
    /\ Write(s, Off)
    /\ End(s)
    /\ Show(s, "idle")
    /\ UNCHANGED <<secrets, sets, requests, ghosts>>

\* The second login step ends in tokens (TokenRotation).
Login2fa(s) ==
    /\ At(s, "proved") /\ pc[s].for = "login"
    /\ End(s)
    /\ UNCHANGED <<user, secrets, sets, stale, pageVars, ghosts, raced>>

\* Step-up ends in a grant (KeyedCalls).
StepUp(s) ==
    /\ At(s, "proved") /\ pc[s].for = "stepUp"
    /\ End(s)
    /\ UNCHANGED <<user, secrets, sets, stale, pageVars, ghosts, raced>>

\* Nobody has to ask for anything.
Rest == (\A s \in Session : At(s, "idle")) /\ UNCHANGED vars

Next ==
    \/ \E s \in Session :
          \/ Load(s) \/ SetupRead(s) \/ SetTotpPending(s) \/ EnableTotp(s) \/ PressOn(s)
          \/ \E x \in 1..secrets : VerifyRead(s, x)
          \/ \E purpose \in Purpose :
                \/ \E x \in 1..secrets : ProveFactor(s, purpose, Totp(x))
                \/ \E c \in [set : 1..sets, place : 1..RECOVERY_COUNT] :
                      ProveFactor(s, purpose, Recovery(c))
          \/ ConsumeRead(s) \/ ConsumeWrite(s)
          \/ DisableTotp(s) \/ Login2fa(s) \/ StepUp(s)
    \/ Rest

Spec == Init /\ [][Next]_vars

-----------------------------------------------------------------------------
(* Properties.  The handlers write from a row they read without a lock, so *)
(* they are stated for behaviours in which no handler wrote from a row     *)
(* that had changed; the races themselves are listed in the README.        *)

\* "Prove the authenticator works, then enable": the secret 2FA is on with is
\* one whose code verifyAndEnable accepted, so the owner can log in.
EnabledSecretProved == user.enabled /\ ~raced => user.secret \in proved

\* "Each works once": a recovery code is accepted for one login, step-up or
\* disable, and the codes left in the row are the unused ones of the set
\* shown last.
RecoveryCodesOnce ==
    ~raced =>
      /\ \A c \in RecoveryCode : uses[c] <= 1
      /\ user.enabled =>
           user.codes = {c \in RecoveryCode : c.set = sets /\ uses[c] = 0}

\* "Never silently downgrade": 2FA goes from on to off by a disable that
\* proved the factor, or by a setup that read the row while it was off.
NoSilentDowngradeStep ==
    user.enabled /\ ~user'.enabled =>
        \E s \in Session :
           /\ \/ At(s, "proved") /\ pc[s].for = "disable"
              \/ At(s, "setPending") /\ stale[s]
           /\ pc'[s] = Idle
NoSilentDowngrade == [][NoSilentDowngradeStep]_user
=============================================================================
