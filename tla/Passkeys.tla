------------------------------ MODULE Passkeys ------------------------------
(***************************************************************************)
(* Passkeys: PasskeysService over the Passkey table, the two ceremonies of *)
(* the customer app (options, authenticator, verify) and the list on the   *)
(* security page.                                                          *)
(*                                                                         *)
(* A session is a tab of one user and runs one ceremony at a time.  The    *)
(* challenge of a ceremony is a signed token, stored nowhere: an assertion *)
(* can be sent again, and only the signature counter tells.                *)
(***************************************************************************)
EXTENDS Naturals, FiniteSets

CONSTANTS
    Session, User, Credential,
    Nobody,
    OwnerOf,        \* the user of a session
    Synced,         \* credentials whose authenticator has no counter
    MaxCount        \* bound: signatures of one authenticator

VARIABLES
    row,      \* the Passkey row of a credential: owner and counter
    device,   \* the counter inside the authenticator
    made,     \* credentials the authenticators have made
    pc,       \* where each session's ceremony is
    pick,     \* its credential
    signed,   \* the counter its assertion carries
    shown,    \* the list the security page shows
    accepted, \* assertions accepted, as <<credential, counter>>
    again,    \* assertions accepted more than once
    raced     \* credentials two verifications of which overlapped

vars == <<row, device, made, pc, pick, signed, shown, accepted, again, raced>>

NoRow == [owner |-> Nobody, counter |-> 0]
Places == {"idle", "create", "list", "check", "count"}
Uses == {"none", "register", "login", "stepUp"}

TypeOK ==
    /\ row \in [Credential -> [owner : User, counter : 0..MaxCount] \cup {NoRow}]
    /\ device \in [Credential -> 0..MaxCount]
    /\ made \subseteq Credential
    /\ pc \in [Session -> [at : Places, for : Uses]]
    /\ pick \in [Session -> Credential \cup {Nobody}]
    /\ signed \in [Session -> 0..MaxCount]
    /\ shown \in [Session -> SUBSET Credential]
    /\ accepted \subseteq Credential \X (0..MaxCount)
    /\ again \subseteq accepted
    /\ raced \subseteq Credential

Idle == [at |-> "idle", for |-> "none"]

Init ==
    /\ row = [c \in Credential |-> NoRow]
    /\ device = [c \in Credential |-> 0]
    /\ made = {}
    /\ pc = [s \in Session |-> Idle]
    /\ pick = [s \in Session |-> Nobody]
    /\ signed = [s \in Session |-> 0]
    /\ shown = [s \in Session |-> {}]
    /\ accepted = {} /\ again = {} /\ raced = {}

Stored(c) == row[c].owner # Nobody
Mine(s) == {c \in Credential : row[c].owner = OwnerOf[s]}
GoTo(s, at, for) == pc' = [pc EXCEPT ![s] = [at |-> at, for |-> for]]
Rest(s) == pc' = [pc EXCEPT ![s] = Idle]
ghosts == <<accepted, again, raced>>

-----------------------------------------------------------------------------
(* Registration and the list.                                              *)

\* "Add passkey": the options exclude the credentials of the user, and the
\* authenticator makes a new one, which has signed no assertion yet.
RegistrationOptions(s, c) ==
    /\ pc[s] = Idle
    /\ c \notin made
    /\ made' = made \cup {c}
    /\ pick' = [pick EXCEPT ![s] = c]
    /\ signed' = [signed EXCEPT ![s] = 0]
    /\ GoTo(s, "create", "register")
    /\ UNCHANGED <<row, device, shown, ghosts>>

\* The challenge is bound to the user of the session; the row starts with the
\* authenticator's counter.
VerifyRegistration(s) ==
    /\ pc[s].at = "create"
    /\ row' = [row EXCEPT ![pick[s]] =
                  [owner |-> OwnerOf[s], counter |-> device[pick[s]]]]
    /\ GoTo(s, "list", "register")
    /\ UNCHANGED <<device, made, pick, signed, shown, ghosts>>

\* The prompt is dismissed, or the answer of the verification is lost: the
\* page says so and keeps its list.
AbandonRegistration(s) ==
    /\ pc[s].for = "register"
    /\ Rest(s)
    /\ UNCHANGED <<row, device, made, pick, signed, shown, ghosts>>

\* The page fetches the list again.
List(s) ==
    /\ pc[s].at = "list"
    /\ Rest(s)
    /\ shown' = [shown EXCEPT ![s] = Mine(s)]
    /\ UNCHANGED <<row, device, made, pick, signed, ghosts>>

\* "Remove", confirmed: own credentials only; a 404 leaves the list as it is.
Remove(s, c) ==
    /\ c \in shown[s]
    /\ IF c \in Mine(s)
       THEN /\ row' = [row EXCEPT ![c] = NoRow]
            /\ shown' = [shown EXCEPT ![s] = @ \ {c}]
       ELSE UNCHANGED <<row, shown>>
    /\ UNCHANGED <<device, made, pc, pick, signed, ghosts>>

-----------------------------------------------------------------------------
(* Authentication: sign-in and step-up.                                    *)

\* authenticationOptions names no credential: any authenticator at hand signs.
Authenticate(s, for, c) ==
    /\ pc[s] = Idle
    /\ c \in made
    /\ c \notin Synced => device[c] < MaxCount
    /\ device' = [device EXCEPT ![c] = IF c \in Synced THEN 0 ELSE @ + 1]
    /\ signed' = [signed EXCEPT ![s] = device'[c]]
    /\ pick' = [pick EXCEPT ![s] = c]
    /\ GoTo(s, "check", for)
    /\ UNCHANGED <<row, made, shown, ghosts>>

\* The same assertion arrives again within the five minutes of its challenge.
SendAgain(s) ==
    /\ pc[s] = Idle
    /\ signed[s] > 0
    /\ GoTo(s, "check", "login")
    /\ UNCHANGED <<row, device, made, pick, signed, shown, ghosts>>

\* Mutant: the stored counter is not compared.
CounterMovesNever(stored, count) == count >= 0

\* What verifyAuthenticationResponse asks of the counters.
CounterMoves(stored, count) ==
    count > 0 \/ stored > 0 => count > stored

\* verifyAuthentication reads the row: it must exist, and belong to the caller
\* of a step-up.
CheckAssertion(s) ==
    /\ pc[s].at = "check"
    /\ IF /\ Stored(pick[s])
          /\ pc[s].for = "stepUp" => row[pick[s]].owner = OwnerOf[s]
          /\ CounterMoves(row[pick[s]].counter, signed[s])
       THEN GoTo(s, "count", pc[s].for)
       ELSE Rest(s)
    /\ UNCHANGED <<row, device, made, pick, signed, shown, ghosts>>

Accept(s) ==
    /\ again' = again \cup ({<<pick[s], signed[s]>>} \cap accepted)
    /\ accepted' = accepted \cup {<<pick[s], signed[s]>>}
    /\ raced' = raced \cup {c \in {pick[s]} :
                   \E x \in Session \ {s} : pc[x].at = "count" /\ pick[x] = c}

\* Mutant: the caller is signed in although the row is gone.
StoreCounterUnchecked(s) ==
    /\ pc[s].at = "count"
    /\ row' = [row EXCEPT ![pick[s]].counter = signed[s]]
    /\ Accept(s)
    /\ Rest(s)
    /\ UNCHANGED <<device, made, pick, signed, shown>>

\* ... then writes the new counter; the update throws if the row is gone, and
\* only after it is the caller signed in or given a grant.
StoreCounter(s) ==
    /\ pc[s].at = "count"
    /\ IF Stored(pick[s])
       THEN /\ row' = [row EXCEPT ![pick[s]].counter = signed[s]]
            /\ Accept(s)
       ELSE UNCHANGED <<row, ghosts>>
    /\ Rest(s)
    /\ UNCHANGED <<device, made, pick, signed, shown>>

Next ==
    \E s \in Session :
       \/ \E c \in Credential : RegistrationOptions(s, c) \/ Remove(s, c)
       \/ VerifyRegistration(s) \/ AbandonRegistration(s) \/ List(s)
       \/ \E c \in Credential, for \in {"login", "stepUp"} : Authenticate(s, for, c)
       \/ SendAgain(s) \/ CheckAssertion(s) \/ StoreCounter(s)

Spec == Init /\ [][Next]_vars

-----------------------------------------------------------------------------
(* Properties.                                                             *)

\* "The counter must only ever go up": unless two verifications of one
\* credential overlap, an assertion is accepted once, however often it is
\* sent, and the stored counter is the highest accepted.
AssertionOnce ==
    \A c \in Credential \ (raced \cup Synced) :
      /\ \A n \in 0..MaxCount : <<c, n>> \notin again
      /\ Stored(c) => \A n \in 0..MaxCount : <<c, n>> \in accepted => n <= row[c].counter

\* A removed passkey signs nobody in, also when it is removed while its
\* assertion is being verified.
RemovedNeverSignsInStep ==
    \A a \in accepted' \ accepted : Stored(a[1]) /\ Stored(a[1])'
RemovedNeverSignsIn == [][RemovedNeverSignsInStep]_accepted
=============================================================================
