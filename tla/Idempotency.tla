---------------------------- MODULE Idempotency ----------------------------
(***************************************************************************)
(* The Idempotency-Key layer in front of the money routes:                 *)
(* IdempotencyInterceptor over IdempotencyService.                         *)
(*                                                                         *)
(* An attempt is one HTTP request.  It reserves its key by inserting a row *)
(* (unique per user and key), runs the handler, and completes the row with *)
(* the response, or releases it when anything after the reservation        *)
(* failed.  Every database statement is a step of its own, and attempts    *)
(* interleave between them.  The handler is a money handler of             *)
(* WalletLedger: it moves money in one transaction or not at all.          *)
(*                                                                         *)
(* A row is named after the attempt that inserted it, and a response after *)
(* the attempt whose handler produced it.                                  *)
(***************************************************************************)
EXTENDS Naturals, FiniteSets

CONSTANTS
    Attempt,
    Key,          \* (userId, Idempotency-Key) pairs
    NoKey,        \* the header is missing
    Fingerprint,  \* sha256 of method, path and body
    Optional,     \* fingerprints of the route that does not require a key
    Nobody,       \* no attempt
    Faults        \* what may go wrong in this instance

FaultNames == {"crash", "lateFailure", "completeFails", "releaseFails", "expiry"}

ASSUME IdempotencyAssumption ==
    /\ NoKey \notin Key
    /\ Nobody \notin Attempt
    /\ Optional \subseteq Fingerprint
    /\ Faults \subseteq FaultNames

VARIABLES
    row,     \* per key, its IdempotencyKey row
    pc, req, \* the attempts: where they are, key and fingerprint they carry
    target,  \* id of the expired row an attempt is about to delete
    moved,   \* attempts whose handler's transaction committed
    reply,   \* what each attempt answered
    lapsed,  \* keys that a failure after the COMMIT or their age left unguarded
    stuck    \* attempts whose release failed

vars == <<row, pc, req, target, moved, reply, lapsed, stuck>>
ghosts == <<lapsed, stuck>>

NoRow == [id |-> Nobody, fp |-> Nobody, status |-> "none", age |-> "live"]
NoReply == [kind |-> "none", of |-> Nobody]
Answer(kind, of) == [kind |-> kind, of |-> of]

Init ==
    /\ row = [k \in Key |-> NoRow]
    /\ pc = [a \in Attempt |-> "idle"]
    /\ req = [a \in Attempt |-> [key |-> NoKey, fp |-> Nobody]]
    /\ target = [a \in Attempt |-> Nobody]
    /\ moved = {}
    /\ reply = [a \in Attempt |-> NoReply]
    /\ lapsed = {} /\ stuck = {}

RowOf(a) == row[req[a].key]
GoTo(a, where) == pc' = [pc EXCEPT ![a] = where]
Finish(a, answer) ==
    /\ GoTo(a, "ended")
    /\ reply' = [reply EXCEPT ![a] = answer]

-----------------------------------------------------------------------------
\* A request comes in.  Without a key it is refused, or, where the key is
\* optional, handled with no protection.
Send(a, k, f) ==
    /\ pc[a] = "idle"
    /\ req' = [req EXCEPT ![a] = [key |-> k, fp |-> f]]
    /\ \/ k \in Key /\ GoTo(a, "insert") /\ UNCHANGED reply
       \/ k = NoKey /\ f \in Optional /\ GoTo(a, "bare") /\ UNCHANGED reply
       \/ k = NoKey /\ f \notin Optional /\ Finish(a, Answer("keyRequired", Nobody))
    /\ UNCHANGED <<row, target, moved, ghosts>>

\* Mutant: no unique constraint on (userId, key).
ReserveNewAlways(a) ==
    /\ pc[a] = "insert"
    /\ row' = [row EXCEPT ![req[a].key] =
                  [id |-> a, fp |-> req[a].fp, status |-> "pending", age |-> "live"]]
    /\ GoTo(a, "run")
    /\ UNCHANGED <<req, target, moved, reply, ghosts>>

\* reserve: the INSERT succeeds ...
ReserveNew(a) ==
    /\ pc[a] = "insert"
    /\ RowOf(a) = NoRow
    /\ row' = [row EXCEPT ![req[a].key] =
                  [id |-> a, fp |-> req[a].fp, status |-> "pending", age |-> "live"]]
    /\ GoTo(a, "run")
    /\ UNCHANGED <<req, target, moved, reply, ghosts>>

\* ... or hits the unique constraint (P2002), and the row is looked up.
ReserveTaken(a) ==
    /\ pc[a] = "insert"
    /\ RowOf(a) # NoRow
    /\ GoTo(a, "lookup")
    /\ UNCHANGED <<row, req, target, moved, reply, ghosts>>

\* The row vanished in between: reserve calls itself again.
LookupVanished(a) ==
    /\ pc[a] = "lookup"
    /\ RowOf(a) = NoRow
    /\ GoTo(a, "insert")
    /\ UNCHANGED <<row, req, target, moved, reply, ghosts>>

\* Mutant: expiresAt is not compared with the clock.
LookupExpiredAnyAge(a) ==
    /\ pc[a] = "lookup"
    /\ RowOf(a) # NoRow
    /\ target' = [target EXCEPT ![a] = RowOf(a).id]
    /\ GoTo(a, "delete")
    /\ UNCHANGED <<row, req, moved, reply, ghosts>>

LookupExpired(a) ==
    /\ pc[a] = "lookup"
    /\ RowOf(a) # NoRow
    /\ RowOf(a).age = "expired"
    /\ target' = [target EXCEPT ![a] = RowOf(a).id]
    /\ GoTo(a, "delete")
    /\ UNCHANGED <<row, req, moved, reply, ghosts>>

\* delete by id: whoever deletes first starts afresh, a second deleter gets
\* P2025, which reserve does not catch.
DeleteExpired(a) ==
    /\ pc[a] = "delete"
    /\ \/ /\ RowOf(a).id = target[a]
          /\ row' = [row EXCEPT ![req[a].key] = NoRow]
          /\ GoTo(a, "insert")
          /\ UNCHANGED reply
       \/ /\ RowOf(a).id # target[a]
          /\ Finish(a, Answer("error", Nobody))
          /\ UNCHANGED row
    /\ UNCHANGED <<req, target, moved, ghosts>>

\* Mutant: the fingerprint is not compared.
LookupLiveAnyRequest(a) ==
    LET r == RowOf(a) IN
    /\ pc[a] = "lookup"
    /\ r # NoRow
    /\ r.age = "live"
    /\ \/ r.status = "pending" /\ Finish(a, Answer("inProgress", Nobody))
       \/ r.status = "completed" /\ Finish(a, Answer("replay", r.id))
    /\ UNCHANGED <<row, req, target, moved, ghosts>>

\* Mutant: a duplicate of a request in progress waits for it instead of 409.
LookupLiveWaiting(a) ==
    LET r == RowOf(a) IN
    /\ pc[a] = "lookup"
    /\ r # NoRow
    /\ r.age = "live"
    /\ \/ r.fp # req[a].fp /\ Finish(a, Answer("mismatch", Nobody))
       \/ r.fp = req[a].fp /\ r.status = "pending" /\ GoTo(a, "insert") /\ UNCHANGED reply
       \/ r.fp = req[a].fp /\ r.status = "completed" /\ Finish(a, Answer("replay", r.id))
    /\ UNCHANGED <<row, req, target, moved, ghosts>>

\* The live row decides: mismatch, still in progress, or replay.
LookupLive(a) ==
    LET r == RowOf(a) IN
    /\ pc[a] = "lookup"
    /\ r # NoRow
    /\ r.age = "live"
    /\ \/ r.fp # req[a].fp /\ Finish(a, Answer("mismatch", Nobody))
       \/ r.fp = req[a].fp /\ r.status = "pending" /\ Finish(a, Answer("inProgress", Nobody))
       \/ r.fp = req[a].fp /\ r.status = "completed" /\ Finish(a, Answer("replay", r.id))
    /\ UNCHANGED <<row, req, target, moved, ghosts>>

-----------------------------------------------------------------------------
\* The handler: it moves money, or fails having moved nothing, or fails after
\* its COMMIT (the acknowledgement is lost, a later statement throws).
Handle(a) ==
    /\ pc[a] = "run"
    /\ \/ moved' = moved \cup {a} /\ GoTo(a, "complete") /\ UNCHANGED lapsed
       \/ moved' = moved /\ GoTo(a, "release") /\ UNCHANGED lapsed
       \/ /\ "lateFailure" \in Faults
          /\ moved' = moved \cup {a} /\ GoTo(a, "release")
          /\ lapsed' = lapsed \cup {req[a].key}
    /\ UNCHANGED <<row, req, target, reply, stuck>>

\* complete: UPDATE by id.  The error of a failed update goes to the same
\* catchError as the handler's errors.
Complete(a) ==
    /\ pc[a] = "complete"
    /\ \/ /\ RowOf(a).id = a
          /\ row' = [row EXCEPT ![req[a].key].status = "completed"]
          /\ Finish(a, Answer("ok", a))
          /\ UNCHANGED lapsed
       \/ /\ RowOf(a).id # a \/ "completeFails" \in Faults
          /\ GoTo(a, "release")
          /\ lapsed' = lapsed \cup {req[a].key}
          /\ UNCHANGED <<row, reply>>
    /\ UNCHANGED <<req, target, moved, stuck>>

\* Mutant: the error is rethrown without releasing the key.
ReleaseNothing(a) ==
    /\ pc[a] = "release"
    /\ Finish(a, Answer("error", Nobody))
    /\ UNCHANGED <<row, req, target, moved, ghosts>>

\* release: deleteMany by id, then the error is rethrown.
Release(a) ==
    /\ pc[a] = "release"
    /\ \/ /\ row' = IF RowOf(a).id = a THEN [row EXCEPT ![req[a].key] = NoRow] ELSE row
          /\ UNCHANGED stuck
       \/ "releaseFails" \in Faults /\ stuck' = stuck \cup {a} /\ UNCHANGED row
    /\ Finish(a, Answer("error", Nobody))
    /\ UNCHANGED <<req, target, moved, lapsed>>

HandleBare(a) ==
    /\ pc[a] = "bare"
    /\ \/ moved' = moved \cup {a} /\ Finish(a, Answer("ok", a))
       \/ moved' = moved /\ Finish(a, Answer("error", Nobody))
    /\ UNCHANGED <<row, req, target, ghosts>>

InFlight == {"insert", "lookup", "delete", "run", "complete", "release", "bare"}

\* The process dies: no answer, and a reserved row stays pending.
Crash(a) ==
    /\ "crash" \in Faults
    /\ pc[a] \in InFlight
    /\ GoTo(a, "dead")
    /\ UNCHANGED <<row, req, target, moved, reply, ghosts>>

\* 24 hours pass.  No request lasts that long, so the owner has ended.
Expire(k) ==
    /\ "expiry" \in Faults
    /\ row[k] # NoRow
    /\ row[k].age = "live"
    /\ pc[row[k].id] \in {"ended", "dead"}
    /\ row' = [row EXCEPT ![k].age = "expired"]
    /\ lapsed' = lapsed \cup {k}
    /\ UNCHANGED <<pc, req, target, moved, reply, stuck>>

-----------------------------------------------------------------------------
Step(a) ==
    \/ ReserveNew(a) \/ ReserveTaken(a) \/ LookupVanished(a) \/ LookupExpired(a)
    \/ DeleteExpired(a) \/ LookupLive(a) \/ Handle(a) \/ Complete(a) \/ Release(a) \/ HandleBare(a)

\* Every attempt of the instance has ended.
AllEnded == (\A a \in Attempt : pc[a] \in {"ended", "dead"}) /\ UNCHANGED vars

Next ==
    \/ \E a \in Attempt : Step(a) \/ Crash(a)
    \/ \E a \in Attempt, k \in Key \cup {NoKey}, f \in Fingerprint : Send(a, k, f)
    \/ \E k \in Key : Expire(k)
    \/ AllEnded

Spec == Init /\ [][Next]_vars

\* A request that came in keeps running unless its process dies.
FairSpec == Spec /\ \A a \in Attempt : WF_vars(Step(a))

-----------------------------------------------------------------------------
KeyRow == [id: Attempt \cup {Nobody}, fp: Fingerprint \cup {Nobody},
           status: {"none", "pending", "completed"}, age: {"live", "expired"}]
Reply == [kind: {"none", "keyRequired", "mismatch", "inProgress", "replay", "ok", "error"},
          of: Attempt \cup {Nobody}]

\* Every variable has its type.
TypeOK ==
    /\ row \in [Key -> KeyRow]
    /\ pc \in [Attempt -> InFlight \cup {"idle", "ended", "dead"}]
    /\ req \in [Attempt -> [key: Key \cup {NoKey}, fp: Fingerprint \cup {Nobody}]]
    /\ target \in [Attempt -> Attempt \cup {Nobody}]
    /\ moved \subseteq Attempt
    /\ reply \in [Attempt -> Reply]
    /\ lapsed \subseteq Key /\ stuck \subseteq Attempt

Reserved == {"run", "complete", "release"}

\* "A simultaneous duplicate ... can never run the handler a second time": no
\* two attempts with one key are past their reservation at the same time, also
\* when an expired row is deleted by several of them at once.
OneHandlerPerKey ==
    \A a, b \in Attempt :
        pc[a] \in Reserved /\ pc[b] \in Reserved /\ req[a].key = req[b].key => a = b

\* "The key means THIS exact request": a replayed response is the one of an
\* attempt with the same key and fingerprint, and that attempt moved the money.
ReplayIsOfTheSameRequest ==
    \A a \in Attempt :
        reply[a].kind = "replay" =>
            reply[a].of \in moved /\ req[reply[a].of] = req[a]

\* A stored response stays, unchanged, until its 24 hours have passed.
StoredResponseStays ==
    [][\A k \in Key :
          row[k].status = "completed" /\ row[k].age = "live" =>
              row'[k].id = row[k].id /\ row'[k].status = "completed"]_vars

\* "A retry can never double-charge": of the attempts carrying one key at most
\* one moves money.
MovedOnce ==
    \A a, b \in moved : req[a].key \in Key /\ req[a].key = req[b].key => a = b

\* The same for the keys the service still guards: whoever crashes and whichever
\* release fails, a key is charged once until a handler fails after its COMMIT, a
\* completion fails, or 24 hours have passed.
GuardedKeyMovesOnce ==
    \A a, b \in moved :
        req[a].key \in Key \ lapsed /\ req[a].key = req[b].key => a = b

\* "Free the key so a retry can actually run": whatever else fails, an attempt
\* that answered an error keeps its key reserved only if its own release failed.
FailureFreesKey ==
    \A a \in Attempt \ stuck :
        reply[a].kind = "error" /\ req[a].key \in Key => RowOf(a).id # a

\* Every request that came in is answered: reserve's recursion ends.
EveryAttemptAnswered == \A a \in Attempt : pc[a] # "idle" ~> pc[a] \in {"ended", "dead"}

-----------------------------------------------------------------------------
(* The layer as one atomic step per attempt and key.  Who inserts, looks   *)
(* up or deletes is asking; a key is what its row says.                    *)
StateOf(r) ==
    IF r = NoRow THEN "free"
    ELSE IF r.age = "expired" THEN "stale"
    ELSE IF r.status = "completed" THEN "done" ELSE "held"

StageOf(where) == IF where \in {"insert", "lookup", "delete"} THEN "asking" ELSE where

Atomic == INSTANCE AtomicKeys WITH
    state <- [k \in Key |-> StateOf(row[k])],
    owner <- [k \in Key |-> row[k].id],
    stage <- [a \in Attempt |-> StageOf(pc[a])]

\* However attempts interleave between the INSERT, the lookup, the deletion by
\* id, the handler, and complete or release, it looks as if each had found the
\* key in one state, acted on that and left it, while nobody else held it: what
\* was read before another attempt's write is never acted on.
ImplementsAtomicKeys == Atomic!Spec

-----------------------------------------------------------------------------
(***************************************************************************)
(* The inductive invariant behind OneHandlerPerKey,                        *)
(* ReplayIsOfTheSameRequest and ImplementsAtomicKeys: who is past the      *)
(* reservation owns the row of its key, a completed row was completed by   *)
(* the attempt it names, and the id a deleter remembers is never reused.   *)
(***************************************************************************)
RowsOK ==
    \A k \in Key : row[k] # NoRow =>
        /\ row[k].id \in Attempt
        /\ req[row[k].id] = [key |-> k, fp |-> row[k].fp]
        /\ pc[row[k].id] \in Reserved \cup {"ended", "dead"}
        /\ row[k].status = "completed" =>
               row[k].id \in moved /\ pc[row[k].id] = "ended"
        /\ row[k].age = "expired" => pc[row[k].id] \notin Reserved

AttemptsOK ==
    \A a \in Attempt :
        /\ pc[a] \in InFlight \ {"bare"} => req[a].key \in Key
        /\ pc[a] \in Reserved => RowOf(a).id = a
        /\ pc[a] = "complete" => a \in moved
        /\ pc[a] = "delete" => target[a] \in Attempt /\ pc[target[a]] \in {"ended", "dead"}
        /\ pc[a] = "delete" /\ RowOf(a).id = target[a] => RowOf(a).age = "expired"
        /\ reply[a].kind = "replay" => reply[a].of \in Attempt
        /\ reply[a].kind # "none" => pc[a] = "ended"
        /\ a \in moved => pc[a] # "idle"

IdempotencyInv == TypeOK /\ RowsOK /\ AttemptsOK /\ ReplayIsOfTheSameRequest

\* What keeps a charge single for a key that has not lapsed: its row does not
\* expire, only handlers that moved nothing release it, and whoever moved money
\* with it owns it.
ChargeInv ==
    /\ \A a \in Attempt : pc[a] = "bare" => req[a].key = NoKey
    /\ \A k \in Key \ lapsed :
          /\ row[k].age = "live"
          /\ \A a \in Attempt : req[a].key = k =>
                /\ pc[a] # "delete"
                /\ pc[a] \in {"insert", "lookup", "run", "release"} => a \notin moved
                /\ a \in moved => row[k].id = a
=============================================================================
