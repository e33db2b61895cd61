----------------------------- MODULE AtomicKeys -----------------------------
(***************************************************************************)
(* What the Idempotency-Key layer promises the routes behind it: no table, *)
(* no rows looked up now and acted on later, no rows deleted by id.  A key *)
(* is free, held by the one attempt that runs the handler, done with the   *)
(* response of that attempt, or stale once its age has passed; every       *)
(* attempt takes it, or is turned away from it, in one step.  Idempotency  *)
(* implements this specification.                                          *)
(***************************************************************************)
EXTENDS Naturals

CONSTANTS Attempt, Key, NoKey, Fingerprint, Optional, Nobody

VARIABLES
    state,   \* per key: free, held, done or stale
    owner,   \* per key, whose it is or was, Nobody's when free
    stage,   \* per attempt, where it is
    req,     \* per attempt, the key and the request it carries
    moved,   \* attempts whose handler moved money
    reply    \* what each attempt answered

vars == <<state, owner, stage, req, moved, reply>>

Answer(kind, of) == [kind |-> kind, of |-> of]

Init ==
    /\ state = [k \in Key |-> "free"]
    /\ owner = [k \in Key |-> Nobody]
    /\ stage = [a \in Attempt |-> "idle"]
    /\ req = [a \in Attempt |-> [key |-> NoKey, fp |-> Nobody]]
    /\ moved = {}
    /\ reply = [a \in Attempt |-> Answer("none", Nobody)]

GoTo(a, where) == stage' = [stage EXCEPT ![a] = where] /\ UNCHANGED reply
Finish(a, answer) ==
    /\ stage' = [stage EXCEPT ![a] = "ended"]
    /\ reply' = [reply EXCEPT ![a] = answer]

\* Key k becomes s, of attempt o.
Becomes(k, s, o) ==
    /\ state' = [state EXCEPT ![k] = s]
    /\ owner' = [owner EXCEPT ![k] = o]

Ask(a, k, f) ==
    /\ stage[a] = "idle"
    /\ req' = [req EXCEPT ![a] = [key |-> k, fp |-> f]]
    /\ IF k \in Key THEN GoTo(a, "asking")
       ELSE IF f \in Optional THEN GoTo(a, "bare") ELSE Finish(a, Answer("keyRequired", Nobody))
    /\ UNCHANGED <<state, owner, moved>>

Take(a) ==
    /\ stage[a] = "asking"
    /\ state[req[a].key] = "free"
    /\ Becomes(req[a].key, "held", a)
    /\ GoTo(a, "run")
    /\ UNCHANGED <<req, moved>>

\* A key that is held or done turns every other attempt away: with the response
\* when it is done and the request is the same one.
TurnAway(a) ==
    LET k == req[a].key
        same == req[owner[k]] = req[a]
    IN  /\ stage[a] = "asking"
        /\ \/ state[k] \in {"held", "done"} /\ ~same /\ Finish(a, Answer("mismatch", Nobody))
           \/ state[k] = "held" /\ same /\ Finish(a, Answer("inProgress", Nobody))
           \/ state[k] = "done" /\ same /\ Finish(a, Answer("replay", owner[k]))
        /\ UNCHANGED <<state, owner, req, moved>>

\* An attempt that found the key stale may be answered an error, having done nothing.
Refuse(a) ==
    /\ stage[a] = "asking"
    /\ Finish(a, Answer("error", Nobody))
    /\ UNCHANGED <<state, owner, req, moved>>

\* The handler moves money or fails; it may also do both.
Run(a) ==
    /\ stage[a] = "run"
    /\ \/ moved' = moved \cup {a} /\ GoTo(a, "complete")
       \/ moved' \in {moved, moved \cup {a}} /\ GoTo(a, "release")
    /\ UNCHANGED <<state, owner, req>>

\* Only the holder of a key answers for it, and the key is done with that answer.
Store(a) ==
    /\ stage[a] = "complete"
    /\ \/ /\ state[req[a].key] = "held" /\ owner[req[a].key] = a
          /\ Becomes(req[a].key, "done", a)
          /\ Finish(a, Answer("ok", a))
       \/ GoTo(a, "release") /\ UNCHANGED <<state, owner>>
    /\ UNCHANGED <<req, moved>>

\* Only the holder of a key lets go of it, or leaves it held.
LetGo(a) ==
    /\ stage[a] = "release"
    /\ state[req[a].key] = "held" /\ owner[req[a].key] = a
    /\ \/ Becomes(req[a].key, "free", Nobody)
       \/ UNCHANGED <<state, owner>>
    /\ Finish(a, Answer("error", Nobody))
    /\ UNCHANGED <<req, moved>>

RunBare(a) ==
    /\ stage[a] = "bare"
    /\ \/ moved' = moved \cup {a} /\ Finish(a, Answer("ok", a))
       \/ moved' = moved /\ Finish(a, Answer("error", Nobody))
    /\ UNCHANGED <<state, owner, req>>

Die(a) ==
    /\ stage[a] \notin {"idle", "ended", "dead"}
    /\ GoTo(a, "dead")
    /\ UNCHANGED <<state, owner, req, moved>>

\* A key grows stale only after whoever it was taken by has ended, and only a
\* stale key is cleared behind the back of an attempt.
Lapse(k) ==
    /\ state[k] \in {"held", "done"}
    /\ stage[owner[k]] \in {"ended", "dead"}
    /\ Becomes(k, "stale", owner[k])
    /\ UNCHANGED <<stage, req, moved, reply>>

Clear(k) ==
    /\ state[k] = "stale"
    /\ Becomes(k, "free", Nobody)
    /\ UNCHANGED <<stage, req, moved, reply>>

Next ==
    \/ \E a \in Attempt, k \in Key \cup {NoKey}, f \in Fingerprint : Ask(a, k, f)
    \/ \E a \in Attempt :
          Take(a) \/ TurnAway(a) \/ Refuse(a) \/ Run(a) \/ Store(a) \/ LetGo(a) \/ RunBare(a) \/ Die(a)
    \/ \E k \in Key : Lapse(k) \/ Clear(k)

Spec == Init /\ [][Next]_vars
=============================================================================
