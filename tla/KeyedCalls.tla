----------------------------- MODULE KeyedCalls -----------------------------
(***************************************************************************)
(* What a form that moves money meets on the other side of apiRequest: the *)
(* BFF route, the step-up guard, the idempotency interceptor, the handler. *)
(* The interceptor with its crashes and its own retries is Idempotency's;  *)
(* here it reserves, runs and answers, and the subject is the form that    *)
(* waits, loses answers and tries again.                                   *)
(***************************************************************************)
EXTENDS Naturals, FiniteSets

CONSTANTS
    MaxSends,   \* bound: requests sent
    MaxKeys     \* bound: idempotency keys minted

VARIABLES
    twoFactor,  \* the person has a second factor on
    calls,      \* the requests sent, in order
    waiting,    \* the request the page waits for, 0 when none
    keys,       \* the idempotency rows of this person
    ledger,     \* the payments committed: the request that made each
    idem,       \* useIdempotencyKey: the key of the operation under way, 0 when none
    minted,     \* keys minted so far
    lost        \* answers lost since the page was opened

callVars == <<twoFactor, calls, waiting, keys, ledger, idem, minted, lost>>

Call == 1..MaxSends
Answers == {"ok", "stepUp", "conflict", "refused"}
Unused == [at |-> "none"]
FreeKey == [at |-> "free"]

CallsInit ==
    /\ twoFactor \in BOOLEAN
    /\ calls = [c \in Call |-> Unused]
    /\ waiting = 0
    /\ keys = [k \in 1..MaxKeys |-> FreeKey]
    /\ ledger = {}
    /\ idem = 0 /\ minted = 0 /\ lost = 0

CallsTypeOK(Body) ==
    /\ twoFactor \in BOOLEAN
    /\ \A c \in Call :
          \/ calls[c] = Unused
          \/ /\ calls[c].at \in {"sent", "running"} \cup Answers
             /\ calls[c].body \in Body
             /\ calls[c].key \in 0..MaxKeys /\ calls[c].made \in 0..MaxSends
    /\ waiting \in 0..MaxSends
    /\ \A k \in 1..MaxKeys :
          \/ keys[k] = FreeKey
          \/ keys[k].at = "running" /\ keys[k].body \in Body
          \/ keys[k].at = "done" /\ keys[k].body \in Body /\ keys[k].made \in ledger
    /\ ledger \subseteq Call
    /\ idem \in 0..MaxKeys /\ minted \in 0..MaxKeys
    /\ lost \in 0..MaxSends

-----------------------------------------------------------------------------
(* The browser.                                                            *)

\* Mutant: a key for every press.
KeyFresh == minted + 1

\* useIdempotencyKey: minted on first use, the same until it is reset.
Key == IF idem = 0 THEN minted + 1 ELSE idem

SentCalls == {c \in Call : calls[c] # Unused}
NextCall == Cardinality(SentCalls) + 1

\* Mutant: the button stays enabled while a request is under way.
SendBusy(key, body, detail) ==
    /\ NextCall \in Call /\ key <= MaxKeys
    /\ waiting' = NextCall
    /\ calls' = [calls EXCEPT ![NextCall] =
                    [at |-> "sent", key |-> key, body |-> body, made |-> 0, detail |-> detail]]
    /\ idem' = key /\ minted' = IF key > minted THEN key ELSE minted
    /\ UNCHANGED <<twoFactor, keys, ledger, lost>>

\* apiRequest: the request leaves, the page waits.  detail is what the page
\* remembers of the press; key 0 is a form that sends none.
Send(key, body, detail) ==
    /\ waiting = 0
    /\ NextCall \in Call /\ key <= MaxKeys
    /\ waiting' = NextCall
    /\ calls' = [calls EXCEPT ![NextCall] =
                    [at |-> "sent", key |-> key, body |-> body, made |-> 0, detail |-> detail]]
    /\ IF key = 0
       THEN UNCHANGED <<idem, minted>>
       ELSE /\ idem' = key
            /\ minted' = IF key > minted THEN key ELSE minted
    /\ UNCHANGED <<twoFactor, keys, ledger, lost>>

\* The network fails under the request or under its answer: apiRequest answers
\* NETWORK, and the server may still be at work on the request.
Lose ==
    /\ waiting # 0
    /\ waiting' = 0 /\ lost' = lost + 1
    /\ UNCHANGED <<twoFactor, calls, keys, ledger, idem, minted>>

\* The answer reaches the page that waits; reset forgets the key.
Hear(reset) ==
    /\ waiting # 0 /\ calls[waiting].at \in Answers
    /\ waiting' = 0
    /\ idem' = IF reset THEN 0 ELSE idem
    /\ UNCHANGED <<twoFactor, calls, keys, ledger, minted, lost>>

\* The page is left: its key goes with it, and nobody waits any more.
Unmount ==
    /\ waiting' = 0 /\ idem' = 0 /\ lost' = 0
    /\ UNCHANGED <<twoFactor, calls, keys, ledger, minted>>

-----------------------------------------------------------------------------
(* The API.                                                                *)

\* StepUpGuard: a person with a second factor must send a grant.
StepUp(c) == twoFactor /\ calls[c].detail.guarded /\ ~calls[c].detail.grant

Reply(c, at, made) == calls' = [calls EXCEPT ![c].at = at, ![c].made = made]

\* The interceptor: run, replay the first answer, or 409 for a request still in
\* progress and for a body the key was not minted for.
Intercept(c) ==
    LET k == calls[c].key
        replay == keys[k].at = "done" /\ keys[k].body = calls[c].body IN
    \/ k = 0 /\ Reply(c, "running", 0) /\ UNCHANGED keys
    \/ /\ k # 0 /\ keys[k].at = "free"
       /\ keys' = [keys EXCEPT ![k] = [at |-> "running", body |-> calls[c].body]]
       /\ Reply(c, "running", 0)
    \/ k # 0 /\ replay /\ Reply(c, "ok", keys[k].made) /\ UNCHANGED keys
    \/ /\ k # 0 /\ keys[k].at # "free" /\ ~replay
       /\ Reply(c, "conflict", 0) /\ UNCHANGED keys

\* Guards run before the interceptor: a refused grant reserves no key.
Arrive(c) ==
    /\ calls[c].at = "sent"
    /\ \/ StepUp(c) /\ Reply(c, "stepUp", 0) /\ UNCHANGED keys
       \/ ~StepUp(c) /\ Intercept(c)
    /\ UNCHANGED <<twoFactor, waiting, ledger, idem, minted, lost>>

\* The handler commits and the interceptor completes the key.
Commit(c) ==
    /\ calls[c].at = "running"
    /\ ledger' = ledger \cup {c}
    /\ keys' = IF calls[c].key = 0 THEN keys
               ELSE [keys EXCEPT ![calls[c].key] =
                        [at |-> "done", body |-> calls[c].body, made |-> c]]
    /\ Reply(c, "ok", c)
    /\ UNCHANGED <<twoFactor, waiting, idem, minted, lost>>

\* The handler throws (no funds, no such wallet): the key is released.
Refuse(c) ==
    /\ calls[c].at = "running"
    /\ keys' = IF calls[c].key = 0 THEN keys ELSE [keys EXCEPT ![calls[c].key] = FreeKey]
    /\ Reply(c, "refused", 0)
    /\ UNCHANGED <<twoFactor, waiting, ledger, idem, minted, lost>>

Serve == \E c \in Call : Arrive(c) \/ Commit(c) \/ Refuse(c)
=============================================================================
