------------------------------ MODULE OpsWatch ------------------------------
(***************************************************************************)
(* The operations watch of the API: every 30 seconds a refresh takes a     *)
(* snapshot of the broker's dead letters and of the outbox, sets the gauges*)
(* and raises or clears two alarms; the console's system card asks the     *)
(* health check the same questions.  A snapshot's reads are answered one   *)
(* by one, the timer does not wait for the refresh before, and the broker, *)
(* Redis and the database come and go.                                     *)
(***************************************************************************)
EXTENDS Naturals

CONSTANTS
    Refresh,       \* refreshes under way at once
    MaxLetters     \* bound: dead letters waiting

Alarms == {"dead-letters", "outbox-stuck"}
Unknown == MaxLetters + 1    \* null: the broker could not be asked

VARIABLES
    connected,   \* the broker's channel is open
    redisUp,     \* Redis answers a ping
    dbUp,        \* Postgres answers
    letters,     \* messages in the dead-letter queue
    outbox,      \* the oldest pending event: "none", "young", "old" (past the limit)
    refreshes,   \* the refreshes under way
    breached,    \* alarms raised
    gauge,       \* the dead-letter gauge
    card         \* the system card as last rendered

vars == <<connected, redisUp, dbUp, letters, outbox, refreshes, breached, gauge, card>>

Idle == [at |-> "idle", depth |-> 0, stale |-> FALSE]
Blank == [status |-> "none", deadLetters |-> Unknown]

TypeOK ==
    /\ connected \in BOOLEAN /\ redisUp \in BOOLEAN /\ dbUp \in BOOLEAN
    /\ letters \in 0..MaxLetters /\ outbox \in {"none", "young", "old"}
    /\ refreshes \in [Refresh -> [at : {"idle", "depth", "outbox"}, depth : 0..Unknown,
                                  stale : BOOLEAN]]
    /\ breached \subseteq Alarms /\ gauge \in 0..MaxLetters
    /\ card \in [status : {"none", "ok", "degraded"}, deadLetters : 0..Unknown]

Init ==
    /\ connected = TRUE /\ redisUp = TRUE /\ dbUp = TRUE
    /\ letters = 0 /\ outbox = "none"
    /\ refreshes = [r \in Refresh |-> Idle]
    /\ breached = {} /\ gauge = 0 /\ card = Blank

-----------------------------------------------------------------------------
(* What the watch watches.                                                 *)

Watcher == <<refreshes, breached, gauge, card>>

Connection ==
    /\ connected' = ~connected
    /\ UNCHANGED <<redisUp, dbUp, letters, outbox, Watcher>>

Redis == redisUp' = ~redisUp /\ UNCHANGED <<connected, dbUp, letters, outbox, Watcher>>

Database == dbUp' = ~dbUp /\ UNCHANGED <<connected, redisUp, letters, outbox, Watcher>>

\* A push fails for good.  A refresh that has asked for the depth does not know.
DeadLetter ==
    /\ letters < MaxLetters
    /\ letters' = letters + 1
    /\ refreshes' = [r \in Refresh |-> [refreshes[r] EXCEPT !.stale = refreshes[r].at = "outbox"]]
    /\ UNCHANGED <<connected, redisUp, dbUp, outbox, breached, gauge, card>>

\* Someone deals with one.
Drain ==
    /\ letters > 0
    /\ letters' = letters - 1
    /\ UNCHANGED <<connected, redisUp, dbUp, outbox, Watcher>>

\* An event is enqueued, gets old, is published.
Outbox(o) ==
    /\ <<outbox, o>> \in {<<"none", "young">>, <<"young", "old">>, <<"young", "none">>, <<"old", "none">>}
    /\ o = "none" => connected
    /\ outbox' = o
    /\ UNCHANGED <<connected, redisUp, dbUp, letters, Watcher>>

-----------------------------------------------------------------------------
(* OpsWatchService.                                                        *)

depth == IF connected THEN letters ELSE Unknown

Tick(r) ==
    /\ refreshes[r].at = "idle"
    /\ refreshes' = [refreshes EXCEPT ![r] = [Idle EXCEPT !.at = "depth"]]
    /\ UNCHANGED <<connected, redisUp, dbUp, letters, outbox, breached, gauge, card>>

\* The queue's depth is answered, or the channel is gone.
AskDepth(r) ==
    /\ refreshes[r].at = "depth"
    /\ refreshes' = [refreshes EXCEPT ![r] = [@ EXCEPT !.at = "outbox", !.depth = depth]]
    /\ UNCHANGED <<connected, redisUp, dbUp, letters, outbox, breached, gauge, card>>

\* Mutant: one dead letter is not worth an alarm.
OverLimitMany(dead, oldest) ==
    {a \in Alarms : IF a = "dead-letters" THEN dead > 1 ELSE oldest = "old"}

\* The alarms a snapshot calls for.
OverLimit(dead, oldest) ==
    {a \in Alarms : IF a = "dead-letters" THEN dead > 0 ELSE oldest = "old"}

\* The outbox is answered and the refresh ends: gauge and alarms follow the
\* snapshot, in which a depth that could not be asked is 0.  Without the
\* database the refresh changes nothing.
EndRefresh(r) ==
    /\ refreshes[r].at = "outbox"
    /\ IF ~dbUp THEN UNCHANGED <<breached, gauge>>
       ELSE LET dead == IF refreshes[r].depth = Unknown THEN 0 ELSE refreshes[r].depth IN
            gauge' = dead /\ breached' = OverLimit(dead, outbox)
    /\ refreshes' = [refreshes EXCEPT ![r] = Idle]
    /\ UNCHANGED <<connected, redisUp, dbUp, letters, outbox, card>>

\* HealthService.check, as the card shows it.
Report == [status |-> IF dbUp /\ redisUp /\ connected THEN "ok" ELSE "degraded",
           deadLetters |-> depth]

Health ==
    /\ card' = Report
    /\ UNCHANGED <<connected, redisUp, dbUp, letters, outbox, refreshes, breached, gauge>>

Next ==
    \/ Connection \/ Redis \/ Database \/ DeadLetter \/ Drain
    \/ \E o \in {"none", "young", "old"} : Outbox(o)
    \/ \E r \in Refresh : Tick(r) \/ AskDepth(r) \/ EndRefresh(r)
    \/ Health

Spec == Init /\ [][Next]_vars

-----------------------------------------------------------------------------
(* Properties.                                                             *)

\* The alarm for dead letters recovers while letters still wait only because the
\* refresh could not ask the broker, or because they came after it had asked.
RecoveredForCauseStep ==
    \A r \in Refresh :
        /\ "dead-letters" \in breached /\ "dead-letters" \notin breached'
        /\ refreshes[r].at = "outbox" /\ refreshes'[r].at = "idle"
        /\ letters > 0
        => refreshes[r].depth = Unknown \/ refreshes[r].stale
RecoveredForCause == [][RecoveredForCauseStep]_vars
=============================================================================
