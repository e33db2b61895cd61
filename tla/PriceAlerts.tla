---------------------------- MODULE PriceAlerts -----------------------------
(***************************************************************************)
(* Price alerts: the form and the list that add and remove them, and the   *)
(* price tick of the API, which broadcasts prices to whoever is watching   *)
(* and fires the alerts the price has crossed.  The timer starts a tick    *)
(* every 15 seconds whether or not the one before has ended, so ticks      *)
(* overlap; a crash of the process ends them all.                          *)
(***************************************************************************)
EXTENDS Naturals, FiniteSets

CONSTANTS
    Alert,          \* the alerts the person sets
    Direction,      \* "above" or "below", for each alert
    Target,         \* the price each alert waits for
    Price,          \* prices of the asset
    Tick,           \* ticks that can be under way at once
    MaxMoves        \* bound: times the price moves

None == 0           \* no price: the provider's outage, or nothing shown yet

VARIABLES
    price,      \* the asset's price at the exchange
    moves,      \* how often it moved
    cached,     \* the ticker cache of MarketsService
    rows,       \* the alerts' rows: "new", "pending", "triggered", "gone"
    form,       \* the add and remove calls under way, by alert
    watching,   \* a client is connected
    shown,      \* the price that client shows
    ticks,      \* the ticks under way
    notices,    \* notifications enqueued for each alert
    late        \* ghost: ticks that held the alert when its first notice was committed

vars == <<price, moves, cached, rows, form, watching, shown, ticks, notices, late>>

Idle == [at |-> "idle", watched |-> FALSE, pending |-> FALSE, assets |-> None, fired |-> {}]
MaxNotices == 1 + Cardinality(Tick)

TypeOK ==
    /\ price \in Price /\ moves \in 0..MaxMoves
    /\ cached \in Price \cup {None} /\ shown \in Price \cup {None}
    /\ rows \in [Alert -> {"new", "pending", "triggered", "gone"}]
    /\ form \in [Alert -> {"idle", "adding", "removing"}]
    /\ watching \in BOOLEAN
    /\ ticks \in [Tick -> [at : {"idle", "counting", "listing", "finding", "committing"},
                           watched : BOOLEAN, pending : BOOLEAN,
                           assets : Price \cup {None}, fired : SUBSET Alert]]
    /\ notices \in [Alert -> 0..MaxNotices]
    /\ late \in [Alert -> SUBSET Tick]

Init ==
    /\ price \in Price /\ moves = 0 /\ cached = None
    /\ rows = [a \in Alert |-> "new"] /\ form = [a \in Alert |-> "idle"]
    /\ watching = FALSE /\ shown = None
    /\ ticks = [t \in Tick |-> Idle]
    /\ notices = [a \in Alert |-> 0] /\ late = [a \in Alert |-> {}]

-----------------------------------------------------------------------------
(* The person: the form, the list, the open page.                          *)

Market == <<price, moves, cached>>
Client == <<form, watching, shown>>
Told == <<notices, late>>

Submit(a) ==
    /\ rows[a] = "new" /\ form[a] = "idle"
    /\ form' = [form EXCEPT ![a] = "adding"]
    /\ UNCHANGED <<Market, rows, watching, shown, ticks, Told>>

\* The row is created, or the call fails and the form can be sent again.
Add(a, ok) ==
    /\ form[a] = "adding"
    /\ form' = [form EXCEPT ![a] = "idle"]
    /\ rows' = [rows EXCEPT ![a] = IF ok THEN "pending" ELSE @]
    /\ UNCHANGED <<Market, watching, shown, ticks, Told>>

PressRemove(a) ==
    /\ rows[a] \in {"pending", "triggered"} /\ form[a] = "idle"
    /\ form' = [form EXCEPT ![a] = "removing"]
    /\ UNCHANGED <<Market, rows, watching, shown, ticks, Told>>

Remove(a, ok) ==
    /\ form[a] = "removing"
    /\ form' = [form EXCEPT ![a] = "idle"]
    /\ rows' = [rows EXCEPT ![a] = IF ok THEN "gone" ELSE @]
    /\ UNCHANGED <<Market, watching, shown, ticks, Told>>

\* A page with prices opens, or the last one closes.
Watch ==
    /\ watching' = ~watching /\ shown' = IF watching THEN None ELSE cached
    /\ UNCHANGED <<Market, rows, form, ticks, Told>>

Move(p) ==
    /\ p # price /\ moves < MaxMoves
    /\ price' = p /\ moves' = moves + 1
    /\ UNCHANGED <<cached, rows, Client, ticks, Told>>

\* The ticker cache runs out.
Expire ==
    /\ cached # None
    /\ cached' = None
    /\ UNCHANGED <<price, moves, rows, Client, ticks, Told>>

-----------------------------------------------------------------------------
(* The tick.                                                               *)

isTriggered(a, p) == IF Direction[a] = "above" THEN p >= Target[a] ELSE p <= Target[a]

Step(t, r) == ticks' = [ticks EXCEPT ![t] = r]

StartTick(t) ==
    /\ ticks[t].at = "idle"
    /\ Step(t, [Idle EXCEPT !.at = "counting", !.watched = watching])
    /\ UNCHANGED <<Market, rows, Client, Told>>

\* The cost guard: nobody watching and nothing pending ends the tick.
PendingCount(t) ==
    /\ ticks[t].at = "counting"
    /\ LET pending == \E a \in Alert : rows[a] = "pending" IN
       Step(t, IF ~ticks[t].watched /\ ~pending THEN Idle
               ELSE [ticks[t] EXCEPT !.at = "listing", !.pending = pending])
    /\ UNCHANGED <<Market, rows, Client, Told>>

\* The market list, from the cache or from the exchange; an outage lists nothing
\* and ends the tick.  Prices go to the clients connected now.
List(t, p) ==
    /\ ticks[t].at = "listing"
    /\ p \in IF cached = None THEN {price, None} ELSE {cached}
    /\ cached' = p
    /\ shown' = IF p # None /\ ticks[t].watched /\ watching THEN p ELSE shown
    /\ Step(t, IF p = None \/ ~ticks[t].pending THEN Idle
               ELSE [ticks[t] EXCEPT !.at = "finding", !.assets = p])
    /\ UNCHANGED <<price, moves, rows, form, watching, Told>>

\* Mutant: alerts that fired are found again.
FindPendingAll(t) ==
    {a \in Alert : rows[a] \in {"pending", "triggered"} /\ isTriggered(a, ticks[t].assets)}

FindPending(t) == {a \in Alert : rows[a] = "pending" /\ isTriggered(a, ticks[t].assets)}

Check(t) ==
    /\ ticks[t].at = "finding"
    /\ Step(t, IF FindPending(t) = {} THEN Idle
               ELSE [ticks[t] EXCEPT !.at = "committing", !.fired = FindPending(t)])
    /\ UNCHANGED <<Market, rows, Client, Told>>

Marked(fired) == rows' = [a \in Alert |-> IF a \in fired /\ rows[a] # "gone" THEN "triggered" ELSE rows[a]]

\* Mutant: the mark commits first, and the process may die before the notices.
FireAfterMark(fired) ==
    Marked(fired) /\ (UNCHANGED notices \/ notices' = [a \in Alert |-> IF a \in fired THEN notices[a] + 1 ELSE notices[a]])

\* Mark and enqueue in one transaction.  The mark is by id, so an alert removed
\* since it was found is not marked, and told all the same.
Fire(fired) ==
    /\ Marked(fired)
    /\ notices' = [a \in Alert |-> IF a \in fired THEN notices[a] + 1 ELSE notices[a]]

Commit(t) ==
    /\ ticks[t].at = "committing"
    /\ Fire(ticks[t].fired)
    /\ late' = [a \in Alert |-> IF a \in ticks[t].fired /\ notices[a] = 0
                                THEN {u \in Tick \ {t} : a \in ticks[u].fired} ELSE late[a]]
    /\ Step(t, Idle)
    /\ UNCHANGED <<Market, Client>>

\* A read or the transaction fails: the tick ends with a warning.
Fails(t) ==
    /\ ticks[t].at # "idle"
    /\ Step(t, Idle)
    /\ UNCHANGED <<Market, rows, Client, Told>>

\* The process dies and starts again: ticks and connections are gone.
Crash ==
    /\ ticks' = [t \in Tick |-> Idle] /\ watching' = FALSE /\ shown' = None
    /\ UNCHANGED <<Market, rows, form, Told>>

Next ==
    \/ \E a \in Alert :
          \/ Submit(a) \/ PressRemove(a)
          \/ \E ok \in BOOLEAN : Add(a, ok) \/ Remove(a, ok)
    \/ Watch \/ Expire
    \/ \E p \in Price : Move(p)
    \/ \E t \in Tick :
          \/ StartTick(t) \/ PendingCount(t) \/ Check(t) \/ Commit(t) \/ Fails(t)
          \/ \E p \in Price \cup {None} : List(t, p)
    \/ Crash

Spec == Init /\ [][Next]_vars

-----------------------------------------------------------------------------
(* Properties.                                                             *)

\* AlertCheckService "fires the newly-crossed ones (one-shot)": an alert is told
\* a second time only by a tick that had already found it when the first notice
\* was committed, never by one that looked later, after whatever crashes,
\* failures and price moves.
OneShot == \A a \in Alert : notices[a] <= 1 + Cardinality(late[a])

\* An alert marked as reached has its notification in the outbox: nobody is left
\* with a line crossed and nothing said, wherever the process died.
TriggeredTold == \A a \in Alert : rows[a] = "triggered" => notices[a] > 0
=============================================================================
