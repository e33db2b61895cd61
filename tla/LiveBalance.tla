----------------------------- MODULE LiveBalance ----------------------------
(***************************************************************************)
(* The balance on the home page: rendered once on the server, then moved   *)
(* by balance.updated events of a socket that the component opens for its  *)
(* own life.  The component may go and come back while a ticket is still   *)
(* on its way; handlers announce a balance after their commit, in whatever *)
(* order they get to it; a socket that reconnects shows its old ticket.    *)
(*                                                                         *)
(* The balance is the number of commits so far.                            *)
(***************************************************************************)
EXTENDS Naturals

CONSTANTS
    MaxMounts,    \* bound: times the page is opened
    MaxCommits    \* bound: changes of the balance

VARIABLES
    mount,      \* the newest mount of the component
    here,       \* it is on screen
    effect,     \* per mount, how far its effect has come
    balance,    \* the balance committed
    unsaid,     \* balances committed and not yet announced
    shown,      \* the balance on screen
    missed,     \* ghost: an announcement found no socket in the room
    overtaken   \* ghost: an announcement came after a newer one

vars == <<mount, here, effect, balance, unsaid, shown, missed, overtaken>>

Mounts == 1..MaxMounts
Live == {"connecting", "joined", "dropped"}
Stages == {"none", "ticket", "body", "over"} \cup Live

TypeOK ==
    /\ mount \in 0..MaxMounts
    /\ here \in BOOLEAN
    /\ effect \in [Mounts -> Stages]
    /\ balance \in 0..MaxCommits /\ shown \in 0..MaxCommits
    /\ unsaid \subseteq 1..balance
    /\ missed \in BOOLEAN /\ overtaken \in BOOLEAN
    /\ shown <= balance

Init ==
    /\ mount = 0 /\ here = FALSE
    /\ effect = [m \in Mounts |-> "none"]
    /\ balance = 0 /\ unsaid = {} /\ shown = 0
    /\ missed = FALSE /\ overtaken = FALSE

-----------------------------------------------------------------------------
(* The component.                                                          *)

Cancelled(m) == m # mount \/ ~here
To(m, stage) == effect' = [effect EXCEPT ![m] = stage]

\* The page renders with the balance of the moment and the effect asks for a
\* ticket.
Open ==
    /\ ~here /\ mount < MaxMounts
    /\ mount' = mount + 1 /\ here' = TRUE
    /\ To(mount + 1, "ticket")
    /\ shown' = balance /\ missed' = FALSE /\ overtaken' = FALSE
    /\ UNCHANGED <<balance, unsaid>>

\* The cleanup: a socket is disconnected, a ticket under way is cancelled.
Close ==
    /\ here
    /\ here' = FALSE
    /\ effect' = [effect EXCEPT ![mount] = IF @ \in Live THEN "over" ELSE @]
    /\ UNCHANGED <<mount, balance, unsaid, shown, missed, overtaken>>

TicketAnswers(m, ok) ==
    /\ effect[m] = "ticket"
    /\ To(m, IF ok /\ ~Cancelled(m) THEN "body" ELSE "over")
    /\ UNCHANGED <<mount, here, balance, unsaid, shown, missed, overtaken>>

\* Mutant: whether the component is still there is not asked again.
ConnectAnyway(m) ==
    /\ effect[m] = "body"
    /\ To(m, "connecting")
    /\ UNCHANGED <<mount, here, balance, unsaid, shown, missed, overtaken>>

Connect(m) ==
    /\ effect[m] = "body"
    /\ To(m, IF Cancelled(m) THEN "over" ELSE "connecting")
    /\ UNCHANGED <<mount, here, balance, unsaid, shown, missed, overtaken>>

\* handleConnection: the ticket is verified and the socket joins the user's room,
\* or it is disconnected for good.
HandleConnection(m, valid) ==
    /\ effect[m] = "connecting"
    /\ To(m, IF valid THEN "joined" ELSE "over")
    /\ UNCHANGED <<mount, here, balance, unsaid, shown, missed, overtaken>>

Drop(m) ==
    /\ effect[m] = "joined"
    /\ To(m, "dropped")
    /\ UNCHANGED <<mount, here, balance, unsaid, shown, missed, overtaken>>

\* socket.io connects again, with the ticket it has.
Reconnect(m) ==
    /\ effect[m] = "dropped"
    /\ To(m, "connecting")
    /\ UNCHANGED <<mount, here, balance, unsaid, shown, missed, overtaken>>

-----------------------------------------------------------------------------
(* The handlers.                                                           *)

Commit ==
    /\ balance < MaxCommits
    /\ balance' = balance + 1 /\ unsaid' = unsaid \cup {balance + 1}
    /\ UNCHANGED <<mount, here, effect, shown, missed, overtaken>>

\* What an announcement of b does to the page.
Announce(b) ==
    IF here /\ effect[mount] = "joined"
    THEN /\ shown' = b
         /\ overtaken' = (b < balance /\ (b < shown \/ overtaken))
         /\ missed' = (missed /\ b < balance)
    ELSE /\ missed' = (missed \/ b > shown)
         /\ UNCHANGED <<shown, overtaken>>

\* Mutant: the balance before the change is announced.
EmitBalanceBefore(b) ==
    /\ b \in unsaid
    /\ unsaid' = unsaid \ {b}
    /\ Announce(b - 1)
    /\ UNCHANGED <<mount, here, effect, balance>>

\* After the commit, each handler in its own time.
EmitBalance(b) ==
    /\ b \in unsaid
    /\ unsaid' = unsaid \ {b}
    /\ Announce(b)
    /\ UNCHANGED <<mount, here, effect, balance>>

Next ==
    \/ Open \/ Close \/ Commit
    \/ \E m \in Mounts :
          \/ \E ok \in BOOLEAN : TicketAnswers(m, ok) \/ HandleConnection(m, ok)
          \/ Connect(m) \/ Drop(m) \/ Reconnect(m)
    \/ \E b \in 1..MaxCommits : EmitBalance(b)
    \/ mount = MaxMounts /\ ~here /\ UNCHANGED vars

Spec == Init /\ [][Next]_vars

-----------------------------------------------------------------------------
(* Properties.                                                             *)

\* A socket is open only for a component that is on screen: a connection that
\* finishes after the page was left is dropped, never leaked.
NoLeakedSocket == \A m \in Mounts : effect[m] \in Live => m = mount /\ here

\* When every change has been announced, the page shows the balance there is,
\* unless an announcement came while the socket was not in the room or after a
\* newer one: nothing on the page mends either before it is opened again.
BalanceShown ==
    here /\ unsaid = {} /\ ~missed /\ ~overtaken => shown = balance
=============================================================================
