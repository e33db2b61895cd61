---------------------------- MODULE PushDevices -----------------------------
(***************************************************************************)
(* Web push on the devices of two people: the toggle, the browser's        *)
(* permission and subscription, the rows of the API, and sendToUser, which *)
(* tries every row of a person and throws if any failed, so that the queue *)
(* tries all of them again.                                                *)
(*                                                                         *)
(* A device's endpoint is a pair: the device and the subscription's number.*)
(***************************************************************************)
EXTENDS Naturals

CONSTANTS
    Device, User,
    MaxSubs,       \* bound: subscriptions each device takes out
    MaxTries       \* bound: deliveries of one push

VARIABLES
    signedIn,   \* who uses each device
    perm,       \* the browser's permission on each device
    sub,        \* the number of its subscription, 0 when it has none
    last,       \* the number of its latest subscription
    toggle,     \* what the toggle takes the permission for
    flow,       \* what the toggle is waiting for
    rows,       \* the API's subscriptions: endpoint and owner
    push,       \* the push under way: whose, and how often it was tried
    copies,     \* ghost: how often each endpoint showed it
    faults      \* ghost: transient failures while it was tried

vars == <<signedIn, perm, sub, last, toggle, flow, rows, push, copies, faults>>

Endpoint == UNION {{d} \X (1..MaxSubs[d]) : d \in Device}
Perms == {"default", "granted", "denied"}
Nobody == "nobody"
NoPush == [to |-> Nobody, tries |-> 0]
Owned(u) == {e \in Endpoint : rows[e] = u}
Alive(e) == sub[e[1]] = e[2]

TypeOK ==
    /\ signedIn \in [Device -> User]
    /\ perm \in [Device -> Perms] /\ toggle \in [Device -> Perms]
    /\ \A d \in Device : sub[d] \in 0..last[d] /\ last[d] \in 0..MaxSubs[d]
    /\ flow \in [Device -> {"idle", "asking", "posting", "leaving", "stuck"}]
    /\ rows \in [Endpoint -> User \cup {Nobody}]
    /\ push \in [to : User, tries : 1..MaxTries] \cup {NoPush}
    /\ copies \in [Endpoint -> 0..MaxTries] /\ faults \in 0..MaxTries

Init ==
    /\ signedIn \in [Device -> User]
    /\ perm = [d \in Device |-> "default"] /\ toggle = perm
    /\ sub = [d \in Device |-> 0] /\ last = sub
    /\ flow = [d \in Device |-> "idle"]
    /\ rows = [e \in Endpoint |-> Nobody]
    /\ push = NoPush /\ copies = [e \in Endpoint |-> 0] /\ faults = 0

-----------------------------------------------------------------------------
(* The toggle.                                                             *)

Sending == <<push, copies, faults>>
Flow(d, at) == flow' = [flow EXCEPT ![d] = at]

\* The page loads: the toggle reads the browser's permission.
Load(d) ==
    /\ flow[d] \in {"idle", "stuck"}
    /\ toggle' = [toggle EXCEPT ![d] = perm[d]] /\ Flow(d, "idle")
    /\ UNCHANGED <<signedIn, perm, sub, last, rows, Sending>>

Enable(d) ==
    /\ flow[d] = "idle" /\ toggle[d] = "default" /\ (sub[d] # 0 \/ last[d] < MaxSubs[d])
    /\ Flow(d, "asking")
    /\ UNCHANGED <<signedIn, perm, sub, last, toggle, rows, Sending>>

\* requestPermission answers; granted, the browser subscribes (or still is).
Permission(d, answer) ==
    /\ flow[d] = "asking"
    /\ perm[d] # "default" => answer = perm[d]
    /\ perm' = [perm EXCEPT ![d] = answer]
    /\ \/ /\ answer # "granted"
          /\ toggle' = [toggle EXCEPT ![d] = answer] /\ Flow(d, "idle")
          /\ UNCHANGED <<sub, last>>
       \/ /\ answer = "granted"
          /\ IF sub[d] # 0 THEN UNCHANGED <<sub, last>>
             ELSE /\ sub' = [sub EXCEPT ![d] = last[d] + 1]
                  /\ last' = [last EXCEPT ![d] = last[d] + 1]
          /\ Flow(d, "posting") /\ UNCHANGED toggle
    /\ UNCHANGED <<signedIn, rows, Sending>>

\* PushService.subscribe: the endpoint's row is the caller's from now on.
Subscribe(e, u) == rows' = [rows EXCEPT ![e] = u]

Enabled(d) ==
    /\ flow[d] = "posting"
    /\ Subscribe(<<d, sub[d]>>, signedIn[d])
    /\ toggle' = [toggle EXCEPT ![d] = perm[d]] /\ Flow(d, "idle")
    /\ UNCHANGED <<signedIn, perm, sub, last, Sending>>

\* The API refuses: the toggle shows the permission all the same.  A network
\* failure throws before the toggle is released, and only a reload helps.
EnableFails(d, thrown) ==
    /\ flow[d] = "posting"
    /\ IF thrown THEN Flow(d, "stuck") /\ UNCHANGED toggle
       ELSE Flow(d, "idle") /\ toggle' = [toggle EXCEPT ![d] = perm[d]]
    /\ UNCHANGED <<signedIn, perm, sub, last, rows, Sending>>

\* disable: the API forgets the row if it is the caller's, then the browser
\* unsubscribes.  Without a subscription there is nothing to do.
Disable(d) ==
    /\ flow[d] = "idle" /\ toggle[d] = "granted"
    /\ IF sub[d] = 0
       THEN toggle' = [toggle EXCEPT ![d] = "default"] /\ UNCHANGED flow
       ELSE Flow(d, "leaving") /\ UNCHANGED toggle
    /\ UNCHANGED <<signedIn, perm, sub, last, rows, Sending>>

Unsubscribe(d, ok) ==
    LET e == <<d, sub[d]>> IN
    IF ok /\ rows[e] = signedIn[d] THEN rows' = [rows EXCEPT ![e] = Nobody]
    ELSE UNCHANGED rows

\* Mutant: the browser keeps its subscription.
DisabledKeeps(d, ok) ==
    /\ flow[d] = "leaving"
    /\ Unsubscribe(d, ok)
    /\ toggle' = [toggle EXCEPT ![d] = "default"] /\ Flow(d, "idle")
    /\ UNCHANGED <<signedIn, perm, sub, last, Sending>>

Disabled(d, ok) ==
    /\ flow[d] = "leaving"
    /\ Unsubscribe(d, ok)
    /\ sub' = [sub EXCEPT ![d] = 0]
    /\ toggle' = [toggle EXCEPT ![d] = "default"] /\ Flow(d, "idle")
    /\ UNCHANGED <<signedIn, perm, last, Sending>>

\* The call fails on its way out or back: nothing after it runs, and the button
\* stays busy until the page is loaded again.
DisableThrows(d, ok) ==
    /\ flow[d] = "leaving"
    /\ Unsubscribe(d, ok) /\ Flow(d, "stuck")
    /\ UNCHANGED <<signedIn, perm, sub, last, toggle, Sending>>

\* Another person signs in on the device, which loads the page.  The
\* subscription stays.
SignIn(d, u) ==
    /\ u # signedIn[d] /\ flow[d] = "idle"
    /\ signedIn' = [signedIn EXCEPT ![d] = u]
    /\ toggle' = [toggle EXCEPT ![d] = perm[d]]
    /\ UNCHANGED <<perm, sub, last, flow, rows, Sending>>

-----------------------------------------------------------------------------
(* sendToUser.                                                             *)

\* Every row is tried: shown, or pruned when the browser unsubscribed, or failed
\* for the moment.  Any failure of the last kind has the queue try all again.
Attempt(u, failed) ==
    /\ failed \subseteq {e \in Owned(u) : Alive(e)}
    /\ copies' = [e \in Endpoint |->
                     IF e \in Owned(u) /\ Alive(e) /\ e \notin failed THEN copies[e] + 1 ELSE copies[e]]
    /\ rows' = [e \in Endpoint |-> IF e \in Owned(u) /\ ~Alive(e) THEN Nobody ELSE rows[e]]
    /\ faults' = IF failed = {} THEN faults ELSE faults + 1

\* Mutant: a browser that unsubscribed counts as a failure too.
RetryAny(u, tries, failed) == (failed # {} \/ \E e \in Owned(u) : ~Alive(e)) /\ tries < MaxTries

Retry(u, tries, failed) == failed # {} /\ tries < MaxTries

Send(u, tries, failed) ==
    /\ Attempt(u, failed)
    /\ push' = IF Retry(u, tries, failed) THEN [to |-> u, tries |-> tries] ELSE NoPush
    /\ UNCHANGED <<signedIn, perm, sub, last, toggle, flow>>

SendToUser(u) ==
    /\ push = NoPush /\ Owned(u) # {} /\ faults = 0 /\ copies = [e \in Endpoint |-> 0]
    /\ \E failed \in SUBSET Owned(u) : Send(u, 1, failed)

SendAgain == push # NoPush /\ \E failed \in SUBSET Owned(push.to) : Send(push.to, push.tries + 1, failed)

\* The next message starts its own count.
Forget ==
    /\ push = NoPush /\ (faults # 0 \/ copies # [e \in Endpoint |-> 0])
    /\ copies' = [e \in Endpoint |-> 0] /\ faults' = 0
    /\ UNCHANGED <<signedIn, perm, sub, last, toggle, flow, rows, push>>

Next ==
    \/ \E d \in Device :
          \/ Load(d) \/ Enable(d) \/ Enabled(d) \/ Disable(d)
          \/ \E answer \in Perms : Permission(d, answer)
          \/ \E b \in BOOLEAN : EnableFails(d, b) \/ Disabled(d, b) \/ DisableThrows(d, b)
          \/ \E u \in User : SignIn(d, u)
    \/ \E u \in User : SendToUser(u)
    \/ SendAgain \/ Forget

Spec == Init /\ [][Next]_vars

-----------------------------------------------------------------------------
(* Properties.                                                             *)

\* A toggle that reads off, on a device nobody is switching, has no live
\* subscription behind it, although permission, subscription, row and toggle
\* change one after the other and any call in between may fail: nothing shows
\* there.
OffIsQuiet == \A d \in Device : flow[d] = "idle" /\ toggle[d] = "default" /\ perm[d] = "granted" => sub[d] = 0

\* No device shows one message more often than once and once per failed try of
\* another: the retry repeats what had succeeded, and only a transient failure
\* causes it.
CopiesForFaults == \A e \in Endpoint : copies[e] <= 1 + faults
=============================================================================
