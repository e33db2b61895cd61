------------------------ MODULE NotificationPipeline ------------------------
(***************************************************************************)
(* From a committed event to a push: OutboxService, QueueService and       *)
(* NotificationConsumer, with RabbitMQ and Redis between them.             *)
(*                                                                         *)
(* An event is an OutboxEvent row.  Every publish of it makes one copy of  *)
(* the message.  A copy is on the wire, in the main queue, parked in a     *)
(* retry queue, or delivered to the worker, where it is as far as the      *)
(* handler of that delivery is.  Api processes commit events, publish them *)
(* right after COMMIT (publishNow) and relay the pending ones              *)
(* (relayPending); the worker (worker.ts) holds up to Prefetch deliveries. *)
(* Awaits separate steps: each database statement, Redis call and push is  *)
(* a step, and a publish belongs to the step that calls it.                *)
(*                                                                         *)
(* The channel has no publisher confirms.  publish returns before the      *)
(* broker has the message; if the connection is lost in between, a process *)
(* in Lossy loses the message.                                             *)
(***************************************************************************)
EXTENDS Naturals, FiniteSets

CONSTANTS
    Event,
    Api,          \* API processes
    Worker,       \* the consumer's process
    Copy,         \* bound: copies of messages that exist at a time
    None,
    Prefetch,     \* PREFETCH
    MaxRetries,   \* MAX_RETRIES
    Budget,       \* bound: failures of each process
    Lossy,        \* processes whose lost connection takes with it what is on the wire
    Faults        \* what may go wrong in this instance

FaultNames == {"apiCrash", "apiDisconnect", "relayFails", "markFails", "backpressure",
               "workerCrash", "redisDown", "pushFails"}

ASSUME PipelineAssumption ==
    /\ None \notin Event \cup Copy \cup Api
    /\ Worker \notin Api \cup {None}
    /\ {Prefetch, MaxRetries, Budget} \subseteq Nat
    /\ Lossy \subseteq Api \cup {Worker}
    /\ Faults \subseteq FaultNames

Process == Api \cup {Worker}

VARIABLES
    row,        \* OutboxEvent.status of each event
    disp, host, \* publishNow of each event: where it is, and in which process
    relay,      \* relayPending of each Api process
    connected,  \* processes whose QueueService has a channel
    copy,       \* the copies of messages
    dead,       \* events with a copy in the dead queue, which nothing consumes
    marks,      \* events whose mq:done key is in Redis
    pushed,     \* how often sendToUser succeeded for each event
    failures,   \* of each process: crashes, lost connections, rolled back relays
    struck      \* ghost: which of backpressure and redisDown have made a difference

vars == <<row, disp, host, relay, connected, copy, dead, marks, pushed, failures, struck>>
outbox == <<row, disp, host, relay>>
consumer == <<dead, marks, pushed>>

NoCopy == [at |-> "unused", ev |-> None, retry |-> 0, via |-> None, ahead |-> None]
NoRelay == [phase |-> "idle", rows |-> {}, done |-> {}]

Init ==
    /\ row = [e \in Event |-> "none"]
    /\ disp = [e \in Event |-> "none"]
    /\ host = [e \in Event |-> None]
    /\ relay = [i \in Api |-> NoRelay]
    /\ connected = {}
    /\ copy = [c \in Copy |-> NoCopy]
    /\ dead = {}
    /\ marks = {}
    /\ pushed = [e \in Event |-> 0]
    /\ failures = [p \in Process |-> 0]
    /\ struck = {}

Unused == {c \in Copy : copy[c].at = "unused"}

\* What channel.publish leaves on the wire.
Sent(e, retry, via) == [at |-> "wire", ev |-> e, retry |-> retry, via |-> via, ahead |-> None]

\* A fault that makes a difference here: false from a publish that has sent the
\* message all the same, a mark that Redis cannot say or keep.
Strikes(fault) == fault \in Faults /\ struck' = struck \cup {fault}

-----------------------------------------------------------------------------
(***************************************************************************)
(* The outbox.                                                             *)
(***************************************************************************)
\* enqueue inside the caller's transaction, which commits.
Commit(e, i) ==
    /\ row[e] = "none"
    /\ row' = [row EXCEPT ![e] = "pending"]
    /\ disp' = [disp EXCEPT ![e] = "publish"]
    /\ host' = [host EXCEPT ![e] = i]
    /\ UNCHANGED <<relay, connected, copy, consumer, struck, failures>>

\* publishNow.  Without a channel publish returns FALSE; with one it returns
\* FALSE only when the write buffer is full, and the message is sent all the
\* same.  After FALSE only the attempts counter is written.
PublishNow(e) ==
    /\ disp[e] = "publish"
    /\ \/ /\ host[e] \in connected
          /\ \E c \in Unused : copy' = [copy EXCEPT ![c] = Sent(e, 0, host[e])]
          /\ \/ disp' = [disp EXCEPT ![e] = "mark"] /\ UNCHANGED struck
             \/ Strikes("backpressure") /\ disp' = [disp EXCEPT ![e] = "ended"]
       \/ /\ host[e] \notin connected
          /\ disp' = [disp EXCEPT ![e] = "ended"]
          /\ UNCHANGED <<copy, struck>>
    /\ UNCHANGED <<row, host, relay, connected, consumer, failures>>

Locked == UNION {relay[i].rows : i \in Api}

\* The update waits for a relay that has the row locked.  Its failure is only
\* logged.
MarkPublished(e) ==
    /\ disp[e] = "mark"
    /\ e \notin Locked
    /\ \/ row' = [row EXCEPT ![e] = "published"]
       \/ "markFails" \in Faults /\ UNCHANGED row
    /\ disp' = [disp EXCEPT ![e] = "ended"]
    /\ UNCHANGED <<host, relay, connected, copy, consumer, struck, failures>>

Available == {e \in Event : row[e] = "pending"} \ Locked

\* Mutant: the SELECT takes rows another relay has locked.
RelaySelectPlain(i) ==
    LET pending == {e \in Event : row[e] = "pending"} IN
    /\ relay[i].phase = "idle"
    /\ i \in connected
    /\ pending # {}
    /\ relay' = [relay EXCEPT ![i] = [phase |-> "selected", rows |-> pending, done |-> {}]]
    /\ UNCHANGED <<row, disp, host, connected, copy, consumer, struck, failures>>

\* relayPending: SELECT ... FOR UPDATE SKIP LOCKED.  The batch of 50 is larger
\* than any instance.
RelaySelect(i) ==
    /\ relay[i].phase = "idle"
    /\ i \in connected
    /\ Available # {}
    /\ relay' = [relay EXCEPT ![i] = [phase |-> "selected", rows |-> Available, done |-> {}]]
    /\ UNCHANGED <<row, disp, host, connected, copy, consumer, struck, failures>>

\* The loop over the batch has no await in it.  slot says which copy each row
\* becomes; done are the rows for which publish returned TRUE.
RelayPublish(i) ==
    LET rows == relay[i].rows IN
    /\ relay[i].phase = "selected"
    /\ \/ /\ i \in connected
          /\ \E slot \in [rows -> Unused] :
                /\ \A d, e \in rows : slot[d] = slot[e] => d = e
                /\ copy' = [c \in Copy |->
                               IF \E e \in rows : slot[e] = c
                               THEN Sent(CHOOSE e \in rows : slot[e] = c, 0, i)
                               ELSE copy[c]]
          /\ \E done \in SUBSET rows :
                /\ \/ done = rows /\ UNCHANGED struck
                   \/ done # rows /\ Strikes("backpressure")
                /\ relay' = [relay EXCEPT ![i].phase = "published", ![i].done = done]
       \/ /\ i \notin connected
          /\ relay' = [relay EXCEPT ![i].phase = "published"]
          /\ UNCHANGED <<copy, struck>>
    /\ UNCHANGED <<row, disp, host, connected, consumer, failures>>

RelayCommit(i) ==
    /\ relay[i].phase = "published"
    /\ row' = [e \in Event |-> IF e \in relay[i].done THEN "published" ELSE row[e]]
    /\ relay' = [relay EXCEPT ![i] = NoRelay]
    /\ UNCHANGED <<disp, host, connected, copy, consumer, struck, failures>>

\* purgePublished, seven days later: publishNow has ended by then.
Purge(e) ==
    /\ row[e] = "published"
    /\ disp[e] = "ended"
    /\ row' = [row EXCEPT ![e] = "purged"]
    /\ UNCHANGED <<disp, host, relay, connected, copy, consumer, struck, failures>>

-----------------------------------------------------------------------------
(***************************************************************************)
(* The broker.                                                             *)
(***************************************************************************)
\* A copy arrives and is routed: the first send to the main queue, a retry to
\* its retry queue.  An ack sent after it is now first in line.
Arrive(c) ==
    /\ copy[c].at = "wire"
    /\ copy' = [d \in Copy |->
          IF d = c THEN [copy[c] EXCEPT !.at = IF copy[c].retry = 0 THEN "main" ELSE "parked", !.via = None]
          ELSE IF copy[d].ahead = c THEN [copy[d] EXCEPT !.ahead = None]
          ELSE copy[d]]
    /\ UNCHANGED <<outbox, connected, consumer, struck, failures>>

\* The TTL of the retry queue dead-letters the copy back to the main queue.
Unpark(c) ==
    /\ copy[c].at = "parked"
    /\ copy' = [copy EXCEPT ![c].at = "main"]
    /\ UNCHANGED <<outbox, connected, consumer, struck, failures>>

Handling == {"check", "send", "mark", "ack"}
Unsettled == Handling \cup {"acking", "nacking"}

\* A delivery starts NotificationConsumer.handle.
Deliver(c) ==
    /\ Worker \in connected
    /\ copy[c].at = "main"
    /\ Cardinality({d \in Copy : copy[d].at \in Unsettled}) < Prefetch
    /\ copy' = [copy EXCEPT ![c].at = "check"]
    /\ UNCHANGED <<outbox, connected, consumer, struck, failures>>

\* An ack arrives, after what was sent before it on the channel.
Acked(c) ==
    /\ copy[c].at = "acking"
    /\ copy[c].ahead = None
    /\ copy' = [copy EXCEPT ![c] = NoCopy]
    /\ UNCHANGED <<outbox, connected, consumer, struck, failures>>

\* A nack without requeue arrives: the copy goes to the dead queue.
DeadLettered(c) ==
    /\ copy[c].at = "nacking"
    /\ copy' = [copy EXCEPT ![c] = NoCopy]
    /\ dead' = dead \cup {copy[c].ev}
    /\ UNCHANGED <<outbox, connected, marks, pushed, struck, failures>>

-----------------------------------------------------------------------------
(***************************************************************************)
(* NotificationConsumer.handle for the delivery of copy c.                 *)
(***************************************************************************)
Goto(c, where) == copy' = [copy EXCEPT ![c].at = where]

\* Mutant: the handler does not look for the mark.
CheckMarkNever(c) ==
    /\ copy[c].at = "check"
    /\ Goto(c, "send")
    /\ UNCHANGED <<outbox, connected, consumer, struck, failures>>

\* cache.get: a failing Redis reads as "not done".
CheckMark(c) ==
    /\ copy[c].at = "check"
    /\ \/ copy[c].ev \in marks /\ Goto(c, "acking") /\ UNCHANGED struck
       \/ copy[c].ev \notin marks /\ Goto(c, "send") /\ UNCHANGED struck
       \/ copy[c].ev \in marks /\ Goto(c, "send") /\ Strikes("redisDown")
    /\ UNCHANGED <<outbox, connected, consumer, failures>>

\* Bound: the pushes counted.  Above it pushed stands still.
PushLimit == Prefetch * (Budget + 1) + 1

\* sendToUser reaches every subscription that is still there.
PushOk(c) ==
    /\ copy[c].at = "send"
    /\ pushed' = [pushed EXCEPT ![copy[c].ev] = IF @ < PushLimit THEN @ + 1 ELSE @]
    /\ Goto(c, "mark")
    /\ UNCHANGED <<outbox, connected, dead, marks, struck, failures>>

\* sendToUser throws and the retries are used up.
GiveUp(c) ==
    /\ "pushFails" \in Faults
    /\ copy[c].at = "send"
    /\ copy[c].retry >= MaxRetries
    /\ Goto(c, "nacking")
    /\ UNCHANGED <<outbox, connected, consumer, struck, failures>>

\* Mutant: the header does not count.
RetryUncounted(c) ==
    /\ "pushFails" \in Faults
    /\ copy[c].at = "send"
    /\ copy[c].retry < MaxRetries
    /\ \E r \in Unused :
          copy' = [copy EXCEPT ![r] = Sent(copy[c].ev, copy[c].retry, Worker),
                               ![c].at = "acking", ![c].ahead = r]
    /\ UNCHANGED <<outbox, connected, consumer, struck, failures>>

\* Mutant: the ack is sent before the retry copy.
RetryAckFirst(c) ==
    /\ "pushFails" \in Faults
    /\ copy[c].at = "send"
    /\ copy[c].retry < MaxRetries
    /\ \E r \in Unused :
          copy' = [copy EXCEPT ![r] = Sent(copy[c].ev, copy[c].retry + 1, Worker), ![c].at = "acking"]
    /\ UNCHANGED <<outbox, connected, consumer, struck, failures>>

\* sendToUser throws: the retry copy r is sent, then the ack of the original.
\* When publish returned FALSE the original is put back instead.
Retry(c) ==
    /\ "pushFails" \in Faults
    /\ copy[c].at = "send"
    /\ copy[c].retry < MaxRetries
    /\ \E r \in Unused :
          LET sent == [copy EXCEPT ![r] = Sent(copy[c].ev, copy[c].retry + 1, Worker)] IN
          \/ copy' = [sent EXCEPT ![c].at = "acking", ![c].ahead = r] /\ UNCHANGED struck
          \/ copy' = [sent EXCEPT ![c].at = "main"] /\ Strikes("backpressure")
    /\ UNCHANGED <<outbox, connected, consumer, failures>>

\* cache.set, which does nothing when Redis is down ...
SetMark(c) ==
    /\ copy[c].at = "mark"
    /\ \/ marks' = marks \cup {copy[c].ev} /\ UNCHANGED struck
       \/ UNCHANGED marks /\ Strikes("redisDown")
    /\ Goto(c, "ack")
    /\ UNCHANGED <<outbox, connected, dead, pushed, failures>>

\* ... then the ack.
Ack(c) ==
    /\ copy[c].at = "ack"
    /\ Goto(c, "acking")
    /\ UNCHANGED <<outbox, connected, consumer, struck, failures>>

-----------------------------------------------------------------------------
(***************************************************************************)
(* Failures.  When a connection is lost the broker puts back every         *)
(* delivery that is not settled, also when its ack was on the way.         *)
(***************************************************************************)
Fails(p) ==
    /\ failures[p] < Budget
    /\ failures' = [failures EXCEPT ![p] = @ + 1]

LoseConnection(p) ==
    /\ Fails(p)
    /\ connected' = connected \ {p}
    /\ copy' = [c \in Copy |->
          IF copy[c].at = "wire" /\ copy[c].via = p /\ p \in Lossy THEN NoCopy
          ELSE IF copy[c].at \in Unsettled /\ p = Worker THEN [copy[c] EXCEPT !.at = "main", !.ahead = None]
          ELSE copy[c]]

\* onConnectionClosed in an API process: the channel is gone, the process goes on.
ApiDisconnect(i) ==
    /\ "apiDisconnect" \in Faults
    /\ i \in connected
    /\ LoseConnection(i)
    /\ UNCHANGED <<outbox, consumer, struck>>

\* The process dies, its dispatches and its relay transaction with it.
ApiCrash(i) ==
    /\ "apiCrash" \in Faults
    /\ LoseConnection(i)
    /\ disp' = [e \in Event |-> IF host[e] = i THEN "ended" ELSE disp[e]]
    /\ relay' = [relay EXCEPT ![i] = NoRelay]
    /\ UNCHANGED <<row, host, consumer, struck>>

\* The worker dies, or exits because its connection closed.
WorkerCrash ==
    /\ "workerCrash" \in Faults
    /\ Worker \in connected
    /\ LoseConnection(Worker)
    /\ UNCHANGED <<outbox, consumer, struck>>

\* The relay's transaction rolls back, perhaps after its rows were published.
RelayAbort(i) ==
    /\ "relayFails" \in Faults
    /\ relay[i].phase # "idle"
    /\ Fails(i)
    /\ relay' = [relay EXCEPT ![i] = NoRelay]
    /\ UNCHANGED <<row, disp, host, connected, copy, consumer, struck>>

\* open: on start, from scheduleReconnect, or in the process the supervisor
\* started again; the worker then consumes.
Open(p) ==
    /\ p \notin connected
    /\ connected' = connected \cup {p}
    /\ UNCHANGED <<outbox, copy, consumer, struck, failures>>

-----------------------------------------------------------------------------
RelayStep(i) == RelaySelect(i) \/ RelayPublish(i) \/ RelayCommit(i)
BrokerStep(c) == Arrive(c) \/ Unpark(c) \/ Acked(c) \/ DeadLettered(c)
HandlerStep(c) == CheckMark(c) \/ PushOk(c) \/ GiveUp(c) \/ Retry(c) \/ SetMark(c) \/ Ack(c)
Failure == WorkerCrash \/ \E i \in Api : ApiDisconnect(i) \/ ApiCrash(i) \/ RelayAbort(i)

\* Every event of the instance is through.
AllEnded == (\A e \in Event : row[e] = "purged") /\ Unused = Copy /\ UNCHANGED vars

Next ==
    \/ \E e \in Event, i \in Api : Commit(e, i)
    \/ \E e \in Event : PublishNow(e) \/ MarkPublished(e) \/ Purge(e)
    \/ \E i \in Api : RelayStep(i)
    \/ \E p \in Process : Open(p)
    \/ \E c \in Copy : BrokerStep(c) \/ Deliver(c) \/ HandlerStep(c)
    \/ Failure
    \/ AllEnded

Spec == Init /\ [][Next]_vars

\* The relay runs on a timer, a lost connection is opened again, the broker
\* routes and delivers what it has, and a handler that started goes on.
FairSpec ==
    /\ Spec
    /\ \A e \in Event : WF_vars(PublishNow(e)) /\ WF_vars(MarkPublished(e))
    /\ \A i \in Api : WF_vars(RelayStep(i))
    /\ \A p \in Process : WF_vars(Open(p))
    /\ \A c \in Copy : WF_vars(BrokerStep(c)) /\ WF_vars(Deliver(c)) /\ WF_vars(HandlerStep(c))

-----------------------------------------------------------------------------
Places == {"unused", "wire", "main", "parked"} \cup Unsettled
Copies == [at: Places, ev: Event \cup {None}, retry: 0..MaxRetries,
           via: Process \cup {None}, ahead: Copy \cup {None}]
Relays == [phase: {"idle", "selected", "published"}, rows: SUBSET Event, done: SUBSET Event]

\* Every variable has its type; in particular no copy is sent with a retry
\* count for which there is no retry queue.
TypeOK ==
    /\ row \in [Event -> {"none", "pending", "published", "purged"}]
    /\ disp \in [Event -> {"none", "publish", "mark", "ended"}]
    /\ host \in [Event -> Api \cup {None}]
    /\ relay \in [Api -> Relays]
    /\ connected \in SUBSET Process
    /\ copy \in [Copy -> Copies]
    /\ dead \in SUBSET Event
    /\ marks \in SUBSET Event
    /\ pushed \in [Event -> Nat]
    /\ failures \in [Process -> 0..Budget]
    /\ struck \in SUBSET Faults

Through(e) == pushed[e] > 0 \/ e \in dead

\* "Nothing is lost, only delayed": an event that is no longer pending was
\* pushed, is in the dead queue, or has a copy that is not about to be deleted.
NothingLost ==
    \A e \in Event :
        row[e] \in {"published", "purged"} =>
            Through(e) \/ \E c \in Copy : copy[c].ev = e /\ ~(copy[c].at = "acking" /\ copy[c].ahead = None)

\* What the dedupe mark buys until Redis fails one: however often an event is
\* published and redelivered, each life of the worker pushes it at most as
\* often as it holds deliveries at a time.
DuplicatesBounded ==
    "redisDown" \notin struck => \A e \in Event : pushed[e] <= Prefetch * (failures[Worker] + 1)

\* "Several API instances split the batch instead of double-publishing": before
\* any failure, and until a publish reports a full buffer, an event has at most
\* the copy of publishNow and one copy of a relay, or the retry copies of these.
TwoCopiesAtMost ==
    "backpressure" \notin struck /\ (\A p \in Process : failures[p] = 0) =>
        \A e \in Event : Cardinality({c \in Copy : copy[c].ev = e /\ copy[c].at # "acking"}) <= 2

\* Relays and publishNow make few copies of an event, since SKIP LOCKED and the
\* status column keep the relays apart; and the dedupe mark bounds how often an
\* event is pushed by the deliveries held at a time and the lives of the worker.
DuplicatesFew == TypeOK /\ TwoCopiesAtMost /\ DuplicatesBounded

\* The relay's guarantee: a committed event is pushed, or ends in the dead
\* queue after its retries.
Delivered == \A e \in Event : row[e] = "pending" ~> Through(e)

-----------------------------------------------------------------------------
(***************************************************************************)
(* The inductive invariant behind NothingLost, for API connections that    *)
(* lose nothing.  A copy is solid when no single failure or ack can remove *)
(* it: a retry copy on the wire is not, but then the original is, because  *)
(* its ack is queued behind the retry copy.                                *)
(***************************************************************************)
Solid(c) ==
    \/ copy[c].at \in Handling \cup {"main", "parked", "nacking"}
    \/ copy[c].at = "wire" /\ copy[c].via # Worker
    \/ copy[c].at = "acking" /\ copy[c].ahead # None

Firm(e) == Through(e) \/ \E c \in Copy : copy[c].ev = e /\ Solid(c)

CopiesOK ==
    \A c \in Copy :
        /\ copy[c].at # "unused" => copy[c].ev \in Event /\ Firm(copy[c].ev)
        /\ copy[c].at \in {"mark", "ack"} => pushed[copy[c].ev] > 0
        /\ copy[c].ahead # None =>
               /\ copy[c].at = "acking"
               /\ copy[copy[c].ahead].at = "wire"
               /\ copy[copy[c].ahead].ev = copy[c].ev

OutboxOK ==
    /\ \A e \in Event : row[e] \in {"published", "purged"} \/ disp[e] = "mark" => Firm(e)
    /\ \A i \in Api : \A e \in relay[i].done : Firm(e)
    /\ \A e \in marks : pushed[e] > 0

PipelineInv == TypeOK /\ CopiesOK /\ OutboxOK
=============================================================================
