------------------------- MODULE NotificationProofs -------------------------
(***************************************************************************)
(* Theorems about NotificationPipeline for any events, processes, copies,  *)
(* retries and prefetch, and with every fault of FaultNames allowed.       *)
(***************************************************************************)
EXTENDS NotificationPipeline, FiniteSetTheorems, TLAPS

USE PipelineAssumption

\* A published message is a copy on the wire, and the empty slot is one too.
LEMMA CopyTypes ==
    /\ NoCopy \in Copies
    /\ \A e \in Event, n \in 0..MaxRetries, p \in Process :
          /\ Sent(e, n, p) \in Copies
          /\ Sent(e, n, p).at = "wire"
          /\ Sent(e, n, p).ev = e
          /\ Sent(e, n, p).via = p
          /\ Sent(e, n, p).ahead = None
BY DEF NoCopy, Sent, Copies, Places

\* The pushes counted go up to a positive limit.
LEMMA PushLimitPositive == PushLimit \in Nat /\ PushLimit > 0
BY DEF PushLimit

\* Moving a copy to another place keeps everything else of it.
LEMMA GotoFacts ==
    ASSUME TypeOK, NEW c \in Copy, NEW where \in Places, Goto(c, where)
    PROVE  /\ copy' \in [Copy -> Copies]
           /\ copy'[c] = [copy[c] EXCEPT !.at = where]
           /\ \A d \in Copy \ {c} : copy'[d] = copy[d]
BY DEF Goto, TypeOK, Copies

\* The rows a relay publishes become distinct copies on the wire, in slots that
\* were unused.
LEMMA RelayPublishFacts ==
    ASSUME TypeOK, NEW i \in Api, RelayPublish(i), i \in connected
    PROVE  /\ copy' \in [Copy -> Copies]
           /\ \A c \in Copy :
                 \/ copy'[c] = copy[c]
                 \/ /\ copy[c].at = "unused"
                    /\ copy'[c].at = "wire" /\ copy'[c].via = i /\ copy'[c].ahead = None
                    /\ copy'[c].ev \in Event
           /\ \A e \in relay[i].rows :
                 \E c \in Copy : copy'[c].ev = e /\ copy'[c].at = "wire" /\ copy'[c].via = i
<1> DEFINE rows == relay[i].rows
           row4(slot, c) == CHOOSE e \in rows : slot[e] = c
<1>0. rows \subseteq Event /\ i \in Process /\ 0 \in 0..MaxRetries
  BY DEF TypeOK, Relays, Process
<1>1. PICK slot \in [rows -> Unused] :
         /\ \A d, e \in rows : slot[d] = slot[e] => d = e
         /\ copy' = [c \in Copy |-> IF \E e \in rows : slot[e] = c
                                    THEN Sent(row4(slot, c), 0, i) ELSE copy[c]]
  BY DEF RelayPublish
<1>2. ASSUME NEW c \in Copy, NEW e \in rows, slot[e] = c PROVE row4(slot, c) = e
  BY <1>1, <1>2
<1> HIDE DEF row4
<1>3. ASSUME NEW c \in Copy, NEW e \in rows, slot[e] = c
      PROVE  copy'[c] = Sent(e, 0, i) /\ copy[c].at = "unused"
  BY <1>1, <1>2, <1>3 DEF Unused
<1>4. ASSUME NEW c \in Copy, ~\E e \in rows : slot[e] = c PROVE copy'[c] = copy[c]
  BY <1>1, <1>4
<1>5. ASSUME NEW c \in Copy PROVE copy'[c] \in Copies
  BY <1>0, <1>3, <1>4, CopyTypes DEF TypeOK
<1>6. ASSUME NEW e \in rows
      PROVE  slot[e] \in Copy
  BY <1>1 DEF Unused
<1>7. copy' \in [Copy -> Copies]
  BY <1>1, <1>5
<1> QED
  BY <1>0, <1>3, <1>4, <1>6, <1>7, CopyTypes

-----------------------------------------------------------------------------
(***************************************************************************)
(* Types.                                                                  *)
(***************************************************************************)
\* A step of the outbox for event e or in process i.
OutboxStep(e, i) ==
    \/ e \in Event /\ i \in Api /\ Commit(e, i)
    \/ e \in Event /\ (PublishNow(e) \/ MarkPublished(e) \/ Purge(e))
    \/ i \in Api /\ RelayStep(i)

\* The steps of the outbox are well typed.
LEMMA OutboxTypes ==
    ASSUME TypeOK, NEW e, NEW i, OutboxStep(e, i)
    PROVE  TypeOK'
<1>1. CASE e \in Event /\ i \in Api /\ Commit(e, i)
  BY <1>1 DEF Commit, TypeOK, consumer
<1>2. CASE e \in Event /\ PublishNow(e)
  <2>1. copy' \in [Copy -> Copies]
    <3>1. CASE host[e] \in connected
      <4>1. PICK c \in Unused : copy' = [copy EXCEPT ![c] = Sent(e, 0, host[e])]
        BY <1>2, <3>1 DEF PublishNow
      <4>2. Sent(e, 0, host[e]) \in Copies
        BY <1>2, <3>1, CopyTypes DEF TypeOK
      <4> QED
        BY <4>1, <4>2 DEF TypeOK
    <3>2. CASE host[e] \notin connected
      BY <1>2, <3>2 DEF PublishNow, TypeOK
    <3> QED
      BY <3>1, <3>2
  <2> QED
    BY <1>2, <2>1 DEF PublishNow, TypeOK, consumer, Strikes
<1>3. CASE e \in Event /\ MarkPublished(e)
  BY <1>3 DEF MarkPublished, TypeOK, consumer
<1>4. CASE e \in Event /\ Purge(e)
  BY <1>4 DEF Purge, TypeOK, consumer
<1>5. CASE i \in Api /\ RelaySelect(i)
  BY <1>5 DEF RelaySelect, TypeOK, consumer, Relays, Available
<1>6. CASE i \in Api /\ RelayPublish(i)
  <2>1. copy' \in [Copy -> Copies]
    <3>1. CASE i \in connected
      BY <1>6, <3>1, RelayPublishFacts
    <3>2. CASE i \notin connected
      BY <1>6, <3>2 DEF RelayPublish, TypeOK
    <3> QED
      BY <3>1, <3>2
  <2>2. relay' \in [Api -> Relays]
    BY <1>6 DEF RelayPublish, TypeOK, Relays
  <2> QED
    BY <1>6, <2>1, <2>2 DEF RelayPublish, TypeOK, consumer, Strikes
<1>7. CASE i \in Api /\ RelayCommit(i)
  BY <1>7 DEF RelayCommit, TypeOK, consumer, Relays, NoRelay
<1> QED
  BY <1>1, <1>2, <1>3, <1>4, <1>5, <1>6, <1>7 DEF OutboxStep, RelayStep

\* Every copy is a copy of an event.
Named == \A c \in Copy : copy[c].at # "unused" => copy[c].ev \in Event

\* The steps of the broker and of the handlers are well typed.
LEMMA CopyStepTypes ==
    ASSUME TypeOK, Named, NEW c \in Copy, BrokerStep(c) \/ Deliver(c) \/ HandlerStep(c)
    PROVE  TypeOK'
<1> USE DEF outbox, consumer
<1>0. {"check", "send", "mark", "ack", "acking", "nacking", "main"} \subseteq Places
  BY DEF Places, Unsettled, Handling
<1>1. CASE Arrive(c)
  <2>1. copy' \in [Copy -> Copies]
    <3>1. ASSUME NEW d \in Copy PROVE copy'[d] \in Copies
      <4>1. copy[d] \in Copies
        BY DEF TypeOK
      <4> QED
        BY <1>1, <4>1 DEF Arrive, Copies, Places
    <3> QED
      BY <1>1, <3>1 DEF Arrive
  <2> QED
    BY <1>1, <2>1 DEF Arrive, TypeOK
<1>2. CASE Unpark(c)
  BY <1>0, <1>2, GotoFacts DEF Unpark, Goto, TypeOK
<1>3. CASE Acked(c)
  BY <1>3, CopyTypes DEF Acked, TypeOK
<1>4. CASE DeadLettered(c)
  BY <1>4, CopyTypes DEF DeadLettered, TypeOK, Named
<1>5. CASE Deliver(c)
  BY <1>0, <1>5, GotoFacts DEF Deliver, Goto, TypeOK
<1>6. CASE CheckMark(c)
  BY <1>0, <1>6, GotoFacts DEF CheckMark, TypeOK, Strikes
<1>7. CASE PushOk(c)
  <2>1. pushed' \in [Event -> Nat]
    <3>1. copy[c].ev \in Event
      BY <1>7 DEF PushOk, Named
    <3> QED
      BY <1>7, <3>1, PushLimitPositive DEF PushOk, TypeOK
  <2> QED
    BY <1>0, <1>7, <2>1, GotoFacts DEF PushOk, TypeOK
<1>8. CASE GiveUp(c)
  BY <1>0, <1>8, GotoFacts DEF GiveUp, TypeOK
<1>9. CASE Retry(c)
  <2>1. copy[c].retry + 1 \in 0..MaxRetries /\ copy[c].ev \in Event /\ Worker \in Process
    BY <1>9 DEF Retry, TypeOK, Copies, Named, Process
  <2>2. copy' \in [Copy -> Copies]
    <3>1. PICK r \in Unused :
             LET sent == [copy EXCEPT ![r] = Sent(copy[c].ev, copy[c].retry + 1, Worker)] IN
             \/ copy' = [sent EXCEPT ![c].at = "acking", ![c].ahead = r]
             \/ copy' = [sent EXCEPT ![c].at = "main"]
      BY <1>9 DEF Retry
    <3> DEFINE sent == [copy EXCEPT ![r] = Sent(copy[c].ev, copy[c].retry + 1, Worker)]
    <3>2. r \in Copy /\ sent \in [Copy -> Copies]
      BY <2>1, CopyTypes DEF TypeOK, Unused
    <3> HIDE DEF sent
    <3> QED
      BY <1>0, <3>1, <3>2 DEF Copies, sent
  <2> QED
    BY <1>9, <2>2 DEF Retry, TypeOK, Strikes
<1>10. CASE SetMark(c)
  <2>1. marks' \in SUBSET Event
    BY <1>10 DEF SetMark, TypeOK, Named
  <2> QED
    BY <1>0, <1>10, <2>1, GotoFacts DEF SetMark, TypeOK, Strikes
<1>11. CASE Ack(c)
  BY <1>0, <1>11, GotoFacts DEF Ack, TypeOK
<1> QED
  BY <1>1, <1>2, <1>3, <1>4, <1>5, <1>6, <1>7, <1>8, <1>9, <1>10, <1>11 DEF BrokerStep, HandlerStep

\* Failures, and connections opened again, are well typed.
LEMMA FailureTypes ==
    ASSUME TypeOK, Failure \/ \E p \in Process : Open(p)
    PROVE  TypeOK'
<1> USE DEF outbox, consumer
<1>1. ASSUME NEW p \in Process, LoseConnection(p)
      PROVE  /\ copy' \in [Copy -> Copies] /\ connected' \in SUBSET Process
             /\ failures' \in [Process -> 0..Budget]
  <2>1. ASSUME NEW c \in Copy PROVE copy'[c] \in Copies
    <3>1. copy[c] \in Copies
      BY DEF TypeOK
    <3> QED
      BY <1>1, <3>1, CopyTypes DEF LoseConnection, Copies, Places
  <2>2. failures' \in [Process -> 0..Budget]
    <3>1. Budget \in Nat /\ failures[p] \in 0..Budget /\ failures[p] < Budget
      BY <1>1 DEF LoseConnection, Fails, TypeOK
    <3>2. failures[p] + 1 \in 0..Budget
      BY <3>1
    <3> QED
      BY <1>1, <3>2 DEF LoseConnection, Fails, TypeOK
  <2> QED
    BY <1>1, <2>1, <2>2 DEF LoseConnection, TypeOK
<1>2. ASSUME NEW i \in Api, ApiDisconnect(i) \/ ApiCrash(i) PROVE TypeOK'
  BY <1>1, <1>2 DEF ApiDisconnect, ApiCrash, TypeOK, Process, Relays, NoRelay
<1>3. CASE WorkerCrash
  BY <1>1, <1>3 DEF WorkerCrash, TypeOK, Process
<1>4. ASSUME NEW i \in Api, RelayAbort(i) PROVE TypeOK'
  BY <1>4 DEF RelayAbort, Fails, TypeOK, Process, Relays, NoRelay
<1>5. ASSUME NEW p \in Process, Open(p) PROVE TypeOK'
  BY <1>5 DEF Open, TypeOK
<1> QED
  BY <1>2, <1>3, <1>4, <1>5 DEF Failure

-----------------------------------------------------------------------------
(***************************************************************************)
(* Copies.                                                                 *)
(***************************************************************************)
\* The step leaves every event firm that was.
Keeps == \A e \in Event : Firm(e) => Firm(e)'

\* A step that leaves the copies, the dead queue and the pushes alone.
LEMMA SameCopies ==
    ASSUME UNCHANGED <<copy, dead, pushed>>
    PROVE  /\ Keeps /\ CopiesOK => CopiesOK'
           /\ Keeps
BY DEF Keeps, CopiesOK, Firm, Through, Solid

\* A step that puts new messages of an API process on the wire.
LEMMA Publishes ==
    ASSUME TypeOK, CopiesOK, UNCHANGED <<dead, pushed>>,
           \A c \in Copy :
              \/ copy'[c] = copy[c]
              \/ /\ copy[c].at = "unused"
                 /\ copy'[c].at = "wire" /\ copy'[c].via # Worker /\ copy'[c].ahead = None
                 /\ copy'[c].ev \in Event
    PROVE  Keeps /\ CopiesOK'
<1>1. ASSUME NEW c \in Copy, Solid(c) PROVE copy'[c] = copy[c] /\ Solid(c)'
  BY <1>1 DEF Solid, Handling
<1>2. Keeps
  BY <1>1 DEF Keeps, Firm, Through
<1>3. ASSUME NEW c \in Copy, copy'[c] = copy[c], copy[c].ahead # None
      PROVE  copy'[copy[c].ahead] = copy[copy[c].ahead]
  BY <1>3 DEF CopiesOK, TypeOK, Copies
<1>4. ASSUME NEW c \in Copy, copy'[c].at # "unused"
      PROVE  copy'[c].ev \in Event /\ \A e \in Event : copy'[c].ev = e => Firm(e)'
  <2>1. CASE copy'[c] = copy[c]
    BY <1>2, <1>4, <2>1 DEF CopiesOK, Keeps
  <2>2. CASE copy'[c] # copy[c]
    <3>1. Solid(c)'
      BY <2>2 DEF Solid
    <3> QED
      BY <2>2, <3>1 DEF Firm
  <2> QED
    BY <2>1, <2>2
<1>5. ASSUME NEW c \in Copy
      PROVE  /\ copy'[c].at # "unused" => copy'[c].ev \in Event /\ Firm(copy[c].ev)'
             /\ copy'[c].at \in {"mark", "ack"} => pushed'[copy'[c].ev] > 0
             /\ copy'[c].ahead # None =>
                  /\ copy'[c].at = "acking"
                  /\ copy'[copy'[c].ahead].at = "wire"
                  /\ copy'[copy'[c].ahead].ev = copy'[c].ev
  <2>1. copy'[c].at # "unused" => copy'[c].ev \in Event /\ Firm(copy[c].ev)'
    BY <1>4 DEF Firm, Through
  <2> QED
    BY <2>1, <1>3 DEF CopiesOK
<1> QED
  BY <1>2, <1>5 DEF CopiesOK

\* A step of the broker or of a handler that touches one copy, which is not on
\* the wire, and leaves it solid or its event through.
LEMMA LocalStep ==
    ASSUME TypeOK, CopiesOK, NEW c \in Copy, NEW e \in Event, copy[c].ev = e,
           copy[c].at \notin {"unused", "wire"},
           \A d \in Copy \ {c} : copy'[d] = copy[d],
           \A f \in Event : (Through(f) => Through(f)') /\ (pushed[f] > 0 => pushed'[f] > 0),
           copy'[c].at # "wire", copy'[c].ahead = None,
           copy'[c].at # "unused" => copy'[c].ev = e,
           copy'[c].at \in {"mark", "ack"} => pushed'[e] > 0,
           Through(e)' \/ (copy'[c].at # "unused" /\ Solid(c)') \/ ~Solid(c)
    PROVE  Keeps /\ CopiesOK'
<1>1. ASSUME NEW d \in Copy \ {c} PROVE Solid(d)' <=> Solid(d)
  BY DEF Solid
<1>2. Keeps
  <2> SUFFICES ASSUME NEW f \in Event, Firm(f) PROVE Firm(f)'
    BY DEF Keeps
  <2>1. CASE Through(f)
    BY <2>1 DEF Firm
  <2>2. ASSUME NEW d \in Copy, copy[d].ev = f, Solid(d) PROVE Firm(f)'
    <3>1. CASE d # c
      BY <1>1, <2>2, <3>1 DEF Firm
    <3>2. CASE d = c
      <4>1. f = e
        BY <2>2, <3>2
      <4>2. Through(f)' \/ (copy'[c].ev = f /\ Solid(c)')
        BY <2>2, <3>2, <4>1
      <4> QED
        BY <4>2 DEF Firm
    <3> QED
      BY <3>1, <3>2
  <2> QED
    BY <2>1, <2>2 DEF Firm
<1>3. ASSUME NEW d \in Copy, copy'[d].at # "unused"
      PROVE  copy'[d].ev \in Event /\ copy[d].at # "unused" /\ copy'[d].ev = copy[d].ev
  BY <1>3 DEF CopiesOK
<1>4. ASSUME NEW d \in Copy, copy'[d].at # "unused" PROVE Firm(copy[d].ev)'
  <2>1. \A f \in Event : copy[d].ev = f => Firm(f)'
    BY <1>2, <1>3, <1>4 DEF CopiesOK, Keeps
  <2> QED
    BY <1>3, <1>4, <2>1 DEF Firm, Through
<1>5. ASSUME NEW d \in Copy, copy'[d].ahead # None
      PROVE  /\ copy'[d].at = "acking" /\ copy'[copy'[d].ahead].at = "wire"
             /\ copy'[copy'[d].ahead].ev = copy'[d].ev
  <2>1. d # c /\ copy[d].ahead # c /\ copy[d].ahead \in Copy
    BY <1>5 DEF CopiesOK, TypeOK, Copies
  <2> QED
    BY <1>5, <2>1 DEF CopiesOK
<1>6. ASSUME NEW d \in Copy, copy'[d].at \in {"mark", "ack"} PROVE pushed'[copy'[d].ev] > 0
  BY <1>3, <1>6 DEF CopiesOK
<1> QED
  BY <1>2, <1>3, <1>4, <1>5, <1>6 DEF CopiesOK

\* The broker routes a copy: it is solid now, and an ack that waited for it has
\* the same event.
LEMMA ArriveOK ==
    ASSUME TypeOK, CopiesOK, NEW c \in Copy, Arrive(c)
    PROVE  Keeps /\ CopiesOK'
<1>0. UNCHANGED <<dead, pushed>>
  BY DEF Arrive, consumer
<1>1. copy'[c].at \in {"main", "parked"} /\ copy'[c].ev = copy[c].ev /\ copy'[c].ahead = None
  <2>1. copy[c] \in Copies /\ copy[c].ahead = None
    BY DEF Arrive, CopiesOK, TypeOK
  <2> QED
    BY <2>1 DEF Arrive, Copies
<1>2. ASSUME NEW d \in Copy \ {c}
      PROVE  /\ copy'[d].at = copy[d].at /\ copy'[d].ev = copy[d].ev /\ copy'[d].via = copy[d].via
             /\ copy'[d].ahead = IF copy[d].ahead = c THEN None ELSE copy[d].ahead
  <2>1. copy[d] \in Copies
    BY DEF TypeOK
  <2> QED
    BY <2>1 DEF Arrive, Copies
<1>3. Solid(c)'
  BY <1>1 DEF Solid
<1>4. Keeps
  <2> SUFFICES ASSUME NEW f \in Event, NEW d \in Copy, copy[d].ev = f, Solid(d) PROVE Firm(f)'
    BY <1>0 DEF Keeps, Firm, Through
  <2>1. CASE copy[d].ahead = c \/ d = c
    <3>1. copy'[c].ev = f
      BY <1>1, <2>1 DEF CopiesOK, TypeOK, Copies
    <3> QED
      BY <1>3, <3>1 DEF Firm
  <2>2. CASE copy[d].ahead # c /\ d # c
    <3>1. Solid(d)' /\ copy'[d].ev = f
      BY <1>2, <2>2 DEF Solid
    <3> QED
      BY <3>1 DEF Firm
  <2> QED
    BY <2>1, <2>2
<1>5. ASSUME NEW d \in Copy, copy'[d].at # "unused" PROVE copy'[d].ev \in Event /\ Firm(copy[d].ev)'
  <2>1. copy[d].at # "unused" /\ copy'[d].ev = copy[d].ev
    BY <1>1, <1>2, <1>5 DEF Arrive
  <2>2. \A f \in Event : copy[d].ev = f => Firm(f)'
    BY <1>4, <2>1 DEF CopiesOK, Keeps
  <2> QED
    BY <2>1, <2>2 DEF CopiesOK, Firm, Through
<1>6. ASSUME NEW d \in Copy, copy'[d].ahead # None
      PROVE  /\ copy'[d].at = "acking" /\ copy'[copy'[d].ahead].at = "wire"
             /\ copy'[copy'[d].ahead].ev = copy'[d].ev
  <2>1. d # c /\ copy'[d].ahead = copy[d].ahead /\ copy[d].ahead \in Copy \ {c}
    BY <1>1, <1>2, <1>6 DEF TypeOK, Copies
  <2> QED
    BY <1>2, <1>6, <2>1 DEF CopiesOK
<1>7. ASSUME NEW d \in Copy, copy'[d].at \in {"mark", "ack"} PROVE pushed'[copy'[d].ev] > 0
  BY <1>0, <1>1, <1>2, <1>7 DEF CopiesOK
<1> QED
  BY <1>4, <1>5, <1>6, <1>7 DEF CopiesOK

\* A failed push: the original stays solid, because its ack waits for the retry
\* copy or because it was put back.
LEMMA RetryOK ==
    ASSUME TypeOK, CopiesOK, NEW c \in Copy, Retry(c)
    PROVE  Keeps /\ CopiesOK'
<1> DEFINE e == copy[c].ev
<1>0. UNCHANGED <<dead, pushed>> /\ e \in Event /\ copy[c].ahead = None /\ copy[c].at = "send"
  BY DEF Retry, consumer, CopiesOK
<1>1. PICK r \in Unused :
         LET sent == [copy EXCEPT ![r] = Sent(e, copy[c].retry + 1, Worker)] IN
         \/ copy' = [sent EXCEPT ![c].at = "acking", ![c].ahead = r]
         \/ copy' = [sent EXCEPT ![c].at = "main"]
  BY DEF Retry
<1>2. r \in Copy /\ r # c /\ copy[r].at = "unused"
  BY <1>0 DEF Unused
<1>3. Sent(e, copy[c].retry + 1, Worker) =
          [at |-> "wire", ev |-> e, retry |-> copy[c].retry + 1, via |-> Worker, ahead |-> None]
  BY DEF Sent
<1>4. /\ copy'[r].at = "wire" /\ copy'[r].ev = e /\ copy'[r].ahead = None
      /\ copy'[c].ev = e
      /\ \/ copy'[c].at = "acking" /\ copy'[c].ahead = r
         \/ copy'[c].at = "main" /\ copy'[c].ahead = None
      /\ \A d \in Copy \ {c, r} : copy'[d] = copy[d]
  BY <1>0, <1>1, <1>2, <1>3 DEF TypeOK, Copies
<1>5. Solid(c)'
  BY <1>2, <1>4 DEF Solid
<1>6. Keeps
  <2> SUFFICES ASSUME NEW f \in Event, NEW d \in Copy, copy[d].ev = f, Solid(d) PROVE Firm(f)'
    BY <1>0 DEF Keeps, Firm, Through
  <2>1. CASE d = c
    BY <1>4, <1>5, <2>1 DEF Firm
  <2>2. CASE d # c
    <3>1. d # r
      BY <1>2 DEF Solid, Handling
    <3>2. Solid(d)' /\ copy'[d].ev = f
      BY <1>4, <2>2, <3>1 DEF Solid
    <3> QED
      BY <3>2 DEF Firm
  <2> QED
    BY <2>1, <2>2
<1>7. ASSUME NEW d \in Copy, copy'[d].at # "unused" PROVE copy'[d].ev \in Event /\ Firm(copy[d].ev)'
  <2>1. CASE d \in {c, r}
    BY <1>0, <1>4, <1>5, <2>1 DEF Firm
  <2>2. CASE d \notin {c, r}
    <3>1. \A f \in Event : copy'[d].ev = f => Firm(f)'
      BY <1>4, <1>6, <1>7, <2>2 DEF CopiesOK, Keeps
    <3> QED
      BY <1>4, <1>7, <2>2, <3>1 DEF CopiesOK, Firm, Through
  <2> QED
    BY <2>1, <2>2
<1>8. ASSUME NEW d \in Copy, copy'[d].ahead # None
      PROVE  /\ copy'[d].at = "acking" /\ copy'[copy'[d].ahead].at = "wire"
             /\ copy'[copy'[d].ahead].ev = copy'[d].ev
  <2>1. CASE d = c
    BY <1>2, <1>4, <1>8, <2>1
  <2>2. CASE d # c
    <3>1. d # r /\ copy[d].ahead \in Copy \ {c, r}
      BY <1>0, <1>2, <1>4, <1>8, <2>2 DEF CopiesOK, TypeOK, Copies
    <3> QED
      BY <1>4, <1>8, <2>2, <3>1 DEF CopiesOK
  <2> QED
    BY <2>1, <2>2
<1>9. ASSUME NEW d \in Copy, copy'[d].at \in {"mark", "ack"} PROVE pushed'[copy'[d].ev] > 0
  BY <1>0, <1>4, <1>9 DEF CopiesOK
<1> QED
  BY <1>6, <1>7, <1>8, <1>9 DEF CopiesOK

\* Every step of the broker and of a handler keeps events firm and copies in
\* order.
LEMMA CopyStepOK ==
    ASSUME PipelineInv, NEW c \in Copy, BrokerStep(c) \/ Deliver(c) \/ HandlerStep(c)
    PROVE  Keeps /\ CopiesOK'
<1> USE DEF outbox, consumer
<1>0. TypeOK /\ CopiesOK /\ OutboxOK
  BY DEF PipelineInv
<1>1. ASSUME copy[c].at # "unused" PROVE copy[c].ev \in Event
  BY <1>0, <1>1 DEF CopiesOK
<1>2. ASSUME copy[c].at # "acking" PROVE copy[c].ahead = None
  BY <1>0, <1>2 DEF CopiesOK
<1>3. {"check", "send", "mark", "ack", "acking", "nacking", "main"} \subseteq Places
  BY DEF Places, Unsettled, Handling
<1> DEFINE Same == \A f \in Event : (Through(f) => Through(f)') /\ (pushed[f] > 0 => pushed'[f] > 0)
<1>4. ASSUME NEW where \in Places, Goto(c, where)
      PROVE  /\ copy'[c].at = where /\ copy'[c].ev = copy[c].ev /\ copy'[c].ahead = copy[c].ahead
             /\ \A d \in Copy \ {c} : copy'[d] = copy[d]
  <2>1. copy[c] \in Copies
    BY <1>0 DEF TypeOK
  <2>2. copy'[c] = [copy[c] EXCEPT !.at = where] /\ \A d \in Copy \ {c} : copy'[d] = copy[d]
    BY <1>0, <1>4, GotoFacts
  <2> QED
    BY <2>1, <2>2 DEF Copies
\* A copy that is with a handler or waiting moves on and stays solid.
<1>5. ASSUME NEW where \in Handling \cup {"main", "nacking"}, Goto(c, where),
             copy[c].at \in Handling \cup {"main", "parked"}, Same,
             where \in {"mark", "ack"} => pushed'[copy[c].ev] > 0
      PROVE  Keeps /\ CopiesOK'
  <2>1. PICK e \in Event : e = copy[c].ev
    BY <1>1, <1>5 DEF Handling
  <2>2. where \in Places /\ where \notin {"unused", "wire", "acking"}
    BY <1>3, <1>5 DEF Handling
  <2>3. copy[c].at \notin {"unused", "wire", "acking"}
    BY <1>5 DEF Handling
  <2>4. copy'[c].at = where /\ copy'[c].ev = e /\ copy'[c].ahead = None
    BY <1>2, <1>4, <1>5, <2>1, <2>2, <2>3
  <2>5. Solid(c)'
    BY <1>5, <2>4 DEF Solid
  <2> QED
    BY <1>0, <1>4, <1>5, <2>1, <2>2, <2>3, <2>4, <2>5, LocalStep
\* A copy is acked once its event is through.
<1>6. ASSUME copy[c].at \in Handling, Goto(c, "acking"), Same, pushed[copy[c].ev] > 0
      PROVE  Keeps /\ CopiesOK'
  <2>1. PICK e \in Event : e = copy[c].ev
    BY <1>1, <1>6 DEF Handling
  <2>2. copy[c].at \notin {"unused", "wire", "acking"}
    BY <1>6 DEF Handling
  <2>3. copy'[c].at = "acking" /\ copy'[c].ev = e /\ copy'[c].ahead = None
    BY <1>2, <1>3, <1>4, <1>6, <2>1, <2>2
  <2>4. Through(e)'
    BY <1>6, <2>1 DEF Through
  <2>5. \A d \in Copy \ {c} : copy'[d] = copy[d]
    BY <1>3, <1>4, <1>6
  <2> QED
    BY <1>0, <1>6, <2>1, <2>2, <2>3, <2>4, <2>5, LocalStep
<1>7. ASSUME UNCHANGED <<dead, pushed>> PROVE Same
  BY <1>7 DEF Through
<1>8. CASE Arrive(c)
  BY <1>0, <1>8, ArriveOK
<1>9. CASE Unpark(c)
  BY <1>5, <1>7, <1>9 DEF Unpark, Goto, Handling
<1>10. CASE Acked(c)
  <2>1. copy'[c] = NoCopy /\ (\A d \in Copy \ {c} : copy'[d] = copy[d]) /\ Same /\ ~Solid(c)
    BY <1>0, <1>7, <1>10 DEF Acked, TypeOK, Solid, Handling
  <2>2. PICK e \in Event : e = copy[c].ev
    BY <1>1, <1>10 DEF Acked
  <2>3. copy'[c].at = "unused" /\ copy'[c].ahead = None
    BY <2>1 DEF NoCopy
  <2>4. copy[c].at \notin {"unused", "wire"}
    BY <1>10 DEF Acked
  <2> QED
    BY <1>0, <2>1, <2>2, <2>3, <2>4, LocalStep
<1>11. CASE DeadLettered(c)
  <2>1. PICK e \in Event : e = copy[c].ev
    BY <1>1, <1>11 DEF DeadLettered
  <2>2. copy'[c] = NoCopy /\ (\A d \in Copy \ {c} : copy'[d] = copy[d])
    BY <1>0, <1>11 DEF DeadLettered, TypeOK
  <2>3. Same /\ Through(e)'
    BY <1>11, <2>1 DEF DeadLettered, Through
  <2>4. copy'[c].at = "unused" /\ copy'[c].ahead = None
    BY <2>2 DEF NoCopy
  <2>5. copy[c].at \notin {"unused", "wire"}
    BY <1>11 DEF DeadLettered
  <2> QED
    BY <1>0, <2>1, <2>2, <2>3, <2>4, <2>5, LocalStep
<1>12. CASE Deliver(c)
  BY <1>5, <1>7, <1>12 DEF Deliver, Goto, Handling
<1>13. CASE CheckMark(c)
  <2>1. CASE copy[c].ev \in marks /\ Goto(c, "acking")
    BY <1>0, <1>6, <1>7, <1>13, <2>1 DEF CheckMark, OutboxOK, Handling
  <2>2. CASE Goto(c, "send")
    BY <1>5, <1>7, <1>13, <2>2 DEF CheckMark, Handling
  <2> QED
    BY <1>13, <2>1, <2>2 DEF CheckMark
<1>14. CASE PushOk(c)
  <2>1. copy[c].ev \in Event
    BY <1>1, <1>14 DEF PushOk
  <2>2. Same /\ pushed'[copy[c].ev] > 0
    BY <1>0, <1>14, <2>1, PushLimitPositive DEF PushOk, TypeOK, Through
  <2> QED
    BY <1>5, <1>14, <2>2 DEF PushOk, Handling
<1>15. CASE GiveUp(c)
  BY <1>5, <1>7, <1>15 DEF GiveUp, Handling
<1>16. CASE Retry(c)
  BY <1>0, <1>16, RetryOK
<1>17. CASE SetMark(c)
  BY <1>0, <1>5, <1>7, <1>17 DEF SetMark, Handling, CopiesOK
<1>18. CASE Ack(c)
  BY <1>0, <1>6, <1>7, <1>18 DEF Ack, Handling, CopiesOK
<1> QED
  BY <1>8, <1>9, <1>10, <1>11, <1>12, <1>13, <1>14, <1>15, <1>16, <1>17, <1>18
  DEF BrokerStep, HandlerStep

\* A lost connection of the worker puts its deliveries back; one of an API
\* process that loses nothing changes no copy.
LEMMA LoseConnectionOK ==
    ASSUME TypeOK, CopiesOK, NEW p \in Process, LoseConnection(p), UNCHANGED <<dead, pushed>>,
           Lossy \cap Api = {}
    PROVE  Keeps /\ CopiesOK'
<1>1. CASE p # Worker
  <2>1. copy' = copy
    BY <1>1 DEF LoseConnection, TypeOK, Process
  <2> QED
    BY <2>1, SameCopies
<1>2. CASE p = Worker
  <2>1. ASSUME NEW c \in Copy
        PROVE  \/ copy[c].at \in Unsettled /\ copy'[c].at = "main" /\ copy'[c].ev = copy[c].ev
                                           /\ copy'[c].ahead = None
               \/ copy[c].at = "wire" /\ copy[c].via = Worker /\ copy'[c] = NoCopy
               \/ copy[c].at \notin Unsettled /\ copy'[c] = copy[c]
    <3>1. copy[c] \in Copies
      BY DEF TypeOK
    <3> QED
      BY <1>2, <3>1 DEF LoseConnection, Copies, Unsettled, Handling
  <2>2. ASSUME NEW c \in Copy, Solid(c) PROVE copy'[c].ev = copy[c].ev /\ Solid(c)'
    BY <2>1, <2>2 DEF Solid, Unsettled, Handling
  <2>3. Keeps
    BY <2>2 DEF Keeps, Firm, Through
  <2>4. ASSUME NEW c \in Copy PROVE copy'[c].ahead = None
    BY <2>1 DEF CopiesOK, NoCopy, Unsettled
  <2>5. ASSUME NEW c \in Copy, copy'[c].at # "unused"
        PROVE  /\ copy'[c].ev \in Event /\ copy[c].at # "unused" /\ copy'[c].ev = copy[c].ev
               /\ copy'[c].at \in {copy[c].at, "main"}
    BY <2>1, <2>5 DEF CopiesOK, NoCopy, Unsettled, Handling
  <2>6. ASSUME NEW c \in Copy, copy'[c].at # "unused" PROVE Firm(copy[c].ev)'
    <3>1. \A f \in Event : copy[c].ev = f => Firm(f)'
      BY <2>3, <2>5, <2>6 DEF CopiesOK, Keeps
    <3> QED
      BY <2>5, <2>6, <3>1 DEF Firm, Through
  <2>7. ASSUME NEW c \in Copy, copy'[c].at \in {"mark", "ack"} PROVE pushed'[copy'[c].ev] > 0
    BY <2>5, <2>7 DEF CopiesOK
  <2> QED
    BY <2>3, <2>4, <2>5, <2>6, <2>7 DEF CopiesOK
<1> QED
  BY <1>1, <1>2

-----------------------------------------------------------------------------
(***************************************************************************)
(* The invariant.                                                          *)
(***************************************************************************)
\* Nothing has been published.
LEMMA InitOK == Init => PipelineInv
<1> SUFFICES ASSUME Init PROVE PipelineInv
  OBVIOUS
<1>1. TypeOK
  BY CopyTypes DEF Init, TypeOK, Relays, NoRelay
<1>2. \A c \in Copy : copy[c].at = "unused" /\ copy[c].ahead = None
  BY DEF Init, NoCopy
<1> QED
  BY <1>1, <1>2 DEF Init, PipelineInv, CopiesOK, OutboxOK, NoRelay

\* The steps of the outbox: a row is published, or a dispatch or a relay about
\* to say so, only when a copy of its event is out.
LEMMA OutboxStepOK ==
    ASSUME PipelineInv, NEW e, NEW i, OutboxStep(e, i)
    PROVE  CopiesOK' /\ OutboxOK'
<1> USE DEF consumer
<1>0. TypeOK /\ CopiesOK /\ OutboxOK
  BY DEF PipelineInv
<1>1. CASE e \in Event /\ i \in Api /\ Commit(e, i)
  BY <1>0, <1>1, SameCopies DEF Commit, OutboxOK, Keeps, TypeOK, Relays
<1>2. CASE e \in Event /\ PublishNow(e)
  <2>1. CASE host[e] \in connected
    <3>1. PICK c \in Unused : copy' = [copy EXCEPT ![c] = Sent(e, 0, host[e])]
      BY <1>2, <2>1 DEF PublishNow
    <3>2. host[e] \in Api /\ host[e] # Worker /\ host[e] \in Process
      BY <1>0, <1>2, <2>1 DEF TypeOK, Process
    <3>3. c \in Copy /\ copy[c].at = "unused" /\ \A d \in Copy \ {c} : copy'[d] = copy[d]
      BY <1>0, <3>1 DEF Unused, TypeOK
    <3>4. copy'[c].at = "wire" /\ copy'[c].ev = e /\ copy'[c].via # Worker /\ copy'[c].ahead = None
      BY <1>0, <3>1, <3>2, <3>3 DEF TypeOK, Sent
    <3>5. Keeps /\ CopiesOK'
      BY <1>0, <1>2, <3>3, <3>4, Publishes DEF PublishNow
    <3>6. Firm(e)'
      BY <3>3, <3>4 DEF Firm, Solid
    <3> QED
      BY <1>0, <1>2, <3>5, <3>6 DEF PublishNow, OutboxOK, Keeps, TypeOK, Relays
  <2>2. CASE host[e] \notin connected
    BY <1>0, <1>2, <2>2, SameCopies DEF PublishNow, OutboxOK, Keeps, TypeOK, Relays
  <2> QED
    BY <2>1, <2>2
<1>3. CASE e \in Event /\ MarkPublished(e)
  BY <1>0, <1>3, SameCopies DEF MarkPublished, OutboxOK, Keeps, TypeOK, Relays
<1>4. CASE e \in Event /\ Purge(e)
  BY <1>0, <1>4, SameCopies DEF Purge, OutboxOK, Keeps, TypeOK, Relays
<1>5. CASE i \in Api /\ RelaySelect(i)
  BY <1>0, <1>5, SameCopies DEF RelaySelect, OutboxOK, Keeps, TypeOK, Relays
<1>6. CASE i \in Api /\ RelayPublish(i)
  <2>1. CASE i \in connected
    <3>0. UNCHANGED <<dead, pushed>>
      BY <1>6 DEF RelayPublish, consumer
    <3>1. Keeps /\ CopiesOK'
      BY <1>0, <1>6, <2>1, <3>0, RelayPublishFacts, Publishes
    <3>2. ASSUME NEW f \in relay[i].rows PROVE Firm(f)'
      <4>1. PICK c \in Copy : copy'[c].ev = f /\ copy'[c].at = "wire" /\ copy'[c].via = i
        BY <1>0, <1>6, <2>1, <3>2, RelayPublishFacts
      <4> QED
        BY <1>6, <4>1 DEF Firm, Solid
    <3>3. relay[i].rows \subseteq Event /\ \A j \in Api : relay[j].done \subseteq Event
      BY <1>0, <1>6 DEF TypeOK, Relays
    <3>4. \A j \in Api : \A f \in relay'[j].done : f \in relay[i].rows \/ f \in relay[j].done
      BY <1>0, <1>6, <2>1 DEF RelayPublish, TypeOK, Relays
    <3> QED
      BY <1>0, <1>6, <3>1, <3>2, <3>3, <3>4 DEF RelayPublish, OutboxOK, Keeps
  <2>2. CASE i \notin connected
    <3>1. \A j \in Api : relay'[j].done = relay[j].done /\ relay[j].done \subseteq Event
      BY <1>0, <1>6, <2>2 DEF RelayPublish, TypeOK, Relays
    <3> QED
      BY <1>0, <1>6, <2>2, <3>1, SameCopies DEF RelayPublish, OutboxOK, Keeps
  <2> QED
    BY <2>1, <2>2
<1>7. CASE i \in Api /\ RelayCommit(i)
  BY <1>0, <1>7, SameCopies DEF RelayCommit, OutboxOK, Keeps, TypeOK, Relays, NoRelay
<1> QED
  BY <1>1, <1>2, <1>3, <1>4, <1>5, <1>6, <1>7 DEF OutboxStep, RelayStep

\* The steps of the broker and of the handlers: a mark is set only after a push.
LEMMA MarksOK ==
    ASSUME PipelineInv, NEW c \in Copy, BrokerStep(c) \/ Deliver(c) \/ HandlerStep(c), Keeps
    PROVE  OutboxOK'
<1> USE DEF outbox, consumer
<1>0. TypeOK /\ CopiesOK /\ OutboxOK
  BY DEF PipelineInv
<1>1. UNCHANGED <<row, disp, relay>>
  BY DEF BrokerStep, HandlerStep, Arrive, Unpark, Acked, DeadLettered, Deliver, CheckMark, PushOk, GiveUp,
         Retry, SetMark, Ack
<1>2. \A e \in marks' : pushed'[e] > 0
  <2>1. CASE PushOk(c)
    BY <1>0, <2>1, PushLimitPositive DEF PushOk, TypeOK, OutboxOK
  <2>2. CASE SetMark(c)
    BY <1>0, <2>2 DEF SetMark, OutboxOK, CopiesOK
  <2>3. CASE UNCHANGED <<marks, pushed>>
    BY <1>0, <2>3 DEF OutboxOK
  <2> QED
    BY <2>1, <2>2, <2>3 DEF BrokerStep, HandlerStep, Arrive, Unpark, Acked, DeadLettered, Deliver,
                            CheckMark, GiveUp, Retry, Ack
<1>3. \A i \in Api : relay[i].done \subseteq Event
  BY <1>0 DEF TypeOK, Relays
<1> QED
  BY <1>0, <1>1, <1>2, <1>3 DEF OutboxOK, Keeps

\* A failure takes no event away while API connections lose nothing.
LEMMA FailureOK ==
    ASSUME PipelineInv, Failure \/ \E p \in Process : Open(p), Lossy \cap Api = {}
    PROVE  CopiesOK' /\ OutboxOK'
<1> USE DEF outbox, consumer
<1>0. TypeOK /\ CopiesOK /\ OutboxOK
  BY DEF PipelineInv
<1>1. Keeps /\ CopiesOK'
  <2>1. UNCHANGED <<dead, pushed>>
    BY DEF Failure, ApiDisconnect, ApiCrash, WorkerCrash, RelayAbort, Open
  <2>2. (\E p \in Process : LoseConnection(p)) \/ UNCHANGED copy
    BY DEF Failure, ApiDisconnect, ApiCrash, WorkerCrash, RelayAbort, Open, Process
  <2> QED
    BY <1>0, <2>1, <2>2, LoseConnectionOK, SameCopies
<1>2. row' = row /\ marks' = marks /\ pushed' = pushed
  BY DEF Failure, ApiDisconnect, ApiCrash, WorkerCrash, RelayAbort, Open
<1>3. \A e \in Event : disp'[e] = "mark" => disp[e] = "mark"
  BY <1>0 DEF Failure, ApiDisconnect, ApiCrash, WorkerCrash, RelayAbort, Open, TypeOK
<1>4. \A i \in Api : relay'[i].done \subseteq relay[i].done /\ relay[i].done \subseteq Event
  BY <1>0 DEF Failure, ApiDisconnect, ApiCrash, WorkerCrash, RelayAbort, Open, TypeOK, Relays, NoRelay
<1> QED
  BY <1>0, <1>1, <1>2, <1>3, <1>4 DEF OutboxOK, Keeps

\* The inductive invariant, for any instance whose API connections lose nothing.
THEOREM PipelineInvariant ==
    ASSUME Lossy \cap Api = {}
    PROVE  Spec => []PipelineInv
<1>1. PipelineInv /\ [Next]_vars => PipelineInv'
  <2> SUFFICES ASSUME PipelineInv, [Next]_vars PROVE PipelineInv'
    OBVIOUS
  <2>0. TypeOK /\ CopiesOK /\ OutboxOK
    BY DEF PipelineInv
  <2>1. ASSUME NEW e, NEW i, OutboxStep(e, i) PROVE PipelineInv'
    BY <2>0, <2>1, OutboxTypes, OutboxStepOK DEF PipelineInv
  <2>2. ASSUME NEW c \in Copy, BrokerStep(c) \/ Deliver(c) \/ HandlerStep(c) PROVE PipelineInv'
    BY <2>0, <2>2, CopyStepTypes, CopyStepOK, MarksOK DEF PipelineInv, CopiesOK, Named
  <2>3. CASE Failure \/ \E p \in Process : Open(p)
    BY <2>0, <2>3, FailureTypes, FailureOK DEF PipelineInv
  <2>4. CASE UNCHANGED vars
    BY <2>4 DEF vars, PipelineInv, TypeOK, CopiesOK, OutboxOK, Firm, Through, Solid
  <2> QED
    BY <2>1, <2>2, <2>3, <2>4 DEF Next, AllEnded, OutboxStep
<1> QED
  BY InitOK, <1>1, PTL DEF Spec

\* Nothing is lost while API connections lose nothing, whatever else fails: the
\* worker may die or lose its connection at any point, with its messages,
\* publishes may answer wrongly, transactions roll back, Redis and push fail.
THEOREM NoEventLost ==
    ASSUME Lossy \cap Api = {}
    PROVE  Spec => []NothingLost
<1>1. PipelineInv => NothingLost
  BY DEF PipelineInv, OutboxOK, Firm, Solid, Handling, NothingLost
<1> QED
  BY PipelineInvariant, <1>1, PTL

-----------------------------------------------------------------------------
(***************************************************************************)
(* Types, also when API connections lose what is on the wire.              *)
(***************************************************************************)
\* How the copies move: a step of the broker or a handler moves one copy and
\* may put one new copy on the wire; the outbox only puts new copies there.
Still(d) == copy'[d].at = copy[d].at /\ copy'[d].ev = copy[d].ev
New(d) == copy[d].at = "unused" /\ copy'[d].at = "wire" /\ copy'[d].ev \in Event
Gone(d) == copy'[d].at = "unused" /\ copy'[d].ev = None

LEMMA OutboxCopies ==
    ASSUME TypeOK, NEW e, NEW i, OutboxStep(e, i)
    PROVE  \A d \in Copy : Still(d) \/ New(d)
<1>1. CASE e \in Event /\ PublishNow(e)
  <2>1. CASE host[e] \in connected
    <3>1. PICK c \in Unused : copy' = [copy EXCEPT ![c] = Sent(e, 0, host[e])]
      BY <1>1, <2>1 DEF PublishNow
    <3> QED
      BY <1>1, <3>1 DEF TypeOK, Unused, Sent, Still, New
  <2>2. CASE host[e] \notin connected
    BY <1>1, <2>2 DEF PublishNow, Still
  <2> QED
    BY <2>1, <2>2
<1>2. CASE i \in Api /\ RelayPublish(i)
  <2>1. CASE i \in connected
    BY <1>2, <2>1, RelayPublishFacts DEF Still, New
  <2>2. CASE i \notin connected
    BY <1>2, <2>2 DEF RelayPublish, Still
  <2> QED
    BY <2>1, <2>2
<1>3. CASE UNCHANGED copy
  BY <1>3 DEF Still
<1> QED
  BY <1>1, <1>2, <1>3 DEF OutboxStep, RelayStep, Commit, MarkPublished, Purge, RelaySelect, RelayCommit

LEMMA CopyMoves ==
    ASSUME TypeOK, Named, NEW c \in Copy, BrokerStep(c) \/ Deliver(c) \/ HandlerStep(c)
    PROVE  /\ \A d \in Copy \ {c} : Still(d) \/ (New(d) /\ Retry(c))
           /\ Gone(c) \/ (copy'[c].ev = copy[c].ev /\ copy'[c].at # "unused" /\ copy[c].at # "acking")
           /\ copy[c].at # "unused"
<1>0. \A d \in Copy : copy[d] \in Copies
  BY DEF TypeOK
<1>1. ASSUME NEW where, Goto(c, where)
      PROVE  (\A d \in Copy \ {c} : Still(d)) /\ copy'[c].ev = copy[c].ev /\ copy'[c].at = where
  BY <1>0, <1>1 DEF Goto, TypeOK, Copies, Still
<1>2. CASE Arrive(c)
  BY <1>0, <1>2 DEF Arrive, Copies, Still
<1>3. CASE Acked(c) \/ DeadLettered(c)
  BY <1>3 DEF Acked, DeadLettered, TypeOK, Still, Gone, NoCopy
<1>4. CASE Retry(c)
  <2>1. PICK r \in Unused :
           LET sent == [copy EXCEPT ![r] = Sent(copy[c].ev, copy[c].retry + 1, Worker)] IN
           \/ copy' = [sent EXCEPT ![c].at = "acking", ![c].ahead = r]
           \/ copy' = [sent EXCEPT ![c].at = "main"]
    BY <1>4 DEF Retry, Strikes
  <2>2. r \in Copy /\ r # c /\ copy[r].at = "unused" /\ copy[c].ev \in Event
    BY <1>4 DEF Unused, Retry, Named
  <2> DEFINE sent == [copy EXCEPT ![r] = Sent(copy[c].ev, copy[c].retry + 1, Worker)]
  <2>3. /\ sent \in [Copy -> {sent[d] : d \in Copy}] /\ sent[c] = copy[c]
        /\ sent[r].at = "wire" /\ sent[r].ev = copy[c].ev
        /\ \A d \in Copy \ {r} : sent[d] = copy[d]
    BY <2>2 DEF TypeOK, Sent
  <2> HIDE DEF sent
  <2>4. /\ \A d \in Copy \ {c} : copy'[d] = sent[d]
        /\ copy'[c].ev = copy[c].ev /\ copy'[c].at \in {"acking", "main"}
    BY <1>0, <2>1, <2>2, <2>3 DEF Copies, sent
  <2>5. \A d \in Copy \ {c} : Still(d) \/ New(d)
    BY <2>2, <2>3, <2>4 DEF Still, New
  <2> QED
    BY <1>4, <2>4, <2>5 DEF Retry
<1>5. CASE Unpark(c) \/ Deliver(c) \/ CheckMark(c) \/ PushOk(c) \/ GiveUp(c) \/ SetMark(c) \/ Ack(c)
  <2>1. (\E where : Goto(c, where) /\ where # "unused") /\ copy[c].at \notin {"unused", "acking"}
    <3>1. CASE Unpark(c) \/ Deliver(c) \/ PushOk(c) \/ GiveUp(c) \/ SetMark(c) \/ Ack(c)
      BY <3>1 DEF Unpark, Deliver, PushOk, GiveUp, SetMark, Ack, Goto
    <3>2. CASE CheckMark(c)
      BY <3>2 DEF CheckMark
    <3> QED
      BY <1>5, <3>1, <3>2
  <2> QED
    BY <1>1, <2>1
<1> QED
  BY <1>2, <1>3, <1>4, <1>5 DEF BrokerStep, HandlerStep

LEMMA FailureCopies ==
    ASSUME TypeOK, Failure \/ \E p \in Process : Open(p)
    PROVE  \/ /\ failures'[Worker] = failures[Worker]
              /\ \A d \in Copy : Still(d) \/ (copy[d].at = "wire" /\ Gone(d))
           \/ /\ failures'[Worker] = failures[Worker] + 1
              /\ \A d \in Copy : \/ Still(d) /\ copy[d].at \notin Unsettled
                                 \/ copy[d].at = "wire" /\ Gone(d)
                                 \/ copy'[d].at = "main" /\ copy'[d].ev = copy[d].ev /\ copy[d].at # "unused"
<1>0. /\ \A d \in Copy : copy[d] \in Copies
      /\ Worker \notin Api /\ Worker \in Process
  BY DEF TypeOK, Process
<1>1. ASSUME NEW p \in Process, LoseConnection(p)
      PROVE  /\ p # Worker => /\ failures'[Worker] = failures[Worker]
                              /\ \A d \in Copy : Still(d) \/ (copy[d].at = "wire" /\ Gone(d))
             /\ p = Worker =>
                   /\ failures'[Worker] = failures[Worker] + 1
                   /\ \A d \in Copy : \/ Still(d) /\ copy[d].at \notin Unsettled
                                      \/ copy[d].at = "wire" /\ Gone(d)
                                      \/ copy'[d].at = "main" /\ copy'[d].ev = copy[d].ev /\ copy[d].at # "unused"
  <2>1. failures'[Worker] = IF p = Worker THEN failures[Worker] + 1 ELSE failures[Worker]
    BY <1>0, <1>1 DEF LoseConnection, Fails, TypeOK
  <2>2. ASSUME NEW d \in Copy
        PROVE  copy'[d] = IF copy[d].at = "wire" /\ copy[d].via = p /\ p \in Lossy THEN NoCopy
                          ELSE IF copy[d].at \in Unsettled /\ p = Worker
                          THEN [copy[d] EXCEPT !.at = "main", !.ahead = None] ELSE copy[d]
    BY <1>1 DEF LoseConnection
  <2>3. ASSUME NEW d \in Copy, p # Worker PROVE Still(d) \/ (copy[d].at = "wire" /\ Gone(d))
    BY <2>2, <2>3 DEF Still, Gone, NoCopy
  <2>4. ASSUME NEW d \in Copy, p = Worker
        PROVE  \/ Still(d) /\ copy[d].at \notin Unsettled
               \/ copy[d].at = "wire" /\ Gone(d)
               \/ copy'[d].at = "main" /\ copy'[d].ev = copy[d].ev /\ copy[d].at # "unused"
    <3>1. CASE copy[d].at \in Unsettled
      <4>1. copy'[d] = [copy[d] EXCEPT !.at = "main", !.ahead = None]
        BY <2>2, <2>4, <3>1 DEF Unsettled, Handling
      <4>2. copy'[d].at = "main" /\ copy'[d].ev = copy[d].ev
        BY <1>0, <4>1 DEF Copies
      <4> QED
        BY <3>1, <4>2 DEF Unsettled, Handling
    <3>2. CASE copy[d].at \notin Unsettled
      <4>1. (copy[d].at = "wire" /\ copy'[d] = NoCopy) \/ copy'[d] = copy[d]
        BY <2>2, <3>2
      <4>2. NoCopy.at = "unused" /\ NoCopy.ev = None
        BY DEF NoCopy
      <4> QED
        BY <3>2, <4>1, <4>2 DEF Still, Gone
    <3> QED
      BY <3>1, <3>2
  <2> QED
    BY <2>1, <2>3, <2>4
<1>2. ASSUME NEW i \in Api, ApiDisconnect(i) \/ ApiCrash(i)
      PROVE  /\ failures'[Worker] = failures[Worker]
             /\ \A d \in Copy : Still(d) \/ (copy[d].at = "wire" /\ Gone(d))
  BY <1>0, <1>1, <1>2 DEF ApiDisconnect, ApiCrash, Process
<1>3. CASE WorkerCrash
  BY <1>0, <1>1, <1>3 DEF WorkerCrash
<1>4. ASSUME NEW i \in Api, RelayAbort(i)
      PROVE  failures'[Worker] = failures[Worker] /\ copy' = copy
  BY <1>0, <1>4 DEF RelayAbort, Fails, TypeOK
<1>5. ASSUME NEW p \in Process, Open(p)
      PROVE  failures'[Worker] = failures[Worker] /\ copy' = copy
  BY <1>5 DEF Open
<1> QED
  BY <1>2, <1>3, <1>4, <1>5 DEF Failure, Still

\* Every variable has its type, whatever fails: in particular no retry copy is
\* sent with a count for which there is no retry queue, and every copy is one
\* of an event.
THEOREM PipelineTypes == Spec => [](TypeOK /\ Named)
<1>1. Init => TypeOK /\ Named
  BY InitOK DEF PipelineInv, CopiesOK, Named
<1>2. TypeOK /\ Named /\ [Next]_vars => (TypeOK /\ Named)'
  <2> SUFFICES ASSUME TypeOK, Named, [Next]_vars PROVE (TypeOK /\ Named)'
    OBVIOUS
  <2>1. ASSUME NEW e, NEW i, OutboxStep(e, i) PROVE (TypeOK /\ Named)'
    BY <2>1, OutboxTypes, OutboxCopies DEF Named, Still, New
  <2>2. ASSUME NEW c \in Copy, BrokerStep(c) \/ Deliver(c) \/ HandlerStep(c) PROVE (TypeOK /\ Named)'
    BY <2>2, CopyStepTypes, CopyMoves DEF Named, Still, New, Gone
  <2>3. CASE Failure \/ \E p \in Process : Open(p)
    BY <2>3, FailureTypes, FailureCopies DEF Named, Still, Gone
  <2>4. CASE UNCHANGED vars
    BY <2>4 DEF vars, TypeOK, Named
  <2> QED
    BY <2>1, <2>2, <2>3, <2>4 DEF Next, AllEnded, OutboxStep
<1> QED
  BY <1>1, <1>2, PTL DEF Spec

-----------------------------------------------------------------------------
(***************************************************************************)
(* How often an event is pushed until Redis fails a mark.  Before it is    *)
(* set, every push of this life of the worker is a delivery that still     *)
(* waits to set it; once it is set, only deliveries that looked before may *)
(* push.  Both kinds are among the Prefetch deliveries the worker holds.   *)
(***************************************************************************)
Held == {c \in Copy : copy[c].at \in Unsettled}
At(e, stage) == {c \in Copy : copy[c].at = stage /\ copy[c].ev = e}

DuplicatesInv ==
    /\ IsFiniteSet(Held) /\ Cardinality(Held) <= Prefetch
    /\ \A e \in Event :
          /\ e \notin marks => pushed[e] <= Prefetch * failures[Worker] + Cardinality(At(e, "mark"))
          /\ e \in marks => pushed[e] + Cardinality(At(e, "send")) <= Prefetch * (failures[Worker] + 1)

MarkedInv == "redisDown" \notin struck => DuplicatesInv

\* What has made a difference stays known.
LEMMA StruckGrows == ASSUME [Next]_vars PROVE struck \subseteq struck'
BY DEF Next, vars, Commit, PublishNow, MarkPublished, Purge, RelayStep, RelaySelect, RelayPublish,
       RelayCommit, Open, BrokerStep, Arrive, Unpark, Acked, DeadLettered, Deliver, HandlerStep,
       CheckMark, PushOk, GiveUp, Retry, SetMark, Ack, Failure, WorkerCrash, ApiDisconnect, ApiCrash,
       RelayAbort, AllEnded, Strikes

\* Counting deliveries.
LEMMA Counts ==
    ASSUME TypeOK, IsFiniteSet(Held)
    PROVE  /\ Cardinality(Held) \in Nat
           /\ \A e \in Event :
                 /\ IsFiniteSet(At(e, "send")) /\ Cardinality(At(e, "send")) \in Nat
                 /\ IsFiniteSet(At(e, "mark")) /\ Cardinality(At(e, "mark")) \in Nat
                 /\ Cardinality(At(e, "mark")) + Cardinality(At(e, "send")) <= Cardinality(Held)
<1>1. Cardinality(Held) \in Nat
  BY FS_CardinalityType
<1> SUFFICES ASSUME NEW e \in Event
             PROVE  /\ IsFiniteSet(At(e, "send")) /\ Cardinality(At(e, "send")) \in Nat
                    /\ IsFiniteSet(At(e, "mark")) /\ Cardinality(At(e, "mark")) \in Nat
                    /\ Cardinality(At(e, "mark")) + Cardinality(At(e, "send")) <= Cardinality(Held)
  BY <1>1
<1>2. At(e, "send") \subseteq Held /\ At(e, "mark") \subseteq Held /\ At(e, "mark") \cap At(e, "send") = {}
  BY DEF At, Held, Unsettled, Handling
<1>3. /\ IsFiniteSet(At(e, "send")) /\ Cardinality(At(e, "send")) \in Nat
      /\ IsFiniteSet(At(e, "mark")) /\ Cardinality(At(e, "mark")) \in Nat
  BY <1>2, FS_Subset, FS_CardinalityType
<1>4. Cardinality(At(e, "mark") \cup At(e, "send")) = Cardinality(At(e, "mark")) + Cardinality(At(e, "send"))
  <2>1. Cardinality(At(e, "mark") \cap At(e, "send")) = 0
    BY <1>2, FS_EmptySet
  <2>2. Cardinality(At(e, "mark") \cup At(e, "send"))
           = Cardinality(At(e, "mark")) + Cardinality(At(e, "send")) - Cardinality(At(e, "mark") \cap At(e, "send"))
    BY <1>3, FS_Union
  <2> QED
    BY <1>3, <2>1, <2>2
<1>5. Cardinality(At(e, "mark") \cup At(e, "send")) <= Cardinality(Held)
  BY <1>2, FS_Subset
<1> QED
  BY <1>3, <1>4, <1>5

\* The bound of a life and of one life more.
LEMMA Lives ==
    ASSUME TypeOK
    PROVE  /\ Prefetch \in Nat /\ failures[Worker] \in Nat
           /\ Prefetch * failures[Worker] \in Nat
           /\ Prefetch * (failures[Worker] + 1) = Prefetch * failures[Worker] + Prefetch
<1>1. Prefetch \in Nat /\ failures[Worker] \in Nat
  BY DEF TypeOK, Process
<1>2. \A p, f \in Nat : p * f \in Nat /\ p * (f + 1) = p * f + p
  OBVIOUS
<1> QED
  BY <1>1, <1>2

\* A step that starts no delivery, leaves the ones that wait to mark, and sends
\* no other to the push.
LEMMA QuietStep ==
    ASSUME TypeOK, DuplicatesInv, UNCHANGED <<marks, pushed>>, failures'[Worker] = failures[Worker],
           \A d \in Copy : /\ copy'[d].at \in Unsettled => copy[d].at \in Unsettled
                           /\ copy'[d].at = "mark" <=> copy[d].at = "mark"
                           /\ copy'[d].at \in {"mark", "send"} => copy'[d].ev = copy[d].ev
                           /\ copy'[d].at = "send" => copy[d].at = "send"
    PROVE  DuplicatesInv'
<1>1. Held' \subseteq Held
  BY DEF Held
<1>2. IsFiniteSet(Held) /\ IsFiniteSet(Held') /\ Cardinality(Held') <= Cardinality(Held)
      /\ Cardinality(Held) \in Nat /\ Cardinality(Held') \in Nat
  BY <1>1, FS_Subset, FS_CardinalityType DEF DuplicatesInv
<1>3. ASSUME NEW e \in Event
      PROVE  /\ At(e, "mark")' = At(e, "mark")
             /\ At(e, "send")' \subseteq At(e, "send")
  BY DEF At
<1>4. ASSUME NEW e \in Event
      PROVE  /\ Cardinality(At(e, "mark"))' = Cardinality(At(e, "mark"))
             /\ Cardinality(At(e, "send"))' <= Cardinality(At(e, "send"))
             /\ Cardinality(At(e, "send"))' \in Nat
  BY <1>2, <1>3, Counts, FS_Subset, FS_CardinalityType
<1>5. ASSUME NEW e \in Event
      PROVE  /\ e \notin marks' => pushed'[e] <= Prefetch * failures'[Worker] + Cardinality(At(e, "mark"))'
             /\ e \in marks' => pushed'[e] + Cardinality(At(e, "send"))' <= Prefetch * (failures'[Worker] + 1)
  <2>1. pushed[e] \in Nat /\ Cardinality(At(e, "send")) \in Nat /\ Prefetch * (failures[Worker] + 1) \in Nat
    BY <1>2, Counts, Lives DEF TypeOK
  <2> QED
    BY <1>4, <2>1 DEF DuplicatesInv
<1> QED
  BY <1>2, <1>5, Lives DEF DuplicatesInv

\* A handler that pushes counts as one that waits to mark.
LEMMA PushOkDuplicates ==
    ASSUME TypeOK, Named, DuplicatesInv, NEW c \in Copy, PushOk(c)
    PROVE  DuplicatesInv'
<1>1. PICK e \in Event : e = copy[c].ev
  BY DEF PushOk, Named
<1>2. /\ copy[c].at = "send" /\ copy'[c].at = "mark" /\ copy'[c].ev = e
      /\ \A d \in Copy \ {c} : copy'[d] = copy[d]
      /\ marks' = marks /\ failures' = failures
  BY <1>1 DEF PushOk, Goto, TypeOK, Copies
<1>3. /\ pushed'[e] <= pushed[e] + 1 /\ pushed'[e] \in Nat
      /\ \A f \in Event : pushed[f] \in Nat /\ (f # e => pushed'[f] = pushed[f])
  BY <1>1, PushLimitPositive DEF PushOk, TypeOK
<1>4. Held' = Held
  BY <1>2 DEF Held, Unsettled, Handling
<1>5. IsFiniteSet(Held) /\ Cardinality(Held) <= Prefetch
  BY DEF DuplicatesInv
<1>6. At(e, "mark")' = At(e, "mark") \cup {c} /\ c \notin At(e, "mark")
  BY <1>1, <1>2 DEF At
<1>7. At(e, "send")' = At(e, "send") \ {c} /\ c \in At(e, "send")
  BY <1>1, <1>2 DEF At
<1>8. \A f \in Event : f # e => At(f, "mark")' = At(f, "mark") /\ At(f, "send")' = At(f, "send")
  BY <1>1, <1>2 DEF At
<1>9. /\ Cardinality(At(e, "mark"))' = Cardinality(At(e, "mark")) + 1
      /\ Cardinality(At(e, "send"))' = Cardinality(At(e, "send")) - 1
      /\ Cardinality(At(e, "mark")) \in Nat /\ Cardinality(At(e, "send")) \in Nat
  BY <1>5, <1>6, <1>7, Counts, FS_AddElement, FS_RemoveElement
<1>10. ASSUME NEW f \in Event
       PROVE  /\ f \notin marks' => pushed'[f] <= Prefetch * failures'[Worker] + Cardinality(At(f, "mark"))'
              /\ f \in marks' => pushed'[f] + Cardinality(At(f, "send"))' <= Prefetch * (failures'[Worker] + 1)
  <2>1. CASE f = e
    BY <1>2, <1>3, <1>9, <2>1, Lives DEF DuplicatesInv
  <2>2. CASE f # e
    BY <1>2, <1>3, <1>8, <2>2 DEF DuplicatesInv
  <2> QED
    BY <2>1, <2>2
<1> QED
  BY <1>4, <1>5, <1>10 DEF DuplicatesInv

\* The mark takes over from the deliveries that waited to set it.
LEMMA SetMarkDuplicates ==
    ASSUME TypeOK, Named, DuplicatesInv, NEW c \in Copy, SetMark(c), "redisDown" \notin struck'
    PROVE  DuplicatesInv'
<1>1. PICK e \in Event : e = copy[c].ev
  BY DEF SetMark, Named
<1>2. /\ copy[c].at = "mark" /\ copy'[c].at = "ack" /\ copy'[c].ev = e
      /\ \A d \in Copy \ {c} : copy'[d] = copy[d]
      /\ marks' = marks \cup {e} /\ failures' = failures /\ pushed' = pushed
  BY <1>1 DEF SetMark, Strikes, Goto, TypeOK, Copies
<1>3. Held' = Held
  BY <1>2 DEF Held, Unsettled, Handling
<1>4. IsFiniteSet(Held) /\ Cardinality(Held) <= Prefetch
  BY DEF DuplicatesInv
<1>5. \A f \in Event : /\ At(f, "send")' = At(f, "send")
                       /\ f # e => At(f, "mark")' = At(f, "mark")
  BY <1>1, <1>2 DEF At
<1>6. ASSUME NEW f \in Event
      PROVE  /\ f \notin marks' => pushed'[f] <= Prefetch * failures'[Worker] + Cardinality(At(f, "mark"))'
             /\ f \in marks' => pushed'[f] + Cardinality(At(f, "send"))' <= Prefetch * (failures'[Worker] + 1)
  <2>1. CASE f = e /\ e \notin marks
    <3>1. pushed[e] <= Prefetch * failures[Worker] + Cardinality(At(e, "mark")) /\ pushed[e] \in Nat
      BY <2>1 DEF DuplicatesInv, TypeOK
    <3>2. Cardinality(At(e, "mark")) + Cardinality(At(e, "send")) <= Prefetch
      BY <1>4, Counts, Lives
    <3>3. pushed[e] + Cardinality(At(e, "send")) <= Prefetch * failures[Worker] + Prefetch
      BY <1>4, <3>1, <3>2, Counts, Lives
    <3> QED
      BY <1>2, <1>5, <2>1, <3>3, Lives
  <2>2. CASE f # e \/ e \in marks
    BY <1>2, <1>5, <2>2 DEF DuplicatesInv
  <2> QED
    BY <2>1, <2>2
<1> QED
  BY <1>3, <1>4, <1>6 DEF DuplicatesInv

\* A delivery starts below the prefetch.
LEMMA DeliverDuplicates ==
    ASSUME TypeOK, Named, DuplicatesInv, NEW c \in Copy, Deliver(c)
    PROVE  DuplicatesInv'
<1>1. /\ copy[c].at = "main" /\ copy'[c].at = "check" /\ \A d \in Copy \ {c} : copy'[d] = copy[d]
      /\ marks' = marks /\ pushed' = pushed /\ failures' = failures
      /\ Cardinality(Held) < Prefetch
  BY DEF Deliver, TypeOK, Copies, consumer, Held
<1>2. Held' = Held \cup {c}
  BY <1>1 DEF Held, Unsettled, Handling
<1>3. IsFiniteSet(Held') /\ Cardinality(Held') <= Prefetch
  <2>1. IsFiniteSet(Held) /\ Cardinality(Held) \in Nat
    BY FS_CardinalityType DEF DuplicatesInv
  <2>2. IsFiniteSet(Held \cup {c}) /\ Cardinality(Held \cup {c}) <= Cardinality(Held) + 1
    BY <2>1, FS_AddElement
  <2>3. IsFiniteSet(Held \cup {c}) /\ Cardinality(Held \cup {c}) \in Nat
    BY <2>2, FS_CardinalityType
  <2> QED
    BY <1>1, <1>2, <2>1, <2>2, <2>3, Lives
<1>4. \A e \in Event : At(e, "mark")' = At(e, "mark") /\ At(e, "send")' = At(e, "send")
  BY <1>1 DEF At
<1> QED
  BY <1>1, <1>3, <1>4 DEF DuplicatesInv

\* While Redis answers, only an event without a mark goes on to the push.
LEMMA CheckMarkDuplicates ==
    ASSUME TypeOK, Named, DuplicatesInv, NEW c \in Copy, CheckMark(c), "redisDown" \notin struck'
    PROVE  DuplicatesInv'
<1>1. PICK e \in Event : e = copy[c].ev
  BY DEF CheckMark, Named
<1>2. /\ copy[c].at = "check" /\ copy'[c].ev = e
      /\ copy'[c].at = "acking" \/ (copy'[c].at = "send" /\ e \notin marks)
      /\ \A d \in Copy \ {c} : copy'[d] = copy[d]
      /\ marks' = marks /\ failures' = failures /\ pushed' = pushed
  BY <1>1 DEF CheckMark, Strikes, Goto, TypeOK, Copies, consumer
<1>3. Held' = Held
  BY <1>2 DEF Held, Unsettled, Handling
<1>4. \A f \in Event : /\ At(f, "mark")' = At(f, "mark")
                       /\ f \in marks => At(f, "send")' = At(f, "send")
  BY <1>1, <1>2 DEF At
<1> QED
  BY <1>2, <1>3, <1>4 DEF DuplicatesInv

\* A new life of the worker: what it held is back in the queue.
LEMMA WorkerCrashDuplicates ==
    ASSUME TypeOK, DuplicatesInv, UNCHANGED <<marks, pushed>>, failures'[Worker] = failures[Worker] + 1,
           \A d \in Copy : copy'[d].at \notin Unsettled
    PROVE  DuplicatesInv'
<1>1. Held' = {} /\ \A e \in Event : At(e, "mark")' = {} /\ At(e, "send")' = {}
  BY DEF Held, At, Unsettled, Handling
<1>2. IsFiniteSet(Held)' /\ Cardinality(Held') = 0
  BY <1>1, FS_EmptySet
<1>3. \A e \in Event : Cardinality(At(e, "mark"))' = 0 /\ Cardinality(At(e, "send"))' = 0
  BY <1>1, FS_EmptySet
<1>4. ASSUME NEW e \in Event
      PROVE  /\ pushed[e] <= Prefetch * failures'[Worker] + Cardinality(At(e, "mark"))'
             /\ pushed[e] + Cardinality(At(e, "send"))' <= Prefetch * (failures'[Worker] + 1)
  <2>1. pushed[e] <= Prefetch * failures[Worker] + Prefetch
    <3>1. pushed[e] \in Nat /\ Cardinality(Held) \in Nat /\ Cardinality(At(e, "mark")) \in Nat
          /\ Cardinality(At(e, "send")) \in Nat /\ Cardinality(Held) <= Prefetch
          /\ Cardinality(At(e, "mark")) + Cardinality(At(e, "send")) <= Cardinality(Held)
      BY Counts DEF DuplicatesInv, TypeOK
    <3> QED
      BY <3>1, Lives DEF DuplicatesInv
  <2>2. /\ Prefetch * failures'[Worker] = Prefetch * failures[Worker] + Prefetch
        /\ Prefetch * (failures'[Worker] + 1) = Prefetch * failures[Worker] + Prefetch + Prefetch
    <3>1. \A p, f \in Nat : p * (f + 1) = p * f + p /\ p * (f + 1 + 1) = p * f + p + p
      OBVIOUS
    <3> QED
      BY <3>1, Lives
  <2>3. pushed[e] \in Nat
    BY DEF TypeOK
  <2> QED
    BY <1>3, <2>1, <2>2, <2>3, Lives
<1> QED
  BY <1>2, <1>4, Lives DEF DuplicatesInv

\* The other steps of the broker and the handlers take no copy to the push and
\* none away from the mark, and hold no new one.
LEMMA QuietMoves ==
    ASSUME TypeOK, NEW c \in Copy,
           Arrive(c) \/ Unpark(c) \/ Acked(c) \/ DeadLettered(c) \/ GiveUp(c) \/ Retry(c) \/ Ack(c)
    PROVE  /\ copy[c].at # "mark" /\ copy'[c].at \notin {"mark", "send"}
           /\ copy'[c].at \in Unsettled => copy[c].at \in Unsettled
           /\ UNCHANGED <<marks, pushed, failures>>
<1>0. \A d \in Copy : copy[d] \in Copies
  BY DEF TypeOK
<1>1. UNCHANGED <<marks, pushed, failures>>
  BY DEF Arrive, Unpark, Acked, DeadLettered, GiveUp, Retry, Ack, consumer
<1>2. CASE Arrive(c)
  <2>1. copy[c].at = "wire" /\ copy'[c].at \in {"main", "parked"}
    BY <1>0, <1>2 DEF Arrive, Copies
  <2> QED
    BY <1>1, <2>1 DEF Unsettled, Handling
<1>3. CASE Acked(c) \/ DeadLettered(c)
  <2>1. copy[c].at # "mark" /\ copy'[c].at = "unused"
    BY <1>3 DEF Acked, DeadLettered, TypeOK, NoCopy
  <2> QED
    BY <1>1, <2>1 DEF Unsettled, Handling
<1>4. CASE Retry(c)
  <2>1. PICK r \in Unused :
           LET sent == [copy EXCEPT ![r] = Sent(copy[c].ev, copy[c].retry + 1, Worker)] IN
           \/ copy' = [sent EXCEPT ![c].at = "acking", ![c].ahead = r]
           \/ copy' = [sent EXCEPT ![c].at = "main"]
    BY <1>4 DEF Retry, Strikes
  <2> DEFINE sent == [copy EXCEPT ![r] = Sent(copy[c].ev, copy[c].retry + 1, Worker)]
  <2>2. copy[c].at = "send" /\ sent[c] = copy[c] /\ sent \in [Copy -> {sent[d] : d \in Copy}]
    BY <1>4, <2>1 DEF Unused, Retry, TypeOK
  <2> HIDE DEF sent
  <2>3. copy'[c].at \in {"acking", "main"}
    BY <1>0, <2>1, <2>2 DEF Copies, sent
  <2> QED
    BY <1>1, <2>2, <2>3 DEF Unsettled, Handling
<1>5. CASE Unpark(c) \/ GiveUp(c) \/ Ack(c)
  <2>1. /\ Unpark(c) => copy[c].at = "parked" /\ Goto(c, "main")
        /\ GiveUp(c) => copy[c].at = "send" /\ Goto(c, "nacking")
        /\ Ack(c) => copy[c].at = "ack" /\ Goto(c, "acking")
    BY DEF Unpark, GiveUp, Ack, Goto
  <2>2. \A where : Goto(c, where) => copy'[c].at = where
    BY <1>0 DEF Goto, TypeOK, Copies
  <2> QED
    BY <1>1, <1>5, <2>1, <2>2 DEF Unsettled, Handling
<1> QED
  BY <1>2, <1>3, <1>4, <1>5

LEMMA DuplicatesStays ==
    ASSUME TypeOK, Named, DuplicatesInv, [Next]_vars, "redisDown" \notin struck'
    PROVE  DuplicatesInv'
<1>0. "unused" \notin Unsettled /\ "wire" \notin Unsettled /\ "main" \notin Unsettled
  BY DEF Unsettled, Handling
<1>1. ASSUME NEW e, NEW i, OutboxStep(e, i) PROVE DuplicatesInv'
  <2>1. UNCHANGED <<marks, pushed, failures>>
    BY <1>1 DEF OutboxStep, RelayStep, Commit, PublishNow, MarkPublished, Purge, RelaySelect,
                RelayPublish, RelayCommit, consumer
  <2> QED
    BY <1>0, <1>1, <2>1, OutboxCopies, QuietStep DEF Still, New
<1>2. ASSUME NEW c \in Copy,
             Arrive(c) \/ Unpark(c) \/ Acked(c) \/ DeadLettered(c) \/ GiveUp(c) \/ Retry(c) \/ Ack(c)
      PROVE  DuplicatesInv'
  <2>1. BrokerStep(c) \/ HandlerStep(c)
    BY <1>2 DEF BrokerStep, HandlerStep
  <2>2. \A d \in Copy \ {c} : Still(d) \/ New(d)
    BY <2>1, CopyMoves
  <2>3. ASSUME NEW d \in Copy
        PROVE  /\ copy'[d].at \in Unsettled => copy[d].at \in Unsettled
               /\ copy'[d].at = "mark" <=> copy[d].at = "mark"
               /\ copy'[d].at \in {"mark", "send"} => copy'[d].ev = copy[d].ev
               /\ copy'[d].at = "send" => copy[d].at = "send"
    <3>1. CASE d = c
      BY <1>2, <3>1, QuietMoves
    <3>2. CASE d # c
      BY <1>0, <2>2, <3>2 DEF Still, New
    <3> QED
      BY <3>1, <3>2
  <2> QED
    BY <1>2, <2>3, QuietMoves, QuietStep
<1>3. CASE Failure \/ \E p \in Process : Open(p)
  <2>1. UNCHANGED <<marks, pushed>>
    BY <1>3 DEF Failure, WorkerCrash, ApiDisconnect, ApiCrash, RelayAbort, Open, consumer
  <2>2. CASE /\ failures'[Worker] = failures[Worker]
             /\ \A d \in Copy : Still(d) \/ (copy[d].at = "wire" /\ Gone(d))
    BY <1>0, <2>1, <2>2, QuietStep DEF Still, Gone
  <2>3. CASE /\ failures'[Worker] = failures[Worker] + 1
             /\ \A d \in Copy : \/ Still(d) /\ copy[d].at \notin Unsettled
                                \/ copy[d].at = "wire" /\ Gone(d)
                                \/ copy'[d].at = "main" /\ copy'[d].ev = copy[d].ev /\ copy[d].at # "unused"
    BY <1>0, <2>1, <2>3, WorkerCrashDuplicates DEF Still, Gone
  <2> QED
    BY <1>3, <2>2, <2>3, FailureCopies
<1>4. CASE UNCHANGED vars
  BY <1>4, QuietStep DEF vars
<1> QED
  BY <1>1, <1>2, <1>3, <1>4, DeliverDuplicates, CheckMarkDuplicates, PushOkDuplicates, SetMarkDuplicates
  DEF Next, AllEnded, OutboxStep, BrokerStep, HandlerStep

\* Until Redis fails a mark, each life of the worker pushes an event at most as
\* often as it holds deliveries at a time, whatever else fails: the dedupe mark of
\* NotificationConsumer.handle, which is set after the push.
THEOREM DuplicatesPerLife == Spec => []DuplicatesBounded
<1>1. Init => MarkedInv
  <2> SUFFICES ASSUME Init PROVE DuplicatesInv
    BY DEF MarkedInv
  <2>0. TypeOK
    BY InitOK DEF PipelineInv
  <2>1. Held = {}
    BY DEF Init, NoCopy, Held, Unsettled, Handling
  <2>2. IsFiniteSet(Held) /\ Cardinality(Held) = 0
    BY <2>1, FS_EmptySet
  <2>3. ASSUME NEW e \in Event
        PROVE  /\ e \notin marks /\ pushed[e] = 0
               /\ 0 <= Prefetch * failures[Worker] + Cardinality(At(e, "mark"))
    BY <2>0, <2>2, Counts, Lives DEF Init
  <2> QED
    BY <2>0, <2>2, <2>3, Lives DEF DuplicatesInv
<1>2. TypeOK /\ MarkedInv => DuplicatesBounded
  <2> SUFFICES ASSUME TypeOK, DuplicatesInv, NEW e \in Event
               PROVE  pushed[e] <= Prefetch * (failures[Worker] + 1)
    BY DEF DuplicatesBounded, MarkedInv
  <2>1. /\ pushed[e] \in Nat /\ Cardinality(At(e, "mark")) \in Nat /\ Cardinality(At(e, "send")) \in Nat
        /\ Cardinality(At(e, "mark")) + Cardinality(At(e, "send")) <= Cardinality(Held)
        /\ Cardinality(Held) \in Nat /\ Cardinality(Held) <= Prefetch
    BY Counts DEF TypeOK, DuplicatesInv
  <2> QED
    BY <2>1, Lives DEF DuplicatesInv
<1>3. TypeOK /\ Named /\ MarkedInv /\ [Next]_vars => MarkedInv'
  BY DuplicatesStays, StruckGrows DEF MarkedInv
<1> QED
  BY <1>1, <1>2, <1>3, PipelineTypes, PTL DEF Spec

-----------------------------------------------------------------------------
(***************************************************************************)
(* How many copies an event has before anything fails.  What has not been  *)
(* sent yet counts too: the publish of publishNow, until it is called, and *)
(* the one of a relay, until its row is published or among the rows some   *)
(* relay is about to commit.  Relays that are at work hold disjoint rows,  *)
(* all of them pending.                                                    *)
(***************************************************************************)
Calm == "backpressure" \notin struck /\ \A p \in Process : failures[p] = 0
Live(e) == {c \in Copy : copy[c].ev = e /\ copy[c].at # "acking"}
ToPublish(e) == disp[e] \in {"none", "publish"}
ToRelay(e) == row[e] \in {"none", "pending"} /\ \A i \in Api : e \notin relay[i].done
Share(b) == IF b THEN 1 ELSE 0
Weight(e) == Cardinality(Live(e)) + Share(ToPublish(e)) + Share(ToRelay(e))

RelaysApart ==
    /\ \A i, j \in Api : i # j => relay[i].rows \cap relay[j].rows = {}
    /\ \A i \in Api : /\ relay[i].done \subseteq relay[i].rows
                      /\ relay[i].phase # "published" => relay[i].done = {}
                      /\ \A e \in relay[i].rows : row[e] = "pending"

Emptied == \A c \in Copy : copy[c].at = "unused" => copy[c].ev = None
NotBegun == \A e \in Event : row[e] = "none" => disp[e] = "none"
Weighed(e) == IsFiniteSet(Live(e)) /\ Weight(e) <= 2
AtMostTwo == RelaysApart /\ Emptied /\ NotBegun /\ \A e \in Event : Weighed(e)
CalmInv == Calm => AtMostTwo

\* A step that adds no copy of the event and nothing to send.
LEMMA Lighter ==
    ASSUME NEW e \in Event, Weighed(e), Live(e)' \subseteq Live(e),
           ToPublish(e)' => ToPublish(e), ToRelay(e)' => ToRelay(e)
    PROVE  Weighed(e)'
<1>1. /\ IsFiniteSet(Live(e)) /\ IsFiniteSet(Live(e)') /\ Cardinality(Live(e)') <= Cardinality(Live(e))
      /\ Cardinality(Live(e)) \in Nat /\ Cardinality(Live(e)') \in Nat
  BY FS_Subset, FS_CardinalityType DEF Weighed
<1>2. /\ Share(ToPublish(e))' <= Share(ToPublish(e)) /\ Share(ToRelay(e))' <= Share(ToRelay(e))
      /\ {Share(ToPublish(e)), Share(ToPublish(e))', Share(ToRelay(e)), Share(ToRelay(e))'} \subseteq Nat
  BY DEF Share
<1> QED
  BY <1>1, <1>2 DEF Weighed, Weight

\* A step that sends the copy which was to be sent.
LEMMA OneSent ==
    ASSUME NEW e \in Event, Weighed(e), NEW r, Live(e)' = Live(e) \cup {r},
           ToPublish(e)' => ToPublish(e), ToRelay(e)' => ToRelay(e),
           (ToPublish(e) /\ ~ToPublish(e)') \/ (ToRelay(e) /\ ~ToRelay(e)')
    PROVE  Weighed(e)'
<1>1. IsFiniteSet(Live(e)) /\ Cardinality(Live(e)) \in Nat
  BY FS_CardinalityType DEF Weighed
<1>2. IsFiniteSet(Live(e) \cup {r}) /\ Cardinality(Live(e) \cup {r}) <= Cardinality(Live(e)) + 1
  <2>1. /\ IsFiniteSet(Live(e) \cup {r})
        /\ \/ Cardinality(Live(e) \cup {r}) = Cardinality(Live(e)) + 1
           \/ Cardinality(Live(e) \cup {r}) = Cardinality(Live(e))
    BY <1>1, FS_AddElement
  <2> QED
    BY <1>1, <2>1
<1>3. Cardinality(Live(e) \cup {r}) \in Nat
  BY <1>2, FS_CardinalityType
<1>4. /\ Share(ToPublish(e))' + Share(ToRelay(e))' + 1 <= Share(ToPublish(e)) + Share(ToRelay(e))
      /\ {Share(ToPublish(e)), Share(ToPublish(e))', Share(ToRelay(e)), Share(ToRelay(e))'} \subseteq Nat
  BY DEF Share
<1> QED
  BY <1>1, <1>2, <1>3, <1>4 DEF Weighed, Weight

\* A retry: the new copy replaces the one whose ack is on its way.
LEMMA OneReplaced ==
    ASSUME NEW e \in Event, Weighed(e), NEW c \in Live(e), NEW r,
           Live(e)' = (Live(e) \ {c}) \cup {r},
           ToPublish(e)' => ToPublish(e), ToRelay(e)' => ToRelay(e)
    PROVE  Weighed(e)'
<1>1. IsFiniteSet(Live(e)) /\ Cardinality(Live(e)) \in Nat
  BY FS_CardinalityType DEF Weighed
<1>2. IsFiniteSet(Live(e) \ {c}) /\ Cardinality(Live(e) \ {c}) = Cardinality(Live(e)) - 1
  BY <1>1, FS_RemoveElement
<1>3. IsFiniteSet(Live(e)') /\ Cardinality(Live(e)') <= Cardinality(Live(e))
  <2>1. /\ IsFiniteSet((Live(e) \ {c}) \cup {r})
        /\ \/ Cardinality((Live(e) \ {c}) \cup {r}) = Cardinality(Live(e) \ {c}) + 1
           \/ Cardinality((Live(e) \ {c}) \cup {r}) = Cardinality(Live(e) \ {c})
    BY <1>2, FS_AddElement
  <2> QED
    BY <1>1, <1>2, <2>1
<1>4. Cardinality(Live(e)') \in Nat
  BY <1>3, FS_CardinalityType
<1>5. /\ Share(ToPublish(e))' <= Share(ToPublish(e)) /\ Share(ToRelay(e))' <= Share(ToRelay(e))
      /\ {Share(ToPublish(e)), Share(ToPublish(e))', Share(ToRelay(e)), Share(ToRelay(e))'} \subseteq Nat
  BY DEF Share
<1> QED
  BY <1>1, <1>3, <1>4, <1>5 DEF Weighed, Weight

\* Every failure is counted, so after one nothing is calm any more.
LEMMA FailureEndsCalm == ASSUME TypeOK, Failure PROVE ~Calm'
<1>1. ASSUME NEW p \in Process, Fails(p) PROVE failures'[p] # 0
  BY <1>1 DEF Fails, TypeOK
<1> QED
  BY <1>1 DEF Failure, WorkerCrash, ApiDisconnect, ApiCrash, RelayAbort, LoseConnection, Calm, Process

\* Relays stay apart: a relay skips locked rows, and nobody else writes a row it has.
LEMMA RelaysStayApart ==
    ASSUME TypeOK, RelaysApart, NEW e, NEW i, OutboxStep(e, i)
    PROVE  RelaysApart'
<1>1. CASE e \in Event /\ i \in Api /\ Commit(e, i)
  BY <1>1 DEF Commit, RelaysApart, TypeOK
<1>2. CASE e \in Event /\ PublishNow(e)
  BY <1>2 DEF PublishNow, RelaysApart
<1>3. CASE e \in Event /\ MarkPublished(e)
  <2>1. /\ relay' = relay /\ \A j \in Api : e \notin relay[j].rows
        /\ \A d \in Event \ {e} : row'[d] = row[d]
        /\ \A j \in Api : relay[j].rows \subseteq Event
    BY <1>3 DEF MarkPublished, Locked, TypeOK, Relays
  <2> QED
    BY <2>1 DEF RelaysApart
<1>4. CASE e \in Event /\ Purge(e)
  BY <1>4 DEF Purge, RelaysApart, TypeOK
<1>5. CASE i \in Api /\ RelaySelect(i)
  <2>1. /\ row' = row
        /\ relay'[i].rows = Available /\ relay'[i].done = {}
        /\ \A j \in Api \ {i} : relay'[j] = relay[j]
    BY <1>5 DEF RelaySelect, TypeOK
  <2>2. \A d \in Available : row[d] = "pending" /\ \A j \in Api : d \notin relay[j].rows
    BY DEF Available, Locked
  <2> QED
    BY <1>5, <2>1, <2>2 DEF RelaysApart
<1>6. CASE i \in Api /\ RelayPublish(i)
  <2>1. /\ row' = row
        /\ relay'[i].rows = relay[i].rows /\ relay'[i].done \subseteq relay[i].rows
        /\ relay'[i].phase = "published"
        /\ \A j \in Api \ {i} : relay'[j] = relay[j]
    <3>1. CASE i \in connected
      <4>1. PICK sent : /\ sent \subseteq relay[i].rows
                        /\ relay' = [relay EXCEPT ![i].phase = "published", ![i].done = sent]
        BY <1>6, <3>1 DEF RelayPublish
      <4>2. relay[i] \in Relays /\ row' = row
        BY <1>6 DEF TypeOK, RelayPublish
      <4>3. \A j \in Api \ {i} : relay'[j] = relay[j]
        BY <4>1 DEF TypeOK
      <4>4. relay'[i].phase = "published"
        BY <1>6, <4>1, <4>2 DEF TypeOK, Relays
      <4>5. relay'[i].rows = relay[i].rows
        BY <1>6, <4>1, <4>2 DEF TypeOK, Relays
      <4>6. relay'[i].done = sent
        BY <1>6, <4>1, <4>2 DEF TypeOK, Relays
      <4> QED
        BY <4>1, <4>2, <4>3, <4>4, <4>5, <4>6
    <3>2. CASE i \notin connected
      <4>1. relay[i] \in Relays /\ row' = row /\ relay[i].done \subseteq relay[i].rows
        BY <1>6 DEF TypeOK, RelayPublish, RelaysApart
      <4>2. relay'[i] = [relay[i] EXCEPT !.phase = "published"] /\ \A j \in Api \ {i} : relay'[j] = relay[j]
        BY <1>6, <3>2 DEF TypeOK, RelayPublish
      <4> QED
        BY <4>1, <4>2 DEF Relays
    <3> QED
      BY <3>1, <3>2
  <2> QED
    BY <1>6, <2>1 DEF RelaysApart
<1>7. CASE i \in Api /\ RelayCommit(i)
  <2>1. /\ relay'[i] = NoRelay /\ \A j \in Api \ {i} : relay'[j] = relay[j]
        /\ \A d \in Event \ relay[i].done : row'[d] = row[d]
        /\ \A j \in Api : relay[j].rows \subseteq Event
    BY <1>7 DEF RelayCommit, TypeOK, Relays
  <2> QED
    BY <1>7, <2>1 DEF RelaysApart, NoRelay
<1> QED
  BY <1>1, <1>2, <1>3, <1>4, <1>5, <1>6, <1>7 DEF OutboxStep, RelayStep

\* A relay's publish adds one copy of each of its rows and of no other event.
LEMMA RelayPublishLive ==
    ASSUME TypeOK, Emptied, NEW i \in Api, RelayPublish(i), i \in connected
    PROVE  \A e \in Event :
              IF e \in relay[i].rows THEN \E r \in Copy : Live(e)' = Live(e) \cup {r}
              ELSE Live(e)' = Live(e)
<1> DEFINE rows == relay[i].rows
           row4(slot, c) == CHOOSE e \in rows : slot[e] = c
<1>0. rows \subseteq Event /\ i \in Process /\ 0 \in 0..MaxRetries /\ None \notin Event
  BY DEF TypeOK, Relays, Process
<1>1. PICK slot \in [rows -> Unused] :
         /\ \A d, e \in rows : slot[d] = slot[e] => d = e
         /\ copy' = [c \in Copy |-> IF \E e \in rows : slot[e] = c
                                    THEN Sent(row4(slot, c), 0, i) ELSE copy[c]]
  BY DEF RelayPublish
<1>2. ASSUME NEW c \in Copy, NEW e \in rows, slot[e] = c PROVE row4(slot, c) = e
  BY <1>1, <1>2
<1> HIDE DEF row4
<1>3. ASSUME NEW c \in Copy, NEW e \in rows, slot[e] = c
      PROVE  copy'[c].ev = e /\ copy'[c].at = "wire" /\ copy[c].ev = None
  <2>1. copy'[c] = Sent(e, 0, i) /\ copy[c].at = "unused"
    BY <1>1, <1>2, <1>3 DEF Unused
  <2> QED
    BY <1>0, <2>1, CopyTypes DEF Emptied
<1>4. ASSUME NEW c \in Copy, ~\E e \in rows : slot[e] = c PROVE copy'[c] = copy[c]
  BY <1>1, <1>4
<1>5. ASSUME NEW e \in Event, e \in rows PROVE slot[e] \in Copy /\ Live(e)' = Live(e) \cup {slot[e]}
  <2>1. slot[e] \in Copy
    BY <1>1, <1>5 DEF Unused
  <2>2. ASSUME NEW c \in Copy PROVE c \in Live(e)' <=> (c \in Live(e) \/ c = slot[e])
    <3>1. CASE \E d \in rows : slot[d] = c
      <4>1. PICK d \in rows : slot[d] = c
        BY <3>1
      <4>2. copy'[c].ev = d /\ copy'[c].at = "wire" /\ copy[c].ev = None
        BY <1>3, <4>1
      <4>3. d = e <=> c = slot[e]
        BY <1>1, <1>5, <4>1
      <4> QED
        BY <1>0, <4>2, <4>3 DEF Live
    <3>2. CASE ~\E d \in rows : slot[d] = c
      BY <1>4, <1>5, <3>2 DEF Live
    <3> QED
      BY <3>1, <3>2
  <2> QED
    BY <2>1, <2>2 DEF Live
<1>6. ASSUME NEW e \in Event, e \notin rows PROVE Live(e)' = Live(e)
  <2>1. ASSUME NEW c \in Copy PROVE c \in Live(e)' <=> c \in Live(e)
    BY <1>0, <1>3, <1>4, <1>6 DEF Live
  <2> QED
    BY <2>1 DEF Live
<1> QED
  BY <1>5, <1>6

LEMMA OutboxAtMostTwo ==
    ASSUME TypeOK, AtMostTwo, NEW e, NEW i, OutboxStep(e, i), "backpressure" \notin struck'
    PROVE  AtMostTwo'
<1>0. None \notin Event /\ RelaysApart /\ Emptied /\ NotBegun /\ \A d \in Event : Weighed(d)
  BY DEF AtMostTwo
<1>1. RelaysApart'
  BY <1>0, RelaysStayApart
<1>2. Emptied'
  BY <1>0, OutboxCopies DEF Emptied, Still, New
<1>3. NotBegun'
  BY <1>0 DEF OutboxStep, RelayStep, Commit, PublishNow, MarkPublished, Purge, RelaySelect,
              RelayPublish, RelayCommit, NotBegun, RelaysApart, TypeOK
<1>4. ASSUME UNCHANGED copy PROVE \A d : Live(d)' = Live(d)
  BY <1>4 DEF Live
<1>5. ASSUME NEW d \in Event PROVE Weighed(d)'
  <2>0. Weighed(d)
    BY <1>0
  <2>1. CASE e \in Event /\ i \in Api /\ Commit(e, i)
    <3>1. ToPublish(d)' => ToPublish(d)
      BY <1>0, <2>1 DEF Commit, ToPublish, NotBegun, TypeOK
    <3>2. ToRelay(d)' => ToRelay(d)
      BY <2>1 DEF Commit, ToRelay, TypeOK
    <3> QED
      BY <1>4, <2>0, <2>1, <3>1, <3>2, Lighter DEF Commit
  <2>2. CASE e \in Event /\ PublishNow(e)
    <3>1. /\ ToRelay(d)' => ToRelay(d)
          /\ ToPublish(d)' => ToPublish(d)
          /\ ToPublish(e) /\ ~ToPublish(e)'
      BY <2>2 DEF PublishNow, ToRelay, ToPublish, TypeOK
    <3>2. CASE host[e] \in connected
      <4>1. PICK c \in Unused : copy' = [copy EXCEPT ![c] = Sent(e, 0, host[e])]
        BY <2>2, <3>2 DEF PublishNow
      <4>2. /\ c \in Copy /\ copy[c].ev = None
            /\ copy'[c].ev = e /\ copy'[c].at = "wire" /\ \A x \in Copy \ {c} : copy'[x] = copy[x]
        BY <1>0, <4>1 DEF Unused, Emptied, TypeOK, Sent
      <4>3. Live(e)' = Live(e) \cup {c} /\ (d # e => Live(d)' = Live(d))
        BY <1>0, <2>2, <4>2 DEF Live
      <4> QED
        BY <2>0, <2>2, <3>1, <4>3, Lighter, OneSent
    <3>3. CASE host[e] \notin connected
      BY <1>4, <2>0, <2>2, <3>1, <3>3, Lighter DEF PublishNow
    <3> QED
      BY <3>2, <3>3
  <2>3. CASE e \in Event /\ (MarkPublished(e) \/ Purge(e))
    <3>1. /\ ToRelay(d)' => ToRelay(d)
          /\ ToPublish(d)' => ToPublish(d)
          /\ copy' = copy
      BY <2>3 DEF MarkPublished, Purge, ToRelay, ToPublish, TypeOK
    <3> QED
      BY <1>4, <2>0, <3>1, Lighter
  <2>4. CASE i \in Api /\ (RelaySelect(i) \/ RelayCommit(i))
    <3>1. ToPublish(d)' => ToPublish(d)
      BY <2>4 DEF RelaySelect, RelayCommit, ToPublish
    <3>2. \A j \in Api \ {i} : relay'[j] = relay[j]
      BY <2>4 DEF RelaySelect, RelayCommit, TypeOK
    <3>3. (d \in relay[i].done => row'[d] = "published") /\ (d \notin relay[i].done => row'[d] = row[d])
      BY <1>0, <2>4 DEF RelaySelect, RelayCommit, RelaysApart
    <3>4. ToRelay(d)' => ToRelay(d)
      BY <2>4, <3>2, <3>3 DEF ToRelay
    <3> QED
      BY <1>4, <2>0, <2>4, <3>1, <3>4, Lighter DEF RelaySelect, RelayCommit
  <2>5. CASE i \in Api /\ RelayPublish(i)
    <3>1. ToPublish(d)' => ToPublish(d)
      BY <2>5 DEF RelayPublish, ToPublish
    <3>2. row' = row /\ relay[i].phase = "selected" /\ relay[i].done = {}
      BY <1>0, <2>5 DEF RelayPublish, RelaysApart
    <3>3. CASE i \in connected
      <4>1. relay' = [relay EXCEPT ![i].phase = "published", ![i].done = relay[i].rows]
        BY <2>5, <3>3 DEF RelayPublish, Strikes
      <4>2. relay'[i].done = relay[i].rows /\ \A j \in Api \ {i} : relay'[j] = relay[j]
        BY <2>5, <4>1 DEF TypeOK, Relays
      <4>3. ToRelay(d)' => ToRelay(d)
        BY <3>2, <4>2 DEF ToRelay
      <4>4. CASE d \in relay[i].rows
        <5>1. ToRelay(d) /\ ~ToRelay(d)'
          BY <1>0, <2>5, <3>2, <4>2, <4>4 DEF ToRelay, RelaysApart
        <5>2. PICK r \in Copy : Live(d)' = Live(d) \cup {r}
          BY <1>0, <2>5, <3>3, <4>4, RelayPublishLive
        <5> QED
          BY <2>0, <3>1, <4>3, <5>1, <5>2, OneSent
      <4>5. CASE d \notin relay[i].rows
        <5>1. Live(d)' = Live(d)
          BY <1>0, <2>5, <3>3, <4>5, RelayPublishLive
        <5> QED
          BY <2>0, <3>1, <4>3, <5>1, Lighter
      <4> QED
        BY <4>4, <4>5
    <3>4. CASE i \notin connected
      <4>1. relay' = [relay EXCEPT ![i].phase = "published"] /\ copy' = copy
        BY <2>5, <3>4 DEF RelayPublish
      <4>2. \A j \in Api : relay'[j].done = relay[j].done
        BY <4>1 DEF TypeOK, Relays
      <4>3. ToRelay(d)' => ToRelay(d)
        BY <3>2, <4>2 DEF ToRelay
      <4> QED
        BY <1>4, <2>0, <3>1, <4>1, <4>3, Lighter
    <3> QED
      BY <3>3, <3>4
  <2> QED
    BY <2>1, <2>2, <2>3, <2>4, <2>5 DEF OutboxStep, RelayStep
<1> QED
  BY <1>1, <1>2, <1>3, <1>5 DEF AtMostTwo

LEMMA CopiesAtMostTwo ==
    ASSUME TypeOK, Named, AtMostTwo, NEW c \in Copy, BrokerStep(c) \/ Deliver(c) \/ HandlerStep(c),
           "backpressure" \notin struck'
    PROVE  AtMostTwo'
<1>0. None \notin Event /\ RelaysApart /\ Emptied /\ NotBegun /\ \A d \in Event : Weighed(d)
  BY DEF AtMostTwo
<1>1. UNCHANGED outbox
  BY DEF BrokerStep, HandlerStep, Arrive, Unpark, Acked, DeadLettered, Deliver, CheckMark, PushOk,
         GiveUp, Retry, SetMark, Ack
<1>2. RelaysApart' /\ NotBegun'
  BY <1>0, <1>1 DEF outbox, RelaysApart, NotBegun
<1>3. ASSUME NEW d \in Event
      PROVE  (ToPublish(d)' => ToPublish(d)) /\ (ToRelay(d)' => ToRelay(d))
  BY <1>1 DEF outbox, ToPublish, ToRelay
<1>4. Emptied'
  <2>1. ASSUME NEW d \in Copy, copy'[d].at = "unused" PROVE copy'[d].ev = None
    <3>1. CASE d = c
      BY <2>1, <3>1, CopyMoves DEF Gone
    <3>2. CASE d # c
      BY <1>0, <2>1, <3>2, CopyMoves DEF Still, New, Emptied
    <3> QED
      BY <3>1, <3>2
  <2> QED
    BY <2>1 DEF Emptied
<1>5. ASSUME NEW e \in Event, ~Retry(c) PROVE Weighed(e)'
  <2>1. \A d \in Copy \ {c} : Still(d)
    BY <1>5, CopyMoves
  <2>2. ASSUME NEW d \in Live(e)' PROVE d \in Live(e)
    <3>1. d \in Copy /\ copy'[d].ev = e /\ copy'[d].at # "acking"
      BY <2>2 DEF Live
    <3>2. CASE d = c
      BY <1>0, <3>1, <3>2, CopyMoves DEF Gone, Live
    <3>3. CASE d # c
      BY <2>1, <3>1, <3>3 DEF Still, Live
    <3> QED
      BY <3>2, <3>3
  <2>3. Live(e)' \subseteq Live(e)
    BY <2>2
  <2> QED
    BY <1>0, <1>3, <2>3, Lighter
<1>6. ASSUME NEW e \in Event, Retry(c) PROVE Weighed(e)'
  <2>1. PICK r \in Unused :
           copy' = [[copy EXCEPT ![r] = Sent(copy[c].ev, copy[c].retry + 1, Worker)]
                         EXCEPT ![c].at = "acking", ![c].ahead = r]
    BY <1>6 DEF Retry, Strikes
  <2>2. /\ r \in Copy /\ r # c /\ copy[r].ev = None /\ copy[c].at = "send" /\ copy[c].ev \in Event
    BY <1>0, <1>6 DEF Unused, Retry, Named, Emptied
  <2> DEFINE sent == [copy EXCEPT ![r] = Sent(copy[c].ev, copy[c].retry + 1, Worker)]
  <2>3. /\ sent \in [Copy -> {sent[d] : d \in Copy}] /\ sent[c] = copy[c] /\ copy[c] \in Copies
        /\ sent[r].at = "wire" /\ sent[r].ev = copy[c].ev
        /\ \A d \in Copy \ {r} : sent[d] = copy[d]
    BY <2>2 DEF TypeOK, Sent
  <2>4. copy' = [sent EXCEPT ![c].at = "acking", ![c].ahead = r]
    BY <2>1
  <2> HIDE DEF sent
  <2>5. /\ \A d \in Copy \ {c} : copy'[d] = sent[d]
        /\ copy'[c].at = "acking"
    BY <2>3, <2>4 DEF Copies
  <2>6. CASE e = copy[c].ev
    <3>1. c \in Live(e) /\ Live(e)' = (Live(e) \ {c}) \cup {r}
      BY <1>0, <2>2, <2>3, <2>5, <2>6 DEF Live
    <3> QED
      BY <1>0, <1>3, <3>1, OneReplaced
  <2>7. CASE e # copy[c].ev
    <3>1. Live(e)' = Live(e)
      BY <1>0, <2>2, <2>3, <2>5, <2>7 DEF Live
    <3> QED
      BY <1>0, <1>3, <3>1, Lighter
  <2> QED
    BY <2>6, <2>7
<1> QED
  BY <1>2, <1>4, <1>5, <1>6 DEF AtMostTwo

LEMMA CalmStays ==
    ASSUME TypeOK, Named, CalmInv, [Next]_vars
    PROVE  CalmInv'
<1>1. ASSUME failures' = failures PROVE Calm' => AtMostTwo /\ "backpressure" \notin struck'
  BY <1>1, StruckGrows DEF CalmInv, Calm
<1>2. ASSUME NEW e, NEW i, OutboxStep(e, i) PROVE CalmInv'
  <2>1. failures' = failures
    BY <1>2 DEF OutboxStep, RelayStep, Commit, PublishNow, MarkPublished, Purge, RelaySelect,
                RelayPublish, RelayCommit
  <2> QED
    BY <1>1, <1>2, <2>1, OutboxAtMostTwo DEF CalmInv
<1>3. ASSUME NEW c \in Copy, BrokerStep(c) \/ Deliver(c) \/ HandlerStep(c) PROVE CalmInv'
  <2>1. failures' = failures
    BY <1>3 DEF BrokerStep, HandlerStep, Arrive, Unpark, Acked, DeadLettered, Deliver, CheckMark, PushOk,
                GiveUp, Retry, SetMark, Ack
  <2> QED
    BY <1>1, <1>3, <2>1, CopiesAtMostTwo DEF CalmInv
<1>4. CASE Failure
  BY <1>4, FailureEndsCalm DEF CalmInv
<1>5. CASE UNCHANGED <<outbox, copy, failures>>
  <2>1. AtMostTwo' <=> AtMostTwo
    BY <1>5 DEF outbox, AtMostTwo, RelaysApart, Emptied, NotBegun, Weighed, Weight, Live, ToPublish, ToRelay
  <2> QED
    BY <1>1, <1>5, <2>1 DEF CalmInv
<1>6. ASSUME NEW p \in Process, Open(p) PROVE UNCHANGED <<outbox, copy, failures>>
  BY <1>6 DEF Open
<1> QED
  BY <1>2, <1>3, <1>4, <1>5, <1>6 DEF Next, AllEnded, OutboxStep, vars, outbox

\* "Several API instances split the batch instead of double-publishing": until
\* a publish reports a full buffer, an event has at most two copies before
\* anything fails, for any number of API processes relaying at once.
THEOREM TwoCopiesBeforeFailure == Spec => []TwoCopiesAtMost
<1>1. Init => CalmInv
  <2> SUFFICES ASSUME Init PROVE AtMostTwo
    BY DEF CalmInv
  <2>1. RelaysApart /\ Emptied /\ NotBegun
    BY DEF Init, NoRelay, NoCopy, RelaysApart, Emptied, NotBegun
  <2>2. ASSUME NEW e \in Event PROVE Weighed(e)
    <3>1. Live(e) = {}
      BY DEF Init, NoCopy, Live
    <3>2. IsFiniteSet(Live(e)) /\ Cardinality(Live(e)) = 0
      BY <3>1, FS_EmptySet
    <3> QED
      BY <3>2 DEF Weighed, Weight, Share
  <2> QED
    BY <2>1, <2>2 DEF AtMostTwo
<1>2. CalmInv => TwoCopiesAtMost
  <2> SUFFICES ASSUME CalmInv, Calm, NEW e \in Event
               PROVE  Cardinality({c \in Copy : copy[c].ev = e /\ copy[c].at # "acking"}) <= 2
    BY DEF TwoCopiesAtMost, Calm
  <2>1. IsFiniteSet(Live(e)) /\ Weight(e) <= 2
    BY DEF CalmInv, AtMostTwo, Weighed
  <2>2. Cardinality(Live(e)) \in Nat /\ Share(ToPublish(e)) \in Nat /\ Share(ToRelay(e)) \in Nat
    BY <2>1, FS_CardinalityType DEF Share
  <2>3. Cardinality(Live(e)) <= 2
    BY <2>1, <2>2 DEF Weight
  <2> QED
    BY <2>3 DEF Live
<1>3. TypeOK /\ Named /\ CalmInv /\ [Next]_vars => CalmInv'
  BY CalmStays
<1> QED
  BY <1>1, <1>2, <1>3, PipelineTypes, PTL DEF Spec

\* Few duplicates, whatever fails: a relay and publishNow make at most two copies
\* of an event before a failure or a publish that reports a full buffer, and an
\* event is pushed at most once per delivery held and life of the worker until
\* Redis fails the dedupe mark.
THEOREM FewDuplicates == Spec => []DuplicatesFew
BY PipelineTypes, DuplicatesPerLife, TwoCopiesBeforeFailure, PTL DEF DuplicatesFew
=============================================================================
