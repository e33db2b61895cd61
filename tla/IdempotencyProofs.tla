------------------------- MODULE IdempotencyProofs -------------------------
(***************************************************************************)
(* Theorems about Idempotency for any attempts, keys and fingerprints, and *)
(* with every fault of FaultNames allowed.                                 *)
(***************************************************************************)
EXTENDS Idempotency, TLAPS

USE DEF InFlight, Reserved, ghosts

\* The absent row is a row, and nobody's.
LEMMA NoRowType == NoRow \in KeyRow /\ NoRow.id = Nobody /\ NoRow.status = "none"
BY DEF NoRow, KeyRow

\* Answering is well typed, ends the attempt, and touches no other attempt.
LEMMA FinishFacts ==
    ASSUME TypeOK, NEW a \in Attempt, NEW kind, NEW of, Finish(a, Answer(kind, of)),
           kind \in {"keyRequired", "mismatch", "inProgress", "replay", "ok", "error"},
           of \in Attempt \cup {Nobody}
    PROVE  /\ pc' \in [Attempt -> InFlight \cup {"idle", "ended", "dead"}]
           /\ reply' \in [Attempt -> Reply]
           /\ pc'[a] = "ended" /\ reply'[a].kind = kind /\ reply'[a].of = of
           /\ \A b \in Attempt \ {a} : pc'[b] = pc[b] /\ reply'[b] = reply[b]
<1>1. Answer(kind, of) \in Reply /\ Answer(kind, of).kind = kind /\ Answer(kind, of).of = of
  BY DEF Answer, Reply
<1> QED
  BY <1>1 DEF Finish, GoTo, TypeOK

\* Going on is well typed and touches no other attempt.
LEMMA GoToFacts ==
    ASSUME TypeOK, NEW a \in Attempt, NEW where \in InFlight \cup {"dead"}, GoTo(a, where)
    PROVE  /\ pc' \in [Attempt -> InFlight \cup {"idle", "ended", "dead"}]
           /\ pc'[a] = where
           /\ \A b \in Attempt \ {a} : pc'[b] = pc[b]
BY DEF GoTo, TypeOK

\* The table starts empty and nobody is in flight.
LEMMA InitInv == Init => IdempotencyInv
<1> SUFFICES ASSUME Init PROVE IdempotencyInv
  OBVIOUS
<1>1. TypeOK
  BY DEF Init, TypeOK, NoRow, KeyRow, NoReply, Reply
<1>2. RowsOK
  BY DEF Init, RowsOK
<1>3. AttemptsOK
  BY DEF Init, AttemptsOK, NoReply
<1>4. ReplayIsOfTheSameRequest
  BY DEF Init, ReplayIsOfTheSameRequest, NoReply
<1> QED
  BY <1>1, <1>2, <1>3, <1>4 DEF IdempotencyInv

-----------------------------------------------------------------------------
(***************************************************************************)
(* Reserving.                                                              *)
(***************************************************************************)
\* A request comes in: nobody else is touched, and its key is known.
LEMMA SendInv ==
    ASSUME IdempotencyInv, NEW a \in Attempt, NEW k \in Key \cup {NoKey}, NEW f \in Fingerprint,
           Send(a, k, f)
    PROVE  IdempotencyInv'
<1>0. TypeOK /\ RowsOK /\ AttemptsOK /\ ReplayIsOfTheSameRequest
  BY DEF IdempotencyInv
<1>1. /\ pc' \in [Attempt -> InFlight \cup {"idle", "ended", "dead"}]
      /\ reply' \in [Attempt -> Reply]
      /\ \A b \in Attempt \ {a} : pc'[b] = pc[b] /\ reply'[b] = reply[b]
      /\ \/ pc'[a] = "insert" /\ k \in Key /\ reply' = reply
         \/ pc'[a] = "bare" /\ reply' = reply
         \/ pc'[a] = "ended" /\ reply'[a].kind = "keyRequired"
  <2>1. CASE GoTo(a, "insert") /\ k \in Key /\ UNCHANGED reply
    BY <1>0, <2>1, GoToFacts DEF TypeOK
  <2>2. CASE GoTo(a, "bare") /\ UNCHANGED reply
    BY <1>0, <2>2, GoToFacts DEF TypeOK
  <2>3. CASE Finish(a, Answer("keyRequired", Nobody))
    BY <1>0, <2>3, FinishFacts
  <2> QED
    BY <2>1, <2>2, <2>3 DEF Send
<1>2. /\ pc[a] = "idle" /\ row' = row /\ target' = target /\ moved' = moved /\ UNCHANGED ghosts
      /\ req' = [req EXCEPT ![a] = [key |-> k, fp |-> f]]
  BY DEF Send
<1>3. /\ req' \in [Attempt -> [key: Key \cup {NoKey}, fp: Fingerprint \cup {Nobody}]]
      /\ req'[a].key = k
      /\ \A b \in Attempt \ {a} : req'[b] = req[b]
  BY <1>0, <1>2 DEF TypeOK
<1>4. TypeOK'
  BY <1>0, <1>1, <1>2, <1>3 DEF TypeOK
<1>5. RowsOK'
  BY <1>0, <1>1, <1>2, <1>3 DEF RowsOK
<1>6. AttemptsOK'
  BY <1>0, <1>1, <1>2, <1>3 DEF AttemptsOK, RowOf
<1>7. ReplayIsOfTheSameRequest'
  BY <1>0, <1>1, <1>2, <1>3 DEF AttemptsOK, ReplayIsOfTheSameRequest
<1> QED
  BY <1>4, <1>5, <1>6, <1>7 DEF IdempotencyInv

\* The INSERT, its conflict, and the lookups that lead back to it.
LEMMA ReserveInv ==
    ASSUME IdempotencyInv, NEW a \in Attempt,
           ReserveNew(a) \/ ReserveTaken(a) \/ LookupVanished(a) \/ LookupExpired(a)
    PROVE  IdempotencyInv'
<1>0. TypeOK /\ RowsOK /\ AttemptsOK /\ ReplayIsOfTheSameRequest
  BY DEF IdempotencyInv
<1>1. CASE ReserveNew(a)
  <2>0. req[a].key \in Key /\ pc[a] = "insert" /\ row[req[a].key] = NoRow
    BY <1>0, <1>1 DEF ReserveNew, AttemptsOK, RowOf
  <2>1. TypeOK'
    BY <1>0, <1>1, <2>0 DEF ReserveNew, GoTo, TypeOK, KeyRow
  <2>2. RowsOK'
    BY <1>0, <1>1, <2>0 DEF ReserveNew, GoTo, TypeOK, RowsOK, NoRow
  <2>3. AttemptsOK'
    BY <1>0, <1>1, <2>0, IdempotencyAssumption DEF ReserveNew, GoTo, TypeOK, AttemptsOK, RowOf, NoRow
  <2>4. ReplayIsOfTheSameRequest'
    BY <1>0, <1>1 DEF ReserveNew, ReplayIsOfTheSameRequest
  <2> QED
    BY <2>1, <2>2, <2>3, <2>4 DEF IdempotencyInv
<1>2. CASE ReserveTaken(a) \/ LookupVanished(a)
  <2>1. TypeOK'
    BY <1>0, <1>2 DEF ReserveTaken, LookupVanished, GoTo, TypeOK
  <2>2. RowsOK'
    BY <1>0, <1>2 DEF ReserveTaken, LookupVanished, GoTo, TypeOK, RowsOK
  <2>3. AttemptsOK'
    BY <1>0, <1>2 DEF ReserveTaken, LookupVanished, GoTo, TypeOK, AttemptsOK, RowOf
  <2>4. ReplayIsOfTheSameRequest'
    BY <1>0, <1>2 DEF ReserveTaken, LookupVanished, ReplayIsOfTheSameRequest
  <2> QED
    BY <2>1, <2>2, <2>3, <2>4 DEF IdempotencyInv
<1>3. CASE LookupExpired(a)
  <2>0. /\ req[a].key \in Key /\ row[req[a].key] # NoRow
        /\ row[req[a].key].id \in Attempt /\ pc[row[req[a].key].id] \in {"ended", "dead"}
    BY <1>0, <1>3 DEF LookupExpired, AttemptsOK, RowsOK, RowOf
  <2>1. TypeOK'
    BY <1>0, <1>3, <2>0 DEF LookupExpired, GoTo, TypeOK, RowOf
  <2>2. RowsOK'
    BY <1>0, <1>3 DEF LookupExpired, GoTo, TypeOK, RowsOK
  <2>3. AttemptsOK'
    BY <1>0, <1>3, <2>0 DEF LookupExpired, GoTo, TypeOK, AttemptsOK, RowOf
  <2>4. ReplayIsOfTheSameRequest'
    BY <1>0, <1>3 DEF LookupExpired, ReplayIsOfTheSameRequest
  <2> QED
    BY <2>1, <2>2, <2>3, <2>4 DEF IdempotencyInv
<1> QED
  BY <1>1, <1>2, <1>3

\* A row goes away: its owner is past it, or is the one removing it.
LEMMA RemoveInv ==
    ASSUME IdempotencyInv, NEW a \in Attempt, NEW k \in Key,
           row' = [row EXCEPT ![k] = NoRow], req' = req, moved' = moved, target' = target,
           UNCHANGED ghosts,
           \A b \in Attempt : pc[b] \in Reserved /\ req[b].key = k => b = a,
           \/ GoTo(a, "insert") /\ reply' = reply /\ req[a].key \in Key /\ pc[a] = "delete"
           \/ Finish(a, Answer("error", Nobody)) /\ pc[a] = "release"
    PROVE  IdempotencyInv'
<1>0. TypeOK /\ RowsOK /\ AttemptsOK /\ ReplayIsOfTheSameRequest
  BY DEF IdempotencyInv
<1>1. /\ pc' \in [Attempt -> InFlight \cup {"idle", "ended", "dead"}]
      /\ reply' \in [Attempt -> Reply]
      /\ \A b \in Attempt \ {a} : pc'[b] = pc[b] /\ reply'[b] = reply[b]
      /\ \/ pc'[a] = "insert" /\ reply' = reply /\ req[a].key \in Key /\ pc[a] = "delete"
         \/ pc'[a] = "ended" /\ reply'[a].kind = "error" /\ pc[a] = "release"
  <2>1. CASE GoTo(a, "insert") /\ reply' = reply /\ req[a].key \in Key /\ pc[a] = "delete"
    BY <1>0, <2>1, GoToFacts DEF TypeOK
  <2>2. CASE Finish(a, Answer("error", Nobody)) /\ pc[a] = "release"
    BY <1>0, <2>2, FinishFacts
  <2> QED
    BY <2>1, <2>2
<1>2. /\ row' \in [Key -> KeyRow] /\ row'[k] = NoRow
      /\ \A x \in Key \ {k} : row'[x] = row[x]
  BY <1>0, NoRowType DEF TypeOK
<1>3. TypeOK'
  BY <1>0, <1>1, <1>2 DEF TypeOK
<1>4. RowsOK'
  BY <1>0, <1>1, <1>2 DEF RowsOK
<1>5. AttemptsOK'
  BY <1>0, <1>1, <1>2, NoRowType, IdempotencyAssumption DEF AttemptsOK, RowOf
<1>6. ReplayIsOfTheSameRequest'
  BY <1>0, <1>1 DEF ReplayIsOfTheSameRequest
<1> QED
  BY <1>3, <1>4, <1>5, <1>6 DEF IdempotencyInv

\* An attempt ends with an error and changes nothing else.
LEMMA ErrorInv ==
    ASSUME IdempotencyInv, NEW a \in Attempt, UNCHANGED <<row, req, target, moved>>,
           lapsed' \subseteq Key, stuck' \subseteq Attempt,
           Finish(a, Answer("error", Nobody)), pc[a] # "idle"
    PROVE  IdempotencyInv'
<1>0. TypeOK /\ RowsOK /\ AttemptsOK /\ ReplayIsOfTheSameRequest
  BY DEF IdempotencyInv
<1>1. /\ pc' \in [Attempt -> InFlight \cup {"idle", "ended", "dead"}]
      /\ reply' \in [Attempt -> Reply]
      /\ pc'[a] = "ended" /\ reply'[a].kind = "error"
      /\ \A b \in Attempt \ {a} : pc'[b] = pc[b] /\ reply'[b] = reply[b]
  BY <1>0, FinishFacts
<1>2. TypeOK'
  BY <1>0, <1>1 DEF TypeOK
<1>3. RowsOK'
  BY <1>0, <1>1 DEF RowsOK
<1>4. AttemptsOK'
  BY <1>0, <1>1 DEF AttemptsOK, RowOf
<1>5. ReplayIsOfTheSameRequest'
  BY <1>0, <1>1 DEF ReplayIsOfTheSameRequest
<1> QED
  BY <1>2, <1>3, <1>4, <1>5 DEF IdempotencyInv

\* An expired row is deleted once; its owner is long gone.
LEMMA DeleteExpiredInv ==
    ASSUME IdempotencyInv, NEW a \in Attempt, DeleteExpired(a)
    PROVE  IdempotencyInv'
<1>0. TypeOK /\ RowsOK /\ AttemptsOK
  BY DEF IdempotencyInv
<1>1. /\ req[a].key \in Key /\ pc[a] = "delete" /\ req' = req /\ target' = target /\ moved' = moved
      /\ UNCHANGED ghosts /\ lapsed' \subseteq Key /\ stuck' \subseteq Attempt
      /\ target[a] \in Attempt /\ pc[target[a]] \in {"ended", "dead"}
  BY <1>0 DEF DeleteExpired, AttemptsOK, TypeOK
<1>2. CASE RowOf(a).id = target[a] /\ row' = [row EXCEPT ![req[a].key] = NoRow]
           /\ GoTo(a, "insert") /\ UNCHANGED reply
  <2>1. \A b \in Attempt : pc[b] \in Reserved => req[b].key # req[a].key
    BY <1>0, <1>1, <1>2 DEF AttemptsOK, RowOf
  <2>2. PICK k \in Key : k = req[a].key
    BY <1>1
  <2>3. row' = [row EXCEPT ![k] = NoRow]
    BY <1>2, <2>2
  <2> QED
    <3>1. \A b \in Attempt : pc[b] \in Reserved /\ req[b].key = k => b = a
      BY <2>1, <2>2
    <3>2. GoTo(a, "insert") /\ reply' = reply /\ req[a].key \in Key /\ pc[a] = "delete"
      BY <1>1, <1>2
    <3> QED
      BY <1>1, <2>3, <3>1, <3>2, RemoveInv
<1>3. CASE Finish(a, Answer("error", Nobody)) /\ UNCHANGED row
  <2>1. UNCHANGED <<row, req, target, moved>> /\ pc[a] # "idle"
    BY <1>1, <1>3
  <2> QED
    BY <1>1, <1>3, <2>1, ErrorInv
<1> QED
  BY <1>2, <1>3 DEF DeleteExpired

\* A replay hands out the response of the attempt that owns the row.
LEMMA LookupLiveInv ==
    ASSUME IdempotencyInv, NEW a \in Attempt, LookupLive(a)
    PROVE  IdempotencyInv'
<1> DEFINE r == RowOf(a)
<1>0. TypeOK /\ RowsOK /\ AttemptsOK /\ ReplayIsOfTheSameRequest
  BY DEF IdempotencyInv
<1>1. /\ pc[a] = "lookup" /\ req[a].key \in Key /\ r # NoRow
      /\ row' = row /\ req' = req /\ target' = target /\ moved' = moved
      /\ UNCHANGED ghosts
  BY <1>0 DEF LookupLive, AttemptsOK
<1>2. /\ r.id \in Attempt /\ r.id # a
      /\ req[r.id] = [key |-> req[a].key, fp |-> r.fp]
      /\ r.status = "completed" => r.id \in moved
  BY <1>0, <1>1 DEF RowsOK, RowOf
<1>3. req[a] = [key |-> req[a].key, fp |-> req[a].fp]
  BY <1>0 DEF TypeOK
<1>4. /\ pc' \in [Attempt -> InFlight \cup {"idle", "ended", "dead"}]
      /\ reply' \in [Attempt -> Reply]
      /\ pc'[a] = "ended"
      /\ \A b \in Attempt \ {a} : pc'[b] = pc[b] /\ reply'[b] = reply[b]
      /\ \/ reply'[a].kind # "replay"
         \/ reply'[a].of = r.id /\ r.id \in moved /\ req[r.id] = req[a]
  <2>1. CASE Finish(a, Answer("mismatch", Nobody)) \/ Finish(a, Answer("inProgress", Nobody))
    BY <1>0, <2>1, FinishFacts
  <2>2. CASE r.fp = req[a].fp /\ r.status = "completed" /\ Finish(a, Answer("replay", r.id))
    BY <1>0, <1>2, <1>3, <2>2, FinishFacts
  <2> QED
    BY <2>1, <2>2 DEF LookupLive
<1> HIDE DEF r
<1>5. TypeOK'
  BY <1>0, <1>1, <1>4 DEF TypeOK
<1>6. RowsOK'
  BY <1>0, <1>1, <1>4 DEF RowsOK
<1>7. AttemptsOK'
  BY <1>0, <1>1, <1>2, <1>4 DEF AttemptsOK, RowOf
<1>8. ReplayIsOfTheSameRequest'
  BY <1>0, <1>1, <1>4 DEF ReplayIsOfTheSameRequest
<1> QED
  BY <1>5, <1>6, <1>7, <1>8 DEF IdempotencyInv

-----------------------------------------------------------------------------
(***************************************************************************)
(* Running the handler and settling the row.                               *)
(***************************************************************************)
\* Whatever the handler does, the reservation is still held.
LEMMA HandleInv ==
    ASSUME IdempotencyInv, NEW a \in Attempt, Handle(a)
    PROVE  IdempotencyInv'
<1>0. TypeOK /\ RowsOK /\ AttemptsOK /\ ReplayIsOfTheSameRequest
  BY DEF IdempotencyInv
<1>1. /\ pc[a] = "run" /\ row' = row /\ req' = req /\ target' = target /\ reply' = reply
      /\ moved \subseteq moved' /\ moved' \subseteq moved \cup {a}
      /\ pc' \in [Attempt -> InFlight \cup {"idle", "ended", "dead"}]
      /\ \A b \in Attempt \ {a} : pc'[b] = pc[b]
      /\ pc'[a] \in {"complete", "release"}
      /\ pc'[a] = "complete" => a \in moved'
  BY <1>0 DEF Handle, GoTo, TypeOK
<1>g. lapsed' \subseteq Key /\ stuck' \subseteq Attempt
  BY <1>0 DEF Handle, AttemptsOK, TypeOK
<1>2. TypeOK'
  BY <1>0, <1>1, <1>g DEF TypeOK
<1>3. RowsOK'
  BY <1>0, <1>1 DEF RowsOK
<1>4. AttemptsOK'
  BY <1>0, <1>1 DEF AttemptsOK, RowOf
<1>5. ReplayIsOfTheSameRequest'
  BY <1>0, <1>1 DEF ReplayIsOfTheSameRequest
<1> QED
  BY <1>2, <1>3, <1>4, <1>5 DEF IdempotencyInv

\* Completing marks the attempt's own row, and the attempt has moved money.
LEMMA CompleteInv ==
    ASSUME IdempotencyInv, NEW a \in Attempt, Complete(a)
    PROVE  IdempotencyInv'
<1>0. TypeOK /\ RowsOK /\ AttemptsOK /\ ReplayIsOfTheSameRequest
  BY DEF IdempotencyInv
<1>1. /\ req[a].key \in Key /\ pc[a] = "complete" /\ a \in moved
      /\ req' = req /\ target' = target /\ moved' = moved
  BY <1>0 DEF Complete, AttemptsOK
<1>g. lapsed' \subseteq Key /\ stuck' \subseteq Attempt
  BY <1>0, <1>1 DEF Complete, TypeOK
<1>2. PICK k \in Key : k = req[a].key
  BY <1>1
<1>3. CASE /\ row[k].id = a /\ row' = [row EXCEPT ![k].status = "completed"]
           /\ Finish(a, Answer("ok", a))
  <2>1. /\ pc' \in [Attempt -> InFlight \cup {"idle", "ended", "dead"}]
        /\ reply' \in [Attempt -> Reply]
        /\ pc'[a] = "ended" /\ reply'[a].kind = "ok"
        /\ \A b \in Attempt \ {a} : pc'[b] = pc[b] /\ reply'[b] = reply[b]
    BY <1>0, <1>3, FinishFacts
  <2>2. /\ row' \in [Key -> KeyRow]
        /\ row'[k].id = a /\ row'[k].fp = row[k].fp /\ row'[k].age = row[k].age
        /\ \A x \in Key \ {k} : row'[x] = row[x]
    BY <1>0, <1>3 DEF TypeOK, KeyRow
  <2>3. row[k] # NoRow
    BY <1>3, NoRowType, IdempotencyAssumption
  <2>4. TypeOK'
    BY <1>0, <1>1, <1>g, <2>1, <2>2 DEF TypeOK
  <2>5. RowsOK'
    <3> SUFFICES ASSUME NEW x \in Key, row'[x] # NoRow
                 PROVE  /\ row'[x].id \in Attempt
                        /\ req'[row'[x].id] = [key |-> x, fp |-> row'[x].fp]
                        /\ pc'[row'[x].id] \in Reserved \cup {"ended", "dead"}
                        /\ row'[x].status = "completed" =>
                               row'[x].id \in moved' /\ pc'[row'[x].id] = "ended"
                        /\ row'[x].age = "expired" => pc'[row'[x].id] \notin Reserved
      BY DEF RowsOK
    <3>1. CASE x = k
      BY <1>0, <1>1, <1>2, <1>3, <2>1, <2>2, <2>3, <3>1 DEF RowsOK
    <3>2. CASE x # k
      BY <1>0, <1>1, <1>2, <2>1, <2>2, <3>2 DEF RowsOK
    <3> QED
      BY <3>1, <3>2
  <2>6. AttemptsOK'
    BY <1>0, <1>1, <1>2, <1>3, <2>1, <2>2 DEF AttemptsOK, RowOf
  <2>7. ReplayIsOfTheSameRequest'
    BY <1>0, <1>1, <2>1 DEF ReplayIsOfTheSameRequest
  <2> QED
    BY <2>4, <2>5, <2>6, <2>7 DEF IdempotencyInv
<1>4. CASE GoTo(a, "release") /\ row' = row /\ reply' = reply
  <2>1. /\ pc' \in [Attempt -> InFlight \cup {"idle", "ended", "dead"}]
        /\ pc'[a] = "release"
        /\ \A b \in Attempt \ {a} : pc'[b] = pc[b]
    BY <1>0, <1>4, GoToFacts
  <2>2. TypeOK'
    BY <1>0, <1>1, <1>4, <1>g, <2>1 DEF TypeOK
  <2>3. RowsOK'
    BY <1>0, <1>1, <1>4, <2>1 DEF RowsOK
  <2>4. AttemptsOK'
    BY <1>0, <1>1, <1>4, <2>1 DEF AttemptsOK, RowOf
  <2>5. ReplayIsOfTheSameRequest'
    BY <1>0, <1>1, <1>4 DEF ReplayIsOfTheSameRequest
  <2> QED
    BY <2>2, <2>3, <2>4, <2>5 DEF IdempotencyInv
<1> QED
  BY <1>2, <1>3, <1>4 DEF Complete, RowOf

\* Releasing deletes the attempt's own row, and no one else is reserved on it.
LEMMA ReleaseInv ==
    ASSUME IdempotencyInv, NEW a \in Attempt, Release(a)
    PROVE  IdempotencyInv'
<1>0. TypeOK /\ RowsOK /\ AttemptsOK
  BY DEF IdempotencyInv
<1>1. /\ req[a].key \in Key /\ pc[a] = "release" /\ row[req[a].key].id = a
      /\ req' = req /\ target' = target /\ moved' = moved
      /\ Finish(a, Answer("error", Nobody))
  BY <1>0 DEF Release, AttemptsOK, RowOf
<1>2. CASE row' = row /\ stuck' = stuck \cup {a}
  <2>1. lapsed' \subseteq Key /\ stuck' \subseteq Attempt
    BY <1>0, <1>2 DEF Release, TypeOK
  <2> QED
    BY <1>1, <1>2, <2>1, ErrorInv
<1>3. CASE row' = [row EXCEPT ![req[a].key] = NoRow] /\ UNCHANGED ghosts
  <2>1. PICK k \in Key : k = req[a].key
    BY <1>1
  <2>2. \A b \in Attempt : pc[b] \in Reserved /\ req[b].key = k => b = a
    BY <1>0, <1>1, <2>1 DEF AttemptsOK, RowOf
  <2>3. row' = [row EXCEPT ![k] = NoRow]
    BY <1>3, <2>1
  <2> QED
    BY <1>1, <1>3, <2>2, <2>3, RemoveInv
<1> QED
  BY <1>1, <1>2, <1>3 DEF Release, RowOf

\* The unprotected route, a crash and the clock leave reservations alone.
LEMMA OtherInv ==
    ASSUME IdempotencyInv, NEW a \in Attempt, HandleBare(a) \/ Crash(a)
    PROVE  IdempotencyInv'
<1>0. TypeOK /\ RowsOK /\ AttemptsOK /\ ReplayIsOfTheSameRequest
  BY DEF IdempotencyInv
<1>1. /\ row' = row /\ req' = req /\ target' = target /\ UNCHANGED ghosts
      /\ moved \subseteq moved' /\ moved' \subseteq moved \cup {a}
      /\ pc[a] \in InFlight
      /\ pc' \in [Attempt -> InFlight \cup {"idle", "ended", "dead"}]
      /\ reply' \in [Attempt -> Reply]
      /\ \A b \in Attempt \ {a} : pc'[b] = pc[b] /\ reply'[b] = reply[b]
      /\ \/ pc'[a] = "dead" /\ reply' = reply
         \/ pc'[a] = "ended" /\ reply'[a].kind \in {"ok", "error"}
  <2>1. CASE Crash(a)
    BY <1>0, <2>1, GoToFacts DEF Crash, TypeOK
  <2>2. CASE HandleBare(a)
    <3>1. CASE Finish(a, Answer("ok", a))
      BY <1>0, <2>2, <3>1, FinishFacts DEF HandleBare
    <3>2. CASE Finish(a, Answer("error", Nobody))
      BY <1>0, <2>2, <3>2, FinishFacts DEF HandleBare
    <3> QED
      BY <2>2, <3>1, <3>2 DEF HandleBare
  <2> QED
    BY <2>1, <2>2
<1>2. TypeOK'
  BY <1>0, <1>1 DEF TypeOK
<1>3. RowsOK'
  BY <1>0, <1>1 DEF RowsOK
<1>4. AttemptsOK'
  BY <1>0, <1>1 DEF AttemptsOK, RowOf
<1>5. ReplayIsOfTheSameRequest'
  BY <1>0, <1>1 DEF ReplayIsOfTheSameRequest
<1> QED
  BY <1>2, <1>3, <1>4, <1>5 DEF IdempotencyInv

\* Only the row of an attempt that has ended expires.
LEMMA ExpireInv ==
    ASSUME IdempotencyInv, NEW k \in Key, Expire(k)
    PROVE  IdempotencyInv'
<1>0. TypeOK /\ RowsOK /\ AttemptsOK /\ ReplayIsOfTheSameRequest
  BY DEF IdempotencyInv
<1>1. /\ row[k] # NoRow /\ pc[row[k].id] \in {"ended", "dead"}
      /\ pc' = pc /\ req' = req /\ target' = target /\ moved' = moved /\ reply' = reply
  BY DEF Expire
<1>2. /\ row' \in [Key -> KeyRow]
      /\ row'[k].id = row[k].id /\ row'[k].fp = row[k].fp /\ row'[k].status = row[k].status
      /\ row'[k].age = "expired"
      /\ \A x \in Key \ {k} : row'[x] = row[x]
  BY <1>0 DEF Expire, TypeOK, KeyRow
<1>g. lapsed' \subseteq Key /\ stuck' \subseteq Attempt
  BY <1>0 DEF Expire, TypeOK
<1>3. TypeOK'
  BY <1>0, <1>1, <1>2, <1>g DEF TypeOK
<1>4. RowsOK'
  BY <1>0, <1>1, <1>2 DEF RowsOK
<1>5. AttemptsOK'
  BY <1>0, <1>1, <1>2 DEF AttemptsOK, RowOf
<1>6. ReplayIsOfTheSameRequest'
  BY <1>0, <1>1 DEF ReplayIsOfTheSameRequest
<1> QED
  BY <1>3, <1>4, <1>5, <1>6 DEF IdempotencyInv

-----------------------------------------------------------------------------
\* The invariant behind both safety theorems holds in every reachable state.
THEOREM IdempotencyInvariant == Spec => []IdempotencyInv
<1>1. IdempotencyInv /\ [Next]_vars => IdempotencyInv'
  <2> SUFFICES ASSUME IdempotencyInv, [Next]_vars PROVE IdempotencyInv'
    OBVIOUS
  <2>1. ASSUME NEW a \in Attempt, Step(a) \/ Crash(a) PROVE IdempotencyInv'
    BY <2>1, ReserveInv, DeleteExpiredInv, LookupLiveInv, HandleInv, CompleteInv, ReleaseInv,
       OtherInv DEF Step
  <2>2. CASE UNCHANGED vars
    BY <2>2 DEF vars, IdempotencyInv, TypeOK, RowsOK, AttemptsOK, RowOf, ReplayIsOfTheSameRequest
  <2> QED
    BY <2>1, <2>2, SendInv, ExpireInv DEF Next, AllEnded
<1> QED
  BY InitInv, <1>1, PTL DEF Spec

\* At most one attempt per key is past its reservation, whatever fails.
THEOREM OneHandler == Spec => []OneHandlerPerKey
<1>1. IdempotencyInv => OneHandlerPerKey
  BY DEF IdempotencyInv, AttemptsOK, OneHandlerPerKey, RowOf
<1> QED
  BY IdempotencyInvariant, <1>1, PTL

\* A replay is the response of the same request, which did move the money.
THEOREM HonestReplay == Spec => []ReplayIsOfTheSameRequest
<1>1. IdempotencyInv => ReplayIsOfTheSameRequest
  BY DEF IdempotencyInv
<1> QED
  BY IdempotencyInvariant, <1>1, PTL

\* A stored response is neither replaced nor dropped before it expires.
THEOREM ResponseStays == Spec => StoredResponseStays
<1> DEFINE Kept(k) == row[k].status = "completed" /\ row[k].age = "live" =>
                          row'[k].id = row[k].id /\ row'[k].status = "completed"
<1>1. IdempotencyInv /\ [Next]_vars => [\A k \in Key : Kept(k)]_vars
  <2> SUFFICES ASSUME IdempotencyInv, [Next]_vars, NEW k \in Key PROVE Kept(k)
    OBVIOUS
  <2>0. TypeOK /\ RowsOK /\ AttemptsOK
    BY DEF IdempotencyInv
  <2>1. ASSUME NEW a \in Attempt, ReserveNew(a) PROVE Kept(k)
    BY <2>0, <2>1, NoRowType DEF ReserveNew, RowOf, TypeOK
  <2>2. ASSUME NEW a \in Attempt, DeleteExpired(a) PROVE Kept(k)
    BY <2>0, <2>2 DEF DeleteExpired, AttemptsOK, RowOf, TypeOK
  <2>3. ASSUME NEW a \in Attempt, Complete(a) PROVE Kept(k)
    BY <2>0, <2>3 DEF Complete, RowOf, TypeOK, KeyRow
  <2>4. ASSUME NEW a \in Attempt, Release(a) PROVE Kept(k)
    <3>1. row[req[a].key].status # "completed"
      <4>1. pc[a] = "release" /\ pc[a] \in InFlight \ {"bare"} /\ pc[a] \in Reserved
        BY <2>4 DEF Release, InFlight, Reserved
      <4>2. PICK x \in Key : x = req[a].key /\ row[x].id = a
        BY <2>0, <4>1 DEF AttemptsOK, RowOf
      <4>3. CASE row[x] = NoRow
        BY <4>2, <4>3, NoRowType
      <4>4. CASE row[x] # NoRow
        <5>1. row[x].status = "completed" => pc[row[x].id] = "ended"
          BY <2>0, <4>4 DEF RowsOK
        <5> QED
          BY <4>1, <4>2, <5>1
      <4> QED
        BY <4>3, <4>4
    <3> QED
      BY <2>0, <2>4, <3>1 DEF Release, RowOf, TypeOK
  <2>5. ASSUME NEW x \in Key, Expire(x) PROVE Kept(k)
    BY <2>0, <2>5 DEF Expire, TypeOK, KeyRow
  <2>6. CASE UNCHANGED row
    BY <2>6
  <2> QED
    BY <2>1, <2>2, <2>3, <2>4, <2>5, <2>6
    DEF Next, Step, AllEnded, vars, Send, ReserveTaken, LookupVanished, LookupExpired,
        LookupLive, Handle, HandleBare, Crash
<1> QED
  BY IdempotencyInvariant, <1>1, PTL DEF Spec, StoredResponseStays

-----------------------------------------------------------------------------
\* A step keeps the charges of every key that has not lapsed tied to its row.
LEMMA ChargeStep ==
    ASSUME IdempotencyInv, ChargeInv, [Next]_vars
    PROVE  ChargeInv'
<1> DEFINE Tied(k, a) ==
        req[a].key = k =>
            /\ pc[a] # "delete"
            /\ pc[a] \in {"insert", "lookup", "run", "release"} => a \notin moved
            /\ a \in moved => row[k].id = a
<1> DEFINE Charged(k) == row[k].age = "live" /\ \A a \in Attempt : Tied(k, a)
<1> DEFINE Bare(a) == pc[a] = "bare" => req[a].key = NoKey
<1>0. TypeOK /\ RowsOK /\ AttemptsOK /\ NoKey \notin Key /\ Nobody \notin Attempt
  BY IdempotencyAssumption DEF IdempotencyInv
<1>c. /\ \A a \in Attempt : Bare(a)
      /\ \A k \in Key \ lapsed : row[k].age = "live"
      /\ \A k \in Key \ lapsed, a \in Attempt : Tied(k, a)
  BY DEF ChargeInv
<1>1. ASSUME NEW a \in Attempt, NEW x \in Key \cup {NoKey}, NEW f \in Fingerprint, Send(a, x, f)
      PROVE  ChargeInv'
  <2>1. a \notin moved /\ row' = row /\ moved' = moved /\ lapsed' = lapsed
    BY <1>0, <1>1 DEF Send, AttemptsOK
  <2>2. req'[a].key = x /\ \A b \in Attempt \ {a} : req'[b] = req[b]
    BY <1>0, <1>1 DEF Send, TypeOK
  <2>3. /\ \A b \in Attempt \ {a} : pc'[b] = pc[b]
        /\ pc'[a] \in {"insert", "bare", "ended"} /\ (pc'[a] = "bare" => x = NoKey)
    BY <1>0, <1>1 DEF Send, GoTo, Finish, TypeOK
  <2> QED
    BY <1>c, <2>1, <2>2, <2>3 DEF ChargeInv
<1>2. ASSUME NEW a \in Attempt, ReserveNew(a) PROVE ChargeInv'
  <2>1. PICK x \in Key : x = req[a].key
    BY <1>0, <1>2 DEF ReserveNew, AttemptsOK
  <2>2. /\ row[x].id = Nobody /\ row'[x].id = a /\ row'[x].age = "live"
        /\ \A k \in Key \ {x} : row'[k] = row[k]
        /\ req' = req /\ moved' = moved /\ lapsed' = lapsed
    BY <1>0, <1>2, <2>1, NoRowType DEF ReserveNew, RowOf, TypeOK
  <2>3. pc[a] = "insert" /\ pc'[a] = "run" /\ \A b \in Attempt \ {a} : pc'[b] = pc[b]
    BY <1>0, <1>2 DEF ReserveNew, GoTo, TypeOK
  <2>4. ASSUME NEW k \in Key \ lapsed', NEW b \in Attempt PROVE Tied(k, b)'
    <3>1. k \in Key \ lapsed /\ Tied(k, b) /\ Tied(k, a)
      BY <1>c, <2>2
    <3>2. CASE k = x
      BY <1>0, <2>1, <2>2, <2>3, <3>1, <3>2
    <3>3. CASE k # x
      BY <2>1, <2>2, <2>3, <3>1, <3>3
    <3> QED
      BY <3>2, <3>3
  <2> QED
    BY <1>c, <2>2, <2>3, <2>4 DEF ChargeInv
<1>3. ASSUME NEW a \in Attempt, ReserveTaken(a) \/ LookupVanished(a) PROVE ChargeInv'
  <2>1. /\ pc[a] \in {"insert", "lookup"} /\ pc'[a] \in {"insert", "lookup"}
        /\ \A b \in Attempt \ {a} : pc'[b] = pc[b]
        /\ row' = row /\ req' = req /\ moved' = moved /\ lapsed' = lapsed
    BY <1>0, <1>3 DEF ReserveTaken, LookupVanished, GoTo, TypeOK
  <2> QED
    BY <1>c, <2>1 DEF ChargeInv
<1>4. ASSUME NEW a \in Attempt, LookupExpired(a) PROVE ChargeInv'
  <2>1. /\ pc'[a] = "delete" /\ req[a].key \in lapsed
        /\ \A b \in Attempt \ {a} : pc'[b] = pc[b]
        /\ row' = row /\ req' = req /\ moved' = moved /\ lapsed' = lapsed
    BY <1>0, <1>4, <1>c DEF LookupExpired, AttemptsOK, RowOf, GoTo, TypeOK
  <2> QED
    BY <1>c, <2>1 DEF ChargeInv
<1>5. ASSUME NEW a \in Attempt, DeleteExpired(a) PROVE ChargeInv'
  <2>1. /\ pc[a] = "delete" /\ req[a].key \in lapsed
        /\ req' = req /\ moved' = moved /\ lapsed' = lapsed
    BY <1>0, <1>5, <1>c DEF DeleteExpired, AttemptsOK
  <2>2. /\ pc'[a] \in {"insert", "ended"}
        /\ \A b \in Attempt \ {a} : pc'[b] = pc[b]
        /\ \A k \in Key \ lapsed : row'[k] = row[k]
    BY <1>0, <1>5, <2>1 DEF DeleteExpired, Finish, GoTo, TypeOK
  <2> QED
    BY <1>c, <2>1, <2>2 DEF ChargeInv
<1>6. ASSUME NEW a \in Attempt, LookupLive(a) PROVE ChargeInv'
  <2>1. /\ pc'[a] = "ended" /\ \A b \in Attempt \ {a} : pc'[b] = pc[b]
        /\ row' = row /\ req' = req /\ moved' = moved /\ lapsed' = lapsed
    BY <1>0, <1>6 DEF LookupLive, Finish, GoTo, TypeOK
  <2> QED
    BY <1>c, <2>1 DEF ChargeInv
<1>7. ASSUME NEW a \in Attempt, Handle(a) PROVE ChargeInv'
  <2>1. /\ pc[a] = "run" /\ row[req[a].key].id = a /\ req[a].key \in Key
        /\ row' = row /\ req' = req
    BY <1>0, <1>7 DEF Handle, AttemptsOK, RowOf
  <2>2. \A b \in Attempt \ {a} : pc'[b] = pc[b]
    BY <1>0, <1>7 DEF Handle, GoTo, TypeOK
  <2>3. /\ lapsed \subseteq lapsed' /\ moved' \subseteq moved \cup {a}
        /\ \/ pc'[a] = "complete"
           \/ pc'[a] = "release" /\ moved' = moved
           \/ pc'[a] = "release" /\ req[a].key \in lapsed'
    BY <1>0, <1>7 DEF Handle, GoTo, TypeOK
  <2> QED
    BY <1>c, <2>1, <2>2, <2>3 DEF ChargeInv
<1>8. ASSUME NEW a \in Attempt, Complete(a) PROVE ChargeInv'
  <2>1. /\ req' = req /\ moved' = moved /\ lapsed \subseteq lapsed'
        /\ \A b \in Attempt \ {a} : pc'[b] = pc[b]
    BY <1>0, <1>8 DEF Complete, Finish, GoTo, TypeOK
  <2>2. \A k \in Key : row'[k].id = row[k].id /\ row'[k].age = row[k].age
    BY <1>0, <1>8 DEF Complete, TypeOK, KeyRow
  <2>3. pc'[a] = "ended" \/ (pc'[a] = "release" /\ req[a].key \in lapsed')
    BY <1>0, <1>8 DEF Complete, Finish, GoTo, TypeOK
  <2> QED
    BY <1>c, <2>1, <2>2, <2>3 DEF ChargeInv
<1>9. ASSUME NEW a \in Attempt, Release(a) PROVE ChargeInv'
  <2>1. PICK x \in Key : x = req[a].key
    BY <1>0, <1>9 DEF Release, AttemptsOK
  <2>2. /\ row[x].id = a /\ pc[a] = "release"
        /\ req' = req /\ moved' = moved /\ lapsed' = lapsed
    BY <1>0, <1>9, <2>1 DEF Release, AttemptsOK, RowOf
  <2>3. /\ row'[x].age = row[x].age \/ row'[x].age = "live"
        /\ \A k \in Key \ {x} : row'[k] = row[k]
    BY <1>0, <1>9, <2>1 DEF Release, NoRow, TypeOK
  <2>4. pc'[a] = "ended" /\ \A b \in Attempt \ {a} : pc'[b] = pc[b]
    BY <1>0, <1>9 DEF Release, Finish, GoTo, TypeOK
  <2>5. ASSUME NEW k \in Key \ lapsed', NEW b \in Attempt PROVE Tied(k, b)'
    <3>1. k \in Key \ lapsed /\ Tied(k, b) /\ Tied(k, a)
      BY <1>c, <2>2
    <3>2. CASE k = x
      BY <2>1, <2>2, <2>4, <3>1, <3>2
    <3>3. CASE k # x
      BY <2>1, <2>2, <2>3, <2>4, <3>1, <3>3
    <3> QED
      BY <3>2, <3>3
  <2> QED
    BY <1>c, <2>2, <2>3, <2>4, <2>5 DEF ChargeInv
<1>10. ASSUME NEW a \in Attempt, HandleBare(a) \/ Crash(a) PROVE ChargeInv'
  <2>1. /\ row' = row /\ req' = req /\ lapsed' = lapsed
        /\ pc'[a] \in {"ended", "dead"} /\ \A b \in Attempt \ {a} : pc'[b] = pc[b]
    BY <1>0, <1>10 DEF HandleBare, Crash, Finish, GoTo, TypeOK
  <2>2. moved' = moved \/ (moved' = moved \cup {a} /\ req[a].key = NoKey)
    BY <1>c, <1>10 DEF HandleBare, Crash
  <2> QED
    BY <1>0, <1>c, <2>1, <2>2 DEF ChargeInv
<1>11. ASSUME NEW x \in Key, Expire(x) PROVE ChargeInv'
  <2>1. /\ \A k \in Key \ {x} : row'[k] = row[k]
        /\ lapsed' = lapsed \cup {x} /\ pc' = pc /\ req' = req /\ moved' = moved
    BY <1>0, <1>11 DEF Expire, TypeOK
  <2> QED
    BY <1>c, <2>1 DEF ChargeInv
<1>12. CASE UNCHANGED vars
  BY <1>12 DEF vars, ChargeInv
<1> QED
  BY <1>1, <1>2, <1>3, <1>4, <1>5, <1>6, <1>7, <1>8, <1>9, <1>10, <1>11, <1>12
  DEF Next, Step, AllEnded

\* A retry can never charge twice with a key that is still guarded: until a
\* handler fails after its COMMIT, a completion fails or 24 hours pass, the key
\* is charged at most once, whoever crashes and whichever releases fail.
THEOREM ChargedOnce == Spec => []GuardedKeyMovesOnce
<1>1. Init => ChargeInv
  BY DEF Init, ChargeInv, NoRow
<1>2. IdempotencyInv /\ ChargeInv /\ [Next]_vars => ChargeInv'
  BY ChargeStep
<1>3. IdempotencyInv /\ ChargeInv => GuardedKeyMovesOnce
  BY DEF IdempotencyInv, TypeOK, ChargeInv, GuardedKeyMovesOnce
<1> QED
  BY <1>1, <1>2, <1>3, IdempotencyInvariant, PTL DEF Spec

-----------------------------------------------------------------------------
\* A row gets the name of the attempt that inserts it, which has not answered.
LEMMA FreedStep ==
    ASSUME IdempotencyInv, FailureFreesKey, [Next]_vars
    PROVE  FailureFreesKey'
<1>0. TypeOK /\ RowsOK /\ AttemptsOK /\ Nobody \notin Attempt /\ NoKey \notin Key
  BY IdempotencyAssumption DEF IdempotencyInv
<1> DEFINE Freed(a) == reply[a].kind = "error" /\ req[a].key \in Key => row[req[a].key].id # a
<1>f. \A a \in Attempt \ stuck : Freed(a)
  BY DEF FailureFreesKey, RowOf
<1>1. ASSUME NEW a \in Attempt, NEW k \in Key \cup {NoKey}, NEW f \in Fingerprint, Send(a, k, f),
             NEW b \in Attempt \ stuck'
      PROVE  Freed(b)'
  <2>1. /\ row' = row /\ stuck' = stuck
        /\ \A c \in Attempt \ {a} : req'[c] = req[c] /\ reply'[c] = reply[c]
    BY <1>0, <1>1 DEF Send, Finish, TypeOK
  <2>2. reply'[a].kind # "error"
    <3>1. reply[a].kind # "error"
      BY <1>0, <1>1 DEF Send, AttemptsOK
    <3>2. reply'[a] = reply[a] \/ reply'[a].kind = "keyRequired"
      BY <1>0, <1>1 DEF Send, Finish, Answer, TypeOK
    <3> QED
      BY <3>1, <3>2
  <2> QED
    BY <1>f, <2>1, <2>2
<1>2. ASSUME NEW a \in Attempt, ReserveNew(a), NEW b \in Attempt \ stuck' PROVE Freed(b)'
  <2>1. reply[a].kind # "error" /\ req' = req /\ reply' = reply /\ stuck' = stuck
    BY <1>0, <1>2 DEF ReserveNew, AttemptsOK
  <2>2. \A k \in Key : row'[k] = row[k] \/ row'[k].id = a
    BY <1>0, <1>2 DEF ReserveNew, TypeOK
  <2> QED
    BY <1>f, <2>1, <2>2
<1>3. ASSUME NEW a \in Attempt, DeleteExpired(a), NEW b \in Attempt \ stuck' PROVE Freed(b)'
  <2>1. PICK k \in Key : k = req[a].key
    BY <1>0, <1>3 DEF DeleteExpired, AttemptsOK
  <2>2. row[k].id # a
    BY <1>0, <1>3, NoRowType DEF DeleteExpired, RowsOK
  <2>3. \A x \in Key : row'[x] = row[x] \/ row'[x].id = Nobody
    BY <1>0, <1>3, NoRowType DEF DeleteExpired, TypeOK
  <2>4. req' = req /\ stuck' = stuck /\ \A c \in Attempt \ {a} : reply'[c] = reply[c]
    BY <1>0, <1>3 DEF DeleteExpired, Finish, TypeOK
  <2> QED
    BY <1>0, <1>f, <2>1, <2>2, <2>3, <2>4
<1>4. ASSUME NEW a \in Attempt, Release(a), NEW b \in Attempt \ stuck' PROVE Freed(b)'
  <2>1. req[a].key \in Key /\ row[req[a].key].id = a
    BY <1>0, <1>4 DEF Release, AttemptsOK, RowOf
  <2>2. req' = req /\ stuck \subseteq stuck' /\ \A c \in Attempt \ {a} : reply'[c] = reply[c]
    BY <1>0, <1>4 DEF Release, Finish, TypeOK
  <2>3. CASE a \in stuck' /\ row' = row
    BY <1>f, <2>2, <2>3
  <2>4. CASE row' = [row EXCEPT ![req[a].key] = NoRow]
    <3>1. row'[req[a].key].id = Nobody /\ \A x \in Key \ {req[a].key} : row'[x] = row[x]
      BY <1>0, <2>1, <2>4, NoRowType DEF TypeOK
    <3> QED
      BY <1>0, <1>f, <2>1, <2>2, <3>1
  <2> QED
    BY <1>4, <2>1, <2>3, <2>4 DEF Release, RowOf
<1>5. ASSUME NEW a \in Attempt, HandleBare(a), NEW b \in Attempt \ stuck' PROVE Freed(b)'
  <2>1. row' = row /\ req' = req /\ stuck' = stuck /\ \A c \in Attempt \ {a} : reply'[c] = reply[c]
    BY <1>0, <1>5 DEF HandleBare, Finish, TypeOK
  <2>2. \A k \in Key : row[k].id # a
    BY <1>0, <1>5, NoRowType DEF HandleBare, RowsOK
  <2> QED
    BY <1>f, <2>1, <2>2
<1>6. ASSUME NEW a \in Attempt, Complete(a), NEW b \in Attempt \ stuck' PROVE Freed(b)'
  <2>1. \A k \in Key : row'[k].id = row[k].id
    BY <1>0, <1>6 DEF Complete, TypeOK, KeyRow
  <2>2. /\ req' = req /\ stuck' = stuck
        /\ \A c \in Attempt : reply'[c] = reply[c] \/ reply'[c].kind = "ok"
    BY <1>0, <1>6 DEF Complete, Finish, Answer, TypeOK
  <2> QED
    BY <1>f, <2>1, <2>2
<1>7. ASSUME NEW a \in Attempt, LookupLive(a), NEW b \in Attempt \ stuck' PROVE Freed(b)'
  <2>1. /\ row' = row /\ req' = req /\ stuck' = stuck
        /\ \A c \in Attempt : reply'[c] = reply[c] \/ reply'[c].kind \in {"mismatch", "inProgress", "replay"}
    BY <1>0, <1>7 DEF LookupLive, Finish, Answer, TypeOK
  <2> QED
    BY <1>f, <2>1
<1>8. ASSUME NEW x \in Key, Expire(x), NEW b \in Attempt \ stuck' PROVE Freed(b)'
  <2>1. /\ \A k \in Key : row'[k].id = row[k].id
        /\ req' = req /\ reply' = reply /\ stuck' = stuck
    BY <1>0, <1>8 DEF Expire, TypeOK, KeyRow
  <2> QED
    BY <1>f, <2>1
<1>9. ASSUME UNCHANGED <<row, req, reply, stuck>>, NEW b \in Attempt \ stuck' PROVE Freed(b)'
  BY <1>9, <1>f
<1> HIDE DEF Freed
<1>10. \A b \in Attempt \ stuck' : Freed(b)'
  BY <1>1, <1>2, <1>3, <1>4, <1>5, <1>6, <1>7, <1>8, <1>9
  DEF Next, Step, AllEnded, vars, ReserveTaken, LookupVanished, LookupExpired, Handle, Crash
<1> QED
  BY <1>10 DEF FailureFreesKey, Freed, RowOf

\* A failure frees its key unless the release itself fails: an attempt that
\* answered an error and whose release did not fail does not keep the key
\* reserved, whatever else fails.
THEOREM FailureFrees == Spec => []FailureFreesKey
<1>1. Init => FailureFreesKey
  BY DEF Init, NoReply, FailureFreesKey
<1>2. IdempotencyInv /\ FailureFreesKey /\ [Next]_vars => FailureFreesKey'
  BY FreedStep
<1> QED
  BY <1>1, <1>2, IdempotencyInvariant, PTL DEF Spec

-----------------------------------------------------------------------------
(***************************************************************************)
(* The refinement.  Each step of an attempt is the step of AtomicKeys named*)
(* below or leaves what is seen of the keys and attempts alone.            *)
(***************************************************************************)
States == [k \in Key |-> StateOf(row[k])]
Owners == [k \in Key |-> row[k].id]
Stages == [a \in Attempt |-> StageOf(pc[a])]

\* An unchanged table and unchanged places look unchanged.
LEMMA SameSeen ==
    /\ UNCHANGED row => States' = States /\ Owners' = Owners
    /\ UNCHANGED pc => Stages' = Stages
BY DEF States, Owners, Stages

\* An attempt that moves is seen to move, and nobody else is.
LEMMA SeenToMove ==
    ASSUME TypeOK, NEW a \in Attempt, NEW where, pc' = [pc EXCEPT ![a] = where]
    PROVE  Stages' = [Stages EXCEPT ![a] = StageOf(where)]
<1>1. \A b \in Attempt : pc'[b] = IF b = a THEN where ELSE pc[b]
  BY DEF TypeOK
<1>2. \A b \in Attempt : StageOf(pc'[b]) = IF b = a THEN StageOf(where) ELSE StageOf(pc[b])
  BY <1>1
<1>3. Stages' = [b \in Attempt |-> IF b = a THEN StageOf(where) ELSE StageOf(pc[b])]
  BY <1>2 DEF Stages
<1>4. [Stages EXCEPT ![a] = StageOf(where)]
          = [b \in Attempt |-> IF b = a THEN StageOf(where) ELSE StageOf(pc[b])]
  BY DEF Stages
<1> QED
  BY <1>3, <1>4

\* A row that is written changes what is seen of its key only.
LEMMA SeenToChange ==
    ASSUME TypeOK, NEW k \in Key, NEW r, row' = [row EXCEPT ![k] = r]
    PROVE  /\ States' = [States EXCEPT ![k] = StateOf(r)]
           /\ Owners' = [Owners EXCEPT ![k] = r.id]
<1>1. \A j \in Key : row'[j] = IF j = k THEN r ELSE row[j]
  BY DEF TypeOK
<1>2. row'[k] = r /\ \A j \in Key \ {k} : row'[j] = row[j]
  BY <1>1
<1>3. States' = [j \in Key |-> StateOf(row'[j])] /\ Owners' = [j \in Key |-> row'[j].id]
  BY DEF States, Owners
<1>4. [j \in Key |-> StateOf(row'[j])] = [States EXCEPT ![k] = StateOf(r)]
  <2>1. \A j \in Key : StateOf(row'[j]) = IF j = k THEN StateOf(r) ELSE StateOf(row[j])
    BY <1>2
  <2> QED
    BY <2>1 DEF States
<1>5. [j \in Key |-> row'[j].id] = [Owners EXCEPT ![k] = r.id]
  <2>1. \A j \in Key : row'[j].id = IF j = k THEN r.id ELSE row[j].id
    BY <1>2
  <2> QED
    BY <2>1 DEF Owners
<1> QED
  BY <1>3, <1>4, <1>5

\* What the state of a key says of its row.
LEMMA StatesTell ==
    ASSUME TypeOK, NEW k \in Key
    PROVE  /\ States[k] = "free" <=> row[k] = NoRow
           /\ States[k] = "stale" <=> row[k] # NoRow /\ row[k].age = "expired"
           /\ States[k] = "done" <=> row[k] # NoRow /\ row[k].age = "live" /\ row[k].status = "completed"
           /\ States[k] = "held" <=> row[k] # NoRow /\ row[k].age = "live" /\ row[k].status # "completed"
           /\ Owners[k] = row[k].id
<1>1. row[k].age \in {"live", "expired"}
  BY DEF TypeOK, KeyRow
<1> QED
  BY <1>1 DEF States, Owners, StateOf

\* A holder's row is live, its own, and not completed.
LEMMA HolderHolds ==
    ASSUME IdempotencyInv, NEW a \in Attempt, pc[a] \in Reserved
    PROVE  /\ req[a].key \in Key /\ row[req[a].key] # NoRow /\ row[req[a].key].id = a
           /\ row[req[a].key].age = "live" /\ row[req[a].key].status # "completed"
<1>1. TypeOK /\ RowsOK /\ AttemptsOK
  BY DEF IdempotencyInv
<1>2. req[a].key \in Key /\ row[req[a].key].id = a
  BY <1>1 DEF AttemptsOK, RowOf
<1>3. row[req[a].key] # NoRow
  BY <1>2, NoRowType, IdempotencyAssumption
<1>4. row[req[a].key].age \in {"live", "expired"}
  BY <1>1, <1>2 DEF TypeOK, KeyRow
<1> QED
  BY <1>1, <1>2, <1>3, <1>4 DEF RowsOK

\* Where an attempt is seen to be.
LEMMA StageTells ==
    ASSUME NEW a \in Attempt
    PROVE  Stages[a] = StageOf(pc[a])
BY DEF Stages

\* Coming in.
LEMMA SendAsks ==
    ASSUME IdempotencyInv, NEW a \in Attempt, NEW k \in Key \cup {NoKey}, NEW f \in Fingerprint,
           Send(a, k, f)
    PROVE  Atomic!Ask(a, k, f)
<1>1. TypeOK /\ pc[a] = "idle" /\ UNCHANGED <<row, moved>>
      /\ req' = [req EXCEPT ![a] = [key |-> k, fp |-> f]]
  BY DEF IdempotencyInv, Send
<1>2. States' = States /\ Owners' = Owners
  BY <1>1, SameSeen
<1>3. Stages[a] = "idle"
  BY <1>1, StageTells DEF StageOf
<1>4. CASE k \in Key /\ GoTo(a, "insert") /\ UNCHANGED reply
  <2>1. Stages' = [Stages EXCEPT ![a] = "asking"]
    BY <1>1, <1>4, SeenToMove DEF GoTo, StageOf
  <2> QED
    BY <1>1, <1>2, <1>3, <1>4, <2>1 DEF Atomic!Ask, Atomic!GoTo, States, Owners, Stages
<1>5. CASE k = NoKey /\ f \in Optional /\ GoTo(a, "bare") /\ UNCHANGED reply
  <2>1. Stages' = [Stages EXCEPT ![a] = "bare"]
    BY <1>1, <1>5, SeenToMove DEF GoTo, StageOf
  <2> QED
    BY <1>1, <1>2, <1>3, <1>5, <2>1, IdempotencyAssumption
    DEF Atomic!Ask, Atomic!GoTo, States, Owners, Stages
<1>6. CASE k = NoKey /\ f \notin Optional /\ Finish(a, Answer("keyRequired", Nobody))
  <2>1. Stages' = [Stages EXCEPT ![a] = "ended"]
    BY <1>1, <1>6, SeenToMove DEF Finish, GoTo, StageOf
  <2> QED
    BY <1>1, <1>2, <1>3, <1>6, <2>1, IdempotencyAssumption
    DEF Atomic!Ask, Atomic!Finish, Atomic!Answer, Finish, Answer, States, Owners, Stages
<1> QED
  BY <1>4, <1>5, <1>6 DEF Send

\* An attempt that is inserting, looking up or deleting is asking for a key.
LEMMA Asking ==
    ASSUME IdempotencyInv, NEW a \in Attempt, pc[a] \in {"insert", "lookup", "delete"}
    PROVE  TypeOK /\ RowsOK /\ AttemptsOK /\ req[a].key \in Key /\ Stages[a] = "asking"
<1>1. req[a].key \in Key
  BY DEF IdempotencyInv, AttemptsOK
<1> QED
  BY <1>1, StageTells DEF IdempotencyInv, StageOf

\* The INSERT that succeeds takes the key.
LEMMA ReserveTakes ==
    ASSUME IdempotencyInv, NEW a \in Attempt, ReserveNew(a)
    PROVE  Atomic!Take(a)
<1> DEFINE k == req[a].key
           r == [id |-> a, fp |-> req[a].fp, status |-> "pending", age |-> "live"]
<1>1. /\ pc[a] = "insert" /\ row[k] = NoRow /\ row' = [row EXCEPT ![k] = r]
      /\ pc' = [pc EXCEPT ![a] = "run"] /\ UNCHANGED <<req, moved, reply>>
  BY DEF ReserveNew, RowOf, GoTo
<1>2. TypeOK /\ k \in Key /\ Stages[a] = "asking"
  BY <1>1, Asking
<1>3. States[k] = "free"
  BY <1>1, <1>2, StatesTell
<1>4. StateOf(r) = "held" /\ r.id = a
  BY IdempotencyAssumption DEF StateOf, NoRow
<1> HIDE DEF k, r
<1>5. /\ States' = [States EXCEPT ![k] = "held"]
      /\ Owners' = [Owners EXCEPT ![k] = a]
  <2>1. States' = [States EXCEPT ![k] = StateOf(r)] /\ Owners' = [Owners EXCEPT ![k] = r.id]
    BY <1>1, <1>2, SeenToChange
  <2> QED
    BY <1>4, <2>1
<1>6. Stages' = [Stages EXCEPT ![a] = "run"]
  BY <1>1, <1>2, SeenToMove DEF StageOf
<1> QED
  BY <1>1, <1>2, <1>3, <1>5, <1>6
  DEF Atomic!Take, Atomic!Becomes, Atomic!GoTo, States, Owners, Stages, k

\* Going from one place of asking to another is not seen.
LEMMA StillAsking ==
    ASSUME IdempotencyInv, NEW a \in Attempt, ReserveTaken(a) \/ LookupVanished(a) \/ LookupExpired(a)
    PROVE  UNCHANGED Atomic!vars
<1>1. PICK where \in {"insert", "lookup", "delete"} :
         /\ pc[a] \in {"insert", "lookup", "delete"} /\ pc' = [pc EXCEPT ![a] = where]
         /\ UNCHANGED <<row, req, moved, reply>>
  BY DEF ReserveTaken, LookupVanished, LookupExpired, GoTo
<1>2. TypeOK /\ Stages[a] = "asking"
  BY <1>1, Asking
<1>3. Stages' = [Stages EXCEPT ![a] = "asking"]
  BY <1>1, <1>2, SeenToMove DEF StageOf
<1>4. Stages' = Stages
  BY <1>2, <1>3 DEF Stages
<1>5. States' = States /\ Owners' = Owners
  BY <1>1, SameSeen
<1> QED
  BY <1>1, <1>4, <1>5 DEF Atomic!vars, States, Owners, Stages

\* The deletion by id clears a stale key, or the attempt is refused.
LEMMA DeleteClears ==
    ASSUME IdempotencyInv, NEW a \in Attempt, DeleteExpired(a)
    PROVE  (\E c \in Key : Atomic!Clear(c)) \/ Atomic!Refuse(a)
<1> DEFINE k == req[a].key
<1>1. pc[a] = "delete" /\ UNCHANGED <<req, moved>>
  BY DEF DeleteExpired
<1>2. TypeOK /\ AttemptsOK /\ k \in Key /\ Stages[a] = "asking"
  BY <1>1, Asking
<1>3. CASE /\ RowOf(a).id = target[a] /\ row' = [row EXCEPT ![k] = NoRow]
           /\ GoTo(a, "insert") /\ UNCHANGED reply
  <2>1. row[k] # NoRow /\ row[k].age = "expired"
    BY <1>1, <1>2, <1>3, NoRowType, IdempotencyAssumption DEF AttemptsOK, RowOf
  <2>2. States[k] = "stale"
    BY <1>2, <2>1, StatesTell
  <2>3. StateOf(NoRow) = "free" /\ NoRow.id = Nobody
    BY DEF StateOf, NoRow
  <2> HIDE DEF k
  <2>4. States' = [States EXCEPT ![k] = "free"] /\ Owners' = [Owners EXCEPT ![k] = Nobody]
    <3>1. States' = [States EXCEPT ![k] = StateOf(NoRow)] /\ Owners' = [Owners EXCEPT ![k] = NoRow.id]
      BY <1>2, <1>3, SeenToChange
    <3> QED
      BY <2>3, <3>1
  <2>5. Stages' = Stages
    <3>1. Stages' = [Stages EXCEPT ![a] = "asking"]
      BY <1>2, <1>3, SeenToMove DEF StageOf, GoTo
    <3> QED
      BY <1>2, <3>1 DEF Stages
  <2>6. PICK c \in Key : c = k
    BY <1>2
  <2>7. /\ States[c] = "stale"
        /\ States' = [States EXCEPT ![c] = "free"] /\ Owners' = [Owners EXCEPT ![c] = Nobody]
    BY <2>2, <2>4, <2>6
  <2>8. Atomic!Clear(c)
    BY <1>1, <1>3, <2>5, <2>7 DEF Atomic!Clear, Atomic!Becomes, States, Owners, Stages
  <2> QED
    BY <2>8
<1>4. CASE Finish(a, Answer("error", Nobody)) /\ UNCHANGED row
  <2>1. Stages' = [Stages EXCEPT ![a] = "ended"]
    BY <1>2, <1>4, SeenToMove DEF Finish, GoTo, StageOf
  <2>2. States' = States /\ Owners' = Owners
    BY <1>4, SameSeen
  <2> QED
    BY <1>1, <1>2, <1>4, <2>1, <2>2
    DEF Atomic!Refuse, Atomic!Finish, Atomic!Answer, Finish, Answer, States, Owners, Stages
<1> QED
  BY <1>3, <1>4 DEF DeleteExpired

\* The live row turns an attempt away.
LEMMA LookupTurnsAway ==
    ASSUME IdempotencyInv, NEW a \in Attempt, LookupLive(a)
    PROVE  Atomic!TurnAway(a)
<1> DEFINE k == req[a].key
           r == row[k]
<1>1. pc[a] = "lookup" /\ r # NoRow /\ r.age = "live" /\ UNCHANGED <<row, req, moved>>
  BY DEF LookupLive, RowOf
<1>2. TypeOK /\ RowsOK /\ k \in Key /\ Stages[a] = "asking"
  BY <1>1, Asking
<1>3. r.fp = req[a].fp <=> req[r.id] = req[a]
  <2>1. req[r.id] = [key |-> k, fp |-> r.fp]
    BY <1>1, <1>2 DEF RowsOK
  <2>2. req[a] = [key |-> k, fp |-> req[a].fp]
    BY <1>2 DEF TypeOK
  <2> QED
    BY <2>1, <2>2
<1>4. /\ Owners[k] = r.id /\ States[k] \in {"held", "done"}
      /\ States[k] = "done" <=> r.status = "completed"
  BY <1>1, <1>2, StatesTell DEF TypeOK, KeyRow
<1>5. r.status = "pending" => States[k] = "held"
  BY <1>4
<1>6. States' = States /\ Owners' = Owners
  BY <1>1, SameSeen
<1>7. ASSUME NEW kind, NEW of, Finish(a, Answer(kind, of))
      PROVE  /\ Stages' = [Stages EXCEPT ![a] = "ended"]
             /\ reply' = [reply EXCEPT ![a] = Atomic!Answer(kind, of)]
  <2>1. pc' = [pc EXCEPT ![a] = "ended"] /\ reply' = [reply EXCEPT ![a] = Atomic!Answer(kind, of)]
    BY <1>7 DEF Finish, GoTo, Answer, Atomic!Answer
  <2>2. Stages' = [Stages EXCEPT ![a] = StageOf("ended")]
    BY <1>2, <2>1, SeenToMove
  <2> QED
    BY <2>1, <2>2 DEF StageOf
<1>8. \/ r.fp # req[a].fp /\ Finish(a, Answer("mismatch", Nobody))
      \/ r.fp = req[a].fp /\ r.status = "pending" /\ Finish(a, Answer("inProgress", Nobody))
      \/ r.fp = req[a].fp /\ r.status = "completed" /\ Finish(a, Answer("replay", r.id))
  BY DEF LookupLive, RowOf
<1> HIDE DEF r
<1>9. \/ /\ States[k] \in {"held", "done"} /\ ~(req[Owners[k]] = req[a])
         /\ Stages' = [Stages EXCEPT ![a] = "ended"]
         /\ reply' = [reply EXCEPT ![a] = Atomic!Answer("mismatch", Nobody)]
      \/ /\ States[k] = "held" /\ req[Owners[k]] = req[a]
         /\ Stages' = [Stages EXCEPT ![a] = "ended"]
         /\ reply' = [reply EXCEPT ![a] = Atomic!Answer("inProgress", Nobody)]
      \/ /\ States[k] = "done" /\ req[Owners[k]] = req[a]
         /\ Stages' = [Stages EXCEPT ![a] = "ended"]
         /\ reply' = [reply EXCEPT ![a] = Atomic!Answer("replay", Owners[k])]
  <2>1. CASE r.fp # req[a].fp /\ Finish(a, Answer("mismatch", Nobody))
    BY <1>3, <1>4, <1>7, <2>1
  <2>2. CASE r.fp = req[a].fp /\ r.status = "pending" /\ Finish(a, Answer("inProgress", Nobody))
    BY <1>3, <1>4, <1>5, <1>7, <2>2
  <2>3. CASE r.fp = req[a].fp /\ r.status = "completed" /\ Finish(a, Answer("replay", r.id))
    BY <1>3, <1>4, <1>7, <2>3
  <2> QED
    BY <1>8, <2>1, <2>2, <2>3
<1> QED
  BY <1>1, <1>2, <1>6, <1>9
  DEF Atomic!TurnAway, Atomic!Finish, States, Owners, Stages, k

\* The handler runs.
LEMMA HandlerRuns ==
    ASSUME IdempotencyInv, NEW a \in Attempt, Handle(a)
    PROVE  Atomic!Run(a)
<1>1. TypeOK /\ pc[a] = "run" /\ UNCHANGED <<row, req, reply>>
  BY DEF IdempotencyInv, Handle
<1>2. Stages[a] = "run"
  BY <1>1, StageTells DEF StageOf
<1>3. States' = States /\ Owners' = Owners
  BY <1>1, SameSeen
<1>4. CASE moved' = moved \cup {a} /\ GoTo(a, "complete")
  <2>1. Stages' = [Stages EXCEPT ![a] = "complete"]
    BY <1>1, <1>4, SeenToMove DEF GoTo, StageOf
  <2> QED
    BY <1>1, <1>2, <1>3, <1>4, <2>1 DEF Atomic!Run, Atomic!GoTo, States, Owners, Stages
<1>5. CASE moved' \in {moved, moved \cup {a}} /\ GoTo(a, "release")
  <2>1. Stages' = [Stages EXCEPT ![a] = "release"]
    BY <1>1, <1>5, SeenToMove DEF GoTo, StageOf
  <2> QED
    BY <1>1, <1>2, <1>3, <1>5, <2>1 DEF Atomic!Run, Atomic!GoTo, States, Owners, Stages
<1> QED
  BY <1>4, <1>5 DEF Handle

\* The UPDATE by id stores the answer of the holder, or the attempt goes to release.
LEMMA CompleteStores ==
    ASSUME IdempotencyInv, NEW a \in Attempt, Complete(a)
    PROVE  Atomic!Store(a)
<1> DEFINE k == req[a].key
           r == [row[k] EXCEPT !.status = "completed"]
<1>1. TypeOK /\ pc[a] = "complete" /\ UNCHANGED <<req, moved>>
  BY DEF IdempotencyInv, Complete
<1>2. Stages[a] = "complete"
  BY <1>1, StageTells DEF StageOf
<1>3. k \in Key /\ row[k] # NoRow /\ row[k].id = a /\ row[k].age = "live" /\ row[k].status # "completed"
  BY <1>1, HolderHolds
<1>4. States[k] = "held" /\ Owners[k] = a
  BY <1>1, <1>3, StatesTell
<1>5. CASE row' = [row EXCEPT ![k].status = "completed"] /\ Finish(a, Answer("ok", a))
  <2>1. row' = [row EXCEPT ![k] = r]
    BY <1>5
  <2>2. r.id = a /\ r.age = "live" /\ r.status = "completed" /\ r # NoRow
    BY <1>1, <1>3, NoRowType DEF TypeOK, KeyRow
  <2>3. StateOf(r) = "done"
    BY <2>2 DEF StateOf
  <2> HIDE DEF k, r
  <2>4. States' = [States EXCEPT ![k] = "done"] /\ Owners' = [Owners EXCEPT ![k] = a]
    <3>1. States' = [States EXCEPT ![k] = StateOf(r)] /\ Owners' = [Owners EXCEPT ![k] = r.id]
      BY <1>1, <1>3, <2>1, SeenToChange
    <3> QED
      BY <2>2, <2>3, <3>1
  <2>5. Stages' = [Stages EXCEPT ![a] = "ended"]
    BY <1>1, <1>5, SeenToMove DEF Finish, GoTo, StageOf
  <2> QED
    BY <1>1, <1>2, <1>4, <1>5, <2>4, <2>5
    DEF Atomic!Store, Atomic!Becomes, Atomic!Finish, Atomic!Answer, Finish, Answer, States, Owners, Stages, k
<1>6. CASE GoTo(a, "release") /\ UNCHANGED <<row, reply>>
  <2>1. Stages' = [Stages EXCEPT ![a] = "release"]
    BY <1>1, <1>6, SeenToMove DEF GoTo, StageOf
  <2>2. States' = States /\ Owners' = Owners
    BY <1>6, SameSeen
  <2> QED
    BY <1>1, <1>2, <1>6, <2>1, <2>2 DEF Atomic!Store, Atomic!GoTo, States, Owners, Stages
<1> QED
  BY <1>5, <1>6 DEF Complete

\* The deletion by id lets go of the holder's key, or leaves it held.
LEMMA ReleaseLetsGo ==
    ASSUME IdempotencyInv, NEW a \in Attempt, Release(a)
    PROVE  Atomic!LetGo(a)
<1> DEFINE k == req[a].key
<1>1. TypeOK /\ pc[a] = "release" /\ UNCHANGED <<req, moved>> /\ Finish(a, Answer("error", Nobody))
  BY DEF IdempotencyInv, Release
<1>2. Stages[a] = "release"
  BY <1>1, StageTells DEF StageOf
<1>3. k \in Key /\ row[k] # NoRow /\ row[k].id = a /\ row[k].age = "live" /\ row[k].status # "completed"
  BY <1>1, HolderHolds
<1>4. States[k] = "held" /\ Owners[k] = a
  BY <1>1, <1>3, StatesTell
<1>5. Stages' = [Stages EXCEPT ![a] = "ended"]
  BY <1>1, SeenToMove DEF Finish, GoTo, StageOf
<1>6. row' = [row EXCEPT ![k] = NoRow] \/ UNCHANGED row
  BY <1>3 DEF Release, RowOf
<1>7. StateOf(NoRow) = "free" /\ NoRow.id = Nobody
  BY DEF StateOf, NoRow
<1> HIDE DEF k
<1>8. \/ States' = [States EXCEPT ![k] = "free"] /\ Owners' = [Owners EXCEPT ![k] = Nobody]
      \/ States' = States /\ Owners' = Owners
  <2>1. CASE row' = [row EXCEPT ![k] = NoRow]
    <3>1. States' = [States EXCEPT ![k] = StateOf(NoRow)] /\ Owners' = [Owners EXCEPT ![k] = NoRow.id]
      BY <1>1, <1>3, <2>1, SeenToChange
    <3> QED
      BY <1>7, <3>1
  <2>2. CASE UNCHANGED row
    BY <2>2, SameSeen
  <2> QED
    BY <1>6, <2>1, <2>2
<1> QED
  BY <1>1, <1>2, <1>4, <1>5, <1>8
  DEF Atomic!LetGo, Atomic!Becomes, Atomic!Finish, Atomic!Answer, Finish, Answer, States, Owners, Stages, k

\* A request without a key runs unprotected, and a process may die.
LEMMA OthersStep ==
    ASSUME IdempotencyInv, NEW a \in Attempt
    PROVE  /\ HandleBare(a) => Atomic!RunBare(a)
           /\ Crash(a) => Atomic!Die(a)
<1>0. TypeOK
  BY DEF IdempotencyInv
<1>1. ASSUME HandleBare(a) PROVE Atomic!RunBare(a)
  <2>1. pc[a] = "bare" /\ UNCHANGED <<row, req>> /\ pc' = [pc EXCEPT ![a] = "ended"]
    BY <1>1 DEF HandleBare, Finish, GoTo
  <2>2. Stages[a] = "bare" /\ Stages' = [Stages EXCEPT ![a] = "ended"]
    BY <1>0, <2>1, StageTells, SeenToMove DEF StageOf
  <2>3. States' = States /\ Owners' = Owners
    BY <2>1, SameSeen
  <2> QED
    BY <1>1, <2>1, <2>2, <2>3
    DEF HandleBare, Finish, Answer, Atomic!RunBare, Atomic!Finish, Atomic!Answer, States, Owners, Stages
<1>2. ASSUME Crash(a) PROVE Atomic!Die(a)
  <2>1. pc[a] \in InFlight /\ UNCHANGED <<row, req, moved, reply>> /\ pc' = [pc EXCEPT ![a] = "dead"]
    BY <1>2 DEF Crash, GoTo
  <2>2. Stages[a] \notin {"idle", "ended", "dead"} /\ Stages' = [Stages EXCEPT ![a] = "dead"]
    BY <1>0, <2>1, StageTells, SeenToMove DEF StageOf
  <2>3. States' = States /\ Owners' = Owners
    BY <2>1, SameSeen
  <2> QED
    BY <2>1, <2>2, <2>3 DEF Atomic!Die, Atomic!GoTo, States, Owners, Stages
<1> QED
  BY <1>1, <1>2

\* A key lapses.
LEMMA ExpireLapses ==
    ASSUME IdempotencyInv, NEW k \in Key, Expire(k)
    PROVE  Atomic!Lapse(k)
<1> DEFINE r == [row[k] EXCEPT !.age = "expired"]
<1>1. /\ TypeOK /\ RowsOK /\ row[k] # NoRow /\ row[k].age = "live" /\ row' = [row EXCEPT ![k] = r]
      /\ pc[row[k].id] \in {"ended", "dead"} /\ UNCHANGED <<pc, req, moved, reply>>
  BY DEF IdempotencyInv, Expire
<1>2. row[k].id \in Attempt
  BY <1>1 DEF RowsOK
<1>3. r.age = "expired" /\ r.id = row[k].id /\ NoRow.age = "live"
  BY <1>1 DEF TypeOK, KeyRow, NoRow
<1>4. StateOf(r) = "stale"
  BY <1>3 DEF StateOf
<1>5. States[k] \in {"held", "done"} /\ Owners[k] = row[k].id
  BY <1>1, StatesTell
<1>6. Stages[Owners[k]] \in {"ended", "dead"} /\ Stages' = Stages
  BY <1>1, <1>2, <1>5, StageTells, SameSeen DEF StageOf
<1> HIDE DEF r
<1>7. States' = [States EXCEPT ![k] = "stale"] /\ Owners' = [Owners EXCEPT ![k] = Owners[k]]
  <2>1. States' = [States EXCEPT ![k] = StateOf(r)] /\ Owners' = [Owners EXCEPT ![k] = r.id]
    BY <1>1, SeenToChange
  <2> QED
    BY <1>3, <1>4, <1>5, <2>1
<1> QED
  BY <1>1, <1>5, <1>6, <1>7 DEF Atomic!Lapse, Atomic!Becomes, States, Owners, Stages

\* The layer is atomic: an attempt takes a key or is turned away in one step, and
\* only the holder of a key completes or frees it, whatever fails.
THEOREM KeysAreAtomic == Spec => ImplementsAtomicKeys
<1>1. Init => Atomic!Init
  BY DEF Init, Atomic!Init, Atomic!Answer, NoReply, NoRow, StateOf, StageOf
<1>2. IdempotencyInv /\ [Next]_vars => [Atomic!Next]_(Atomic!vars)
  <2> SUFFICES ASSUME IdempotencyInv, [Next]_vars PROVE [Atomic!Next]_(Atomic!vars)
    OBVIOUS
  <2>1. ASSUME NEW a \in Attempt, Step(a) \/ Crash(a) PROVE [Atomic!Next]_(Atomic!vars)
    <3>1. CASE ReserveNew(a)
      BY <3>1, ReserveTakes DEF Atomic!Next
    <3>2. CASE ReserveTaken(a) \/ LookupVanished(a) \/ LookupExpired(a)
      BY <3>2, StillAsking
    <3>3. CASE DeleteExpired(a)
      BY <3>3, DeleteClears DEF Atomic!Next
    <3>4. CASE LookupLive(a)
      BY <3>4, LookupTurnsAway DEF Atomic!Next
    <3>5. CASE Handle(a)
      BY <3>5, HandlerRuns DEF Atomic!Next
    <3>6. CASE Complete(a)
      BY <3>6, CompleteStores DEF Atomic!Next
    <3>7. CASE Release(a)
      BY <3>7, ReleaseLetsGo DEF Atomic!Next
    <3>8. CASE HandleBare(a) \/ Crash(a)
      BY <3>8, OthersStep DEF Atomic!Next
    <3> QED
      BY <2>1, <3>1, <3>2, <3>3, <3>4, <3>5, <3>6, <3>7, <3>8 DEF Step
  <2>2. ASSUME NEW a \in Attempt, NEW k \in Key \cup {NoKey}, NEW f \in Fingerprint, Send(a, k, f)
        PROVE  [Atomic!Next]_(Atomic!vars)
    BY <2>2, SendAsks DEF Atomic!Next
  <2>3. ASSUME NEW k \in Key, Expire(k) PROVE [Atomic!Next]_(Atomic!vars)
    BY <2>3, ExpireLapses DEF Atomic!Next
  <2>4. CASE UNCHANGED vars
    BY <2>4 DEF vars, Atomic!vars
  <2> QED
    BY <2>1, <2>2, <2>3, <2>4 DEF Next, AllEnded
<1> QED
  BY IdempotencyInvariant, <1>1, <1>2, PTL DEF Spec, ImplementsAtomicKeys, Atomic!Spec
=============================================================================
