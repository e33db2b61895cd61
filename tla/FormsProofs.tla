--------------------------- MODULE FormsProofs ---------------------------
(***************************************************************************)
(* Lemmas about the parts of Surfaces that people send requests from: the  *)
(* exchange screen, the forms that move money and the console's tables,    *)
(* each with the invariant its steps keep.  SurfacesProofs states the      *)
(* theorems.                                                               *)
(***************************************************************************)
EXTENDS Surfaces, Sequences, FiniteSetTheorems, TLAPS

-----------------------------------------------------------------------------
(***************************************************************************)
(* The calls of the forms that move money.  A key is free until a call of  *)
(* it runs, done once one has committed, and every answer "ok" names the   *)
(* payment of its own key and body.                                        *)
(***************************************************************************)
CallRec(B, D) ==
    [at : {"sent", "running"} \cup PF!Answers, key : 0..MaxKeys, body : B,
     made : 0..MaxSends, detail : D]
KeyRec(B) ==
    {PF!FreeKey} \cup [at : {"running"}, body : B]
                 \cup [at : {"done"}, body : B, made : 1..MaxSends]

CallTypes(B, D) ==
    /\ twoFactor \in BOOLEAN
    /\ calls \in [PF!Call -> CallRec(B, D) \cup {PF!Unused}]
    /\ keys \in [1..MaxKeys -> KeyRec(B)]
    /\ ledger \subseteq PF!SentCalls
    /\ minted \in 0..MaxKeys /\ idem \in 0..minted
    /\ waiting \in PF!SentCalls \cup {0}
    /\ lost \in Nat
    /\ \E n \in 0..MaxSends : PF!SentCalls = 1..n

MadeOK(c) ==
    c \in ledger =>
        /\ calls[c].at = "ok" /\ calls[c].made = c
        /\ calls[c].key # 0 => keys[calls[c].key].at = "done" /\ keys[calls[c].key].made = c
OkOK(c) ==
    calls[c].at = "ok" =>
        /\ calls[c].made \in ledger
        /\ calls[calls[c].made].key = calls[c].key
        /\ calls[calls[c].made].body = calls[c].body
        /\ calls[calls[c].made].key = 0 => calls[c].made = c
RunOK(c) ==
    calls[c].at = "running" /\ calls[c].key # 0 =>
        /\ keys[calls[c].key].at = "running"
        /\ \A d \in PF!SentCalls : d # c /\ calls[d].key = calls[c].key => calls[d].at # "running"
DoneOK(k) ==
    keys[k].at = "done" =>
        /\ keys[k].made \in ledger
        /\ calls[keys[k].made].key = k
        /\ calls[keys[k].made].body = keys[k].body

KeysKept ==
    /\ \A c \in PF!SentCalls : calls[c].key <= minted /\ MadeOK(c) /\ OkOK(c) /\ RunOK(c)
    /\ \A k \in 1..MaxKeys : (k > minted => keys[k].at = "free") /\ DoneOK(k)

CallsInv(B, D) == CallTypes(B, D) /\ KeysKept

\* A call that was sent, and one that was not.
LEMMA SentTyped ==
    ASSUME NEW B, NEW D, SendBounds, CallTypes(B, D)
    PROVE  /\ \A c \in PF!SentCalls : calls[c] \in CallRec(B, D) /\ c \in PF!Call /\ c # 0 /\ c \in Nat
           /\ \A c \in PF!Call : c \in PF!SentCalls <=> calls[c] # PF!Unused
           /\ \A x \in CallRec(B, D) : x # PF!Unused
BY DEF PF!SentCalls, CallTypes, CallRec, PF!Unused, PF!Call, PF!Answers, SendBounds

LEMMA CallFields ==
    ASSUME NEW B, NEW D, NEW x \in CallRec(B, D)
    PROVE  /\ x.at \in {"sent", "running"} \cup PF!Answers /\ x.key \in 0..MaxKeys /\ x.body \in B
           /\ x.made \in 0..MaxSends /\ x.detail \in D
BY DEF CallRec

LEMMA KeyFields ==
    ASSUME NEW B, NEW y \in KeyRec(B)
    PROVE  /\ y.at \in {"free", "running", "done"}
           /\ y.at = "free" => y = PF!FreeKey
           /\ y.at # "free" => y.body \in B
           /\ y.at = "done" => y.made \in 1..MaxSends
BY DEF KeyRec, PF!FreeKey

\* One record of one call changes in its answer only.
LEMMA AnswerMoves ==
    ASSUME NEW B, NEW D, SendBounds, CallTypes(B, D), NEW c \in PF!SentCalls,
           NEW at \in {"sent", "running"} \cup PF!Answers, NEW made \in 0..MaxSends,
           PF!Reply(c, at, made)
    PROVE  /\ calls' \in [PF!Call -> CallRec(B, D) \cup {PF!Unused}]
           /\ \A d \in PF!Call \ {c} : calls'[d] = calls[d]
           /\ calls'[c].at = at /\ calls'[c].made = made
           /\ calls'[c].key = calls[c].key /\ calls'[c].body = calls[c].body
           /\ calls'[c].detail = calls[c].detail
           /\ PF!SentCalls' = PF!SentCalls
<1>1. calls[c] \in CallRec(B, D) /\ c \in PF!Call
  BY SentTyped
<1>2. ASSUME NEW x \in CallRec(B, D)
      PROVE  LET y == [x EXCEPT !.at = at, !.made = made] IN
             /\ y \in CallRec(B, D) /\ y.at = at /\ y.made = made
             /\ y.key = x.key /\ y.body = x.body /\ y.detail = x.detail
  BY DEF CallRec
<1> DEFINE y == [calls[c] EXCEPT !.at = at, !.made = made]
<1>3. /\ y \in CallRec(B, D) /\ y.at = at /\ y.made = made
      /\ y.key = calls[c].key /\ y.body = calls[c].body /\ y.detail = calls[c].detail
  BY <1>1, <1>2
<1>4. calls' = [calls EXCEPT ![c] = y]
  BY <1>1 DEF PF!Reply, CallTypes
<1> HIDE DEF y
<1>5. calls' \in [PF!Call -> CallRec(B, D) \cup {PF!Unused}]
  BY <1>3, <1>4 DEF CallTypes
<1>6. \A d \in PF!Call \ {c} : calls'[d] = calls[d]
  BY <1>4 DEF CallTypes
<1>7. calls'[c] = y
  BY <1>1, <1>4 DEF CallTypes
<1>8. y # PF!Unused /\ calls[c] # PF!Unused
  BY <1>3, SentTyped
<1>9. PF!SentCalls' = PF!SentCalls
  BY <1>1, <1>6, <1>7, <1>8 DEF PF!SentCalls, PF!Call
<1> QED
  BY <1>3, <1>5, <1>6, <1>7, <1>9

LEMMA CallsInit ==
    ASSUME NEW B, NEW D, SendBounds, PF!CallsInit
    PROVE  CallsInv(B, D) /\ PF!SentCalls = {} /\ idem = 0 /\ waiting = 0 /\ lost = 0
<1>1. /\ twoFactor \in BOOLEAN /\ calls = [c \in PF!Call |-> PF!Unused] /\ waiting = 0
      /\ keys = [k \in 1..MaxKeys |-> PF!FreeKey] /\ ledger = {} /\ idem = 0 /\ minted = 0 /\ lost = 0
  BY DEF PF!CallsInit
<1>2. PF!SentCalls = {}
  BY <1>1 DEF PF!SentCalls
<1>3. \E n \in 0..MaxSends : PF!SentCalls = 1..n
  <2>1. 0 \in 0..MaxSends /\ 1..0 = {}
    BY DEF SendBounds
  <2> QED
    BY <1>2, <2>1
<1>4. CallTypes(B, D)
  BY <1>1, <1>3 DEF CallTypes, KeyRec, SendBounds
<1>5. KeysKept
  BY <1>1, <1>2 DEF KeysKept, DoneOK, PF!FreeKey
<1> QED
  BY <1>1, <1>2, <1>4, <1>5 DEF CallsInv

\* What the API does to one call, whichever way it serves it.
Served(c) ==
    /\ c \in PF!SentCalls /\ calls[c].at \in {"sent", "running"} /\ c \notin ledger
    /\ \A d \in PF!Call \ {c} : calls'[d] = calls[d]
    /\ calls'[c].key = calls[c].key /\ calls'[c].body = calls[c].body
    /\ calls'[c].detail = calls[c].detail
    /\ PF!SentCalls' = PF!SentCalls
    /\ UNCHANGED <<waiting, idem, minted, lost>>
    /\ \/ /\ UNCHANGED ledger
          /\ \A k \in 1..MaxKeys : keys'[k].at = "done" <=> keys[k].at = "done"
       \/ /\ ledger' = ledger \cup {c}
          /\ \A k \in 1..MaxKeys \ {calls[c].key} : keys'[k] = keys[k]
          /\ calls[c].key # 0 =>
                keys[calls[c].key].at # "done" /\ keys'[calls[c].key].at = "done"

LEMMA ArriveKeeps ==
    ASSUME NEW B, NEW D, SendBounds, CallsInv(B, D), NEW c \in PF!Call, PF!Arrive(c)
    PROVE  CallsInv(B, D)' /\ Served(c)
<1>1. CallTypes(B, D) /\ KeysKept
  BY DEF CallsInv
<1>2. /\ calls[c].at = "sent" /\ UNCHANGED <<twoFactor, waiting, ledger, idem, minted, lost>>
      /\ \/ PF!Reply(c, "stepUp", 0) /\ UNCHANGED keys
         \/ PF!Intercept(c)
  BY DEF PF!Arrive
<1>3. c \in PF!SentCalls
  BY <1>2 DEF PF!SentCalls, PF!Unused
<1>4. /\ calls[c] \in CallRec(B, D) /\ calls[c].key \in 0..MaxKeys /\ calls[c].body \in B
      /\ 0 \in 0..MaxSends
  BY <1>1, <1>3, SentTyped, CallFields DEF SendBounds
<1>5. c \notin ledger
  BY <1>1, <1>2, <1>3 DEF KeysKept, MadeOK
<1> DEFINE k == calls[c].key
<1>6. PICK at \in {"running", "ok", "stepUp", "conflict"}, made \in 0..MaxSends :
         /\ PF!Reply(c, at, made)
         /\ \/ UNCHANGED keys /\ (at = "running" => k = 0)
            \/ /\ at = "running" /\ k # 0 /\ keys[k].at = "free"
               /\ keys' = [keys EXCEPT ![k] = [at |-> "running", body |-> calls[c].body]]
         /\ at = "ok" => /\ k # 0 /\ keys[k].at = "done" /\ keys[k].body = calls[c].body
                         /\ made = keys[k].made
  <2>1. CASE PF!Reply(c, "stepUp", 0) /\ UNCHANGED keys
    BY <1>4, <2>1
  <2>2. CASE k = 0 /\ PF!Reply(c, "running", 0) /\ UNCHANGED keys
    BY <1>4, <2>2
  <2>3. CASE /\ k # 0 /\ keys[k].at = "free"
             /\ keys' = [keys EXCEPT ![k] = [at |-> "running", body |-> calls[c].body]]
             /\ PF!Reply(c, "running", 0)
    BY <1>4, <2>3
  <2>4. CASE /\ k # 0 /\ keys[k].at = "done" /\ keys[k].body = calls[c].body
             /\ PF!Reply(c, "ok", keys[k].made) /\ UNCHANGED keys
    <3>1. k \in 1..MaxKeys
      BY <1>4, <2>4 DEF SendBounds
    <3>2. keys[k] \in KeyRec(B)
      BY <1>1, <3>1 DEF CallTypes
    <3>3. keys[k].made \in 0..MaxSends
      BY <2>4, <3>2, KeyFields
    <3> QED
      BY <2>4, <3>3
  <2>5. CASE PF!Reply(c, "conflict", 0) /\ UNCHANGED keys
    BY <1>4, <2>5
  <2> QED
    BY <1>2, <2>1, <2>2, <2>3, <2>4, <2>5 DEF PF!Intercept
<1>7. at \in {"sent", "running"} \cup PF!Answers
  BY DEF PF!Answers
<1>8. /\ calls' \in [PF!Call -> CallRec(B, D) \cup {PF!Unused}]
      /\ \A d \in PF!Call \ {c} : calls'[d] = calls[d]
      /\ calls'[c].at = at /\ calls'[c].made = made
      /\ calls'[c].key = calls[c].key /\ calls'[c].body = calls[c].body
      /\ calls'[c].detail = calls[c].detail
      /\ PF!SentCalls' = PF!SentCalls
  BY <1>1, <1>3, <1>6, <1>7, AnswerMoves
<1>9. /\ keys' \in [1..MaxKeys -> KeyRec(B)]
      /\ \A j \in 1..MaxKeys \ {k} : keys'[j] = keys[j]
      /\ \/ keys' = keys /\ (at = "running" => k = 0)
         \/ at = "running" /\ k \in 1..MaxKeys /\ keys[k].at = "free" /\ keys'[k].at = "running"
  <2>1. CASE UNCHANGED keys /\ (at = "running" => k = 0)
    BY <1>1, <2>1 DEF CallTypes
  <2>2. CASE /\ at = "running" /\ k # 0 /\ keys[k].at = "free"
             /\ keys' = [keys EXCEPT ![k] = [at |-> "running", body |-> calls[c].body]]
    <3>1. k \in 1..MaxKeys
      BY <1>4, <2>2 DEF SendBounds
    <3>2. [at |-> "running", body |-> calls[c].body] \in KeyRec(B)
      BY <1>4 DEF KeyRec
    <3> HIDE DEF k
    <3> QED
      BY <1>1, <2>2, <3>1, <3>2 DEF CallTypes
  <2> QED
    BY <1>6, <2>1, <2>2
<1> HIDE DEF k
<1>10. CallTypes(B, D)'
  BY <1>1, <1>2, <1>8, <1>9 DEF CallTypes
<1>11. \A d \in PF!SentCalls : d \in PF!Call /\ calls[d].key \in 0..MaxKeys
  BY <1>1, SentTyped, CallFields
<1>12. ASSUME NEW d \in PF!SentCalls PROVE calls'[d].key <= minted' /\ MadeOK(d)'
  <2>1. calls[d].key <= minted /\ MadeOK(d) /\ calls[d].key \in 0..MaxKeys
    BY <1>1, <1>11 DEF KeysKept
  <2>2. calls'[d].key = calls[d].key
    BY <1>8, <1>11
  <2>3. ASSUME d \in ledger PROVE MadeOK(d)'
    <3>1. d # c /\ calls'[d] = calls[d]
      BY <1>5, <1>8, <1>11, <2>3
    <3>2. calls[d].key # 0 => keys'[calls[d].key] = keys[calls[d].key]
      BY <1>9, <2>1, <2>3 DEF MadeOK, SendBounds
    <3> QED
      BY <1>2, <2>1, <2>3, <3>1, <3>2 DEF MadeOK
  <2> QED
    BY <1>2, <2>1, <2>2, <2>3 DEF MadeOK
<1>13. \A d \in PF!SentCalls : OkOK(d)'
  <2>1. ledger \subseteq PF!SentCalls /\ ledger \subseteq PF!Call \ {c}
    BY <1>1, <1>5, <1>11 DEF CallTypes
  <2>2. ASSUME NEW d \in PF!SentCalls, d # c PROVE OkOK(d)'
    BY <1>1, <1>2, <1>8, <1>11, <2>1, <2>2 DEF KeysKept, OkOK
  <2>3. OkOK(c)'
    <3>1. CASE at = "ok"
      <4>1. k \in 1..MaxKeys /\ made = keys[k].made /\ keys[k].at = "done" /\ keys[k].body = calls[c].body
        BY <1>4, <1>6, <3>1 DEF k, SendBounds
      <4>2. made \in ledger /\ calls[made].key = k /\ calls[made].body = keys[k].body
        BY <1>1, <4>1 DEF KeysKept, DoneOK
      <4>3. calls'[made] = calls[made]
        BY <1>8, <2>1, <4>2
      <4> QED
        BY <1>2, <1>8, <4>1, <4>2, <4>3 DEF OkOK, k
    <3>2. CASE at # "ok"
      BY <1>8, <3>2 DEF OkOK
    <3> QED
      BY <3>1, <3>2
  <2> QED
    BY <2>2, <2>3
<1>14. ASSUME NEW d \in PF!SentCalls PROVE RunOK(d)'
  <2>1. RunOK(d) /\ calls[d].key \in 0..MaxKeys
    BY <1>1, <1>11 DEF KeysKept
  <2>2. \A e \in PF!SentCalls : /\ RunOK(e) /\ calls[e].key \in 0..MaxKeys
                                /\ calls'[e].key = calls[e].key
                                /\ e # c => calls'[e] = calls[e]
    BY <1>1, <1>8, <1>11 DEF KeysKept
  <2>3. CASE d = c
    <3>1. CASE at = "running" /\ k # 0
      <4>1. k \in 1..MaxKeys /\ keys[k].at = "free" /\ keys'[k].at = "running" /\ calls[d].key = k
        BY <1>9, <2>3, <3>1 DEF k
      <4>2. \A e \in PF!SentCalls : e # d /\ calls[e].key = k => calls'[e].at # "running"
        BY <2>2, <2>3, <4>1 DEF RunOK
      <4> QED
        BY <1>8, <2>2, <2>3, <4>1, <4>2 DEF RunOK
    <3>2. CASE ~(at = "running" /\ k # 0)
      BY <1>8, <2>3, <3>2 DEF RunOK, k
    <3> QED
      BY <3>1, <3>2
  <2>4. CASE d # c
    <3>1. SUFFICES ASSUME calls[d].at = "running", calls[d].key # 0 PROVE RunOK(d)'
      BY <2>2, <2>4 DEF RunOK
    <3>2. keys[calls[d].key].at = "running" /\ calls[d].key \in 1..MaxKeys
      BY <2>1, <3>1 DEF RunOK, SendBounds
    <3>3. keys'[calls[d].key].at = "running"
      BY <1>9, <3>2
    <3>4. calls[c].key = calls[d].key => at # "running"
      BY <1>9, <3>1, <3>2 DEF k
    <3> QED
      BY <1>8, <2>1, <2>2, <2>4, <3>1, <3>3, <3>4 DEF RunOK
  <2> QED
    BY <2>3, <2>4
<1>15. ASSUME NEW j \in 1..MaxKeys PROVE (j > minted' => keys'[j].at = "free") /\ DoneOK(j)'
  <2>1. (j > minted => keys[j].at = "free") /\ DoneOK(j) /\ minted' = minted /\ ledger' = ledger
    BY <1>1, <1>2 DEF KeysKept
  <2>2. CASE keys'[j] = keys[j]
    <3>1. \A d \in ledger : calls'[d] = calls[d]
      BY <1>1, <1>5, <1>8, <1>11 DEF CallTypes
    <3> QED
      BY <2>1, <2>2, <3>1 DEF DoneOK
  <2>3. CASE keys'[j] # keys[j]
    <3>1. j = k /\ keys'[j].at = "running" /\ k <= minted
      BY <1>1, <1>3, <1>9, <2>3 DEF KeysKept, k
    <3>2. ~(j > minted)
      BY <1>1, <3>1 DEF CallTypes, SendBounds
    <3> QED
      BY <2>1, <3>1, <3>2 DEF DoneOK
  <2> QED
    BY <2>2, <2>3
<1>16. KeysKept'
  BY <1>8, <1>12, <1>13, <1>14, <1>15 DEF KeysKept
<1>17. Served(c)
  BY <1>2, <1>3, <1>5, <1>8, <1>9 DEF Served
<1> QED
  BY <1>10, <1>16, <1>17 DEF CallsInv

\* The handler ends: the payment is made, or its key is free again.
LEMMA HandlerKeeps ==
    ASSUME NEW B, NEW D, SendBounds, CallsInv(B, D), NEW c \in PF!Call,
           PF!Commit(c) \/ PF!Refuse(c)
    PROVE  CallsInv(B, D)' /\ Served(c)
<1>1. CallTypes(B, D) /\ KeysKept
  BY DEF CallsInv
<1>2. calls[c].at = "running" /\ UNCHANGED <<twoFactor, waiting, idem, minted, lost>>
  BY DEF PF!Commit, PF!Refuse
<1>3. c \in PF!SentCalls
  BY <1>2 DEF PF!SentCalls, PF!Unused
<1>4. /\ calls[c] \in CallRec(B, D) /\ calls[c].key \in 0..MaxKeys /\ calls[c].body \in B
      /\ 0 \in 0..MaxSends /\ c \in 0..MaxSends /\ c \in 1..MaxSends
  BY <1>1, <1>3, SentTyped, CallFields DEF SendBounds, PF!Call
<1>5. c \notin ledger
  BY <1>1, <1>2, <1>3 DEF KeysKept, MadeOK
<1> DEFINE k == calls[c].key
<1>6. PICK at \in {"ok", "refused"}, made \in 0..MaxSends, row \in KeyRec(B) :
         /\ PF!Reply(c, at, made)
         /\ keys' = IF k = 0 THEN keys ELSE [keys EXCEPT ![k] = row]
         /\ \/ /\ at = "ok" /\ made = c /\ ledger' = ledger \cup {c}
               /\ row.at = "done" /\ row.made = c /\ row.body = calls[c].body
            \/ at = "refused" /\ ledger' = ledger /\ row.at = "free"
  <2>1. CASE PF!Commit(c)
    <3> DEFINE row == [at |-> "done", body |-> calls[c].body, made |-> c]
    <3>1. row \in KeyRec(B) /\ row.at = "done" /\ row.made = c /\ row.body = calls[c].body
      BY <1>4 DEF KeyRec
    <3>2. /\ PF!Reply(c, "ok", c) /\ ledger' = ledger \cup {c}
          /\ keys' = IF k = 0 THEN keys ELSE [keys EXCEPT ![k] = row]
      BY <2>1 DEF PF!Commit
    <3> HIDE DEF row
    <3> QED
      BY <1>4, <3>1, <3>2
  <2>2. CASE PF!Refuse(c)
    <3>1. PF!FreeKey \in KeyRec(B) /\ PF!FreeKey.at = "free"
      BY DEF KeyRec, PF!FreeKey
    <3>2. /\ PF!Reply(c, "refused", 0) /\ ledger' = ledger
          /\ keys' = IF k = 0 THEN keys ELSE [keys EXCEPT ![k] = PF!FreeKey]
      BY <2>2 DEF PF!Refuse
    <3> QED
      BY <1>4, <3>1, <3>2
  <2> QED
    BY <2>1, <2>2
<1>7. at \in {"sent", "running"} \cup PF!Answers
  BY DEF PF!Answers
<1>8. /\ calls' \in [PF!Call -> CallRec(B, D) \cup {PF!Unused}]
      /\ \A d \in PF!Call \ {c} : calls'[d] = calls[d]
      /\ calls'[c].at = at /\ calls'[c].made = made
      /\ calls'[c].key = calls[c].key /\ calls'[c].body = calls[c].body
      /\ calls'[c].detail = calls[c].detail
      /\ PF!SentCalls' = PF!SentCalls
  BY <1>1, <1>3, <1>6, <1>7, AnswerMoves
<1>9. /\ keys' \in [1..MaxKeys -> KeyRec(B)]
      /\ \A j \in 1..MaxKeys \ {k} : keys'[j] = keys[j]
      /\ k # 0 => k \in 1..MaxKeys /\ keys'[k] = row /\ keys[k].at = "running"
  <2>1. k \in 0..MaxKeys /\ (k # 0 => keys[k].at = "running")
    BY <1>1, <1>2, <1>3, <1>4 DEF KeysKept, RunOK
  <2> HIDE DEF k
  <2> QED
    BY <1>1, <1>6, <2>1 DEF CallTypes, SendBounds
<1> HIDE DEF k
<1>10. ledger' \subseteq PF!SentCalls /\ ledger \subseteq PF!SentCalls
  BY <1>1, <1>3, <1>6 DEF CallTypes
<1>11. CallTypes(B, D)'
  BY <1>1, <1>2, <1>8, <1>9, <1>10 DEF CallTypes
<1>12. \A d \in PF!SentCalls :
          /\ d \in PF!Call /\ calls[d].key \in 0..MaxKeys /\ calls'[d].key = calls[d].key
          /\ calls'[d].body = calls[d].body /\ (d # c => calls'[d] = calls[d])
          /\ calls[d].key <= minted /\ MadeOK(d) /\ OkOK(d) /\ RunOK(d)
  BY <1>1, <1>8, SentTyped, CallFields DEF KeysKept
<1>13. ASSUME NEW d \in PF!SentCalls PROVE calls'[d].key <= minted' /\ MadeOK(d)'
  <2>1. ASSUME d = c, d \in ledger' PROVE MadeOK(d)'
    <3>1. at = "ok" /\ made = c /\ row.at = "done" /\ row.made = c
      BY <1>5, <1>6, <2>1
    <3> QED
      BY <1>8, <1>9, <2>1, <3>1 DEF MadeOK, k
  <2>2. ASSUME d # c, d \in ledger' PROVE MadeOK(d)'
    <3>1. d \in ledger /\ calls'[d] = calls[d]
      BY <1>6, <1>12, <2>2
    <3>2. calls[d].key # 0 => calls[d].key \in 1..MaxKeys /\ keys[calls[d].key].at = "done"
      BY <1>12, <3>1 DEF MadeOK, SendBounds
    <3>3. calls[d].key # 0 => keys'[calls[d].key] = keys[calls[d].key]
      BY <1>9, <3>2
    <3> QED
      BY <1>12, <3>1, <3>3 DEF MadeOK
  <2> QED
    BY <1>2, <1>12, <2>1, <2>2 DEF MadeOK
<1>14. ASSUME NEW d \in PF!SentCalls PROVE OkOK(d)'
  <2>1. CASE d = c
    BY <1>6, <1>8, <2>1 DEF OkOK
  <2>2. CASE d # c
    <3>1. SUFFICES ASSUME calls[d].at = "ok" PROVE OkOK(d)'
      BY <1>12, <2>2 DEF OkOK
    <3>2. calls[d].made \in ledger
      BY <1>12, <3>1 DEF OkOK
    <3>3. calls[d].made \in PF!SentCalls /\ calls[d].made # c
      BY <1>5, <1>10, <3>2
    <3>4. calls'[d] = calls[d] /\ calls'[calls[d].made] = calls[calls[d].made] /\ calls[d].made \in ledger'
      BY <1>6, <1>12, <2>2, <3>2, <3>3
    <3> QED
      BY <1>12, <3>1, <3>4 DEF OkOK
  <2> QED
    BY <2>1, <2>2
<1>15. ASSUME NEW d \in PF!SentCalls PROVE RunOK(d)'
  <2>1. CASE d = c
    BY <1>6, <1>8, <2>1 DEF RunOK
  <2>2. CASE d # c
    <3>1. SUFFICES ASSUME calls[d].at = "running", calls[d].key # 0 PROVE RunOK(d)'
      BY <1>12, <2>2 DEF RunOK
    <3>2. keys[calls[d].key].at = "running" /\ calls[d].key \in 1..MaxKeys
      BY <1>12, <3>1 DEF RunOK, SendBounds
    <3>3. calls[d].key # k
      BY <1>2, <1>3, <1>12, <2>2, <3>1 DEF RunOK, k
    <3>4. keys'[calls[d].key] = keys[calls[d].key]
      BY <1>9, <3>2, <3>3
    <3>5. \A e \in PF!SentCalls :
             e # d /\ calls[e].key = calls[d].key => e # c /\ calls[e].at # "running"
      BY <1>12, <3>1, <3>3 DEF RunOK, k
    <3> QED
      BY <1>8, <1>12, <2>2, <3>2, <3>4, <3>5 DEF RunOK
  <2> QED
    BY <2>1, <2>2
<1>16. ASSUME NEW j \in 1..MaxKeys PROVE (j > minted' => keys'[j].at = "free") /\ DoneOK(j)'
  <2>1. (j > minted => keys[j].at = "free") /\ DoneOK(j) /\ minted' = minted
    BY <1>1, <1>2 DEF KeysKept
  <2>2. CASE j # k
    <3>1. keys'[j] = keys[j] /\ ledger \subseteq ledger'
      BY <1>6, <1>9, <2>2
    <3>2. ASSUME keys[j].at = "done"
          PROVE  keys[j].made \in ledger' /\ calls'[keys[j].made] = calls[keys[j].made]
      BY <1>5, <1>10, <1>12, <2>1, <3>1, <3>2 DEF DoneOK
    <3> QED
      BY <2>1, <3>1, <3>2 DEF DoneOK
  <2>3. CASE j = k
    <3>1. k # 0 /\ keys'[j] = row /\ ~(j > minted)
      BY <1>3, <1>9, <1>12, <2>1, <2>3 DEF SendBounds
    <3>2. ASSUME row.at = "done" PROVE DoneOK(j)'
      BY <1>6, <1>8, <2>3, <3>1, <3>2 DEF DoneOK, k
    <3> QED
      BY <2>1, <3>1, <3>2 DEF DoneOK
  <2> QED
    BY <2>2, <2>3
<1>17. KeysKept'
  BY <1>8, <1>13, <1>14, <1>15, <1>16 DEF KeysKept
<1>18. Served(c)
  <2>1. CASE at = "ok"
    BY <1>2, <1>3, <1>5, <1>6, <1>8, <1>9, <2>1 DEF Served, k
  <2>2. CASE at = "refused"
    <3>1. \A j \in 1..MaxKeys : keys'[j].at = "done" <=> keys[j].at = "done"
      BY <1>6, <1>9, <2>2
    <3> QED
      BY <1>2, <1>3, <1>5, <1>6, <1>8, <2>2, <3>1 DEF Served
  <2> QED
    BY <2>1, <2>2
<1> QED
  BY <1>11, <1>17, <1>18 DEF CallsInv

LEMMA ServeKeeps ==
    ASSUME NEW B, NEW D, SendBounds, CallsInv(B, D), PF!Serve
    PROVE  CallsInv(B, D)' /\ \E c \in PF!Call : Served(c)
<1>1. PICK c \in PF!Call : PF!Arrive(c) \/ PF!Commit(c) \/ PF!Refuse(c)
  BY DEF PF!Serve
<1>2. CASE PF!Arrive(c)
  BY <1>2, ArriveKeeps
<1>3. CASE PF!Commit(c) \/ PF!Refuse(c)
  BY <1>3, HandlerKeeps
<1> QED
  BY <1>1, <1>2, <1>3

\* The forms count with the Cardinality they extend, which is this one.
LEMMA FormCardinality ==
    ASSUME NEW S
    PROVE  PF!Cardinality(S) = Cardinality(S) /\ EF!Cardinality(S) = Cardinality(S)
BY DEF PF!Cardinality, EF!Cardinality, Cardinality

LEMMA SentCount ==
    ASSUME NEW B, NEW D, SendBounds, CallTypes(B, D)
    PROVE  /\ IsFiniteSet(PF!SentCalls) /\ Cardinality(PF!SentCalls) \in 0..MaxSends
           /\ Cardinality(PF!SentCalls) \in Nat /\ lost \in Nat
           /\ PF!SentCalls = 1..Cardinality(PF!SentCalls)
           /\ PF!NextCall = Cardinality(PF!SentCalls) + 1
<1>1. PICK n \in 0..MaxSends : PF!SentCalls = 1..n
  BY DEF CallTypes
<1>2. IsFiniteSet(1..n) /\ Cardinality(1..n) = n
  <2>1. n \in Int /\ n >= 0
    BY DEF SendBounds
  <2> QED
    BY <2>1, FS_Interval
<1> QED
  BY <1>1, <1>2, FormCardinality DEF PF!NextCall, SendBounds, CallTypes

\* A request leaves, with the key of the operation or with none.
LEMMA SendMoves ==
    ASSUME NEW B, NEW D, SendBounds, CallsInv(B, D),
           NEW key \in Nat, key = 0 \/ key = PF!Key, NEW body \in B, NEW detail \in D,
           PF!Send(key, body, detail)
    PROVE  /\ CallsInv(B, D)'
           /\ waiting = 0 /\ waiting' # 0 /\ waiting' \notin PF!SentCalls
           /\ waiting' \in PF!SentCalls' /\ PF!SentCalls' = PF!SentCalls \cup {waiting'}
           /\ \A d \in PF!SentCalls : calls'[d] = calls[d] /\ d # waiting'
           /\ calls'[waiting'].at = "sent" /\ calls'[waiting'].key = key
           /\ calls'[waiting'].body = body /\ calls'[waiting'].detail = detail
           /\ Cardinality(PF!SentCalls') = Cardinality(PF!SentCalls) + 1
           /\ UNCHANGED <<keys, ledger, lost>>
           /\ idem' = (IF key = 0 THEN idem ELSE key)
           /\ key # 0 /\ idem = 0 => keys[key].at = "free" /\ key \in 1..MaxKeys
                                     /\ \A d \in PF!SentCalls : calls[d].key # key
<1> DEFINE x == [at |-> "sent", key |-> key, body |-> body, made |-> 0, detail |-> detail]
<1>1. CallTypes(B, D) /\ KeysKept
  BY DEF CallsInv
<1>2. PICK n \in 0..MaxSends :
         PF!SentCalls = 1..n /\ PF!NextCall = n + 1 /\ Cardinality(PF!SentCalls) = n
  BY <1>1, SentCount
<1>2a. n \in Nat /\ n <= MaxSends /\ PF!SentCalls = 1..n /\ PF!NextCall = n + 1
  BY <1>2 DEF SendBounds
<1>2b. IsFiniteSet(PF!SentCalls)
  BY <1>1, SentCount
<1>3. /\ waiting = 0 /\ n + 1 \in PF!Call /\ key <= MaxKeys /\ waiting' = n + 1
      /\ calls' = [calls EXCEPT ![n + 1] = x]
      /\ idem' = (IF key = 0 THEN idem ELSE key)
      /\ minted' = (IF key > minted THEN key ELSE minted)
      /\ UNCHANGED <<twoFactor, keys, ledger, lost>>
  <2>1. minted \in Nat
    BY <1>1 DEF CallTypes, SendBounds
  <2> QED
    BY <1>2a, <2>1 DEF PF!Send
<1>4. x \in CallRec(B, D) /\ x.at = "sent" /\ x.key = key /\ x.body = body /\ x.detail = detail
      /\ x.made = 0
  BY <1>3 DEF CallRec, SendBounds
<1> HIDE DEF x
<1>5. /\ calls' \in [PF!Call -> CallRec(B, D) \cup {PF!Unused}] /\ calls'[n + 1] = x
      /\ \A d \in PF!Call \ {n + 1} : calls'[d] = calls[d]
  BY <1>1, <1>3, <1>4 DEF CallTypes
<1>6. n + 1 \notin PF!SentCalls /\ n \in Nat
  BY <1>2a
<1>7. x # PF!Unused
  BY <1>1, <1>4, SentTyped
<1>8. PF!SentCalls' = PF!SentCalls \cup {n + 1} /\ PF!SentCalls \subseteq PF!Call
  BY <1>3, <1>5, <1>7 DEF PF!SentCalls, PF!Call
<1>9. PF!SentCalls' = 1..(n + 1) /\ n + 1 \in 0..MaxSends
  BY <1>3, <1>8, <1>2a DEF PF!Call, SendBounds
<1>10. Cardinality(PF!SentCalls') = n + 1
  BY <1>2, <1>6, <1>8, <1>2b, FS_AddElement
<1>11. /\ idem \in Nat /\ minted \in Nat /\ idem <= minted /\ minted <= MaxKeys
       /\ idem' \in Nat /\ minted' \in Nat /\ idem' <= minted' /\ minted' <= MaxKeys
       /\ minted <= minted' /\ key <= minted'
       /\ key # 0 => key \in 1..MaxKeys
       /\ key # 0 /\ idem = 0 => key > minted
  BY <1>1, <1>3 DEF CallTypes, SendBounds, PF!Key
<1>12. CallTypes(B, D)'
  <2>1. idem' \in 0..minted' /\ minted' \in 0..MaxKeys
    BY <1>11 DEF SendBounds
  <2>2. waiting' \in PF!SentCalls'
    BY <1>3, <1>8
  <2>3. ledger' \subseteq PF!SentCalls' /\ keys' \in [1..MaxKeys -> KeyRec(B)]
        /\ twoFactor' \in BOOLEAN /\ lost' \in Nat
    BY <1>1, <1>3, <1>8 DEF CallTypes
  <2> QED
    BY <1>5, <1>9, <2>1, <2>2, <2>3 DEF CallTypes
<1>13. \A d \in PF!SentCalls :
          /\ d \in PF!Call /\ d # n + 1 /\ calls'[d] = calls[d] /\ calls[d].key \in 0..MaxKeys
          /\ calls[d].key <= minted /\ MadeOK(d) /\ OkOK(d) /\ RunOK(d)
  BY <1>1, <1>5, <1>6, <1>8, SentTyped, CallFields DEF KeysKept
<1>14. ledger \subseteq PF!SentCalls
  BY <1>1 DEF CallTypes
<1>15. ASSUME NEW d \in PF!SentCalls
       PROVE  calls'[d].key <= minted' /\ MadeOK(d)' /\ OkOK(d)' /\ RunOK(d)'
  <2>1. calls'[d].key <= minted'
    BY <1>11, <1>13 DEF SendBounds
  <2>2. MadeOK(d)'
    BY <1>3, <1>13 DEF MadeOK
  <2>3. OkOK(d)'
    BY <1>3, <1>13, <1>14 DEF OkOK
  <2>4. RunOK(d)'
    BY <1>3, <1>4, <1>5, <1>8, <1>13 DEF RunOK
  <2> QED
    BY <2>1, <2>2, <2>3, <2>4
<1>16. calls'[n + 1].key <= minted' /\ MadeOK(n + 1)' /\ OkOK(n + 1)' /\ RunOK(n + 1)'
  BY <1>3, <1>4, <1>5, <1>6, <1>11, <1>14 DEF MadeOK, OkOK, RunOK
<1>17. ASSUME NEW j \in 1..MaxKeys PROVE (j > minted' => keys'[j].at = "free") /\ DoneOK(j)'
  <2>1. (j > minted => keys[j].at = "free") /\ DoneOK(j)
    BY <1>1 DEF KeysKept
  <2>2. j > minted' => j > minted
    BY <1>11 DEF SendBounds
  <2>3. DoneOK(j)'
    BY <1>3, <1>13, <1>14, <2>1 DEF DoneOK
  <2> QED
    BY <1>3, <2>1, <2>2, <2>3
<1>18. KeysKept'
  BY <1>8, <1>15, <1>16, <1>17 DEF KeysKept
<1>19. key # 0 /\ idem = 0 => keys[key].at = "free" /\ \A d \in PF!SentCalls : calls[d].key # key
  <2> SUFFICES ASSUME key # 0, idem = 0
               PROVE  keys[key].at = "free" /\ \A d \in PF!SentCalls : calls[d].key # key
    OBVIOUS
  <2>1. key \in 1..MaxKeys /\ key > minted
    BY <1>11
  <2>2. keys[key].at = "free"
    BY <1>1, <2>1 DEF KeysKept
  <2>3. \A d \in PF!SentCalls : calls[d].key # key
    BY <1>11, <1>13, <2>1 DEF SendBounds
  <2> QED
    BY <2>2, <2>3
<1>20. waiting = 0 /\ waiting' = n + 1 /\ waiting' # 0 /\ waiting' \notin PF!SentCalls
  BY <1>3, <1>6
<1>21. /\ CallsInv(B, D)' /\ PF!SentCalls' = PF!SentCalls \cup {waiting'} /\ waiting' \in PF!SentCalls'
       /\ \A d \in PF!SentCalls : calls'[d] = calls[d] /\ d # waiting'
  BY <1>8, <1>12, <1>13, <1>18, <1>20 DEF CallsInv
<1>22. /\ calls'[waiting'].at = "sent" /\ calls'[waiting'].key = key
       /\ calls'[waiting'].body = body /\ calls'[waiting'].detail = detail
  BY <1>4, <1>5, <1>20
<1>23. Cardinality(PF!SentCalls') = Cardinality(PF!SentCalls) + 1
  BY <1>2, <1>10
<1> QED
  BY <1>3, <1>11, <1>19, <1>20, <1>21, <1>22, <1>23

\* The page stops waiting: it heard the answer, lost it or was left.
LEMMA WaitEnds ==
    ASSUME NEW B, NEW D, SendBounds, CallsInv(B, D),
           waiting' = 0, idem' \in {0, idem}, lost' \in Nat,
           UNCHANGED <<twoFactor, calls, keys, ledger, minted>>
    PROVE  CallsInv(B, D)' /\ PF!SentCalls' = PF!SentCalls
<1>1. PF!SentCalls' = PF!SentCalls
  BY DEF PF!SentCalls
<1>2. CallTypes(B, D)'
  BY <1>1 DEF CallsInv, CallTypes, SendBounds
<1>3. KeysKept'
  BY <1>1 DEF CallsInv, KeysKept, MadeOK, OkOK, RunOK, DoneOK
<1> QED
  BY <1>1, <1>2, <1>3 DEF CallsInv

LEMMA CallsAsTheyAre ==
    ASSUME NEW B, NEW D, CallsInv(B, D), UNCHANGED PF!callVars
    PROVE  CallsInv(B, D)' /\ PF!SentCalls' = PF!SentCalls
           /\ UNCHANGED <<twoFactor, calls, waiting, keys, ledger, idem, minted, lost>>
<1>1. UNCHANGED <<twoFactor, calls, waiting, keys, ledger, idem, minted, lost>>
  BY DEF PF!callVars
<1>2. PF!SentCalls' = PF!SentCalls
  BY <1>1 DEF PF!SentCalls
<1>3. CallTypes(B, D)'
  BY <1>1, <1>2 DEF CallsInv, CallTypes
<1>4. KeysKept'
  BY <1>1, <1>2 DEF CallsInv, KeysKept, MadeOK, OkOK, RunOK, DoneOK
<1> QED
  BY <1>1, <1>2, <1>3, <1>4 DEF CallsInv

\* What CallsTypeOK of the forms says.
LEMMA CallsTyped ==
    ASSUME NEW B, NEW D, SendBounds, CallsInv(B, D), lost <= Cardinality(PF!SentCalls)
    PROVE  PF!CallsTypeOK(B) /\ EF!CallsTypeOK(B)
<1>1. CallTypes(B, D) /\ KeysKept
  BY DEF CallsInv
<1>2. Cardinality(PF!SentCalls) \in 0..MaxSends /\ lost \in Nat
  BY <1>1, SentCount DEF CallTypes
<1>3. lost \in 0..MaxSends
  BY <1>2 DEF SendBounds
<1>4. idem \in 0..MaxKeys /\ waiting \in 0..MaxSends /\ ledger \subseteq PF!Call
      /\ twoFactor \in BOOLEAN /\ minted \in 0..MaxKeys
  BY <1>1, SentTyped DEF CallTypes, SendBounds, PF!Call
<1>5. ASSUME NEW c \in PF!Call
      PROVE  \/ calls[c] = PF!Unused
             \/ /\ calls[c].at \in {"sent", "running"} \cup PF!Answers
                /\ calls[c].body \in B /\ calls[c].key \in 0..MaxKeys /\ calls[c].made \in 0..MaxSends
  BY <1>1, CallFields DEF CallTypes
<1>6. ASSUME NEW k \in 1..MaxKeys
      PROVE  \/ keys[k] = PF!FreeKey
             \/ keys[k].at = "running" /\ keys[k].body \in B
             \/ keys[k].at = "done" /\ keys[k].body \in B /\ keys[k].made \in ledger
  <2>1. keys[k] \in KeyRec(B) /\ DoneOK(k)
    BY <1>1 DEF CallTypes, KeysKept
  <2> QED
    BY <2>1, KeyFields DEF DoneOK
<1>7. PF!CallsTypeOK(B)
  BY <1>3, <1>4, <1>5, <1>6 DEF PF!CallsTypeOK
<1>8. EF!CallsTypeOK(B)
  BY <1>3, <1>4, <1>5, <1>6 DEF EF!CallsTypeOK, EF!Call, PF!Call, EF!Unused, PF!Unused, EF!Answers,
     PF!Answers, EF!FreeKey, PF!FreeKey
<1> QED
  BY <1>7, <1>8

-----------------------------------------------------------------------------
(***************************************************************************)
(* The exchange screen.  One visit has one key, and a key makes one        *)
(* payment; what a call was quoted is what it asks for.                    *)
(***************************************************************************)
ExchangeDetail == [guarded : BOOLEAN, grant : BOOLEAN, quoted : EF!Question]

ExchangeTypes ==
    /\ from \in Wallet /\ to \in Wallet /\ amount \in Amount \cup {0}
    /\ result \in EF!Question \cup {EF!NoQuestion}
    /\ failedFor \in EF!Question \cup {EF!NoQuestion}
    /\ quote \in [at : {"timer", "asked"}, for : EF!Question] \cup {EF!Idle}
    /\ done \in [sent : EF!Question, quoted : EF!Question] \cup {EF!NotDone}
    /\ edits \in 0..MaxEdits
    /\ from # to

OneKey ==
    /\ \A c \in PF!SentCalls : calls[c].key = 1 /\ calls[c].detail.quoted = calls[c].body
    /\ minted \in {0, 1} /\ (done = EF!NotDone => idem = minted)
    /\ done # EF!NotDone =>
          /\ done.quoted = done.sent
          /\ \E c \in ledger : calls[c].body = done.sent
    /\ lost + (IF waiting = 0 THEN 0 ELSE 1) <= Cardinality(PF!SentCalls)

ExchangeInv == CallsInv(EF!Question, ExchangeDetail) /\ ExchangeTypes /\ OneKey

LEMMA SameCalls ==
    /\ EF!CallsInit <=> PF!CallsInit
    /\ EF!Serve <=> PF!Serve
    /\ EF!Lose <=> PF!Lose
    /\ EF!Key = PF!Key
    /\ \A reset : EF!Hear(reset) <=> PF!Hear(reset)
    /\ \A k, b, d : EF!Send(k, b, d) <=> PF!Send(k, b, d)
    /\ UNCHANGED EF!callVars <=> UNCHANGED PF!callVars
<1>1. /\ EF!Call = PF!Call /\ EF!Unused = PF!Unused /\ EF!FreeKey = PF!FreeKey
      /\ EF!Answers = PF!Answers /\ EF!Key = PF!Key
      /\ EF!SentCalls = PF!SentCalls /\ EF!NextCall = PF!NextCall
  BY FormCardinality DEF EF!Call, PF!Call, EF!Unused, PF!Unused, EF!FreeKey, PF!FreeKey, EF!Answers,
     PF!Answers, EF!Key, PF!Key, EF!SentCalls, PF!SentCalls, EF!NextCall, PF!NextCall
<1>2. EF!CallsInit <=> PF!CallsInit
  BY <1>1 DEF EF!CallsInit, PF!CallsInit
<1>3. \A c, at, made : EF!Reply(c, at, made) <=> PF!Reply(c, at, made)
  BY DEF EF!Reply, PF!Reply
<1>4. \A c : EF!StepUp(c) <=> PF!StepUp(c)
  BY Zenon DEF EF!StepUp, PF!StepUp
<1>5. \A c : EF!Intercept(c) <=> PF!Intercept(c)
  BY <1>3, Zenon DEF EF!Intercept, PF!Intercept
<1>6. \A c : EF!Arrive(c) <=> PF!Arrive(c)
  BY <1>3, <1>4, <1>5, Zenon DEF EF!Arrive, PF!Arrive
<1>7. \A c : (EF!Commit(c) <=> PF!Commit(c)) /\ (EF!Refuse(c) <=> PF!Refuse(c))
  BY <1>1, <1>3 DEF EF!Commit, PF!Commit, EF!Refuse, PF!Refuse
<1>8. EF!Serve <=> PF!Serve
  BY <1>1, <1>6, <1>7, Zenon DEF EF!Serve, PF!Serve
<1>9. EF!Lose <=> PF!Lose
  BY Zenon DEF EF!Lose, PF!Lose
<1>10. \A reset : EF!Hear(reset) <=> PF!Hear(reset)
  BY <1>1, Zenon DEF EF!Hear, PF!Hear
<1>11. \A k, b, d : EF!Send(k, b, d) <=> PF!Send(k, b, d)
  BY <1>1, Zenon DEF EF!Send, PF!Send
<1>12. UNCHANGED EF!callVars <=> UNCHANGED PF!callVars
  BY DEF EF!callVars, PF!callVars
<1> QED
  BY <1>1, <1>2, <1>8, <1>9, <1>10, <1>11, <1>12

LEMMA ExchangeInit ==
    ASSUME SendBounds, MaxEdits \in Nat, EF!Init
    PROVE  ExchangeInv
<1>1. /\ PF!CallsInit /\ from # to /\ from \in Wallet /\ to \in Wallet
      /\ amount = 0 /\ result = EF!NoQuestion /\ failedFor = EF!NoQuestion
      /\ quote = EF!Idle /\ done = EF!NotDone /\ edits = 0
  BY SameCalls DEF EF!Init
<1>2. /\ CallsInv(EF!Question, ExchangeDetail) /\ PF!SentCalls = {}
      /\ idem = 0 /\ waiting = 0 /\ lost = 0
  BY <1>1, CallsInit
<1>3. minted = 0
  BY <1>1 DEF PF!CallsInit
<1>4. ExchangeTypes
  BY <1>1 DEF ExchangeTypes
<1>5. OneKey
  BY <1>1, <1>2, <1>3, FS_EmptySet DEF OneKey
<1> QED
  BY <1>2, <1>4, <1>5 DEF ExchangeInv

\* Wherever a step leaves the calls alone, only the screen counts.
LEMMA ScreenMoves ==
    ASSUME ExchangeInv, UNCHANGED PF!callVars, done' = done, ExchangeTypes'
    PROVE  ExchangeInv'
<1>1. CallsInv(EF!Question, ExchangeDetail)' /\ PF!SentCalls' = PF!SentCalls
      /\ UNCHANGED <<twoFactor, calls, waiting, keys, ledger, idem, minted, lost>>
  BY CallsAsTheyAre DEF ExchangeInv
<1>2. OneKey'
  BY <1>1 DEF ExchangeInv, OneKey
<1> QED
  BY <1>1, <1>2 DEF ExchangeInv

LEMMA AskedFor ==
    ASSUME NEW f \in Wallet, NEW t \in Wallet, NEW a \in Amount \cup {0}
    PROVE  IF a = 0 THEN EF!Asking(f, t, a) = EF!NoQuestion ELSE EF!Asking(f, t, a) \in EF!Question
BY DEF EF!Asking, EF!Question

LEMMA ChangeKeeps ==
    ASSUME MaxEdits \in Nat, ExchangeInv, NEW f \in Wallet, NEW t \in Wallet,
           NEW a \in Amount \cup {0}, f # t, EF!Change(f, t, a)
    PROVE  ExchangeInv'
<1> DEFINE question == EF!Asking(f, t, a)
<1>1. /\ done' = done /\ UNCHANGED PF!callVars /\ edits < MaxEdits
      /\ from' = f /\ to' = t /\ amount' = a /\ edits' = edits + 1
      /\ quote' = IF a = 0 THEN EF!Idle ELSE [at |-> "timer", for |-> question]
      /\ UNCHANGED <<result, failedFor>>
  BY SameCalls DEF EF!Change
<1>2. a # 0 => question \in EF!Question
  BY AskedFor
<1> HIDE DEF question
<1>3. ExchangeTypes'
  BY <1>1, <1>2 DEF ExchangeInv, ExchangeTypes
<1> QED
  BY <1>1, <1>3, ScreenMoves

LEMMA ExchangeStays ==
    ASSUME SendBounds, MaxEdits \in Nat, ExchangeInv, [EF!Next]_(EF!vars)
    PROVE  ExchangeInv'
<1>1. CallsInv(EF!Question, ExchangeDetail) /\ ExchangeTypes /\ OneKey
      /\ CallTypes(EF!Question, ExchangeDetail) /\ KeysKept
  BY DEF ExchangeInv, CallsInv
<1>2. ASSUME NEW a \in Amount \cup {0}, EF!TypeAmount(a) PROVE ExchangeInv'
  BY <1>1, <1>2, ChangeKeeps DEF EF!TypeAmount, ExchangeTypes
<1>3. CASE EF!Swap
  BY <1>1, <1>3, ChangeKeeps DEF EF!Swap, ExchangeTypes
<1>4. ASSUME NEW side \in {"from", "to"}, NEW w \in Wallet, EF!Pick(side, w) PROVE ExchangeInv'
  <2>1. CASE w # from /\ EF!Change(w, IF w = to THEN from ELSE to, amount)
    BY <1>1, <2>1, ChangeKeeps DEF ExchangeTypes
  <2>2. CASE w # to /\ EF!Change(IF w = from THEN to ELSE from, w, amount)
    BY <1>1, <2>2, ChangeKeeps DEF ExchangeTypes
  <2> QED
    BY <1>4, <2>1, <2>2 DEF EF!Pick
<1>5. CASE EF!TimerFires
  <2>1. /\ quote.at = "timer" /\ quote' = [quote EXCEPT !.at = "asked"]
        /\ UNCHANGED PF!callVars /\ UNCHANGED <<from, to, amount, result, failedFor, done, edits>>
    BY <1>5, SameCalls DEF EF!TimerFires
  <2>2. quote \in [at : {"timer", "asked"}, for : EF!Question]
    BY <1>1, <2>1 DEF ExchangeTypes, EF!Idle
  <2>3. quote' \in [at : {"timer", "asked"}, for : EF!Question]
    BY <2>1, <2>2
  <2>4. ExchangeTypes'
    BY <1>1, <2>1, <2>3 DEF ExchangeTypes
  <2> QED
    BY <2>1, <2>4, ScreenMoves
<1>6. ASSUME NEW ok \in BOOLEAN, EF!QuoteAnswers(ok) PROVE ExchangeInv'
  <2>1. /\ quote.at = "asked" /\ quote' = EF!Idle
        /\ \/ result' = quote.for /\ failedFor' = EF!NoQuestion
           \/ failedFor' = quote.for /\ UNCHANGED result
        /\ UNCHANGED PF!callVars /\ UNCHANGED <<from, to, amount, done, edits>>
    BY <1>6, SameCalls DEF EF!QuoteAnswers
  <2>2. quote \in [at : {"timer", "asked"}, for : EF!Question]
    BY <1>1, <2>1 DEF ExchangeTypes, EF!Idle
  <2>3. quote.for \in EF!Question
    BY <2>2
  <2>4. ExchangeTypes'
    BY <1>1, <2>1, <2>3 DEF ExchangeTypes
  <2> QED
    BY <2>1, <2>4, ScreenMoves
<1>7. CASE EF!Submit
  <2> DEFINE detail == [guarded |-> TRUE, grant |-> FALSE, quoted |-> result]
  <2>1. /\ done = EF!NotDone /\ result = EF!OnScreen /\ EF!OnScreen # EF!NoQuestion
        /\ PF!Send(PF!Key, EF!OnScreen, detail)
        /\ UNCHANGED <<from, to, amount, result, failedFor, quote, done, edits>>
    BY <1>7, SameCalls DEF EF!Submit, EF!Current, EF!screenVars
  <2>2. EF!OnScreen \in EF!Question
    BY <1>1, <2>1, AskedFor DEF EF!OnScreen, ExchangeTypes
  <2>3. detail \in ExchangeDetail /\ detail.quoted = EF!OnScreen
    BY <2>1, <2>2 DEF ExchangeDetail
  <2>4. idem = minted /\ minted \in {0, 1} /\ PF!Key = 1
    BY <1>1, <2>1 DEF OneKey, PF!Key
  <2> HIDE DEF detail
  <2>5. PICK body \in EF!Question : body = EF!OnScreen
    BY <2>2
  <2>6. PF!Send(1, body, detail) /\ detail.quoted = body
    BY <2>1, <2>3, <2>4, <2>5
  <2>7. minted' = 1 /\ idem' = 1
    BY <2>4, <2>6 DEF PF!Send
  <2>8. /\ CallsInv(EF!Question, ExchangeDetail)'
        /\ waiting = 0 /\ waiting' # 0 /\ PF!SentCalls' = PF!SentCalls \cup {waiting'}
        /\ \A d \in PF!SentCalls : calls'[d] = calls[d]
        /\ calls'[waiting'].key = 1 /\ calls'[waiting'].body = body
        /\ calls'[waiting'].detail = detail
        /\ Cardinality(PF!SentCalls') = Cardinality(PF!SentCalls) + 1
        /\ UNCHANGED <<ledger, lost>>
    <3>1. detail \in ExchangeDetail /\ 1 \in Nat /\ 1 = PF!Key
      BY <2>3, <2>4
    <3> QED
      BY <1>1, <2>6, <3>1, SendMoves
  <2>9. ExchangeTypes'
    BY <1>1, <2>1 DEF ExchangeTypes
  <2>10. Cardinality(PF!SentCalls) \in Nat /\ lost \in Nat
    BY <1>1, SentCount
  <2>11. OneKey'
    BY <1>1, <2>1, <2>6, <2>7, <2>8, <2>10 DEF OneKey
  <2> QED
    BY <2>8, <2>9, <2>11 DEF ExchangeInv
<1>8. CASE EF!Answered
  <2>1. /\ waiting # 0 /\ waiting' = 0
        /\ idem' = (IF calls[waiting].at = "ok" THEN 0 ELSE idem)
        /\ done' = (IF calls[waiting].at = "ok"
                    THEN [sent |-> calls[waiting].body, quoted |-> calls[waiting].detail.quoted]
                    ELSE done)
        /\ UNCHANGED <<twoFactor, calls, keys, ledger, minted, lost>>
        /\ UNCHANGED <<from, to, amount, result, failedFor, quote, edits>>
    BY <1>8, SameCalls DEF EF!Answered, PF!Hear
  <2>2. /\ waiting \in PF!SentCalls /\ lost \in Nat /\ Cardinality(PF!SentCalls) \in Nat
    BY <1>1, <2>1, SentCount DEF CallTypes
  <2>3. CallsInv(EF!Question, ExchangeDetail)' /\ PF!SentCalls' = PF!SentCalls
    BY <1>1, <2>1, <2>2, WaitEnds
  <2>4. /\ calls[waiting].body \in EF!Question
        /\ calls[waiting].detail.quoted = calls[waiting].body
    BY <1>1, <2>2, SentTyped, CallFields DEF OneKey
  <2>5. CASE calls[waiting].at = "ok"
    <3>1. \E c \in ledger : calls[c].body = calls[waiting].body
      BY <1>1, <2>2, <2>5 DEF KeysKept, OkOK
    <3> DEFINE body == calls[waiting].body
    <3>2. done' = [sent |-> body, quoted |-> body] /\ body \in EF!Question
      BY <2>1, <2>4, <2>5
    <3>3. PICK b \in EF!Question : b = body
      BY <3>2
    <3>4. done' = [sent |-> b, quoted |-> b] /\ \E c \in ledger : calls[c].body = b
      BY <3>1, <3>2, <3>3
    <3> HIDE DEF body
    <3>5. done' \in [sent : EF!Question, quoted : EF!Question] /\ done'.sent = b /\ done'.quoted = b
      BY <3>4
    <3>6. done' # EF!NotDone
      <4>1. b # EF!NoQuestion
        BY DEF EF!Question, EF!NoQuestion
      <4> QED
        BY <3>4, <4>1 DEF EF!NotDone
    <3>7. ExchangeTypes'
      BY <1>1, <2>1, <3>5 DEF ExchangeTypes
    <3>8. OneKey'
      BY <1>1, <2>1, <2>2, <2>3, <3>4, <3>5, <3>6 DEF OneKey
    <3> QED
      BY <2>3, <3>7, <3>8 DEF ExchangeInv
  <2>6. CASE calls[waiting].at # "ok"
    <3>1. ExchangeTypes'
      BY <1>1, <2>1, <2>6 DEF ExchangeTypes
    <3>2. OneKey'
      BY <1>1, <2>1, <2>2, <2>3, <2>6 DEF OneKey
    <3> QED
      BY <2>3, <3>1, <3>2 DEF ExchangeInv
  <2> QED
    BY <2>5, <2>6
<1>9. CASE EF!AnswerLost
  <2>1. /\ waiting # 0 /\ waiting' = 0 /\ lost' = lost + 1
        /\ UNCHANGED <<twoFactor, calls, keys, ledger, idem, minted>>
        /\ UNCHANGED <<from, to, amount, result, failedFor, quote, done, edits>>
    BY <1>9, SameCalls DEF EF!AnswerLost, PF!Lose, EF!screenVars
  <2>2. lost \in Nat /\ Cardinality(PF!SentCalls) \in Nat
    BY <1>1, SentCount
  <2>3. CallsInv(EF!Question, ExchangeDetail)' /\ PF!SentCalls' = PF!SentCalls
    BY <1>1, <2>1, <2>2, WaitEnds
  <2>4. ExchangeTypes'
    BY <1>1, <2>1 DEF ExchangeTypes
  <2>5. OneKey'
    BY <1>1, <2>1, <2>2, <2>3 DEF OneKey
  <2> QED
    BY <2>3, <2>4, <2>5 DEF ExchangeInv
<1>10. CASE EF!Serve /\ UNCHANGED EF!screenVars
  <2>1. UNCHANGED <<from, to, amount, result, failedFor, quote, done, edits>>
    BY <1>10 DEF EF!screenVars
  <2>2. CallsInv(EF!Question, ExchangeDetail)' /\ \E c \in PF!Call : Served(c)
    BY <1>1, <1>10, SameCalls, ServeKeeps
  <2>3. PICK c \in PF!Call : Served(c)
    BY <2>2
  <2>4. /\ PF!SentCalls' = PF!SentCalls /\ UNCHANGED <<waiting, idem, minted, lost>>
        /\ ledger \subseteq ledger'
        /\ \A d \in PF!SentCalls : /\ calls'[d].key = calls[d].key /\ calls'[d].body = calls[d].body
                                   /\ calls'[d].detail = calls[d].detail
    BY <1>1, <2>3, SentTyped DEF Served
  <2>5. ledger \subseteq PF!SentCalls
    BY <1>1 DEF CallTypes
  <2>6. ExchangeTypes'
    BY <1>1, <2>1 DEF ExchangeTypes
  <2>7. OneKey'
    BY <1>1, <2>1, <2>4, <2>5 DEF OneKey
  <2> QED
    BY <2>2, <2>6, <2>7 DEF ExchangeInv
<1>11. CASE UNCHANGED EF!vars
  <2>1. UNCHANGED PF!callVars /\ UNCHANGED <<from, to, amount, result, failedFor, quote, done, edits>>
    BY <1>11, SameCalls DEF EF!vars, EF!screenVars
  <2>2. ExchangeTypes'
    BY <1>1, <2>1 DEF ExchangeTypes
  <2> QED
    BY <2>1, <2>2, ScreenMoves
<1>12. EF!Next => \/ \E a \in Amount \cup {0} : EF!TypeAmount(a)
                  \/ EF!Swap
                  \/ \E side \in {"from", "to"}, w \in Wallet : EF!Pick(side, w)
                  \/ EF!TimerFires \/ \E ok \in BOOLEAN : EF!QuoteAnswers(ok)
                  \/ EF!Submit \/ EF!Answered \/ EF!AnswerLost
                  \/ EF!Serve /\ UNCHANGED EF!screenVars
                  \/ UNCHANGED EF!vars
  BY DEF EF!Next, EF!ChooseCurrency, EF!Home
<1> QED
  BY <1>2, <1>3, <1>4, <1>5, <1>6, <1>7, <1>8, <1>9, <1>10, <1>11, <1>12

LEMMA ExchangeSuffices ==
    ASSUME SendBounds, ExchangeInv
    PROVE  EF!TypeOK /\ EF!SidesDiffer /\ EF!DialogTruthful /\ EF!ExchangedOnce
<1>1. CallsInv(EF!Question, ExchangeDetail) /\ ExchangeTypes /\ OneKey
      /\ CallTypes(EF!Question, ExchangeDetail) /\ KeysKept
  BY DEF ExchangeInv, CallsInv
<1>2. lost \in Nat /\ Cardinality(PF!SentCalls) \in Nat
  BY <1>1, SentCount
<1>3. EF!TypeOK
  <2>1. lost <= Cardinality(PF!SentCalls)
    BY <1>1, <1>2 DEF OneKey
  <2>2. EF!CallsTypeOK(EF!Question)
    BY <1>1, <2>1, CallsTyped
  <2> QED
    BY <1>1, <2>2 DEF ExchangeTypes, EF!TypeOK
<1>4. EF!SidesDiffer /\ EF!DialogTruthful
  BY <1>1 DEF ExchangeTypes, OneKey, EF!SidesDiffer, EF!DialogTruthful
<1>5. \A c, d \in ledger : c = d
  <2>1. \A c \in ledger : c \in PF!SentCalls /\ calls[c].key = 1 /\ keys[1].made = c
    BY <1>1 DEF CallTypes, OneKey, KeysKept, MadeOK
  <2> QED
    BY <2>1
<1>6. Cardinality(ledger) <= 1
  <2>1. CASE ledger = {}
    BY <2>1, FS_EmptySet
  <2>2. ASSUME NEW c \in ledger PROVE Cardinality(ledger) <= 1
    <3>1. ledger = {c}
      BY <1>5
    <3>2. Cardinality({c}) = 1
      BY FS_Singleton
    <3> QED
      BY <3>1, <3>2
  <2> QED
    BY <2>1, <2>2
<1> QED
  BY <1>3, <1>4, <1>6, FormCardinality DEF EF!ExchangedOnce
-----------------------------------------------------------------------------
(***************************************************************************)
(* The forms that move money.  While a wizard is open every key it used    *)
(* but the one it holds is done, so its payments are the receipts shown,   *)
(* and the one of the key it holds once that is done.  The adjustment form *)
(* uses no key: what it has sent was heard of, lost, or is waited for.     *)
(***************************************************************************)
PayBody == [to : Handle \cup {"deposit", "withdraw", "adjust"}, amount : Amount]
PayDetail == [guarded : BOOLEAN, grant : BOOLEAN, mount : Nat, named : Handle \cup {PF!Blank}]

PayTypes ==
    /\ form \in PF!Wizards \cup {"adjust", "home"} /\ mount \in 0..MaxMounts /\ step \in 1..3
    /\ draft \in PF!Fields /\ values \in PF!Fields
    /\ resolved \in [handle : Handle \cup {PF!Blank}, to : Handle \cup {PF!Nobody}]
    /\ timer \in Handle \cup {PF!Blank}
    /\ lookups \in [Handle -> Nat] /\ asked \in 0..MaxLookups
    /\ \A h \in Handle : lookups[h] <= asked
    /\ stepUp \in BOOLEAN /\ unsettled \in BOOLEAN
    /\ receipt \in 0..MaxSends /\ seen \in Nat

\* What is on screen.
StepsKept ==
    /\ resolved.to # PF!Nobody => resolved.to = resolved.handle
    /\ step > 1 => form \in PF!Wizards /\ draft = values /\ values.amount # 0
    /\ form = "send" /\ step > 1 /\ ~unsettled =>
          /\ PF!Recipient # PF!Nobody
          /\ timer = PF!Blank /\ \A h \in Handle : lookups[h] = 0
    /\ receipt # 0 =>
          /\ step = 3 /\ receipt \in ledger
          /\ calls[receipt].body.amount = values.amount
          /\ form = "send" => calls[receipt].body.to = values.handle

\* The calls of the form on screen, and those of the forms before it.
Here(c) == calls[c].detail.mount = mount
MountKept ==
    /\ \A c \in PF!SentCalls :
          /\ calls[c].detail.mount <= mount
          /\ calls[c].body.to \in Handle => calls[c].body.to = calls[c].detail.named
          /\ form \in PF!Wizards /\ Here(c) =>
                calls[c].key # 0 /\ (calls[c].key # idem => keys[calls[c].key].at = "done")
          /\ form = "adjust" /\ Here(c) => calls[c].key = 0
          /\ idem # 0 /\ calls[c].key = idem => Here(c)
    /\ form \in {"home", "adjust"} => idem = 0
    /\ form = "home" => waiting = 0 /\ seen = 0 /\ lost = 0
    /\ waiting # 0 =>
          /\ Here(waiting) /\ calls[waiting].key = idem
          /\ form \in PF!Wizards => step = 2 /\ calls[waiting].body.amount = values.amount
          /\ form = "send" => calls[waiting].body.to = values.handle

\* What was heard or lost of the calls of this form, unless it was a refusal.
HeardHere ==
    {c \in PF!SentCalls :
        Here(c) /\ c # waiting /\ calls[c].at \notin {"stepUp", "conflict", "refused"}}
KeyDone == IF idem # 0 /\ keys[idem].at = "done" THEN 1 ELSE 0
CountKept ==
    /\ seen + lost + (IF waiting = 0 THEN 0 ELSE 1) <= Cardinality(PF!SentCalls)
    /\ form \in PF!Wizards => Cardinality(PF!MadeHere) = seen + KeyDone
    /\ form = "adjust" => Cardinality(HeardHere) <= seen + lost

PaymentInv == CallsInv(PayBody, PayDetail) /\ PayTypes /\ StepsKept /\ MountKept /\ CountKept


LEMMA FieldParts ==
    ASSUME NEW x \in PF!Fields
    PROVE  /\ x.handle \in Handle \cup {PF!Blank} /\ x.amount \in Amount \cup {0}
           /\ \A h \in Handle \cup {PF!Blank} :
                 [x EXCEPT !.handle = h] \in PF!Fields
           /\ \A a \in Amount : [x EXCEPT !.amount = a] \in PF!Fields
BY DEF PF!Fields

LEMMA BlankFields ==
    /\ PF!NoFields \in PF!Fields
    /\ \A h \in Handle \cup {PF!Blank} : [PF!NoFields EXCEPT !.handle = h] \in PF!Fields
    /\ PF!Unresolved \in [handle : Handle \cup {PF!Blank}, to : Handle \cup {PF!Nobody}]
    /\ PF!Unresolved.to = PF!Nobody
<1>1. PF!NoFields \in PF!Fields
  BY DEF PF!NoFields, PF!Fields
<1> QED
  BY <1>1, FieldParts DEF PF!Unresolved

\* What the invariants of the payments say of the calls.
LEMMA PaymentCalls ==
    ASSUME PaymentBounds, PaymentInv
    PROVE  /\ SendBounds /\ CallsInv(PayBody, PayDetail) /\ CallTypes(PayBody, PayDetail) /\ KeysKept
           /\ PayTypes /\ StepsKept /\ MountKept /\ CountKept
           /\ seen \in Nat /\ lost \in Nat /\ Cardinality(PF!SentCalls) \in Nat /\ mount \in Nat
           /\ ledger \subseteq PF!SentCalls /\ waiting \in PF!SentCalls \cup {0}
           /\ IsFiniteSet(PF!SentCalls)
           /\ IsFiniteSet(PF!MadeHere) /\ Cardinality(PF!MadeHere) \in Nat
           /\ IsFiniteSet(HeardHere) /\ Cardinality(HeardHere) \in Nat
           /\ \A c \in PF!SentCalls :
                 /\ c \in PF!Call /\ c # 0 /\ calls[c].key \in 0..MaxKeys
                 /\ calls[c].body \in PayBody /\ calls[c].detail \in PayDetail
                 /\ calls[c].detail.mount \in Nat
<1>1. SendBounds /\ MaxMounts \in Nat /\ CallsInv(PayBody, PayDetail)
      /\ CallTypes(PayBody, PayDetail) /\ KeysKept /\ PayTypes /\ StepsKept /\ MountKept /\ CountKept
  BY DEF PaymentBounds, PaymentInv, CallsInv
<1>2. /\ IsFiniteSet(PF!SentCalls) /\ Cardinality(PF!SentCalls) \in Nat /\ lost \in Nat
  BY <1>1, SentCount
<1>3. seen \in Nat /\ mount \in Nat /\ ledger \subseteq PF!SentCalls /\ waiting \in PF!SentCalls \cup {0}
  BY <1>1 DEF PayTypes, CallTypes
<1>4. PF!MadeHere \subseteq PF!SentCalls /\ HeardHere \subseteq PF!SentCalls
  BY <1>3 DEF PF!MadeHere, HeardHere
<1>5. /\ IsFiniteSet(PF!MadeHere) /\ Cardinality(PF!MadeHere) \in Nat
      /\ IsFiniteSet(HeardHere) /\ Cardinality(HeardHere) \in Nat
  BY <1>2, <1>4, FS_Subset, FS_CardinalityType
<1>6. \A c \in PF!SentCalls :
         /\ c \in PF!Call /\ c # 0 /\ calls[c].key \in 0..MaxKeys
         /\ calls[c].body \in PayBody /\ calls[c].detail \in PayDetail
  BY <1>1, SentTyped, CallFields
<1>7. \A x \in PayDetail : x.mount \in Nat
  BY DEF PayDetail
<1> QED
  BY <1>1, <1>2, <1>3, <1>5, <1>6, <1>7

\* A step of the screen that leaves the calls alone, and the form, its steps
\* too while an answer is waited for.
LEMMA FormMoves ==
    ASSUME PaymentBounds, PaymentInv, UNCHANGED PF!callVars, UNCHANGED <<form, mount, seen>>,
           waiting # 0 => UNCHANGED <<step, values>>,
           PayTypes', StepsKept'
    PROVE  PaymentInv'
<1>1. /\ CallsInv(PayBody, PayDetail) /\ MountKept /\ CountKept
  BY PaymentCalls
<1>2. CallsInv(PayBody, PayDetail)' /\ PF!SentCalls' = PF!SentCalls
      /\ UNCHANGED <<twoFactor, calls, waiting, keys, ledger, idem, minted, lost>>
  BY <1>1, CallsAsTheyAre
<1>3. MountKept'
  BY <1>1, <1>2 DEF MountKept, Here
<1>4. PF!MadeHere' = PF!MadeHere /\ HeardHere' = HeardHere /\ KeyDone' = KeyDone
  BY <1>2 DEF PF!MadeHere, HeardHere, Here, KeyDone
<1>5. CountKept'
  BY <1>1, <1>2, <1>4 DEF CountKept
<1> QED
  BY <1>2, <1>3, <1>5 DEF PaymentInv

LEMMA PaymentInit ==
    ASSUME PaymentBounds, PF!Init
    PROVE  PaymentInv
<1>1. /\ PF!CallsInit /\ form = "home" /\ mount = 0 /\ step = 1
      /\ draft = PF!NoFields /\ values = PF!NoFields /\ resolved = PF!Unresolved /\ timer = PF!Blank
      /\ lookups = [h \in Handle |-> 0] /\ asked = 0
      /\ stepUp = FALSE /\ receipt = 0 /\ seen = 0 /\ unsettled = FALSE
  BY DEF PF!Init
<1>2. /\ CallsInv(PayBody, PayDetail) /\ PF!SentCalls = {}
      /\ idem = 0 /\ waiting = 0 /\ lost = 0
  BY <1>1, CallsInit DEF PaymentBounds
<1>3. PayTypes
  <2>1. draft \in PF!Fields /\ values \in PF!Fields
        /\ resolved \in [handle : Handle \cup {PF!Blank}, to : Handle \cup {PF!Nobody}]
    BY <1>1, BlankFields
  <2>2. lookups \in [Handle -> Nat] /\ asked \in 0..MaxLookups /\ \A h \in Handle : lookups[h] <= asked
    BY <1>1 DEF PaymentBounds
  <2>3. mount \in 0..MaxMounts /\ step \in 1..3 /\ receipt \in 0..MaxSends /\ seen \in Nat
    BY <1>1 DEF PaymentBounds, SendBounds
  <2>4. form \in PF!Wizards \cup {"adjust", "home"} /\ timer \in Handle \cup {PF!Blank}
    BY <1>1
  <2>5. stepUp \in BOOLEAN /\ unsettled \in BOOLEAN
    BY <1>1
  <2> QED
    BY <2>1, <2>2, <2>3, <2>4, <2>5 DEF PayTypes
<1>4. StepsKept
  BY <1>1, BlankFields DEF StepsKept
<1>5. MountKept
  BY <1>1, <1>2 DEF MountKept
<1>6. CountKept
  BY <1>1, <1>2, FS_EmptySet DEF CountKept, PF!Wizards
<1> QED
  BY <1>2, <1>3, <1>4, <1>5, <1>6 DEF PaymentInv

\* A form is opened: it has sent nothing yet.
LEMMA MountKeeps ==
    ASSUME PaymentBounds, PaymentInv, NEW f \in PF!Wizards \cup {"adjust"},
           NEW h \in Handle \cup {PF!Blank}, PF!Mount(f, h)
    PROVE  PaymentInv'
<1>1. /\ form = "home" /\ mount < MaxMounts /\ mount' = mount + 1 /\ form' = f /\ step' = 1
      /\ draft' = [PF!NoFields EXCEPT !.handle = h] /\ timer' = h
      /\ lookups' = [x \in Handle |-> 0] /\ values' = PF!NoFields /\ resolved' = PF!Unresolved
      /\ stepUp' = FALSE /\ receipt' = 0 /\ seen' = 0 /\ unsettled' = FALSE
      /\ UNCHANGED asked /\ UNCHANGED PF!callVars
  BY DEF PF!Mount, PF!FreshPage
<1>2. /\ CallsInv(PayBody, PayDetail) /\ PayTypes /\ MountKept /\ CountKept /\ mount \in Nat
      /\ lost \in Nat /\ Cardinality(PF!SentCalls) \in Nat /\ MaxMounts \in Nat
      /\ ledger \subseteq PF!SentCalls
      /\ \A c \in PF!SentCalls : calls[c].detail.mount \in Nat
  BY PaymentCalls DEF PaymentBounds
<1>3. CallsInv(PayBody, PayDetail)' /\ PF!SentCalls' = PF!SentCalls
      /\ UNCHANGED <<twoFactor, calls, waiting, keys, ledger, idem, minted, lost>>
  BY <1>1, <1>2, CallsAsTheyAre
<1>4. \A c \in PF!SentCalls : ~Here(c)'
  BY <1>1, <1>2, <1>3 DEF MountKept, Here
<1>5. idem = 0 /\ waiting = 0 /\ lost = 0
  BY <1>1, <1>2 DEF MountKept
<1>6. PayTypes'
  <2>1. draft' \in PF!Fields /\ values' \in PF!Fields
        /\ resolved' \in [handle : Handle \cup {PF!Blank}, to : Handle \cup {PF!Nobody}]
    BY <1>1, BlankFields
  <2>2. asked \in 0..MaxLookups /\ mount \in 0..MaxMounts
    BY <1>2 DEF PayTypes
  <2>3. /\ lookups' \in [Handle -> Nat] /\ asked' \in 0..MaxLookups
        /\ \A x \in Handle : lookups'[x] <= asked'
    BY <1>1, <2>2 DEF PaymentBounds
  <2>4. mount' \in 0..MaxMounts /\ step' \in 1..3 /\ receipt' \in 0..MaxSends /\ seen' \in Nat
    BY <1>1, <2>2 DEF PaymentBounds, SendBounds
  <2>5. form' \in PF!Wizards \cup {"adjust", "home"} /\ timer' \in Handle \cup {PF!Blank}
    BY <1>1
  <2>6. stepUp' \in BOOLEAN /\ unsettled' \in BOOLEAN
    BY <1>1
  <2> QED
    BY <2>1, <2>3, <2>4, <2>5, <2>6 DEF PayTypes
<1>7. StepsKept'
  BY <1>1, BlankFields DEF StepsKept
<1>8. MountKept'
  <2>1. \A c \in PF!SentCalls : calls[c].detail.mount <= mount + 1
    BY <1>2 DEF MountKept
  <2>2. \A c \in PF!SentCalls : calls[c].body.to \in Handle => calls[c].body.to = calls[c].detail.named
    BY <1>2 DEF MountKept
  <2>3. form' # "home"
    BY <1>1 DEF PF!Wizards
  <2> QED
    BY <1>1, <1>3, <1>4, <1>5, <2>1, <2>2, <2>3 DEF MountKept
<1>9. PF!MadeHere' = {} /\ HeardHere' = {} /\ KeyDone' = 0
  BY <1>2, <1>3, <1>4, <1>5 DEF PF!MadeHere, HeardHere, Here, KeyDone
<1>10. CountKept'
  BY <1>1, <1>2, <1>3, <1>5, <1>9, FS_EmptySet DEF CountKept
<1> QED
  BY <1>3, <1>6, <1>7, <1>8, <1>10 DEF PaymentInv

\* The page is left.
LEMMA LeaveKeeps ==
    ASSUME PaymentBounds, PaymentInv, PF!Leave
    PROVE  PaymentInv'
<1>1. /\ form' = "home" /\ step' = 1 /\ draft' = [PF!NoFields EXCEPT !.handle = PF!Blank]
      /\ timer' = PF!Blank /\ lookups' = [x \in Handle |-> 0] /\ values' = PF!NoFields
      /\ resolved' = PF!Unresolved /\ stepUp' = FALSE /\ receipt' = 0 /\ seen' = 0
      /\ unsettled' = FALSE /\ UNCHANGED <<mount, asked>>
      /\ waiting' = 0 /\ idem' = 0 /\ lost' = 0
      /\ UNCHANGED <<twoFactor, calls, keys, ledger, minted>>
  BY DEF PF!Leave, PF!FreshPage, PF!Unmount
<1>2. /\ CallsInv(PayBody, PayDetail) /\ PayTypes /\ MountKept /\ CountKept /\ SendBounds
      /\ Cardinality(PF!SentCalls) \in Nat
  BY PaymentCalls
<1>3. CallsInv(PayBody, PayDetail)' /\ PF!SentCalls' = PF!SentCalls
  BY <1>1, <1>2, WaitEnds
<1>4. PayTypes'
  <2>1. draft' \in PF!Fields /\ values' \in PF!Fields
        /\ resolved' \in [handle : Handle \cup {PF!Blank}, to : Handle \cup {PF!Nobody}]
    BY <1>1, BlankFields
  <2>2. asked \in 0..MaxLookups /\ mount \in 0..MaxMounts
    BY <1>2 DEF PayTypes
  <2>3. /\ lookups' \in [Handle -> Nat] /\ asked' \in 0..MaxLookups
        /\ \A x \in Handle : lookups'[x] <= asked'
    BY <1>1, <2>2 DEF PaymentBounds
  <2>4. mount' \in 0..MaxMounts /\ step' \in 1..3 /\ receipt' \in 0..MaxSends /\ seen' \in Nat
    BY <1>1, <2>2 DEF PaymentBounds, SendBounds
  <2>5. form' \in PF!Wizards \cup {"adjust", "home"} /\ timer' \in Handle \cup {PF!Blank}
    BY <1>1
  <2>6. stepUp' \in BOOLEAN /\ unsettled' \in BOOLEAN
    BY <1>1
  <2> QED
    BY <2>1, <2>3, <2>4, <2>5, <2>6 DEF PayTypes
<1>5. StepsKept'
  BY <1>1, BlankFields DEF StepsKept
<1>6. MountKept'
  BY <1>1, <1>2, <1>3 DEF MountKept, PF!Wizards
<1>7. CountKept'
  BY <1>1, <1>2, <1>3 DEF CountKept, PF!Wizards
<1> QED
  BY <1>3, <1>4, <1>5, <1>6, <1>7 DEF PaymentInv

\* A keystroke, a lookup, a step of a wizard: no call is touched.
LEMMA TypingKeeps ==
    ASSUME PaymentBounds, PaymentInv,
           \/ \E h \in Handle \cup {PF!Blank} : PF!TypeHandle(h)
           \/ \E a \in Amount : PF!TypeAmount(a)
           \/ PF!TimerFires \/ PF!LookupEnds
    PROVE  PaymentInv'
<1>1. PayTypes /\ StepsKept /\ MaxLookups \in Nat
  BY DEF PaymentInv, PaymentBounds
<1>2. draft \in PF!Fields
  BY <1>1 DEF PayTypes
<1>3. ASSUME NEW h \in Handle \cup {PF!Blank}, PF!TypeHandle(h) PROVE PaymentInv'
  <2>1. /\ step = 1 /\ draft' = [draft EXCEPT !.handle = h] /\ timer' = h
        /\ UNCHANGED PF!callVars
        /\ UNCHANGED <<form, mount, step, values, resolved, lookups, asked, stepUp, receipt, seen, unsettled>>
    BY <1>3 DEF PF!TypeHandle
  <2>2. draft' \in PF!Fields
    BY <1>2, <2>1, FieldParts
  <2>3. PayTypes'
    BY <1>1, <2>1, <2>2 DEF PayTypes
  <2>4. StepsKept'
    BY <1>1, <2>1 DEF StepsKept
  <2> QED
    BY <2>1, <2>3, <2>4, FormMoves
<1>4. ASSUME NEW a \in Amount, PF!TypeAmount(a) PROVE PaymentInv'
  <2>1. /\ step = 1 /\ draft' = [draft EXCEPT !.amount = a]
        /\ UNCHANGED PF!callVars
        /\ UNCHANGED <<form, mount, step, values, resolved, timer, lookups, asked, stepUp, receipt, seen, unsettled>>
    BY <1>4 DEF PF!TypeAmount
  <2>2. draft' \in PF!Fields
    BY <1>2, <2>1, FieldParts
  <2>3. PayTypes'
    BY <1>1, <2>1, <2>2 DEF PayTypes
  <2>4. StepsKept'
    BY <1>1, <2>1 DEF StepsKept
  <2> QED
    BY <2>1, <2>3, <2>4, FormMoves
<1>5. CASE PF!TimerFires
  <2>1. /\ timer # PF!Blank /\ asked < MaxLookups
        /\ lookups' = [lookups EXCEPT ![timer] = lookups[timer] + 1]
        /\ asked' = asked + 1 /\ timer' = PF!Blank /\ UNCHANGED PF!callVars
        /\ UNCHANGED <<form, mount, step, draft, values, resolved, stepUp, receipt, seen, unsettled>>
    BY <1>5 DEF PF!TimerFires
  <2>2. timer \in Handle
    BY <1>1, <2>1 DEF PayTypes
  <2>3. /\ lookups' \in [Handle -> Nat] /\ asked' \in 0..MaxLookups
        /\ \A h \in Handle : lookups'[h] <= asked'
    BY <1>1, <2>1, <2>2 DEF PayTypes
  <2>4. PayTypes'
    BY <1>1, <2>1, <2>3 DEF PayTypes
  <2>5. PF!Recipient' = PF!Recipient /\ ~(form = "send" /\ step > 1 /\ ~unsettled)
    BY <1>1, <2>1 DEF PF!Recipient, StepsKept
  <2>6. UNCHANGED <<ledger, calls>>
    BY <2>1 DEF PF!callVars
  <2>7. StepsKept'
    BY <1>1, <2>1, <2>5, <2>6 DEF StepsKept
  <2> QED
    BY <2>1, <2>4, <2>7, FormMoves
<1>6. CASE PF!LookupEnds
  <2>1. PICK h \in Handle : \E ok : PF!LookupAnswers(h, ok)
    BY <1>6 DEF PF!LookupEnds
  <2>1a. PICK ok : PF!LookupAnswers(h, ok)
    BY <2>1
  <2> DEFINE who == IF ok THEN h ELSE PF!Nobody
  <2>2. /\ form = "send" /\ lookups[h] > 0 /\ lookups' = [lookups EXCEPT ![h] = lookups[h] - 1]
        /\ resolved' = [handle |-> h, to |-> who] /\ UNCHANGED PF!callVars
        /\ UNCHANGED <<form, mount, step, draft, values, timer, asked, stepUp, receipt, seen, unsettled>>
    BY <2>1a DEF PF!LookupAnswers
  <2>3. who \in {h, PF!Nobody}
    OBVIOUS
  <2> HIDE DEF who
  <2>4. /\ lookups' \in [Handle -> Nat] /\ \A x \in Handle : lookups'[x] <= asked'
    BY <1>1, <2>2 DEF PayTypes
  <2>5. resolved' \in [handle : Handle \cup {PF!Blank}, to : Handle \cup {PF!Nobody}]
        /\ (resolved'.to # PF!Nobody => resolved'.to = resolved'.handle)
    BY <2>2, <2>3
  <2>6. PayTypes'
    BY <1>1, <2>2, <2>4, <2>5 DEF PayTypes
  <2>7. ~(form = "send" /\ step > 1 /\ ~unsettled)
    BY <1>1, <2>2 DEF StepsKept, PayTypes
  <2>8. UNCHANGED <<ledger, calls>>
    BY <2>2 DEF PF!callVars
  <2>9. StepsKept'
    BY <1>1, <2>2, <2>5, <2>7, <2>8 DEF StepsKept
  <2> QED
    BY <2>2, <2>6, <2>9, FormMoves
<1> QED
  BY <1>3, <1>4, <1>5, <1>6

LEMMA SteppingKeeps ==
    ASSUME PaymentBounds, PaymentInv, PF!ToConfirm \/ PF!ToReview \/ PF!Edit \/ PF!Again
    PROVE  PaymentInv'
<1>1. PayTypes /\ StepsKept /\ MountKept
  BY DEF PaymentInv
<1>2. draft \in PF!Fields /\ values \in PF!Fields
  BY <1>1 DEF PayTypes
<1>3. ASSUME step # 2, form \in PF!Wizards PROVE waiting = 0
  BY <1>1, <1>3 DEF MountKept
<1>4. CASE PF!ToConfirm \/ PF!ToReview
  <2>1. /\ step = 1 /\ draft.amount # 0 /\ step' = 2 /\ values' = draft
        /\ form \in PF!Wizards /\ UNCHANGED PF!callVars
        /\ UNCHANGED <<form, mount, draft, resolved, timer, lookups, asked, stepUp, receipt, seen>>
    BY <1>4 DEF PF!ToConfirm, PF!ToReview, PF!ToStep2, PF!Wizards
  <2>2. \/ /\ PF!Recipient # PF!Nobody
           /\ unsettled' = (timer # PF!Blank \/ \E h \in Handle : lookups[h] > 0)
        \/ form # "send" /\ unsettled' = unsettled
    BY <1>4 DEF PF!ToConfirm, PF!ToReview
  <2>3. unsettled' \in BOOLEAN
    BY <1>1, <2>2 DEF PayTypes
  <2>4. PayTypes'
    <3>1. step' \in 1..3 /\ values' \in PF!Fields
      BY <1>2, <2>1
    <3> QED
      BY <1>1, <2>1, <2>3, <3>1 DEF PayTypes
  <2>5. form = "send" /\ ~unsettled' =>
           PF!Recipient # PF!Nobody /\ timer = PF!Blank /\ \A h \in Handle : lookups[h] = 0
    <3>1. \A h \in Handle : lookups[h] \in Nat
      BY <1>1 DEF PayTypes
    <3>2. ASSUME form = "send", ~unsettled'
          PROVE  PF!Recipient # PF!Nobody /\ timer = PF!Blank /\ \A h \in Handle : ~(lookups[h] > 0)
      BY <2>2, <3>2, Zenon
    <3> QED
      BY <3>1, <3>2
  <2>6. receipt = 0 /\ PF!Recipient' = PF!Recipient
    BY <1>1, <2>1 DEF StepsKept, PF!Recipient
  <2>7. StepsKept'
    BY <1>1, <2>1, <2>5, <2>6 DEF StepsKept
  <2> QED
    BY <1>3, <2>1, <2>4, <2>7, FormMoves
<1>5. CASE PF!Edit
  <2>1. /\ step = 2 /\ waiting = 0 /\ step' = 1 /\ UNCHANGED PF!callVars
        /\ UNCHANGED <<form, mount, draft, values, resolved, timer, lookups, asked, stepUp, receipt, seen, unsettled>>
    BY <1>5 DEF PF!Edit
  <2>2. PayTypes' /\ StepsKept'
    BY <1>1, <2>1 DEF PayTypes, StepsKept
  <2> QED
    BY <2>1, <2>2, FormMoves
<1>6. CASE PF!Again
  <2>1. /\ form \in PF!Wizards /\ step = 3 /\ step' = 1
        /\ draft' = PF!NoFields /\ values' = PF!NoFields /\ receipt' = 0 /\ timer' = PF!Blank
        /\ resolved' \in {PF!Unresolved, resolved} /\ UNCHANGED PF!callVars
        /\ UNCHANGED <<form, mount, lookups, asked, stepUp, seen, unsettled>>
    BY <1>6 DEF PF!Again
  <2>2. draft' \in PF!Fields /\ values' \in PF!Fields
    BY <2>1, BlankFields
  <2>3. resolved' \in [handle : Handle \cup {PF!Blank}, to : Handle \cup {PF!Nobody}]
        /\ (resolved'.to # PF!Nobody => resolved'.to = resolved'.handle)
    BY <1>1, <2>1, BlankFields DEF PayTypes, StepsKept
  <2>4. step' \in 1..3 /\ receipt' \in 0..MaxSends
    BY <2>1 DEF PaymentBounds, SendBounds
  <2>5. PayTypes'
    BY <1>1, <2>1, <2>2, <2>3, <2>4 DEF PayTypes
  <2>6. StepsKept'
    BY <2>1, <2>3 DEF StepsKept
  <2> QED
    BY <1>3, <2>1, <2>5, <2>6, FormMoves
<1> QED
  BY <1>4, <1>5, <1>6

\* A payment is asked for, with the key of a wizard or without one.
LEMMA AskingKeeps ==
    ASSUME PaymentBounds, PaymentInv, NEW key \in Nat, NEW body \in PayBody, NEW detail \in PayDetail,
           PF!Send(key, body, detail), UNCHANGED PF!formVars,
           \/ form \in PF!Wizards /\ step = 2 /\ key = PF!Key /\ body.amount = values.amount
           \/ form = "adjust" /\ key = 0,
           form = "send" => body.to = values.handle,
           body.to \in Handle => body.to = values.handle,
           detail.mount = mount, detail.named = values.handle
    PROVE  PaymentInv'
<1>1. /\ SendBounds /\ CallsInv(PayBody, PayDetail) /\ CallTypes(PayBody, PayDetail)
      /\ PayTypes /\ StepsKept /\ MountKept /\ CountKept
      /\ seen \in Nat /\ lost \in Nat /\ Cardinality(PF!SentCalls) \in Nat /\ mount \in Nat
      /\ ledger \subseteq PF!SentCalls
  BY PaymentCalls
<1>2. UNCHANGED <<form, mount, step, draft, values, resolved, timer, lookups, asked, stepUp,
                  receipt, seen, unsettled>>
  BY DEF PF!formVars
<1>3. key # 0 <=> form \in PF!Wizards
  BY <1>1 DEF PF!Key, CallTypes, SendBounds, PF!Wizards
<1>4. /\ CallsInv(PayBody, PayDetail)'
      /\ waiting = 0 /\ waiting' # 0 /\ waiting' \notin PF!SentCalls
      /\ waiting' \in PF!SentCalls' /\ PF!SentCalls' = PF!SentCalls \cup {waiting'}
      /\ \A d \in PF!SentCalls : calls'[d] = calls[d] /\ d # waiting'
      /\ calls'[waiting'].at = "sent" /\ calls'[waiting'].key = key
      /\ calls'[waiting'].body = body /\ calls'[waiting'].detail = detail
      /\ Cardinality(PF!SentCalls') = Cardinality(PF!SentCalls) + 1
      /\ UNCHANGED <<keys, ledger, lost>>
      /\ idem' = (IF key = 0 THEN idem ELSE key)
      /\ key # 0 /\ idem = 0 => keys[key].at = "free" /\ key \in 1..MaxKeys
                                /\ \A d \in PF!SentCalls : calls[d].key # key
  BY <1>1, SendMoves
<1>5. /\ idem # 0 /\ key # 0 => key = idem
      /\ key = 0 => idem = 0 /\ idem' = 0
      /\ key # 0 => idem' = key
  BY <1>1, <1>3, <1>4 DEF MountKept, PF!Key, PF!Wizards
<1>6. PayTypes'
  BY <1>1, <1>2 DEF PayTypes
<1>7. StepsKept'
  BY <1>1, <1>2, <1>4 DEF StepsKept, PF!Recipient
<1>8. MountKept'
  <2>1. ASSUME NEW c \in PF!SentCalls
        PROVE  /\ calls'[c].detail.mount <= mount'
               /\ calls'[c].body.to \in Handle => calls'[c].body.to = calls'[c].detail.named
               /\ form' \in PF!Wizards /\ Here(c)' =>
                     calls'[c].key # 0 /\ (calls'[c].key # idem' => keys'[calls'[c].key].at = "done")
               /\ form' = "adjust" /\ Here(c)' => calls'[c].key = 0
               /\ idem' # 0 /\ calls'[c].key = idem' => Here(c)'
    BY <1>1, <1>2, <1>3, <1>4, <1>5 DEF MountKept, Here
  <2>1a. PICK c : c = waiting'
    OBVIOUS
  <2>2. /\ calls'[c].detail.mount <= mount'
        /\ calls'[c].body.to \in Handle => calls'[c].body.to = calls'[c].detail.named
        /\ form' \in PF!Wizards /\ Here(c)' =>
              calls'[c].key # 0 /\ (calls'[c].key # idem' => keys'[calls'[c].key].at = "done")
        /\ form' = "adjust" /\ Here(c)' => calls'[c].key = 0
        /\ idem' # 0 /\ calls'[c].key = idem' => Here(c)'
    BY <1>1, <1>2, <1>3, <1>4, <1>5, <2>1a DEF Here, PF!Wizards
  <2>3. form \in PF!Wizards \cup {"adjust"} /\ form # "home"
    BY DEF PF!Wizards
  <2>4. form' \in {"home", "adjust"} => idem' = 0
    BY <1>2, <1>3, <1>5, <2>3 DEF PF!Wizards
  <2>5. /\ Here(waiting)' /\ calls'[waiting'].key = idem'
        /\ form' \in PF!Wizards => step' = 2 /\ calls'[waiting'].body.amount = values'.amount
        /\ form' = "send" => calls'[waiting'].body.to = values'.handle
    BY <1>2, <1>4, <1>5 DEF Here, PF!Wizards
  <2> QED
    BY <1>2, <1>4, <2>1, <2>2, <2>3, <2>4, <2>5, <2>1a DEF MountKept
<1>9. CountKept'
  <2>1. PF!MadeHere' = PF!MadeHere
    BY <1>1, <1>2, <1>4 DEF PF!MadeHere
  <2>2. HeardHere' = HeardHere
    BY <1>1, <1>2, <1>4, SentTyped DEF HeardHere, Here
  <2>3. KeyDone' = KeyDone
    BY <1>4, <1>5 DEF KeyDone
  <2> QED
    BY <1>1, <1>2, <1>4, <2>1, <2>2, <2>3 DEF CountKept
<1> QED
  BY <1>4, <1>6, <1>7, <1>8, <1>9 DEF PaymentInv

LEMMA PressKeeps ==
    ASSUME PaymentBounds, PaymentInv, PF!ConfirmSend \/ PF!SubmitRequest \/ PF!SubmitAdjustment
    PROVE  PaymentInv'
<1>1. /\ PayTypes /\ StepsKept /\ MountKept /\ CallTypes(PayBody, PayDetail) /\ mount \in Nat
      /\ SendBounds
  BY PaymentCalls
<1>2. /\ draft.handle \in Handle \cup {PF!Blank} /\ draft.amount \in Amount \cup {0}
      /\ values.handle \in Handle \cup {PF!Blank} /\ values.amount \in Amount \cup {0}
  BY <1>1, FieldParts DEF PayTypes
<1>3. PF!Key \in Nat
  BY <1>1 DEF PF!Key, CallTypes, SendBounds
<1>4. ASSUME NEW guarded \in BOOLEAN
      PROVE  /\ PF!Press(guarded) \in PayDetail
             /\ PF!Press(guarded).mount = mount /\ PF!Press(guarded).named = values.handle
  BY <1>1, <1>2 DEF PF!Press, PayDetail, PayTypes
<1>5. Handle \cap {"deposit", "withdraw", "adjust", PF!Nobody, PF!Blank} = {}
  BY DEF PaymentBounds
<1>6. CASE PF!ConfirmSend
  <2> DEFINE body == [to |-> PF!Recipient, amount |-> values.amount]
  <2>1. /\ form = "send" /\ step = 2 /\ PF!Recipient # PF!Nobody
        /\ PF!Send(PF!Key, body, PF!Press(TRUE)) /\ UNCHANGED PF!formVars
    BY <1>6 DEF PF!ConfirmSend, PF!Rendered
  <2>2. PF!Recipient = values.handle /\ PF!Recipient \in Handle
    <3>1. /\ PF!Recipient = resolved.to /\ resolved.handle = draft.handle /\ draft = values
          /\ resolved.to = resolved.handle
      BY <1>1, <2>1 DEF PF!Recipient, StepsKept
    <3>2. resolved.to \in Handle \cup {PF!Nobody}
      BY <1>1 DEF PayTypes
    <3> QED
      BY <2>1, <3>1, <3>2
  <2>3. values.amount \in Amount
    BY <1>1, <1>2, <2>1 DEF StepsKept
  <2>4. body \in PayBody /\ body.to = values.handle /\ body.amount = values.amount
    BY <2>2, <2>3 DEF PayBody
  <2> HIDE DEF body
  <2>5. form \in PF!Wizards
    BY <2>1 DEF PF!Wizards
  <2>6. PICK b \in PayBody, d \in PayDetail, k \in Nat :
           b = body /\ d = PF!Press(TRUE) /\ k = PF!Key
    BY <1>3, <1>4, <2>4
  <2>7. PF!Send(k, b, d) /\ b.to = values.handle /\ b.amount = values.amount
        /\ d.mount = mount /\ d.named = values.handle
    BY <1>4, <2>1, <2>4, <2>6
  <2> QED
    BY <2>1, <2>5, <2>6, <2>7, AskingKeeps
<1>7. CASE PF!SubmitRequest
  <2> DEFINE body == [to |-> form, amount |-> values.amount]
  <2>1. /\ form \in {"deposit", "withdraw"} /\ step = 2
        /\ PF!Send(PF!Key, body, PF!Press(FALSE)) /\ UNCHANGED PF!formVars
    BY <1>7 DEF PF!SubmitRequest
  <2>2. values.amount \in Amount
    BY <1>1, <1>2, <2>1 DEF StepsKept
  <2>3. body \in PayBody /\ body.to \notin Handle /\ body.amount = values.amount
    BY <1>5, <2>1, <2>2 DEF PayBody
  <2> HIDE DEF body
  <2>4. form \in PF!Wizards /\ form # "send"
    BY <2>1 DEF PF!Wizards
  <2>5. PICK b \in PayBody, d \in PayDetail, k \in Nat :
           b = body /\ d = PF!Press(FALSE) /\ k = PF!Key
    BY <1>3, <1>4, <2>3
  <2>6. PF!Send(k, b, d) /\ b.to \notin Handle /\ b.amount = values.amount
        /\ d.mount = mount /\ d.named = values.handle
    BY <1>4, <2>1, <2>3, <2>5
  <2> QED
    BY <2>1, <2>4, <2>5, <2>6, AskingKeeps
<1>8. CASE PF!SubmitAdjustment
  <2> DEFINE body == [to |-> "adjust", amount |-> draft.amount]
  <2>1. /\ form = "adjust" /\ draft.amount # 0
        /\ PF!Send(0, body, PF!Press(FALSE)) /\ UNCHANGED PF!formVars
    BY <1>8 DEF PF!SubmitAdjustment
  <2>2. body \in PayBody /\ body.to \notin Handle
    BY <1>2, <1>5, <2>1 DEF PayBody
  <2> HIDE DEF body
  <2>3. PICK b \in PayBody, d \in PayDetail : b = body /\ d = PF!Press(FALSE)
    BY <1>4, <2>2
  <2>4. PF!Send(0, b, d) /\ b.to \notin Handle /\ d.mount = mount /\ d.named = values.handle
    BY <1>4, <2>1, <2>2, <2>3
  <2>5. 0 \in Nat
    OBVIOUS
  <2> QED
    BY <2>1, <2>4, <2>5, AskingKeeps
<1> QED
  BY <1>6, <1>7, <1>8

\* The answer "ok" that a wizard hears stands for the payment of its key.
LEMMA HeardKeeps ==
    ASSUME PaymentBounds, PaymentInv, PF!WizardAnswered
    PROVE  PaymentInv'
<1>1. /\ SendBounds /\ CallsInv(PayBody, PayDetail) /\ CallTypes(PayBody, PayDetail) /\ KeysKept
      /\ PayTypes /\ StepsKept /\ MountKept /\ CountKept
      /\ seen \in Nat /\ lost \in Nat /\ Cardinality(PF!SentCalls) \in Nat
      /\ ledger \subseteq PF!SentCalls /\ waiting \in PF!SentCalls \cup {0}
  BY PaymentCalls
<1> DEFINE heard == calls[waiting].at = "ok"
<1>2. /\ form \in PF!Wizards /\ waiting # 0 /\ waiting' = 0
      /\ idem' = (IF heard THEN 0 ELSE idem)
      /\ UNCHANGED <<twoFactor, calls, keys, ledger, minted, lost>>
      /\ IF heard THEN step' = 3 /\ receipt' = calls[waiting].made /\ seen' = seen + 1
                  ELSE UNCHANGED <<step, receipt, seen>>
      /\ UNCHANGED <<form, mount, draft, values, resolved, timer, lookups, asked, unsettled>>
  BY DEF PF!WizardAnswered, PF!Hear
<1>3. stepUp' \in BOOLEAN
  <2>1. stepUp' = (calls[waiting].at = "stepUp" \/ (stepUp /\ calls[waiting].at # "ok"))
    BY DEF PF!WizardAnswered
  <2> QED
    BY <2>1
<1>4. /\ waiting \in PF!SentCalls /\ Here(waiting) /\ calls[waiting].key = idem /\ step = 2
      /\ calls[waiting].key # 0 /\ calls[waiting].body.amount = values.amount
      /\ form = "send" => calls[waiting].body.to = values.handle
  BY <1>1, <1>2 DEF MountKept
<1>5. idem' \in {0, idem} /\ lost' \in Nat
  BY <1>1, <1>2
<1>6. CallsInv(PayBody, PayDetail)' /\ PF!SentCalls' = PF!SentCalls
  BY <1>1, <1>2, <1>5, WaitEnds
<1>7. PF!MadeHere' = PF!MadeHere
  BY <1>2 DEF PF!MadeHere
<1>8. form # "adjust" /\ form # "home"
  BY <1>2 DEF PF!Wizards
<1>9. CASE heard
  <2>1. /\ calls[waiting].made \in ledger
        /\ calls[calls[waiting].made].key = idem
        /\ calls[calls[waiting].made].body = calls[waiting].body
    BY <1>1, <1>4, <1>9 DEF KeysKept, OkOK
  <2>2. PICK c \in PF!SentCalls : c = calls[waiting].made
    BY <1>1, <2>1
  <2>3. c \in ledger /\ calls[c].key = idem /\ calls[c].body = calls[waiting].body
    BY <2>1, <2>2
  <2>4. keys[idem].at = "done"
    BY <1>1, <1>4, <2>3 DEF KeysKept, MadeOK
  <2>5. /\ idem' = 0 /\ step' = 3 /\ receipt' = c /\ seen' = seen + 1
    BY <1>2, <1>9, <2>2
  <2>6. c \in 0..MaxSends
    BY <1>1, SentTyped DEF PF!Call, SendBounds
  <2>7. PayTypes'
    BY <1>1, <1>2, <1>3, <2>5, <2>6 DEF PayTypes
  <2>8. PF!Recipient' = PF!Recipient
    BY <1>2 DEF PF!Recipient
  <2>9. StepsKept'
    BY <1>1, <1>2, <1>4, <2>3, <2>5, <2>8 DEF StepsKept
  <2>10. MountKept'
    BY <1>1, <1>2, <1>4, <1>6, <1>8, <2>4, <2>5 DEF MountKept, Here
  <2>11. KeyDone = 1 /\ KeyDone' = 0
    BY <1>4, <2>4, <2>5 DEF KeyDone
  <2>12. CountKept'
    BY <1>1, <1>2, <1>6, <1>7, <1>8, <2>5, <2>11 DEF CountKept
  <2> QED
    BY <1>6, <2>7, <2>9, <2>10, <2>12 DEF PaymentInv
<1>10. CASE ~heard
  <2>1. PayTypes' /\ StepsKept'
    <3>1. PF!Recipient' = PF!Recipient
      BY <1>2 DEF PF!Recipient
    <3>2. PayTypes'
      BY <1>1, <1>2, <1>3, <1>10 DEF PayTypes
    <3>3. StepsKept'
      BY <1>1, <1>2, <1>10, <3>1 DEF StepsKept
    <3> QED
      BY <3>2, <3>3
  <2>2. MountKept'
    BY <1>1, <1>2, <1>6, <1>8, <1>10 DEF MountKept, Here
  <2>3. KeyDone' = KeyDone
    BY <1>2, <1>10 DEF KeyDone
  <2>4. CountKept'
    BY <1>1, <1>2, <1>6, <1>7, <1>8, <1>10, <2>3 DEF CountKept
  <2> QED
    BY <1>6, <2>1, <2>2, <2>4 DEF PaymentInv
<1> QED
  BY <1>9, <1>10

\* What no longer waits was heard or lost, and counts with the others.
LEMMA OneMoreHeard ==
    ASSUME PaymentBounds, PaymentInv, waiting # 0, waiting' = 0, UNCHANGED <<calls, mount>>
    PROVE  /\ PF!SentCalls' = PF!SentCalls
           /\ Cardinality(HeardHere') \in Nat
           /\ Cardinality(HeardHere') <= Cardinality(HeardHere) + 1
           /\ calls[waiting].at \in {"stepUp", "conflict", "refused"} => HeardHere' = HeardHere
<1>1. IsFiniteSet(HeardHere) /\ Cardinality(HeardHere) \in Nat /\ 0 \notin PF!SentCalls
  BY PaymentCalls
<1>2. PF!SentCalls' = PF!SentCalls
  BY DEF PF!SentCalls
<1>3. HeardHere' \in SUBSET (HeardHere \cup {waiting})
  BY <1>2 DEF HeardHere, Here
<1>4. IsFiniteSet(HeardHere \cup {waiting})
      /\ Cardinality(HeardHere \cup {waiting}) <= Cardinality(HeardHere) + 1
      /\ Cardinality(HeardHere \cup {waiting}) \in Nat
  <2>1. /\ IsFiniteSet(HeardHere \cup {waiting})
        /\ Cardinality(HeardHere \cup {waiting}) \in {Cardinality(HeardHere), Cardinality(HeardHere) + 1}
    BY <1>1, FS_AddElement
  <2> QED
    BY <1>1, <2>1
<1>5. Cardinality(HeardHere') \in Nat
      /\ Cardinality(HeardHere') <= Cardinality(HeardHere \cup {waiting})
  BY <1>3, <1>4, FS_Subset, FS_CardinalityType
<1>6. calls[waiting].at \in {"stepUp", "conflict", "refused"} => HeardHere' = HeardHere
  BY <1>1, <1>2 DEF HeardHere, Here
<1> QED
  BY <1>1, <1>2, <1>4, <1>5, <1>6

LEMMA AdjustmentHeardKeeps ==
    ASSUME PaymentBounds, PaymentInv, PF!AdjustmentAnswered
    PROVE  PaymentInv'
<1>1. /\ SendBounds /\ CallsInv(PayBody, PayDetail) /\ PayTypes /\ StepsKept /\ MountKept /\ CountKept
      /\ seen \in Nat /\ lost \in Nat /\ Cardinality(PF!SentCalls) \in Nat
      /\ Cardinality(HeardHere) \in Nat
  BY PaymentCalls
<1>2. /\ form = "adjust" /\ waiting # 0 /\ calls[waiting].at \in PF!Answers /\ waiting' = 0
      /\ idem' = idem
      /\ UNCHANGED <<twoFactor, calls, keys, ledger, minted, lost>>
      /\ IF calls[waiting].at = "ok" THEN draft' = PF!NoFields /\ seen' = seen + 1
                                     ELSE UNCHANGED <<draft, seen>>
      /\ UNCHANGED <<form, mount, step, values, resolved, timer, lookups, asked, stepUp, receipt,
                     unsettled>>
  BY DEF PF!AdjustmentAnswered, PF!Hear
<1>3. idem' \in {0, idem} /\ lost' \in Nat /\ seen' \in Nat /\ seen' \in {seen, seen + 1}
  BY <1>1, <1>2
<1>4. CallsInv(PayBody, PayDetail)' /\ PF!SentCalls' = PF!SentCalls
  BY <1>1, <1>2, <1>3, WaitEnds
<1>5. draft' \in PF!Fields
  BY <1>1, <1>2, BlankFields DEF PayTypes
<1>6. PayTypes'
  BY <1>1, <1>2, <1>3, <1>5 DEF PayTypes
<1>7. step = 1 /\ form \notin PF!Wizards
  BY <1>1, <1>2 DEF StepsKept, PayTypes, PF!Wizards
<1>8. StepsKept'
  BY <1>1, <1>2, <1>7 DEF StepsKept
<1>9. MountKept'
  BY <1>1, <1>2, <1>4, <1>7 DEF MountKept, Here
<1>10. /\ Cardinality(HeardHere') \in Nat /\ Cardinality(HeardHere') <= Cardinality(HeardHere) + 1
       /\ calls[waiting].at \in {"stepUp", "conflict", "refused"} => HeardHere' = HeardHere
  BY <1>2, OneMoreHeard
<1>11. CASE calls[waiting].at = "ok"
  BY <1>1, <1>2, <1>4, <1>6, <1>7, <1>8, <1>9, <1>10, <1>11 DEF CountKept, PaymentInv
<1>12. CASE calls[waiting].at # "ok"
  BY <1>1, <1>2, <1>4, <1>6, <1>7, <1>8, <1>9, <1>10, <1>12 DEF CountKept, PaymentInv, PF!Answers
<1> QED
  BY <1>11, <1>12

LEMMA LostKeeps ==
    ASSUME PaymentBounds, PaymentInv, PF!AnswerLost
    PROVE  PaymentInv'
<1>1. /\ SendBounds /\ CallsInv(PayBody, PayDetail) /\ PayTypes /\ StepsKept /\ MountKept /\ CountKept
      /\ seen \in Nat /\ lost \in Nat /\ Cardinality(PF!SentCalls) \in Nat
      /\ Cardinality(HeardHere) \in Nat
  BY PaymentCalls
<1>2. /\ form # "home" /\ waiting # 0 /\ waiting' = 0 /\ lost' = lost + 1
      /\ UNCHANGED <<twoFactor, calls, keys, ledger, idem, minted>>
      /\ UNCHANGED <<form, mount, step, draft, values, resolved, timer, lookups, asked, stepUp,
                     receipt, seen, unsettled>>
  BY DEF PF!AnswerLost, PF!Lose, PF!formVars
<1>3. idem' \in {0, idem} /\ lost' \in Nat
  BY <1>1, <1>2
<1>4. CallsInv(PayBody, PayDetail)' /\ PF!SentCalls' = PF!SentCalls
  BY <1>1, <1>2, <1>3, WaitEnds
<1>5. PayTypes'
  BY <1>1, <1>2 DEF PayTypes
<1>6. StepsKept'
  BY <1>1, <1>2 DEF StepsKept, PF!Recipient
<1>7. MountKept'
  BY <1>1, <1>2, <1>4 DEF MountKept, Here
<1>8. Cardinality(HeardHere') \in Nat /\ Cardinality(HeardHere') <= Cardinality(HeardHere) + 1
  BY <1>2, OneMoreHeard
<1>9. PF!MadeHere' = PF!MadeHere /\ KeyDone' = KeyDone
  BY <1>2 DEF PF!MadeHere, KeyDone
<1>10. CountKept'
  BY <1>1, <1>2, <1>4, <1>8, <1>9 DEF CountKept
<1> QED
  BY <1>4, <1>5, <1>6, <1>7, <1>10 DEF PaymentInv

\* The API serves a call, of this form or of one left before.
LEMMA PaymentServed ==
    ASSUME PaymentBounds, PaymentInv, PF!Serve, UNCHANGED PF!formVars
    PROVE  PaymentInv'
<1>1. /\ SendBounds /\ CallsInv(PayBody, PayDetail) /\ CallTypes(PayBody, PayDetail)
      /\ PayTypes /\ StepsKept /\ MountKept /\ CountKept
      /\ seen \in Nat /\ lost \in Nat /\ Cardinality(PF!SentCalls) \in Nat
      /\ ledger \subseteq PF!SentCalls /\ waiting \in PF!SentCalls \cup {0}
      /\ IsFiniteSet(PF!MadeHere) /\ Cardinality(PF!MadeHere) \in Nat
      /\ IsFiniteSet(HeardHere) /\ Cardinality(HeardHere) \in Nat
      /\ \A d \in PF!SentCalls : d \in PF!Call /\ calls[d].key \in 0..MaxKeys
  BY PaymentCalls
<1>2. UNCHANGED <<form, mount, step, draft, values, resolved, timer, lookups, asked, stepUp,
                  receipt, seen, unsettled>>
  BY DEF PF!formVars
<1>3. CallsInv(PayBody, PayDetail)' /\ \E c \in PF!Call : Served(c)
  BY <1>1, ServeKeeps
<1>4. PICK c \in PF!Call : Served(c)
  BY <1>3
<1>5. /\ c \in PF!SentCalls /\ calls[c].at \in {"sent", "running"} /\ c \notin ledger
      /\ \A d \in PF!SentCalls \ {c} : calls'[d] = calls[d]
      /\ \A d \in PF!SentCalls : /\ calls'[d].key = calls[d].key /\ calls'[d].body = calls[d].body
                                 /\ calls'[d].detail = calls[d].detail
      /\ PF!SentCalls' = PF!SentCalls /\ UNCHANGED <<waiting, idem, minted, lost>>
      /\ \/ /\ UNCHANGED ledger
            /\ \A k \in 1..MaxKeys : keys'[k].at = "done" <=> keys[k].at = "done"
         \/ /\ ledger' = ledger \cup {c}
            /\ \A k \in 1..MaxKeys \ {calls[c].key} : keys'[k] = keys[k]
            /\ calls[c].key # 0 =>
                  keys[calls[c].key].at # "done" /\ keys'[calls[c].key].at = "done"
  BY <1>1, <1>4 DEF Served
<1>6. \A k \in 1..MaxKeys : keys[k].at = "done" => keys'[k].at = "done"
  BY <1>5
<1>7. PayTypes'
  BY <1>1, <1>2 DEF PayTypes
<1>8. StepsKept'
  <2>1. PF!Recipient' = PF!Recipient
    BY <1>2 DEF PF!Recipient
  <2>2. receipt \in ledger => receipt \in ledger' /\ calls'[receipt].body = calls[receipt].body
    BY <1>1, <1>5
  <2> QED
    BY <1>1, <1>2, <2>1, <2>2 DEF StepsKept
<1>9. \A d \in PF!SentCalls : Here(d)' <=> Here(d)
  BY <1>2, <1>5 DEF Here
<1>10. MountKept'
  <2>1. \A d \in PF!SentCalls : calls[d].key # 0 => calls[d].key \in 1..MaxKeys
    BY <1>1 DEF SendBounds
  <2>2. ASSUME NEW d \in PF!SentCalls
        PROVE  /\ calls'[d].detail.mount <= mount'
               /\ calls'[d].body.to \in Handle => calls'[d].body.to = calls'[d].detail.named
               /\ form' \in PF!Wizards /\ Here(d)' =>
                     calls'[d].key # 0 /\ (calls'[d].key # idem' => keys'[calls'[d].key].at = "done")
               /\ form' = "adjust" /\ Here(d)' => calls'[d].key = 0
               /\ idem' # 0 /\ calls'[d].key = idem' => Here(d)'
    BY <1>1, <1>2, <1>5, <1>6, <1>9, <2>1 DEF MountKept
  <2>3. waiting # 0 => /\ Here(waiting) /\ calls[waiting].key = idem
                       /\ form \in PF!Wizards => step = 2 /\ calls[waiting].body.amount = values.amount
                       /\ form = "send" => calls[waiting].body.to = values.handle
    BY <1>1 DEF MountKept
  <2>4. waiting' # 0 => /\ Here(waiting)' /\ calls'[waiting'].key = idem'
                        /\ form' \in PF!Wizards => step' = 2 /\ calls'[waiting'].body.amount = values'.amount
                        /\ form' = "send" => calls'[waiting'].body.to = values'.handle
    BY <1>1, <1>2, <1>5, <2>3 DEF Here
  <2> QED
    BY <1>1, <1>2, <1>5, <2>2, <2>4 DEF MountKept
<1>11. form \in PF!Wizards => Cardinality(PF!MadeHere') = seen + KeyDone'
  <2> SUFFICES ASSUME form \in PF!Wizards PROVE Cardinality(PF!MadeHere') = seen + KeyDone'
    OBVIOUS
  <2>1. Cardinality(PF!MadeHere) = seen + KeyDone
    BY <1>1 DEF CountKept
  <2>2. idem # 0 => idem \in 1..MaxKeys
    BY <1>1 DEF CallTypes, SendBounds
  <2>3. PF!MadeHere' = {d \in ledger' : Here(d)} /\ PF!MadeHere = {d \in ledger : Here(d)}
    BY <1>1, <1>5, <1>9 DEF PF!MadeHere, Here
  <2>4. CASE /\ UNCHANGED ledger
             /\ \A k \in 1..MaxKeys : keys'[k].at = "done" <=> keys[k].at = "done"
    <3>1. PF!MadeHere' = PF!MadeHere
      BY <2>3, <2>4
    <3>2. KeyDone' = KeyDone
      BY <1>5, <2>2, <2>4 DEF KeyDone
    <3> QED
      BY <2>1, <3>1, <3>2
  <2>5. CASE /\ ledger' = ledger \cup {c}
             /\ \A k \in 1..MaxKeys \ {calls[c].key} : keys'[k] = keys[k]
             /\ calls[c].key # 0 => keys[calls[c].key].at # "done" /\ keys'[calls[c].key].at = "done"
    <3>1. CASE Here(c)
      <4>1. calls[c].key = idem /\ idem # 0
        BY <1>1, <1>5, <2>5, <3>1 DEF MountKept
      <4>2. KeyDone = 0 /\ KeyDone' = 1
        BY <1>5, <2>5, <4>1 DEF KeyDone
      <4>3. PF!MadeHere' = PF!MadeHere \cup {c} /\ c \notin PF!MadeHere
        BY <1>5, <2>3, <2>5, <3>1
      <4>4. Cardinality(PF!MadeHere \cup {c}) = Cardinality(PF!MadeHere) + 1
        BY <1>1, <4>3, FS_AddElement
      <4> QED
        BY <1>1, <2>1, <4>2, <4>3, <4>4
    <3>2. CASE ~Here(c)
      <4>1. PF!MadeHere' = PF!MadeHere
        BY <2>3, <2>5, <3>2
      <4>2. idem # 0 => calls[c].key # idem
        BY <1>1, <1>5, <3>2 DEF MountKept
      <4>3. KeyDone' = KeyDone
        BY <1>5, <2>2, <2>5, <4>2 DEF KeyDone
      <4> QED
        BY <2>1, <4>1, <4>3
    <3> QED
      BY <3>1, <3>2
  <2> QED
    BY <1>5, <2>4, <2>5
<1>12. Cardinality(HeardHere') <= Cardinality(HeardHere) /\ Cardinality(HeardHere') \in Nat
  <2>1. HeardHere' \in SUBSET HeardHere
    BY <1>5, <1>9 DEF HeardHere
  <2> QED
    BY <1>1, <2>1, FS_Subset, FS_CardinalityType
<1>13. CountKept'
  BY <1>1, <1>2, <1>5, <1>11, <1>12 DEF CountKept
<1> QED
  BY <1>3, <1>7, <1>8, <1>10, <1>13 DEF PaymentInv

LEMMA PaymentStays ==
    ASSUME PaymentBounds, PaymentInv, [PF!Next]_(PF!vars)
    PROVE  PaymentInv'
<1>1. ASSUME NEW f \in PF!Wizards \cup {"adjust"}, NEW h \in Handle \cup {PF!Blank}, PF!Mount(f, h)
      PROVE  PaymentInv'
  BY <1>1, MountKeeps
<1>2. CASE PF!OpenSend \/ PF!ScanQr \/ PF!OpenDeposit \/ PF!OpenWithdraw \/ PF!OpenAdjustment
  <2>1. \E f \in PF!Wizards \cup {"adjust"}, h \in Handle \cup {PF!Blank} : PF!Mount(f, h)
    BY <1>2 DEF PF!OpenSend, PF!ScanQr, PF!OpenDeposit, PF!OpenWithdraw, PF!OpenAdjustment, PF!Wizards
  <2> QED
    BY <1>1, <2>1
<1>3. CASE UNCHANGED PF!vars
  <2>1. UNCHANGED PF!callVars
        /\ UNCHANGED <<form, mount, step, draft, values, resolved, timer, lookups, asked, stepUp,
                       receipt, seen, unsettled>>
    BY <1>3 DEF PF!vars, PF!formVars
  <2>2. PayTypes /\ StepsKept /\ UNCHANGED <<ledger, calls>>
    BY <2>1 DEF PaymentInv, PF!callVars
  <2>3. PayTypes' /\ StepsKept'
    BY <2>1, <2>2 DEF PayTypes, StepsKept, PF!Recipient
  <2> QED
    BY <2>1, <2>3, FormMoves
<1> QED
  BY <1>2, <1>3, LeaveKeeps, TypingKeeps, SteppingKeeps, PressKeeps, HeardKeeps, LostKeeps,
     AdjustmentHeardKeeps, PaymentServed DEF PF!Next, PF!AllOver

LEMMA PaymentSuffices ==
    ASSUME PaymentBounds, PaymentInv
    PROVE  /\ PF!TypeOK /\ PF!PaidWhoWasNamed /\ PF!ChargedOnce /\ PF!ReceiptTruthful
           /\ PF!AdjustedOnce /\ PF!ConfirmStays
<1>1. /\ SendBounds /\ CallsInv(PayBody, PayDetail) /\ CallTypes(PayBody, PayDetail) /\ KeysKept
      /\ PayTypes /\ StepsKept /\ MountKept /\ CountKept
      /\ seen \in Nat /\ lost \in Nat /\ Cardinality(PF!SentCalls) \in Nat
      /\ ledger \subseteq PF!SentCalls
      /\ IsFiniteSet(PF!MadeHere) /\ Cardinality(PF!MadeHere) \in Nat
      /\ IsFiniteSet(HeardHere) /\ Cardinality(HeardHere) \in Nat
      /\ MaxLookups \in Nat
  BY PaymentCalls DEF PaymentBounds
<1>2. PF!Cardinality(PF!MadeHere) = Cardinality(PF!MadeHere)
  BY FormCardinality
<1>3. PF!TypeOK
  <2>1. lost <= Cardinality(PF!SentCalls) /\ seen <= Cardinality(PF!SentCalls)
    BY <1>1 DEF CountKept
  <2>2. Cardinality(PF!SentCalls) \in 0..MaxSends
    BY <1>1, SentCount
  <2>3. seen \in 0..MaxSends
    BY <1>1, <2>1, <2>2 DEF SendBounds
  <2>4. PF!CallsTypeOK(PayBody)
    BY <1>1, <2>1, CallsTyped
  <2>5. lookups \in [Handle -> 0..MaxLookups]
    <3>1. \A h \in Handle : lookups[h] \in 0..MaxLookups
      BY <1>1 DEF PayTypes
    <3> QED
      BY <1>1, <3>1 DEF PayTypes
  <2> QED
    BY <1>1, <2>3, <2>4, <2>5 DEF PF!TypeOK, PayTypes, PayBody
<1>4. PF!PaidWhoWasNamed
  BY <1>1 DEF PF!PaidWhoWasNamed, MountKept
<1>5. KeyDone \in {0, 1}
  BY DEF KeyDone
<1>6. PF!ChargedOnce
  BY <1>1, <1>2, <1>5 DEF PF!ChargedOnce, CountKept
<1>7. PF!ReceiptTruthful
  BY <1>1, <1>2, <1>5 DEF PF!ReceiptTruthful, CountKept, StepsKept
<1>8. PF!AdjustedOnce
  <2> SUFFICES ASSUME form = "adjust" PROVE Cardinality(PF!MadeHere) <= seen + 1 + lost
    BY <1>2 DEF PF!AdjustedOnce
  <2>1. \A c \in ledger : c \in PF!SentCalls /\ calls[c].at = "ok"
    BY <1>1 DEF KeysKept, MadeOK
  <2>2. PF!MadeHere \in SUBSET (HeardHere \cup {waiting})
    BY <2>1 DEF PF!MadeHere, HeardHere, Here
  <2>3. /\ IsFiniteSet(HeardHere \cup {waiting})
        /\ Cardinality(HeardHere \cup {waiting}) \in {Cardinality(HeardHere), Cardinality(HeardHere) + 1}
    BY <1>1, FS_AddElement
  <2>4. Cardinality(PF!MadeHere) <= Cardinality(HeardHere \cup {waiting})
    BY <2>2, <2>3, FS_Subset
  <2>5. Cardinality(HeardHere) <= seen + lost
    BY <1>1 DEF CountKept
  <2> QED
    BY <1>1, <2>3, <2>4, <2>5
<1>9. PF!ConfirmStays
  BY <1>1 DEF PF!ConfirmStays, StepsKept
<1> QED
  BY <1>3, <1>4, <1>6, <1>7, <1>8, <1>9

-----------------------------------------------------------------------------
(***************************************************************************)
(* The console's tables.  What a table was asked for is in the parameters  *)
(* on screen, in those on their way, or in the box whose timer runs.       *)
(***************************************************************************)
\* The parameters the table comes to.
Newest == IF nav = TS!NoNav THEN TS!params ELSE nav

TimerTells == timer => box # TS!params.q

\* A box that differs and has no timer is what the URL says, or a new URL comes.
BoxSettles ==
    ~timer /\ box # TS!params.q => box = url.q \/ (nav # TS!NoNav /\ nav # url)

ChoicesHeld ==
    ~hasty =>
        /\ want.sort = Newest.sort /\ want.size = Newest.size
        /\ TS!Chosen(want.filter) = TS!Chosen(Newest.filter)
        /\ TS!Search(want.q) = TS!Search(IF timer THEN box ELSE Newest.q)
        /\ nav # TS!NoNav /\ timer => nav.q = TS!params.q /\ CleanText[TS!params.q] = TS!params.q
        /\ ~timer /\ box # TS!params.q => box = url.q \/ (nav # TS!NoNav /\ nav.q = box)
        /\ want.page # 0 => box = TS!params.q /\ want.page = Newest.page

\* The screen had spoken of a row that far down.
Reached(p, n) == p.page = 1 \/ TS!Skip(p) < n

\* Only a link leads past the rows spoken of, and only "previous" leads on from there.
PagesHeld ==
    /\ linked \/ Reached(TS!params, promised)
    /\ nav # TS!NoNav => Reached(nav, promised) \/ (linked /\ nav.page < TS!params.page)

TableInv == TS!TypeOK /\ TimerTells /\ BoxSettles /\ ChoicesHeld /\ PagesHeld

WantSet == [q : Text, sort : TS!Sort, filter : Filter, size : TS!Sizes, page : 0..TS!MaxPage]

LEMMA MaxPageNat ==
    ASSUME TableBounds
    PROVE  TS!MaxPage \in Nat \ {0} /\ MaxRows \in Nat /\ TS!MaxPage = 1 + MaxRows
BY DEF TableBounds, TS!MaxPage

LEMMA ParamsFields ==
    ASSUME TableBounds, NEW p \in TS!Params
    PROVE  /\ p.q \in Text /\ p.sort \in TS!Sort /\ p.filter \in Filter
           /\ p.size \in TS!Sizes /\ p.size \in Nat \ {0}
           /\ p.page \in 1..TS!MaxPage /\ p.page \in Nat \ {0}
           /\ p # TS!NoNav
<1>1. /\ p.q \in Text /\ p.sort \in TS!Sort /\ p.filter \in Filter
      /\ p.size \in TS!Sizes /\ p.page \in 1..TS!MaxPage
  BY DEF TS!Params
<1>2. p.page \in Nat \ {0}
  BY <1>1, MaxPageNat
<1>3. p.size \in Nat \ {0}
  BY <1>1 DEF TableBounds
<1>4. TS!NoNav.page = 0
  BY DEF TS!NoNav
<1> QED
  BY <1>1, <1>2, <1>3, <1>4

LEMMA ParamsMade ==
    ASSUME NEW a \in Text, NEW b \in TS!Sort, NEW c \in Filter, NEW d \in TS!Sizes,
           NEW n \in 1..TS!MaxPage
    PROVE  [q |-> a, sort |-> b, filter |-> c, size |-> d, page |-> n] \in TS!Params
BY DEF TS!Params

\* parseTableParams: text cleaned, and whatever cannot be read at its default.
LEMMA Parsed ==
    ASSUME TableBounds, NEW u \in TS!Params \cup TS!Bookmark
    PROVE  /\ TS!ParseTableParams(u) \in TS!Params
           /\ TS!ParseTableParams(u).q = CleanText[u.q]
           /\ TS!ParseTableParams(u).filter = CleanFilter[u.filter]
           /\ u \in TS!Params =>
                /\ TS!ParseTableParams(u).sort = u.sort /\ TS!ParseTableParams(u).size = u.size
                /\ TS!ParseTableParams(u).page = u.page
<1>1. u.q \in Text /\ u.filter \in Filter /\ u.page \in {-1} \cup (1..TS!MaxPage)
  BY MaxPageNat DEF TS!Params, TS!Bookmark
<1>2. (IF u.page < 1 THEN 1 ELSE u.page) \in 1..TS!MaxPage
  BY <1>1, MaxPageNat
<1>3. PAGE_SIZES[1] \in TS!Sizes
  BY DEF TableBounds, TS!Sizes
<1>4. (IF u.size \in TS!Sizes THEN u.size ELSE PAGE_SIZES[1]) \in TS!Sizes
  BY <1>3
<1>5. (IF u.sort \in TS!Sort THEN u.sort ELSE "desc") \in TS!Sort
  BY DEF TS!Sort
<1>6. CleanText[u.q] \in Text /\ CleanFilter[u.filter] \in Filter
  BY <1>1 DEF TableBounds
<1>7. TS!ParseTableParams(u) \in TS!Params
  BY <1>2, <1>4, <1>5, <1>6 DEF TS!ParseTableParams, TS!Params
<1>8. /\ TS!ParseTableParams(u).q = CleanText[u.q]
      /\ TS!ParseTableParams(u).filter = CleanFilter[u.filter]
  BY DEF TS!ParseTableParams
<1>9. ASSUME u \in TS!Params
      PROVE  /\ TS!ParseTableParams(u).sort = u.sort /\ TS!ParseTableParams(u).size = u.size
             /\ TS!ParseTableParams(u).page = u.page
  <2>1. u.sort \in TS!Sort /\ u.size \in TS!Sizes /\ u.page \in Nat \ {0}
    BY <1>9, ParamsFields
  <2> QED
    BY <2>1 DEF TS!ParseTableParams
<1> QED
  BY <1>7, <1>8, <1>9

\* A third cleaning leaves what two have left.
LEMMA CleanedTwice ==
    ASSUME TableBounds
    PROVE  /\ \A t \in Text : TS!Search(CleanText[t]) = TS!Search(t)
           /\ \A f \in Filter : TS!Chosen(CleanFilter[f]) = TS!Chosen(f)
BY DEF TableBounds, TS!Search, TS!Chosen

\* tableHref with each patch a control writes.
LEMMA HrefPatches ==
    ASSUME NEW p \in TS!Params
    PROVE  /\ \A t : TS!TableHref(p, [q |-> t]) =
                [q |-> t, sort |-> p.sort, filter |-> p.filter, size |-> p.size, page |-> 1]
           /\ \A t, f : TS!TableHref(p, [q |-> t, filter |-> f]) =
                [q |-> t, sort |-> p.sort, filter |-> f, size |-> p.size, page |-> 1]
           /\ \A f : TS!TableHref(p, [filter |-> f]) =
                [q |-> p.q, sort |-> p.sort, filter |-> f, size |-> p.size, page |-> 1]
           /\ \A o : TS!TableHref(p, [sort |-> o]) =
                [q |-> p.q, sort |-> o, filter |-> p.filter, size |-> p.size, page |-> 1]
           /\ \A n : TS!TableHref(p, [size |-> n]) =
                [q |-> p.q, sort |-> p.sort, filter |-> p.filter, size |-> n, page |-> 1]
           /\ \A n : TS!TableHref(p, [page |-> n]) =
                [q |-> p.q, sort |-> p.sort, filter |-> p.filter, size |-> p.size, page |-> n]
<1>1. DOMAIN p = {"q", "sort", "filter", "size", "page"}
  BY DEF TS!Params
<1>2. \A t : TS!TableHref(p, [q |-> t]) =
                [q |-> t, sort |-> p.sort, filter |-> p.filter, size |-> p.size, page |-> 1]
  BY <1>1 DEF TS!TableHref, TS!Resets
<1>3. \A t, f : TS!TableHref(p, [q |-> t, filter |-> f]) =
                [q |-> t, sort |-> p.sort, filter |-> f, size |-> p.size, page |-> 1]
  BY <1>1 DEF TS!TableHref, TS!Resets
<1>4. \A f : TS!TableHref(p, [filter |-> f]) =
                [q |-> p.q, sort |-> p.sort, filter |-> f, size |-> p.size, page |-> 1]
  BY <1>1 DEF TS!TableHref, TS!Resets
<1>5. \A o : TS!TableHref(p, [sort |-> o]) =
                [q |-> p.q, sort |-> o, filter |-> p.filter, size |-> p.size, page |-> 1]
  BY <1>1 DEF TS!TableHref, TS!Resets
<1>6. \A n : TS!TableHref(p, [size |-> n]) =
                [q |-> p.q, sort |-> p.sort, filter |-> p.filter, size |-> n, page |-> 1]
  BY <1>1 DEF TS!TableHref, TS!Resets
<1>7. \A n : TS!TableHref(p, [page |-> n]) =
                [q |-> p.q, sort |-> p.sort, filter |-> p.filter, size |-> p.size, page |-> n]
  BY <1>1 DEF TS!TableHref, TS!Resets
<1> QED
  BY <1>2, <1>3, <1>4, <1>5, <1>6, <1>7

\* set with each patch a control writes.
LEMMA SetPatches ==
    ASSUME TS!params \in TS!Params, want \in WantSet
    PROVE  /\ \A t : TS!Set([q |-> t]) =>
                /\ nav' = [q |-> t, sort |-> TS!params.sort, filter |-> TS!params.filter, size |-> TS!params.size, page |-> 1]
                /\ want' = [q |-> t, sort |-> want.sort, filter |-> want.filter, size |-> want.size, page |-> 0]
           /\ \A t, f : TS!Set([q |-> t, filter |-> f]) =>
                /\ nav' = [q |-> t, sort |-> TS!params.sort, filter |-> f, size |-> TS!params.size, page |-> 1]
                /\ want' = [q |-> t, sort |-> want.sort, filter |-> f, size |-> want.size, page |-> 0]
           /\ \A f : TS!Set([filter |-> f]) =>
                /\ nav' = [q |-> TS!params.q, sort |-> TS!params.sort, filter |-> f, size |-> TS!params.size, page |-> 1]
                /\ want' = [q |-> want.q, sort |-> want.sort, filter |-> f, size |-> want.size, page |-> 0]
           /\ \A o : TS!Set([sort |-> o]) =>
                /\ nav' = [q |-> TS!params.q, sort |-> o, filter |-> TS!params.filter, size |-> TS!params.size, page |-> 1]
                /\ want' = [q |-> want.q, sort |-> o, filter |-> want.filter, size |-> want.size, page |-> 0]
           /\ \A n : TS!Set([size |-> n]) =>
                /\ nav' = [q |-> TS!params.q, sort |-> TS!params.sort, filter |-> TS!params.filter, size |-> n, page |-> 1]
                /\ want' = [q |-> want.q, sort |-> want.sort, filter |-> want.filter, size |-> n, page |-> 0]
           /\ \A n : TS!Set([page |-> n]) =>
                /\ nav' = [q |-> TS!params.q, sort |-> TS!params.sort, filter |-> TS!params.filter, size |-> TS!params.size, page |-> n]
                /\ want' = [q |-> want.q, sort |-> want.sort, filter |-> want.filter, size |-> want.size,
                            page |-> IF box = TS!params.q THEN n ELSE 0]
<1> DEFINE W(patch) ==
             [f \in DOMAIN want |->
                 IF f \in DOMAIN patch /\ (f = "page" => box = TS!params.q) THEN patch[f]
                 ELSE IF f = "page" THEN 0 ELSE want[f]]
<1>1. \A patch : TS!Set(patch) => nav' = TS!TableHref(TS!params, patch) /\ want' = W(patch)
  BY DEF TS!Set
<1>2. DOMAIN want = {"q", "sort", "filter", "size", "page"}
  BY DEF WantSet
<1>3. \A t : W([q |-> t]) =
        [q |-> t, sort |-> want.sort, filter |-> want.filter, size |-> want.size, page |-> 0]
  BY <1>2
<1>4. \A t, f : W([q |-> t, filter |-> f]) =
        [q |-> t, sort |-> want.sort, filter |-> f, size |-> want.size, page |-> 0]
  BY <1>2
<1>5. \A f : W([filter |-> f]) =
        [q |-> want.q, sort |-> want.sort, filter |-> f, size |-> want.size, page |-> 0]
  BY <1>2
<1>6. \A o : W([sort |-> o]) =
        [q |-> want.q, sort |-> o, filter |-> want.filter, size |-> want.size, page |-> 0]
  BY <1>2
<1>7. \A n : W([size |-> n]) =
        [q |-> want.q, sort |-> want.sort, filter |-> want.filter, size |-> n, page |-> 0]
  BY <1>2
<1>8. \A n : W([page |-> n]) =
        [q |-> want.q, sort |-> want.sort, filter |-> want.filter, size |-> want.size,
         page |-> IF box = TS!params.q THEN n ELSE 0]
  BY <1>2
<1> HIDE DEF W
<1>9. ASSUME NEW t, TS!Set([q |-> t])
       PROVE  /\ nav' = [q |-> t, sort |-> TS!params.sort, filter |-> TS!params.filter, size |-> TS!params.size, page |-> 1]
              /\ want' = [q |-> t, sort |-> want.sort, filter |-> want.filter, size |-> want.size, page |-> 0]
  <2>1. nav' = TS!TableHref(TS!params, [q |-> t]) /\ want' = W([q |-> t])
    BY <1>1, <1>9
  <2>2. TS!TableHref(TS!params, [q |-> t]) =
          [q |-> t, sort |-> TS!params.sort, filter |-> TS!params.filter, size |-> TS!params.size, page |-> 1]
    BY HrefPatches
  <2> QED
    BY <1>3, <2>1, <2>2
<1>10. ASSUME NEW t, NEW f, TS!Set([q |-> t, filter |-> f])
       PROVE  /\ nav' = [q |-> t, sort |-> TS!params.sort, filter |-> f, size |-> TS!params.size, page |-> 1]
              /\ want' = [q |-> t, sort |-> want.sort, filter |-> f, size |-> want.size, page |-> 0]
  <2>1. nav' = TS!TableHref(TS!params, [q |-> t, filter |-> f]) /\ want' = W([q |-> t, filter |-> f])
    BY <1>1, <1>10
  <2>2. TS!TableHref(TS!params, [q |-> t, filter |-> f]) =
          [q |-> t, sort |-> TS!params.sort, filter |-> f, size |-> TS!params.size, page |-> 1]
    BY HrefPatches
  <2> QED
    BY <1>4, <2>1, <2>2
<1>11. ASSUME NEW f, TS!Set([filter |-> f])
       PROVE  /\ nav' = [q |-> TS!params.q, sort |-> TS!params.sort, filter |-> f, size |-> TS!params.size, page |-> 1]
              /\ want' = [q |-> want.q, sort |-> want.sort, filter |-> f, size |-> want.size, page |-> 0]
  <2>1. nav' = TS!TableHref(TS!params, [filter |-> f]) /\ want' = W([filter |-> f])
    BY <1>1, <1>11
  <2>2. TS!TableHref(TS!params, [filter |-> f]) =
          [q |-> TS!params.q, sort |-> TS!params.sort, filter |-> f, size |-> TS!params.size, page |-> 1]
    BY HrefPatches
  <2> QED
    BY <1>5, <2>1, <2>2
<1>12. ASSUME NEW o, TS!Set([sort |-> o])
       PROVE  /\ nav' = [q |-> TS!params.q, sort |-> o, filter |-> TS!params.filter, size |-> TS!params.size, page |-> 1]
              /\ want' = [q |-> want.q, sort |-> o, filter |-> want.filter, size |-> want.size, page |-> 0]
  <2>1. nav' = TS!TableHref(TS!params, [sort |-> o]) /\ want' = W([sort |-> o])
    BY <1>1, <1>12
  <2>2. TS!TableHref(TS!params, [sort |-> o]) =
          [q |-> TS!params.q, sort |-> o, filter |-> TS!params.filter, size |-> TS!params.size, page |-> 1]
    BY HrefPatches
  <2> QED
    BY <1>6, <2>1, <2>2
<1>13. ASSUME NEW n, TS!Set([size |-> n])
       PROVE  /\ nav' = [q |-> TS!params.q, sort |-> TS!params.sort, filter |-> TS!params.filter, size |-> n, page |-> 1]
              /\ want' = [q |-> want.q, sort |-> want.sort, filter |-> want.filter, size |-> n, page |-> 0]
  <2>1. nav' = TS!TableHref(TS!params, [size |-> n]) /\ want' = W([size |-> n])
    BY <1>1, <1>13
  <2>2. TS!TableHref(TS!params, [size |-> n]) =
          [q |-> TS!params.q, sort |-> TS!params.sort, filter |-> TS!params.filter, size |-> n, page |-> 1]
    BY HrefPatches
  <2> QED
    BY <1>7, <2>1, <2>2
<1>14. ASSUME NEW n, TS!Set([page |-> n])
       PROVE  /\ nav' = [q |-> TS!params.q, sort |-> TS!params.sort, filter |-> TS!params.filter, size |-> TS!params.size, page |-> n]
              /\ want' = 
                      [q |-> want.q, sort |-> want.sort, filter |-> want.filter, size |-> want.size,
                       page |-> IF box = TS!params.q THEN n ELSE 0]
  <2>1. nav' = TS!TableHref(TS!params, [page |-> n]) /\ want' = W([page |-> n])
    BY <1>1, <1>14
  <2>2. TS!TableHref(TS!params, [page |-> n]) =
          [q |-> TS!params.q, sort |-> TS!params.sort, filter |-> TS!params.filter, size |-> TS!params.size, page |-> n]
    BY HrefPatches
  <2> QED
    BY <1>8, <2>1, <2>2
<1> QED
  BY <1>9, <1>10, <1>11, <1>12, <1>13, <1>14

\* Rows rounded up to pages: the page before the last leaves a row.
LEMMA RowOnPage ==
    ASSUME NEW m \in Nat \ {0}, NEW s \in Nat \ {0}
    PROVE  /\ (m + s - 1) \div s \in Nat \ {0}
           /\ \A k \in Nat \ {0} : k <= (m + s - 1) \div s => (k - 1) * s < m
<1> DEFINE x == m + s - 1
           d == x \div s
           r == x % s
<1>1. x \in Nat /\ d \in Nat /\ r \in 0..(s - 1) /\ x = s * d + r
  OBVIOUS
<1> HIDE DEF d, r
<1>2. d # 0
  BY <1>1
<1>3. ASSUME NEW k \in Nat \ {0}, k <= d PROVE (k - 1) * s < m
  <2>1. PICK e \in Nat : d = k + e
    <3>1. d - k \in Nat
      BY <1>1, <1>3
    <3> QED
      BY <1>1, <3>1
  <2>2. s * d = (k - 1) * s + s + s * e
    BY <2>1
  <2>3. s * e \in Nat /\ (k - 1) * s \in Nat
    BY <2>1
  <2> QED
    BY <1>1, <2>2, <2>3
<1> QED
  BY <1>1, <1>2, <1>3 DEF d

\* "Next" is enabled: there is a row behind this page.
LEMMA RowBehind ==
    ASSUME NEW m \in Nat, NEW s \in Nat \ {0}, NEW k \in Nat \ {0},
           k < IF m = 0 THEN 1 ELSE (m + s - 1) \div s
    PROVE  k * s < m /\ (k - 1) * s < m
<1>1. m # 0 /\ k < (m + s - 1) \div s
  OBVIOUS
<1>2. (m + s - 1) \div s \in Nat
  BY <1>1, RowOnPage
<1>3. k + 1 \in Nat \ {0} /\ k + 1 <= (m + s - 1) \div s /\ k <= (m + s - 1) \div s
  BY <1>1, <1>2
<1>4. ((k + 1) - 1) * s < m /\ (k - 1) * s < m
  BY <1>1, <1>3, RowOnPage
<1>5. (k + 1) - 1 = k
  OBVIOUS
<1> QED
  BY <1>4, <1>5

\* A page without rows begins behind the last of them.
LEMMA EmptyPage ==
    ASSUME TableBounds, counted \in TS!Reading, NEW p \in TS!Params, TS!RowsShown(p) = {}
    PROVE  counted.rows \in Nat /\ counted.rows <= TS!Skip(p)
<1> DEFINE m == counted.rows
           s == p.size
           k == p.page
<1>1. m \in Nat /\ s \in Nat \ {0} /\ k \in Nat \ {0}
  BY ParamsFields, MaxPageNat DEF TS!Reading
<1>2. TS!RowsShown(p) = {i \in 1..m : i > TS!Skip(p) /\ i <= TS!Skip(p) + s} /\ TS!Skip(p) = (k - 1) * s
  BY DEF TS!RowsShown, TS!Skip
<1> HIDE DEF m, s, k
<1>3. PICK z \in Nat : z = TS!Skip(p)
  BY <1>1, <1>2
<1>4. ASSUME z < m PROVE FALSE
  <2>1. z + 1 \in 1..m /\ z + 1 > z /\ z + 1 <= z + s
    BY <1>1, <1>4
  <2>2. TS!RowsShown(p) = {i \in 1..m : i > z /\ i <= z + s}
    BY <1>2, <1>3
  <2> QED
    BY <2>1, <2>2
<1>5. m <= z
  BY <1>1, <1>4
<1>6. m \in Nat /\ m <= TS!Skip(p)
  BY <1>1, <1>3, <1>5
<1> QED
  BY <1>6 DEF m

\* The table's types, one by one.
LEMMA TableTypes ==
    ASSUME TableBounds, TableInv
    PROVE  /\ url \in TS!Params \cup TS!Bookmark /\ counted \in TS!Reading
           /\ TS!params \in TS!Params /\ TS!params = TS!ParseTableParams(url)
           /\ nav \in TS!Params \cup {TS!NoNav} /\ box \in Text
           /\ timer \in BOOLEAN /\ hasty \in BOOLEAN /\ linked \in BOOLEAN
           /\ want \in WantSet /\ promised \in 0..MaxRows /\ presses \in 0..MaxPresses
<1>1. /\ url \in TS!Params \cup TS!Bookmark /\ counted \in TS!Reading
      /\ nav \in TS!Params \cup {TS!NoNav} /\ box \in Text
      /\ timer \in BOOLEAN /\ hasty \in BOOLEAN /\ linked \in BOOLEAN
      /\ want \in WantSet /\ promised \in 0..MaxRows /\ presses \in 0..MaxPresses
  BY DEF TableInv, TS!TypeOK, WantSet
<1>2. TS!params = TS!ParseTableParams(url)
  BY DEF TS!params
<1> QED
  BY <1>1, <1>2, Parsed

LEMMA SameUrl ==
    ASSUME UNCHANGED url
    PROVE  TS!params' = TS!params
BY DEF TS!params, TS!ParseTableParams

\* A URL whose parameters are not the ones on screen is another URL.
LEMMA AnotherUrl ==
    ASSUME TableBounds, TableInv, NEW v \in TS!Params,
           \/ v.sort # TS!params.sort \/ v.size # TS!params.size \/ v.page # TS!params.page
           \/ v.q # TS!params.q /\ v.q = CleanText[v.q]
           \/ v.filter # TS!params.filter /\ v.filter = CleanFilter[v.filter]
    PROVE  v # url
<1> SUFFICES ASSUME v = url PROVE FALSE
  OBVIOUS
<1>1. TS!params = TS!ParseTableParams(v)
  BY DEF TS!params
<1>2. /\ TS!params.q = CleanText[v.q] /\ TS!params.filter = CleanFilter[v.filter]
      /\ TS!params.sort = v.sort /\ TS!params.size = v.size /\ TS!params.page = v.page
  BY <1>1, Parsed
<1> QED
  BY <1>2

\* A navigation begins: to the first page, to the next, or back from past the last.
LEMMA TableNavigates ==
    ASSUME TableBounds, TableInv, NEW v \in TS!Params, nav' = v,
           UNCHANGED <<url, counted, box, linked>>,
           timer' \in BOOLEAN, hasty' \in BOOLEAN, want' \in WantSet, presses' \in 0..MaxPresses,
           promised' \in 0..MaxRows,
           timer' => timer,
           v # url \/ timer' \/ box \in {TS!params.q, url.q},
           linked \/ Reached(TS!params, promised'),
           Reached(v, promised') \/ (linked /\ v.page < TS!params.page),
           hasty' \/ ( /\ want'.sort = v.sort /\ want'.size = v.size
                       /\ TS!Chosen(want'.filter) = TS!Chosen(v.filter)
                       /\ TS!Search(want'.q) = TS!Search(IF timer' THEN box ELSE v.q)
                       /\ timer' => v.q = TS!params.q /\ CleanText[TS!params.q] = TS!params.q
                       /\ timer' \/ box \in {TS!params.q, url.q, v.q}
                       /\ want'.page # 0 => box = TS!params.q /\ want'.page = v.page)
    PROVE  TableInv'
<1>1. TS!TypeOK'
  BY TableTypes DEF TS!TypeOK, WantSet
<1>2. v # TS!NoNav
  BY ParamsFields
<1>3. TS!params' = TS!params
  BY SameUrl
<1>4. TimerTells'
  BY <1>3 DEF TableInv, TimerTells
<1>5. BoxSettles'
  BY <1>2, <1>3 DEF BoxSettles
<1>6. Newest' = v
  BY <1>2 DEF Newest
<1>7. ChoicesHeld'
  <2> SUFFICES ASSUME ~hasty' PROVE ChoicesHeld'
    BY DEF ChoicesHeld
  <2>1. /\ want'.sort = v.sort /\ want'.size = v.size
        /\ TS!Chosen(want'.filter) = TS!Chosen(v.filter)
        /\ TS!Search(want'.q) = TS!Search(IF timer' THEN box ELSE v.q)
        /\ timer' => v.q = TS!params.q /\ CleanText[TS!params.q] = TS!params.q
        /\ timer' \/ box \in {TS!params.q, url.q, v.q}
        /\ want'.page # 0 => box = TS!params.q /\ want'.page = v.page
    OBVIOUS
  <2> QED
    BY <1>2, <1>3, <1>6, <2>1 DEF ChoicesHeld
<1>8. PagesHeld'
  BY <1>3 DEF PagesHeld, Reached, TS!Skip
<1> QED
  BY <1>1, <1>4, <1>5, <1>7, <1>8 DEF TableInv

\* What was asked for when no page is on its way.
LEMMA AskedInTime ==
    ASSUME TableInv, ~hasty, nav = TS!NoNav
    PROVE  /\ want.sort = TS!params.sort /\ want.size = TS!params.size
           /\ TS!Chosen(want.filter) = TS!Chosen(TS!params.filter)
           /\ TS!Search(want.q) = TS!Search(IF timer THEN box ELSE TS!params.q)
           /\ timer \/ box \in {TS!params.q, url.q}
           /\ want.page # 0 => box = TS!params.q /\ want.page = TS!params.page
           /\ timer => box # TS!params.q
BY DEF TableInv, ChoicesHeld, Newest, TimerTells

LEMMA TablePressed ==
    ASSUME TableBounds, TableInv, NEW early, TS!Pressed(early)
    PROVE  presses' \in 0..MaxPresses
<1>1. presses < MaxPresses /\ presses' = presses + 1
  BY DEF TS!Pressed
<1>2. presses \in 0..MaxPresses /\ MaxPresses \in Nat
  BY TableTypes DEF TableBounds
<1> QED
  BY <1>1, <1>2

LEMMA TableTyped ==
    ASSUME TableBounds, TableInv, NEW t \in Text, TS!Type(t)
    PROVE  TableInv'
<1>1. /\ box' = t /\ (timer' <=> t # TS!params.q) /\ timer' \in BOOLEAN
      /\ want' = [want EXCEPT !.q = t, !.page = 0]
      /\ TS!Pressed(nav # TS!NoNav) /\ hasty' = (hasty \/ nav # TS!NoNav)
      /\ UNCHANGED <<url, counted, nav, linked, promised>>
  BY DEF TS!Type, TS!Pressed
<1>2. TS!params' = TS!params
  BY <1>1, SameUrl
<1>3. /\ want' \in WantSet /\ want'.q = t /\ want'.page = 0
      /\ want'.sort = want.sort /\ want'.filter = want.filter /\ want'.size = want.size
  <2>1. want \in WantSet /\ 0 \in 0..TS!MaxPage
    BY TableTypes, MaxPageNat
  <2> QED
    BY <1>1, <2>1 DEF WantSet
<1>4. TS!TypeOK'
  <2>1. presses' \in 0..MaxPresses
    BY <1>1, TablePressed
  <2>2. hasty' \in BOOLEAN
    BY <1>1, TableTypes
  <2> QED
    BY <1>1, <1>3, <2>1, <2>2, TableTypes DEF TS!TypeOK, WantSet
<1>5. TimerTells' /\ BoxSettles'
  BY <1>1, <1>2 DEF TimerTells, BoxSettles
<1>6. ChoicesHeld'
  <2> SUFFICES ASSUME ~hasty' PROVE ChoicesHeld'
    BY DEF ChoicesHeld
  <2>1. ~hasty /\ nav = TS!NoNav
    BY <1>1, TableTypes
  <2>2. Newest' = TS!params
    BY <1>1, <1>2, <2>1 DEF Newest
  <2>3. timer' \/ t = TS!params.q
    BY <1>1
  <2> QED
    BY <1>1, <1>2, <1>3, <2>1, <2>2, <2>3, AskedInTime DEF ChoicesHeld
<1>7. PagesHeld'
  BY <1>1, <1>2 DEF TableInv, PagesHeld, Reached, TS!Skip
<1> QED
  BY <1>4, <1>5, <1>6, <1>7 DEF TableInv

\* A control writes its patch: the actions but the keystroke, the timer, the
\* page's arrival and its refresh.
LEMMA ControlNavigates ==
    ASSUME TableBounds, TableInv, NEW v \in TS!Params, NEW w \in WantSet, NEW early \in BOOLEAN,
           nav' = v, want' = w, TS!Pressed(early), TS!Busy => early, v # url,
           UNCHANGED <<url, counted, box, timer, linked>>,
           promised' \in 0..MaxRows,
           linked \/ Reached(TS!params, promised'),
           Reached(v, promised') \/ (linked /\ v.page < TS!params.page),
           ~hasty /\ ~early /\ nav = TS!NoNav =>
               /\ w.sort = v.sort /\ w.size = v.size /\ TS!Chosen(w.filter) = TS!Chosen(v.filter)
               /\ TS!Search(w.q) = TS!Search(IF timer THEN box ELSE v.q)
               /\ timer => v.q = TS!params.q
               /\ w.page # 0 => box = TS!params.q /\ w.page = v.page
    PROVE  TableInv'
<1>1. hasty' = (hasty \/ early) /\ hasty \in BOOLEAN
  BY TableTypes DEF TS!Pressed
<1>2. hasty' \in BOOLEAN /\ timer' \in BOOLEAN /\ (timer' <=> timer)
  BY <1>1, TableTypes
<1>3. presses' \in 0..MaxPresses
  BY TablePressed
<1>4. ~hasty' => ~hasty /\ ~early /\ nav = TS!NoNav /\ (timer => CleanText[TS!params.q] = TS!params.q)
  BY <1>1 DEF TS!Busy
<1>5. hasty' \/ ( /\ want'.sort = v.sort /\ want'.size = v.size
                  /\ TS!Chosen(want'.filter) = TS!Chosen(v.filter)
                  /\ TS!Search(want'.q) = TS!Search(IF timer' THEN box ELSE v.q)
                  /\ timer' => v.q = TS!params.q /\ CleanText[TS!params.q] = TS!params.q
                  /\ timer' \/ box \in {TS!params.q, url.q, v.q}
                  /\ want'.page # 0 => box = TS!params.q /\ want'.page = v.page)
  BY <1>2, <1>4, AskedInTime
<1> QED
  BY <1>2, <1>3, <1>5, TableNavigates

\* A control that leads to the first page.
LEMMA ToFirstPage ==
    ASSUME TableBounds, TableInv, NEW v \in TS!Params, NEW w \in WantSet, NEW early \in BOOLEAN,
           nav' = v, want' = w, TS!Pressed(early), TS!Busy => early, v # url,
           UNCHANGED <<url, counted, box, timer, linked, promised>>,
           v.page = 1, w.page = 0,
           ~hasty /\ ~early /\ nav = TS!NoNav =>
               /\ w.sort = v.sort /\ w.size = v.size /\ TS!Chosen(w.filter) = TS!Chosen(v.filter)
               /\ TS!Search(w.q) = TS!Search(IF timer THEN box ELSE v.q)
               /\ timer => v.q = TS!params.q
    PROVE  TableInv'
<1>1. promised' \in 0..MaxRows /\ Reached(v, promised')
  BY TableTypes DEF Reached
<1>2. linked \/ Reached(TS!params, promised')
  BY DEF TableInv, PagesHeld, Reached
<1> QED
  BY <1>1, <1>2, ControlNavigates

LEMMA FilterChosen ==
    ASSUME TableBounds, TableInv, NEW f \in Filter, TS!ChooseFilter(f)
    PROVE  TableInv'
<1> DEFINE v == [q |-> TS!params.q, sort |-> TS!params.sort, filter |-> f, size |-> TS!params.size, page |-> 1]
           w == [q |-> want.q, sort |-> want.sort, filter |-> f, size |-> want.size, page |-> 0]
<1>1. v \in TS!Params
  BY TableTypes, ParamsFields, ParamsMade, MaxPageNat
<1>2. w \in WantSet
  BY TableTypes, MaxPageNat DEF WantSet
<1>3. nav' = v /\ want' = w
  BY TableTypes, SetPatches DEF TS!ChooseFilter
<1>4. TS!Pressed(TS!Busy) /\ UNCHANGED <<url, counted, box, timer, linked, promised>>
  BY DEF TS!ChooseFilter
<1>5. v.page = 1 /\ w.page = 0 /\ v.filter = f /\ v.q = TS!params.q
  OBVIOUS
<1>6. v # url
  <2>1. f = CleanFilter[f] /\ f # TS!params.filter
    BY DEF TS!ChooseFilter
  <2> HIDE DEF v
  <2> QED
    BY <1>1, <1>5, <2>1, AnotherUrl
<1>7. ~hasty /\ nav = TS!NoNav =>
        /\ w.sort = v.sort /\ w.size = v.size /\ TS!Chosen(w.filter) = TS!Chosen(v.filter)
        /\ TS!Search(w.q) = TS!Search(IF timer THEN box ELSE v.q)
  BY AskedInTime
<1>8. TS!Busy \in BOOLEAN
  BY DEF TS!Busy
<1> HIDE DEF v, w
<1> QED
  BY <1>1, <1>2, <1>3, <1>4, <1>5, <1>6, <1>7, <1>8, ToFirstPage

LEMMA AllCleared ==
    ASSUME TableBounds, TableInv, TS!ClearAll
    PROVE  TableInv'
<1> DEFINE all == [q |-> TS!None, sort |-> TS!params.sort, filter |-> TS!None, size |-> TS!params.size, page |-> 1]
           wall == [q |-> TS!None, sort |-> want.sort, filter |-> TS!None, size |-> want.size, page |-> 0]
           one == [q |-> TS!None, sort |-> TS!params.sort, filter |-> TS!params.filter, size |-> TS!params.size, page |-> 1]
           wone == [q |-> TS!None, sort |-> want.sort, filter |-> want.filter, size |-> want.size, page |-> 0]
<1>1. /\ TS!None \in Text /\ TS!None \in Filter
      /\ CleanText[TS!None] = TS!None /\ CleanFilter[TS!None] = TS!None
  BY DEF TableBounds
<1>2. all \in TS!Params /\ one \in TS!Params
  BY <1>1, TableTypes, ParamsFields, ParamsMade, MaxPageNat
<1>3. wall \in WantSet /\ wone \in WantSet
  BY <1>1, TableTypes, MaxPageNat DEF WantSet
<1>4. \/ nav' = all /\ want' = wall
      \/ TS!params.q # TS!None /\ nav' = one /\ want' = wone
  BY TableTypes, SetPatches DEF TS!ClearAll
<1>5. /\ TS!Pressed(nav # TS!NoNav \/ timer) /\ UNCHANGED <<url, counted, box, timer, linked, promised>>
      /\ TS!params.q # TS!None \/ TS!params.filter # TS!None
  BY DEF TS!ClearAll
<1>6. ~hasty /\ ~timer /\ nav = TS!NoNav =>
        /\ wall.sort = all.sort /\ wall.size = all.size /\ TS!Chosen(wall.filter) = TS!Chosen(all.filter)
        /\ wone.sort = one.sort /\ wone.size = one.size /\ TS!Chosen(wone.filter) = TS!Chosen(one.filter)
  BY AskedInTime
<1>7. /\ all.q = TS!None /\ all.filter = TS!None /\ one.q = TS!None /\ all.page = 1 /\ one.page = 1
      /\ wall.q = TS!None /\ wone.q = TS!None /\ wall.page = 0 /\ wone.page = 0
  OBVIOUS
<1> HIDE DEF all, wall, one, wone
<1>8. (nav # TS!NoNav \/ timer) \in BOOLEAN /\ (TS!Busy => nav # TS!NoNav \/ timer)
  BY TableTypes DEF TS!Busy
<1>9. all # url
  BY <1>1, <1>2, <1>5, <1>7, AnotherUrl
<1>10. TS!params.q # TS!None => one # url
  BY <1>1, <1>2, <1>7, AnotherUrl
<1>11. CASE nav' = all /\ want' = wall
  BY <1>2, <1>3, <1>5, <1>6, <1>7, <1>8, <1>9, <1>11, ToFirstPage
<1>12. CASE TS!params.q # TS!None /\ nav' = one /\ want' = wone
  BY <1>2, <1>3, <1>5, <1>6, <1>7, <1>8, <1>10, <1>12, ToFirstPage
<1> QED
  BY <1>4, <1>11, <1>12

LEMMA SortToggled ==
    ASSUME TableBounds, TableInv, TS!ToggleSort
    PROVE  TableInv'
<1>1. PICK o \in TS!Sort : TS!Set([sort |-> o]) /\ o # TS!params.sort
  BY DEF TS!ToggleSort, TS!Sort
<1> DEFINE v == [q |-> TS!params.q, sort |-> o, filter |-> TS!params.filter, size |-> TS!params.size, page |-> 1]
           w == [q |-> want.q, sort |-> o, filter |-> want.filter, size |-> want.size, page |-> 0]
<1>2. v \in TS!Params
  BY TableTypes, ParamsFields, ParamsMade, MaxPageNat
<1>3. w \in WantSet
  BY TableTypes, MaxPageNat DEF WantSet
<1>4. nav' = v /\ want' = w
  BY <1>1, TableTypes, SetPatches
<1>5. TS!Pressed(TS!Busy) /\ UNCHANGED <<url, counted, box, timer, linked, promised>>
  BY DEF TS!ToggleSort
<1>6. v.page = 1 /\ w.page = 0 /\ v.sort = o /\ v.q = TS!params.q
  OBVIOUS
<1>7. ~hasty /\ nav = TS!NoNav =>
        /\ w.sort = v.sort /\ w.size = v.size /\ TS!Chosen(w.filter) = TS!Chosen(v.filter)
        /\ TS!Search(w.q) = TS!Search(IF timer THEN box ELSE v.q)
  BY AskedInTime
<1>8. TS!Busy \in BOOLEAN
  BY DEF TS!Busy
<1> HIDE DEF v, w
<1>9. v # url
  BY <1>1, <1>2, <1>6, AnotherUrl
<1> QED
  BY <1>2, <1>3, <1>4, <1>5, <1>6, <1>7, <1>8, <1>9, ToFirstPage

LEMMA SizeChosen ==
    ASSUME TableBounds, TableInv, NEW n \in TS!Sizes, TS!ChooseSize(n)
    PROVE  TableInv'
<1> DEFINE v == [q |-> TS!params.q, sort |-> TS!params.sort, filter |-> TS!params.filter, size |-> n, page |-> 1]
           w == [q |-> want.q, sort |-> want.sort, filter |-> want.filter, size |-> n, page |-> 0]
<1>1. v \in TS!Params
  BY TableTypes, ParamsFields, ParamsMade, MaxPageNat
<1>2. w \in WantSet
  BY TableTypes, MaxPageNat DEF WantSet
<1>3. nav' = v /\ want' = w
  BY TableTypes, SetPatches DEF TS!ChooseSize
<1>4. /\ TS!Pressed(TS!Busy) /\ UNCHANGED <<url, counted, box, timer, linked, promised>>
      /\ n # TS!params.size
  BY DEF TS!ChooseSize
<1>5. v.page = 1 /\ w.page = 0 /\ v.size = n /\ v.q = TS!params.q
  OBVIOUS
<1>6. ~hasty /\ nav = TS!NoNav =>
        /\ w.sort = v.sort /\ w.size = v.size /\ TS!Chosen(w.filter) = TS!Chosen(v.filter)
        /\ TS!Search(w.q) = TS!Search(IF timer THEN box ELSE v.q)
  BY AskedInTime
<1>7. TS!Busy \in BOOLEAN
  BY DEF TS!Busy
<1> HIDE DEF v, w
<1>8. v # url
  BY <1>1, <1>4, <1>5, AnotherUrl
<1> QED
  BY <1>1, <1>2, <1>3, <1>4, <1>5, <1>6, <1>7, <1>8, ToFirstPage

\* "Next" leads to a row the screen speaks of, "previous" to one before.
LEMMA TurnLeadsToRow ==
    ASSUME TableBounds, TableInv, NEW n \in 1..TS!MaxPage, TS!TurnPage(n), NEW v \in TS!Params,
           v = [q |-> TS!params.q, sort |-> TS!params.sort, filter |-> TS!params.filter,
                size |-> TS!params.size, page |-> n]
    PROVE  /\ linked \/ Reached(TS!params, promised')
           /\ Reached(v, promised') \/ (linked /\ v.page < TS!params.page)
           /\ promised' \in 0..MaxRows
           /\ n # TS!params.page
<1> DEFINE k == TS!params.page
           s == TS!params.size
           m == counted.total
<1>1. k \in Nat \ {0} /\ s \in Nat \ {0} /\ m \in 0..MaxRows /\ m \in Nat
  BY TableTypes, ParamsFields, MaxPageNat DEF TS!Reading
<1>2. /\ TS!Skip(TS!params) = (k - 1) * s /\ TS!Skip(v) = (n - 1) * s /\ v.page = n
      /\ TS!Pages(TS!params) = IF m = 0 THEN 1 ELSE (m + s - 1) \div s
  BY DEF TS!Skip, TS!Pages
<1>3. /\ n = k - 1 \/ (n = k + 1 /\ k < TS!Pages(TS!params))
      /\ promised' = IF n > k THEN m ELSE promised
  BY DEF TS!TurnPage, TS!PageTurns
<1>4. linked \/ k = 1 \/ (k - 1) * s < promised
  BY <1>2 DEF TableInv, PagesHeld, Reached
<1> HIDE DEF k, s, m
<1>5. CASE n = k - 1
  <2>1. promised' = promised /\ promised \in 0..MaxRows /\ promised \in Nat
    BY <1>1, <1>3, <1>5, TableTypes, MaxPageNat
  <2>2. k # 1 /\ n < k
    BY <1>1, <1>5
  <2>3. PICK z \in Nat : z = (n - 1) * s
    BY <1>1
  <2>4. (k - 1) * s = (n - 1) * s + s
    BY <1>1, <1>5
  <2>5. linked \/ (n - 1) * s < promised
    BY <1>1, <1>4, <2>1, <2>2, <2>3, <2>4
  <2> QED
    BY <1>1, <1>2, <1>4, <2>1, <2>2, <2>5 DEF Reached, k
<1>6. CASE n = k + 1 /\ k < TS!Pages(TS!params)
  <2>1. promised' = m /\ n # k
    BY <1>1, <1>3, <1>6
  <2>2. k * s < m /\ (k - 1) * s < m
    BY <1>1, <1>2, <1>6, RowBehind
  <2>3. n - 1 = k
    BY <1>1, <1>6
  <2> QED
    BY <1>1, <1>2, <2>1, <2>2, <2>3 DEF Reached, k
<1> QED
  BY <1>3, <1>5, <1>6

LEMMA PageTurned ==
    ASSUME TableBounds, TableInv, NEW n \in 1..TS!MaxPage, TS!TurnPage(n)
    PROVE  TableInv'
<1> DEFINE v == [q |-> TS!params.q, sort |-> TS!params.sort, filter |-> TS!params.filter,
                 size |-> TS!params.size, page |-> n]
           w == [q |-> want.q, sort |-> want.sort, filter |-> want.filter, size |-> want.size,
                 page |-> IF box = TS!params.q THEN n ELSE 0]
<1>1. v \in TS!Params
  BY TableTypes, ParamsFields, ParamsMade
<1>2. w \in WantSet
  BY TableTypes, MaxPageNat DEF WantSet
<1>3. nav' = v /\ want' = w
  BY TableTypes, SetPatches DEF TS!TurnPage
<1>4. TS!Pressed(TS!Busy) /\ UNCHANGED <<url, counted, box, timer, linked>>
  BY DEF TS!TurnPage
<1>5. v.page = n /\ v.q = TS!params.q /\ (w.page # 0 => box = TS!params.q /\ w.page = n)
  OBVIOUS
<1>6. ~hasty /\ nav = TS!NoNav =>
        /\ w.sort = v.sort /\ w.size = v.size /\ TS!Chosen(w.filter) = TS!Chosen(v.filter)
        /\ TS!Search(w.q) = TS!Search(IF timer THEN box ELSE v.q)
  BY AskedInTime
<1>7. TS!Busy \in BOOLEAN
  BY DEF TS!Busy
<1>8. /\ linked \/ Reached(TS!params, promised')
      /\ Reached(v, promised') \/ (linked /\ v.page < TS!params.page)
      /\ promised' \in 0..MaxRows
      /\ n # TS!params.page
  BY <1>1, TurnLeadsToRow
<1> HIDE DEF v, w
<1>9. v # url
  BY <1>1, <1>5, <1>8, AnotherUrl
<1> QED
  BY <1>1, <1>2, <1>3, <1>4, <1>5, <1>6, <1>7, <1>8, <1>9, ControlNavigates

LEMMA BoxWritten ==
    ASSUME TableBounds, TableInv, TS!Debounced
    PROVE  TableInv'
<1> DEFINE v == [q |-> box, sort |-> TS!params.sort, filter |-> TS!params.filter, size |-> TS!params.size, page |-> 1]
<1>1. v \in TS!Params
  BY TableTypes, ParamsFields, ParamsMade, MaxPageNat
<1>2. nav' = v
  BY TableTypes, HrefPatches DEF TS!Debounced
<1>3. /\ timer /\ ~timer' /\ timer' \in BOOLEAN
      /\ UNCHANGED <<url, counted, box, want, linked, promised, presses>>
      /\ hasty' = (hasty \/ nav # TS!NoNav)
  BY DEF TS!Debounced
<1>4. hasty' \in BOOLEAN /\ (~hasty' => ~hasty /\ nav = TS!NoNav)
  BY <1>3, TableTypes
<1>5. ~hasty /\ nav = TS!NoNav =>
        /\ want.sort = v.sort /\ want.size = v.size /\ TS!Chosen(want.filter) = TS!Chosen(v.filter)
        /\ TS!Search(want.q) = TS!Search(v.q)
        /\ want.page = 0
  BY <1>3, AskedInTime
<1>6. box = v.q /\ v.page = 1
  OBVIOUS
<1> HIDE DEF v
<1>7. v # url \/ box \in {TS!params.q, url.q}
  BY <1>6
<1>8. (linked \/ Reached(TS!params, promised')) /\ Reached(v, promised')
  BY <1>3, <1>6 DEF TableInv, PagesHeld, Reached
<1>9. want' \in WantSet /\ presses' \in 0..MaxPresses /\ promised' \in 0..MaxRows
  BY <1>3, TableTypes
<1> QED
  BY <1>1, <1>2, <1>3, <1>4, <1>5, <1>6, <1>7, <1>8, <1>9, TableNavigates

LEMMA TableArrives ==
    ASSUME TableBounds, TableInv, TS!Arrive
    PROVE  TableInv'
<1> DEFINE old == TS!params
           new == TS!params'
<1>1. /\ nav \in TS!Params /\ nav # TS!NoNav
      /\ url' = nav /\ nav' = TS!NoNav /\ counted' \in TS!Reading
      /\ box' = (IF new.q # old.q THEN new.q ELSE box)
      /\ timer' = (IF nav = url THEN timer ELSE box' # new.q)
      /\ linked' = (linked /\ nav.page < old.page)
      /\ UNCHANGED <<want, hasty, promised, presses>>
  BY TableTypes DEF TS!Arrive
<1>2. new = TS!ParseTableParams(nav)
  BY <1>1 DEF TS!params, TS!ParseTableParams
<1>3. /\ new \in TS!Params /\ new.q = CleanText[nav.q] /\ new.filter = CleanFilter[nav.filter]
      /\ new.sort = nav.sort /\ new.size = nav.size /\ new.page = nav.page
  BY <1>1, <1>2, Parsed
<1>4. nav = url => new = old
  BY <1>1, <1>2, TableTypes
<1>5. /\ nav.q \in Text /\ nav.filter \in Filter /\ box \in Text /\ timer \in BOOLEAN
      /\ TS!Search(new.q) = TS!Search(nav.q) /\ TS!Chosen(new.filter) = TS!Chosen(nav.filter)
  BY <1>1, <1>3, TableTypes, ParamsFields, CleanedTwice
<1>6. timer => box # old.q
  BY DEF TableInv, TimerTells
<1>7. TS!TypeOK'
  <2>1. box' \in Text /\ linked' \in BOOLEAN /\ timer' \in BOOLEAN
    BY <1>1, <1>3, <1>5, ParamsFields
  <2> QED
    BY <1>1, <2>1, TableTypes DEF TS!TypeOK, WantSet
<1> HIDE DEF old, new
<1>8. TimerTells'
  <2>1. timer' => box' # new.q
    BY <1>1, <1>4, <1>6
  <2> QED
    BY <2>1 DEF TimerTells, new
<1>9. ~timer' /\ box' # new.q => nav = url /\ box' = box /\ ~timer /\ box # old.q
  BY <1>1, <1>4
<1>10. BoxSettles'
  <2>1. nav = url /\ ~timer /\ box # old.q => box = url.q
    BY DEF TableInv, BoxSettles, old
  <2> QED
    BY <1>1, <1>9, <2>1 DEF BoxSettles, new
<1>11. ChoicesHeld'
  <2> SUFFICES ASSUME ~hasty PROVE ChoicesHeld'
    BY <1>1 DEF ChoicesHeld
  <2>1. /\ want.sort = nav.sort /\ want.size = nav.size /\ TS!Chosen(want.filter) = TS!Chosen(nav.filter)
        /\ TS!Search(want.q) = TS!Search(IF timer THEN box ELSE nav.q)
        /\ timer => nav.q = old.q /\ CleanText[old.q] = old.q
        /\ ~timer /\ box # old.q => box = url.q \/ nav.q = box
        /\ want.page # 0 => box = old.q /\ want.page = nav.page
    BY <1>1 DEF TableInv, ChoicesHeld, Newest, old
  <2>2. old.q = CleanText[url.q]
    BY TableTypes, Parsed DEF old
  <2>3. TS!Search(want.q) = TS!Search(IF timer' THEN box' ELSE new.q)
    <3>1. CASE timer
      <4>1. new.q = old.q /\ box' = box /\ timer'
        BY <1>1, <1>3, <1>6, <2>1, <3>1
      <4> QED
        BY <2>1, <3>1, <4>1
    <3>2. CASE ~timer /\ ~timer'
      BY <1>5, <2>1, <3>2
    <3>3. CASE ~timer /\ timer'
      <4>1. new.q = old.q /\ box' = box /\ box # old.q
        BY <1>1, <3>3
      <4>2. CASE nav.q = box
        BY <2>1, <3>3, <4>1, <4>2
      <4>3. CASE box = url.q
        <5>1. CleanText[box] = CleanText[nav.q]
          BY <1>3, <2>2, <4>1, <4>3
        <5>2. TS!Search(box) = TS!Search(nav.q)
          BY <5>1 DEF TS!Search
        <5> QED
          BY <2>1, <3>3, <4>1, <5>2
      <4> QED
        BY <2>1, <3>3, <4>1, <4>2, <4>3
    <3> QED
      BY <1>1, <1>5, <3>1, <3>2, <3>3
  <2>4. ~timer' /\ box' # new.q => box' = url'.q
    <3>1. nav = url /\ ~timer /\ box # old.q => box = nav.q
      BY <2>1
    <3> QED
      BY <1>1, <1>9, <3>1
  <2>5. want.page # 0 => box' = new.q /\ want.page = new.page
    BY <1>1, <1>3, <2>1
  <2>6. /\ want' = want /\ nav' = TS!NoNav /\ Newest' = new
    BY <1>1 DEF Newest, new
  <2> QED
    BY <1>3, <1>5, <2>1, <2>3, <2>4, <2>5, <2>6 DEF ChoicesHeld, new
<1>12. PagesHeld'
  <2>1. Reached(nav, promised) \/ (linked /\ nav.page < old.page)
    BY <1>1 DEF TableInv, PagesHeld, old
  <2>2. TS!Skip(new) = TS!Skip(nav)
    BY <1>3 DEF TS!Skip
  <2>3. Reached(new, promised) \/ linked'
    BY <1>1, <1>3, <2>1, <2>2 DEF Reached
  <2> QED
    BY <1>1, <2>3 DEF PagesHeld, Reached, TS!Skip, new
<1> QED
  BY <1>7, <1>8, <1>10, <1>11, <1>12 DEF TableInv

\* Only what was counted changes.
LEMMA TableRefreshed ==
    ASSUME TableBounds, TableInv, TS!Refresh
    PROVE  TableInv'
<1>1. /\ TS!Pressed(FALSE) /\ counted' \in TS!Reading
      /\ UNCHANGED <<url, nav, box, timer, want, linked, promised>>
  BY DEF TS!Refresh
<1>2. TS!params' = TS!params /\ Newest' = Newest
  BY <1>1, SameUrl DEF Newest
<1>3. (hasty' <=> hasty) /\ hasty' \in BOOLEAN
  BY <1>1, TableTypes DEF TS!Pressed
<1>4. presses' \in 0..MaxPresses
  BY <1>1, TablePressed
<1>5. TS!TypeOK'
  BY <1>1, <1>3, <1>4, TableTypes DEF TS!TypeOK, WantSet
<1>6. TimerTells' /\ BoxSettles'
  BY <1>1, <1>2 DEF TableInv, TimerTells, BoxSettles
<1>7. ChoicesHeld'
  BY <1>1, <1>2, <1>3 DEF TableInv, ChoicesHeld
<1>8. PagesHeld'
  BY <1>1, <1>2 DEF TableInv, PagesHeld, Reached, TS!Skip
<1> QED
  BY <1>5, <1>6, <1>7, <1>8 DEF TableInv

LEMMA TableStays ==
    ASSUME TableBounds, TableInv, [TS!Next]_(TS!vars)
    PROVE  TableInv'
<1>1. ASSUME UNCHANGED TS!vars PROVE TableInv'
  <2>1. UNCHANGED <<url, counted, nav, box, timer, want, hasty, linked, promised, presses>>
    BY <1>1 DEF TS!vars
  <2>2. TS!params' = TS!params /\ Newest' = Newest
    BY <2>1, SameUrl DEF Newest
  <2>3. TS!TypeOK'
    BY <2>1 DEF TableInv, TS!TypeOK
  <2>4. TimerTells' /\ BoxSettles'
    BY <2>1, <2>2 DEF TableInv, TimerTells, BoxSettles
  <2>5. ChoicesHeld'
    BY <2>1, <2>2 DEF TableInv, ChoicesHeld
  <2>6. PagesHeld'
    BY <2>1, <2>2 DEF TableInv, PagesHeld, Reached, TS!Skip
  <2> QED
    BY <2>3, <2>4, <2>5, <2>6 DEF TableInv
<1>2. CASE TS!Rest
  BY <1>1, <1>2 DEF TS!Rest
<1>3. CASE TS!Next
  BY <1>2, <1>3, TableTyped, BoxWritten, FilterChosen, AllCleared, SortToggled, PageTurned, SizeChosen,
     TableArrives, TableRefreshed
     DEF TS!Next
<1> QED
  BY <1>1, <1>3

LEMMA TableInit ==
    ASSUME TableBounds, TS!Init
    PROVE  TableInv
<1>1. /\ url \in TS!Bookmark /\ counted \in TS!Reading /\ nav = TS!NoNav
      /\ box = TS!params.q /\ timer = FALSE /\ want = [TS!params EXCEPT !.page = 0]
      /\ hasty = FALSE /\ linked = TRUE /\ promised = 0 /\ presses = 0
  BY DEF TS!Init
<1>2. TS!params \in TS!Params
  BY <1>1, Parsed DEF TS!params
<1>3. 0 \in 0..MaxRows /\ 0 \in 0..MaxPresses /\ 0 \in 0..TS!MaxPage
  BY MaxPageNat DEF TableBounds
<1>4. /\ want \in WantSet /\ want.q = TS!params.q /\ want.sort = TS!params.sort
      /\ want.filter = TS!params.filter /\ want.size = TS!params.size /\ want.page = 0
  BY <1>1, <1>2, <1>3 DEF WantSet, TS!Params
<1>5. box \in Text
  BY <1>1, <1>2, ParamsFields
<1>6. TS!TypeOK
  BY <1>1, <1>3, <1>4, <1>5 DEF TS!TypeOK, WantSet
<1>7. TimerTells /\ BoxSettles /\ PagesHeld
  BY <1>1 DEF TimerTells, BoxSettles, PagesHeld
<1>8. ChoicesHeld
  BY <1>1, <1>4 DEF ChoicesHeld, Newest
<1> QED
  BY <1>6, <1>7, <1>8 DEF TableInv

LEMMA TableSuffices ==
    ASSUME TableBounds, TableInv
    PROVE  TS!TypeOK /\ TS!BoxMatchesUrl /\ TS!ChoicesKept /\ TS!EmptyMeansNone
<1>1. TS!BoxMatchesUrl
  BY DEF TableInv, BoxSettles, TS!BoxMatchesUrl, TS!Quiet
<1>2. TS!ChoicesKept
  BY AskedInTime DEF TS!ChoicesKept, TS!Quiet
<1>3. TS!EmptyMeansNone
  <2> SUFFICES ASSUME TS!RowsShown(TS!params) = {}, ~linked
               PROVE  counted.rows = 0 \/ counted.rows < promised
    BY DEF TS!EmptyMeansNone
  <2>1. counted.rows \in Nat /\ counted.rows <= TS!Skip(TS!params)
    BY TableTypes, EmptyPage
  <2>2. CASE TS!params.page = 1
    <3>1. TS!Skip(TS!params) = 0
      BY <2>2, TableTypes, ParamsFields DEF TS!Skip
    <3> QED
      BY <2>1, <3>1
  <2>3. CASE TS!Skip(TS!params) < promised
    <3>1. promised \in Nat
      BY TableTypes, MaxPageNat
    <3>2. TS!params.page \in Nat \ {0} /\ TS!params.size \in Nat \ {0}
      BY TableTypes, ParamsFields
    <3>3. TS!Skip(TS!params) \in Nat
      BY <3>2 DEF TS!Skip
    <3> QED
      BY <2>1, <2>3, <3>1, <3>3
  <2> QED
    BY <2>2, <2>3 DEF TableInv, PagesHeld, Reached
<1> QED
  BY <1>1, <1>2, <1>3 DEF TableInv

=============================================================================
