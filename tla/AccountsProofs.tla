--------------------------- MODULE AccountsProofs ---------------------------
(***************************************************************************)
(* Theorems about Accounts: the second factor, the passkeys, the users'    *)
(* administration and the approval desk, for any sessions, users,          *)
(* credentials, requests and bounds.  The four share no state, so each has *)
(* an invariant of its own; the last section puts them together.           *)
(***************************************************************************)
EXTENDS Accounts, Sequences, FiniteSets, WellFoundedInduction, TLAPS

-----------------------------------------------------------------------------
(***************************************************************************)
(* Users' administration.  A request past its guard that no other change   *)
(* has overtaken is one of somebody who may manage users; and nobody       *)
(* changes oneself, so after its commit that somebody still may.           *)
(***************************************************************************)
\* What a request has decided by the time it is that far.
RequestsReady ==
    \A u \in User :
        /\ req[u].at \in {"confirm", "guard", "read", "commit"} => req[u].change \in UA!Change
        /\ req[u].at = "commit" => req[u].old \in UA!Value /\ req[u].change.target # u

GuardHolds ==
    \A u \in User : req[u].at \in {"read", "commit"} /\ ~overtaken[u] => UA!MayManage(u)

UsersInv == UA!TypeOK /\ RequestsReady /\ GuardHolds

LEMMA ChangeFacts ==
    ASSUME NEW c \in UA!Change
    PROVE  /\ c.target \in User /\ c.kind \in {"role", "status"}
           /\ c.kind = "role" => c.next \in Roles
           /\ c.kind = "status" => c.next \in UA!Status
           /\ c.next \in UA!Value
BY DEF UA!Change, UA!Value

\* A request that moves to a place, or ends.
LEMMA RequestMoves ==
    ASSUME UsersInv, NEW u \in User, NEW r,
           req' = [req EXCEPT ![u] = r],
           r \in [at : UA!Busy \cup {"quiet", "confirm"},
                  change : UA!Change \cup {UA!NoChange}, old : UA!Value \cup {"none"}],
           r.at \in {"confirm", "guard", "read", "commit"} => r.change \in UA!Change,
           r.at = "commit" => r.old \in UA!Value /\ r.change.target # u,
           UNCHANGED <<account, log>>, token' \in [User -> Roles],
           shown' \in [User -> 0..UA!NotOpen], overtaken' \in [User -> BOOLEAN],
           \A x \in User \ {u} : overtaken'[x] = overtaken[x],
           r.at \in {"read", "commit"} /\ ~overtaken'[u] => UA!MayManage(u)
    PROVE  UsersInv'
<1>1. /\ req' \in [User -> [at : UA!Busy \cup {"quiet", "confirm"},
                            change : UA!Change \cup {UA!NoChange}, old : UA!Value \cup {"none"}]]
      /\ req'[u] = r /\ \A x \in User \ {u} : req'[x] = req[x]
  BY DEF UsersInv, UA!TypeOK
<1>2. UA!TypeOK'
  BY <1>1 DEF UsersInv, UA!TypeOK
<1>3. RequestsReady'
  BY <1>1 DEF UsersInv, RequestsReady
<1>4. GuardHolds'
  BY <1>1 DEF UsersInv, GuardHolds, UA!MayManage
<1> QED
  BY <1>2, <1>3, <1>4 DEF UsersInv

LEMMA RequestEnds ==
    ASSUME UsersInv, NEW u \in User, NEW r \in {UA!Quiet, UA!Done}, req' = [req EXCEPT ![u] = r],
           UNCHANGED <<account, log, token>>,
           shown' \in [User -> 0..UA!NotOpen], overtaken' \in [User -> BOOLEAN],
           \A x \in User \ {u} : overtaken'[x] = overtaken[x]
    PROVE  UsersInv'
<1>1. /\ r \in [at : UA!Busy \cup {"quiet", "confirm"},
                change : UA!Change \cup {UA!NoChange}, old : UA!Value \cup {"none"}]
      /\ r.at \in {"quiet", "answer"}
  BY DEF UA!Quiet, UA!Done, UA!Busy
<1>2. token' \in [User -> Roles]
  BY DEF UsersInv, UA!TypeOK
<1> QED
  BY <1>1, <1>2, RequestMoves

LEMMA CommitKeeps ==
    ASSUME UsersBounds, UsersInv, NEW u \in User, UA!Commit(u)
    PROVE  /\ UsersInv'
           /\ account'[u] = account[u] /\ req'[u].at = "answer"
<1> DEFINE c == req[u].change
           e == UA!EntryOf(u)
<1>1. /\ req[u].at = "commit" /\ c \in UA!Change /\ c.target # u /\ req[u].old \in UA!Value
      /\ UA!TypeOK
  BY DEF UA!Commit, UsersInv, RequestsReady
<1>2. /\ e \in UA!Entry /\ e.target = c.target /\ e.kind = c.kind /\ e.new = c.next
  BY <1>1, ChangeFacts DEF UA!EntryOf, UA!Entry
<1> HIDE DEF e
<1>3. /\ account' \in [User -> [role : Roles, status : UA!Status]]
      /\ account'[u] = account[u]
  <2>1. account' = [account EXCEPT ![e.target] = IF e.kind = "role" THEN [@ EXCEPT !.role = e.new]
                                                 ELSE [@ EXCEPT !.status = e.new]]
    BY DEF UA!Commit, UA!Applied, e
  <2>2. account[c.target] \in [role : Roles, status : UA!Status]
    BY <1>1, ChangeFacts DEF UA!TypeOK
  <2>3. CASE c.kind = "role"
    <3>1. [account[c.target] EXCEPT !.role = c.next] \in [role : Roles, status : UA!Status]
      BY <1>1, <2>2, <2>3, ChangeFacts
    <3>2. account' = [account EXCEPT ![c.target] = [account[c.target] EXCEPT !.role = c.next]]
      BY <1>2, <2>1, <2>3
    <3> QED
      BY <1>1, <3>1, <3>2 DEF UA!TypeOK
  <2>4. CASE c.kind = "status"
    <3>1. [account[c.target] EXCEPT !.status = c.next] \in [role : Roles, status : UA!Status]
      BY <1>1, <2>2, <2>4, ChangeFacts
    <3>2. account' = [account EXCEPT ![c.target] = [account[c.target] EXCEPT !.status = c.next]]
      BY <1>2, <2>1, <2>4
    <3> QED
      BY <1>1, <3>1, <3>2 DEF UA!TypeOK
  <2> QED
    BY <1>1, <2>3, <2>4, ChangeFacts
<1>4. log' \in Seq(UA!Entry) /\ Len(log') <= MaxChanges
  <2>1. log' = Append(log, e) /\ Len(log) < MaxChanges
    BY DEF UA!Commit, e
  <2> QED
    BY <1>1, <1>2, <2>1 DEF UA!TypeOK, UsersBounds
<1>5. /\ req' = [req EXCEPT ![u] = UA!Done]
      /\ overtaken' = [x \in User |-> IF x = u THEN overtaken[u] ELSE req[x].at \in {"read", "commit"}]
      /\ UNCHANGED <<token, shown>>
  BY DEF UA!Commit, UA!Advance
<1>6. /\ UA!Done \in [at : UA!Busy \cup {"quiet", "confirm"},
                      change : UA!Change \cup {UA!NoChange}, old : UA!Value \cup {"none"}]
      /\ UA!Done.at = "answer"
  BY DEF UA!Done, UA!Quiet, UA!Busy
<1>7. /\ req' \in [User -> [at : UA!Busy \cup {"quiet", "confirm"},
                            change : UA!Change \cup {UA!NoChange}, old : UA!Value \cup {"none"}]]
      /\ req'[u].at = "answer" /\ \A x \in User \ {u} : req'[x] = req[x]
  BY <1>1, <1>5, <1>6 DEF UA!TypeOK
<1>8. overtaken' \in [User -> BOOLEAN]
  <2>1. \A x \in User : overtaken[x] \in BOOLEAN
    BY <1>1 DEF UA!TypeOK
  <2>2. ASSUME NEW x \in User
        PROVE  (IF x = u THEN overtaken[u] ELSE req[x].at \in {"read", "commit"}) \in BOOLEAN
    <3>1. CASE req[x].at \in {"read", "commit"}
      BY <2>1, <3>1, Zenon
    <3>2. CASE ~(req[x].at \in {"read", "commit"})
      <4>1. (req[x].at \in {"read", "commit"}) = FALSE
        BY <3>2
      <4> QED
        BY <2>1, <4>1, Zenon
    <3> QED
      BY <3>1, <3>2
  <2> QED
    BY <1>5, <2>2, Zenon
<1>9. UA!TypeOK'
  BY <1>1, <1>3, <1>4, <1>5, <1>7, <1>8 DEF UA!TypeOK
<1>10. RequestsReady'
  BY <1>7 DEF UsersInv, RequestsReady
<1>11. GuardHolds'
  BY <1>5, <1>7 DEF GuardHolds
<1> QED
  BY <1>3, <1>7, <1>9, <1>10, <1>11 DEF UsersInv

LEMMA UsersStays ==
    ASSUME UsersBounds, UsersInv, [UA!Next]_(UA!vars)
    PROVE  UsersInv'
<1>0. /\ UA!TypeOK /\ Len(log) \in 0..UA!NotOpen
      /\ token \in [User -> Roles] /\ shown \in [User -> 0..UA!NotOpen]
      /\ overtaken \in [User -> BOOLEAN]
      /\ \A u \in User : req[u] \in [at : UA!Busy \cup {"quiet", "confirm"},
                                     change : UA!Change \cup {UA!NoChange}, old : UA!Value \cup {"none"}]
  BY DEF UsersBounds, UsersInv, UA!TypeOK, UA!NotOpen
<1>1. ASSUME NEW u \in User, UA!IssueToken(u) PROVE UsersInv'
  <2>1. token' \in [User -> Roles] /\ UNCHANGED <<account, log, shown, req, overtaken>>
    BY <1>0, <1>1 DEF UA!IssueToken, UA!TypeOK
  <2> QED
    BY <1>0, <2>1 DEF UsersInv, UA!TypeOK, RequestsReady, GuardHolds, UA!MayManage
<1>2. ASSUME NEW u \in User, UA!OpenUsers(u) PROVE UsersInv'
  <2>1. shown' \in [User -> 0..UA!NotOpen] /\ UNCHANGED <<account, log, token, req, overtaken>>
    BY <1>0, <1>2 DEF UA!OpenUsers
  <2> QED
    BY <1>0, <2>1 DEF UsersInv, UA!TypeOK, RequestsReady, GuardHolds, UA!MayManage
<1>3. ASSUME NEW u \in User, NEW c \in UA!Change, UA!ConfirmChange(u, c) PROVE UsersInv'
  <2> DEFINE r == [req[u] EXCEPT !.at = "confirm", !.change = c]
  <2>1. req' = [req EXCEPT ![u] = r] /\ UNCHANGED <<account, log, token, shown, overtaken>>
    BY <1>3 DEF UA!ConfirmChange
  <2>2. r.at = "confirm" /\ r.change = c
        /\ r \in [at : UA!Busy \cup {"quiet", "confirm"},
                  change : UA!Change \cup {UA!NoChange}, old : UA!Value \cup {"none"}]
    BY <1>0
  <2> HIDE DEF r
  <2> QED
    BY <1>0, <2>1, <2>2, RequestMoves
<1>4. ASSUME NEW u \in User, UA!CancelDialog(u) \/ UA!Answer(u) PROVE UsersInv'
  <2>1. /\ req' = [req EXCEPT ![u] = UA!Quiet] /\ UNCHANGED <<account, log, token, overtaken>>
        /\ (shown' = shown \/ shown' = [shown EXCEPT ![u] = Len(log)])
    BY <1>4 DEF UA!CancelDialog, UA!Answer
  <2>2. shown' \in [User -> 0..UA!NotOpen]
    BY <1>0, <2>1
  <2> QED
    BY <1>0, <2>1, <2>2, RequestEnds
<1>5. ASSUME NEW u \in User, NEW c \in UA!Change, req' = [req EXCEPT ![u] = UA!Validated(u, c)],
             UNCHANGED <<account, log, token, shown, overtaken>>
      PROVE  UsersInv'
  <2>1. CASE account[u].status = "active"
    <3>1. req' = [req EXCEPT ![u] = [at |-> "guard", change |-> c, old |-> "none"]]
      BY <1>5, <2>1 DEF UA!Validated
    <3>2. [at |-> "guard", change |-> c, old |-> "none"]
             \in [at : UA!Busy \cup {"quiet", "confirm"},
                  change : UA!Change \cup {UA!NoChange}, old : UA!Value \cup {"none"}]
      BY DEF UA!Busy
    <3> QED
      BY <1>0, <1>5, <3>1, <3>2, RequestMoves
  <2>2. CASE account[u].status # "active"
    <3>1. req' = [req EXCEPT ![u] = UA!Done]
      BY <1>5, <2>2 DEF UA!Validated
    <3> QED
      BY <1>0, <1>5, <3>1, RequestEnds
  <2> QED
    BY <2>1, <2>2
<1>6. ASSUME NEW u \in User, UA!RunChange(u) PROVE UsersInv'
  <2>1. req[u].change \in UA!Change /\ req' = [req EXCEPT ![u] = UA!Validated(u, req[u].change)]
    BY <1>6 DEF UA!RunChange, UsersInv, RequestsReady
  <2> QED
    BY <1>5, <1>6, <2>1 DEF UA!RunChange
<1>7. ASSUME NEW u \in User, NEW c \in UA!Change, UA!CallApi(u, c) PROVE UsersInv'
  BY <1>5, <1>7 DEF UA!CallApi
<1>8. ASSUME NEW u \in User, UA!CanActivate(u) PROVE UsersInv'
  <2>1. /\ req[u].at = "guard" /\ overtaken' = [overtaken EXCEPT ![u] = FALSE]
        /\ UNCHANGED <<account, log, token, shown>>
    BY <1>8 DEF UA!CanActivate
  <2>2. overtaken' \in [User -> BOOLEAN] /\ \A x \in User \ {u} : overtaken'[x] = overtaken[x]
    BY <1>0, <2>1
  <2>3. CASE UA!Held(u, "user.manage")
    <3> DEFINE r == [req[u] EXCEPT !.at = "read"]
    <3>1. req' = [req EXCEPT ![u] = r]
      BY <1>8, <2>3 DEF UA!CanActivate, UA!Advance
    <3>2. r.at = "read" /\ r.change = req[u].change
          /\ r \in [at : UA!Busy \cup {"quiet", "confirm"},
                    change : UA!Change \cup {UA!NoChange}, old : UA!Value \cup {"none"}]
      BY <1>0 DEF UA!Busy
    <3>3. req[u].change \in UA!Change /\ UA!MayManage(u)
      BY <2>1, <2>3 DEF UsersInv, RequestsReady, UA!Held, UA!MayManage
    <3> HIDE DEF r
    <3> QED
      BY <1>0, <2>1, <2>2, <3>1, <3>2, <3>3, RequestMoves
  <2>4. CASE ~UA!Held(u, "user.manage")
    <3>1. req' = [req EXCEPT ![u] = UA!Done]
      BY <1>8, <2>4 DEF UA!CanActivate, UA!Advance
    <3> QED
      BY <1>0, <2>1, <2>2, <3>1, RequestEnds
  <2> QED
    BY <2>3, <2>4
<1>9. ASSUME NEW u \in User, UA!ReadBefore(u) PROVE UsersInv'
  <2>1. req[u].at = "read" /\ UNCHANGED <<account, log, token, shown, overtaken>>
        /\ req[u].change \in UA!Change
    BY <1>9 DEF UA!ReadBefore, UsersInv, RequestsReady
  <2>2. CASE UA!Refused(u, req[u].change)
    <3>1. req' = [req EXCEPT ![u] = UA!Done]
      BY <1>9, <2>2 DEF UA!ReadBefore
    <3> QED
      BY <1>0, <2>1, <3>1, RequestEnds
  <2>3. CASE ~UA!Refused(u, req[u].change)
    <3> DEFINE c == req[u].change
               old == UA!Of(account[c.target], c.kind)
               r == [at |-> "commit", change |-> c, old |-> old]
    <3>1. req' = [req EXCEPT ![u] = r]
      BY <1>9, <2>3 DEF UA!ReadBefore
    <3>2. old \in UA!Value
      BY <1>0, <2>1, ChangeFacts DEF UA!TypeOK, UA!Of, UA!Value
    <3>3. c.target # u /\ (~overtaken[u] => UA!MayManage(u))
      BY <2>1, <2>3 DEF UA!Refused, UsersInv, GuardHolds
    <3> HIDE DEF old
    <3>4. r \in [at : UA!Busy \cup {"quiet", "confirm"},
                 change : UA!Change \cup {UA!NoChange}, old : UA!Value \cup {"none"}]
      BY <2>1, <3>2 DEF UA!Busy
    <3> QED
      BY <1>0, <2>1, <3>1, <3>2, <3>3, <3>4, RequestMoves
  <2> QED
    BY <2>2, <2>3
<1>10. CASE UNCHANGED UA!vars
  BY <1>10 DEF UA!vars, UsersInv, UA!TypeOK, RequestsReady, GuardHolds, UA!MayManage
<1> QED
  BY <1>1, <1>2, <1>3, <1>4, <1>6, <1>7, <1>8, <1>9, <1>10, CommitKeeps DEF UA!Next, UA!AllOver

LEMMA UsersInit ==
    ASSUME UsersBounds, UA!Init
    PROVE  UsersInv
BY DEF UsersBounds, UA!Init, UA!FirstAccounts, UA!Status, UA!Quiet, UA!NotOpen, UA!NoChange,
       UsersInv, UA!TypeOK, RequestsReady, GuardHolds

\* Every reachable state of the users' administration is well typed, and whoever
\* is about to commit a change nobody overtook may manage users.
THEOREM ChangesAreManagers ==
    ASSUME UsersBounds
    PROVE  UA!Spec => []UsersInv
<1>1. UA!Init => UsersInv
  BY UsersInit
<1>2. UsersInv /\ [UA!Next]_(UA!vars) => UsersInv'
  BY UsersStays
<1> QED
  BY <1>1, <1>2, PTL DEF UA!Spec

LEMMA ManagerStays ==
    ASSUME UsersBounds, UsersInv, [UA!Next]_(UA!vars), account' # account
    PROVE  UA!ManagerRemainsStep
<1>1. PICK u \in User : UA!Commit(u)
  BY DEF UA!Next, UA!AllOver, UA!vars, UA!IssueToken, UA!OpenUsers, UA!CancelDialog, UA!RunChange,
         UA!ConfirmChange, UA!CallApi, UA!CanActivate, UA!ReadBefore, UA!Answer
<1>2. account'[u] = account[u] /\ req[u].at = "commit" /\ req'[u].at = "answer"
  BY <1>1, CommitKeeps DEF UA!Commit
<1>3. ~overtaken[u] => UA!MayManage(u)'
  BY <1>2 DEF UsersInv, GuardHolds, UA!MayManage
<1> QED
  BY <1>2, <1>3 DEF UA!ManagerRemainsStep

\* The self-lockout rule keeps an administrator in place: the last one goes only
\* by a change that was overtaken between its guard and its commit.
THEOREM SomebodyManages ==
    ASSUME UsersBounds
    PROVE  UA!Spec => UA!ManagerRemains
<1>1. UsersInv /\ [UA!Next]_(UA!vars) => [UA!ManagerRemainsStep]_account
  BY ManagerStays
<1> QED
  BY <1>1, ChangesAreManagers, PTL DEF UA!Spec, UA!ManagerRemains

-----------------------------------------------------------------------------
(***************************************************************************)
(* The audit entries.  The table is what the latest entries say; an entry  *)
(* appended later changes nothing the earlier ones say; and a token names  *)
(* a role its owner has had by now.                                        *)
(***************************************************************************)
About(n, u, kind) == {i \in 1..n : log[i].target = u /\ log[i].kind = kind}

\* A non-empty set of entries has a latest one.
LEMMA LatestFacts ==
    ASSUME NEW n \in Nat, NEW S \in SUBSET (1..n), S # {}
    PROVE  UA!Max(S) \in S /\ \A i \in S : i <= UA!Max(S)
<1> DEFINE gaps == {g \in Nat : n - g \in S}
<1>1. gaps \in SUBSET Nat /\ gaps # {}
  <2>1. PICK i \in S : i \in 1..n
    OBVIOUS
  <2>2. n - i \in Nat /\ n - (n - i) = i
    BY <2>1
  <2> QED
    BY <2>1, <2>2
<1>2. PICK g \in gaps : \A h \in gaps : g <= h
  <2> DEFINE before == {ss \in Nat \X Nat : ss[1] < ss[2]}
  <2>1. IsWellFoundedOn(before, Nat)
    BY NatLessThanWellFounded, Zenon DEF OpToRel
  <2>2. \A g, h \in Nat : g < h => <<g, h>> \in before
    OBVIOUS
  <2> HIDE DEF before, gaps
  <2>3. PICK g \in gaps : \A h \in gaps : <<h, g>> \notin before
    BY <1>1, <2>1, WFMin
  <2>4. ASSUME NEW h \in gaps PROVE g <= h
    <3>1. g \in Nat /\ h \in Nat
      BY <1>1
    <3>2. ~(h < g)
      BY <2>2, <2>3, <3>1
    <3> QED
      BY <3>1, <3>2
  <2> QED
    BY <2>4
<1>3. n - g \in S
  BY <1>2
<1>4. \A i \in S : n - g >= i
  <2> SUFFICES ASSUME NEW i \in S PROVE n - g >= i
    OBVIOUS
  <2>1. n - i \in Nat /\ n - (n - i) = i
    OBVIOUS
  <2>2. g <= n - i
    BY <1>2, <2>1
  <2> QED
    BY <1>2, <2>1, <2>2
<1>5. \E x \in S : \A y \in S : x >= y
  BY <1>3, <1>4
<1>6. UA!Max(S) \in S /\ \A y \in S : UA!Max(S) >= y
  BY <1>5 DEF UA!Max
<1> QED
  BY <1>6

\* What n entries say of a column.
LEMMA AfterEntryFacts ==
    ASSUME NEW n \in Nat, NEW u \in User, NEW kind \in {"role", "status"}
    PROVE  /\ About(n, u, kind) = {} => UA!AfterEntry(n, u, kind) = UA!Of(UA!FirstAccounts[u], kind)
           /\ About(n, u, kind) # {} =>
                 \E i \in About(n, u, kind) :
                    /\ UA!AfterEntry(n, u, kind) = log[i].new
                    /\ \A j \in About(n, u, kind) : j <= i
<1>1. UA!AfterEntry(n, u, kind) = IF About(n, u, kind) = {} THEN UA!Of(UA!FirstAccounts[u], kind)
                                  ELSE log[UA!Max(About(n, u, kind))].new
  BY DEF UA!AfterEntry, About
<1>2. About(n, u, kind) \in SUBSET (1..n)
  BY DEF About
<1>3. About(n, u, kind) # {} =>
        /\ UA!Max(About(n, u, kind)) \in About(n, u, kind)
        /\ \A i \in About(n, u, kind) : i <= UA!Max(About(n, u, kind))
  BY <1>2, LatestFacts
<1> QED
  BY <1>1, <1>3

\* An appended entry changes nothing the entries before it say.
LEMMA EntriesStay ==
    ASSUME log \in Seq(UA!Entry), NEW e \in UA!Entry, log' = Append(log, e),
           NEW n \in 0..Len(log), NEW u \in User, NEW kind \in {"role", "status"}
    PROVE  UA!AfterEntry(n, u, kind)' = UA!AfterEntry(n, u, kind)
<1> DEFINE S == About(n, u, kind)
<1>1. n \in Nat /\ \A i \in 1..n : log'[i] = log[i]
  OBVIOUS
<1>2. About(n, u, kind)' = S
  BY <1>1 DEF About
<1>3. UA!AfterEntry(n, u, kind) = IF S = {} THEN UA!Of(UA!FirstAccounts[u], kind) ELSE log[UA!Max(S)].new
  BY DEF UA!AfterEntry, About
<1>4. UA!AfterEntry(n, u, kind)' = IF S = {} THEN UA!Of(UA!FirstAccounts[u], kind) ELSE log'[UA!Max(S)].new
  BY <1>2 DEF UA!AfterEntry, About
<1>5. S # {} => UA!Max(S) \in 1..n
  BY <1>1, LatestFacts DEF About
<1> HIDE DEF S
<1> QED
  BY <1>1, <1>3, <1>4, <1>5

\* An appended entry tells its own column, and leaves the others as they were.
LEMMA EntryTells ==
    ASSUME log \in Seq(UA!Entry), NEW e \in UA!Entry, log' = Append(log, e),
           NEW n, n = Len(log), NEW u \in User, NEW kind \in {"role", "status"}
    PROVE  UA!AfterEntry(n + 1, u, kind)' =
              IF e.target = u /\ e.kind = kind THEN e.new ELSE UA!AfterEntry(n, u, kind)
<1> DEFINE S == About(n, u, kind)
           T == About(n + 1, u, kind)'
<1>1. n \in Nat /\ log'[n + 1] = e /\ \A i \in 1..n : log'[i] = log[i]
  OBVIOUS
<1>2. T = IF e.target = u /\ e.kind = kind THEN S \cup {n + 1} ELSE S
  BY <1>1 DEF About
<1>3. UA!AfterEntry(n + 1, u, kind)' =
        IF T = {} THEN UA!Of(UA!FirstAccounts[u], kind) ELSE log'[UA!Max(T)].new
  BY DEF UA!AfterEntry, About
<1>4. S \subseteq 1..n /\ T \subseteq 1..(n + 1)
  BY DEF About
<1>5. CASE e.target = u /\ e.kind = kind
  <2>1. n + 1 \in T
    BY <1>2, <1>5
  <2> HIDE DEF S, T
  <2>2. n + 1 \in Nat /\ T \in SUBSET (1..(n + 1)) /\ T # {}
    BY <1>1, <1>4, <2>1
  <2>3. UA!Max(T) \in T /\ \A i \in T : i <= UA!Max(T)
    BY <2>2, LatestFacts
  <2>4. UA!Max(T) \in 1..(n + 1) /\ n + 1 <= UA!Max(T)
    BY <2>1, <2>2, <2>3
  <2>5. UA!Max(T) = n + 1
    BY <1>1, <2>4
  <2> QED
    BY <1>1, <1>3, <1>5, <2>1, <2>5
<1>6. CASE ~(e.target = u /\ e.kind = kind)
  <2>1. UA!AfterEntry(n, u, kind) = IF S = {} THEN UA!Of(UA!FirstAccounts[u], kind) ELSE log[UA!Max(S)].new
    BY DEF UA!AfterEntry, About
  <2>2. T = S
    BY <1>2, <1>6
  <2> HIDE DEF S, T
  <2>3. S # {} => UA!Max(S) \in 1..n
    BY <1>1, <1>4, LatestFacts
  <2> QED
    BY <1>1, <1>3, <1>6, <2>1, <2>2, <2>3
<1> QED
  BY <1>5, <1>6

\* A user has had a role: some entries ago it was the user's.
Had(u, r) == \E n \in 0..Len(log) : UA!AfterEntry(n, u, "role") = r

RowsTold ==
    \A n \in Nat, u \in User : n = Len(log) =>
        /\ account[u].role = UA!AfterEntry(n, u, "role")
        /\ account[u].status = UA!AfterEntry(n, u, "status")

OldKnown ==
    \A u \in User : req[u].at = "commit" =>
        overtaken[u] \/ req[u].old = UA!Of(account[req[u].change.target], req[u].change.kind)

TokensHad == \A u \in User : Had(u, token[u])

CrownsReady ==
    \A u \in User :
        req[u].at = "commit" /\ req[u].change.kind = "role" /\ req[u].change.next = "super_admin"
        => Had(u, "super_admin")

CrownsTold ==
    \A i \in 1..Len(log), u \in User : log[i].new = "super_admin" /\ log[i].actor = u =>
        \E n \in 0..(i - 1) : UA!AfterEntry(n, u, "role") = "super_admin"

EntriesInv == RowsTold /\ OldKnown /\ TokensHad /\ CrownsReady /\ CrownsTold

LEMMA HadStays ==
    ASSUME log \in Seq(UA!Entry), NEW e \in UA!Entry, log' = Append(log, e),
           NEW u \in User, NEW r, Had(u, r)
    PROVE  Had(u, r)'
<1>1. PICK n \in 0..Len(log) : UA!AfterEntry(n, u, "role") = r
  BY DEF Had
<1>2. UA!AfterEntry(n, u, "role")' = r
  BY <1>1, EntriesStay
<1>3. n \in 0..Len(log')
  OBVIOUS
<1> QED
  BY <1>2, <1>3 DEF Had

\* Row and entry are written together, and the entry's old value is what the
\* row held unless another change came in between.
LEMMA CommitTells ==
    ASSUME UsersBounds, UsersInv, EntriesInv, NEW u \in User, UA!Commit(u)
    PROVE  EntriesInv'
<1> DEFINE c == req[u].change
           e == UA!EntryOf(u)
<1>0. PICK n \in Nat : n = Len(log)
  BY DEF UsersInv, UA!TypeOK
<1>1. /\ req[u].at = "commit" /\ c \in UA!Change /\ req[u].old \in UA!Value
      /\ UA!TypeOK /\ log \in Seq(UA!Entry) /\ n \in Nat /\ n = Len(log)
  BY <1>0 DEF UA!Commit, UsersInv, RequestsReady, UA!TypeOK
<1>2. /\ e \in UA!Entry /\ e.actor = u
      /\ e.target = c.target /\ e.kind = c.kind /\ e.new = c.next
  BY <1>1, ChangeFacts DEF UA!EntryOf, UA!Entry
<1>3. /\ log' = Append(log, e) /\ token' = token
      /\ account' = UA!Applied(account, e)
      /\ req' = [req EXCEPT ![u] = UA!Done]
      /\ overtaken' = [x \in User |-> IF x = u THEN overtaken[u] ELSE req[x].at \in {"read", "commit"}]
  BY DEF UA!Commit, UA!Advance
<1> HIDE DEF e
<1>4. Len(log') = n + 1 /\ log'[n + 1] = e /\ \A i \in 1..n : log'[i] = log[i]
  BY <1>1, <1>3
<1>5. /\ \A x \in User \ {u} : req'[x] = req[x]
      /\ req'[u].at # "commit"
  BY <1>1, <1>3 DEF UA!TypeOK, UA!Done, UA!Quiet
<1>6. RowsTold'
  <2> SUFFICES ASSUME NEW x \in User
               PROVE  /\ account'[x].role = UA!AfterEntry(n + 1, x, "role")'
                      /\ account'[x].status = UA!AfterEntry(n + 1, x, "status")'
    BY <1>4 DEF RowsTold
  <2>1. account[x] \in [role : Roles, status : UA!Status] /\ c.target \in User
    BY <1>1, ChangeFacts DEF UA!TypeOK
  <2>2. /\ account'[x].role = IF e.target = x /\ e.kind = "role" THEN e.new ELSE account[x].role
        /\ account'[x].status = IF e.target = x /\ e.kind = "status" THEN e.new ELSE account[x].status
    BY <1>1, <1>2, <1>3, <2>1, ChangeFacts DEF UA!Applied, UA!TypeOK
  <2>3. /\ UA!AfterEntry(n + 1, x, "role")' =
             IF e.target = x /\ e.kind = "role" THEN e.new ELSE UA!AfterEntry(n, x, "role")
        /\ UA!AfterEntry(n + 1, x, "status")' =
             IF e.target = x /\ e.kind = "status" THEN e.new ELSE UA!AfterEntry(n, x, "status")
    BY <1>1, <1>2, <1>3, EntryTells
  <2>4. account[x].role = UA!AfterEntry(n, x, "role") /\ account[x].status = UA!AfterEntry(n, x, "status")
    BY <1>1 DEF EntriesInv, RowsTold
  <2> QED
    BY <2>2, <2>3, <2>4
<1>7. OldKnown'
  <2> SUFFICES ASSUME NEW x \in User, req'[x].at = "commit" PROVE overtaken'[x]
    BY DEF OldKnown
  <2>1. x # u /\ req[x].at \in {"read", "commit"}
    BY <1>5
  <2> QED
    BY <1>3, <2>1
<1>8. \A x \in User : \A r : Had(x, r) => Had(x, r)'
  BY <1>1, <1>2, <1>3, HadStays
<1>9. TokensHad' /\ CrownsReady'
  BY <1>3, <1>5, <1>8 DEF EntriesInv, TokensHad, CrownsReady
<1>10. CrownsTold'
  <2> SUFFICES ASSUME NEW i \in 1..(n + 1), NEW x \in User,
                      log'[i].new = "super_admin", log'[i].actor = x
               PROVE  \E m \in 0..(i - 1) : UA!AfterEntry(m, x, "role")' = "super_admin"
    BY <1>4 DEF CrownsTold
  <2>1. ASSUME NEW m \in 0..n PROVE UA!AfterEntry(m, x, "role")' = UA!AfterEntry(m, x, "role")
    BY <1>1, <1>2, <1>3, EntriesStay
  <2>2. PICK m \in 0..(i - 1) : UA!AfterEntry(m, x, "role") = "super_admin"
    <3>1. CASE i \in 1..n
      <4>1. log[i].new = "super_admin" /\ log[i].actor = x
        BY <1>4, <3>1
      <4> QED
        BY <1>1, <3>1, <4>1 DEF EntriesInv, CrownsTold
    <3>2. CASE i = n + 1
      <4>1. c.next = "super_admin" /\ c.kind = "role" /\ x = u
        BY <1>1, <1>2, <1>4, <3>2, ChangeFacts DEF UA!Status
      <4>2. Had(u, "super_admin")
        BY <1>1, <4>1 DEF EntriesInv, CrownsReady
      <4> QED
        BY <1>1, <3>2, <4>1, <4>2 DEF Had
    <3> QED
      BY <1>1, <3>1, <3>2
  <2>3. m \in 0..n
    BY <1>1, <2>2
  <2> QED
    BY <2>1, <2>2, <2>3
<1> QED
  BY <1>6, <1>7, <1>9, <1>10 DEF EntriesInv

\* Nothing but a commit appends an entry or changes a row.
LEMMA EntriesKept ==
    ASSUME UA!TypeOK, EntriesInv, UNCHANGED <<account, log>>,
           \A u \in User : token'[u] \in {token[u], account[u].role},
           \A u \in User : req'[u].at = "commit" =>
               \/ req[u].at = "commit" /\ req'[u] = req[u] /\ overtaken'[u] = overtaken[u]
               \/ /\ req'[u].old = UA!Of(account[req'[u].change.target], req'[u].change.kind)
                  /\ req'[u].change.kind = "role" /\ req'[u].change.next = "super_admin"
                        => token[u] = "super_admin"
    PROVE  EntriesInv'
<1>0. PICK N \in Nat : N = Len(log) /\ N = Len(log')
  BY DEF UA!TypeOK
<1>1. \A n \in 0..N, u \in User, kind \in {"role", "status"} :
        UA!AfterEntry(n, u, kind)' = UA!AfterEntry(n, u, kind)
  BY DEF UA!AfterEntry
<1>2. RowsTold'
  BY <1>0, <1>1 DEF EntriesInv, RowsTold
<1>3. OldKnown'
  BY DEF EntriesInv, OldKnown, UA!Of
<1>4. \A u \in User : Had(u, account[u].role)
  BY <1>0 DEF EntriesInv, RowsTold, Had
<1>5. \A u \in User : \A r : Had(u, r) => Had(u, r)'
  BY <1>0, <1>1 DEF Had
<1>6. TokensHad'
  <2> SUFFICES ASSUME NEW u \in User, NEW r, r = token'[u] PROVE Had(u, r)'
    BY DEF TokensHad, Had
  <2> QED
    BY <1>4, <1>5 DEF EntriesInv, TokensHad
<1>7. CrownsReady'
  <2> SUFFICES ASSUME NEW u \in User, req'[u].at = "commit", req'[u].change.kind = "role",
                      req'[u].change.next = "super_admin"
               PROVE  Had(u, "super_admin")'
    BY DEF CrownsReady
  <2>1. Had(u, "super_admin")
    BY DEF EntriesInv, CrownsReady, TokensHad
  <2> QED
    BY <1>5, <2>1
<1>8. CrownsTold'
  <2> SUFFICES ASSUME NEW i \in 1..N, NEW u \in User, log[i].new = "super_admin", log[i].actor = u
               PROVE  \E n \in 0..(i - 1) : UA!AfterEntry(n, u, "role")' = "super_admin"
    BY <1>0 DEF CrownsTold
  <2>1. PICK n \in 0..(i - 1) : UA!AfterEntry(n, u, "role") = "super_admin"
    BY <1>0 DEF EntriesInv, CrownsTold
  <2> QED
    BY <1>0, <1>1, <2>1
<1> QED
  BY <1>2, <1>3, <1>6, <1>7, <1>8 DEF EntriesInv

\* What the properties say, in the module's words.
LEMMA EntriesSuffice ==
    ASSUME UsersInv, EntriesInv
    PROVE  UA!AuditTells /\ UA!CrownedByOnceSuper
<1>1. PICK N \in Nat : N = Len(log)
  BY DEF UsersInv, UA!TypeOK
<1>2. account = UA!AfterEntries(N)
  <2>1. account \in [User -> [role : Roles, status : UA!Status]]
    BY DEF UsersInv, UA!TypeOK
  <2>2. \A u \in User : account[u] = [role |-> account[u].role, status |-> account[u].status]
    BY <2>1
  <2>3. \A u \in User : account[u] = UA!AfterEntries(N)[u]
    BY <1>1, <2>2 DEF EntriesInv, RowsTold, UA!AfterEntries
  <2> QED
    BY <2>1, <2>3 DEF UA!AfterEntries
<1>3. UA!AuditTells
  BY <1>1, <1>2 DEF EntriesInv, OldKnown, UA!AuditTells
<1>4. UA!CrownedByOnceSuper
  <2> SUFFICES ASSUME NEW i \in 1..Len(log), log[i].new = "super_admin"
               PROVE  \E n \in 0..(i - 1) : UA!AfterEntries(n)[log[i].actor].role = "super_admin"
    BY DEF UA!CrownedByOnceSuper
  <2>1. log[i].actor \in User
    <3>1. log \in Seq(UA!Entry)
      BY DEF UsersInv, UA!TypeOK
    <3>2. log[i] \in UA!Entry
      BY <3>1
    <3> QED
      BY <3>2 DEF UA!Entry
  <2>2. PICK n \in 0..(i - 1) : UA!AfterEntry(n, log[i].actor, "role") = "super_admin"
    BY <2>1 DEF EntriesInv, CrownsTold
  <2> QED
    BY <2>1, <2>2 DEF UA!AfterEntries
<1> QED
  BY <1>3, <1>4

LEMMA EntriesStep ==
    ASSUME UsersBounds, UsersInv, EntriesInv, [UA!Next]_(UA!vars)
    PROVE  EntriesInv'
<1>0. UA!TypeOK /\ req \in [User -> [at : UA!Busy \cup {"quiet", "confirm"},
                       change : UA!Change \cup {UA!NoChange}, old : UA!Value \cup {"none"}]]
  BY DEF UsersInv, UA!TypeOK
<1>1. ASSUME NEW u \in User, UA!Commit(u) PROVE EntriesInv'
  BY <1>1, CommitTells
<1>2. ASSUME NEW u \in User, UA!IssueToken(u) PROVE EntriesInv'
  <2>1. /\ UNCHANGED <<account, log, req, overtaken>>
        /\ \A x \in User : token'[x] \in {token[x], account[x].role}
    BY <1>0, <1>2 DEF UA!IssueToken, UA!TypeOK
  <2> QED
    BY <1>0, <2>1, EntriesKept
<1>3. ASSUME NEW u \in User,
             \/ UA!OpenUsers(u) \/ UA!CancelDialog(u) \/ UA!RunChange(u) \/ UA!CanActivate(u) \/ UA!Answer(u)
             \/ \E c \in UA!Change : UA!ConfirmChange(u, c) \/ UA!CallApi(u, c)
      PROVE  EntriesInv'
  <2>1. UNCHANGED <<account, log, token>>
    BY <1>3 DEF UA!OpenUsers, UA!CancelDialog, UA!RunChange, UA!CanActivate, UA!Answer,
                UA!ConfirmChange, UA!CallApi
  <2>2. \A x \in User \ {u} : req'[x] = req[x] /\ overtaken'[x] = overtaken[x]
    BY <1>0, <1>3 DEF UA!OpenUsers, UA!CancelDialog, UA!RunChange, UA!CanActivate, UA!Answer,
                UA!ConfirmChange, UA!CallApi, UA!Advance, UA!TypeOK
  <2>3. req'[u].at # "commit" \/ UA!OpenUsers(u)
    <3>1. UA!Done.at = "answer" /\ UA!Quiet.at = "quiet"
      BY DEF UA!Done, UA!Quiet
    <3>2. \A c : UA!Validated(u, c).at \in {"guard", "answer"}
      BY <3>1 DEF UA!Validated
    <3>3. CASE UA!CancelDialog(u) \/ UA!Answer(u)
      BY <1>0, <3>1, <3>3 DEF UA!CancelDialog, UA!Answer
    <3>4. CASE UA!RunChange(u) \/ \E c \in UA!Change : UA!CallApi(u, c)
      BY <1>0, <3>2, <3>4 DEF UA!RunChange, UA!CallApi
    <3>5. CASE \E c \in UA!Change : UA!ConfirmChange(u, c)
      BY <1>0, <3>5 DEF UA!ConfirmChange
    <3>6. CASE UA!CanActivate(u)
      <4>1. CASE UA!Held(u, "user.manage")
        BY <1>0, <3>6, <4>1 DEF UA!CanActivate, UA!Advance
      <4>2. CASE ~UA!Held(u, "user.manage")
        BY <1>0, <3>1, <3>6, <4>2 DEF UA!CanActivate, UA!Advance
      <4> QED
        BY <4>1, <4>2
    <3> QED
      BY <1>3, <3>3, <3>4, <3>5, <3>6
  <2>4. UA!OpenUsers(u) => req' = req /\ overtaken' = overtaken
    BY DEF UA!OpenUsers
  <2>5. \A x \in User : req'[x].at = "commit" =>
           req[x].at = "commit" /\ req'[x] = req[x] /\ overtaken'[x] = overtaken[x]
    BY <2>2, <2>3, <2>4
  <2> QED
    BY <1>0, <2>1, <2>5, EntriesKept
<1>4. ASSUME NEW u \in User, UA!ReadBefore(u) PROVE EntriesInv'
  <2> DEFINE c == req[u].change
  <2>1. UNCHANGED <<account, log, token, overtaken>> /\ \A x \in User \ {u} : req'[x] = req[x]
    BY <1>0, <1>4 DEF UA!ReadBefore
  <2>2. \/ req'[u] = UA!Done
        \/ ~UA!Refused(u, c) /\ req'[u] = [at |-> "commit", change |-> c,
                                           old |-> UA!Of(account[c.target], c.kind)]
    BY <1>0, <1>4 DEF UA!ReadBefore
  <2>3. req'[u].at = "commit" =>
           /\ req'[u].old = UA!Of(account[req'[u].change.target], req'[u].change.kind)
           /\ req'[u].change.kind = "role" /\ req'[u].change.next = "super_admin"
                 => token[u] = "super_admin"
    BY <2>2 DEF UA!Refused, UA!Done, UA!Quiet
  <2> QED
    BY <1>0, <2>1, <2>3, EntriesKept
<1>5. CASE UNCHANGED UA!vars
  BY <1>0, <1>5, EntriesKept DEF UA!vars
<1> QED
  BY <1>1, <1>2, <1>3, <1>4, <1>5 DEF UA!Next, UA!AllOver

LEMMA EntriesInit ==
    ASSUME UA!Init
    PROVE  EntriesInv
<1>1. Len(log) = 0 /\ 1..0 = {}
  BY DEF UA!Init
<1>2. \A u \in User, kind \in {"role", "status"} :
        UA!AfterEntry(0, u, kind) = UA!Of(UA!FirstAccounts[u], kind)
  BY <1>1 DEF UA!AfterEntry
<1>3. \A u \in User : /\ UA!AfterEntry(0, u, "role") = FirstRole[u]
                      /\ UA!AfterEntry(0, u, "status") = "active"
  BY <1>2 DEF UA!Of, UA!FirstAccounts
<1>4. RowsTold
  BY <1>1, <1>3 DEF RowsTold, UA!Init, UA!FirstAccounts
<1>5. \A u \in User : req[u].at # "commit"
  BY DEF UA!Init, UA!Quiet
<1>6. TokensHad
  BY <1>1, <1>3 DEF TokensHad, Had, UA!Init
<1> QED
  BY <1>1, <1>4, <1>5, <1>6 DEF EntriesInv, OldKnown, CrownsReady, CrownsTold

\* The audit entries, applied in order, give the table; an old value is the one
\* before; and whoever assigned super_admin had held it.
THEOREM EntriesTellRows ==
    ASSUME UsersBounds
    PROVE  UA!Spec => [](UA!AuditTells /\ UA!CrownedByOnceSuper)
<1>1. UA!Init => EntriesInv
  BY EntriesInit
<1>2. UsersInv /\ EntriesInv /\ [UA!Next]_(UA!vars) => EntriesInv'
  BY EntriesStep
<1>3. UsersInv /\ EntriesInv => UA!AuditTells /\ UA!CrownedByOnceSuper
  BY EntriesSuffice
<1> QED
  BY <1>1, <1>2, <1>3, ChangesAreManagers, PTL DEF UA!Spec

-----------------------------------------------------------------------------
(***************************************************************************)
(* The approval desk.  A call that came back says what the request is now, *)
(* for a decided request stays as decided.  What a desk decided itself, it *)
(* has still to hear of, has heard of, or has lost the answer to; so that  *)
(* a further call of its own on the request is a repeat.  And no page that *)
(* was read after the desk heard of a decision lists the request.          *)
(***************************************************************************)
Live(i) == call[i] # AD!NoCall
Decided(t) == txn[t].status # "pending"
Pair(i) == <<call[i].by, call[i].txn>>

\* What the answer to a call says of its request.
Told(c) ==
    /\ c.at = "done" => txn[c.txn] = [status |-> c.act, by |-> c.by]
    /\ c.at = "conflict" =>
          Decided(c.txn) /\ (txn[c.txn].by = c.by => <<c.by, c.txn>> \in lost \cup repeats)

CallsTell == \A i \in 1..MaxSends : Live(i) => Told(call[i])

HeardDecided == \A s \in Staff, t \in Txn : <<s, t>> \in heard => Decided(t)

OwnDecisions ==
    \A s \in Staff, t \in Txn : Decided(t) /\ txn[t].by = s =>
        \/ \E i \in 1..MaxSends : Live(i) /\ Pair(i) = <<s, t>> /\ call[i].at = "done"
        \/ <<s, t>> \in heard \cup lost

RepeatsKnown ==
    \A i \in 1..MaxSends : Live(i) =>
        /\ Pair(i) \in heard => Pair(i) \in repeats
        /\ \A j \in 1..MaxSends : i # j /\ Live(j) /\ Pair(j) = Pair(i) => Pair(i) \in repeats

FreshCalls == \A i \in 1..MaxSends : i > sends => ~Live(i)

\* The rows a desk will see once nothing more is asked for.
NextRows(s) == IF coming[s] = AD!Nothing THEN page[s].rows ELSE coming[s].rows
PagesFresh ==
    \A s \in Staff, t \in Txn : <<s, t>> \in heard /\ s \notin asked => t \notin NextRows(s)

DeskInv ==
    /\ AD!TypeOK /\ CallsTell /\ HeardDecided /\ OwnDecisions /\ RepeatsKnown /\ FreshCalls
    /\ PagesFresh /\ AD!ToastTruthful

\* The calls, but for what row they came from.
CallsAlike ==
    \A i \in 1..MaxSends :
        /\ Live(i)' <=> Live(i)
        /\ Live(i) => /\ call'[i].at = call[i].at /\ call'[i].act = call[i].act
                      /\ call'[i].by = call[i].by /\ call'[i].txn = call[i].txn

\* Rows that leave the screen change nothing a call will say.
LEMMA UnmountFacts ==
    ASSUME AD!TypeOK, NEW s \in Staff, NEW gone \in SUBSET Txn, AD!Unmount(s, gone)
    PROVE  /\ call' \in [1..MaxSends -> AD!Call \cup {AD!NoCall}]
           /\ dialog' \in [Staff -> [txn : Txn, act : AD!Acts] \cup {AD!NoDialog}]
           /\ CallsAlike
<1>1. dialog' \in [Staff -> [txn : Txn, act : AD!Acts] \cup {AD!NoDialog}]
  BY DEF AD!Unmount, AD!TypeOK
<1>2. ASSUME NEW i \in 1..MaxSends
      PROVE  /\ call'[i] \in AD!Call \cup {AD!NoCall}
             /\ Live(i)' <=> Live(i)
             /\ Live(i) => /\ call'[i].at = call[i].at /\ call'[i].act = call[i].act
                           /\ call'[i].by = call[i].by /\ call'[i].txn = call[i].txn
  <2>1. call[i] \in AD!Call \cup {AD!NoCall}
    BY DEF AD!TypeOK
  <2>2. call'[i] = call[i] \/ (Live(i) /\ call'[i] = [call[i] EXCEPT !.mounted = FALSE])
    BY DEF AD!Unmount, Live
  <2>3. CASE call'[i] = call[i]
    BY <2>1, <2>3 DEF Live
  <2>4. CASE Live(i) /\ call'[i] = [call[i] EXCEPT !.mounted = FALSE]
    <3>1. call[i] \in AD!Call
      BY <2>1, <2>4 DEF Live
    <3>2. call'[i] \in AD!Call /\ call'[i].mounted = FALSE
          /\ call'[i].at = call[i].at /\ call'[i].act = call[i].act
          /\ call'[i].by = call[i].by /\ call'[i].txn = call[i].txn
      BY <2>4, <3>1 DEF AD!Call
    <3>3. call[i].at # "none"
      BY <3>1 DEF AD!Call, AD!Results
    <3>4. call'[i] # AD!NoCall
      BY <3>2, <3>3 DEF AD!NoCall
    <3> QED
      BY <2>4, <3>2, <3>4 DEF Live
  <2> QED
    BY <2>2, <2>3, <2>4
<1>3. call' = [i \in 1..MaxSends |-> call'[i]]
  BY DEF AD!Unmount
<1>4. call' \in [1..MaxSends -> AD!Call \cup {AD!NoCall}]
  BY <1>2, <1>3
<1> QED
  BY <1>1, <1>2, <1>4 DEF CallsAlike

\* The steps of the screen: pages, filters and dialogs.
LEMMA ScreenInv ==
    ASSUME DeskInv, CallsAlike, AD!TypeOK', PagesFresh',
           UNCHANGED <<txn, toast, sends, lost, heard, repeats>>
    PROVE  DeskInv'
<1>0. CallsTell /\ HeardDecided /\ OwnDecisions /\ RepeatsKnown /\ FreshCalls /\ AD!ToastTruthful
  BY DEF DeskInv
<1>1. \A i \in 1..MaxSends : Live(i)' <=> Live(i)
  BY DEF CallsAlike
<1>2. \A i \in 1..MaxSends : Live(i) =>
         /\ call'[i].at = call[i].at /\ call'[i].act = call[i].act
         /\ call'[i].by = call[i].by /\ call'[i].txn = call[i].txn
         /\ Pair(i)' = Pair(i)
  BY DEF CallsAlike, Pair
<1>3. CallsTell'
  BY <1>0, <1>1, <1>2 DEF CallsTell, Told, Decided
<1>4. HeardDecided'
  BY <1>0 DEF HeardDecided, Decided
<1>5. OwnDecisions'
  BY <1>0, <1>1, <1>2 DEF OwnDecisions, Decided
<1>6. RepeatsKnown'
  BY <1>0, <1>1, <1>2 DEF RepeatsKnown
<1>7. FreshCalls'
  BY <1>0, <1>1 DEF FreshCalls
<1>8. AD!ToastTruthful'
  BY <1>0 DEF AD!ToastTruthful
<1> QED
  BY <1>3, <1>4, <1>5, <1>6, <1>7, <1>8 DEF DeskInv

\* A page is left, read or shown, or filtered: what is read lists pending
\* requests only, and what is shown is what was read.
LEMMA DeskPageInv ==
    ASSUME DeskInv, NEW s \in Staff,
           \/ \E place \in AD!Places : AD!Navigate(s, place)
           \/ \E kind \in AD!Kinds : AD!SetKind(s, kind)
           \/ AD!ReadPage(s) \/ AD!Arrive(s)
    PROVE  DeskInv'
<1>0. AD!TypeOK /\ HeardDecided /\ PagesFresh
  BY DEF DeskInv
<1>a. page[s].rows \in SUBSET Txn
  BY <1>0 DEF AD!TypeOK
<1>1. ASSUME NEW place \in AD!Places, AD!Navigate(s, place) PROVE DeskInv'
  <2>1. AD!Unmount(s, page[s].rows)
    BY <1>1 DEF AD!Navigate
  <2>2. /\ call' \in [1..MaxSends -> AD!Call \cup {AD!NoCall}]
        /\ dialog' \in [Staff -> [txn : Txn, act : AD!Acts] \cup {AD!NoDialog}]
        /\ CallsAlike
    BY <1>0, <1>a, <2>1, UnmountFacts
  <2>3. /\ page' = [page EXCEPT ![s] = [at |-> place, rows |-> {}, kind |-> "all"]]
        /\ asked' = asked \cup {s} /\ coming' = [coming EXCEPT ![s] = AD!Nothing]
        /\ UNCHANGED <<txn, toast, sends, lost, heard, repeats>>
    BY <1>1 DEF AD!Navigate
  <2>4. [at |-> place, rows |-> {}, kind |-> "all"] \in [at : AD!Places, rows : SUBSET Txn, kind : AD!Kinds]
    BY DEF AD!Kinds
  <2>5. AD!TypeOK'
    BY <1>0, <2>2, <2>3, <2>4 DEF AD!TypeOK
  <2>6. PagesFresh'
    BY <1>0, <2>3 DEF PagesFresh, NextRows, AD!TypeOK
  <2> QED
    BY <2>2, <2>3, <2>5, <2>6, ScreenInv
<1>2. ASSUME NEW kind \in AD!Kinds, AD!SetKind(s, kind) PROVE DeskInv'
  <2> DEFINE gone == {t \in page[s].rows : kind \notin {"all", AD!Type(t)}}
  <2>1. AD!Unmount(s, gone) /\ gone \in SUBSET Txn
    BY <1>2, <1>a DEF AD!SetKind
  <2> HIDE DEF gone
  <2>2. /\ call' \in [1..MaxSends -> AD!Call \cup {AD!NoCall}]
        /\ dialog' \in [Staff -> [txn : Txn, act : AD!Acts] \cup {AD!NoDialog}]
        /\ CallsAlike
    BY <1>0, <2>1, UnmountFacts
  <2>3. /\ page' = [page EXCEPT ![s].kind = kind]
        /\ UNCHANGED <<txn, asked, coming, toast, sends, lost, heard, repeats>>
    BY <1>2 DEF AD!SetKind
  <2>4. page' \in [Staff -> [at : AD!Places, rows : SUBSET Txn, kind : AD!Kinds]]
        /\ \A x \in Staff : page'[x].rows = page[x].rows
    BY <1>0, <2>3 DEF AD!TypeOK
  <2>5. AD!TypeOK'
    BY <1>0, <2>2, <2>3, <2>4 DEF AD!TypeOK
  <2>6. PagesFresh'
    BY <1>0, <2>3, <2>4 DEF PagesFresh, NextRows
  <2> QED
    BY <2>2, <2>3, <2>5, <2>6, ScreenInv
<1>3. ASSUME AD!ReadPage(s) PROVE DeskInv'
  <2>1. PICK r \in [read : {"fine", "failed"}, rows : SUBSET AD!Pending] :
           coming' = [coming EXCEPT ![s] = r]
    <3>1. AD!Listed(page[s].at) \in SUBSET AD!Pending
      BY DEF AD!Listed, AD!OldestPending
    <3> QED
      BY <1>3, <3>1 DEF AD!ReadPage
  <2>2. /\ asked' = asked \ {s}
        /\ UNCHANGED <<txn, page, dialog, call, toast, sends, lost, heard, repeats>>
    BY <1>3 DEF AD!ReadPage
  <2>3. /\ AD!Pending \subseteq Txn /\ \A t \in AD!Pending : ~Decided(t)
        /\ r \in [read : {"fine", "failed"}, rows : SUBSET Txn]
        /\ r # AD!Nothing /\ r.rows \subseteq AD!Pending
    BY DEF AD!Pending, Decided, AD!Nothing
  <2>4. AD!TypeOK'
    BY <1>0, <2>1, <2>2, <2>3 DEF AD!TypeOK
  <2>5. PagesFresh'
    <3>1. ASSUME NEW x \in Staff, NEW t \in Txn, <<x, t>> \in heard, x \notin asked'
          PROVE  t \notin NextRows(x)'
      <4>1. CASE x = s
        <5>1. NextRows(x)' = r.rows
          BY <1>0, <2>1, <2>3, <4>1 DEF NextRows, AD!TypeOK
        <5>2. Decided(t)
          BY <1>0, <3>1 DEF HeardDecided
        <5> QED
          BY <2>3, <5>1, <5>2
      <4>2. CASE x # s
        <5>1. NextRows(x)' = NextRows(x)
          BY <1>0, <2>1, <2>2, <4>2 DEF NextRows, AD!TypeOK
        <5> QED
          BY <1>0, <2>2, <3>1, <4>2, <5>1 DEF PagesFresh
      <4> QED
        BY <4>1, <4>2
    <3> QED
      BY <2>2, <3>1 DEF PagesFresh
  <2>6. CallsAlike
    BY <2>2 DEF CallsAlike, Live
  <2> QED
    BY <2>2, <2>4, <2>5, <2>6, ScreenInv
<1>4. ASSUME AD!Arrive(s) PROVE DeskInv'
  <2>1. AD!Unmount(s, page[s].rows \ coming[s].rows)
    BY <1>4 DEF AD!Arrive
  <2>2. /\ call' \in [1..MaxSends -> AD!Call \cup {AD!NoCall}]
        /\ dialog' \in [Staff -> [txn : Txn, act : AD!Acts] \cup {AD!NoDialog}]
        /\ CallsAlike
    BY <1>0, <1>a, <2>1, UnmountFacts
  <2>3. /\ coming[s] # AD!Nothing /\ coming' = [coming EXCEPT ![s] = AD!Nothing]
        /\ UNCHANGED <<txn, asked, toast, sends, lost, heard, repeats>>
    BY <1>4 DEF AD!Arrive
  <2>4. /\ page' \in [Staff -> [at : AD!Places, rows : SUBSET Txn, kind : AD!Kinds]]
        /\ page'[s].rows = coming[s].rows /\ \A x \in Staff \ {s} : page'[x] = page[x]
    <3>1. /\ page[s] \in [at : AD!Places, rows : SUBSET Txn, kind : AD!Kinds]
          /\ coming[s].rows \in SUBSET Txn
      BY <1>0, <2>3 DEF AD!TypeOK
    <3> DEFINE p == [at |-> page[s].at, rows |-> coming[s].rows,
                     kind |-> IF coming[s].read = "fine" THEN page[s].kind ELSE "all"]
    <3>2. page' = [page EXCEPT ![s] = p] /\ p.rows = coming[s].rows
      BY <1>4 DEF AD!Arrive
    <3>3. p \in [at : AD!Places, rows : SUBSET Txn, kind : AD!Kinds]
      BY <3>1 DEF AD!Kinds
    <3> HIDE DEF p
    <3> QED
      BY <1>0, <3>2, <3>3 DEF AD!TypeOK
  <2>5. AD!TypeOK'
    BY <1>0, <2>2, <2>3, <2>4 DEF AD!TypeOK
  <2>6. PagesFresh'
    <3>1. ASSUME NEW x \in Staff PROVE NextRows(x)' = NextRows(x)
      BY <1>0, <2>3, <2>4, <3>1 DEF NextRows, AD!TypeOK
    <3> QED
      BY <1>0, <2>3, <3>1 DEF PagesFresh
  <2> QED
    BY <2>2, <2>3, <2>5, <2>6, ScreenInv
<1> QED
  BY <1>1, <1>2, <1>3, <1>4

\* A dialog opens or closes.
LEMMA DialogInv ==
    ASSUME DeskInv, NEW s \in Staff,
           (\E t \in Txn, act \in AD!Acts : AD!OpenDialog(s, t, act)) \/ AD!CloseDialog(s)
    PROVE  DeskInv'
<1>0. AD!TypeOK /\ PagesFresh
  BY DEF DeskInv
<1>1. PICK d \in [txn : Txn, act : AD!Acts] \cup {AD!NoDialog} : dialog' = [dialog EXCEPT ![s] = d]
  BY DEF AD!OpenDialog, AD!CloseDialog
<1>2. UNCHANGED <<txn, page, asked, coming, call, toast, sends, lost, heard, repeats>>
  BY DEF AD!OpenDialog, AD!CloseDialog
<1>3. AD!TypeOK'
  BY <1>0, <1>1, <1>2 DEF AD!TypeOK
<1>4. PagesFresh' /\ CallsAlike
  BY <1>0, <1>2 DEF PagesFresh, NextRows, CallsAlike, Live
<1> QED
  BY <1>2, <1>3, <1>4, ScreenInv

\* A decision is sent, in a place of its own; if the desk had heard of the
\* request, or has another call on it, that is a repeat.
LEMMA ConfirmInv ==
    ASSUME MaxSends \in Nat, DeskInv, NEW s \in Staff, AD!Confirm(s)
    PROVE  DeskInv'
<1>0. /\ AD!TypeOK /\ CallsTell /\ HeardDecided /\ OwnDecisions /\ RepeatsKnown /\ FreshCalls
      /\ PagesFresh /\ AD!ToastTruthful
  BY DEF DeskInv
<1>a. /\ sends \in Nat /\ sends < MaxSends
      /\ dialog[s] \in [txn : Txn, act : AD!Acts]
  BY <1>0 DEF AD!Confirm, AD!TypeOK
<1>b. PICK k \in 1..MaxSends : k = sends + 1
  BY <1>a
<1>c. PICK t \in Txn, act \in AD!Acts : t = dialog[s].txn /\ act = dialog[s].act
  BY <1>a
<1> DEFINE v == [at |-> "sent", by |-> s, txn |-> t, act |-> act, mounted |-> TRUE]
<1>1. v \in AD!Call /\ v # AD!NoCall /\ v.at = "sent" /\ v.by = s /\ v.txn = t
  BY DEF AD!Call, AD!NoCall
<1>2. /\ call' = [call EXCEPT ![k] = v] /\ sends' = k
      /\ repeats' = IF AD!Open(s, t) # {} \/ <<s, t>> \in heard
                    THEN repeats \cup {<<s, t>>} ELSE repeats
      /\ UNCHANGED <<txn, page, asked, coming, dialog, toast, lost, heard>>
  BY <1>b, <1>c DEF AD!Confirm
<1>3. ~Live(k)
  BY <1>0, <1>a, <1>b DEF FreshCalls
<1>4. k > sends /\ \A i \in 1..MaxSends : i > k => i > sends /\ i # k
  BY <1>a, <1>b
<1> HIDE DEF v
<1>5. /\ call' \in [1..MaxSends -> AD!Call \cup {AD!NoCall}]
      /\ call'[k] = v /\ \A i \in (1..MaxSends) \ {k} : call'[i] = call[i]
  BY <1>0, <1>1, <1>2 DEF AD!TypeOK
<1>6. /\ repeats \subseteq repeats' /\ repeats' \subseteq Staff \X Txn
      /\ <<s, t>> \in heard => <<s, t>> \in repeats'
      /\ AD!Open(s, t) # {} => <<s, t>> \in repeats'
  BY <1>0, <1>1, <1>2 DEF AD!TypeOK
<1>7. AD!TypeOK'
  BY <1>0, <1>1, <1>2, <1>5, <1>6 DEF AD!TypeOK
<1>8. /\ Live(k)' /\ \A i \in (1..MaxSends) \ {k} : (Live(i)' <=> Live(i)) /\ Pair(i)' = Pair(i)
      /\ Pair(k)' = <<s, t>>
  BY <1>1, <1>5 DEF Live, Pair
<1>9. CallsTell'
  <2>1. ASSUME NEW i \in 1..MaxSends, Live(i)' PROVE Told(call[i])'
    <3>1. CASE i = k
      BY <1>1, <1>5, <3>1 DEF Told
    <3>2. CASE i # k
      <4>1. Told(call[i]) /\ call'[i] = call[i]
        BY <1>0, <1>5, <1>8, <2>1, <3>2 DEF CallsTell
      <4> QED
        BY <1>2, <1>6, <4>1 DEF Told, Decided
    <3> QED
      BY <3>1, <3>2
  <2> QED
    BY <2>1 DEF CallsTell
<1>10. HeardDecided' /\ PagesFresh'
  BY <1>0, <1>2 DEF HeardDecided, Decided, PagesFresh, NextRows
<1>11. OwnDecisions'
  <2>1. ASSUME NEW x \in Staff, NEW y \in Txn, Decided(y), txn[y].by = x
        PROVE  \/ \E i \in 1..MaxSends : Live(i)' /\ Pair(i)' = <<x, y>> /\ call'[i].at = "done"
               \/ <<x, y>> \in heard \cup lost
    <3>1. CASE \E i \in 1..MaxSends : Live(i) /\ Pair(i) = <<x, y>> /\ call[i].at = "done"
      BY <1>3, <1>5, <1>8, <3>1
    <3>2. CASE <<x, y>> \in heard \cup lost
      BY <3>2
    <3> QED
      BY <1>0, <2>1, <3>1, <3>2 DEF OwnDecisions
  <2> QED
    BY <1>2, <2>1 DEF OwnDecisions, Decided
<1>12. RepeatsKnown'
  <2>1. ASSUME NEW i \in 1..MaxSends, Live(i), Pair(i) = <<s, t>> PROVE <<s, t>> \in repeats'
    <3>1. i \in AD!Open(s, t)
      BY <2>1 DEF AD!Open, Live, Pair
    <3> QED
      BY <1>6, <3>1
  <2>2. ASSUME NEW i \in 1..MaxSends, Live(i)'
        PROVE  /\ Pair(i)' \in heard => Pair(i)' \in repeats'
               /\ \A j \in 1..MaxSends : i # j /\ Live(j)' /\ Pair(j)' = Pair(i)' => Pair(i)' \in repeats'
    <3>1. CASE i = k
      BY <1>6, <1>8, <2>1, <3>1
    <3>2. CASE i # k
      <4>1. Live(i) /\ Pair(i)' = Pair(i)
        BY <1>8, <2>2, <3>2
      <4>2. Pair(i) \in heard => Pair(i) \in repeats'
        BY <1>0, <1>6, <4>1 DEF RepeatsKnown
      <4>3. ASSUME NEW j \in 1..MaxSends, i # j, Live(j)', Pair(j)' = Pair(i)' PROVE Pair(i) \in repeats'
        <5>1. CASE j = k
          BY <1>8, <2>1, <4>1, <4>3, <5>1
        <5>2. CASE j # k
          <6>1. Live(j) /\ Pair(j) = Pair(i)
            BY <1>8, <4>1, <4>3, <5>2
          <6> QED
            BY <1>0, <1>6, <4>1, <4>3, <6>1 DEF RepeatsKnown
        <5> QED
          BY <5>1, <5>2
      <4> QED
        BY <4>1, <4>2, <4>3
    <3> QED
      BY <3>1, <3>2
  <2> QED
    BY <1>2, <2>2 DEF RepeatsKnown
<1>13. FreshCalls'
  BY <1>0, <1>2, <1>4, <1>8 DEF FreshCalls
<1>14. AD!ToastTruthful'
  BY <1>0, <1>2, <1>6 DEF AD!ToastTruthful
<1> QED
  BY <1>7, <1>9, <1>10, <1>11, <1>12, <1>13, <1>14 DEF DeskInv

\* The place of a call, or of a toast, whose request was decided keeps it so.
LEMMA ToldStays ==
    ASSUME NEW c, NEW t \in Txn, Told(c), c.txn \in Txn, c.act \in AD!Acts, ~Decided(t),
           \A y \in Txn \ {t} : txn'[y] = txn[y], UNCHANGED <<lost, repeats>>
    PROVE  /\ c.at = "done" => txn'[c.txn] = [status |-> c.act, by |-> c.by]
           /\ c.at = "conflict" => txn'[c.txn].status # "pending"
                 /\ (txn'[c.txn].by = c.by => <<c.by, c.txn>> \in lost' \cup repeats')
<1>1. c.at = "done" => c.txn # t
  <2>1. c.at = "done" => txn[c.txn].status = c.act
    BY DEF Told
  <2> QED
    BY <2>1 DEF Decided, AD!Acts
<1>2. c.at = "conflict" => c.txn # t
  BY DEF Told
<1> QED
  BY <1>1, <1>2 DEF Told, Decided

\* The API decides, or says that it was decided already.
LEMMA SettleInv ==
    ASSUME DeskInv, NEW k \in 1..MaxSends, AD!Settle(k)
    PROVE  DeskInv'
<1> DEFINE s == call[k].by
           t == call[k].txn
<1>0. /\ AD!TypeOK /\ CallsTell /\ HeardDecided /\ OwnDecisions /\ RepeatsKnown /\ FreshCalls
      /\ PagesFresh /\ AD!ToastTruthful
  BY DEF DeskInv
<1>1. UNCHANGED <<page, asked, coming, dialog, toast, sends, lost, heard, repeats>> /\ call[k].at = "sent"
  BY DEF AD!Settle
<1>2. /\ Live(k) /\ call[k] \in AD!Call /\ s \in Staff /\ t \in Txn /\ call[k].act \in AD!Acts
      /\ Pair(k) = <<s, t>>
  BY <1>0, <1>1 DEF AD!TypeOK, AD!NoCall, AD!Call, Live, Pair
<1>3. ASSUME NEW result \in AD!Results, AD!Return(k, result)
      PROVE  /\ call' \in [1..MaxSends -> AD!Call \cup {AD!NoCall}]
             /\ call'[k].at = result /\ call'[k].act = call[k].act
             /\ \A i \in (1..MaxSends) \ {k} : call'[i] = call[i]
             /\ \A i \in 1..MaxSends : (Live(i)' <=> Live(i)) /\ (Live(i) => Pair(i)' = Pair(i))
             /\ call'[k].by = s /\ call'[k].txn = t
  <2> DEFINE v == [call[k] EXCEPT !.at = result]
  <2>1. /\ v \in AD!Call /\ v.at = result /\ v.act = call[k].act /\ v.by = s /\ v.txn = t
        /\ v # AD!NoCall
    BY <1>2 DEF AD!Call, AD!NoCall, AD!Results
  <2>2. call' = [call EXCEPT ![k] = v]
    BY <1>3 DEF AD!Return
  <2> HIDE DEF v
  <2>3. /\ call' \in [1..MaxSends -> AD!Call \cup {AD!NoCall}]
        /\ call'[k] = v /\ \A i \in (1..MaxSends) \ {k} : call'[i] = call[i]
    BY <1>0, <2>1, <2>2 DEF AD!TypeOK
  <2> QED
    BY <1>2, <2>1, <2>3 DEF Live, Pair
<1> HIDE DEF s, t
<1>4. CASE ~Decided(t) /\ AD!Return(k, "done") /\ txn' = [txn EXCEPT ![t] = [status |-> call[k].act, by |-> s]]
  <2>1. /\ call' \in [1..MaxSends -> AD!Call \cup {AD!NoCall}]
        /\ call'[k].at = "done" /\ call'[k].act = call[k].act
        /\ \A i \in (1..MaxSends) \ {k} : call'[i] = call[i]
        /\ \A i \in 1..MaxSends : (Live(i)' <=> Live(i)) /\ (Live(i) => Pair(i)' = Pair(i))
        /\ call'[k].by = s /\ call'[k].txn = t
    BY <1>3, <1>4 DEF AD!Results
  <2>2. /\ txn'[t] = [status |-> call[k].act, by |-> s]
        /\ \A y \in Txn \ {t} : txn'[y] = txn[y]
        /\ txn' \in [Txn -> [status : {"pending"} \cup AD!Acts, by : Staff \cup {AD!NoReviewer}]]
    BY <1>0, <1>2, <1>4 DEF AD!TypeOK
  <2>2a. \A y \in Txn : Decided(y) => y # t
    BY <1>4
  <2>3. AD!TypeOK'
    BY <1>0, <1>1, <2>1, <2>2 DEF AD!TypeOK
  <2>4. CallsTell'
    <3>1. ASSUME NEW i \in 1..MaxSends, Live(i)' PROVE Told(call[i])'
      <4>1. CASE i = k
        BY <2>1, <2>2, <4>1 DEF Told
      <4>2. CASE i # k
        <5>1. call'[i] = call[i] /\ Live(i)
          BY <2>1, <3>1, <4>2
        <5>2. Told(call[i]) /\ call[i].txn \in Txn /\ call[i].act \in AD!Acts
          BY <1>0, <5>1 DEF CallsTell, AD!TypeOK, AD!Call, Live
        <5>c. PICK c : c = call[i]
          OBVIOUS
        <5>3. /\ c.at = "done" => txn'[c.txn] = [status |-> c.act, by |-> c.by]
              /\ c.at = "conflict" => txn'[c.txn].status # "pending"
                    /\ (txn'[c.txn].by = c.by => <<c.by, c.txn>> \in lost' \cup repeats')
          BY <1>1, <1>2, <1>4, <2>2, <5>2, <5>c, ToldStays
        <5> QED
          BY <5>1, <5>c, <5>3 DEF Told, Decided
      <4> QED
        BY <4>1, <4>2
    <3> QED
      BY <3>1 DEF CallsTell
  <2>5. HeardDecided'
    BY <1>0, <1>1, <2>2, <2>2a DEF HeardDecided, Decided
  <2>6. OwnDecisions'
    <3>1. ASSUME NEW x \in Staff, NEW y \in Txn, txn'[y].status # "pending", txn'[y].by = x
          PROVE  \/ \E i \in 1..MaxSends : Live(i)' /\ Pair(i)' = <<x, y>> /\ call'[i].at = "done"
                 \/ <<x, y>> \in heard \cup lost
      <4>1. CASE y = t
        BY <1>2, <2>1, <2>2, <3>1, <4>1
      <4>2. CASE y # t
        <5>1. Decided(y) /\ txn[y].by = x
          BY <2>2, <3>1, <4>2 DEF Decided
        <5>2. CASE <<x, y>> \in heard \cup lost
          BY <5>2
        <5>3. ASSUME NEW i \in 1..MaxSends, Live(i), Pair(i) = <<x, y>>, call[i].at = "done"
              PROVE  Live(i)' /\ Pair(i)' = <<x, y>> /\ call'[i].at = "done"
          <6>1. i # k
            BY <1>1, <5>3
          <6> QED
            BY <2>1, <5>3, <6>1
        <5> QED
          BY <1>0, <5>1, <5>2, <5>3 DEF OwnDecisions
      <4> QED
        BY <4>1, <4>2
    <3> QED
      BY <1>1, <3>1 DEF OwnDecisions, Decided
  <2>7. RepeatsKnown' /\ FreshCalls'
    BY <1>0, <1>1, <2>1 DEF RepeatsKnown, FreshCalls
  <2>8. PagesFresh'
    BY <1>0, <1>1 DEF PagesFresh, NextRows
  <2>9. AD!ToastTruthful'
    <3>1. ASSUME NEW x \in Staff, NEW y \in Txn, toast[x].txn = y
          PROVE  /\ toast[x].says \in AD!Acts => txn'[y] = [status |-> toast[x].says, by |-> x]
                 /\ toast[x].says = "already" =>
                       txn'[y].status # "pending" /\ (txn'[y].by = x => <<x, y>> \in lost \cup repeats)
      <4>1. /\ toast[x].says \in AD!Acts => txn[y] = [status |-> toast[x].says, by |-> x]
            /\ toast[x].says = "already" =>
                  txn[y].status # "pending" /\ (txn[y].by = x => <<x, y>> \in lost \cup repeats)
        BY <1>0, <3>1 DEF AD!ToastTruthful
      <4>2. toast[x].says \in AD!Acts => txn[y].status \in AD!Acts
        BY <4>1
      <4>3. toast[x].says \in AD!Acts \cup {"already"} => y # t
        BY <1>4, <4>1, <4>2 DEF Decided, AD!Acts
      <4> QED
        BY <2>2, <4>1, <4>3
    <3> QED
      BY <1>1, <3>1 DEF AD!ToastTruthful
  <2> QED
    BY <2>3, <2>4, <2>5, <2>6, <2>7, <2>8, <2>9 DEF DeskInv
<1>5. ASSUME txn' = txn, NEW result \in {"funds", "conflict"}, AD!Return(k, result),
             result = "conflict" => Decided(t)
      PROVE  DeskInv'
  <2>1. /\ call' \in [1..MaxSends -> AD!Call \cup {AD!NoCall}]
        /\ call'[k].at = result /\ call'[k].act = call[k].act
        /\ \A i \in (1..MaxSends) \ {k} : call'[i] = call[i]
        /\ \A i \in 1..MaxSends : (Live(i)' <=> Live(i)) /\ (Live(i) => Pair(i)' = Pair(i))
        /\ call'[k].by = s /\ call'[k].txn = t
    BY <1>3, <1>5 DEF AD!Results
  <2>2. Decided(t) /\ txn[t].by = s => <<s, t>> \in lost \cup repeats
    <3>1. ASSUME NEW i \in 1..MaxSends, Live(i), Pair(i) = <<s, t>>, call[i].at = "done"
          PROVE  <<s, t>> \in repeats
      <4>1. i # k
        BY <1>1, <3>1
      <4> QED
        BY <1>0, <1>2, <3>1, <4>1 DEF RepeatsKnown
    <3>2. <<s, t>> \in heard => <<s, t>> \in repeats
      BY <1>0, <1>2 DEF RepeatsKnown
    <3> QED
      BY <1>0, <1>2, <3>1, <3>2 DEF OwnDecisions
  <2>3. AD!TypeOK'
    BY <1>0, <1>1, <1>5, <2>1 DEF AD!TypeOK
  <2>4. CallsTell'
    <3>1. ASSUME NEW i \in 1..MaxSends, Live(i)' PROVE Told(call[i])'
      <4>1. CASE i = k
        <5>1. call'[i].at # "done" /\ (call'[i].at = "conflict" => Decided(t))
          BY <1>5, <2>1, <4>1
        <5> QED
          BY <1>1, <1>5, <2>1, <2>2, <4>1, <5>1 DEF Told, Decided
      <4>2. CASE i # k
        <5>1. call'[i] = call[i] /\ Told(call[i])
          BY <1>0, <2>1, <3>1, <4>2 DEF CallsTell
        <5> QED
          BY <1>1, <1>5, <5>1 DEF Told, Decided
      <4> QED
        BY <4>1, <4>2
    <3> QED
      BY <3>1 DEF CallsTell
  <2>5. OwnDecisions'
    <3>1. ASSUME NEW i \in 1..MaxSends, Live(i), call[i].at = "done"
          PROVE  Live(i)' /\ Pair(i)' = Pair(i) /\ call'[i].at = "done"
      <4>1. i # k
        BY <1>1, <3>1
      <4> QED
        BY <2>1, <3>1, <4>1
    <3> QED
      BY <1>0, <1>1, <1>5, <3>1 DEF OwnDecisions, Decided
  <2>6. RepeatsKnown' /\ FreshCalls'
    BY <1>0, <1>1, <2>1 DEF RepeatsKnown, FreshCalls
  <2>7. HeardDecided' /\ PagesFresh' /\ AD!ToastTruthful'
    BY <1>0, <1>1, <1>5 DEF HeardDecided, Decided, PagesFresh, NextRows, AD!ToastTruthful
  <2> QED
    BY <2>3, <2>4, <2>5, <2>6, <2>7 DEF DeskInv
<1> QED
  BY <1>4, <1>5 DEF AD!Settle, Decided, s, t

\* The desk hears of its call, or loses the answer; either way it asks for its
\* page again.
LEMMA FinishInv ==
    ASSUME DeskInv, NEW k \in 1..MaxSends, Live(k), NEW says \in AD!Acts \cup {"already", "error", "network"},
           AD!Finish(k, says), asked' = asked \cup {call[k].by},
           lost \subseteq lost', lost' \subseteq Staff \X Txn,
           heard' \in {heard, heard \cup {Pair(k)}}, heard' # heard => Decided(call[k].txn),
           call[k].at = "done" => Pair(k) \in heard' \cup lost',
           says \in AD!Acts => call[k].at = "done" /\ says = call[k].act,
           says = "already" => call[k].at = "conflict"
    PROVE  DeskInv'
<1>0. /\ AD!TypeOK /\ CallsTell /\ HeardDecided /\ OwnDecisions /\ RepeatsKnown /\ FreshCalls
      /\ PagesFresh /\ AD!ToastTruthful
  BY DEF DeskInv
<1>a. PICK c \in AD!Call : c = call[k]
  BY <1>0 DEF AD!TypeOK, Live
<1>b. PICK s \in Staff, t \in Txn : s = c.by /\ t = c.txn
  BY DEF AD!Call
<1>1. Pair(k) = <<s, t>> /\ call[k].by = s /\ call[k].txn = t
  BY <1>a, <1>b DEF Pair
<1>2. /\ call' = [call EXCEPT ![k] = AD!NoCall]
      /\ toast' = [toast EXCEPT ![s] = [txn |-> t, says |-> says]]
      /\ UNCHANGED <<txn, page, coming, sends, repeats>>
      /\ asked' = asked \cup {s}
  BY <1>1 DEF AD!Finish
<1>3. /\ call' \in [1..MaxSends -> AD!Call \cup {AD!NoCall}]
      /\ call'[k] = AD!NoCall /\ \A i \in (1..MaxSends) \ {k} : call'[i] = call[i]
  BY <1>0, <1>2 DEF AD!TypeOK
<1>4. /\ ~Live(k)'
      /\ \A i \in (1..MaxSends) \ {k} : (Live(i)' <=> Live(i)) /\ Pair(i)' = Pair(i)
  BY <1>3 DEF Live, Pair
<1>5. dialog' \in [Staff -> [txn : Txn, act : AD!Acts] \cup {AD!NoDialog}]
  <2>1. PICK d \in [txn : Txn, act : AD!Acts] \cup {AD!NoDialog} : dialog' = [dialog EXCEPT ![s] = d]
    BY <1>0, <1>1 DEF AD!Finish, AD!TypeOK
  <2> QED
    BY <1>0, <2>1 DEF AD!TypeOK
<1>6. heard \subseteq heard' /\ heard' \subseteq heard \cup {<<s, t>>} /\ heard' \subseteq Staff \X Txn
  BY <1>0, <1>1 DEF AD!TypeOK
<1>6a. toast' \in [Staff -> [txn : Txn, says : AD!Acts \cup {"already", "error", "network"}] \cup {AD!NoToast}]
  BY <1>0, <1>2 DEF AD!TypeOK
<1>7. AD!TypeOK'
  BY <1>0, <1>2, <1>3, <1>5, <1>6, <1>6a DEF AD!TypeOK
<1>8. CallsTell'
  <2>1. ASSUME NEW i \in 1..MaxSends, Live(i)' PROVE Told(call[i])'
    <3>1. i # k /\ call'[i] = call[i] /\ Live(i)
      BY <1>3, <1>4, <2>1
    <3>2. Told(call[i])
      BY <1>0, <3>1 DEF CallsTell
    <3> QED
      BY <1>2, <3>1, <3>2 DEF Told, Decided
  <2> QED
    BY <2>1 DEF CallsTell
<1>9. HeardDecided'
  BY <1>0, <1>1, <1>2 DEF HeardDecided, Decided
<1>10. OwnDecisions'
  <2>1. ASSUME NEW x \in Staff, NEW y \in Txn, Decided(y), txn[y].by = x
        PROVE  \/ \E i \in 1..MaxSends : Live(i)' /\ Pair(i)' = <<x, y>> /\ call'[i].at = "done"
               \/ <<x, y>> \in heard' \cup lost'
    <3>1. ASSUME NEW i \in 1..MaxSends, Live(i), Pair(i) = <<x, y>>, call[i].at = "done"
          PROVE  \/ Live(i)' /\ Pair(i)' = <<x, y>> /\ call'[i].at = "done"
                 \/ <<x, y>> \in heard' \cup lost'
      <4>1. CASE i = k
        BY <3>1, <4>1
      <4>2. CASE i # k
        BY <1>3, <1>4, <3>1, <4>2
      <4> QED
        BY <4>1, <4>2
    <3>2. <<x, y>> \in heard \cup lost => <<x, y>> \in heard' \cup lost'
      BY <1>6
    <3> QED
      BY <1>0, <2>1, <3>1, <3>2 DEF OwnDecisions
  <2> QED
    BY <1>2, <2>1 DEF OwnDecisions, Decided
<1>11. RepeatsKnown'
  <2>1. ASSUME NEW i \in 1..MaxSends, Live(i)'
        PROVE  /\ Pair(i)' \in heard' => Pair(i)' \in repeats
               /\ \A j \in 1..MaxSends : i # j /\ Live(j)' /\ Pair(j)' = Pair(i)' => Pair(i)' \in repeats
    <3>1. i # k /\ Live(i) /\ Pair(i)' = Pair(i)
      BY <1>4, <2>1
    <3>2. Pair(i) = <<s, t>> => Pair(i) \in repeats
      BY <1>0, <1>1, <3>1 DEF RepeatsKnown
    <3>3. Pair(i) \in heard => Pair(i) \in repeats
      BY <1>0, <3>1 DEF RepeatsKnown
    <3>4. ASSUME NEW j \in 1..MaxSends, i # j, Live(j)', Pair(j)' = Pair(i)' PROVE Pair(i) \in repeats
      <4>1. Live(j) /\ Pair(j) = Pair(i)
        BY <1>4, <3>1, <3>4
      <4> QED
        BY <1>0, <3>1, <3>4, <4>1 DEF RepeatsKnown
    <3> QED
      BY <1>6, <3>1, <3>2, <3>3, <3>4
  <2> QED
    BY <1>2, <2>1 DEF RepeatsKnown
<1>12. FreshCalls'
  BY <1>0, <1>2, <1>4 DEF FreshCalls
<1>13. PagesFresh'
  <2>1. ASSUME NEW x \in Staff, NEW y \in Txn, <<x, y>> \in heard', x \notin asked'
        PROVE  y \notin NextRows(x)
    <3>1. x # s /\ x \notin asked
      BY <1>2, <2>1
    <3>2. <<x, y>> \in heard
      BY <1>6, <2>1, <3>1
    <3> QED
      BY <1>0, <3>1, <3>2 DEF PagesFresh
  <2>2. \A x \in Staff : NextRows(x)' = NextRows(x)
    BY <1>2 DEF NextRows
  <2> QED
    BY <2>1, <2>2 DEF PagesFresh
<1>14. AD!ToastTruthful'
  <2>0. Told(c)
    BY <1>0, <1>a DEF CallsTell
  <2>1. ASSUME NEW x \in Staff, NEW y \in Txn, toast'[x].txn = y
        PROVE  /\ toast'[x].says \in AD!Acts => txn[y] = [status |-> toast'[x].says, by |-> x]
               /\ toast'[x].says = "already" =>
                     txn[y].status # "pending" /\ (txn[y].by = x => <<x, y>> \in lost' \cup repeats)
    <3>1. CASE x = s
      <4>1. toast'[x].says = says /\ y = t
        BY <1>0, <1>2, <2>1, <3>1 DEF AD!TypeOK
      <4> QED
        BY <1>a, <1>b, <2>0, <3>1, <4>1 DEF Told, Decided
    <3>2. CASE x # s
      <4>1. toast'[x] = toast[x]
        BY <1>0, <1>2, <3>2 DEF AD!TypeOK
      <4> QED
        BY <1>0, <2>1, <4>1 DEF AD!ToastTruthful
    <3> QED
      BY <3>1, <3>2
  <2> QED
    BY <1>2, <2>1 DEF AD!ToastTruthful
<1> QED
  BY <1>7, <1>8, <1>9, <1>10, <1>11, <1>12, <1>13, <1>14 DEF DeskInv

LEMMA AnswerInv ==
    ASSUME DeskInv, NEW k \in 1..MaxSends, AD!AnswerCall(k) \/ AD!LoseAnswer(k)
    PROVE  DeskInv'
<1>0. AD!TypeOK /\ CallsTell
  BY DEF DeskInv
<1>1. call[k].at \in AD!Results
  BY DEF AD!AnswerCall, AD!LoseAnswer
<1>2. /\ Live(k) /\ call[k] \in AD!Call /\ call[k].act \in AD!Acts
      /\ call[k].by \in Staff /\ call[k].txn \in Txn /\ Pair(k) = <<call[k].by, call[k].txn>>
  BY <1>0, <1>1 DEF AD!TypeOK, AD!NoCall, AD!Results, AD!Call, Live, Pair
<1>3. call[k].at \in {"done", "conflict"} => Decided(call[k].txn)
  <2>1. Told(call[k])
    BY <1>0, <1>2 DEF CallsTell
  <2>2. call[k].at = "done" => txn[call[k].txn].status = call[k].act
    BY <2>1 DEF Told
  <2> QED
    BY <1>2, <2>1, <2>2 DEF Told, Decided, AD!Acts
<1>4. lost \subseteq Staff \X Txn
  BY <1>0 DEF AD!TypeOK
<1>5. CASE AD!AnswerCall(k)
  <2>1. PICK says : says = AD!SaysOf(call[k])
    OBVIOUS
  <2>2. \/ call[k].at = "done" /\ says = call[k].act
        \/ call[k].at = "conflict" /\ says = "already"
        \/ call[k].at = "funds" /\ says = "error"
    <3>1. CASE call[k].at = "done"
      BY <2>1, <3>1, Zenon DEF AD!SaysOf
    <3>2. CASE call[k].at = "conflict"
      <4>1. call[k].at # "done"
        BY <3>2
      <4> QED
        BY <2>1, <3>2, <4>1, Zenon DEF AD!SaysOf
    <3>3. CASE call[k].at = "funds"
      <4>1. call[k].at # "done" /\ call[k].at # "conflict"
        BY <3>3
      <4> QED
        BY <2>1, <3>3, <4>1, Zenon DEF AD!SaysOf
    <3> QED
      BY <1>1, <3>1, <3>2, <3>3 DEF AD!Results
  <2>3. /\ says \in AD!Acts \cup {"already", "error", "network"}
        /\ says \in AD!Acts => call[k].at = "done" /\ says = call[k].act
        /\ says = "already" => call[k].at = "conflict"
    BY <1>2, <2>2 DEF AD!Acts
  <2>4. AD!Finish(k, says) /\ asked' = asked \cup {call[k].by} /\ lost' = lost
    BY <1>5, <2>1 DEF AD!AnswerCall
  <2>5. /\ heard' \in {heard, heard \cup {Pair(k)}} /\ (heard' # heard => Decided(call[k].txn))
        /\ call[k].at = "done" => Pair(k) \in heard' \cup lost'
    BY <1>2, <1>3, <1>5 DEF AD!AnswerCall, AD!Hear
  <2> QED
    BY <1>2, <1>4, <2>3, <2>4, <2>5, FinishInv
<1>6. CASE AD!LoseAnswer(k)
  <2>1. PICK says : says = "network"
    OBVIOUS
  <2>2. /\ AD!Finish(k, says) /\ asked' = asked \cup {call[k].by} /\ heard' = heard
        /\ lost' = lost \cup {Pair(k)}
    BY <1>2, <1>6, <2>1 DEF AD!LoseAnswer
  <2>3. /\ says \in AD!Acts \cup {"already", "error", "network"} /\ says \notin AD!Acts
        /\ says # "already"
    BY <2>1 DEF AD!Acts
  <2>4. lost \subseteq lost' /\ lost' \subseteq Staff \X Txn /\ Pair(k) \in heard' \cup lost'
    BY <1>2, <1>4, <2>2
  <2> QED
    BY <1>2, <2>2, <2>3, <2>4, FinishInv
<1> QED
  BY <1>5, <1>6

LEMMA DeskInit ==
    ASSUME MaxSends \in Nat, AD!Init
    PROVE  DeskInv
<1>1. AD!TypeOK
  BY DEF AD!Init, AD!TypeOK, AD!Places, AD!Kinds
<1>2. \A i \in 1..MaxSends : ~Live(i)
  BY DEF AD!Init, Live
<1>3. \A t \in Txn : ~Decided(t)
  BY DEF AD!Init, Decided
<1>4. heard = {} /\ asked = Staff
  BY DEF AD!Init
<1>5. \A s \in Staff : toast[s].says = "nothing"
  BY DEF AD!Init, AD!NoToast
<1>6. CallsTell /\ HeardDecided /\ OwnDecisions /\ RepeatsKnown /\ FreshCalls /\ PagesFresh
  BY <1>2, <1>3, <1>4 DEF CallsTell, HeardDecided, OwnDecisions, RepeatsKnown, FreshCalls, PagesFresh
<1>7. AD!ToastTruthful
  BY <1>5 DEF AD!ToastTruthful, AD!Acts
<1> QED
  BY <1>1, <1>6, <1>7 DEF DeskInv

LEMMA DeskStays ==
    ASSUME MaxSends \in Nat, DeskInv, [AD!Next]_(AD!vars)
    PROVE  DeskInv'
<1>1. ASSUME NEW s \in Staff,
             \/ \E place \in AD!Places : AD!Navigate(s, place)
             \/ \E kind \in AD!Kinds : AD!SetKind(s, kind)
             \/ AD!ReadPage(s) \/ AD!Arrive(s)
      PROVE  DeskInv'
  BY <1>1, DeskPageInv
<1>2. CASE UNCHANGED AD!vars
  <2>1. AD!TypeOK /\ PagesFresh
    BY DEF DeskInv
  <2>2. UNCHANGED <<txn, page, asked, coming, dialog, call, toast, sends, lost, heard, repeats>>
    BY <1>2 DEF AD!vars
  <2>3. AD!TypeOK' /\ PagesFresh' /\ CallsAlike
    BY <2>1, <2>2 DEF AD!TypeOK, PagesFresh, NextRows, CallsAlike, Live
  <2> QED
    BY <2>2, <2>3, ScreenInv
<1>3. ASSUME NEW s \in Staff,
             AD!CloseDialog(s) \/ (\E t \in Txn, act \in AD!Acts : AD!OpenDialog(s, t, act))
      PROVE  DeskInv'
  BY <1>3, DialogInv
<1>4. ASSUME NEW s \in Staff, AD!Confirm(s) PROVE DeskInv'
  BY <1>4, ConfirmInv
<1>5. ASSUME NEW k \in 1..MaxSends, AD!Settle(k) PROVE DeskInv'
  BY <1>5, SettleInv
<1>6. ASSUME NEW k \in 1..MaxSends, AD!AnswerCall(k) \/ AD!LoseAnswer(k) PROVE DeskInv'
  BY <1>6, AnswerInv
<1> QED
  BY <1>1, <1>2, <1>3, <1>4, <1>5, <1>6 DEF AD!Next

\* What the desk shows and says in every reachable state.
THEOREM DesksInOrder ==
    ASSUME MaxSends \in Nat
    PROVE  AD!Spec => []DeskInv
<1>1. AD!Init => DeskInv
  BY DeskInit
<1>2. DeskInv /\ [AD!Next]_(AD!vars) => DeskInv'
  BY DeskStays
<1> QED
  BY <1>1, <1>2, PTL DEF AD!Spec

\* A row that a desk heard to be decided is gone once its pages have come.
LEMMA DeskSuffices ==
    ASSUME DeskInv
    PROVE  AD!TypeOK /\ AD!ToastTruthful /\ AD!DecidedRowsLeave
BY DEF DeskInv, PagesFresh, NextRows, AD!DecidedRowsLeave

\* A desk says of a request only what happened to it, and once the pages it
\* asked for have come a request it heard to be decided is no longer among its
\* rows, however many desks decide side by side and whichever answers are lost.
THEOREM DesksTruthful ==
    ASSUME MaxSends \in Nat
    PROVE  AD!Spec => [](AD!TypeOK /\ AD!ToastTruthful /\ AD!DecidedRowsLeave)
<1>1. DeskInv => AD!TypeOK /\ AD!ToastTruthful /\ AD!DecidedRowsLeave
  BY DeskSuffices
<1> QED
  BY <1>1, DesksInOrder, PTL

-----------------------------------------------------------------------------
(***************************************************************************)
(* The second factor.  As long as no handler wrote from a stale row, a     *)
(* handler that is not stale knows the row: what it read there, and what   *)
(* it concluded from it, still holds.  One that is about to store a secret *)
(* knows it in any case, and 2FA is off.                                   *)
(***************************************************************************)
PendingKnows == \A s \in Session : TF!At(s, "setPending") /\ ~stale[s] => ~user.enabled

\* The codes in the row are the unused ones of the last set.
CodesUnused ==
    /\ user.enabled => user.codes = {c \in TF!RecoveryCode : c.set = sets /\ uses[c] = 0}
    /\ \A c \in TF!RecoveryCode : uses[c] <= 1 /\ (c.set > sets => uses[c] = 0)

HandlersKnow ==
    \A s \in Session : ~stale[s] =>
        /\ TF!At(s, "enable") => user.secret \in proved
        /\ TF!At(s, "consumeRead") => user.enabled /\ given[s].code \in user.codes
        /\ TF!At(s, "consumeWrite") =>
              user.enabled /\ read[s] = user.codes /\ given[s].code \in user.codes

FactorInv ==
    /\ TF!TypeOK
    /\ PendingKnows
    /\ ~raced => (user.enabled => user.secret \in proved) /\ CodesUnused /\ HandlersKnow

\* What TypeOK says of one session and of the row.
LEMMA FactorTypes ==
    ASSUME TF!TypeOK
    PROVE  /\ user.secret \in TF!Secret \cup {TF!NoSecret} /\ user.enabled \in BOOLEAN
           /\ user.codes \subseteq TF!RecoveryCode
           /\ \A s \in Session :
                 /\ pc[s].at \in TF!Places /\ pc[s].for \in TF!Purpose \cup {"none"}
                 /\ given[s].code \in TF!RecoveryCode \cup {TF!NoCode}
                 /\ given[s].totp \in TF!Secret \cup {TF!NoSecret}
                 /\ read[s] \subseteq TF!RecoveryCode
                 /\ stale[s] \in BOOLEAN
BY DEF TF!TypeOK, TF!UserRow, TF!Given

\* A write of the row: no handler but the writer's is fresh, unless it is idle.
LEMMA WriteMakesStale ==
    ASSUME TF!TypeOK, NEW s \in Session, NEW u \in TF!UserRow, TF!Write(s, u),
           pc' \in [Session -> [at : TF!Places, for : TF!Purpose \cup {"none"}]],
           \A x \in Session \ {s} : pc'[x] = pc[x]
    PROVE  /\ user' = u /\ stale' \in [Session -> BOOLEAN] /\ raced' \in BOOLEAN
           /\ ~raced' => ~raced /\ ~stale[s]
           /\ \A x \in Session \ {s} : ~stale'[x] => pc'[x].at = "idle"
<1>1. /\ user' = u /\ raced' = (raced \/ stale[s])
      /\ stale' = [x \in Session |-> IF x = s THEN FALSE ELSE ~TF!At(x, "idle") \/ stale[x]]
  BY DEF TF!Write
<1>2. stale[s] \in BOOLEAN /\ raced \in BOOLEAN
  BY DEF TF!TypeOK
<1>3. raced' \in BOOLEAN /\ (~raced' => ~raced /\ ~stale[s])
  <2>1. CASE raced = TRUE
    BY <1>1, <2>1, Zenon
  <2>2. CASE raced = FALSE
    BY <1>1, <1>2, <2>2, Zenon
  <2> QED
    BY <1>2, <2>1, <2>2
<1>4. ASSUME NEW x \in Session
      PROVE  (IF x = s THEN FALSE ELSE ~TF!At(x, "idle") \/ stale[x]) \in BOOLEAN
  <2>1. stale[x] \in BOOLEAN
    BY DEF TF!TypeOK
  <2>2. CASE x = s
    BY <2>2, Zenon
  <2>3. CASE x # s /\ (~TF!At(x, "idle") \/ stale[x])
    BY <2>3, Zenon
  <2>4. CASE x # s /\ ~(~TF!At(x, "idle") \/ stale[x])
    BY <2>4, Zenon
  <2> QED
    BY <2>2, <2>3, <2>4
<1>5. stale' \in [Session -> BOOLEAN]
  BY <1>1, <1>4, Zenon
<1>6. ASSUME NEW x \in Session \ {s}, ~stale'[x] PROVE pc'[x].at = "idle"
  <2>1. stale'[x] = (~TF!At(x, "idle") \/ stale[x])
    BY <1>1, Zenon
  <2>2. TF!At(x, "idle")
    BY <1>6, <2>1, Zenon
  <2>3. pc[x].at = "idle"
    BY <2>2 DEF TF!At
  <2> QED
    BY <2>3
<1> QED
  BY <1>1, <1>3, <1>5, <1>6

\* A step of one session that leaves the row as it is.
LEMMA RowLeftAlone ==
    ASSUME FactorInv, NEW s \in Session, TF!TypeOK', UNCHANGED <<user, sets, uses>>,
           proved \subseteq proved', ~raced' => ~raced,
           \A x \in Session \ {s} : pc'[x] = pc[x] /\ given'[x] = given[x] /\ read'[x] = read[x]
                                    /\ stale'[x] = stale[x],
           pc'[s].at = "setPending" /\ ~stale'[s] => ~user.enabled,
           ~raced' /\ ~stale'[s] =>
              /\ pc'[s].at = "enable" => user.secret \in proved'
              /\ pc'[s].at = "consumeRead" => user.enabled /\ given'[s].code \in user.codes
              /\ pc'[s].at = "consumeWrite" =>
                    user.enabled /\ read'[s] = user.codes /\ given'[s].code \in user.codes
    PROVE  FactorInv'
<1>1. PendingKnows'
  BY DEF FactorInv, PendingKnows, TF!At
<1>2. ASSUME ~raced' PROVE (user'.enabled => user'.secret \in proved') /\ CodesUnused' /\ HandlersKnow'
  <2>1. (user.enabled => user.secret \in proved) /\ CodesUnused /\ HandlersKnow
    BY <1>2 DEF FactorInv
  <2>2. CodesUnused'
    BY <2>1 DEF CodesUnused, TF!RecoveryCode
  <2>3. HandlersKnow'
    BY <1>2, <2>1 DEF HandlersKnow, TF!At
  <2> QED
    BY <2>1, <2>2, <2>3
<1> QED
  BY <1>1, <1>2 DEF FactorInv

\* A step that writes the row and ends what the writer was at.
LEMMA RowWritten ==
    ASSUME FactorInv, NEW s \in Session, NEW u \in TF!UserRow, TF!Write(s, u), TF!TypeOK',
           \A x \in Session \ {s} : pc'[x] = pc[x],
           pc'[s].at \in {"idle", "proved"},
           ~raced /\ ~stale[s] => (u.enabled => u.secret \in proved') /\ CodesUnused'
    PROVE  FactorInv'
<1>0. TF!TypeOK /\ pc' \in [Session -> [at : TF!Places, for : TF!Purpose \cup {"none"}]]
  BY DEF FactorInv, TF!TypeOK
<1>1. /\ user' = u
      /\ ~raced' => ~raced /\ ~stale[s]
      /\ \A x \in Session \ {s} : ~stale'[x] => pc'[x].at = "idle"
  BY <1>0, WriteMakesStale
<1>2. \A x \in Session : ~stale'[x] => pc'[x].at \in {"idle", "proved"}
  BY <1>1
<1>3. PendingKnows' /\ HandlersKnow'
  BY <1>2 DEF PendingKnows, HandlersKnow, TF!At
<1> QED
  BY <1>1, <1>3 DEF FactorInv

LEMMA ReadFacts ==
    ASSUME TF!TypeOK, NEW s \in Session, NEW purpose \in TF!Purpose \cup {"none"},
           NEW code \in TF!Given, NEW place \in TF!Places, TF!Read(s, purpose, code, place)
    PROVE  /\ pc' \in [Session -> [at : TF!Places, for : TF!Purpose \cup {"none"}]]
           /\ given' \in [Session -> TF!Given] /\ stale' \in [Session -> BOOLEAN]
           /\ read' = read
           /\ pc'[s] = [at |-> place, for |-> purpose] /\ given'[s] = code
           /\ \A x \in Session \ {s} : pc'[x] = pc[x] /\ given'[x] = given[x] /\ stale'[x] = stale[x]
<1>1. /\ pc' = [pc EXCEPT ![s] = [at |-> place, for |-> purpose]]
      /\ given' = [given EXCEPT ![s] = code]
      /\ stale' = [stale EXCEPT ![s] = FALSE]
      /\ read' = read
  BY DEF TF!Read
<1>2. /\ pc \in [Session -> [at : TF!Places, for : TF!Purpose \cup {"none"}]]
      /\ given \in [Session -> TF!Given] /\ stale \in [Session -> BOOLEAN]
  BY DEF TF!TypeOK
<1>3. /\ pc' \in [Session -> [at : TF!Places, for : TF!Purpose \cup {"none"}]]
      /\ pc'[s] = [at |-> place, for |-> purpose] /\ \A x \in Session \ {s} : pc'[x] = pc[x]
  BY <1>1, <1>2
<1>4. /\ given' \in [Session -> TF!Given] /\ given'[s] = code
      /\ \A x \in Session \ {s} : given'[x] = given[x]
  BY <1>1, <1>2
<1>5. /\ stale' \in [Session -> BOOLEAN]
      /\ \A x \in Session \ {s} : stale'[x] = stale[x]
  BY <1>1, <1>2
<1> QED
  BY <1>1, <1>3, <1>4, <1>5

LEMMA EndFacts ==
    ASSUME TF!TypeOK, NEW s \in Session, TF!End(s)
    PROVE  /\ pc' \in [Session -> [at : TF!Places, for : TF!Purpose \cup {"none"}]]
           /\ given' \in [Session -> TF!Given] /\ read' \in [Session -> SUBSET TF!RecoveryCode]
           /\ pc'[s].at = "idle"
           /\ \A x \in Session \ {s} : pc'[x] = pc[x] /\ given'[x] = given[x] /\ read'[x] = read[x]
<1>1. /\ TF!Idle \in [at : TF!Places, for : TF!Purpose \cup {"none"}] /\ TF!Idle.at = "idle"
      /\ TF!Nothing \in TF!Given
  BY DEF TF!Idle, TF!Places, TF!Purpose, TF!Nothing, TF!Given, TF!NoSecret
<1>2. /\ pc' \in [Session -> [at : TF!Places, for : TF!Purpose \cup {"none"}]]
      /\ pc'[s].at = "idle" /\ \A x \in Session \ {s} : pc'[x] = pc[x]
  BY <1>1 DEF TF!End, TF!TypeOK
<1>3. given' \in [Session -> TF!Given] /\ \A x \in Session \ {s} : given'[x] = given[x]
  BY <1>1 DEF TF!End, TF!TypeOK
<1>4. /\ read' \in [Session -> SUBSET TF!RecoveryCode]
      /\ \A x \in Session \ {s} : read'[x] = read[x]
  BY DEF TF!End, TF!TypeOK
<1> QED
  BY <1>2, <1>3, <1>4

\* What a page shows changes nothing of this.
LEMMA ShowTypes ==
    ASSUME TF!TypeOK, NEW s \in Session,
           NEW p \in {"idle", "qr", "recovery", "enabled", "disabling"}, TF!Show(s, p)
    PROVE  phase' \in [Session -> {"idle", "qr", "recovery", "enabled", "disabling"}]
BY DEF TF!Show, TF!TypeOK

\* The steps that only read, or only turn a page.
LEMMA PagesInv ==
    ASSUME FactorInv, NEW s \in Session, TF!Load(s) \/ TF!PressOn(s)
    PROVE  FactorInv'
<1>0. TF!TypeOK
  BY DEF FactorInv
<1>1. /\ UNCHANGED <<user, secrets, sets, pc, given, read, stale, requests, uses, proved, raced>>
      /\ phase' \in [Session -> {"idle", "qr", "recovery", "enabled", "disabling"}]
  <2>1. CASE TF!Load(s)
    <3> DEFINE p == IF user.enabled THEN "enabled" ELSE "idle"
    <3>1. p \in {"idle", "qr", "recovery", "enabled", "disabling"}
      OBVIOUS
    <3>2. TF!Show(s, p) /\ UNCHANGED <<user, secrets, sets, pc, given, read, stale, requests, uses, proved, raced>>
      BY <2>1 DEF TF!Load, TF!ghosts
    <3> HIDE DEF p
    <3> QED
      BY <1>0, <3>1, <3>2, ShowTypes
  <2>2. CASE TF!PressOn(s)
    BY <1>0, <2>2, ShowTypes DEF TF!PressOn, TF!ghosts
  <2> QED
    BY <2>1, <2>2
<1>2. TF!TypeOK'
  BY <1>0, <1>1 DEF TF!TypeOK
<1> QED
  BY <1>1, <1>2 DEF FactorInv, PendingKnows, CodesUnused, HandlersKnow, TF!At

LEMMA SetupReadInv ==
    ASSUME FactorInv, NEW s \in Session, TF!SetupRead(s)
    PROVE  FactorInv'
<1>0. TF!TypeOK
  BY DEF FactorInv
<1> DEFINE code == TF!Nothing
           place == "setPending"
           for == "none"
<1>1. /\ TF!Read(s, for, code, place) /\ ~user.enabled
      /\ UNCHANGED <<user, secrets, sets, phase, requests, uses, proved, raced>>
  BY DEF TF!SetupRead, TF!pageVars, TF!ghosts
<1>2. /\ for \in TF!Purpose \cup {"none"} /\ code \in TF!Given /\ place \in TF!Places
      /\ [at |-> place, for |-> for].at = place
  BY DEF TF!Nothing, TF!Given, TF!NoSecret, TF!Places
<1>3. place \notin {"enable", "consumeRead", "consumeWrite"}
  OBVIOUS
<1> HIDE DEF code, place, for
<1>4. /\ pc' \in [Session -> [at : TF!Places, for : TF!Purpose \cup {"none"}]]
      /\ given' \in [Session -> TF!Given] /\ stale' \in [Session -> BOOLEAN]
      /\ read' = read
      /\ pc'[s] = [at |-> place, for |-> for] /\ given'[s] = code
      /\ \A x \in Session \ {s} : pc'[x] = pc[x] /\ given'[x] = given[x] /\ stale'[x] = stale[x]
  BY <1>0, <1>1, <1>2, ReadFacts
<1>5. TF!TypeOK'
  BY <1>0, <1>1, <1>4 DEF TF!TypeOK
<1>6. pc'[s].at = place
  BY <1>2, <1>4
<1> QED
  BY <1>1, <1>3, <1>4, <1>5, <1>6, RowLeftAlone

LEMMA VerifyReadInv ==
    ASSUME FactorInv, NEW s \in Session, NEW n \in TF!Secret, TF!VerifyRead(s, n)
    PROVE  FactorInv'
<1>0. TF!TypeOK
  BY DEF FactorInv
<1> DEFINE code == TF!Totp(n)
           place == "enable"
           for == "none"
<1>1. /\ TF!Read(s, for, code, place) /\ n = user.secret /\ proved' = proved \cup {n}
      /\ UNCHANGED <<user, secrets, sets, phase, requests, uses, raced>>
  BY DEF TF!VerifyRead, TF!pageVars
<1>2. /\ for \in TF!Purpose \cup {"none"} /\ code \in TF!Given /\ place \in TF!Places
      /\ [at |-> place, for |-> for].at = place
  BY DEF TF!Totp, TF!Given, TF!NoCode, TF!Places
<1>3. place \notin {"setPending", "consumeRead", "consumeWrite"}
  OBVIOUS
<1> HIDE DEF code, place, for
<1>4. /\ pc' \in [Session -> [at : TF!Places, for : TF!Purpose \cup {"none"}]]
      /\ given' \in [Session -> TF!Given] /\ stale' \in [Session -> BOOLEAN]
      /\ read' = read
      /\ pc'[s] = [at |-> place, for |-> for] /\ given'[s] = code
      /\ \A x \in Session \ {s} : pc'[x] = pc[x] /\ given'[x] = given[x] /\ stale'[x] = stale[x]
  BY <1>0, <1>1, <1>2, ReadFacts
<1>5. TF!TypeOK'
  BY <1>0, <1>1, <1>4 DEF TF!TypeOK
<1>6. pc'[s].at = place
  BY <1>2, <1>4
<1> QED
  BY <1>1, <1>3, <1>4, <1>5, <1>6, RowLeftAlone

LEMMA ProveFactorInv ==
    ASSUME FactorBounds, FactorInv, NEW s \in Session, NEW purpose \in TF!Purpose,
           NEW code \in TF!Given, TF!ProveFactor(s, purpose, code)
    PROVE  FactorInv'
<1>0. TF!TypeOK
  BY DEF FactorInv
<1>1. PICK place \in {"proved", "consumeRead"} :
         /\ TF!Read(s, purpose, code, place)
         /\ place = "consumeRead" => code.code \in user.codes
  BY DEF TF!ProveFactor
<1>2. /\ user.enabled
      /\ UNCHANGED <<user, secrets, sets, phase, uses, proved, raced>>
      /\ requests' \in 0..MaxRequests
  <2>1. requests' \in 0..MaxRequests
    <3>1. TF!Asked(s, purpose)
      BY DEF TF!ProveFactor
    <3>2. CASE purpose = "disable"
      BY <1>0, <3>1, <3>2 DEF TF!Asked, TF!TypeOK
    <3>3. CASE purpose # "disable"
      BY <1>0, <3>1, <3>3 DEF TF!Asked, TF!TypeOK, FactorBounds
    <3> QED
      BY <3>2, <3>3
  <2> QED
    BY <2>1 DEF TF!ProveFactor, TF!ghosts
<1>3. purpose \in TF!Purpose \cup {"none"} /\ place \in TF!Places /\ [at |-> place, for |-> purpose].at = place
  BY DEF TF!Places
<1>4. /\ pc' \in [Session -> [at : TF!Places, for : TF!Purpose \cup {"none"}]]
      /\ given' \in [Session -> TF!Given] /\ stale' \in [Session -> BOOLEAN]
      /\ read' = read
      /\ pc'[s] = [at |-> place, for |-> purpose] /\ given'[s] = code
      /\ \A x \in Session \ {s} : pc'[x] = pc[x] /\ given'[x] = given[x] /\ stale'[x] = stale[x]
  BY <1>0, <1>1, <1>3, ReadFacts
<1>5. TF!TypeOK'
  BY <1>0, <1>2, <1>4 DEF TF!TypeOK
<1>6. pc'[s].at = place
  BY <1>3, <1>4
<1>7. place \notin {"setPending", "enable", "consumeWrite"}
  OBVIOUS
<1> QED
  BY <1>1, <1>2, <1>4, <1>5, <1>6, <1>7, RowLeftAlone

LEMMA ConsumeReadInv ==
    ASSUME FactorInv, NEW s \in Session, TF!ConsumeRead(s)
    PROVE  FactorInv'
<1>0. TF!TypeOK /\ stale[s] \in BOOLEAN /\ raced \in BOOLEAN
  BY DEF FactorInv, TF!TypeOK
<1>1. /\ pc[s].at = "consumeRead" /\ pc' = [pc EXCEPT ![s].at = "consumeWrite"]
      /\ read' = [read EXCEPT ![s] = user.codes]
      /\ raced' = (raced \/ stale[s])
      /\ stale' = [stale EXCEPT ![s] = FALSE]
      /\ UNCHANGED <<user, secrets, sets, given, phase, requests, uses, proved>>
  BY DEF TF!ConsumeRead, TF!At, TF!GoTo, TF!pageVars, TF!ghosts
<1>2. raced' \in BOOLEAN /\ (~raced' => ~raced /\ ~stale[s])
  BY <1>0, <1>1, Zenon
<1>3. /\ pc' \in [Session -> [at : TF!Places, for : TF!Purpose \cup {"none"}]]
      /\ pc'[s].at = "consumeWrite" /\ \A x \in Session \ {s} : pc'[x] = pc[x]
  <2>1. "consumeWrite" \in TF!Places
    BY DEF TF!Places
  <2> QED
    BY <1>0, <1>1, <2>1 DEF TF!TypeOK
<1>4. /\ read' \in [Session -> SUBSET TF!RecoveryCode]
      /\ read'[s] = user.codes /\ \A x \in Session \ {s} : read'[x] = read[x]
  BY <1>0, <1>1, FactorTypes DEF TF!TypeOK
<1>5. stale' \in [Session -> BOOLEAN] /\ \A x \in Session \ {s} : stale'[x] = stale[x]
  BY <1>0, <1>1 DEF TF!TypeOK
<1>6. TF!TypeOK'
  BY <1>0, <1>1, <1>2, <1>3, <1>4, <1>5 DEF TF!TypeOK
<1>7. ~raced' => user.enabled /\ given[s].code \in user.codes
  BY <1>1, <1>2 DEF FactorInv, HandlersKnow, TF!At
<1> QED
  BY <1>1, <1>2, <1>3, <1>4, <1>5, <1>6, <1>7, RowLeftAlone

LEMMA AdmittedInv ==
    ASSUME FactorInv, NEW s \in Session, TF!Login2fa(s) \/ TF!StepUp(s)
    PROVE  FactorInv'
<1>0. TF!TypeOK
  BY DEF FactorInv
<1>1. TF!End(s) /\ UNCHANGED <<user, secrets, sets, stale, phase, requests, uses, proved, raced>>
  BY DEF TF!Login2fa, TF!StepUp, TF!pageVars, TF!ghosts
<1>2. /\ pc' \in [Session -> [at : TF!Places, for : TF!Purpose \cup {"none"}]]
      /\ given' \in [Session -> TF!Given] /\ read' \in [Session -> SUBSET TF!RecoveryCode]
      /\ pc'[s].at = "idle"
      /\ \A x \in Session \ {s} : pc'[x] = pc[x] /\ given'[x] = given[x] /\ read'[x] = read[x]
  BY <1>0, <1>1, EndFacts
<1>3. TF!TypeOK'
  BY <1>0, <1>1, <1>2 DEF TF!TypeOK
<1> QED
  BY <1>1, <1>2, <1>3, RowLeftAlone

\* A secret is stored: 2FA is off, whatever it was.
LEMMA SetPendingInv ==
    ASSUME FactorBounds, FactorInv, NEW s \in Session, TF!SetTotpPending(s)
    PROVE  FactorInv'
<1>0. TF!TypeOK
  BY DEF FactorInv
<1> DEFINE u == [TF!Off EXCEPT !.secret = secrets']
<1>1. /\ TF!Write(s, u) /\ TF!End(s) /\ TF!Show(s, "qr")
      /\ secrets' = secrets + 1 /\ secrets < MaxSecrets
      /\ UNCHANGED <<sets, requests, uses, proved>>
  BY DEF TF!SetTotpPending, TF!ghosts
<1>2. secrets' \in 0..MaxSecrets /\ secrets' \in TF!Secret
  BY <1>0, <1>1 DEF TF!TypeOK, FactorBounds, TF!Secret
<1>3. u \in TF!UserRow /\ ~u.enabled
  BY <1>2 DEF TF!Off, TF!UserRow
<1> HIDE DEF u
<1>4. /\ pc' \in [Session -> [at : TF!Places, for : TF!Purpose \cup {"none"}]]
      /\ given' \in [Session -> TF!Given] /\ read' \in [Session -> SUBSET TF!RecoveryCode]
      /\ pc'[s].at = "idle"
      /\ \A x \in Session \ {s} : pc'[x] = pc[x] /\ given'[x] = given[x] /\ read'[x] = read[x]
  BY <1>0, <1>1, EndFacts
<1>5. /\ user' = u /\ stale' \in [Session -> BOOLEAN] /\ raced' \in BOOLEAN
      /\ ~raced' => ~raced /\ ~stale[s]
      /\ \A x \in Session \ {s} : ~stale'[x] => pc'[x].at = "idle"
  BY <1>0, <1>1, <1>3, <1>4, WriteMakesStale
<1>6. phase' \in [Session -> {"idle", "qr", "recovery", "enabled", "disabling"}]
  BY <1>0, <1>1, ShowTypes
<1>7. TF!TypeOK'
  BY <1>0, <1>1, <1>2, <1>3, <1>4, <1>5, <1>6 DEF TF!TypeOK
<1>8. ~raced => CodesUnused'
  BY <1>1, <1>3, <1>5 DEF FactorInv, CodesUnused, TF!RecoveryCode
<1> QED
  BY <1>1, <1>3, <1>4, <1>7, <1>8, RowWritten

\* 2FA goes on: a new set of codes, none of them used.
LEMMA EnableInv ==
    ASSUME FactorBounds, FactorInv, NEW s \in Session, TF!EnableTotp(s)
    PROVE  FactorInv'
<1>0. TF!TypeOK
  BY DEF FactorInv
<1> DEFINE u == [user EXCEPT !.enabled = TRUE, !.codes = [set : {sets'}, place : 1..RECOVERY_COUNT]]
<1>1. /\ TF!Write(s, u) /\ TF!End(s) /\ TF!Show(s, "recovery")
      /\ pc[s].at = "enable"
      /\ sets' = sets + 1 /\ sets < MaxSets
      /\ UNCHANGED <<secrets, requests, uses, proved>>
  BY DEF TF!EnableTotp, TF!ghosts, TF!At
<1>2. sets \in 0..MaxSets /\ sets' \in 0..MaxSets /\ sets' \in 1..MaxSets /\ sets' > sets
  BY <1>0, <1>1 DEF TF!TypeOK, FactorBounds
<1>3. [set : {sets'}, place : 1..RECOVERY_COUNT] = {c \in TF!RecoveryCode : c.set = sets'}
  BY <1>2 DEF TF!RecoveryCode
<1>4. /\ u \in TF!UserRow /\ u.enabled /\ u.secret = user.secret
      /\ u.codes = {c \in TF!RecoveryCode : c.set = sets'}
  BY <1>0, <1>2, <1>3 DEF TF!UserRow, TF!TypeOK, TF!RecoveryCode
<1> HIDE DEF u
<1>5. /\ pc' \in [Session -> [at : TF!Places, for : TF!Purpose \cup {"none"}]]
      /\ given' \in [Session -> TF!Given] /\ read' \in [Session -> SUBSET TF!RecoveryCode]
      /\ pc'[s].at = "idle"
      /\ \A x \in Session \ {s} : pc'[x] = pc[x] /\ given'[x] = given[x] /\ read'[x] = read[x]
  BY <1>0, <1>1, EndFacts
<1>6. /\ user' = u /\ stale' \in [Session -> BOOLEAN] /\ raced' \in BOOLEAN
      /\ ~raced' => ~raced /\ ~stale[s]
      /\ \A x \in Session \ {s} : ~stale'[x] => pc'[x].at = "idle"
  BY <1>0, <1>1, <1>4, <1>5, WriteMakesStale
<1>7. phase' \in [Session -> {"idle", "qr", "recovery", "enabled", "disabling"}]
  BY <1>0, <1>1, ShowTypes
<1>8. TF!TypeOK'
  BY <1>0, <1>1, <1>2, <1>4, <1>5, <1>6, <1>7 DEF TF!TypeOK
<1>9. ASSUME ~raced, ~stale[s] PROVE u.secret \in proved' /\ CodesUnused'
  <2>1. user.secret \in proved /\ CodesUnused
    BY <1>1, <1>9 DEF FactorInv, HandlersKnow, TF!At
  <2>2. \A c \in TF!RecoveryCode :
           uses'[c] <= 1 /\ (c.set = sets' => uses'[c] = 0) /\ (c.set > sets' => uses'[c] = 0)
    <3>1. \A c \in TF!RecoveryCode : c.set \in Nat
      BY DEF TF!RecoveryCode
    <3>2. \A c \in TF!RecoveryCode : c.set >= sets' => c.set > sets
      BY <1>2, <3>1
    <3>3. \A c \in TF!RecoveryCode : c.set = sets' => c.set >= sets'
      BY <1>2, <3>1
    <3>4. \A c \in TF!RecoveryCode : c.set > sets' => c.set >= sets'
      BY <1>2, <3>1
    <3> QED
      BY <1>1, <2>1, <3>2, <3>3, <3>4 DEF CodesUnused
  <2>3. user'.codes = {c \in TF!RecoveryCode : c.set = sets' /\ uses'[c] = 0}
    BY <1>4, <1>6, <2>2
  <2> QED
    BY <1>1, <1>4, <2>1, <2>2, <2>3 DEF CodesUnused, TF!RecoveryCode
<1> QED
  BY <1>1, <1>4, <1>5, <1>8, <1>9, RowWritten

\* A recovery code is spent: it was one of the unused ones.
LEMMA ConsumeWriteInv ==
    ASSUME FactorInv, NEW s \in Session, TF!ConsumeWrite(s)
    PROVE  FactorInv'
<1>0. /\ TF!TypeOK /\ uses \in [TF!RecoveryCode -> Nat] /\ user \in TF!UserRow
      /\ read[s] \subseteq TF!RecoveryCode
  BY FactorTypes DEF FactorInv, TF!TypeOK
<1> DEFINE code == given[s].code
           u == [user EXCEPT !.codes = read[s] \ {code}]
<1>1. /\ TF!Write(s, u) /\ pc[s].at = "consumeWrite"
      /\ pc' = [pc EXCEPT ![s].at = "proved"]
      /\ uses' = [uses EXCEPT ![code] = @ + 1]
      /\ read' = [read EXCEPT ![s] = {}]
      /\ UNCHANGED <<secrets, sets, given, phase, requests, proved>>
  BY DEF TF!ConsumeWrite, TF!At, TF!GoTo, TF!pageVars
<1>2. /\ u \in TF!UserRow /\ u.enabled = user.enabled /\ u.secret = user.secret
      /\ u.codes = read[s] \ {code}
  BY <1>0 DEF TF!UserRow
<1> HIDE DEF u
<1>3. /\ pc' \in [Session -> [at : TF!Places, for : TF!Purpose \cup {"none"}]]
      /\ pc'[s].at = "proved" /\ \A x \in Session \ {s} : pc'[x] = pc[x]
  <2>1. "proved" \in TF!Places
    BY DEF TF!Places
  <2> QED
    BY <1>0, <1>1, <2>1 DEF TF!TypeOK
<1>4. /\ user' = u /\ stale' \in [Session -> BOOLEAN] /\ raced' \in BOOLEAN
      /\ ~raced' => ~raced /\ ~stale[s]
      /\ \A x \in Session \ {s} : ~stale'[x] => pc'[x].at = "idle"
  BY <1>0, <1>1, <1>2, <1>3, WriteMakesStale
<1>5. read' \in [Session -> SUBSET TF!RecoveryCode]
  BY <1>0, <1>1 DEF TF!TypeOK
<1>6. /\ uses' \in [TF!RecoveryCode -> Nat]
      /\ \A c \in TF!RecoveryCode : uses'[c] = IF c = code THEN uses[c] + 1 ELSE uses[c]
  <2> DEFINE set == TF!RecoveryCode
             n == uses[code] + 1
  <2>1. uses \in [set -> Nat] /\ uses' = [uses EXCEPT ![code] = n]
    BY <1>0, <1>1
  <2>2. code \in set => n \in Nat
    BY <2>1
  <2>3. \A c \in set : c = code => n = uses[c] + 1
    OBVIOUS
  <2> HIDE DEF set, n, code
  <2>4. /\ uses' \in [set -> Nat]
        /\ \A c \in set : uses'[c] = IF c = code THEN n ELSE uses[c]
    BY <2>1, <2>2
  <2>5. \A c \in set : uses'[c] = IF c = code THEN uses[c] + 1 ELSE uses[c]
    BY <2>3, <2>4
  <2> QED
    BY <2>4, <2>5 DEF set
<1>7. TF!TypeOK'
  BY <1>0, <1>1, <1>2, <1>3, <1>4, <1>5, <1>6 DEF TF!TypeOK
<1>8. ASSUME ~raced, ~stale[s]
      PROVE  (u.enabled => u.secret \in proved') /\ CodesUnused'
  <2>1. /\ user.enabled /\ read[s] = user.codes /\ code \in user.codes
        /\ user.secret \in proved /\ CodesUnused
    BY <1>1, <1>8 DEF FactorInv, HandlersKnow, TF!At
  <2>2. user.codes = {c \in TF!RecoveryCode : c.set = sets /\ uses[c] = 0}
    BY <2>1 DEF CodesUnused
  <2>3. code \in TF!RecoveryCode /\ code.set = sets /\ uses[code] = 0
    BY <2>1, <2>2
  <2>4. sets \in Nat
    BY <1>0 DEF TF!TypeOK
  <2>5. ASSUME NEW c \in TF!RecoveryCode
        PROVE  uses'[c] <= 1 /\ (c.set > sets => uses'[c] = 0)
    <3>1. CASE c = code
      BY <1>6, <2>3, <2>4, <3>1
    <3>2. CASE c # code
      BY <1>6, <2>1, <3>2 DEF CodesUnused
    <3> QED
      BY <3>1, <3>2
  <2>6. read[s] \ {code} = {c \in TF!RecoveryCode : c.set = sets /\ uses'[c] = 0}
    <3>1. \A c \in TF!RecoveryCode : (uses'[c] = 0) <=> (uses[c] = 0 /\ c # code)
      BY <1>0, <1>6
    <3> QED
      BY <2>1, <2>2, <3>1
  <2> QED
    BY <1>1, <1>2, <1>4, <2>1, <2>5, <2>6 DEF CodesUnused, TF!RecoveryCode
<1> QED
  BY <1>1, <1>2, <1>3, <1>7, <1>8, RowWritten

LEMMA DisableInv ==
    ASSUME FactorInv, NEW s \in Session, TF!DisableTotp(s)
    PROVE  FactorInv'
<1>0. TF!TypeOK
  BY DEF FactorInv
<1> DEFINE u == TF!Off
<1>1. /\ TF!Write(s, u) /\ TF!End(s) /\ TF!Show(s, "idle")
      /\ UNCHANGED <<secrets, sets, requests, uses, proved>>
  BY DEF TF!DisableTotp, TF!ghosts
<1>2. u \in TF!UserRow /\ ~u.enabled
  BY DEF TF!Off, TF!UserRow
<1> HIDE DEF u
<1>3. /\ pc' \in [Session -> [at : TF!Places, for : TF!Purpose \cup {"none"}]]
      /\ given' \in [Session -> TF!Given] /\ read' \in [Session -> SUBSET TF!RecoveryCode]
      /\ pc'[s].at = "idle"
      /\ \A x \in Session \ {s} : pc'[x] = pc[x] /\ given'[x] = given[x] /\ read'[x] = read[x]
  BY <1>0, <1>1, EndFacts
<1>4. /\ user' = u /\ stale' \in [Session -> BOOLEAN] /\ raced' \in BOOLEAN
      /\ ~raced' => ~raced /\ ~stale[s]
      /\ \A x \in Session \ {s} : ~stale'[x] => pc'[x].at = "idle"
  BY <1>0, <1>1, <1>2, <1>3, WriteMakesStale
<1>5. phase' \in [Session -> {"idle", "qr", "recovery", "enabled", "disabling"}]
  BY <1>0, <1>1, ShowTypes
<1>6. TF!TypeOK'
  BY <1>0, <1>1, <1>2, <1>3, <1>4, <1>5 DEF TF!TypeOK
<1>7. ~raced => CodesUnused'
  BY <1>1, <1>2, <1>4 DEF FactorInv, CodesUnused, TF!RecoveryCode
<1> QED
  BY <1>1, <1>2, <1>3, <1>6, <1>7, RowWritten

LEMMA FactorStays ==
    ASSUME FactorBounds, FactorInv, [TF!Next]_(TF!vars)
    PROVE  FactorInv'
<1>0. TF!TypeOK
  BY DEF FactorInv
<1>1. ASSUME NEW s \in Session, NEW n \in 1..secrets, TF!VerifyRead(s, n) PROVE FactorInv'
  <2>1. n \in TF!Secret
    BY <1>0 DEF TF!TypeOK, TF!Secret, FactorBounds
  <2> QED
    BY <1>1, <2>1, VerifyReadInv
<1>2. ASSUME NEW s \in Session, NEW purpose \in TF!Purpose, NEW n \in 1..secrets,
             TF!ProveFactor(s, purpose, TF!Totp(n))
      PROVE  FactorInv'
  <2>1. n \in TF!Secret
    BY <1>0 DEF TF!TypeOK, TF!Secret, FactorBounds
  <2>2. TF!Totp(n) \in TF!Given
    BY <2>1 DEF TF!Totp, TF!Given
  <2> QED
    BY <1>2, <2>2, ProveFactorInv
<1>3. ASSUME NEW s \in Session, NEW purpose \in TF!Purpose,
             NEW c \in [set : 1..sets, place : 1..RECOVERY_COUNT],
             TF!ProveFactor(s, purpose, TF!Recovery(c))
      PROVE  FactorInv'
  <2>1. c \in TF!RecoveryCode
    BY <1>0 DEF TF!TypeOK, TF!RecoveryCode, FactorBounds
  <2>2. TF!Recovery(c) \in TF!Given
    BY <2>1 DEF TF!Recovery, TF!Given, TF!NoSecret
  <2> QED
    BY <1>3, <2>2, ProveFactorInv
<1>4. CASE TF!Rest \/ UNCHANGED TF!vars
  <2>1. UNCHANGED <<user, secrets, sets, pc, given, read, stale, phase, requests, uses, proved, raced>>
    BY <1>4 DEF TF!Rest, TF!vars
  <2> QED
    BY <2>1 DEF FactorInv, TF!TypeOK, PendingKnows, CodesUnused, HandlersKnow, TF!At
<1>5. ASSUME NEW s \in Session,
             \/ TF!Load(s) \/ TF!SetupRead(s) \/ TF!SetTotpPending(s) \/ TF!EnableTotp(s)
             \/ TF!PressOn(s) \/ TF!ConsumeRead(s) \/ TF!ConsumeWrite(s) \/ TF!DisableTotp(s)
             \/ TF!Login2fa(s) \/ TF!StepUp(s)
      PROVE  FactorInv'
  <2>1. CASE TF!Load(s) \/ TF!PressOn(s)
    BY <2>1, PagesInv
  <2>2. CASE TF!SetupRead(s)
    BY <2>2, SetupReadInv
  <2>3. CASE TF!SetTotpPending(s)
    BY <2>3, SetPendingInv
  <2>4. CASE TF!EnableTotp(s)
    BY <2>4, EnableInv
  <2>5. CASE TF!ConsumeRead(s)
    BY <2>5, ConsumeReadInv
  <2>6. CASE TF!ConsumeWrite(s)
    BY <2>6, ConsumeWriteInv
  <2>7. CASE TF!DisableTotp(s)
    BY <2>7, DisableInv
  <2>8. CASE TF!Login2fa(s) \/ TF!StepUp(s)
    BY <2>8, AdmittedInv
  <2> QED
    BY <1>5, <2>1, <2>2, <2>3, <2>4, <2>5, <2>6, <2>7, <2>8
<1> QED
  BY <1>1, <1>2, <1>3, <1>4, <1>5 DEF TF!Next

LEMMA FactorInit ==
    ASSUME FactorBounds, TF!Init
    PROVE  FactorInv
<1>1. /\ TF!Idle \in [at : TF!Places, for : TF!Purpose \cup {"none"}] /\ TF!Idle.at = "idle"
      /\ TF!Nothing \in TF!Given
      /\ TF!Off \in TF!UserRow /\ ~TF!Off.enabled
  BY DEF TF!Idle, TF!Places, TF!Nothing, TF!Given, TF!NoSecret, TF!Off, TF!UserRow
<1>2. TF!TypeOK
  <2>1. secrets \in 0..MaxSecrets /\ sets \in 0..MaxSets /\ requests \in 0..MaxRequests
    BY DEF TF!Init, FactorBounds
  <2>2. user \in TF!UserRow
    BY <1>1 DEF TF!Init
  <2>3. proved \subseteq TF!Secret
    BY DEF TF!Init
  <2>4. raced \in BOOLEAN
    <3>1. raced = FALSE
      BY Zenon DEF TF!Init
    <3> QED
      BY <3>1
  <2>5. /\ pc \in [Session -> [at : TF!Places, for : TF!Purpose \cup {"none"}]]
        /\ given \in [Session -> TF!Given]
        /\ read \in [Session -> SUBSET TF!RecoveryCode]
        /\ stale \in [Session -> BOOLEAN]
        /\ phase \in [Session -> {"idle", "qr", "recovery", "enabled", "disabling"}]
    BY <1>1 DEF TF!Init
  <2>6. uses \in [TF!RecoveryCode -> Nat]
    BY DEF TF!Init
  <2> QED
    BY <2>1, <2>2, <2>3, <2>4, <2>5, <2>6 DEF TF!TypeOK
<1>3. \A s \in Session : pc[s].at = "idle"
  BY <1>1 DEF TF!Init
<1>4. PendingKnows /\ HandlersKnow
  BY <1>3 DEF PendingKnows, HandlersKnow, TF!At
<1>5. ~user.enabled /\ \A c \in TF!RecoveryCode : uses[c] = 0
  BY <1>1 DEF TF!Init
<1>6. CodesUnused
  BY <1>5 DEF CodesUnused
<1> QED
  BY <1>2, <1>4, <1>5, <1>6 DEF FactorInv

\* What a fresh handler of the second factor knows of the row.
THEOREM FactorKnown ==
    ASSUME FactorBounds
    PROVE  TF!Spec => []FactorInv
<1>1. TF!Init => FactorInv
  BY FactorInit
<1>2. FactorInv /\ [TF!Next]_(TF!vars) => FactorInv'
  BY FactorStays
<1> QED
  BY <1>1, <1>2, PTL DEF TF!Spec

\* Unless a handler wrote from a row that had changed, the secret 2FA is on
\* with is one whose code verifyAndEnable accepted, and a recovery code works
\* once: the row holds the unused codes of the set shown last.
THEOREM FactorProvedCodesOnce ==
    ASSUME FactorBounds
    PROVE  TF!Spec => [](TF!TypeOK /\ TF!EnabledSecretProved /\ TF!RecoveryCodesOnce)
<1>1. FactorInv => TF!TypeOK /\ TF!EnabledSecretProved /\ TF!RecoveryCodesOnce
  BY DEF FactorInv, CodesUnused, TF!EnabledSecretProved, TF!RecoveryCodesOnce
<1> QED
  BY <1>1, FactorKnown, PTL

LEMMA DowngradeProved ==
    ASSUME FactorInv, [TF!Next]_(TF!vars), user.enabled, ~user'.enabled
    PROVE  TF!NoSilentDowngradeStep
<1>0. TF!TypeOK
  BY DEF FactorInv
<1>1. user' # user
  OBVIOUS
<1>2. ASSUME NEW s \in Session, TF!SetTotpPending(s) PROVE TF!NoSilentDowngradeStep
  <2>1. TF!At(s, "setPending") /\ pc' = [pc EXCEPT ![s] = TF!Idle]
    BY <1>2 DEF TF!SetTotpPending, TF!End
  <2>2. stale[s]
    BY <2>1 DEF FactorInv, PendingKnows
  <2>3. pc'[s] = TF!Idle
    BY <1>0, <2>1 DEF TF!TypeOK
  <2> QED
    BY <2>1, <2>2, <2>3 DEF TF!NoSilentDowngradeStep
<1>3. ASSUME NEW s \in Session, TF!DisableTotp(s) PROVE TF!NoSilentDowngradeStep
  <2>1. TF!At(s, "proved") /\ pc[s].for = "disable" /\ pc' = [pc EXCEPT ![s] = TF!Idle]
    BY <1>3 DEF TF!DisableTotp, TF!End
  <2>2. pc'[s] = TF!Idle
    BY <1>0, <2>1 DEF TF!TypeOK
  <2> QED
    BY <2>1, <2>2 DEF TF!NoSilentDowngradeStep
<1>4. ASSUME NEW s \in Session, TF!EnableTotp(s) \/ TF!ConsumeWrite(s) PROVE FALSE
  <2>1. user \in [secret : TF!Secret \cup {TF!NoSecret}, enabled : BOOLEAN, codes : SUBSET TF!RecoveryCode]
    BY <1>0 DEF TF!TypeOK, TF!UserRow
  <2>2. CASE TF!EnableTotp(s)
    BY <2>1, <2>2 DEF TF!EnableTotp, TF!Write
  <2>3. CASE TF!ConsumeWrite(s)
    BY <2>1, <2>3 DEF TF!ConsumeWrite, TF!Write
  <2> QED
    BY <1>4, <2>2, <2>3
<1>5. ASSUME NEW s \in Session,
             \/ TF!Load(s) \/ TF!SetupRead(s) \/ TF!PressOn(s) \/ TF!ConsumeRead(s)
             \/ TF!Login2fa(s) \/ TF!StepUp(s) \/ (\E x \in 1..secrets : TF!VerifyRead(s, x))
             \/ \E purpose \in TF!Purpose : \E code : TF!ProveFactor(s, purpose, code)
      PROVE  FALSE
  BY <1>1, <1>5 DEF TF!Load, TF!SetupRead, TF!PressOn, TF!ConsumeRead, TF!Login2fa, TF!StepUp,
                    TF!VerifyRead, TF!ProveFactor
<1>6. ~(TF!Rest \/ UNCHANGED TF!vars)
  BY <1>1 DEF TF!Rest, TF!vars
<1> QED
  BY <1>2, <1>3, <1>4, <1>5, <1>6 DEF TF!Next

\* 2FA goes off by a disable that proved the factor, or by a setup that read
\* the row while it was off and stores its secret after it went on; stale or
\* not, by nothing else.
THEOREM FactorNotDowngraded ==
    ASSUME FactorBounds
    PROVE  TF!Spec => TF!NoSilentDowngrade
<1>1. FactorInv /\ [TF!Next]_(TF!vars) => [TF!NoSilentDowngradeStep]_user
  BY DowngradeProved DEF TF!NoSilentDowngradeStep
<1> QED
  BY <1>1, FactorKnown, PTL DEF TF!Spec, TF!NoSilentDowngrade

-----------------------------------------------------------------------------
(***************************************************************************)
(* The passkeys.  An authenticator's counter is ahead of every assertion   *)
(* it signed.  A verification past its check has an assertion newer than   *)
(* the row, unless another one overtook it between its check and its       *)
(* write; and whoever overtakes marks the credential as raced.             *)
(***************************************************************************)
\* A ceremony or an assertion at hand is about a credential that was made.
PickedMade ==
    /\ \A s \in Session : pc[s].at \in {"create", "check", "count"} \/ signed[s] > 0 => pick[s] \in made
    /\ \A c \in Credential : PK!Stored(c) => c \in made

\* Until its registration is verified a credential has no row, and no other
\* session has got past a check of it.
Unregistered ==
    \A s, x \in Session : pc[s].at = "create" =>
        /\ ~PK!Stored(pick[s])
        /\ x # s /\ pc[x].at \in {"create", "count"} => pick[x] # pick[s]

DeviceAhead ==
    /\ \A s \in Session : pick[s] \in Credential => signed[s] <= device[pick[s]]
    /\ \A c \in Credential : \A n \in 0..MaxCount : <<c, n>> \in accepted => n <= device[c]
    /\ \A c \in Credential \cap Synced : device[c] = 0

\* An assertion that is verified counts, if its authenticator does.
Signing ==
    \A s \in Session : pc[s].at \in {"check", "count"} /\ pick[s] \notin Synced => signed[s] > 0

CountersMove ==
    \A s \in Session :
        pc[s].at = "count" /\ pick[s] \notin raced \cup Synced /\ PK!Stored(pick[s])
        => signed[s] > row[pick[s]].counter

KeyInv ==
    PK!TypeOK /\ PickedMade /\ Unregistered /\ DeviceAhead /\ Signing /\ CountersMove
    /\ PK!AssertionOnce

Ceremony == [at : PK!Places, for : PK!Uses]

\* A step that moves one session's ceremony along and leaves rows, counters
\* and what was accepted alone.
LEMMA CeremonyMoves ==
    ASSUME KeyInv, NEW s \in Session, NEW p \in Ceremony,
           pc' = [pc EXCEPT ![s] = p],
           UNCHANGED <<row, device, made, pick, signed, accepted, again, raced>>,
           shown' \in [Session -> SUBSET Credential],
           p.at # "create",
           p.at \in {"check", "count"} => signed[s] > 0 \/ pc[s].at = "check",
           p.at = "count" =>
               PK!Stored(pick[s]) /\ PK!CounterMoves(row[pick[s]].counter, signed[s])
    PROVE  KeyInv'
<1>0. /\ PK!TypeOK /\ PickedMade /\ Unregistered /\ DeviceAhead /\ Signing /\ CountersMove
      /\ PK!AssertionOnce /\ pc \in [Session -> Ceremony]
  BY DEF KeyInv, PK!TypeOK, Ceremony
<1>1. pc' \in [Session -> Ceremony] /\ pc'[s] = p /\ \A x \in Session \ {s} : pc'[x] = pc[x]
  BY <1>0
<1>2. PK!TypeOK'
  BY <1>0, <1>1 DEF PK!TypeOK, Ceremony
<1>3. PickedMade'
  BY <1>0, <1>1 DEF PickedMade, PK!Stored
<1>4. Unregistered'
  <2>1. ASSUME NEW y \in Session, NEW x \in Session, pc'[y].at = "create"
        PROVE  /\ ~PK!Stored(pick[y])
               /\ x # y /\ pc'[x].at \in {"create", "count"} => pick[x] # pick[y]
    <3>1. y # s /\ pc[y].at = "create" /\ ~PK!Stored(pick[y])
      BY <1>0, <1>1, <2>1 DEF Unregistered
    <3>2. CASE x = s
      BY <1>1, <3>1, <3>2
    <3>3. CASE x # s
      BY <1>0, <1>1, <3>1, <3>3 DEF Unregistered
    <3> QED
      BY <3>1, <3>2, <3>3
  <2> QED
    BY <2>1 DEF Unregistered, PK!Stored
<1>5. DeviceAhead' /\ PK!AssertionOnce'
  BY <1>0 DEF DeviceAhead, PK!AssertionOnce, PK!Stored
<1>6. Signing'
  BY <1>0, <1>1 DEF Signing
<1>7. CountersMove'
  <2>1. ASSUME NEW x \in Session, pc'[x].at = "count", pick[x] \notin raced \cup Synced,
               PK!Stored(pick[x])
        PROVE  signed[x] > row[pick[x]].counter
    <3>1. CASE x = s
      <4>1. signed[s] > 0
        BY <1>0, <1>1, <2>1, <3>1 DEF Signing
      <4> QED
        BY <1>1, <2>1, <3>1, <4>1 DEF PK!CounterMoves
    <3>2. CASE x # s
      BY <1>0, <1>1, <2>1, <3>2 DEF CountersMove
    <3> QED
      BY <3>1, <3>2
  <2> QED
    BY <2>1 DEF CountersMove, PK!Stored
<1> QED
  BY <1>2, <1>3, <1>4, <1>5, <1>6, <1>7 DEF KeyInv

LEMMA CeremonyFacts ==
    /\ PK!Idle \in Ceremony /\ PK!Idle.at = "idle"
    /\ \A at \in PK!Places, for \in PK!Uses :
          [at |-> at, for |-> for] \in Ceremony /\ [at |-> at, for |-> for].at = at
BY DEF Ceremony, PK!Idle, PK!Places, PK!Uses

LEMMA CheckInv ==
    ASSUME KeyInv, NEW s \in Session, PK!CheckAssertion(s)
    PROVE  KeyInv'
<1>0. PK!TypeOK /\ pc[s].for \in PK!Uses
  BY DEF KeyInv, PK!TypeOK
<1>1. /\ pc[s].at = "check"
      /\ UNCHANGED <<row, device, made, pick, signed, shown, accepted, again, raced>>
  BY DEF PK!CheckAssertion, PK!ghosts
<1>2. shown' \in [Session -> SUBSET Credential]
  BY <1>0, <1>1 DEF PK!TypeOK
<1>3. CASE /\ PK!Stored(pick[s]) /\ PK!CounterMoves(row[pick[s]].counter, signed[s])
           /\ PK!GoTo(s, "count", pc[s].for)
  <2> DEFINE p == [at |-> "count", for |-> pc[s].for]
  <2>1. p \in Ceremony /\ p.at # "create" /\ pc' = [pc EXCEPT ![s] = p]
    BY <1>0, <1>3, CeremonyFacts DEF PK!GoTo, PK!Places
  <2> HIDE DEF p
  <2> QED
    BY <1>1, <1>2, <1>3, <2>1, CeremonyMoves
<1>4. CASE PK!Rest(s)
  <2> DEFINE p == PK!Idle
  <2>1. p \in Ceremony /\ p.at = "idle" /\ pc' = [pc EXCEPT ![s] = p]
    BY <1>4, CeremonyFacts DEF PK!Rest
  <2> HIDE DEF p
  <2> QED
    BY <1>1, <1>2, <2>1, CeremonyMoves
<1> QED
  BY <1>3, <1>4 DEF PK!CheckAssertion

LEMMA SendAgainInv ==
    ASSUME KeyInv, NEW s \in Session, PK!SendAgain(s)
    PROVE  KeyInv'
<1> DEFINE p == [at |-> "check", for |-> "login"]
<1>1. p \in Ceremony /\ p.at = "check" /\ pc' = [pc EXCEPT ![s] = p] /\ signed[s] > 0
      /\ UNCHANGED <<row, device, made, pick, signed, shown, accepted, again, raced>>
  BY CeremonyFacts DEF PK!SendAgain, PK!GoTo, PK!Places, PK!Uses, PK!ghosts
<1>2. shown' \in [Session -> SUBSET Credential]
  BY <1>1 DEF KeyInv, PK!TypeOK
<1> HIDE DEF p
<1> QED
  BY <1>1, <1>2, CeremonyMoves

LEMMA PageInv ==
    ASSUME KeyInv, NEW s \in Session, PK!AbandonRegistration(s) \/ PK!List(s)
    PROVE  KeyInv'
<1> DEFINE p == PK!Idle
<1>1. p \in Ceremony /\ p.at = "idle" /\ pc' = [pc EXCEPT ![s] = p]
      /\ UNCHANGED <<row, device, made, pick, signed, accepted, again, raced>>
  BY CeremonyFacts DEF PK!AbandonRegistration, PK!List, PK!Rest, PK!ghosts
<1>2. shown \in [Session -> SUBSET Credential] /\ PK!Mine(s) \in SUBSET Credential
  BY DEF KeyInv, PK!TypeOK, PK!Mine
<1>3. shown' \in [Session -> SUBSET Credential]
  BY <1>2 DEF PK!AbandonRegistration, PK!List
<1> HIDE DEF p
<1> QED
  BY <1>1, <1>3, CeremonyMoves

\* A registration begins: nobody has picked the new credential.
LEMMA RegistrationInv ==
    ASSUME KeyBounds, KeyInv, NEW s \in Session, NEW c \in Credential, PK!RegistrationOptions(s, c)
    PROVE  KeyInv'
<1>0. /\ PK!TypeOK /\ PickedMade /\ Unregistered /\ DeviceAhead /\ Signing /\ CountersMove
      /\ PK!AssertionOnce
  BY DEF KeyInv
<1>1. /\ c \notin made /\ made' = made \cup {c} /\ pick' = [pick EXCEPT ![s] = c]
      /\ signed' = [signed EXCEPT ![s] = 0]
      /\ pc' = [pc EXCEPT ![s] = [at |-> "create", for |-> "register"]]
      /\ UNCHANGED <<row, device, shown, accepted, again, raced>>
  BY DEF PK!RegistrationOptions, PK!GoTo, PK!ghosts
<1>2. [at |-> "create", for |-> "register"] \in Ceremony
  BY CeremonyFacts DEF PK!Places, PK!Uses
<1>3. /\ pc' \in [Session -> Ceremony] /\ pc'[s].at = "create"
      /\ \A x \in Session \ {s} : pc'[x] = pc[x]
  BY <1>0, <1>1, <1>2 DEF PK!TypeOK, Ceremony
<1>4. /\ pick' \in [Session -> Credential \cup {Nobody}] /\ pick'[s] = c
      /\ \A x \in Session \ {s} : pick'[x] = pick[x]
  BY <1>0, <1>1 DEF PK!TypeOK
<1>5. /\ signed' \in [Session -> 0..MaxCount] /\ signed'[s] = 0
      /\ \A x \in Session \ {s} : signed'[x] = signed[x]
  <2>1. signed \in [Session -> 0..MaxCount] /\ 0 \in 0..MaxCount
    BY <1>0 DEF PK!TypeOK, KeyBounds
  <2> QED
    BY <1>1, <2>1
<1>6. PK!TypeOK'
  BY <1>0, <1>1, <1>3, <1>4, <1>5 DEF PK!TypeOK, Ceremony
<1>7. ~PK!Stored(c) /\ \A x \in Session : pc[x].at \in {"create", "check", "count"} => pick[x] # c
  BY <1>0, <1>1 DEF PickedMade
<1>8. PickedMade'
  BY <1>0, <1>1, <1>3, <1>4, <1>5 DEF PickedMade, PK!Stored
<1>9. Unregistered'
  <2>1. ASSUME NEW y \in Session, NEW x \in Session, pc'[y].at = "create"
        PROVE  /\ ~PK!Stored(pick'[y])
               /\ x # y /\ pc'[x].at \in {"create", "count"} => pick'[x] # pick'[y]
    <3>1. CASE y = s
      BY <1>3, <1>4, <1>7, <3>1
    <3>2. CASE y # s /\ x = s
      BY <1>0, <1>3, <1>4, <1>7, <2>1, <3>2 DEF Unregistered
    <3>3. CASE y # s /\ x # s
      BY <1>0, <1>3, <1>4, <2>1, <3>3 DEF Unregistered
    <3> QED
      BY <3>1, <3>2, <3>3
  <2> QED
    BY <1>1, <2>1 DEF Unregistered, PK!Stored
<1>10. DeviceAhead'
  <2>1. device[c] \in 0..MaxCount
    BY <1>0 DEF PK!TypeOK
  <2>2. ASSUME NEW x \in Session, pick'[x] \in Credential PROVE signed'[x] <= device[pick'[x]]
    <3>1. CASE x = s
      BY <1>4, <1>5, <2>1, <3>1
    <3>2. CASE x # s
      BY <1>0, <1>4, <1>5, <2>2, <3>2 DEF DeviceAhead
    <3> QED
      BY <3>1, <3>2
  <2> QED
    BY <1>0, <1>1, <2>2 DEF DeviceAhead
<1>11. Signing'
  BY <1>0, <1>3, <1>4, <1>5 DEF Signing
<1>12. CountersMove'
  BY <1>0, <1>1, <1>3, <1>4, <1>5 DEF CountersMove, PK!Stored
<1>13. PK!AssertionOnce'
  BY <1>0, <1>1 DEF PK!AssertionOnce, PK!Stored
<1> QED
  BY <1>6, <1>8, <1>9, <1>10, <1>11, <1>12, <1>13 DEF KeyInv

\* A credential gets its row: its counter is the authenticator's, and ahead of
\* everything accepted.
LEMMA VerifyRegistrationInv ==
    ASSUME KeyBounds, KeyInv, NEW s \in Session, PK!VerifyRegistration(s)
    PROVE  KeyInv'
<1>0. /\ PK!TypeOK /\ PickedMade /\ Unregistered /\ DeviceAhead /\ Signing /\ CountersMove
      /\ PK!AssertionOnce
  BY DEF KeyInv
<1> DEFINE c == pick[s]
           r == [owner |-> OwnerOf[s], counter |-> device[c]]
<1>1. /\ pc[s].at = "create" /\ row' = [row EXCEPT ![c] = r]
      /\ pc' = [pc EXCEPT ![s] = [at |-> "list", for |-> "register"]]
      /\ UNCHANGED <<device, made, pick, signed, shown, accepted, again, raced>>
  BY DEF PK!VerifyRegistration, PK!GoTo, PK!ghosts
<1>2. c \in made /\ c \in Credential /\ ~PK!Stored(c)
  BY <1>0, <1>1 DEF PickedMade, Unregistered, PK!TypeOK
<1>3. device[c] \in 0..MaxCount /\ OwnerOf[s] \in User /\ OwnerOf[s] # Nobody
  BY <1>0, <1>2 DEF PK!TypeOK, KeyBounds
<1>4. r \in [owner : User, counter : 0..MaxCount] /\ r.owner # Nobody /\ r.counter = device[c]
  BY <1>3
<1> HIDE DEF c, r
<1>5. /\ row' \in [Credential -> [owner : User, counter : 0..MaxCount] \cup {PK!NoRow}]
      /\ row'[c] = r /\ \A x \in Credential \ {c} : row'[x] = row[x]
  BY <1>0, <1>1, <1>2, <1>4 DEF PK!TypeOK
<1>6. [at |-> "list", for |-> "register"] \in Ceremony
  BY CeremonyFacts DEF PK!Places, PK!Uses
<1>7. /\ pc' \in [Session -> Ceremony] /\ pc'[s].at = "list"
      /\ \A x \in Session \ {s} : pc'[x] = pc[x]
  BY <1>0, <1>1, <1>6 DEF PK!TypeOK, Ceremony
<1>8. PK!TypeOK'
  BY <1>0, <1>1, <1>5, <1>7 DEF PK!TypeOK, Ceremony
<1>9. \A x \in Session \ {s} : pc[x].at \in {"create", "count"} => pick[x] # c /\ pick[x] \in Credential
  BY <1>0, <1>1 DEF Unregistered, PickedMade, PK!TypeOK, c
<1>10. PickedMade'
  BY <1>0, <1>1, <1>2, <1>5, <1>7 DEF PickedMade, PK!Stored
<1>11. Unregistered'
  <2>1. ASSUME NEW y \in Session, NEW x \in Session, pc'[y].at = "create"
        PROVE  /\ row'[pick[y]].owner = Nobody
               /\ x # y /\ pc'[x].at \in {"create", "count"} => pick[x] # pick[y]
    <3>1. y # s /\ pc[y].at = "create" /\ pick[y] # c /\ pick[y] \in Credential
      BY <1>7, <1>9, <2>1
    <3>2. row'[pick[y]] = row[pick[y]]
      BY <1>5, <3>1
    <3>3. x = s => pc'[x].at \notin {"create", "count"}
      BY <1>7
    <3> QED
      BY <1>0, <1>7, <3>1, <3>2, <3>3 DEF Unregistered, PK!Stored
  <2> QED
    BY <1>1, <2>1 DEF Unregistered, PK!Stored
<1>12. DeviceAhead'
  BY <1>0, <1>1 DEF DeviceAhead
<1>13. Signing'
  BY <1>0, <1>1, <1>7 DEF Signing
<1>14. CountersMove'
  <2>1. ASSUME NEW x \in Session, pc'[x].at = "count", pick[x] \notin raced \cup Synced,
               row'[pick[x]].owner # Nobody
        PROVE  signed[x] > row'[pick[x]].counter
    <3>1. x # s /\ pc[x].at = "count" /\ row'[pick[x]] = row[pick[x]]
      BY <1>5, <1>7, <1>9, <2>1
    <3> QED
      BY <1>0, <2>1, <3>1 DEF CountersMove, PK!Stored
  <2> QED
    BY <1>1, <2>1 DEF CountersMove, PK!Stored
<1>15. PK!AssertionOnce'
  <2>1. ASSUME NEW y \in Credential \ (raced \cup Synced)
        PROVE  /\ \A n \in 0..MaxCount : <<y, n>> \notin again
               /\ row'[y].owner # Nobody =>
                     \A n \in 0..MaxCount : <<y, n>> \in accepted => n <= row'[y].counter
    <3>1. CASE y = c
      BY <1>0, <1>2, <1>4, <1>5, <3>1 DEF PK!AssertionOnce, DeviceAhead
    <3>2. CASE y # c
      BY <1>0, <1>5, <3>2 DEF PK!AssertionOnce, PK!Stored
    <3> QED
      BY <3>1, <3>2
  <2> QED
    BY <1>1, <2>1 DEF PK!AssertionOnce, PK!Stored
<1> QED
  BY <1>8, <1>10, <1>11, <1>12, <1>13, <1>14, <1>15 DEF KeyInv

LEMMA RemoveInv ==
    ASSUME KeyInv, NEW s \in Session, NEW c \in Credential, PK!Remove(s, c)
    PROVE  KeyInv'
<1>0. /\ PK!TypeOK /\ PickedMade /\ Unregistered /\ DeviceAhead /\ Signing /\ CountersMove
      /\ PK!AssertionOnce
  BY DEF KeyInv
<1>1. UNCHANGED <<device, made, pc, pick, signed, accepted, again, raced>>
  BY DEF PK!Remove, PK!ghosts
<1>2. /\ shown' \in [Session -> SUBSET Credential]
      /\ row' \in [Credential -> [owner : User, counter : 0..MaxCount] \cup {PK!NoRow}]
      /\ \A x \in Credential : row'[x] = row[x] \/ row'[x].owner = Nobody
  <2>1. CASE c \in PK!Mine(s)
    <3>1. row' = [row EXCEPT ![c] = PK!NoRow] /\ shown' = [shown EXCEPT ![s] = @ \ {c}]
      BY <2>1 DEF PK!Remove
    <3>2. PK!NoRow.owner = Nobody
      BY DEF PK!NoRow
    <3> QED
      BY <1>0, <3>1, <3>2 DEF PK!TypeOK
  <2>2. CASE c \notin PK!Mine(s)
    BY <1>0, <2>2 DEF PK!Remove, PK!TypeOK
  <2> QED
    BY <2>1, <2>2
<1>3. PK!TypeOK'
  BY <1>0, <1>1, <1>2 DEF PK!TypeOK
<1>4. \A x \in Credential : PK!Stored(x)' => PK!Stored(x) /\ row'[x] = row[x]
  BY <1>1, <1>2 DEF PK!Stored
<1>5. PickedMade' /\ DeviceAhead' /\ Signing'
  BY <1>0, <1>1, <1>4 DEF PickedMade, DeviceAhead, Signing
<1>6. \A x \in Session : pc[x].at \in {"create", "count"} => pick[x] \in Credential
  BY <1>0 DEF PickedMade, PK!TypeOK
<1>7. Unregistered' /\ CountersMove'
  <2>1. \A x \in Session : pc[x].at \in {"create", "count"} /\ row'[pick[x]].owner # Nobody
           => PK!Stored(pick[x]) /\ row'[pick[x]] = row[pick[x]]
    BY <1>2, <1>6 DEF PK!Stored
  <2>2. Unregistered'
    BY <1>0, <1>1, <2>1 DEF Unregistered, PK!Stored
  <2>3. CountersMove'
    BY <1>0, <1>1, <2>1 DEF CountersMove, PK!Stored
  <2> QED
    BY <2>2, <2>3
<1>8. PK!AssertionOnce'
  <2>1. ASSUME NEW y \in Credential \ (raced \cup Synced)
        PROVE  /\ \A n \in 0..MaxCount : <<y, n>> \notin again
               /\ row'[y].owner # Nobody =>
                     \A n \in 0..MaxCount : <<y, n>> \in accepted => n <= row'[y].counter
    BY <1>0, <1>2 DEF PK!AssertionOnce, PK!Stored
  <2> QED
    BY <1>1, <2>1 DEF PK!AssertionOnce, PK!Stored
<1> QED
  BY <1>3, <1>5, <1>7, <1>8 DEF KeyInv

\* An authenticator signs: its counter moves on, and the assertion carries it.
LEMMA AuthenticateInv ==
    ASSUME KeyBounds, KeyInv, NEW s \in Session, NEW c \in Credential,
           NEW for \in {"login", "stepUp"}, PK!Authenticate(s, for, c)
    PROVE  KeyInv'
<1>0. /\ PK!TypeOK /\ PickedMade /\ Unregistered /\ DeviceAhead /\ Signing /\ CountersMove
      /\ PK!AssertionOnce
  BY DEF KeyInv
<1> DEFINE n == IF c \in Synced THEN 0 ELSE device[c] + 1
           p == [at |-> "check", for |-> for]
<1>1. /\ c \in made /\ (c \notin Synced => device[c] < MaxCount)
      /\ pick' = [pick EXCEPT ![s] = c]
      /\ signed' = [signed EXCEPT ![s] = device'[c]]
      /\ pc' = [pc EXCEPT ![s] = p]
      /\ UNCHANGED <<row, made, shown, accepted, again, raced>>
  BY DEF PK!Authenticate, PK!GoTo, PK!ghosts
<1>2. device' = [device EXCEPT ![c] = n]
  BY <1>0 DEF PK!Authenticate, PK!TypeOK
<1>3. device[c] \in 0..MaxCount /\ MaxCount \in Nat
  BY <1>0 DEF PK!TypeOK, KeyBounds
<1>4. n \in 0..MaxCount /\ device[c] <= n /\ (c \notin Synced => n > 0) /\ (c \in Synced => n = 0)
  BY <1>0, <1>1, <1>3 DEF DeviceAhead
<1>5. p \in Ceremony /\ p.at = "check"
  BY CeremonyFacts DEF PK!Places, PK!Uses
<1> HIDE DEF n, p
<1>6. /\ device' \in [Credential -> 0..MaxCount] /\ device'[c] = n
      /\ \A x \in Credential \ {c} : device'[x] = device[x]
  BY <1>0, <1>2, <1>4 DEF PK!TypeOK
<1>7. /\ pc' \in [Session -> Ceremony] /\ pc'[s].at = "check"
      /\ \A x \in Session \ {s} : pc'[x] = pc[x]
  BY <1>0, <1>1, <1>5 DEF PK!TypeOK, Ceremony
<1>8. /\ pick' \in [Session -> Credential \cup {Nobody}] /\ pick'[s] = c
      /\ \A x \in Session \ {s} : pick'[x] = pick[x]
  BY <1>0, <1>1 DEF PK!TypeOK
<1>9. /\ signed' \in [Session -> 0..MaxCount] /\ signed'[s] = n
      /\ \A x \in Session \ {s} : signed'[x] = signed[x]
  BY <1>0, <1>1, <1>4, <1>6 DEF PK!TypeOK
<1>10. PK!TypeOK'
  BY <1>0, <1>1, <1>6, <1>7, <1>8, <1>9 DEF PK!TypeOK, Ceremony
<1>11. PickedMade'
  BY <1>0, <1>1, <1>7, <1>8, <1>9 DEF PickedMade, PK!Stored
<1>12. Unregistered'
  BY <1>0, <1>1, <1>7, <1>8 DEF Unregistered, PK!Stored
<1>13. DeviceAhead'
  <2>1. \A x \in Credential : device[x] <= device'[x]
    BY <1>0, <1>3, <1>4, <1>6 DEF PK!TypeOK
  <2>2. \A x \in Credential : device[x] \in Nat /\ device'[x] \in Nat
    BY <1>0, <1>3, <1>6 DEF PK!TypeOK
  <2>3. ASSUME NEW x \in Session, pick'[x] \in Credential PROVE signed'[x] <= device'[pick'[x]]
    <3>1. CASE x = s
      BY <1>4, <1>6, <1>8, <1>9, <3>1
    <3>2. CASE x # s
      <4>1. signed[x] <= device[pick[x]] /\ pick[x] \in Credential /\ signed[x] \in Nat
        BY <1>0, <1>3, <1>8, <2>3, <3>2 DEF DeviceAhead, PK!TypeOK
      <4>2. signed'[x] = signed[x] /\ pick'[x] = pick[x]
        BY <1>8, <1>9, <3>2
      <4> QED
        BY <2>1, <2>2, <4>1, <4>2
    <3> QED
      BY <3>1, <3>2
  <2>4. ASSUME NEW x \in Credential, NEW m \in 0..MaxCount, <<x, m>> \in accepted
        PROVE  m <= device'[x]
    <3>1. m <= device[x] /\ m \in Nat
      BY <1>0, <1>3, <2>4 DEF DeviceAhead
    <3> QED
      BY <2>1, <2>2, <3>1
  <2>5. \A x \in Credential \cap Synced : device'[x] = 0
    BY <1>0, <1>4, <1>6 DEF DeviceAhead
  <2> QED
    BY <1>1, <2>3, <2>4, <2>5 DEF DeviceAhead
<1>14. Signing'
  BY <1>0, <1>4, <1>7, <1>8, <1>9 DEF Signing
<1>15. CountersMove'
  BY <1>0, <1>1, <1>7, <1>8, <1>9 DEF CountersMove, PK!Stored
<1>16. PK!AssertionOnce'
  BY <1>0, <1>1 DEF PK!AssertionOnce, PK!Stored
<1> QED
  BY <1>10, <1>11, <1>12, <1>13, <1>14, <1>15, <1>16 DEF KeyInv

\* The row takes the counter of the assertion that is accepted.
LEMMA StoredCounter ==
    ASSUME KeyInv, NEW s \in Session, PK!StoreCounter(s), PK!Stored(pick[s])
    PROVE  /\ pick[s] \in Credential
           /\ row' \in [Credential -> [owner : User, counter : 0..MaxCount] \cup {PK!NoRow}]
           /\ row'[pick[s]].owner = row[pick[s]].owner /\ row'[pick[s]].counter = signed[s]
           /\ \A x \in Credential \ {pick[s]} : row'[x] = row[x]
<1> DEFINE c == pick[s]
           n == signed[s]
<1>1. PK!TypeOK /\ pc[s].at = "count" /\ row' = [row EXCEPT ![c] = [row[c] EXCEPT !.counter = n]]
  BY DEF KeyInv, PK!StoreCounter
<1>2. c \in Credential /\ n \in 0..MaxCount
  BY <1>1 DEF KeyInv, PickedMade, PK!TypeOK
<1>3. row[c] \in [owner : User, counter : 0..MaxCount]
  <2>1. row[c] \in [owner : User, counter : 0..MaxCount] \cup {PK!NoRow}
    BY <1>1, <1>2 DEF PK!TypeOK
  <2>2. row[c] # PK!NoRow
    BY DEF PK!Stored, PK!NoRow
  <2> QED
    BY <2>1, <2>2
<1> DEFINE r == [row[c] EXCEPT !.counter = n]
<1>4. r \in [owner : User, counter : 0..MaxCount] /\ r.owner = row[c].owner /\ r.counter = n
  BY <1>2, <1>3
<1>5. row' = [row EXCEPT ![c] = r]
  BY <1>1
<1> HIDE DEF r, c, n
<1>6. /\ row' \in [Credential -> [owner : User, counter : 0..MaxCount] \cup {PK!NoRow}]
      /\ row'[c] = r /\ \A x \in Credential \ {c} : row'[x] = row[x]
  BY <1>1, <1>2, <1>4, <1>5 DEF PK!TypeOK
<1>7. row'[c].owner = row[c].owner /\ row'[c].counter = n
  BY <1>4, <1>6
<1> QED
  BY <1>2, <1>6, <1>7 DEF c, n

LEMMA StoreCounterInv ==
    ASSUME KeyBounds, KeyInv, NEW s \in Session, PK!StoreCounter(s)
    PROVE  KeyInv'
<1>0. /\ PK!TypeOK /\ PickedMade /\ Unregistered /\ DeviceAhead /\ Signing /\ CountersMove
      /\ PK!AssertionOnce
  BY DEF KeyInv
<1>1. pc[s].at = "count" /\ pc' = [pc EXCEPT ![s] = PK!Idle]
      /\ UNCHANGED <<device, made, pick, signed, shown>>
  BY DEF PK!StoreCounter, PK!Rest
<1>2. CASE ~PK!Stored(pick[s])
  <2> DEFINE p == PK!Idle
  <2>1. p \in Ceremony /\ p.at = "idle" /\ pc' = [pc EXCEPT ![s] = p]
        /\ UNCHANGED <<row, accepted, again, raced>>
    BY <1>1, <1>2, CeremonyFacts DEF PK!StoreCounter, PK!ghosts
  <2>2. shown' \in [Session -> SUBSET Credential]
    BY <1>0, <1>1 DEF PK!TypeOK
  <2> HIDE DEF p
  <2> QED
    BY <1>1, <2>1, <2>2, CeremonyMoves
<1>3. CASE PK!Stored(pick[s])
  <2> DEFINE c == pick[s]
             n == signed[s]
  <2>1. /\ c \in Credential
        /\ row' \in [Credential -> [owner : User, counter : 0..MaxCount] \cup {PK!NoRow}]
        /\ row'[c].owner = row[c].owner /\ row'[c].counter = n
        /\ \A x \in Credential \ {c} : row'[x] = row[x]
    BY <1>3, StoredCounter
  <2>2. /\ again' = again \cup ({<<c, n>>} \cap accepted)
        /\ accepted' = accepted \cup {<<c, n>>}
        /\ raced' = raced \cup {x \in {c} : \E y \in Session \ {s} : pc[y].at = "count" /\ pick[y] = x}
    BY <1>3 DEF PK!StoreCounter, PK!Accept
  <2>3. /\ pc' \in [Session -> Ceremony] /\ pc'[s].at = "idle"
        /\ \A x \in Session \ {s} : pc'[x] = pc[x]
    BY <1>0, <1>1, CeremonyFacts DEF PK!TypeOK, Ceremony
  <2>4. n \in 0..MaxCount /\ n <= device[c] /\ PK!Stored(c)
    BY <1>0, <1>3, <2>1 DEF DeviceAhead, PK!TypeOK
  <2>5. c \notin raced \cup Synced => n > row[c].counter
    BY <1>0, <1>1, <1>3 DEF CountersMove
  <2> HIDE DEF c, n
  <2>6. PK!TypeOK'
    BY <1>0, <1>1, <2>1, <2>2, <2>3, <2>4 DEF PK!TypeOK, Ceremony
  <2>7. \A x \in Credential : (row'[x].owner # Nobody) <=> PK!Stored(x)
    BY <2>1 DEF PK!Stored
  <2>8. PickedMade'
    BY <1>0, <1>1, <2>3, <2>7 DEF PickedMade, PK!Stored
  <2>9. Unregistered'
    <3>1. \A x \in Session : pc[x].at = "create" => pick[x] \in Credential
      BY <1>0 DEF PickedMade, PK!TypeOK
    <3>2. ASSUME NEW y \in Session, NEW x \in Session, pc'[y].at = "create"
          PROVE  /\ row'[pick[y]].owner = Nobody
                 /\ x # y /\ pc'[x].at \in {"create", "count"} => pick[x] # pick[y]
      <4>1. y # s /\ pc[y].at = "create" /\ pick[y] \in Credential
        BY <2>3, <3>1, <3>2
      <4>2. ~PK!Stored(pick[y]) /\ row'[pick[y]].owner = Nobody
        BY <1>0, <2>7, <4>1 DEF Unregistered
      <4>3. CASE x = s
        BY <2>3, <4>2, <4>3
      <4>4. CASE x # s
        BY <1>0, <2>3, <4>1, <4>2, <4>4 DEF Unregistered
      <4> QED
        BY <4>2, <4>3, <4>4
    <3> QED
      BY <1>1, <3>2 DEF Unregistered, PK!Stored
  <2>10. DeviceAhead'
    <3>1. ASSUME NEW x \in Credential, NEW m \in 0..MaxCount, <<x, m>> \in accepted'
          PROVE  m <= device[x]
      <4>1. <<x, m>> \in accepted \/ (x = c /\ m = n)
        BY <2>2, <3>1
      <4> QED
        BY <1>0, <2>4, <4>1 DEF DeviceAhead
    <3> QED
      BY <1>0, <1>1, <3>1 DEF DeviceAhead
  <2>11. Signing'
    BY <1>0, <1>1, <2>3 DEF Signing
  <2>12. CountersMove'
    <3>1. ASSUME NEW x \in Session, pc'[x].at = "count", pick[x] \notin raced' \cup Synced,
                 row'[pick[x]].owner # Nobody
          PROVE  signed[x] > row'[pick[x]].counter
      <4>1. x # s /\ pc[x].at = "count" /\ pick[x] \in Credential /\ pick[x] \notin raced
        BY <1>0, <2>2, <2>3, <3>1 DEF PickedMade, PK!TypeOK
      <4>2. pick[x] # c
        BY <2>2, <3>1, <4>1
      <4>3. row'[pick[x]] = row[pick[x]]
        BY <2>1, <4>1, <4>2
      <4> QED
        BY <1>0, <3>1, <4>1, <4>3 DEF CountersMove, PK!Stored
    <3> QED
      BY <1>1, <3>1 DEF CountersMove, PK!Stored
  <2>13. PK!AssertionOnce'
    <3>1. ASSUME NEW y \in Credential \ (raced' \cup Synced)
          PROVE  /\ \A m \in 0..MaxCount : <<y, m>> \notin again'
                 /\ row'[y].owner # Nobody =>
                       \A m \in 0..MaxCount : <<y, m>> \in accepted' => m <= row'[y].counter
      <4>0. y \in Credential \ (raced \cup Synced)
        BY <2>2, <3>1
      <4>1. /\ \A m \in 0..MaxCount : <<y, m>> \notin again
            /\ PK!Stored(y) => \A m \in 0..MaxCount : <<y, m>> \in accepted => m <= row[y].counter
        BY <1>0, <4>0 DEF PK!AssertionOnce
      <4>2. CASE y = c
        <5>1. n > row[c].counter /\ row[c].counter \in Nat /\ n \in Nat
          <6>1. row[c] \in [owner : User, counter : 0..MaxCount] \cup {PK!NoRow}
            BY <1>0, <2>1 DEF PK!TypeOK
          <6>2. PK!NoRow.counter = 0 /\ 0..MaxCount \subseteq Nat
            BY DEF PK!NoRow, KeyBounds
          <6>3. row[c].counter \in Nat
            BY <6>1, <6>2
          <6> QED
            BY <2>4, <2>5, <4>0, <4>2, <6>2, <6>3
        <5>2. ASSUME NEW m \in 0..MaxCount, <<c, m>> \in accepted PROVE m < n
          <6>1. m <= row[c].counter /\ m \in Nat
            BY <2>4, <4>1, <4>2, <5>2
          <6> QED
            BY <5>1, <6>1
        <5>3. <<c, n>> \notin accepted
          BY <2>4, <5>1, <5>2
        <5>4. again' = again
          BY <2>2, <5>3
        <5>5. ASSUME NEW m \in 0..MaxCount, <<c, m>> \in accepted' PROVE m <= n
          <6>1. <<c, m>> \in accepted \/ m = n
            BY <2>2, <5>5
          <6> QED
            BY <5>1, <5>2, <6>1
        <5> QED
          BY <2>1, <4>1, <4>2, <5>4, <5>5
      <4>3. CASE y # c
        <5>1. \A m \in 0..MaxCount : (<<y, m>> \in again' <=> <<y, m>> \in again)
                                     /\ (<<y, m>> \in accepted' <=> <<y, m>> \in accepted)
          BY <2>2, <4>3
        <5>2. row'[y] = row[y]
          BY <2>1, <4>3
        <5> QED
          BY <4>1, <5>1, <5>2 DEF PK!Stored
      <4> QED
        BY <4>2, <4>3
    <3> QED
      BY <3>1 DEF PK!AssertionOnce, PK!Stored
  <2> QED
    BY <2>6, <2>8, <2>9, <2>10, <2>11, <2>12, <2>13 DEF KeyInv
<1> QED
  BY <1>2, <1>3

LEMMA KeyStays ==
    ASSUME KeyBounds, KeyInv, [PK!Next]_(PK!vars)
    PROVE  KeyInv'
<1>1. CASE UNCHANGED PK!vars
  <2>1. UNCHANGED <<row, device, made, pc, pick, signed, shown, accepted, again, raced>>
    BY <1>1 DEF PK!vars
  <2> QED
    BY <2>1 DEF KeyInv, PK!TypeOK, PickedMade, Unregistered, DeviceAhead, Signing, CountersMove,
                PK!AssertionOnce, PK!Stored
<1>2. ASSUME NEW s \in Session,
             \/ \E c \in Credential : PK!RegistrationOptions(s, c) \/ PK!Remove(s, c)
             \/ \E c \in Credential, for \in {"login", "stepUp"} : PK!Authenticate(s, for, c)
      PROVE  KeyInv'
  BY <1>2, RegistrationInv, RemoveInv, AuthenticateInv
<1>3. ASSUME NEW s \in Session, PK!VerifyRegistration(s) \/ PK!AbandonRegistration(s) \/ PK!List(s)
      PROVE  KeyInv'
  BY <1>3, VerifyRegistrationInv, PageInv
<1>4. ASSUME NEW s \in Session, PK!SendAgain(s) \/ PK!CheckAssertion(s) \/ PK!StoreCounter(s)
      PROVE  KeyInv'
  BY <1>4, SendAgainInv, CheckInv, StoreCounterInv
<1> QED
  BY <1>1, <1>2, <1>3, <1>4 DEF PK!Next

LEMMA KeyInit ==
    ASSUME KeyBounds, PK!Init
    PROVE  KeyInv
<1>1. \A s \in Session : pc[s].at = "idle" /\ signed[s] = 0 /\ pick[s] \notin Credential
  BY CeremonyFacts DEF PK!Init, KeyBounds
<1>2. \A c \in Credential : ~PK!Stored(c) /\ device[c] = 0
  BY DEF PK!Init, PK!Stored, PK!NoRow
<1>3. PK!TypeOK
  BY CeremonyFacts DEF PK!Init, PK!TypeOK, Ceremony, KeyBounds
<1>4. PickedMade /\ Unregistered /\ Signing /\ CountersMove
  BY <1>1, <1>2 DEF PickedMade, Unregistered, Signing, CountersMove
<1>5. DeviceAhead /\ PK!AssertionOnce
  BY <1>1, <1>2 DEF PK!Init, DeviceAhead, PK!AssertionOnce
<1> QED
  BY <1>3, <1>4, <1>5 DEF KeyInv

\* Counters, rows and assertions at hand stay in step.
THEOREM KeysInStep ==
    ASSUME KeyBounds
    PROVE  PK!Spec => []KeyInv
<1>1. PK!Init => KeyInv
  BY KeyInit
<1>2. KeyInv /\ [PK!Next]_(PK!vars) => KeyInv'
  BY KeyStays
<1> QED
  BY <1>1, <1>2, PTL DEF PK!Spec

\* Unless two verifications of one credential overlap, an assertion is
\* accepted once, however often it is sent, and the stored counter is never
\* behind one that was accepted.
THEOREM KeysAcceptedOnce ==
    ASSUME KeyBounds
    PROVE  PK!Spec => [](PK!TypeOK /\ PK!AssertionOnce)
<1>1. KeyInv => PK!TypeOK /\ PK!AssertionOnce
  BY DEF KeyInv
<1> QED
  BY <1>1, KeysInStep, PTL

LEMMA SignsInRegistered ==
    ASSUME KeyInv, [PK!Next]_(PK!vars), accepted' # accepted
    PROVE  PK!RemovedNeverSignsInStep
<1>1. PICK s \in Session : PK!StoreCounter(s)
  BY DEF PK!Next, PK!vars, PK!RegistrationOptions, PK!Remove, PK!VerifyRegistration,
         PK!AbandonRegistration, PK!List, PK!Authenticate, PK!SendAgain, PK!CheckAssertion, PK!ghosts
<1>2. PK!Stored(pick[s]) /\ accepted' = accepted \cup {<<pick[s], signed[s]>>}
  BY <1>1 DEF PK!StoreCounter, PK!Accept, PK!ghosts
<1>3. row'[pick[s]].owner = row[pick[s]].owner
  BY <1>1, <1>2, StoredCounter
<1>4. \A a \in accepted' \ accepted : a[1] = pick[s]
  BY <1>2
<1> QED
  BY <1>2, <1>3, <1>4 DEF PK!RemovedNeverSignsInStep, PK!Stored

\* A removed passkey signs nobody in, also when it is removed while its
\* assertion is being verified.
THEOREM RemovedKeysRefused ==
    ASSUME KeyBounds
    PROVE  PK!Spec => PK!RemovedNeverSignsIn
<1>1. KeyInv /\ [PK!Next]_(PK!vars) => [PK!RemovedNeverSignsInStep]_accepted
  BY SignsInRegistered
<1> QED
  BY <1>1, KeysInStep, PTL DEF PK!Spec, PK!RemovedNeverSignsIn

-----------------------------------------------------------------------------
(***************************************************************************)
(* The composition.  A step of Accounts is a step of the part the          *)
(* behaviour is about, so the invariant of that part holds throughout.     *)
(***************************************************************************)
PartsInv ==
    /\ part = "twoFactor" => FactorInv
    /\ part = "passkeys" => KeyInv
    /\ part = "users" => UsersInv /\ EntriesInv
    /\ part = "desk" => DeskInv

LEMMA StepOfThePart ==
    ASSUME [Next]_vars
    PROVE  /\ part' = part
           /\ part = "twoFactor" => [TF!Next]_(TF!vars)
           /\ part = "passkeys" => [PK!Next]_(PK!vars)
           /\ part = "users" => [UA!Next]_(UA!vars)
           /\ part = "desk" => [AD!Next]_(AD!vars)
<1>1. CASE UNCHANGED vars
  <2>1. UNCHANGED <<part, pc, raced, shown, factorVars, keyVars, userVars, deskVars>>
    BY <1>1 DEF vars
  <2> QED
    BY <2>1 DEF factorVars, keyVars, userVars, deskVars, TF!vars, PK!vars, UA!vars, AD!vars
<1>2. CASE part = "twoFactor" /\ TF!Next /\ UNCHANGED part
  BY <1>2
<1>3. CASE part = "passkeys" /\ PK!Next /\ UNCHANGED part
  BY <1>3
<1>4. CASE part = "users" /\ UA!Next /\ UNCHANGED part
  BY <1>4
<1>5. CASE part = "desk" /\ AD!Next /\ UNCHANGED part
  BY <1>5
<1> QED
  BY <1>1, <1>2, <1>3, <1>4, <1>5 DEF Next

LEMMA PartsInit ==
    ASSUME Init
    PROVE  PartsInv
<1>1. FactorBounds /\ KeyBounds /\ UsersBounds
  BY AccountsAssumption
<1>2. CASE part = "twoFactor" /\ TF!Init
  BY <1>1, <1>2, FactorInit DEF PartsInv
<1>3. CASE part = "passkeys" /\ PK!Init
  BY <1>1, <1>3, KeyInit DEF PartsInv
<1>4. CASE part = "users" /\ UA!Init
  BY <1>1, <1>4, UsersInit, EntriesInit DEF PartsInv
<1>5. CASE part = "desk" /\ AD!Init
  BY <1>5, DeskInit, AccountsAssumption DEF PartsInv
<1> QED
  BY <1>2, <1>3, <1>4, <1>5 DEF Init

LEMMA PartsStay ==
    ASSUME PartsInv, [Next]_vars
    PROVE  PartsInv'
<1>1. FactorBounds /\ KeyBounds /\ UsersBounds /\ MaxSends \in Nat
  BY AccountsAssumption
<1>2. part' = part
  BY StepOfThePart
<1>3. ASSUME part = "twoFactor" PROVE FactorInv'
  BY <1>1, <1>3, StepOfThePart, FactorStays DEF PartsInv
<1>4. ASSUME part = "passkeys" PROVE KeyInv'
  BY <1>1, <1>4, StepOfThePart, KeyStays DEF PartsInv
<1>5. ASSUME part = "users" PROVE UsersInv' /\ EntriesInv'
  BY <1>1, <1>5, StepOfThePart, UsersStays, EntriesStep DEF PartsInv
<1>6. ASSUME part = "desk" PROVE DeskInv'
  BY <1>1, <1>6, StepOfThePart, DeskStays DEF PartsInv
<1> QED
  BY <1>2, <1>3, <1>4, <1>5, <1>6 DEF PartsInv

\* Each part of the composition keeps its invariant.
THEOREM PartsKeepOrder == Spec => []PartsInv
<1>1. Init => PartsInv
  BY PartsInit
<1>2. PartsInv /\ [Next]_vars => PartsInv'
  BY PartsStay
<1> QED
  BY <1>1, <1>2, PTL DEF Spec

\* row-actions.tsx: what a desk says of a request happened to it, and once the
\* pages it asked for have come, a request it heard to be decided is no longer
\* among its rows.
THEOREM DesksSayWhatHappened == Spec => []DeskTruthful
<1>1. PartsInv => DeskTruthful
  BY DeskSuffices DEF PartsInv, DeskTruthful
<1> QED
  BY <1>1, PartsKeepOrder, PTL

\* two-factor.service.ts: the secret 2FA is on with was proved, a recovery code
\* is accepted once, unless a handler wrote from a row that had changed; and
\* 2FA is never silently downgraded.
THEOREM SecondFactorKept == Spec => SecondFactorHolds
<1>1. PartsInv => (part = "twoFactor" =>
                      TF!TypeOK /\ TF!EnabledSecretProved /\ TF!RecoveryCodesOnce)
  BY DEF PartsInv, FactorInv, CodesUnused, TF!EnabledSecretProved, TF!RecoveryCodesOnce
<1>2. PartsInv /\ [Next]_vars => [part = "twoFactor" => TF!NoSilentDowngradeStep]_vars
  <2> SUFFICES ASSUME PartsInv, [Next]_vars, part = "twoFactor", user.enabled, ~user'.enabled
               PROVE  TF!NoSilentDowngradeStep
    BY DEF TF!NoSilentDowngradeStep
  <2> QED
    BY StepOfThePart, DowngradeProved DEF PartsInv
<1> QED
  BY <1>1, <1>2, PartsKeepOrder, PTL DEF Spec, SecondFactorHolds

\* passkeys.service.ts: an assertion is accepted once unless two verifications
\* of its credential overlap, and a removed passkey signs nobody in.
THEOREM PasskeysKept == Spec => PasskeysHold
<1>1. PartsInv => (part = "passkeys" => PK!TypeOK /\ PK!AssertionOnce)
  BY DEF PartsInv, KeyInv
<1>2. PartsInv /\ [Next]_vars => [part = "passkeys" => PK!RemovedNeverSignsInStep]_vars
  <2> SUFFICES ASSUME PartsInv, [Next]_vars, part = "passkeys" PROVE PK!RemovedNeverSignsInStep
    OBVIOUS
  <2>1. CASE accepted' = accepted
    BY <2>1 DEF PK!RemovedNeverSignsInStep
  <2>2. CASE accepted' # accepted
    BY <2>2, StepOfThePart, SignsInRegistered DEF PartsInv
  <2> QED
    BY <2>1, <2>2
<1> QED
  BY <1>1, <1>2, PartsKeepOrder, PTL DEF Spec, PasskeysHold

\* users.service.ts: the audit entries tell the table, whoever assigned
\* super_admin had held it, and the last manager goes only by an overtaken
\* change.
THEOREM AdministrationKept == Spec => AdministrationHolds
<1>1. PartsInv => (part = "users" => UA!TypeOK /\ UA!AuditTells /\ UA!CrownedByOnceSuper)
  <2>1. UsersBounds
    BY AccountsAssumption
  <2> QED
    BY <2>1, EntriesSuffice DEF PartsInv, UsersInv
<1>2. PartsInv /\ [Next]_vars => [part = "users" => UA!ManagerRemainsStep]_vars
  <2> SUFFICES ASSUME PartsInv, [Next]_vars, part = "users" PROVE UA!ManagerRemainsStep
    OBVIOUS
  <2>1. CASE account' = account
    BY <2>1 DEF UA!ManagerRemainsStep, UA!MayManage
  <2>2. CASE account' # account
    BY <2>2, StepOfThePart, ManagerStays, AccountsAssumption DEF PartsInv
  <2> QED
    BY <2>1, <2>2
<1> QED
  BY <1>1, <1>2, PartsKeepOrder, PTL DEF Spec, AdministrationHolds

=============================================================================
