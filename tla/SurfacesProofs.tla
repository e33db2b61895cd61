-------------------------- MODULE SurfacesProofs --------------------------
(***************************************************************************)
(* Theorems about Surfaces, for any callers, devices, alerts, coins, texts *)
(* and bounds.  A behaviour is about one part, so each has an invariant of *)
(* its own: those of the forms and the tables come from FormsProofs, those *)
(* of the operations watch, the market data's cache, price alerts, the     *)
(* live balance, the chart, push, what is tracked and the amount field are *)
(* here.  The last section puts them together.                             *)
(***************************************************************************)
EXTENDS FormsProofs, ArithmeticProofs

-----------------------------------------------------------------------------
(***************************************************************************)
(* The operations watch.  A depth that a refresh was told is no less than  *)
(* what waits now, unless the broker could not be asked or a letter came.  *)
(***************************************************************************)
DepthTold ==
    \A r \in OpsRefresh :
        refreshes[r].at = "outbox" /\ ~refreshes[r].stale /\ refreshes[r].depth # OW!Unknown
            => letters <= refreshes[r].depth

OpsInv == OW!TypeOK /\ DepthTold

LEMMA OpsInit ==
    ASSUME MaxLetters \in Nat, OW!Init
    PROVE  OpsInv
BY DEF OW!Init, OpsInv, OW!TypeOK, DepthTold, OW!Idle, OW!Blank, OW!Unknown, OW!Alarms

Refreshes == [at : {"idle", "depth", "outbox"}, depth : 0..OW!Unknown, stale : BOOLEAN]

LEMMA StartedRefresh ==
    ASSUME MaxLetters \in Nat
    PROVE  /\ [OW!Idle EXCEPT !.at = "depth"] \in Refreshes
           /\ [OW!Idle EXCEPT !.at = "depth"].at = "depth"
<1>1. OW!Idle \in Refreshes
  BY DEF OW!Idle, Refreshes, OW!Unknown
<1>2. ASSUME NEW x \in Refreshes
      PROVE  [x EXCEPT !.at = "depth"] \in Refreshes /\ [x EXCEPT !.at = "depth"].at = "depth"
  BY DEF Refreshes
<1> QED
  BY <1>1, <1>2

\* A refresh moves on, and what the watch watches stays.
LEMMA RefreshMoves ==
    ASSUME MaxLetters \in Nat, OpsInv, NEW r \in OpsRefresh, NEW x \in Refreshes,
           refreshes' = [refreshes EXCEPT ![r] = x],
           UNCHANGED <<connected, redisUp, dbUp, letters, outbox, card>>,
           breached' \subseteq OW!Alarms, gauge' \in 0..MaxLetters,
           x.at = "outbox" /\ ~x.stale /\ x.depth # OW!Unknown => letters <= x.depth
    PROVE  OpsInv'
<1>1. /\ refreshes' \in [OpsRefresh -> Refreshes]
      /\ refreshes'[r] = x /\ \A y \in OpsRefresh \ {r} : refreshes'[y] = refreshes[y]
  BY DEF OpsInv, OW!TypeOK, Refreshes
<1>2. OW!TypeOK'
  BY <1>1 DEF OpsInv, OW!TypeOK, Refreshes, OW!Alarms, OW!Unknown
<1>3. DepthTold'
  BY <1>1 DEF OpsInv, DepthTold, OW!Unknown
<1> QED
  BY <1>2, <1>3 DEF OpsInv

LEMMA OpsStays ==
    ASSUME MaxLetters \in Nat, OpsInv, [OW!Next]_(OW!vars)
    PROVE  OpsInv'
<1> USE DEF OpsInv, OW!TypeOK, OW!Unknown, DepthTold
<1>1. OW!depth \in 0..OW!Unknown
  BY DEF OW!depth
<1>2. CASE OW!Connection
  BY <1>2 DEF OW!Connection, OW!Watcher
<1>3. CASE OW!Redis
  BY <1>3 DEF OW!Redis, OW!Watcher
<1>4. CASE OW!Database
  BY <1>4 DEF OW!Database, OW!Watcher
<1>5. CASE OW!Drain
  BY <1>5 DEF OW!Drain, OW!Watcher
<1>6. CASE OW!Health
  BY <1>1, <1>6 DEF OW!Health, OW!Report
<1>7. CASE \E o \in {"none", "young", "old"} : OW!Outbox(o)
  BY <1>7 DEF OW!Outbox, OW!Watcher
<1>8. CASE OW!DeadLetter
  <2>1. ASSUME NEW r \in OpsRefresh
        PROVE  /\ refreshes'[r] = [refreshes[r] EXCEPT !.stale = refreshes[r].at = "outbox"]
               /\ refreshes'[r] \in Refreshes
               /\ refreshes'[r].at = "outbox" => refreshes'[r].stale
    <3>1. refreshes'[r] = [refreshes[r] EXCEPT !.stale = refreshes[r].at = "outbox"]
      BY <1>8 DEF OW!DeadLetter
    <3>2. refreshes[r] \in Refreshes
      BY DEF Refreshes
    <3>3. ASSUME NEW b \in BOOLEAN
          PROVE  /\ [refreshes[r] EXCEPT !.stale = b] \in Refreshes
                 /\ [refreshes[r] EXCEPT !.stale = b].stale = b
                 /\ [refreshes[r] EXCEPT !.stale = b].at = refreshes[r].at
      BY <3>2 DEF Refreshes
    <3>4. CASE refreshes[r].at = "outbox"
      <4>1. refreshes'[r] = [refreshes[r] EXCEPT !.stale = TRUE]
        BY <3>1, <3>4
      <4>2. refreshes'[r] \in Refreshes /\ refreshes'[r].stale = TRUE
        BY <3>3, <4>1
      <4> QED
        BY <3>1, <4>2
    <3>5. CASE refreshes[r].at # "outbox"
      <4>1. refreshes'[r] = [refreshes[r] EXCEPT !.stale = FALSE]
        BY <3>1, <3>5
      <4>2. refreshes'[r] \in Refreshes /\ refreshes'[r].at # "outbox"
        BY <3>3, <3>5, <4>1
      <4> QED
        BY <3>1, <4>2
    <3> QED
      BY <3>4, <3>5
  <2>2. refreshes' \in [OpsRefresh -> Refreshes]
    BY <1>8, <2>1 DEF OW!DeadLetter
  <2> QED
    BY <1>8, <2>1, <2>2 DEF OW!DeadLetter, Refreshes
<1>9. ASSUME NEW r \in OpsRefresh, OW!Tick(r) PROVE OpsInv'
  <2> DEFINE x == [OW!Idle EXCEPT !.at = "depth"]
  <2>1. x \in Refreshes /\ x.at = "depth"
    BY StartedRefresh
  <2>2. refreshes' = [refreshes EXCEPT ![r] = x]
    BY <1>9 DEF OW!Tick
  <2> HIDE DEF x
  <2> QED
    BY <1>9, <2>1, <2>2, RefreshMoves DEF OW!Tick
<1>10. ASSUME NEW r \in OpsRefresh, OW!AskDepth(r) PROVE OpsInv'
  <2> DEFINE x == [refreshes[r] EXCEPT !.at = "outbox", !.depth = OW!depth]
  <2>1. x \in Refreshes /\ x.depth = OW!depth
    BY <1>1 DEF Refreshes
  <2>2. OW!depth # OW!Unknown => letters <= OW!depth
    BY DEF OW!depth
  <2>3. refreshes' = [refreshes EXCEPT ![r] = x]
    BY <1>10 DEF OW!AskDepth
  <2> HIDE DEF x
  <2> QED
    BY <1>10, <2>1, <2>2, <2>3, RefreshMoves DEF OW!AskDepth
<1>11. ASSUME NEW r \in OpsRefresh, OW!EndRefresh(r) PROVE OpsInv'
  <2>1. OW!Idle \in Refreshes /\ OW!Idle.at = "idle"
    BY DEF OW!Idle, Refreshes
  <2>2. refreshes[r].depth # OW!Unknown => refreshes[r].depth \in 0..MaxLetters
    OBVIOUS
  <2>3. breached' \subseteq OW!Alarms /\ gauge' \in 0..MaxLetters
    BY <1>11, <2>2 DEF OW!EndRefresh, OW!OverLimit
  <2> QED
    BY <1>11, <2>1, <2>3, RefreshMoves DEF OW!EndRefresh
<1>12. CASE UNCHANGED OW!vars
  BY <1>12 DEF OW!vars
<1> QED
  BY <1>2, <1>3, <1>4, <1>5, <1>6, <1>7, <1>8, <1>9, <1>10, <1>11, <1>12 DEF OW!Next

\* Only the end of a refresh takes it from the outbox to idle.
LEMMA RefreshEnds ==
    ASSUME OpsInv, [OW!Next]_(OW!vars), NEW r \in OpsRefresh,
           refreshes[r].at = "outbox", refreshes'[r].at = "idle"
    PROVE  OW!EndRefresh(r)
<1> USE DEF OpsInv, OW!TypeOK
<1>1. CASE OW!Connection \/ OW!Redis \/ OW!Database \/ OW!Drain \/ OW!Health
             \/ (\E o \in {"none", "young", "old"} : OW!Outbox(o)) \/ UNCHANGED OW!vars
  BY <1>1 DEF OW!Connection, OW!Redis, OW!Database, OW!Drain, OW!Health, OW!Outbox,
              OW!Watcher, OW!vars
<1>2. CASE OW!DeadLetter
  BY <1>2 DEF OW!DeadLetter
<1>3. ASSUME NEW s \in OpsRefresh, OW!Tick(s) \/ OW!AskDepth(s) PROVE FALSE
  BY <1>3 DEF OW!Tick, OW!AskDepth, OW!Idle
<1>4. ASSUME NEW s \in OpsRefresh, OW!EndRefresh(s), s # r PROVE FALSE
  BY <1>4 DEF OW!EndRefresh
<1> QED
  BY <1>1, <1>2, <1>3, <1>4 DEF OW!Next

LEMMA RecoversForCause ==
    ASSUME MaxLetters \in Nat, OpsInv, [OW!Next]_(OW!vars)
    PROVE  OW!RecoveredForCauseStep
<1> SUFFICES ASSUME NEW r \in OpsRefresh,
                    "dead-letters" \in breached, "dead-letters" \notin breached',
                    refreshes[r].at = "outbox", refreshes'[r].at = "idle", letters > 0,
                    refreshes[r].depth # OW!Unknown, ~refreshes[r].stale
             PROVE  FALSE
  BY DEF OW!RecoveredForCauseStep
<1>1. OW!EndRefresh(r)
  BY RefreshEnds
<1>2. breached' = OW!OverLimit(refreshes[r].depth, outbox)
  BY <1>1 DEF OW!EndRefresh
<1>3. refreshes[r].depth > 0
  BY DEF OpsInv, DepthTold, OW!TypeOK, OW!Unknown
<1> QED
  BY <1>2, <1>3 DEF OW!OverLimit, OW!Alarms

-----------------------------------------------------------------------------
(***************************************************************************)
(* The chart.  Unless two picks raced, the only fetch under way is the     *)
(* newest, it is for the button pressed, and it remembers the range drawn. *)
(***************************************************************************)
Picks == 1..MaxPicks

BodiesPriced == \A n \in Picks : fetch[n].at = "body" => fetch[n].close \in Price

OnePick ==
    ~raced =>
        /\ \A n \in Picks : fetch[n] # AC!NoFetch =>
              n = requestId /\ fetch[n].next = range /\ fetch[n].previous = canvas
        /\ ~busy => range = canvas

ChartInv == AC!TypeOK /\ BodiesPriced /\ OnePick /\ AC!OneNumber

LEMMA ChartInit ==
    ASSUME ChartBounds, AC!Init
    PROVE  ChartInv
<1>1. /\ fetch = [n \in Picks |-> AC!NoFetch] /\ requestId = 0 /\ ~busy
      /\ busy \in BOOLEAN /\ raced \in BOOLEAN /\ switched \in BOOLEAN
  BY DEF AC!Init, Picks
<1>2. \A n \in Picks : fetch[n] = AC!NoFetch /\ fetch[n].at = "none"
  BY <1>1 DEF AC!NoFetch
<1>3. AC!TypeOK
  BY <1>1, <1>2 DEF AC!Init, AC!TypeOK, ChartBounds, Picks
<1>4. BodiesPriced
  BY <1>2 DEF BodiesPriced
<1> QED
  BY <1>1, <1>2, <1>3, <1>4 DEF AC!Init, ChartInv, OnePick, AC!OneNumber

\* What a fetch under way is.
LEMMA FetchFacts ==
    ASSUME ChartInv, NEW n \in Picks
    PROVE  /\ fetch[n] \in AC!Fetches \cup {AC!NoFetch}
           /\ fetch[n] = AC!NoFetch <=> fetch[n].at = "none"
           /\ fetch[n] # AC!NoFetch <=> fetch[n] \in AC!Fetches
           /\ fetch[n] # AC!NoFetch =>
                 /\ fetch[n].at \in {"asked", "body"}
                 /\ fetch[n].next \in Ranges /\ fetch[n].previous \in Ranges
           /\ fetch[n].at = "body" => fetch[n].close \in Price
BY DEF ChartInv, AC!TypeOK, BodiesPriced, Picks, AC!Fetches, AC!NoFetch

\* One fetch moves on or ends.
LEMMA FetchMoves ==
    ASSUME ChartBounds, ChartInv, NEW n \in Picks, fetch[n] # AC!NoFetch,
           NEW x \in AC!Fetches \cup {AC!NoFetch},
           fetch' = [fetch EXCEPT ![n] = x],
           x = AC!NoFetch \/ (n = requestId /\ x.at = "body" /\ x.close \in Price /\ busy'
                               /\ x.next = fetch[n].next /\ x.previous = fetch[n].previous),
           UNCHANGED <<requestId, raced>>,
           x = AC!NoFetch => busy' = (busy /\ n # requestId),
           x # AC!NoFetch => UNCHANGED <<range, canvas>>,
           range' \in Ranges, canvas' \in Ranges, busy' \in BOOLEAN,
           n = requestId /\ ~busy' /\ ~raced => range' = canvas',
           price' \in Price, edge' \in Price, market' \in Price,
           switched' \in BOOLEAN, ticks' \in 0..MaxTicks,
           ~switched' => edge' = price'
    PROVE  ChartInv'
<1>1. /\ fetch' \in [Picks -> AC!Fetches \cup {AC!NoFetch}]
      /\ fetch'[n] = x /\ \A m \in Picks \ {n} : fetch'[m] = fetch[m]
  BY DEF ChartInv, AC!TypeOK, Picks
<1>2. x = AC!NoFetch => x.at = "none"
  BY DEF AC!NoFetch
<1>3. busy' <=> \E m \in Picks : m = requestId' /\ fetch'[m] # AC!NoFetch
  <2>1. busy <=> \E m \in Picks : m = requestId /\ fetch[m] # AC!NoFetch
    BY DEF ChartInv, AC!TypeOK, Picks
  <2>2. CASE n = requestId
    BY <1>1, <1>2, <2>1, <2>2
  <2>3. CASE n # requestId
    BY <1>1, <2>1, <2>3
  <2> QED
    BY <2>2, <2>3
<1>4. AC!TypeOK'
  BY <1>1, <1>3 DEF ChartInv, AC!TypeOK, Picks
<1>5. BodiesPriced'
  BY <1>1, <1>2 DEF ChartInv, BodiesPriced
<1>6. ASSUME ~raced PROVE n = requestId /\ \A m \in Picks \ {n} : fetch[m] = AC!NoFetch
  BY <1>6 DEF ChartInv, OnePick
<1>7. OnePick'
  BY <1>1, <1>3, <1>6 DEF ChartInv, OnePick
<1> QED
  BY <1>4, <1>5, <1>7 DEF ChartInv, AC!OneNumber

LEMMA ChartStays ==
    ASSUME ChartBounds, ChartInv, [AC!Next]_(AC!vars)
    PROVE  ChartInv'
<1>1. AC!TypeOK /\ AC!OneNumber
  BY DEF ChartInv
<1>2. ASSUME NEW r \in Ranges, AC!Select(r) PROVE ChartInv'
  <2> DEFINE n == requestId + 1
             x == [at |-> "asked", next |-> r, previous |-> range, close |-> 0]
  <2>1. n \in Picks /\ x \in AC!Fetches /\ x.at = "asked" /\ x # AC!NoFetch
        /\ x.next = r /\ x.previous = range
    BY <1>1, <1>2 DEF AC!Select, AC!TypeOK, AC!Fetches, Picks, ChartBounds, AC!NoFetch
  <2>2. /\ fetch' = [fetch EXCEPT ![n] = x] /\ requestId' = n /\ range' = r /\ busy' = TRUE
        /\ raced' = (raced \/ busy \/ \E m \in Picks : fetch[m] # AC!NoFetch)
        /\ UNCHANGED <<canvas, price, edge, market, switched, ticks>>
    BY <1>2 DEF AC!Select, Picks
  <2> HIDE DEF n, x
  <2>3. /\ fetch' \in [Picks -> AC!Fetches \cup {AC!NoFetch}]
        /\ fetch'[n] = x /\ \A m \in Picks \ {n} : fetch'[m] = fetch[m]
    BY <1>1, <2>1, <2>2 DEF AC!TypeOK, Picks
  <2>4. busy' <=> \E m \in Picks : m = requestId' /\ fetch'[m] # AC!NoFetch
    BY <2>1, <2>2, <2>3
  <2>5. raced' \in BOOLEAN
    BY <2>2
  <2>6. AC!TypeOK'
    BY <1>1, <2>1, <2>2, <2>3, <2>4, <2>5 DEF AC!TypeOK, Picks
  <2>7. BodiesPriced'
    BY <2>1, <2>3 DEF ChartInv, BodiesPriced
  <2>8. OnePick'
    <3> SUFFICES ASSUME ~raced' PROVE OnePick'
      BY DEF OnePick
    <3>1. range = canvas /\ \A m \in Picks : fetch[m] = AC!NoFetch
      BY <2>2 DEF ChartInv, OnePick
    <3> QED
      BY <2>1, <2>2, <2>3, <3>1 DEF OnePick
  <2> QED
    BY <1>1, <2>2, <2>6, <2>7, <2>8 DEF ChartInv, AC!OneNumber
<1>3. ASSUME NEW n \in Picks, AC!HeadArrives(n) PROVE ChartInv'
  <2>1. fetch[n] \in AC!Fetches /\ fetch[n] # AC!NoFetch
    BY <1>3, FetchFacts DEF AC!HeadArrives
  <2>2. busy => requestId \in Picks
    BY <1>1 DEF AC!TypeOK, Picks
  <2>3. CASE n # requestId
    BY <1>1, <1>3, <2>1, <2>3, FetchMoves DEF AC!HeadArrives, AC!TypeOK, AC!OneNumber
  <2>4. CASE n = requestId
    <3> DEFINE x == [fetch[n] EXCEPT !.at = "body", !.close = market]
    <3>1. /\ x \in AC!Fetches /\ x.at = "body" /\ x.close \in Price
          /\ x.next = fetch[n].next /\ x.previous = fetch[n].previous
      BY <1>1, <2>1 DEF AC!Fetches, AC!TypeOK
    <3>2. x # AC!NoFetch
      BY <3>1 DEF AC!NoFetch
    <3>3. fetch' = [fetch EXCEPT ![n] = x]
      BY <1>3, <2>4 DEF AC!HeadArrives
    <3>4. busy
      BY <1>1, <2>1, <2>4 DEF AC!TypeOK, Picks
    <3> HIDE DEF x
    <3> QED
      BY <1>1, <1>3, <2>1, <2>4, <3>1, <3>2, <3>3, <3>4, FetchMoves
         DEF AC!HeadArrives, AC!TypeOK, AC!OneNumber
  <2> QED
    BY <2>3, <2>4
<1>4. ASSUME NEW n \in Picks, AC!FetchFails(n) PROVE ChartInv'
  <2>1. fetch[n] # AC!NoFetch /\ fetch' = [fetch EXCEPT ![n] = AC!NoFetch]
        /\ fetch[n].previous \in Ranges
    BY <1>4, FetchFacts DEF AC!FetchFails
  <2>2. ~raced => n = requestId /\ fetch[n].previous = canvas
    BY <2>1 DEF ChartInv, OnePick
  <2> QED
    BY <1>1, <1>4, <2>1, <2>2, FetchMoves DEF AC!FetchFails, AC!TypeOK, AC!OneNumber
<1>5. ASSUME NEW n \in Picks, AC!BodyArrives(n) PROVE ChartInv'
  <2>1. fetch[n] # AC!NoFetch /\ fetch' = [fetch EXCEPT ![n] = AC!NoFetch]
        /\ fetch[n].next \in Ranges /\ fetch[n].close \in Price
    BY <1>5, FetchFacts DEF AC!BodyArrives
  <2>2. ~raced => n = requestId /\ fetch[n].next = range
    BY <2>1 DEF ChartInv, OnePick
  <2> QED
    BY <1>1, <1>5, <2>1, <2>2, FetchMoves DEF AC!BodyArrives, AC!TypeOK, AC!OneNumber
<1>6. ASSUME NEW p \in Price, AC!MarketMoves(p) PROVE ChartInv'
  BY <1>6 DEF AC!MarketMoves, ChartInv, AC!TypeOK, BodiesPriced, OnePick, AC!OneNumber, ChartBounds
<1>7. CASE AC!PriceEvent
  BY <1>7 DEF AC!PriceEvent, ChartInv, AC!TypeOK, BodiesPriced, OnePick, AC!OneNumber
<1>8. CASE AC!Leave \/ UNCHANGED AC!vars
  <2>1. UNCHANGED <<range, canvas, busy, requestId, fetch, price, edge, market, raced,
                    switched, ticks>>
    BY <1>8 DEF AC!Leave, AC!vars
  <2>2. AC!TypeOK'
    BY <1>1, <2>1 DEF AC!TypeOK
  <2> QED
    BY <2>1, <2>2 DEF ChartInv, BodiesPriced, OnePick, AC!OneNumber
<1> QED
  BY <1>2, <1>3, <1>4, <1>5, <1>6, <1>7, <1>8 DEF AC!Next, Picks

-----------------------------------------------------------------------------
(***************************************************************************)
(* The live balance.  Unless an announcement was missed or overtaken, the  *)
(* page shows the newest balance or its announcement is still to come.     *)
(***************************************************************************)
NewestToCome == ~missed /\ ~overtaken => shown = balance \/ balance \in unsaid

BalanceInv == LB!TypeOK /\ LB!NoLeakedSocket /\ NewestToCome

BalanceBounds == MaxVisits \in Nat /\ MaxCommits \in Nat

LEMMA BalanceInit ==
    ASSUME BalanceBounds, LB!Init
    PROVE  BalanceInv
<1>1. /\ effect = [m \in 1..MaxVisits |-> "none"] /\ mount = 0 /\ here = FALSE
      /\ balance = 0 /\ unsaid = {} /\ shown = 0 /\ missed = FALSE /\ overtaken = FALSE
  BY DEF LB!Init, LB!Mounts
<1>2. LB!TypeOK
  <2>1. effect \in [LB!Mounts -> LB!Stages]
    BY <1>1 DEF LB!Mounts, LB!Stages
  <2>2. /\ mount \in 0..MaxVisits /\ balance \in 0..MaxCommits /\ shown \in 0..MaxCommits
        /\ unsaid \subseteq 1..balance /\ shown <= balance
    BY <1>1 DEF BalanceBounds
  <2>3. here \in BOOLEAN /\ missed \in BOOLEAN /\ overtaken \in BOOLEAN
    BY <1>1
  <2> QED
    BY <2>1, <2>2, <2>3 DEF LB!TypeOK
<1>3. LB!NoLeakedSocket
  BY <1>1 DEF LB!NoLeakedSocket, LB!Mounts, LB!Live
<1> QED
  BY <1>1, <1>2, <1>3 DEF BalanceInv, NewestToCome

\* An effect goes to its next stage: a live one is that of the component on
\* screen.
LEMMA EffectMoves ==
    ASSUME BalanceInv, NEW m \in LB!Mounts, NEW stage \in LB!Stages,
           LB!To(m, stage), stage \in LB!Live => m = mount /\ here,
           UNCHANGED <<mount, here, balance, unsaid, shown, missed, overtaken>>
    PROVE  BalanceInv'
<1>1. /\ effect' \in [LB!Mounts -> LB!Stages] /\ effect'[m] = stage
      /\ \A x \in LB!Mounts \ {m} : effect'[x] = effect[x]
  BY DEF BalanceInv, LB!TypeOK, LB!To
<1>2. LB!TypeOK'
  BY <1>1 DEF BalanceInv, LB!TypeOK
<1>3. LB!NoLeakedSocket'
  BY <1>1 DEF BalanceInv, LB!NoLeakedSocket
<1> QED
  BY <1>2, <1>3 DEF BalanceInv, NewestToCome

\* An announcement, also one that nobody hears.
LEMMA AnnouncementKeeps ==
    ASSUME BalanceBounds, BalanceInv, NEW b \in 1..MaxCommits, LB!EmitBalance(b)
    PROVE  BalanceInv'
<1>1. /\ b \in unsaid /\ unsaid' = unsaid \ {b} /\ b \in 1..balance
      /\ UNCHANGED <<mount, here, effect, balance>>
  BY DEF LB!EmitBalance, BalanceInv, LB!TypeOK
<1>2. balance \in 0..MaxCommits /\ shown \in 0..MaxCommits /\ shown <= balance
      /\ missed \in BOOLEAN /\ overtaken \in BOOLEAN
  BY DEF BalanceInv, LB!TypeOK
<1>3. NewestToCome
  BY DEF BalanceInv
<1>4. CASE here /\ effect[mount] = "joined"
  <2>1. /\ shown' = b /\ overtaken' = (b < balance /\ (b < shown \/ overtaken))
        /\ missed' = (missed /\ b < balance)
    BY <1>4 DEF LB!EmitBalance, LB!Announce
  <2>2. NewestToCome'
    <3> SUFFICES ASSUME ~missed', ~overtaken', b # balance PROVE balance \in unsaid
      BY <1>1, <2>1 DEF NewestToCome
    <3>1. ~(b < balance /\ (b < shown \/ overtaken)) /\ ~(missed /\ b < balance)
      BY <2>1, Zenon
    <3>2. b < balance
      BY <1>1, <1>2
    <3>3. ~(b < shown) /\ ~overtaken /\ ~missed
      BY <3>1, <3>2, Zenon
    <3>4. shown # balance
      BY <1>1, <1>2, <3>2, <3>3
    <3> QED
      BY <1>3, <3>3, <3>4, Zenon DEF NewestToCome
  <2>3. shown' \in 0..MaxCommits /\ shown' <= balance'
    BY <1>1, <1>2, <2>1 DEF BalanceBounds
  <2> QED
    BY <1>1, <1>2, <2>1, <2>2, <2>3 DEF BalanceInv, LB!TypeOK, LB!NoLeakedSocket
<1>5. CASE ~(here /\ effect[mount] = "joined")
  <2>1. /\ UNCHANGED <<shown, overtaken>> /\ missed' = (missed \/ b > shown)
    BY <1>5 DEF LB!EmitBalance, LB!Announce
  <2>2. NewestToCome'
    <3> SUFFICES ASSUME ~missed', ~overtaken', shown # balance
                 PROVE  balance \in unsaid /\ b # balance
      BY <1>1, <2>1 DEF NewestToCome
    <3>1. ~(b > shown) /\ ~missed /\ ~overtaken
      BY <2>1, Zenon
    <3>2. b # balance
      BY <1>1, <1>2, <3>1
    <3> QED
      BY <1>3, <3>1, <3>2, Zenon DEF NewestToCome
  <2> QED
    BY <1>1, <1>2, <2>1, <2>2 DEF BalanceInv, LB!TypeOK, LB!NoLeakedSocket
<1> QED
  BY <1>4, <1>5

LEMMA BalanceStays ==
    ASSUME BalanceBounds, BalanceInv, [LB!Next]_(LB!vars)
    PROVE  BalanceInv'
<1>1. LB!TypeOK /\ LB!NoLeakedSocket /\ NewestToCome
  BY DEF BalanceInv
<1>2. CASE LB!Open
  <2>1. /\ ~here /\ mount + 1 \in LB!Mounts /\ mount' = mount + 1 /\ here' = TRUE
        /\ effect' = [effect EXCEPT ![mount + 1] = "ticket"]
        /\ shown' = balance /\ missed' = FALSE /\ overtaken' = FALSE
        /\ UNCHANGED <<balance, unsaid>>
    BY <1>1, <1>2 DEF LB!Open, LB!To, LB!TypeOK, LB!Mounts, BalanceBounds
  <2>2. /\ effect' \in [LB!Mounts -> LB!Stages]
        /\ \A m \in LB!Mounts : effect'[m] \in LB!Live => effect[m] \in LB!Live
    BY <1>1, <2>1 DEF LB!TypeOK, LB!Stages, LB!Live
  <2>3. LB!NoLeakedSocket'
    BY <1>1, <2>1, <2>2 DEF LB!NoLeakedSocket
  <2>4. LB!TypeOK'
    <3>1. here' \in BOOLEAN /\ missed' \in BOOLEAN /\ overtaken' \in BOOLEAN
      BY <2>1
    <3> QED
      BY <1>1, <2>1, <2>2, <3>1 DEF LB!TypeOK, LB!Mounts
  <2> QED
    BY <2>1, <2>3, <2>4 DEF BalanceInv, NewestToCome
<1>3. CASE LB!Close
  <2>1. /\ effect' \in [LB!Mounts -> LB!Stages] /\ here' = FALSE
        /\ \A m \in LB!Mounts : effect'[m] \notin LB!Live
        /\ UNCHANGED <<mount, balance, unsaid, shown, missed, overtaken>>
    BY <1>1, <1>3 DEF LB!Close, LB!TypeOK, LB!Stages, LB!Live, LB!NoLeakedSocket
  <2>2. LB!NoLeakedSocket'
    BY <2>1 DEF LB!NoLeakedSocket
  <2>3. LB!TypeOK'
    BY <1>1, <2>1 DEF LB!TypeOK
  <2> QED
    BY <1>1, <2>1, <2>2, <2>3 DEF BalanceInv, NewestToCome
<1>4. CASE LB!Commit
  BY <1>1, <1>4 DEF LB!Commit, BalanceInv, LB!TypeOK, LB!NoLeakedSocket, NewestToCome, BalanceBounds
<1>5. ASSUME NEW m \in LB!Mounts, NEW ok \in BOOLEAN, LB!TicketAnswers(m, ok) PROVE BalanceInv'
  <2> DEFINE stage == IF ok /\ ~LB!Cancelled(m) THEN "body" ELSE "over"
  <2>1. stage \in LB!Stages \ LB!Live
    BY DEF LB!Stages, LB!Live
  <2> HIDE DEF stage
  <2> QED
    BY <1>5, <2>1, EffectMoves DEF LB!TicketAnswers, stage
<1>6. ASSUME NEW m \in LB!Mounts, LB!Connect(m) PROVE BalanceInv'
  <2>1. CASE LB!Cancelled(m)
    <3>1. "over" \in LB!Stages \ LB!Live
      BY DEF LB!Stages, LB!Live
    <3> QED
      BY <1>6, <2>1, <3>1, EffectMoves DEF LB!Connect
  <2>2. CASE ~LB!Cancelled(m)
    <3>1. "connecting" \in LB!Stages /\ m = mount /\ here
      BY <2>2 DEF LB!Stages, LB!Live, LB!Cancelled
    <3> QED
      BY <1>6, <2>2, <3>1, EffectMoves DEF LB!Connect
  <2> QED
    BY <2>1, <2>2
<1>7. ASSUME NEW m \in LB!Mounts, NEW ok \in BOOLEAN, LB!HandleConnection(m, ok) PROVE BalanceInv'
  <2>1. {"over", "joined"} \subseteq LB!Stages /\ m = mount /\ here
    BY <1>1, <1>7 DEF LB!Stages, LB!Live, LB!HandleConnection, LB!NoLeakedSocket
  <2> QED
    BY <1>7, <2>1, EffectMoves DEF LB!HandleConnection
<1>8. ASSUME NEW m \in LB!Mounts, LB!Drop(m) \/ LB!Reconnect(m) PROVE BalanceInv'
  <2>1. {"dropped", "connecting"} \subseteq LB!Stages /\ m = mount /\ here
    BY <1>1, <1>8 DEF LB!Stages, LB!Live, LB!Drop, LB!Reconnect, LB!NoLeakedSocket
  <2> QED
    BY <1>8, <2>1, EffectMoves DEF LB!Drop, LB!Reconnect
<1>9. CASE UNCHANGED LB!vars
  <2>1. UNCHANGED <<mount, here, effect, balance, unsaid, shown, missed, overtaken>>
    BY <1>9 DEF LB!vars
  <2> QED
    BY <1>1, <2>1 DEF BalanceInv, LB!TypeOK, LB!NoLeakedSocket, NewestToCome
<1> QED
  BY <1>2, <1>3, <1>4, <1>5, <1>6, <1>7, <1>8, <1>9, AnnouncementKeeps DEF LB!Next

-----------------------------------------------------------------------------
(***************************************************************************)
(* Price alerts.  Once an alert is told, every tick that still holds it    *)
(* held it at the first notice, and each notice uses one of them up.       *)
(***************************************************************************)
Runs == [at : {"idle", "counting", "listing", "finding", "committing"}, watched : BOOLEAN,
         pending : BOOLEAN, assets : Price \cup {PA!None}, fired : SUBSET Alert]

Holding(a) == {t \in TimerRun : a \in ticks[t].fired}

\* What the row of an alert says of its form, its ticks and its notices.
RowTells(a) ==
    /\ rows[a] \in {"new", "pending"} => notices[a] = 0
    /\ rows[a] = "new" => Holding(a) = {}
    /\ rows[a] = "triggered" => notices[a] > 0
    /\ form[a] = "adding" => rows[a] = "new"
    /\ form[a] = "removing" => rows[a] # "new"

HoldersCounted(a) ==
    notices[a] = 0 \/ notices[a] + Cardinality(Holding(a)) <= 1 + Cardinality(late[a])

AlertTypes ==
    /\ price \in Price /\ moves \in 0..MaxMoves
    /\ cached \in Price \cup {PA!None} /\ shown \in Price \cup {PA!None}
    /\ rows \in [Alert -> {"new", "pending", "triggered", "gone"}]
    /\ form \in [Alert -> {"idle", "adding", "removing"}]
    /\ watching \in BOOLEAN
    /\ ticks \in [TimerRun -> Runs]
    /\ notices \in [Alert -> Nat]
    /\ late \in [Alert -> SUBSET TimerRun]

AlertsInv == AlertTypes /\ \A a \in Alert : RowTells(a) /\ HoldersCounted(a)

AlertBounds == MaxMoves \in Nat /\ IsFiniteSet(TimerRun)

\* PriceAlerts counts with the Cardinality it extends, which is this one.
LEMMA OneCardinality ==
    ASSUME NEW S
    PROVE  PA!Cardinality(S) = Cardinality(S)
BY DEF PA!Cardinality, Cardinality

LEMMA FiniteRuns ==
    ASSUME AlertBounds, NEW T \in SUBSET TimerRun
    PROVE  IsFiniteSet(T) /\ Cardinality(T) \in Nat /\ Cardinality(T) <= Cardinality(TimerRun)
           /\ Cardinality(TimerRun) \in Nat
BY FS_Subset, FS_CardinalityType DEF AlertBounds

\* A set of ticks within another is no larger.
LEMMA FewerRuns ==
    ASSUME AlertBounds, NEW T \in SUBSET TimerRun, NEW U \in SUBSET T
    PROVE  Cardinality(U) <= Cardinality(T) /\ Cardinality(U) \in Nat /\ Cardinality(T) \in Nat
<1>1. IsFiniteSet(T)
  BY FiniteRuns
<1> QED
  BY <1>1, FS_Subset, FS_CardinalityType

LEMMA AlertsSuffice ==
    ASSUME AlertBounds, AlertsInv
    PROVE  PA!TypeOK /\ PA!OneShot /\ PA!TriggeredTold
<1>1. ASSUME NEW a \in Alert
      PROVE  /\ notices[a] <= 1 + Cardinality(late[a]) /\ notices[a] \in 0..PA!MaxNotices
             /\ rows[a] = "triggered" => notices[a] > 0
  <2>1. /\ notices[a] \in Nat /\ late[a] \in SUBSET TimerRun /\ Holding(a) \in SUBSET TimerRun
        /\ HoldersCounted(a) /\ RowTells(a)
    BY DEF AlertsInv, AlertTypes, Holding
  <2>2. /\ Cardinality(late[a]) \in Nat /\ Cardinality(late[a]) <= Cardinality(TimerRun)
        /\ Cardinality(Holding(a)) \in Nat /\ Cardinality(TimerRun) \in Nat
    BY <2>1, FiniteRuns
  <2>3. notices[a] <= 1 + Cardinality(late[a])
    BY <2>1, <2>2 DEF HoldersCounted
  <2>4. notices[a] \in 0..PA!MaxNotices
    BY <2>1, <2>2, <2>3, OneCardinality DEF PA!MaxNotices
  <2> QED
    BY <2>1, <2>3, <2>4 DEF RowTells
<1>2. notices \in [Alert -> 0..PA!MaxNotices]
  BY <1>1 DEF AlertsInv, AlertTypes
<1>3. PA!TypeOK
  BY <1>2 DEF AlertsInv, AlertTypes, PA!TypeOK, Runs
<1>4. PA!OneShot
  BY <1>1, OneCardinality DEF PA!OneShot
<1>5. PA!TriggeredTold
  BY <1>1 DEF PA!TriggeredTold
<1> QED
  BY <1>3, <1>4, <1>5

LEMMA IdleRun ==
    /\ PA!Idle \in Runs /\ PA!Idle.at = "idle" /\ PA!Idle.fired = {}
    /\ \A b \in BOOLEAN :
          LET x == [PA!Idle EXCEPT !.at = "counting", !.watched = b] IN x \in Runs /\ x.fired = {}
<1>1. PA!Idle \in Runs /\ PA!Idle.at = "idle" /\ PA!Idle.fired = {}
  BY DEF PA!Idle, Runs
<1>2. ASSUME NEW b \in BOOLEAN, NEW i \in Runs
      PROVE  LET x == [i EXCEPT !.at = "counting", !.watched = b] IN x \in Runs /\ x.fired = i.fired
  BY DEF Runs
<1> QED
  BY <1>1, <1>2

LEMMA AlertsInit ==
    ASSUME AlertBounds, PA!Init
    PROVE  AlertsInv
<1>1. /\ price \in Price /\ moves = 0 /\ cached = PA!None /\ watching = FALSE /\ shown = PA!None
      /\ rows = [a \in Alert |-> "new"] /\ form = [a \in Alert |-> "idle"]
      /\ ticks = [t \in TimerRun |-> PA!Idle]
      /\ notices = [a \in Alert |-> 0] /\ late = [a \in Alert |-> {}]
  BY DEF PA!Init
<1>2. watching \in BOOLEAN /\ ticks \in [TimerRun -> Runs] /\ moves \in 0..MaxMoves
  <2>1. watching \in BOOLEAN
    BY <1>1
  <2>2. ticks \in [TimerRun -> Runs]
    BY <1>1, IdleRun
  <2> QED
    BY <1>1, <2>1, <2>2 DEF AlertBounds
<1>3. AlertTypes
  BY <1>1, <1>2 DEF AlertTypes
<1>4. ASSUME NEW a \in Alert PROVE RowTells(a) /\ HoldersCounted(a)
  BY <1>1, IdleRun DEF RowTells, HoldersCounted, Holding
<1> QED
  BY <1>3, <1>4 DEF AlertsInv

\* One alert's row and form change, and nothing that was told.
LEMMA RowMoves ==
    ASSUME AlertBounds, AlertsInv, NEW a \in Alert, NEW row, NEW f,
           rows' = [rows EXCEPT ![a] = row], form' = [form EXCEPT ![a] = f],
           row \in {"new", "pending", "triggered", "gone"}, f \in {"idle", "adding", "removing"},
           row \in {"new", "pending"} => notices[a] = 0,
           row = "new" => rows[a] = "new",
           row = "triggered" => rows[a] = "triggered",
           f = "adding" => row = "new", f = "removing" => row # "new",
           UNCHANGED <<price, moves, cached, watching, shown, ticks, notices, late>>
    PROVE  AlertsInv'
<1>1. /\ rows' \in [Alert -> {"new", "pending", "triggered", "gone"}] /\ rows'[a] = row
      /\ form' \in [Alert -> {"idle", "adding", "removing"}] /\ form'[a] = f
      /\ \A b \in Alert \ {a} : rows'[b] = rows[b] /\ form'[b] = form[b]
  BY DEF AlertsInv, AlertTypes
<1>2. AlertTypes'
  BY <1>1 DEF AlertsInv, AlertTypes
<1>3. ASSUME NEW b \in Alert PROVE RowTells(b)' /\ HoldersCounted(b)'
  <2>1. RowTells(b) /\ HoldersCounted(b) /\ Holding(b)' = Holding(b)
    BY DEF AlertsInv, Holding
  <2>2. HoldersCounted(b)'
    BY <2>1 DEF HoldersCounted
  <2>3. CASE b = a
    BY <1>1, <2>1, <2>2, <2>3 DEF RowTells
  <2>4. CASE b # a
    BY <1>1, <2>1, <2>2, <2>4 DEF RowTells
  <2> QED
    BY <2>3, <2>4
<1> QED
  BY <1>2, <1>3 DEF AlertsInv

\* Ticks move on, and hold an alert they did not hold only while it is pending.
LEMMA RunsMove ==
    ASSUME AlertBounds, AlertsInv, ticks' \in [TimerRun -> Runs],
           \A t \in TimerRun : \A a \in ticks'[t].fired :
               a \in ticks[t].fired \/ rows[a] = "pending",
           price' \in Price, moves' \in 0..MaxMoves, cached' \in Price \cup {PA!None},
           shown' \in Price \cup {PA!None}, watching' \in BOOLEAN,
           UNCHANGED <<rows, form, notices, late>>
    PROVE  AlertsInv'
<1>1. AlertTypes'
  BY DEF AlertsInv, AlertTypes
<1>2. ASSUME NEW a \in Alert PROVE RowTells(a)' /\ HoldersCounted(a)'
  <2>1. /\ RowTells(a) /\ HoldersCounted(a) /\ notices[a] \in Nat /\ late[a] \in SUBSET TimerRun
        /\ Holding(a) \in SUBSET TimerRun /\ Holding(a)' \in SUBSET TimerRun
    BY DEF AlertsInv, AlertTypes, Holding
  <2>2. CASE rows[a] = "pending"
    BY <2>1, <2>2 DEF RowTells, HoldersCounted
  <2>3. CASE rows[a] # "pending"
    <3>1. Holding(a)' \subseteq Holding(a)
      BY <2>3 DEF Holding
    <3>2. /\ Cardinality(Holding(a)') <= Cardinality(Holding(a))
          /\ Cardinality(Holding(a)') \in Nat /\ Cardinality(Holding(a)) \in Nat
          /\ Cardinality(late[a]) \in Nat
      BY <2>1, <3>1, FewerRuns, FiniteRuns
    <3>3. HoldersCounted(a)'
      BY <2>1, <3>2 DEF HoldersCounted
    <3>4. RowTells(a)'
      BY <2>1, <3>1 DEF RowTells
    <3> QED
      BY <3>3, <3>4
  <2> QED
    BY <2>2, <2>3
<1> QED
  BY <1>1, <1>2 DEF AlertsInv

\* One tick moves on to x.
LEMMA RunMoves ==
    ASSUME AlertBounds, AlertsInv, NEW t \in TimerRun, NEW x \in Runs, PA!Step(t, x),
           \A a \in x.fired : a \in ticks[t].fired \/ rows[a] = "pending",
           price' \in Price, moves' \in 0..MaxMoves, cached' \in Price \cup {PA!None},
           shown' \in Price \cup {PA!None}, watching' \in BOOLEAN,
           UNCHANGED <<rows, form, notices, late>>
    PROVE  AlertsInv'
<1>1. /\ ticks' \in [TimerRun -> Runs] /\ ticks'[t] = x
      /\ \A u \in TimerRun \ {t} : ticks'[u] = ticks[u]
  BY DEF AlertsInv, AlertTypes, PA!Step
<1>2. \A u \in TimerRun : \A a \in ticks'[u].fired : a \in ticks[u].fired \/ rows[a] = "pending"
  BY <1>1
<1> QED
  BY <1>1, <1>2, RunsMove

\* Mark and tell: a tick lets go of the alerts it held.
LEMMA CommitKeeps ==
    ASSUME AlertBounds, AlertsInv, NEW t \in TimerRun, PA!Commit(t)
    PROVE  AlertsInv'
<1> DEFINE fired == ticks[t].fired
<1>1. /\ fired \in SUBSET Alert
      /\ rows' = [a \in Alert |-> IF a \in fired /\ rows[a] # "gone" THEN "triggered" ELSE rows[a]]
      /\ notices' = [a \in Alert |-> IF a \in fired THEN notices[a] + 1 ELSE notices[a]]
      /\ late' = [a \in Alert |-> IF a \in fired /\ notices[a] = 0
                                  THEN {u \in TimerRun \ {t} : a \in ticks[u].fired} ELSE late[a]]
      /\ ticks' = [ticks EXCEPT ![t] = PA!Idle]
      /\ UNCHANGED <<price, moves, cached, form, watching, shown>>
  BY DEF PA!Commit, PA!Fire, PA!Marked, PA!Step, PA!Market, PA!Client, AlertsInv, AlertTypes, Runs
<1>2. /\ ticks' \in [TimerRun -> Runs] /\ ticks'[t].fired = {}
      /\ \A u \in TimerRun \ {t} : ticks'[u] = ticks[u]
  BY <1>1, IdleRun DEF AlertsInv, AlertTypes
<1> HIDE DEF fired
<1>3. AlertTypes'
  BY <1>1, <1>2 DEF AlertsInv, AlertTypes
<1>4. ASSUME NEW a \in Alert PROVE RowTells(a)' /\ HoldersCounted(a)'
  <2>1. /\ RowTells(a) /\ HoldersCounted(a) /\ notices[a] \in Nat /\ late[a] \in SUBSET TimerRun
        /\ Holding(a) \in SUBSET TimerRun
        /\ rows[a] \in {"new", "pending", "triggered", "gone"}
    BY DEF AlertsInv, AlertTypes, Holding
  <2>2. Holding(a)' = Holding(a) \ {t}
    BY <1>2 DEF Holding
  <2>3. CASE a \notin fired
    <3>1. Holding(a)' = Holding(a) /\ rows'[a] = rows[a] /\ notices'[a] = notices[a]
          /\ late'[a] = late[a] /\ form' = form
      BY <1>1, <2>2, <2>3 DEF Holding, fired
    <3> QED
      BY <2>1, <3>1 DEF RowTells, HoldersCounted
  <2>4. CASE a \in fired
    <3>1. t \in Holding(a) /\ notices'[a] = notices[a] + 1
          /\ rows'[a] = IF rows[a] # "gone" THEN "triggered" ELSE rows[a]
      BY <1>1, <2>4 DEF Holding, fired
    <3>2. rows[a] # "new"
      BY <2>1, <3>1 DEF RowTells
    <3>3. RowTells(a)'
      BY <1>1, <2>1, <3>1, <3>2 DEF RowTells
    <3>4. /\ Cardinality(Holding(a)') = Cardinality(Holding(a)) - 1
          /\ Cardinality(Holding(a)) \in Nat /\ Cardinality(late[a]) \in Nat
      BY <2>1, <2>2, <3>1, FiniteRuns, FS_RemoveElement
    <3>5. HoldersCounted(a)'
      <4>1. CASE notices[a] = 0
        <5>1. late'[a] = Holding(a)'
          BY <1>1, <2>2, <2>4, <4>1 DEF Holding
        <5> QED
          BY <3>1, <3>4, <4>1, <5>1 DEF HoldersCounted
      <4>2. CASE notices[a] # 0
        <5>1. late'[a] = late[a]
          BY <1>1, <4>2
        <5> QED
          BY <2>1, <3>1, <3>4, <4>2, <5>1 DEF HoldersCounted
      <4> QED
        BY <4>1, <4>2
    <3> QED
      BY <3>3, <3>5
  <2> QED
    BY <2>3, <2>4
<1> QED
  BY <1>3, <1>4 DEF AlertsInv

LEMMA AlertsStay ==
    ASSUME AlertBounds, AlertsInv, [PA!Next]_(PA!vars)
    PROVE  AlertsInv'
<1>1. AlertTypes /\ \A a \in Alert : RowTells(a)
  BY DEF AlertsInv
<1>2. ASSUME NEW a \in Alert, PA!Submit(a) \/ PA!PressRemove(a) PROVE AlertsInv'
  <2>1. rows' = [rows EXCEPT ![a] = rows[a]]
    BY <1>1, <1>2 DEF AlertTypes, PA!Submit, PA!PressRemove
  <2> QED
    BY <1>1, <1>2, <2>1, RowMoves
       DEF PA!Submit, PA!PressRemove, PA!Market, PA!Told, AlertTypes, RowTells
<1>3. ASSUME NEW a \in Alert, NEW ok \in BOOLEAN, PA!Add(a, ok) \/ PA!Remove(a, ok)
      PROVE  AlertsInv'
  BY <1>1, <1>3, RowMoves DEF PA!Add, PA!Remove, PA!Market, PA!Told, AlertTypes, RowTells
<1>4. CASE PA!Watch \/ PA!Expire \/ (\E p \in Price : PA!Move(p)) \/ UNCHANGED PA!vars
  <2>1. /\ UNCHANGED <<rows, form, ticks, notices, late>>
        /\ price' \in Price /\ moves' \in 0..MaxMoves /\ cached' \in Price \cup {PA!None}
        /\ shown' \in Price \cup {PA!None} /\ watching' \in BOOLEAN
    <3>1. CASE PA!Watch
      BY <1>1, <3>1 DEF PA!Watch, PA!Market, PA!Told, AlertTypes
    <3>2. CASE PA!Expire
      BY <1>1, <3>2 DEF PA!Expire, PA!Client, PA!Told, AlertTypes
    <3>3. CASE \E p \in Price : PA!Move(p)
      BY <1>1, <3>3 DEF PA!Move, PA!Client, PA!Told, AlertTypes, AlertBounds
    <3>4. CASE UNCHANGED PA!vars
      BY <1>1, <3>4 DEF PA!vars, AlertTypes
    <3> QED
      BY <1>4, <3>1, <3>2, <3>3, <3>4
  <2> QED
    BY <1>1, <2>1, RunsMove DEF AlertTypes
<1>5. ASSUME NEW t \in TimerRun, PA!StartTick(t) PROVE AlertsInv'
  BY <1>1, <1>5, IdleRun, RunMoves DEF PA!StartTick, AlertTypes, PA!Market, PA!Client, PA!Told
<1>6. ASSUME NEW t \in TimerRun, PA!PendingCount(t) PROVE AlertsInv'
  <2> DEFINE pending == \E a \in Alert : rows[a] = "pending"
             x == IF ~ticks[t].watched /\ ~pending THEN PA!Idle
                  ELSE [ticks[t] EXCEPT !.at = "listing", !.pending = pending]
  <2>1. pending \in BOOLEAN
    OBVIOUS
  <2> HIDE DEF pending
  <2>2. x \in Runs /\ (x.fired = {} \/ x.fired = ticks[t].fired)
    BY <1>1, <2>1, IdleRun DEF AlertTypes, Runs
  <2>3. PA!Step(t, x)
    BY <1>6 DEF PA!PendingCount, pending
  <2> HIDE DEF x
  <2> QED
    BY <1>1, <1>6, <2>2, <2>3, RunMoves DEF PA!PendingCount, AlertTypes, PA!Market, PA!Client, PA!Told
<1>7. ASSUME NEW t \in TimerRun, NEW p \in Price \cup {PA!None}, PA!List(t, p) PROVE AlertsInv'
  <2> DEFINE x == IF p = PA!None \/ ~ticks[t].pending THEN PA!Idle
                  ELSE [ticks[t] EXCEPT !.at = "finding", !.assets = p]
  <2>1. x \in Runs /\ (x.fired = {} \/ x.fired = ticks[t].fired)
    BY <1>1, IdleRun DEF AlertTypes, Runs
  <2>2. PA!Step(t, x) /\ cached' = p /\ shown' \in {p, shown}
        /\ UNCHANGED <<price, moves, rows, form, watching, notices, late>>
    BY <1>7 DEF PA!List, PA!Told
  <2> HIDE DEF x
  <2> QED
    BY <1>1, <2>1, <2>2, RunMoves DEF AlertTypes
<1>8. ASSUME NEW t \in TimerRun, PA!Check(t) PROVE AlertsInv'
  <2> DEFINE found == PA!FindPending(t)
             x == IF found = {} THEN PA!Idle
                  ELSE [ticks[t] EXCEPT !.at = "committing", !.fired = found]
  <2>1. found \in SUBSET Alert /\ \A a \in found : rows[a] = "pending"
    BY DEF PA!FindPending
  <2>2. PA!Step(t, x)
    BY <1>8 DEF PA!Check
  <2> HIDE DEF found
  <2>3. x \in Runs /\ (x.fired = {} \/ x.fired = found)
    BY <1>1, <2>1, IdleRun DEF AlertTypes, Runs
  <2> HIDE DEF x
  <2> QED
    BY <1>1, <1>8, <2>1, <2>2, <2>3, RunMoves DEF PA!Check, AlertTypes, PA!Market, PA!Client, PA!Told
<1>9. ASSUME NEW t \in TimerRun, PA!Fails(t) PROVE AlertsInv'
  BY <1>1, <1>9, IdleRun, RunMoves DEF PA!Fails, AlertTypes, PA!Market, PA!Client, PA!Told
<1>10. CASE PA!Crash
  <2>1. ticks' \in [TimerRun -> Runs] /\ \A t \in TimerRun : ticks'[t].fired = {}
    BY <1>10, IdleRun DEF PA!Crash
  <2> QED
    BY <1>1, <1>10, <2>1, RunsMove DEF PA!Crash, AlertTypes, PA!Market, PA!Told
<1> QED
  BY <1>2, <1>3, <1>4, <1>5, <1>6, <1>7, <1>8, <1>9, <1>10, CommitKeeps DEF PA!Next

-----------------------------------------------------------------------------
(***************************************************************************)
(* The cache.  The age of what Redis holds and the time it has left add up *)
(* to no more than a TTL and one fetch.                                    *)
(***************************************************************************)
Values == [ok : BOOLEAN, age : Nat]
Entries == [value : Values, left : Nat]
ReadCalls == [at : {"free", "get", "fetch", "set"}, todo : Seq(MD!Key), value : Values]

\* How old a value may get, and that no rate is made up for an outage.
Bound(k, ok) == (IF ok THEN TTL[k] ELSE NEGATIVE_TTL) + MaxFetch

EntryOK(k) ==
    /\ cache[k].left <= TTL[k]
    /\ cache[k].left > 0 =>
          /\ cache[k].value.age + cache[k].left <= Bound(k, cache[k].value.ok)
          /\ cache[k].value.ok \/ k # "rate"

CallOK(x) ==
    /\ x.value.age <= MaxFetch
    /\ x.at # "free" => x.todo # <<>>
    /\ x.at = "set" => x.value.ok \/ Head(x.todo) # "rate"

GivenOK(key, value) ==
    key # "none" =>
        /\ key \in MD!Key /\ value \in Values /\ value.age < Bound(key, value.ok)
        /\ value.ok \/ key # "rate"

MarketTypes ==
    /\ mix \in SUBSET MD!Reads /\ up \in BOOLEAN /\ redisUp \in BOOLEAN
    /\ cache \in [MD!Key -> Entries] /\ calls \in [Caller -> ReadCalls]

MarketInv ==
    /\ MarketTypes
    /\ \A k \in MD!Key : EntryOK(k)
    /\ \A c \in Caller : CallOK(calls[c])
    /\ GivenOK(given.key, given.value)

\* What the constants say of one key.
LEMMA KeyBounds ==
    ASSUME CacheBounds, NEW k \in MD!Key
    PROVE  /\ TTL[k] \in Nat /\ NEGATIVE_TTL \in Nat /\ MaxFetch \in Nat
           /\ 1 <= NEGATIVE_TTL /\ NEGATIVE_TTL <= TTL[k]
           /\ \A ok \in BOOLEAN : Bound(k, ok) \in Nat /\ MaxFetch < Bound(k, ok)
<1>1. /\ TTL[k] \in Nat /\ NEGATIVE_TTL \in Nat /\ MaxFetch \in Nat
      /\ 1 <= NEGATIVE_TTL /\ NEGATIVE_TTL <= TTL[k]
  <2>1. k \in {"tickers", "candles", "supply", "rate"}
    BY DEF MD!Key
  <2>2. TTL[k] \in Nat /\ NEGATIVE_TTL \in 1..TTL[k] /\ MaxFetch \in Nat
    BY <2>1 DEF CacheBounds
  <2> QED
    BY <2>2
<1>2. ASSUME NEW ok \in BOOLEAN PROVE Bound(k, ok) \in Nat /\ MaxFetch < Bound(k, ok)
  <2>1. CASE ok
    <3>1. Bound(k, ok) = TTL[k] + MaxFetch
      BY <2>1 DEF Bound
    <3> QED
      BY <1>1, <3>1
  <2>2. CASE ~ok
    <3>1. Bound(k, ok) = NEGATIVE_TTL + MaxFetch
      BY <2>2 DEF Bound
    <3> QED
      BY <1>1, <3>1
  <2> QED
    BY <2>1, <2>2
<1> QED
  BY <1>1, <1>2

LEMMA NothingFacts ==
    /\ MD!Nothing \in Values /\ MD!Nothing.age = 0 /\ MD!Nothing.ok = FALSE
    /\ MD!Absent \in Entries /\ MD!Absent.left = 0
    /\ MD!Free \in ReadCalls /\ MD!Free.at = "free" /\ MD!Free.value = MD!Nothing
    /\ MD!NotGiven.key = "none"
<1>1. MD!Nothing \in Values /\ MD!Nothing.age = 0 /\ MD!Nothing.ok = FALSE
  BY DEF MD!Nothing, Values
<1>2. MD!Absent \in Entries /\ MD!Absent.left = 0
  BY <1>1 DEF MD!Absent, Entries
<1>3. MD!Free \in ReadCalls /\ MD!Free.at = "free" /\ MD!Free.value = MD!Nothing
  BY <1>1 DEF MD!Free, ReadCalls
<1> QED
  BY <1>1, <1>2, <1>3 DEF MD!NotGiven

LEMMA FreeIsOK ==
    ASSUME CacheBounds
    PROVE  CallOK(MD!Free)
BY NothingFacts DEF CallOK, CacheBounds

LEMMA MarketSuffices ==
    ASSUME CacheBounds, MarketInv
    PROVE  MD!TypeOK /\ MD!Fresh /\ MD!OutageShort
<1>1. ASSUME NEW k \in MD!Key
      PROVE  cache[k].value.ok \in BOOLEAN /\ cache[k].value.age \in Nat /\ cache[k].left \in 0..TTL[k]
  BY <1>1, KeyBounds DEF MarketInv, MarketTypes, EntryOK, Entries, Values
<1>2. ASSUME NEW c \in Caller
      PROVE  calls[c].at \in {"free", "get", "fetch", "set"} /\ calls[c].value.age \in 0..MaxFetch
  BY <1>2 DEF MarketInv, MarketTypes, CallOK, ReadCalls, Values, CacheBounds
<1>3. given.key \in MD!Key \cup {"none"}
  BY DEF MarketInv, GivenOK
<1>4. MD!TypeOK
  BY <1>1, <1>2, <1>3 DEF MarketInv, MarketTypes, MD!TypeOK
<1>5. MD!Fresh
  BY DEF MD!Fresh, MarketInv, GivenOK, Bound
<1>6. MD!OutageShort
  BY DEF MD!OutageShort, MarketInv, GivenOK, Bound
<1> QED
  BY <1>4, <1>5, <1>6

LEMMA MarketInit ==
    ASSUME CacheBounds, MD!Init
    PROVE  MarketInv
<1>1. /\ mix \in SUBSET MD!Reads /\ up = TRUE /\ redisUp = TRUE /\ given = MD!NotGiven
      /\ cache = [k \in MD!Key |-> MD!Absent] /\ calls = [c \in Caller |-> MD!Free]
  BY DEF MD!Init, CacheBounds
<1>2. MarketTypes
  BY <1>1, NothingFacts DEF MarketTypes
<1>3. ASSUME NEW k \in MD!Key PROVE EntryOK(k)
  BY <1>1, <1>3, NothingFacts, KeyBounds DEF EntryOK
<1>4. ASSUME NEW c \in Caller PROVE CallOK(calls[c])
  BY <1>1, <1>4, FreeIsOK
<1>5. GivenOK(given.key, given.value)
  BY <1>1, NothingFacts DEF GivenOK
<1> QED
  BY <1>2, <1>3, <1>4, <1>5 DEF MarketInv

\* One read moves on; its value, if it was given one, is not too old.
LEMMA ReadMoves ==
    ASSUME CacheBounds, MarketInv, NEW c \in Caller, NEW x \in ReadCalls, CallOK(x),
           calls' = [calls EXCEPT ![c] = x],
           cache' \in [MD!Key -> Entries], \A k \in MD!Key : EntryOK(k)',
           GivenOK(given.key, given.value)', UNCHANGED <<mix, up, redisUp>>
    PROVE  MarketInv'
<1>1. /\ calls' \in [Caller -> ReadCalls] /\ calls'[c] = x
      /\ \A d \in Caller \ {c} : calls'[d] = calls[d]
  BY DEF MarketInv, MarketTypes
<1>2. \A d \in Caller : CallOK(calls'[d])
  BY <1>1 DEF MarketInv
<1>3. MarketTypes'
  BY <1>1 DEF MarketInv, MarketTypes
<1>4. \A d \in Caller : CallOK(calls[d])'
  BY <1>2 DEF CallOK
<1> QED
  BY <1>3, <1>4 DEF MarketInv

\* The read goes on to its next key, or is over.
LEMMA ReadGoesOn ==
    ASSUME CacheBounds, MarketInv, NEW c \in Caller, calls[c].at # "free",
           NEW value \in Values, MD!Given(c, value), GivenOK(Head(calls[c].todo), value),
           cache' \in [MD!Key -> Entries], \A k \in MD!Key : EntryOK(k)',
           UNCHANGED <<mix, up, redisUp>>
    PROVE  MarketInv'
<1> DEFINE key == Head(calls[c].todo)
           rest == Tail(calls[c].todo)
           next == [at |-> "get", todo |-> rest, value |-> MD!Nothing]
<1>1. calls[c].todo \in Seq(MD!Key) /\ calls[c].todo # <<>>
  BY DEF MarketInv, MarketTypes, ReadCalls, CallOK
<1>2. rest \in Seq(MD!Key) /\ key \in MD!Key
  BY <1>1
<1>3. /\ given' = [key |-> key, value |-> value]
      /\ calls' = [calls EXCEPT ![c] = MD!Free] \/ (rest # <<>> /\ calls' = [calls EXCEPT ![c] = next])
  BY DEF MD!Given
<1>4. given'.key = key /\ given'.value = value
  BY <1>3
<1>5. GivenOK(given.key, given.value)'
  BY <1>4 DEF GivenOK, Bound
<1>6. next \in ReadCalls /\ next.at = "get" /\ next.todo = rest /\ next.value = MD!Nothing
  BY <1>2, NothingFacts DEF ReadCalls
<1> HIDE DEF key, rest, next
<1>7. rest # <<>> => CallOK(next)
  BY <1>6, NothingFacts DEF CallOK, CacheBounds
<1>8. CASE calls' = [calls EXCEPT ![c] = MD!Free]
  BY <1>5, <1>8, NothingFacts, FreeIsOK, ReadMoves
<1>9. CASE rest # <<>> /\ calls' = [calls EXCEPT ![c] = next]
  BY <1>5, <1>6, <1>7, <1>9, ReadMoves
<1> QED
  BY <1>3, <1>8, <1>9

LEMMA AdvanceKeeps ==
    ASSUME CacheBounds, MarketInv, MD!Advance
    PROVE  MarketInv'
<1>1. /\ \A c \in Caller : calls[c].at = "set" => calls[c].value.age < MaxFetch
      /\ cache' = [k \in MD!Key |-> IF cache[k].left <= 1 THEN MD!Absent
                                   ELSE [value |-> MD!Older(cache[k].value), left |-> cache[k].left - 1]]
      /\ calls' = [c \in Caller |-> IF calls[c].at = "set"
                                    THEN [calls[c] EXCEPT !.value = MD!Older(calls[c].value)]
                                    ELSE calls[c]]
      /\ given' = MD!NotGiven /\ UNCHANGED <<mix, up, redisUp>>
  BY DEF MD!Advance
<1>2. ASSUME NEW v \in Values
      PROVE  MD!Older(v) \in Values /\ MD!Older(v).age = v.age + 1 /\ MD!Older(v).ok = v.ok
  BY DEF MD!Older, Values
<1>3. ASSUME NEW k \in MD!Key PROVE cache'[k] \in Entries /\ EntryOK(k)'
  <2>1. /\ cache[k] \in Entries /\ cache[k].value \in Values /\ cache[k].left \in Nat
        /\ EntryOK(k)
    BY DEF MarketInv, MarketTypes, Entries
  <2>2. CASE cache[k].left <= 1
    <3>1. cache'[k] = MD!Absent
      BY <1>1, <2>2
    <3> QED
      BY <3>1, NothingFacts, KeyBounds DEF EntryOK
  <2>3. CASE ~(cache[k].left <= 1)
    <3> DEFINE v == MD!Older(cache[k].value)
    <3>1. v \in Values /\ v.age = cache[k].value.age + 1 /\ v.ok = cache[k].value.ok
      BY <1>2, <2>1
    <3>2. cache'[k] = [value |-> v, left |-> cache[k].left - 1]
      BY <1>1, <2>3
    <3> HIDE DEF v
    <3>3. cache'[k] \in Entries /\ cache'[k].value = v /\ cache'[k].left = cache[k].left - 1
      BY <2>1, <2>3, <3>1, <3>2 DEF Entries
    <3>4. /\ TTL[k] \in Nat /\ Bound(k, v.ok) \in Nat /\ v.age \in Nat /\ cache[k].value.age \in Nat
      BY <2>1, <3>1, KeyBounds DEF Values, Bound
    <3>5. /\ cache[k].left <= TTL[k]
          /\ cache[k].value.age + cache[k].left <= Bound(k, v.ok) /\ (v.ok \/ k # "rate")
      BY <2>1, <2>3, <3>1 DEF EntryOK
    <3>6. v.age + (cache[k].left - 1) <= Bound(k, v.ok) /\ cache[k].left - 1 <= TTL[k]
      BY <2>1, <3>1, <3>4, <3>5
    <3> QED
      BY <3>3, <3>4, <3>5, <3>6 DEF EntryOK, Bound
  <2> QED
    BY <2>2, <2>3
<1>4. ASSUME NEW c \in Caller PROVE calls'[c] \in ReadCalls /\ CallOK(calls[c])'
  <2>1. calls[c] \in ReadCalls /\ calls[c].value \in Values /\ CallOK(calls[c])
    BY DEF MarketInv, MarketTypes, ReadCalls
  <2>2. CASE calls[c].at # "set"
    <3>1. calls'[c] = calls[c]
      BY <1>1, <2>2
    <3> QED
      BY <2>1, <3>1 DEF CallOK
  <2>3. CASE calls[c].at = "set"
    <3> DEFINE v == MD!Older(calls[c].value)
    <3>1. v \in Values /\ v.age = calls[c].value.age + 1 /\ v.ok = calls[c].value.ok
      BY <1>2, <2>1
    <3>2. calls'[c] = [calls[c] EXCEPT !.value = v]
      BY <1>1, <2>3
    <3> HIDE DEF v
    <3>3. /\ calls'[c] \in ReadCalls /\ calls'[c].value = v /\ calls'[c].at = calls[c].at
          /\ calls'[c].todo = calls[c].todo
      BY <2>1, <3>1, <3>2 DEF ReadCalls
    <3>4. v.age <= MaxFetch
      BY <1>1, <2>1, <2>3, <3>1 DEF Values, CacheBounds
    <3> QED
      BY <2>1, <3>1, <3>3, <3>4 DEF CallOK
  <2> QED
    BY <2>2, <2>3
<1>5. cache' \in [MD!Key -> Entries] /\ calls' \in [Caller -> ReadCalls]
  BY <1>1, <1>3, <1>4
<1>6. GivenOK(given.key, given.value)'
  BY <1>1, NothingFacts DEF GivenOK
<1> QED
  BY <1>1, <1>3, <1>4, <1>5, <1>6 DEF MarketInv, MarketTypes

\* The read that set serves: it stores what it may keep.
LEMMA SetKeeps ==
    ASSUME CacheBounds, MarketInv, NEW c \in Caller, MD!Set(c)
    PROVE  MarketInv'
<1> DEFINE key == Head(calls[c].todo)
           value == calls[c].value
           kept == MD!Kept(key, value.ok)
           entry == [value |-> value, left |-> kept]
<1>1. /\ calls[c].at = "set" /\ UNCHANGED <<mix, up, redisUp>> /\ MD!Given(c, value)
      /\ cache' = cache \/ (kept > 0 /\ cache' = [cache EXCEPT ![key] = entry])
  BY DEF MD!Set
<1>2. /\ calls[c] \in ReadCalls /\ CallOK(calls[c])
      /\ calls[c].todo \in Seq(MD!Key) /\ calls[c].todo # <<>> /\ value \in Values
  BY <1>1 DEF MarketInv, MarketTypes, ReadCalls, CallOK
<1>3. key \in MD!Key /\ value.ok \in BOOLEAN /\ value.age \in Nat /\ value.age <= MaxFetch
      /\ (value.ok \/ key # "rate")
  BY <1>1, <1>2 DEF CallOK, Values
<1>4. /\ TTL[key] \in Nat /\ NEGATIVE_TTL \in Nat /\ MaxFetch \in Nat /\ NEGATIVE_TTL <= TTL[key]
      /\ Bound(key, value.ok) \in Nat /\ MaxFetch < Bound(key, value.ok)
  BY <1>3, KeyBounds
<1>5. kept \in Nat /\ kept <= TTL[key] /\ (kept > 0 => kept = IF value.ok THEN TTL[key] ELSE NEGATIVE_TTL)
  BY <1>4 DEF MD!Kept
<1>6. entry \in Entries /\ entry.value = value /\ entry.left = kept
  BY <1>2, <1>5 DEF Entries
<1>7. kept > 0 => value.age + kept <= Bound(key, value.ok)
  BY <1>3, <1>4, <1>5 DEF Bound
<1>8. value.age < Bound(key, value.ok)
  BY <1>3, <1>4
<1>9. GivenOK(key, value)
  BY <1>2, <1>3, <1>8 DEF GivenOK
<1> HIDE DEF key, value, kept, entry
<1>10. cache' \in [MD!Key -> Entries] /\ \A k \in MD!Key : EntryOK(k)'
  <2>1. CASE cache' = cache
    BY <2>1 DEF MarketInv, MarketTypes, EntryOK, Bound
  <2>2. CASE kept > 0 /\ cache' = [cache EXCEPT ![key] = entry]
    <3>1. /\ cache' \in [MD!Key -> Entries] /\ cache'[key] = entry
          /\ \A k \in MD!Key \ {key} : cache'[k] = cache[k]
      BY <1>3, <1>6, <2>2 DEF MarketInv, MarketTypes
    <3>2. ASSUME NEW k \in MD!Key, k = key PROVE EntryOK(k)'
      <4>1. cache'[k].value = value /\ cache'[k].left = kept
        BY <1>6, <3>1, <3>2
      <4> QED
        BY <1>3, <1>5, <1>7, <2>2, <3>2, <4>1 DEF EntryOK, Bound
    <3>3. ASSUME NEW k \in MD!Key, k # key PROVE EntryOK(k)'
      BY <3>1, <3>3 DEF MarketInv, EntryOK, Bound
    <3> QED
      BY <3>1, <3>2, <3>3
  <2> QED
    BY <1>1, <2>1, <2>2
<1>11. calls[c].at # "free"
  BY <1>1
<1> QED
  BY <1>1, <1>2, <1>9, <1>10, <1>11, ReadGoesOn DEF key

LEMMA MarketStays ==
    ASSUME CacheBounds, MarketInv, [MD!Next]_(MD!vars)
    PROVE  MarketInv'
<1>1. MarketTypes /\ \A k \in MD!Key : EntryOK(k)
  BY DEF MarketInv
<1>2. CASE MD!Upstream \/ MD!Redis
  <2>1. /\ up' \in BOOLEAN /\ redisUp' \in BOOLEAN /\ UNCHANGED <<mix, cache, calls>>
        /\ given'.key = "none"
    BY <1>1, <1>2, NothingFacts DEF MD!Upstream, MD!Redis, MarketTypes
  <2> QED
    BY <2>1 DEF MarketInv, MarketTypes, EntryOK, CallOK, GivenOK, Bound
<1>3. ASSUME NEW c \in Caller, NEW read \in mix, MD!Start(c, read) PROVE MarketInv'
  <2> DEFINE x == [at |-> "get", todo |-> read, value |-> MD!Nothing]
  <2>1. read \in Seq(MD!Key) /\ read # <<>>
    <3>1. read \in MD!Reads
      BY <1>1 DEF MarketTypes
    <3>2. \A k1, k2, k3 \in MD!Key :
             /\ <<k1>> \in Seq(MD!Key) /\ <<k1, k2>> \in Seq(MD!Key) /\ <<k1, k2, k3>> \in Seq(MD!Key)
             /\ <<k1>> # <<>> /\ <<k1, k2>> # <<>> /\ <<k1, k2, k3>> # <<>>
      OBVIOUS
    <3>3. {"tickers", "candles", "supply", "rate"} \subseteq MD!Key
      BY DEF MD!Key
    <3>4. /\ MD!list \in Seq(MD!Key) /\ MD!list # <<>> /\ MD!detail \in Seq(MD!Key) /\ MD!detail # <<>>
          /\ MD!chart \in Seq(MD!Key) /\ MD!chart # <<>> /\ MD!quote \in Seq(MD!Key) /\ MD!quote # <<>>
      BY <3>2, <3>3 DEF MD!list, MD!detail, MD!chart, MD!quote
    <3> QED
      BY <3>1, <3>4 DEF MD!Reads
  <2>2. x \in ReadCalls /\ x.at = "get" /\ x.todo = read /\ x.value = MD!Nothing
    BY <2>1, NothingFacts DEF ReadCalls
  <2>3. calls' = [calls EXCEPT ![c] = x] /\ given'.key = "none" /\ UNCHANGED <<mix, up, redisUp, cache>>
    BY <1>3, NothingFacts DEF MD!Start
  <2> HIDE DEF x
  <2>4. CallOK(x)
    BY <2>1, <2>2, NothingFacts DEF CallOK, CacheBounds
  <2>5. cache' \in [MD!Key -> Entries] /\ \A k \in MD!Key : EntryOK(k)'
    BY <1>1, <2>3 DEF MarketTypes, EntryOK, Bound
  <2>6. GivenOK(given.key, given.value)'
    BY <2>3 DEF GivenOK
  <2> QED
    BY <2>2, <2>3, <2>4, <2>5, <2>6, ReadMoves
<1>4. ASSUME NEW c \in Caller, MD!Get(c) PROVE MarketInv'
  <2> DEFINE key == Head(calls[c].todo)
  <2>1. /\ calls[c].at = "get" /\ UNCHANGED <<mix, up, redisUp, cache>>
        /\ \/ MD!Hit(key) /\ MD!Given(c, cache[key].value)
           \/ calls' = [calls EXCEPT ![c] = [calls[c] EXCEPT !.at = "fetch"]] /\ given' = MD!NotGiven
    BY <1>4 DEF MD!Get
  <2>2. cache' \in [MD!Key -> Entries] /\ \A k \in MD!Key : EntryOK(k)'
    BY <1>1, <2>1 DEF MarketTypes, EntryOK, Bound
  <2>3. calls[c] \in ReadCalls /\ CallOK(calls[c]) /\ calls[c].todo \in Seq(MD!Key)
        /\ calls[c].todo # <<>>
    BY <2>1 DEF MarketInv, MarketTypes, ReadCalls, CallOK
  <2>4. CASE MD!Hit(key) /\ MD!Given(c, cache[key].value)
    <3> DEFINE value == cache[key].value
    <3>1. key \in MD!Key
      BY <2>3
    <3> HIDE DEF key
    <3>2. cache[key] \in Entries /\ value \in Values /\ cache[key].left \in Nat /\ EntryOK(key)
          /\ cache[key].left > 0
      BY <1>1, <2>4, <3>1 DEF MarketTypes, Entries, MD!Hit
    <3>3. /\ value.age + cache[key].left <= Bound(key, value.ok)
          /\ value.ok \/ key # "rate"
      BY <3>2 DEF EntryOK
    <3>4. Bound(key, value.ok) \in Nat /\ value.age \in Nat
      BY <3>1, <3>2, KeyBounds DEF Values
    <3>5. value.age < Bound(key, value.ok)
      BY <3>2, <3>3, <3>4
    <3>6. GivenOK(key, value)
      BY <3>1, <3>2, <3>3, <3>5 DEF GivenOK
    <3> QED
      BY <2>1, <2>2, <2>4, <3>2, <3>6, ReadGoesOn DEF key
  <2>5. CASE calls' = [calls EXCEPT ![c] = [calls[c] EXCEPT !.at = "fetch"]] /\ given' = MD!NotGiven
    <3> DEFINE x == [calls[c] EXCEPT !.at = "fetch"]
    <3>1. x \in ReadCalls /\ x.at = "fetch" /\ x.todo = calls[c].todo /\ x.value = calls[c].value
      BY <2>3 DEF ReadCalls
    <3>2. calls' = [calls EXCEPT ![c] = x]
      BY <2>5
    <3> HIDE DEF x
    <3>3. CallOK(x)
      BY <2>1, <2>3, <3>1 DEF CallOK
    <3>4. GivenOK(given.key, given.value)'
      BY <2>5, NothingFacts DEF GivenOK
    <3> QED
      BY <2>1, <2>2, <3>1, <3>2, <3>3, <3>4, ReadMoves
  <2> QED
    BY <2>1, <2>4, <2>5
<1>5. ASSUME NEW c \in Caller, MD!Fetch(c) PROVE MarketInv'
  <2> DEFINE v == [ok |-> up, age |-> 0]
             y == [calls[c] EXCEPT !.at = "set", !.value = v]
             x == IF ~up /\ Head(calls[c].todo) = "rate" THEN MD!Free ELSE y
  <2>1. calls[c] \in ReadCalls /\ CallOK(calls[c]) /\ calls[c].at = "fetch"
    BY <1>5 DEF MarketInv, MarketTypes, MD!Fetch
  <2>2. v \in Values /\ v.age = 0 /\ v.ok = up
    BY <1>1 DEF MarketTypes, Values
  <2>3. calls' = [calls EXCEPT ![c] = x] /\ given' = MD!NotGiven /\ UNCHANGED <<mix, up, redisUp, cache>>
    BY <1>5 DEF MD!Fetch
  <2> HIDE DEF v
  <2>4. y \in ReadCalls /\ y.at = "set" /\ y.value = v /\ y.todo = calls[c].todo
    BY <2>1, <2>2 DEF ReadCalls
  <2> HIDE DEF y
  <2>5. x \in ReadCalls /\ CallOK(x)
    <3>1. CASE ~up /\ Head(calls[c].todo) = "rate"
      BY <3>1, NothingFacts, FreeIsOK
    <3>2. CASE ~(~up /\ Head(calls[c].todo) = "rate")
      <4>1. x = y
        BY <3>2
      <4> QED
        BY <2>1, <2>2, <2>4, <3>2, <4>1 DEF CallOK, CacheBounds
    <3> QED
      BY <3>1, <3>2
  <2> HIDE DEF x
  <2>6. cache' \in [MD!Key -> Entries] /\ \A k \in MD!Key : EntryOK(k)'
    BY <1>1, <2>3 DEF MarketTypes, EntryOK, Bound
  <2>7. GivenOK(given.key, given.value)'
    BY <2>3, NothingFacts DEF GivenOK
  <2> QED
    BY <2>3, <2>5, <2>6, <2>7, ReadMoves
<1>6. CASE UNCHANGED MD!vars
  <2>1. UNCHANGED <<mix, up, redisUp, cache, calls, given>>
    BY <1>6 DEF MD!vars
  <2> QED
    BY <2>1 DEF MarketInv, MarketTypes, EntryOK, CallOK, GivenOK, Bound
<1> QED
  BY <1>2, <1>3, <1>4, <1>5, <1>6, AdvanceKeeps, SetKeeps DEF MD!Next

-----------------------------------------------------------------------------
(***************************************************************************)
(* Push.  While a push will be tried again, every try so far met a fault,  *)
(* so no device showed it more often than that.                            *)
(***************************************************************************)
ToggleTypes ==
    /\ signedIn \in [Device -> User]
    /\ perm \in [Device -> PD!Perms] /\ toggle \in [Device -> PD!Perms]
    /\ sub \in [Device -> Nat] /\ last \in [Device -> Nat]
    /\ \A d \in Device : sub[d] <= last[d] /\ last[d] <= MaxSubs[d]
    /\ flow \in [Device -> {"idle", "asking", "posting", "leaving", "stuck"}]
    /\ rows \in [PD!Endpoint -> User \cup {PD!Nobody}]

\* A device that asks for the permission can still subscribe.
AskingCan == \A d \in Device : flow[d] = "asking" => sub[d] # 0 \/ last[d] < MaxSubs[d]

PushTypes ==
    /\ push \in [to : User, tries : 1..MaxTries] \cup {PD!NoPush}
    /\ copies \in [PD!Endpoint -> Nat] /\ faults \in Nat

PushCounted ==
    \/ push = PD!NoPush /\ faults <= MaxTries
          /\ \A e \in PD!Endpoint : copies[e] <= 1 + faults /\ copies[e] <= MaxTries
    \/ /\ push.to \in User /\ push.tries \in 1..MaxTries /\ push.tries < MaxTries
       /\ faults <= push.tries
       /\ \A e \in PD!Endpoint : copies[e] <= faults

PushInv == ToggleTypes /\ AskingCan /\ PD!OffIsQuiet /\ PushTypes /\ PushCounted

LEMMA PushSuffices ==
    ASSUME PushBounds, PushInv
    PROVE  PD!TypeOK /\ PD!OffIsQuiet /\ PD!CopiesForFaults
<1>1. /\ MaxTries \in Nat /\ faults \in Nat /\ \A e \in PD!Endpoint : copies[e] \in Nat
  BY DEF PushBounds, PushInv, PushTypes
<1>2. faults <= MaxTries /\ \A e \in PD!Endpoint : copies[e] <= 1 + faults /\ copies[e] <= MaxTries
  BY <1>1 DEF PushInv, PushCounted
<1>3. copies \in [PD!Endpoint -> 0..MaxTries] /\ faults \in 0..MaxTries
  BY <1>1, <1>2 DEF PushInv, PushTypes
<1>4. \A d \in Device : sub[d] \in 0..last[d] /\ last[d] \in 0..MaxSubs[d]
  BY DEF PushInv, ToggleTypes, PushBounds
<1>5. PD!TypeOK
  BY <1>3, <1>4 DEF PushInv, ToggleTypes, PushTypes, PD!TypeOK
<1>6. PD!CopiesForFaults
  BY <1>2 DEF PD!CopiesForFaults
<1> QED
  BY <1>5, <1>6 DEF PushInv

LEMMA PushInit ==
    ASSUME PushBounds, PD!Init
    PROVE  PushInv
<1>1. /\ signedIn \in [Device -> User] /\ perm = [d \in Device |-> "default"] /\ toggle = perm
      /\ sub = [d \in Device |-> 0] /\ last = sub /\ flow = [d \in Device |-> "idle"]
      /\ rows = [e \in PD!Endpoint |-> PD!Nobody] /\ push = PD!NoPush
      /\ copies = [e \in PD!Endpoint |-> 0] /\ faults = 0
  BY DEF PD!Init
<1>2. ToggleTypes
  BY <1>1 DEF ToggleTypes, PD!Perms, PushBounds
<1>3. PushTypes /\ PushCounted
  BY <1>1 DEF PushTypes, PushCounted, PushBounds
<1> QED
  BY <1>1, <1>2, <1>3 DEF PushInv, AskingCan, PD!OffIsQuiet

\* A step of one device's toggle: what it may change, and what has to hold of
\* the device afterwards.
LEMMA ToggleMoves ==
    ASSUME PushBounds, PushInv, NEW d \in Device,
           NEW p \in PD!Perms, NEW t \in PD!Perms, NEW n \in Nat, NEW m \in Nat,
           NEW at \in {"idle", "asking", "posting", "leaving", "stuck"},
           perm' = [perm EXCEPT ![d] = p], toggle' = [toggle EXCEPT ![d] = t],
           sub' = [sub EXCEPT ![d] = n], last' = [last EXCEPT ![d] = m],
           flow' = [flow EXCEPT ![d] = at],
           n <= m, m <= MaxSubs[d], at = "asking" => n # 0 \/ m < MaxSubs[d],
           at = "idle" /\ t = "default" /\ p = "granted" => n = 0,
           signedIn' \in [Device -> User], rows' \in [PD!Endpoint -> User \cup {PD!Nobody}],
           UNCHANGED <<push, copies, faults>>
    PROVE  PushInv'
<1>1. /\ perm' \in [Device -> PD!Perms] /\ perm'[d] = p
      /\ toggle' \in [Device -> PD!Perms] /\ toggle'[d] = t
      /\ sub' \in [Device -> Nat] /\ sub'[d] = n /\ last' \in [Device -> Nat] /\ last'[d] = m
      /\ flow' \in [Device -> {"idle", "asking", "posting", "leaving", "stuck"}] /\ flow'[d] = at
  BY DEF PushInv, ToggleTypes
<1>2. \A x \in Device \ {d} :
         /\ perm'[x] = perm[x] /\ toggle'[x] = toggle[x] /\ sub'[x] = sub[x]
         /\ last'[x] = last[x] /\ flow'[x] = flow[x]
  BY DEF PushInv, ToggleTypes
<1>3. \A x \in Device : sub'[x] <= last'[x] /\ last'[x] <= MaxSubs[x]
  BY <1>1, <1>2 DEF PushInv, ToggleTypes
<1>4. ToggleTypes'
  BY <1>1, <1>3 DEF ToggleTypes
<1>5. AskingCan'
  BY <1>1, <1>2 DEF PushInv, AskingCan
<1>6. PD!OffIsQuiet'
  BY <1>1, <1>2 DEF PushInv, PD!OffIsQuiet
<1>7. PushTypes' /\ PushCounted'
  BY DEF PushInv, PushTypes, PushCounted
<1> QED
  BY <1>4, <1>5, <1>6, <1>7 DEF PushInv

LEMMA TogglesAsTheyAre ==
    ASSUME PushInv, NEW d \in Device
    PROVE  /\ perm = [perm EXCEPT ![d] = perm[d]] /\ toggle = [toggle EXCEPT ![d] = toggle[d]]
           /\ sub = [sub EXCEPT ![d] = sub[d]] /\ last = [last EXCEPT ![d] = last[d]]
           /\ flow = [flow EXCEPT ![d] = flow[d]]
           /\ signedIn \in [Device -> User] /\ rows \in [PD!Endpoint -> User \cup {PD!Nobody}]
           /\ perm[d] \in PD!Perms /\ toggle[d] \in PD!Perms
           /\ sub[d] \in Nat /\ last[d] \in Nat /\ sub[d] <= last[d] /\ last[d] <= MaxSubs[d]
           /\ flow[d] = "asking" => sub[d] # 0 \/ last[d] < MaxSubs[d]
           /\ MaxSubs[d] \in Nat \/ ~PushBounds
BY DEF PushInv, ToggleTypes, AskingCan, PushBounds

\* The row of an endpoint is its owner's, or nobody's.
LEMMA RowsTyped ==
    ASSUME PushInv, NEW e, NEW u \in User \cup {PD!Nobody}
    PROVE  [rows EXCEPT ![e] = u] \in [PD!Endpoint -> User \cup {PD!Nobody}]
BY DEF PushInv, ToggleTypes

LEMMA ToggleKeeps ==
    ASSUME PushBounds, PushInv, NEW d \in Device,
           \/ PD!Load(d) \/ PD!Enable(d) \/ PD!Disable(d)
           \/ \E answer \in PD!Perms : PD!Permission(d, answer)
           \/ \E thrown \in BOOLEAN : PD!EnableFails(d, thrown)
           \/ \E u \in User : PD!SignIn(d, u)
    PROVE  PushInv'
<1> USE TogglesAsTheyAre
<1>1. CASE PD!Load(d)
  BY <1>1, ToggleMoves DEF PD!Load, PD!Flow, PD!Sending
<1>2. CASE PD!Enable(d)
  BY <1>2, ToggleMoves DEF PD!Enable, PD!Flow, PD!Sending
<1>3. CASE PD!Disable(d)
  <2>1. CASE sub[d] = 0
    <3>1. "default" \in PD!Perms
      BY DEF PD!Perms
    <3> QED
      BY <1>3, <2>1, <3>1, ToggleMoves DEF PD!Disable, PD!Sending
  <2>2. CASE sub[d] # 0
    <3>1. /\ UNCHANGED <<perm, sub, last, toggle, signedIn, rows, push, copies, faults>>
          /\ flow' = [flow EXCEPT ![d] = "leaving"]
      BY <1>3, <2>2 DEF PD!Disable, PD!Flow, PD!Sending
    <3>2. /\ perm' = [perm EXCEPT ![d] = perm[d]] /\ toggle' = [toggle EXCEPT ![d] = toggle[d]]
          /\ sub' = [sub EXCEPT ![d] = sub[d]] /\ last' = [last EXCEPT ![d] = last[d]]
      BY <3>1
    <3>3. /\ perm[d] \in PD!Perms /\ toggle[d] \in PD!Perms /\ sub[d] \in Nat /\ last[d] \in Nat
          /\ sub[d] <= last[d] /\ last[d] <= MaxSubs[d]
          /\ "leaving" \in {"idle", "asking", "posting", "leaving", "stuck"}
          /\ signedIn' \in [Device -> User] /\ rows' \in [PD!Endpoint -> User \cup {PD!Nobody}]
      BY <3>1
    <3> QED
      BY <3>1, <3>2, <3>3, ToggleMoves
  <2> QED
    BY <2>1, <2>2
<1>4. ASSUME NEW answer \in PD!Perms, PD!Permission(d, answer) PROVE PushInv'
  <2>1. CASE answer # "granted"
    BY <1>4, <2>1, ToggleMoves DEF PD!Permission, PD!Flow, PD!Sending
  <2>2. CASE answer = "granted" /\ sub[d] # 0
    BY <1>4, <2>2, ToggleMoves DEF PD!Permission, PD!Flow, PD!Sending
  <2>3. CASE answer = "granted" /\ sub[d] = 0
    <3> DEFINE n == last[d] + 1
    <3>1. /\ perm' = [perm EXCEPT ![d] = answer] /\ sub' = [sub EXCEPT ![d] = n]
          /\ last' = [last EXCEPT ![d] = n] /\ flow' = [flow EXCEPT ![d] = "posting"]
          /\ UNCHANGED <<toggle, signedIn, rows, push, copies, faults>> /\ flow[d] = "asking"
      BY <1>4, <2>3 DEF PD!Permission, PD!Flow, PD!Sending
    <3>2. n \in Nat /\ n <= MaxSubs[d]
      BY <2>3, <3>1 DEF PushBounds
    <3> HIDE DEF n
    <3>3. /\ toggle' = [toggle EXCEPT ![d] = toggle[d]] /\ toggle[d] \in PD!Perms
          /\ signedIn' \in [Device -> User] /\ rows' \in [PD!Endpoint -> User \cup {PD!Nobody}]
          /\ UNCHANGED <<push, copies, faults>>
      BY <3>1
    <3>4. "posting" \in {"idle", "asking", "posting", "leaving", "stuck"} /\ n <= n
      BY <3>2
    <3> QED
      BY <3>1, <3>2, <3>3, <3>4, ToggleMoves
  <2> QED
    BY <2>1, <2>2, <2>3
<1>5. ASSUME NEW thrown \in BOOLEAN, PD!EnableFails(d, thrown) PROVE PushInv'
  BY <1>5, ToggleMoves DEF PD!EnableFails, PD!Flow, PD!Sending
<1>6. ASSUME NEW u \in User, PD!SignIn(d, u) PROVE PushInv'
  <2>1. signedIn' \in [Device -> User]
    BY <1>6 DEF PD!SignIn
  <2> QED
    BY <1>6, <2>1, ToggleMoves DEF PD!SignIn, PD!Sending
<1> QED
  BY <1>1, <1>2, <1>3, <1>4, <1>5, <1>6

LEMMA RowKeeps ==
    ASSUME PushBounds, PushInv, NEW d \in Device,
           PD!Enabled(d) \/ \E ok \in BOOLEAN : PD!Disabled(d, ok) \/ PD!DisableThrows(d, ok)
    PROVE  PushInv'
<1> USE TogglesAsTheyAre
<1>1. signedIn[d] \in User /\ PD!Nobody \in User \cup {PD!Nobody} /\ "default" \in PD!Perms
  BY DEF PD!Perms
<1>2. CASE PD!Enabled(d)
  <2>1. rows' \in [PD!Endpoint -> User \cup {PD!Nobody}]
    BY <1>1, <1>2, RowsTyped DEF PD!Enabled, PD!Subscribe
  <2> QED
    BY <1>2, <2>1, ToggleMoves DEF PD!Enabled, PD!Flow, PD!Sending
<1>3. ASSUME NEW ok \in BOOLEAN, PD!Unsubscribe(d, ok)
      PROVE  rows' \in [PD!Endpoint -> User \cup {PD!Nobody}]
  BY <1>1, <1>3, RowsTyped DEF PD!Unsubscribe
<1>4. ASSUME NEW ok \in BOOLEAN, PD!Disabled(d, ok) PROVE PushInv'
  <2>1. rows' \in [PD!Endpoint -> User \cup {PD!Nobody}]
    BY <1>3, <1>4 DEF PD!Disabled
  <2>2. /\ perm' = [perm EXCEPT ![d] = perm[d]] /\ toggle' = [toggle EXCEPT ![d] = "default"]
        /\ sub' = [sub EXCEPT ![d] = 0] /\ last' = [last EXCEPT ![d] = last[d]]
        /\ flow' = [flow EXCEPT ![d] = "idle"]
        /\ signedIn' \in [Device -> User] /\ UNCHANGED <<push, copies, faults>>
    BY <1>4 DEF PD!Disabled, PD!Flow, PD!Sending
  <2>3. 0 \in Nat /\ 0 <= last[d] /\ last[d] \in Nat /\ last[d] <= MaxSubs[d]
        /\ perm[d] \in PD!Perms /\ "idle" \in {"idle", "asking", "posting", "leaving", "stuck"}
    OBVIOUS
  <2> QED
    BY <1>1, <2>1, <2>2, <2>3, ToggleMoves
<1>5. ASSUME NEW ok \in BOOLEAN, PD!DisableThrows(d, ok) PROVE PushInv'
  <2>1. rows' \in [PD!Endpoint -> User \cup {PD!Nobody}]
    BY <1>3, <1>5 DEF PD!DisableThrows
  <2> QED
    BY <1>1, <1>5, <2>1, ToggleMoves DEF PD!DisableThrows, PD!Flow, PD!Sending
<1> QED
  BY <1>2, <1>4, <1>5

\* One try of the fan-out: the tries before it each met a fault.
LEMMA SendKeeps ==
    ASSUME PushBounds, PushInv, NEW u \in User, NEW tries \in 1..MaxTries,
           NEW failed, PD!Send(u, tries, failed),
           faults < tries, \A e \in PD!Endpoint : copies[e] <= faults
    PROVE  PushInv'
<1>1. /\ copies' = [e \in PD!Endpoint |->
                        IF e \in PD!Owned(u) /\ PD!Alive(e) /\ e \notin failed
                        THEN copies[e] + 1 ELSE copies[e]]
      /\ rows' = [e \in PD!Endpoint |->
                        IF e \in PD!Owned(u) /\ ~PD!Alive(e) THEN PD!Nobody ELSE rows[e]]
      /\ faults' = IF failed = {} THEN faults ELSE faults + 1
      /\ push' = IF PD!Retry(u, tries, failed) THEN [to |-> u, tries |-> tries] ELSE PD!NoPush
      /\ UNCHANGED <<signedIn, perm, sub, last, toggle, flow>>
  BY DEF PD!Send, PD!Attempt
<1>2. /\ MaxTries \in Nat /\ faults \in Nat /\ \A e \in PD!Endpoint : copies[e] \in Nat
      /\ tries \in Nat /\ tries <= MaxTries
  BY DEF PushBounds, PushInv, PushTypes
<1>3. rows' \in [PD!Endpoint -> User \cup {PD!Nobody}]
  BY <1>1 DEF PushInv, ToggleTypes
<1>4. ToggleTypes' /\ AskingCan' /\ PD!OffIsQuiet'
  BY <1>1, <1>3 DEF PushInv, ToggleTypes, AskingCan, PD!OffIsQuiet
<1>5. \A e \in PD!Endpoint : copies'[e] \in Nat /\ copies'[e] <= faults + 1
  BY <1>1, <1>2
<1>6. copies' \in [PD!Endpoint -> Nat] /\ faults' \in Nat /\ faults' <= tries /\ faults <= faults'
  BY <1>1, <1>2, <1>5
<1>7. CASE PD!Retry(u, tries, failed)
  <2>1. push' = [to |-> u, tries |-> tries] /\ tries < MaxTries /\ faults' = faults + 1
    BY <1>1, <1>7 DEF PD!Retry
  <2>2. push'.to = u /\ push'.tries = tries /\ push' \in [to : User, tries : 1..MaxTries]
    BY <2>1
  <2>3. PushTypes'
    BY <1>6, <2>2 DEF PushTypes
  <2>4. PushCounted'
    BY <1>5, <1>6, <2>1, <2>2 DEF PushCounted
  <2> QED
    BY <1>4, <2>3, <2>4 DEF PushInv
<1>8. CASE ~PD!Retry(u, tries, failed)
  <2>1. push' = PD!NoPush
    BY <1>1, <1>8
  <2>2. PushTypes'
    BY <1>6, <2>1 DEF PushTypes
  <2>3. faults' <= MaxTries /\ \A e \in PD!Endpoint : copies'[e] <= 1 + faults' /\ copies'[e] <= MaxTries
    BY <1>2, <1>5, <1>6
  <2>4. PushCounted'
    BY <2>1, <2>3 DEF PushCounted
  <2> QED
    BY <1>4, <2>2, <2>4 DEF PushInv
<1> QED
  BY <1>7, <1>8

LEMMA PushStays ==
    ASSUME PushBounds, PushInv, [PD!Next]_(PD!vars)
    PROVE  PushInv'
<1>1. PushTypes /\ PushCounted /\ MaxTries \in Nat \ {0}
  BY DEF PushInv, PushBounds
<1>2. ASSUME NEW u \in User, PD!SendToUser(u) PROVE PushInv'
  <2>1. faults = 0 /\ \A e \in PD!Endpoint : copies[e] = 0
    BY <1>2 DEF PD!SendToUser
  <2>2. PICK failed : PD!Send(u, 1, failed)
    BY <1>2 DEF PD!SendToUser
  <2>3. 1 \in 1..MaxTries /\ faults < 1 /\ \A e \in PD!Endpoint : copies[e] <= faults
    BY <1>1, <2>1
  <2> QED
    BY <2>2, <2>3, SendKeeps
<1>3. CASE PD!SendAgain
  <2>1. push # PD!NoPush /\ push \in [to : User, tries : 1..MaxTries]
    BY <1>1, <1>3 DEF PD!SendAgain, PushTypes
  <2>2. /\ push.to \in User /\ push.tries \in 1..MaxTries /\ push.tries < MaxTries
        /\ faults <= push.tries /\ \A e \in PD!Endpoint : copies[e] <= faults /\ faults \in Nat
    BY <1>1, <2>1 DEF PushCounted, PushTypes
  <2>3. PICK n \in 1..MaxTries : n = push.tries + 1
    BY <1>1, <2>2
  <2>4. PICK failed : PD!Send(push.to, n, failed)
    BY <1>3, <2>3 DEF PD!SendAgain
  <2>5. faults < n
    BY <1>1, <2>2, <2>3 DEF PushTypes
  <2> QED
    BY <2>2, <2>4, <2>5, SendKeeps
<1>4. CASE PD!Forget
  <2>1. /\ push = PD!NoPush /\ copies' = [e \in PD!Endpoint |-> 0] /\ faults' = 0
        /\ UNCHANGED <<signedIn, perm, sub, last, toggle, flow, rows, push>>
    BY <1>4 DEF PD!Forget
  <2>2. ToggleTypes' /\ AskingCan' /\ PD!OffIsQuiet'
    BY <2>1 DEF PushInv, ToggleTypes, AskingCan, PD!OffIsQuiet
  <2>3. PushTypes' /\ PushCounted'
    BY <1>1, <2>1 DEF PushTypes, PushCounted
  <2> QED
    BY <2>2, <2>3 DEF PushInv
<1>5. CASE UNCHANGED PD!vars
  <2>1. UNCHANGED <<signedIn, perm, sub, last, toggle, flow, rows, push, copies, faults>>
    BY <1>5 DEF PD!vars
  <2> QED
    BY <2>1 DEF PushInv, ToggleTypes, AskingCan, PD!OffIsQuiet, PushTypes, PushCounted
<1> QED
  BY <1>2, <1>3, <1>4, <1>5, ToggleKeeps, RowKeeps DEF PD!Next

-----------------------------------------------------------------------------
(***************************************************************************)
(* What is tracked.  A star, unless its row is in doubt, is the only one   *)
(* with a request under way for its row, and says what the table holds     *)
(* once that request commits or fails.  A page's list, where it is sure,   *)
(* is the table's unless a commit is yet to be told or a page is coming.   *)
(***************************************************************************)
Requests == [at : {"sent", "ok", "failed", "told", "over"}, row : TA!Row, to : 0..MaxQty, lost : BOOLEAN]
Readings == [to : TA!Pages, anew : BOOLEAN]
Forms == [coin : Coin, qty : 0..MaxQty, call : 0..MaxCalls]
Dialogs == [coin : Coin, call : 0..MaxCalls]
Stars == [on : BOOLEAN, call : 0..MaxCalls]
PagesRead == [at : TA!Pages, assets : Catalogs, view : Catalogs, up : SUBSET Coin,
              list : [TA!Row -> 0..MaxQty], missed : SUBSET {"watch", "hold"}, unsure : SUBSET TA!Row]

TrackedTypes ==
    /\ rows \in [TA!Row -> 0..MaxQty]
    /\ page \in PagesRead
    /\ chip \in Chips /\ q \in Searches
    /\ star \in [Coin -> {TA!NoStar} \cup Stars]
    /\ form \in {TA!NoForm} \cup Forms /\ (form # TA!NoForm => form.coin \in page.assets)
    /\ dialog \in {TA!NoForm} \cup Dialogs
    /\ calls \in [TA!Call -> {TA!Unsent} \cup Requests]
    /\ reading \in {TA!NoRead} \cup Readings
    /\ doubt \subseteq TA!Row /\ overtaken \subseteq TA!Row

SentFirst == \E k \in 0..MaxCalls : TA!Sent = 1..k

\* The requests the server or the page has yet to answer.
Out == {n \in TA!Sent : calls[n].at \in {"sent", "ok", "failed"}}

LostDoubted ==
    \A n \in TA!Sent : calls[n].at = "sent" /\ calls[n].lost => calls[n].row \in doubt \cup page.unsure

ListsFollow ==
    \A r \in TA!Row :
        r[1] \in TA!Tables[page.at] /\ TA!Sure(r) =>
            \/ page.list[r] = rows[r]
            \/ reading # TA!NoRead
            \/ \E n \in TA!Sent : calls[n].at = "ok" /\ calls[n].row = r

StarCalls ==
    \A c \in Coin : star[c].call \in TA!Call =>
        LET n == star[c].call IN
        /\ n \in Out /\ calls[n].row = <<"watch", c>> /\ ~calls[n].lost
        /\ calls[n].to = IF star[c].on THEN 1 ELSE 0

StarsFollow ==
    \A c \in Coin : star[c] # TA!NoStar /\ <<"watch", c>> \notin doubt =>
        /\ \A n \in Out : calls[n].row = <<"watch", c>> => n = star[c].call
        /\ star[c].call = 0 \/ calls[star[c].call].at = "ok" => (star[c].on <=> rows[<<"watch", c>>] = 1)
        /\ star[c].call # 0 /\ calls[star[c].call].at # "ok" => (star[c].on <=> rows[<<"watch", c>>] # 1)

LastStands ==
    \A n \in TA!Sent :
        /\ calls[n].at \in {"ok", "told"} /\ calls[n].row \notin overtaken
        /\ \A m \in TA!Sent : m > n => calls[m].row # calls[n].row
        => rows[calls[n].row] = calls[n].to

TrackedInv ==
    TrackedTypes /\ SentFirst /\ LostDoubted /\ ListsFollow /\ StarCalls /\ StarsFollow /\ LastStands

LEMMA SentRequests ==
    ASSUME TrackedTypes
    PROVE  /\ \A n \in TA!Sent : n \in TA!Call /\ calls[n] \in Requests
           /\ \A n \in TA!Call \ TA!Sent : calls[n] = TA!Unsent
           /\ \A x \in Requests : /\ x # TA!Unsent /\ x.row \in TA!Row /\ x.to \in 0..MaxQty
                                  /\ x.lost \in BOOLEAN /\ x.at \in {"sent", "ok", "failed", "told", "over"}
<1>1. \A x \in Requests : x.at # "none"
  BY DEF Requests
<1>2. TA!Unsent.at = "none"
  BY DEF TA!Unsent
<1> QED
  BY <1>1, <1>2 DEF TrackedTypes, TA!Sent, Requests

\* A request moves on.
LEMMA CallMoves ==
    ASSUME TrackedTypes, NEW n \in TA!Sent, NEW x \in Requests, calls' = [calls EXCEPT ![n] = x]
    PROVE  /\ calls' \in [TA!Call -> {TA!Unsent} \cup Requests]
           /\ TA!Sent' = TA!Sent
           /\ calls'[n] = x
           /\ \A m \in TA!Call \ {n} : calls'[m] = calls[m]
<1>1. n \in TA!Call /\ x # TA!Unsent /\ calls[n] # TA!Unsent
  BY SentRequests DEF TA!Sent
<1>2. calls' \in [TA!Call -> {TA!Unsent} \cup Requests]
  BY DEF TrackedTypes
<1>3. calls'[n] = x /\ \A m \in TA!Call \ {n} : calls'[m] = calls[m]
  BY <1>1 DEF TrackedTypes
<1>4. TA!Sent' = TA!Sent
  BY <1>1, <1>3 DEF TA!Sent
<1> QED
  BY <1>2, <1>3, <1>4

LEMMA LastOfSent ==
    ASSUME TrackedBounds, TrackedTypes, SentFirst
    PROVE  /\ TA!Last \in 0..MaxCalls /\ TA!Sent = 1..TA!Last
           /\ TA!Last < MaxCalls => TA!Last + 1 \in TA!Call /\ TA!Last + 1 \notin TA!Sent
<1>1. PICK k \in 0..MaxCalls : TA!Sent = 1..k
  BY DEF SentFirst
<1>2. k \in Nat /\ MaxCalls \in Nat
  BY DEF TrackedBounds
<1>3. \A S : TA!Cardinality(S) = Cardinality(S)
  BY DEF TA!Cardinality, Cardinality
<1>4. Cardinality(1..k) = k
  BY <1>2, FS_Interval
<1>5. TA!Last = k
  BY <1>1, <1>3, <1>4 DEF TA!Last
<1> QED
  BY <1>1, <1>2, <1>5 DEF TA!Call

\* A request leaves.
LEMMA CallSent ==
    ASSUME TrackedBounds, TrackedTypes, SentFirst, NEW r \in TA!Row, NEW to_ \in 0..MaxQty,
           TA!Post(r, to_)
    PROVE  LET l == TA!Last + 1 IN
           /\ l \in TA!Call /\ l \in Nat \ {0} /\ l \notin TA!Sent /\ \A n \in TA!Sent : n < l
           /\ calls' \in [TA!Call -> {TA!Unsent} \cup Requests]
           /\ TA!Sent' = TA!Sent \cup {l} /\ SentFirst'
           /\ calls'[l] = [at |-> "sent", row |-> r, to |-> to_, lost |-> FALSE]
           /\ \A m \in TA!Call \ {l} : calls'[m] = calls[m]
<1> DEFINE l == TA!Last + 1
           x == [at |-> "sent", row |-> r, to |-> to_, lost |-> FALSE]
<1>1. TA!Last < MaxCalls /\ calls' = [calls EXCEPT ![l] = x]
  BY DEF TA!Post
<1>2. TA!Last \in 0..MaxCalls /\ TA!Sent = 1..TA!Last /\ l \in TA!Call /\ l \notin TA!Sent
  BY <1>1, LastOfSent
<1>3. l \in Nat \ {0} /\ \A n \in TA!Sent : n < l
  BY <1>2
<1>4. x \in Requests
  BY DEF Requests
<1> HIDE DEF x
<1>5. x # TA!Unsent
  BY <1>4, SentRequests
<1>6. calls' \in [TA!Call -> {TA!Unsent} \cup Requests]
  BY <1>1, <1>2, <1>4 DEF TrackedTypes
<1>7. calls'[l] = x /\ \A m \in TA!Call \ {l} : calls'[m] = calls[m]
  BY <1>1, <1>2 DEF TrackedTypes
<1>8. TA!Sent' = TA!Sent \cup {l}
  BY <1>2, <1>5, <1>7 DEF TA!Sent
<1>9. l \in 0..MaxCalls /\ TA!Sent \cup {l} = 1..l
  BY <1>1, <1>2 DEF TrackedBounds
<1>10. SentFirst'
  BY <1>8, <1>9 DEF SentFirst
<1> QED
  BY <1>2, <1>3, <1>6, <1>7, <1>8, <1>10 DEF x

LEMMA StarTypes ==
    ASSUME TrackedBounds, TrackedTypes
    PROVE  /\ TA!NoStar.call = MaxCalls + 1 /\ TA!NoStar \notin Stars
           /\ TA!NoForm.call = MaxCalls + 1 /\ TA!NoForm \notin Forms /\ TA!NoForm \notin Dialogs
           /\ TA!NoStar.call # 0 /\ TA!NoStar.call \notin TA!Call
           /\ \A c \in Coin : star[c] # TA!NoStar =>
                star[c] \in Stars /\ star[c].on \in BOOLEAN /\ star[c].call \in {0} \cup TA!Call
<1>1. MaxCalls \in Nat
  BY DEF TrackedBounds
<1>2. TA!NoStar.call = MaxCalls + 1 /\ TA!NoForm.call = MaxCalls + 1
  BY DEF TA!NoStar, TA!NoForm
<1>3. \A x \in Stars : x.on \in BOOLEAN /\ x.call \in 0..MaxCalls
  BY DEF Stars
<1>4. \A x \in Forms \cup Dialogs : x.call \in 0..MaxCalls
  BY DEF Forms, Dialogs
<1>5. 0..MaxCalls = {0} \cup TA!Call /\ MaxCalls + 1 \notin 0..MaxCalls /\ MaxCalls + 1 # 0
      /\ MaxCalls + 1 \notin TA!Call
  BY <1>1 DEF TA!Call
<1>6. star \in [Coin -> {TA!NoStar} \cup Stars]
  BY DEF TrackedTypes
<1> QED
  BY <1>2, <1>3, <1>4, <1>5, <1>6

\* What is neither a request nor a page: the fields, the dialog, a navigation.
LEMMA FieldsMove ==
    ASSUME TrackedBounds, TrackedInv,
           UNCHANGED <<rows, page, chip, q, star, calls, doubt, overtaken>>,
           form' \in {TA!NoForm} \cup Forms, form' # TA!NoForm => form'.coin \in page.assets,
           dialog' \in {TA!NoForm} \cup Dialogs,
           reading' \in {TA!NoRead} \cup Readings, reading # TA!NoRead => reading' # TA!NoRead
    PROVE  TrackedInv'
<1>1. TrackedTypes'
  BY DEF TrackedInv, TrackedTypes
<1>2. SentFirst' /\ LostDoubted' /\ StarCalls' /\ StarsFollow' /\ LastStands'
  BY DEF TrackedInv, SentFirst, LostDoubted, StarCalls, StarsFollow, LastStands, Out, TA!Sent
<1>3. ListsFollow'
  BY DEF TrackedInv, ListsFollow, TA!Sure, TA!Sent
<1> QED
  BY <1>1, <1>2, <1>3 DEF TrackedInv

\* A request leaves from the portfolio.
LEMMA HoldingAsked ==
    ASSUME TrackedBounds, TrackedInv, NEW c \in Coin, NEW to_ \in 0..MaxQty,
           TA!Post(<<"hold", c>>, to_),
           UNCHANGED <<rows, page, chip, q, star, reading, doubt, overtaken>>,
           form' \in {TA!NoForm} \cup Forms, form' # TA!NoForm => form'.coin \in page.assets,
           dialog' \in {TA!NoForm} \cup Dialogs
    PROVE  TrackedInv'
<1> DEFINE l == TA!Last + 1
<1>0. <<"hold", c>> \in TA!Row
  BY DEF TA!Row
<1>1. /\ l \in TA!Call /\ l \in Nat \ {0} /\ l \notin TA!Sent /\ \A n \in TA!Sent : n < l
      /\ calls' \in [TA!Call -> {TA!Unsent} \cup Requests]
      /\ TA!Sent' = TA!Sent \cup {l} /\ SentFirst'
      /\ calls'[l] = [at |-> "sent", row |-> <<"hold", c>>, to |-> to_, lost |-> FALSE]
      /\ \A m \in TA!Call \ {l} : calls'[m] = calls[m]
  BY <1>0, CallSent DEF TrackedInv
<1> HIDE DEF l
<1>2. /\ calls'[l].at = "sent" /\ calls'[l].row = <<"hold", c>> /\ ~calls'[l].lost
      /\ \A n \in TA!Sent : n \in TA!Call /\ n # l /\ calls'[n] = calls[n]
  <2>1. calls'[l].at = "sent" /\ calls'[l].row = <<"hold", c>>
    BY <1>1
  <2>2. calls'[l].lost = FALSE
    BY <1>1
  <2>3. \A n \in TA!Sent : n \in TA!Call /\ n # l /\ calls'[n] = calls[n]
    BY <1>1, SentRequests DEF TrackedInv
  <2> QED
    BY <2>1, <2>2, <2>3
<1>3. TrackedTypes'
  BY <1>1 DEF TrackedInv, TrackedTypes
<1>4. LostDoubted'
  BY <1>1, <1>2 DEF TrackedInv, LostDoubted
<1>5. ListsFollow'
  BY <1>1, <1>2 DEF TrackedInv, ListsFollow, TA!Sure
<1>6. Out' = Out \cup {l} /\ l \notin Out
  BY <1>1, <1>2 DEF Out
<1>7. StarCalls'
  BY <1>1, <1>2, <1>6 DEF TrackedInv, StarCalls, Out
<1>8. StarsFollow'
  <2> SUFFICES ASSUME NEW d \in Coin, star[d] # TA!NoStar, <<"watch", d>> \notin doubt
               PROVE  /\ \A n \in Out' : calls'[n].row = <<"watch", d>> => n = star[d].call
                      /\ star[d].call = 0 \/ calls'[star[d].call].at = "ok" => (star[d].on <=> rows[<<"watch", d>>] = 1)
                      /\ star[d].call # 0 /\ calls'[star[d].call].at # "ok" => (star[d].on <=> rows[<<"watch", d>>] # 1)
    BY DEF StarsFollow
  <2>1. star[d].call \in TA!Call => star[d].call \in TA!Sent
    BY DEF TrackedInv, StarCalls, Out
  <2>2. star[d].call \in TA!Call => calls'[star[d].call] = calls[star[d].call]
    BY <1>2, <2>1
  <2>3. star[d].call \in {0} \cup TA!Call
    BY StarTypes DEF TrackedInv
  <2>4. \A n \in Out' : calls'[n].row = <<"watch", d>> => n = star[d].call
    BY <1>2, <1>6 DEF TrackedInv, StarsFollow, Out
  <2> QED
    BY <2>2, <2>3, <2>4 DEF TrackedInv, StarsFollow
<1>9. LastStands'
  BY <1>1, <1>2 DEF TrackedInv, LastStands
<1> QED
  BY <1>1, <1>3, <1>4, <1>5, <1>7, <1>8, <1>9 DEF TrackedInv

\* A star turns: it had no request under way, and no other request has its row.
LEMMA StarTurns ==
    ASSUME TrackedBounds, TrackedInv, NEW c \in Coin, TA!Toggle(c)
    PROVE  TrackedInv'
<1> DEFINE l == TA!Last + 1
           w == <<"watch", c>>
           to_ == IF star[c].on THEN 0 ELSE 1
<1>0. w \in TA!Row /\ to_ \in 0..MaxQty
  BY DEF TA!Row, TrackedBounds
<1>1. /\ l \in TA!Call /\ l \in Nat \ {0} /\ l \notin TA!Sent /\ \A n \in TA!Sent : n < l
      /\ calls' \in [TA!Call -> {TA!Unsent} \cup Requests]
      /\ TA!Sent' = TA!Sent \cup {l} /\ SentFirst'
      /\ calls'[l] = [at |-> "sent", row |-> w, to |-> to_, lost |-> FALSE]
      /\ \A m \in TA!Call \ {l} : calls'[m] = calls[m]
  <2>1. TA!Post(w, to_)
    BY DEF TA!Toggle
  <2> QED
    BY <1>0, <2>1, CallSent DEF TrackedInv
<1>2. /\ star[c].call = 0 /\ star[c] # TA!NoStar /\ star[c].on \in BOOLEAN
      /\ star' = [star EXCEPT ![c] = [on |-> ~star[c].on, call |-> l]]
      /\ UNCHANGED <<rows, page, chip, q, form, dialog, reading, doubt, overtaken>>
  BY StarTypes DEF TA!Toggle, TrackedInv
<1> HIDE DEF l
<1>3. /\ calls'[l].at = "sent" /\ calls'[l].row = w /\ ~calls'[l].lost /\ calls'[l].to = to_
      /\ \A n \in TA!Sent : n \in TA!Call /\ n # l /\ calls'[n] = calls[n]
  <2>1. calls'[l].at = "sent" /\ calls'[l].row = w /\ calls'[l].to = to_
    BY <1>1
  <2>2. calls'[l].lost = FALSE
    BY <1>1
  <2>3. \A n \in TA!Sent : n \in TA!Call /\ n # l /\ calls'[n] = calls[n]
    BY <1>1, SentRequests DEF TrackedInv
  <2> QED
    BY <2>1, <2>2, <2>3
<1>4. /\ star'[c].call = l /\ (star'[c].on <=> ~star[c].on) /\ star'[c] \in Stars
      /\ \A d \in Coin \ {c} : star'[d] = star[d]
      /\ star' \in [Coin -> {TA!NoStar} \cup Stars]
  <2>1. [on |-> ~star[c].on, call |-> l] \in Stars
    BY <1>1, <1>2 DEF Stars, TA!Call
  <2> QED
    BY <1>2, <2>1 DEF TrackedInv, TrackedTypes
<1>5. TrackedTypes'
  BY <1>1, <1>2, <1>4 DEF TrackedInv, TrackedTypes
<1>6. LostDoubted'
  BY <1>1, <1>2, <1>3 DEF TrackedInv, LostDoubted
<1>7. ListsFollow'
  BY <1>1, <1>2, <1>3 DEF TrackedInv, ListsFollow, TA!Sure
<1>8. Out' = Out \cup {l} /\ l \notin Out
  BY <1>1, <1>3 DEF Out
<1>9. StarCalls'
  <2> SUFFICES ASSUME NEW d \in Coin, star'[d].call \in TA!Call
               PROVE  /\ star'[d].call \in Out' /\ calls'[star'[d].call].row = <<"watch", d>>
                      /\ ~calls'[star'[d].call].lost
                      /\ calls'[star'[d].call].to = IF star'[d].on THEN 1 ELSE 0
    BY DEF StarCalls
  <2>1. CASE d = c
    BY <1>3, <1>4, <1>8, <2>1
  <2>2. CASE d # c
    <3>1. star'[d] = star[d]
      BY <1>4, <2>2
    <3>2. /\ star[d].call \in Out /\ calls[star[d].call].row = <<"watch", d>>
          /\ ~calls[star[d].call].lost
          /\ calls[star[d].call].to = IF star[d].on THEN 1 ELSE 0
      BY <3>1 DEF TrackedInv, StarCalls
    <3>3. star[d].call \in Out' /\ calls'[star[d].call] = calls[star[d].call]
      BY <1>3, <1>8, <3>2 DEF Out
    <3> QED
      BY <3>1, <3>2, <3>3
  <2> QED
    BY <2>1, <2>2
<1>10. StarsFollow'
  <2> SUFFICES ASSUME NEW d \in Coin, star'[d] # TA!NoStar, <<"watch", d>> \notin doubt
               PROVE  /\ \A n \in Out' : calls'[n].row = <<"watch", d>> => n = star'[d].call
                      /\ star'[d].call = 0 \/ calls'[star'[d].call].at = "ok" => (star'[d].on <=> rows[<<"watch", d>>] = 1)
                      /\ star'[d].call # 0 /\ calls'[star'[d].call].at # "ok" => (star'[d].on <=> rows[<<"watch", d>>] # 1)
    BY <1>2 DEF StarsFollow
  <2>1. CASE d = c
    <3>1. \A n \in Out : calls[n].row # w
      <4>1. \A n \in Out : n # 0
        BY SentRequests DEF Out, TA!Call, TrackedInv
      <4> QED
        BY <1>2, <2>1, <4>1 DEF TrackedInv, StarsFollow
    <3>2. \A n \in Out' : calls'[n].row = w => n = l
      BY <1>3, <1>8, <3>1 DEF Out
    <3>3. star[c].on <=> rows[w] = 1
      BY <1>2, <2>1 DEF TrackedInv, StarsFollow
    <3> QED
      BY <1>1, <1>3, <1>4, <2>1, <3>2, <3>3
  <2>2. CASE d # c
    <3>1. star'[d] = star[d] /\ w # <<"watch", d>>
      BY <1>4, <2>2
    <3>2. star[d].call \in TA!Call => star[d].call \in TA!Sent
      BY DEF TrackedInv, StarCalls, Out
    <3>3. star[d].call \in TA!Call => calls'[star[d].call] = calls[star[d].call]
      BY <1>3, <3>2
    <3>4. star[d].call \in {0} \cup TA!Call
      BY <3>1, StarTypes DEF TrackedInv
    <3>5. \A n \in Out' : calls'[n].row = <<"watch", d>> => n = star[d].call
      BY <1>3, <1>8, <3>1 DEF TrackedInv, StarsFollow, Out
    <3> QED
      BY <3>1, <3>3, <3>4, <3>5 DEF TrackedInv, StarsFollow
  <2> QED
    BY <2>1, <2>2
<1>11. LastStands'
  BY <1>1, <1>2, <1>3 DEF TrackedInv, LastStands
<1> QED
  BY <1>1, <1>5, <1>6, <1>7, <1>9, <1>10, <1>11 DEF TrackedInv

LEMMA CallBecomes ==
    ASSUME TrackedTypes, NEW n \in TA!Sent, NEW v \in {"sent", "ok", "failed", "told", "over"},
           calls' = [calls EXCEPT ![n].at = v]
    PROVE  /\ calls' \in [TA!Call -> {TA!Unsent} \cup Requests]
           /\ TA!Sent' = TA!Sent
           /\ calls'[n].at = v /\ calls'[n].row = calls[n].row /\ calls'[n].to = calls[n].to
           /\ calls'[n].lost = calls[n].lost
           /\ \A m \in TA!Sent \ {n} : calls'[m] = calls[m]
<1> DEFINE x == [calls[n] EXCEPT !.at = v]
<1>1. calls[n] \in Requests /\ n \in TA!Call
  BY SentRequests
<1>2. x \in Requests
  <2>1. ASSUME NEW y \in Requests PROVE [y EXCEPT !.at = v] \in Requests
    BY DEF Requests
  <2> QED
    BY <1>1, <2>1
<1>3. x.at = v /\ x.row = calls[n].row /\ x.to = calls[n].to
  BY <1>1 DEF Requests
<1>4. x.lost = calls[n].lost
  BY <1>1 DEF Requests
<1>5. calls' = [calls EXCEPT ![n] = x]
  OBVIOUS
<1> HIDE DEF x
<1>6. /\ calls' \in [TA!Call -> {TA!Unsent} \cup Requests]
      /\ TA!Sent' = TA!Sent
      /\ calls'[n] = x
      /\ \A m \in TA!Call \ {n} : calls'[m] = calls[m]
  BY <1>2, <1>5, CallMoves
<1>7. \A m \in TA!Sent : m \in TA!Call
  BY SentRequests
<1> QED
  BY <1>3, <1>4, <1>6, <1>7

\* The server answers a request: it has left the row alone or written what was asked.
LEMMA ServedTypes ==
    ASSUME TrackedInv, NEW n \in TA!Sent, NEW at_ \in {"ok", "failed"}, TA!Served(n, at_)
    PROVE  /\ calls[n].at = "sent" /\ n \in Out
           /\ calls' \in [TA!Call -> {TA!Unsent} \cup Requests]
           /\ TA!Sent' = TA!Sent
           /\ calls'[n].row = calls[n].row /\ calls'[n].to = calls[n].to
           /\ calls'[n].lost = calls[n].lost
           /\ calls[n].lost => calls'[n].at = "over"
           /\ ~calls[n].lost => calls'[n].at = at_
           /\ \A m \in TA!Sent \ {n} : calls'[m] = calls[m]
           /\ UNCHANGED <<page, chip, q, star, form, dialog, reading, doubt>>
<1>1. PICK v \in {"sent", "ok", "failed", "told", "over"} :
        /\ calls' = [calls EXCEPT ![n].at = v]
        /\ calls[n].lost => v = "over"
        /\ ~calls[n].lost => v = at_
  BY DEF TA!Served
<1>2. /\ calls' \in [TA!Call -> {TA!Unsent} \cup Requests]
      /\ TA!Sent' = TA!Sent
      /\ calls'[n].at = v /\ calls'[n].row = calls[n].row /\ calls'[n].to = calls[n].to
      /\ calls'[n].lost = calls[n].lost
      /\ \A m \in TA!Sent \ {n} : calls'[m] = calls[m]
  BY <1>1, CallBecomes DEF TrackedInv
<1>3. calls[n].at = "sent" /\ UNCHANGED <<page, chip, q, star, form, dialog, reading, doubt>>
  BY DEF TA!Served
<1>4. n \in Out
  BY <1>3 DEF Out
<1> QED
  BY <1>1, <1>2, <1>3, <1>4

\* What stays of the stars when the server answers.
LEMMA ServedStars ==
    ASSUME TrackedBounds, TrackedInv, NEW n \in TA!Sent, NEW at_ \in {"ok", "failed"}, TA!Served(n, at_)
    PROVE  /\ StarCalls' /\ Out' \subseteq Out /\ LostDoubted'
           /\ \A c \in Coin : star[c] # TA!NoStar /\ <<"watch", c>> \notin doubt =>
                /\ \A m \in Out' : calls'[m].row = <<"watch", c>> => m = star[c].call
                /\ calls[n].row = <<"watch", c>> => star[c].call = n /\ ~calls[n].lost
<1>1. /\ calls[n].at = "sent" /\ n \in Out
      /\ TA!Sent' = TA!Sent
      /\ calls'[n].row = calls[n].row /\ calls'[n].to = calls[n].to
      /\ calls'[n].lost = calls[n].lost
      /\ calls[n].lost => calls'[n].at = "over"
      /\ ~calls[n].lost => calls'[n].at = at_
      /\ \A m \in TA!Sent \ {n} : calls'[m] = calls[m]
      /\ UNCHANGED <<page, star, doubt>>
  BY ServedTypes
<1>2. Out' \subseteq Out /\ (~calls[n].lost => n \in Out')
  BY <1>1 DEF Out
<1>3. \A m \in Out \ {n} : m \in Out'
  BY <1>1 DEF Out
<1>4. LostDoubted'
  BY <1>1 DEF TrackedInv, LostDoubted
<1>5. StarCalls'
  <2> SUFFICES ASSUME NEW c \in Coin, star[c].call \in TA!Call
               PROVE  /\ star[c].call \in Out' /\ calls'[star[c].call].row = <<"watch", c>>
                      /\ ~calls'[star[c].call].lost
                      /\ calls'[star[c].call].to = IF star[c].on THEN 1 ELSE 0
    BY <1>1 DEF StarCalls
  <2>1. /\ star[c].call \in Out /\ calls[star[c].call].row = <<"watch", c>>
        /\ ~calls[star[c].call].lost
        /\ calls[star[c].call].to = IF star[c].on THEN 1 ELSE 0
    BY DEF TrackedInv, StarCalls
  <2>2. CASE star[c].call = n
    BY <1>1, <1>2, <2>1, <2>2
  <2>3. CASE star[c].call # n
    BY <1>1, <1>3, <2>1, <2>3 DEF Out
  <2> QED
    BY <2>2, <2>3
<1>6. ASSUME NEW c \in Coin, star[c] # TA!NoStar, <<"watch", c>> \notin doubt
      PROVE  /\ \A m \in Out' : calls'[m].row = <<"watch", c>> => m = star[c].call
             /\ calls[n].row = <<"watch", c>> => star[c].call = n /\ ~calls[n].lost
  <2>1. \A m \in Out : calls[m].row = <<"watch", c>> => m = star[c].call
    BY <1>6 DEF TrackedInv, StarsFollow
  <2>2. \A m \in Out' : m \in Out /\ calls'[m].row = calls[m].row
    BY <1>1, <1>2 DEF Out
  <2>3. star[c].call = n => ~calls[n].lost
    BY SentRequests DEF TrackedInv, StarCalls
  <2> QED
    BY <1>1, <2>1, <2>2, <2>3
<1> QED
  BY <1>2, <1>4, <1>5, <1>6

LEMMA RequestFails ==
    ASSUME TrackedBounds, TrackedInv, NEW n \in TA!Sent, TA!Fail(n)
    PROVE  TrackedInv'
<1>0. TA!Served(n, "failed") /\ UNCHANGED <<rows, overtaken>>
  BY DEF TA!Fail
<1>1. /\ calls[n].at = "sent" /\ n \in Out
      /\ calls' \in [TA!Call -> {TA!Unsent} \cup Requests]
      /\ TA!Sent' = TA!Sent
      /\ calls'[n].row = calls[n].row /\ calls'[n].to = calls[n].to
      /\ calls'[n].lost = calls[n].lost
      /\ calls[n].lost => calls'[n].at = "over"
      /\ ~calls[n].lost => calls'[n].at = "failed"
      /\ \A m \in TA!Sent \ {n} : calls'[m] = calls[m]
      /\ UNCHANGED <<page, chip, q, star, form, dialog, reading, doubt>>
  BY <1>0, ServedTypes
<1>2. TrackedTypes'
  BY <1>0, <1>1 DEF TrackedInv, TrackedTypes
<1>3. SentFirst'
  BY <1>1 DEF TrackedInv, SentFirst
<1>4. /\ StarCalls' /\ LostDoubted'
      /\ \A c \in Coin : star[c] # TA!NoStar /\ <<"watch", c>> \notin doubt =>
           \A m \in Out' : calls'[m].row = <<"watch", c>> => m = star[c].call
  BY <1>0, ServedStars
<1>5. calls'[n].at # "ok" /\ calls'[n].at # "told"
  BY <1>1, SentRequests DEF TrackedInv
<1>6. ListsFollow'
  BY <1>0, <1>1 DEF TrackedInv, ListsFollow, TA!Sure
<1>7. StarsFollow'
  <2> SUFFICES ASSUME NEW c \in Coin, star[c] # TA!NoStar, <<"watch", c>> \notin doubt
               PROVE  /\ star[c].call = 0 \/ calls'[star[c].call].at = "ok" => (star[c].on <=> rows[<<"watch", c>>] = 1)
                      /\ star[c].call # 0 /\ calls'[star[c].call].at # "ok" => (star[c].on <=> rows[<<"watch", c>>] # 1)
    BY <1>0, <1>1, <1>4 DEF StarsFollow
  <2>1. /\ star[c].call = 0 \/ calls[star[c].call].at = "ok" => (star[c].on <=> rows[<<"watch", c>>] = 1)
        /\ star[c].call # 0 /\ calls[star[c].call].at # "ok" => (star[c].on <=> rows[<<"watch", c>>] # 1)
    BY DEF TrackedInv, StarsFollow
  <2>2. star[c].call = n \/ star[c].call = 0 \/ calls'[star[c].call] = calls[star[c].call]
    BY <1>1, StarTypes DEF TrackedInv, StarCalls, Out
  <2>3. n # 0
    BY SentRequests DEF TrackedInv, TA!Call
  <2> QED
    BY <1>1, <1>5, <2>1, <2>2, <2>3
<1>8. LastStands'
  BY <1>0, <1>1, <1>5 DEF TrackedInv, LastStands
<1> QED
  BY <1>2, <1>3, <1>4, <1>6, <1>7, <1>8 DEF TrackedInv

\* The row is written.
LEMMA RowWritten ==
    ASSUME TrackedBounds, TrackedInv, NEW n \in TA!Sent, TA!Write(n, calls[n].to)
    PROVE  TrackedInv'
<1> DEFINE r == calls[n].row
<1>0. /\ TA!Served(n, "ok") /\ rows' = [rows EXCEPT ![r] = calls[n].to]
      /\ overtaken' = IF TA!Overtakes(n) THEN overtaken \cup {r} ELSE overtaken
  BY DEF TA!Write
<1>1. /\ calls[n].at = "sent" /\ n \in Out
      /\ calls' \in [TA!Call -> {TA!Unsent} \cup Requests]
      /\ TA!Sent' = TA!Sent
      /\ calls'[n].row = r /\ calls'[n].to = calls[n].to
      /\ calls'[n].lost = calls[n].lost
      /\ calls[n].lost => calls'[n].at = "over"
      /\ ~calls[n].lost => calls'[n].at = "ok"
      /\ \A m \in TA!Sent \ {n} : calls'[m] = calls[m]
      /\ UNCHANGED <<page, chip, q, star, form, dialog, reading, doubt>>
  BY <1>0, ServedTypes
<1>2. /\ r \in TA!Row /\ calls[n].to \in 0..MaxQty
      /\ \A m \in TA!Sent : m \in Nat /\ m # 0
  BY SentRequests DEF TrackedInv, TA!Call
<1>3. /\ rows' \in [TA!Row -> 0..MaxQty] /\ rows'[r] = calls[n].to
      /\ \A x \in TA!Row \ {r} : rows'[x] = rows[x]
  BY <1>0, <1>2 DEF TrackedInv, TrackedTypes
<1>4. TrackedTypes'
  BY <1>0, <1>1, <1>2, <1>3 DEF TrackedInv, TrackedTypes
<1>5. SentFirst'
  BY <1>1 DEF TrackedInv, SentFirst
<1>6. /\ StarCalls' /\ LostDoubted'
      /\ \A c \in Coin : star[c] # TA!NoStar /\ <<"watch", c>> \notin doubt =>
            /\ \A m \in Out' : calls'[m].row = <<"watch", c>> => m = star[c].call
            /\ r = <<"watch", c>> => star[c].call = n /\ ~calls[n].lost
  BY <1>0, ServedStars
<1> HIDE DEF r
<1>7. ListsFollow'
  <2> SUFFICES ASSUME NEW x \in TA!Row, x[1] \in TA!Tables[page.at], TA!Sure(x)
               PROVE  \/ page.list[x] = rows'[x] \/ reading # TA!NoRead
                      \/ \E m \in TA!Sent : calls'[m].at = "ok" /\ calls'[m].row = x
    BY <1>1 DEF ListsFollow, TA!Sure
  <2>1. CASE x = r
    <3>1. ~calls[n].lost
      BY <1>1, <2>1 DEF TrackedInv, LostDoubted, TA!Sure, r
    <3> QED
      BY <1>1, <2>1, <3>1
  <2>2. CASE x # r
    <3>1. \/ page.list[x] = rows[x] \/ reading # TA!NoRead
          \/ \E m \in TA!Sent : calls[m].at = "ok" /\ calls[m].row = x
      BY DEF TrackedInv, ListsFollow
    <3> QED
      BY <1>1, <1>3, <2>2, <3>1
  <2> QED
    BY <2>1, <2>2
<1>8. StarsFollow'
  <2> SUFFICES ASSUME NEW c \in Coin, star[c] # TA!NoStar, <<"watch", c>> \notin doubt
               PROVE  /\ star[c].call = 0 \/ calls'[star[c].call].at = "ok" => (star[c].on <=> rows'[<<"watch", c>>] = 1)
                      /\ star[c].call # 0 /\ calls'[star[c].call].at # "ok" => (star[c].on <=> rows'[<<"watch", c>>] # 1)
    BY <1>1, <1>6 DEF StarsFollow
  <2>0. <<"watch", c>> \in TA!Row
    BY DEF TA!Row
  <2>1. CASE r = <<"watch", c>>
    <3>1. star[c].call = n /\ calls'[n].at = "ok"
      BY <1>1, <1>6, <2>1
    <3>2. calls[n].to = IF star[c].on THEN 1 ELSE 0
      BY <3>1, SentRequests DEF TrackedInv, StarCalls
    <3>3. star[c].on <=> rows'[<<"watch", c>>] = 1
      BY <1>3, <2>1, <3>2
    <3> QED
      BY <3>1, <3>3
  <2>2. CASE r # <<"watch", c>>
    <3>1. /\ star[c].call = 0 \/ calls[star[c].call].at = "ok" => (star[c].on <=> rows[<<"watch", c>>] = 1)
          /\ star[c].call # 0 /\ calls[star[c].call].at # "ok" => (star[c].on <=> rows[<<"watch", c>>] # 1)
      BY DEF TrackedInv, StarsFollow
    <3>2. star[c].call # n
      BY <1>2, <2>2, SentRequests DEF TrackedInv, StarCalls, r
    <3>3. star[c].call = 0 \/ calls'[star[c].call] = calls[star[c].call]
      BY <1>1, <3>2, StarTypes DEF TrackedInv, StarCalls, Out
    <3>4. rows'[<<"watch", c>>] = rows[<<"watch", c>>]
      BY <1>3, <2>0, <2>2
    <3>5. star[c].call = 0 \/ calls'[star[c].call].at = calls[star[c].call].at
      BY <3>3
    <3> QED
      BY <3>1, <3>4, <3>5
  <2> QED
    BY <2>1, <2>2
<1>9. LastStands'
  <2> SUFFICES ASSUME NEW m \in TA!Sent, calls'[m].at \in {"ok", "told"}, calls'[m].row \notin overtaken',
                      \A k \in TA!Sent : k > m => calls'[k].row # calls'[m].row
               PROVE  rows'[calls'[m].row] = calls'[m].to
    BY <1>1 DEF LastStands
  <2>0. \A k \in TA!Sent : calls'[k].row = calls[k].row /\ calls'[k].to = calls[k].to
    BY <1>1 DEF r
  <2>1. CASE m = n
    BY <1>1, <1>3, <2>1
  <2>2. CASE m # n /\ calls[m].row = r
    <3>1. calls[m].at \in {"ok", "told"}
      BY <1>1, <2>2
    <3>2. ~(n > m)
      BY <2>0, <2>2 DEF r
    <3>3. m > n
      BY <1>2, <2>2, <3>2
    <3>4. TA!Overtakes(n)
      BY <2>2, <3>1, <3>3 DEF TA!Overtakes, r
    <3> QED
      BY <1>0, <2>0, <2>2, <3>4 DEF r
  <2>3. CASE m # n /\ calls[m].row # r
    <3>1. calls[m].at \in {"ok", "told"} /\ calls[m].row \notin overtaken
      BY <1>0, <1>1, <2>3
    <3>2. \A k \in TA!Sent : k > m => calls[k].row # calls[m].row
      BY <2>0
    <3>3. rows[calls[m].row] = calls[m].to
      BY <3>1, <3>2 DEF TrackedInv, LastStands
    <3>4. calls[m].row \in TA!Row
      BY SentRequests DEF TrackedInv
    <3> QED
      BY <1>3, <2>0, <2>3, <3>3, <3>4
  <2> QED
    BY <2>1, <2>2, <2>3
<1> QED
  BY <1>4, <1>5, <1>6, <1>7, <1>8, <1>9 DEF TrackedInv

\* The answer comes to the page: the star keeps or takes back what it says.
LEMMA AnswerHeard ==
    ASSUME TrackedBounds, TrackedInv, NEW n \in TA!Sent, NEW v \in {"told", "over"},
           \/ calls[n].at = "ok" /\ v = "told" /\ reading' # TA!NoRead
           \/ calls[n].at = "failed" /\ v = "over" /\ reading' = reading,
           TA!Heard(n, v),
           star' = [c \in Coin |-> IF star[c].call = n
                                   THEN [on |-> IF v = "over" THEN ~star[c].on ELSE star[c].on, call |-> 0]
                                   ELSE star[c]],
           UNCHANGED <<rows, page, chip, q, doubt, overtaken>>,
           form' \in {TA!NoForm} \cup Forms, form' # TA!NoForm => form'.coin \in page.assets,
           dialog' \in {TA!NoForm} \cup Dialogs,
           reading' \in {TA!NoRead} \cup Readings
    PROVE  TrackedInv'
<1>1. /\ calls' \in [TA!Call -> {TA!Unsent} \cup Requests]
      /\ TA!Sent' = TA!Sent
      /\ calls'[n].at = v /\ calls'[n].row = calls[n].row /\ calls'[n].to = calls[n].to
      /\ calls'[n].lost = calls[n].lost
      /\ \A m \in TA!Sent \ {n} : calls'[m] = calls[m]
  BY CallBecomes DEF TA!Heard, TrackedInv
<1>2. n \in TA!Call /\ n # 0 /\ n \in Out
  BY SentRequests DEF TrackedInv, TA!Call, Out
<1>3. Out' = Out \ {n}
  BY <1>1 DEF Out
<1>4. ASSUME NEW c \in Coin
      PROVE  /\ star[c].call = n => star'[c] \in Stars /\ star'[c].call = 0 /\ star'[c] # TA!NoStar
             /\ star[c].call = n => (star'[c].on <=> IF v = "over" THEN ~star[c].on ELSE star[c].on)
             /\ star[c].call # n => star'[c] = star[c]
             /\ star'[c] \in {TA!NoStar} \cup Stars
  <2>1. CASE star[c].call = n
    <3>1. star[c] # TA!NoStar /\ star[c].on \in BOOLEAN
      BY <1>2, <2>1, StarTypes DEF TrackedInv
    <3>2. [on |-> IF v = "over" THEN ~star[c].on ELSE star[c].on, call |-> 0] \in Stars
      <4>1. (IF v = "over" THEN ~star[c].on ELSE star[c].on) \in BOOLEAN /\ 0 \in 0..MaxCalls
        <5>1. 0 \in 0..MaxCalls
          BY DEF TrackedBounds
        <5>2. star[c].on \in BOOLEAN /\ (~star[c].on) \in BOOLEAN
          BY <3>1
        <5> QED
          BY <5>1, <5>2
      <4> QED
        BY <4>1 DEF Stars
    <3> QED
      BY <2>1, <3>2, StarTypes DEF TrackedInv
  <2>2. CASE star[c].call # n
    BY <2>2 DEF TrackedInv, TrackedTypes
  <2> QED
    BY <2>1, <2>2
<1>5. TrackedTypes'
  BY <1>1, <1>4 DEF TrackedInv, TrackedTypes
<1>6. SentFirst'
  BY <1>1 DEF TrackedInv, SentFirst
<1>7. LostDoubted'
  BY <1>1 DEF TrackedInv, LostDoubted
<1>8. ListsFollow'
  BY <1>1 DEF TrackedInv, ListsFollow, TA!Sure
<1>9. StarCalls'
  <2> SUFFICES ASSUME NEW c \in Coin, star'[c].call \in TA!Call
               PROVE  /\ star'[c].call \in Out' /\ calls'[star'[c].call].row = <<"watch", c>>
                      /\ ~calls'[star'[c].call].lost
                      /\ calls'[star'[c].call].to = IF star'[c].on THEN 1 ELSE 0
    BY DEF StarCalls
  <2>1. star[c].call # n /\ star'[c] = star[c]
    BY <1>4 DEF TA!Call
  <2>2. /\ star[c].call \in Out /\ calls[star[c].call].row = <<"watch", c>>
        /\ ~calls[star[c].call].lost
        /\ calls[star[c].call].to = IF star[c].on THEN 1 ELSE 0
    BY <2>1 DEF TrackedInv, StarCalls
  <2>3. calls'[star[c].call] = calls[star[c].call]
    BY <1>1, <2>1, <2>2 DEF Out
  <2> QED
    BY <1>3, <2>1, <2>2, <2>3
<1>10. StarsFollow'
  <2> SUFFICES ASSUME NEW c \in Coin, star'[c] # TA!NoStar, <<"watch", c>> \notin doubt
               PROVE  /\ \A m \in Out' : calls'[m].row = <<"watch", c>> => m = star'[c].call
                      /\ star'[c].call = 0 \/ calls'[star'[c].call].at = "ok" => (star'[c].on <=> rows[<<"watch", c>>] = 1)
                      /\ star'[c].call # 0 /\ calls'[star'[c].call].at # "ok" => (star'[c].on <=> rows[<<"watch", c>>] # 1)
    BY DEF StarsFollow
  <2>1. star[c] # TA!NoStar
    BY <1>2, <1>4, StarTypes DEF TrackedInv
  <2>2. /\ \A m \in Out : calls[m].row = <<"watch", c>> => m = star[c].call
        /\ star[c].call = 0 \/ calls[star[c].call].at = "ok" => (star[c].on <=> rows[<<"watch", c>>] = 1)
        /\ star[c].call # 0 /\ calls[star[c].call].at # "ok" => (star[c].on <=> rows[<<"watch", c>>] # 1)
    BY <2>1 DEF TrackedInv, StarsFollow
  <2>3. \A m \in Out' : m # n /\ m \in Out /\ calls'[m] = calls[m]
    BY <1>1, <1>3 DEF Out
  <2>4. CASE star[c].call = n
    <3>1. \A m \in Out' : calls'[m].row # <<"watch", c>>
      BY <2>2, <2>3, <2>4
    <3>2. star'[c].on <=> rows[<<"watch", c>>] = 1
      BY <1>2, <1>4, <2>2, <2>4
    <3> QED
      BY <1>4, <2>4, <3>1, <3>2
  <2>5. CASE star[c].call # n
    <3>1. star'[c] = star[c]
      BY <1>4, <2>5
    <3>2. star[c].call = 0 \/ calls'[star[c].call].at = calls[star[c].call].at
      BY <1>1, <2>1, <2>5, StarTypes DEF TrackedInv, StarCalls, Out
    <3> QED
      BY <2>2, <2>3, <3>1, <3>2
  <2> QED
    BY <2>4, <2>5
<1>11. LastStands'
  <2>1. \A m \in TA!Sent : /\ calls'[m].row = calls[m].row /\ calls'[m].to = calls[m].to
                            /\ calls'[m].at \in {"ok", "told"} => calls[m].at \in {"ok", "told"}
    BY <1>1
  <2> QED
    BY <1>1, <2>1 DEF TrackedInv, LastStands
<1> QED
  BY <1>5, <1>6, <1>7, <1>8, <1>9, <1>10, <1>11 DEF TrackedInv

LEMMA PushReads ==
    ASSUME NEW to_ \in TA!Pages, TA!Push(to_)
    PROVE  reading' # TA!NoRead /\ reading' \in {TA!NoRead} \cup Readings
<1>1. reading'.to \in TA!Pages /\ reading' \in Readings
  BY DEF TA!Push, Readings
<1>2. TA!NoRead.to \notin TA!Pages
  BY DEF TA!NoRead, TA!Pages
<1> QED
  BY <1>1, <1>2

LEMMA RefreshReads ==
    ASSUME TrackedTypes, TA!Refresh
    PROVE  reading' # TA!NoRead /\ reading' \in {TA!NoRead} \cup Readings
<1>1. page.at \in TA!Pages
  BY DEF TrackedTypes, PagesRead
<1>2. [to |-> page.at, anew |-> FALSE] \in Readings /\ [to |-> page.at, anew |-> FALSE].to \in TA!Pages
  BY <1>1 DEF Readings
<1>3. TA!NoRead.to \notin TA!Pages
  BY DEF TA!NoRead, TA!Pages
<1> QED
  BY <1>2, <1>3 DEF TA!Refresh, TrackedTypes

LEMMA IdleForm ==
    ASSUME TrackedBounds, TrackedInv, NEW n \in TA!Sent, TA!FormIdle(n)
    PROVE  form' \in {TA!NoForm} \cup Forms /\ (form' # TA!NoForm => form'.coin \in page.assets)
<1>1. form \in {TA!NoForm} \cup Forms /\ (form # TA!NoForm => form.coin \in page.assets)
  BY DEF TrackedInv, TrackedTypes
<1>2. CASE form' = form
  BY <1>1, <1>2
<1>3. CASE form.call = n /\ form' = [form EXCEPT !.call = 0]
  <2>1. n \in TA!Call
    BY SentRequests DEF TrackedInv
  <2>2. form \in Forms
    BY <1>1, <1>3, <2>1, StarTypes DEF TrackedInv, TA!Call, TrackedBounds
  <2>3. \A x \in Forms : [x EXCEPT !.call = 0] \in Forms /\ [x EXCEPT !.call = 0].coin = x.coin
    BY DEF Forms, TrackedBounds
  <2>4. TA!NoForm \notin Forms
    BY StarTypes DEF TrackedInv
  <2> QED
    BY <1>1, <1>3, <2>2, <2>3, <2>4
<1> QED
  BY <1>2, <1>3 DEF TA!FormIdle

LEMMA StarSettles ==
    ASSUME TrackedBounds, TrackedInv, NEW n \in TA!Sent, TA!Toggled(n)
    PROVE  TrackedInv'
<1>1. /\ UNCHANGED <<rows, page, chip, q, form, dialog, doubt, overtaken>>
      /\ \/ calls[n].at = "ok" /\ TA!Heard(n, "told") /\ TA!Settled(n, FALSE) /\ TA!Refresh
         \/ calls[n].at = "failed" /\ TA!Heard(n, "over") /\ TA!Settled(n, TRUE) /\ reading' = reading
  BY DEF TA!Toggled
<1>2. /\ form' \in {TA!NoForm} \cup Forms /\ (form' # TA!NoForm => form'.coin \in page.assets)
      /\ dialog' \in {TA!NoForm} \cup Dialogs
  BY <1>1 DEF TrackedInv, TrackedTypes
<1>3. TA!Refresh => reading' # TA!NoRead /\ reading' \in {TA!NoRead} \cup Readings
  BY RefreshReads DEF TrackedInv
<1>4. CASE calls[n].at = "ok" /\ TA!Heard(n, "told") /\ TA!Settled(n, FALSE) /\ TA!Refresh
  <2>1. star' = [c \in Coin |-> IF star[c].call = n
                                THEN [on |-> IF "told" = "over" THEN ~star[c].on ELSE star[c].on, call |-> 0]
                                ELSE star[c]]
    BY <1>4 DEF TA!Settled
  <2> QED
    BY <1>1, <1>2, <1>3, <1>4, <2>1, AnswerHeard
<1>5. CASE calls[n].at = "failed" /\ TA!Heard(n, "over") /\ TA!Settled(n, TRUE) /\ reading' = reading
  <2>1. star' = [c \in Coin |-> IF star[c].call = n
                                THEN [on |-> IF "over" = "over" THEN ~star[c].on ELSE star[c].on, call |-> 0]
                                ELSE star[c]]
    BY <1>5 DEF TA!Settled
  <2>2. reading' \in {TA!NoRead} \cup Readings
    BY <1>5 DEF TrackedInv, TrackedTypes
  <2> QED
    BY <1>1, <1>2, <1>5, <2>1, <2>2, AnswerHeard
<1> QED
  BY <1>1, <1>4, <1>5

\* No star waits for a request about a holding.
LEMMA NoStarForHolding ==
    ASSUME TrackedInv, NEW n \in TA!Sent, calls[n].row[1] = "hold", star' = star, NEW v
    PROVE  star' = [c \in Coin |-> IF star[c].call = n
                                   THEN [on |-> IF v = "over" THEN ~star[c].on ELSE star[c].on, call |-> 0]
                                   ELSE star[c]]
<1>1. \A c \in Coin : star[c].call # n
  <2> SUFFICES ASSUME NEW c \in Coin, star[c].call = n PROVE FALSE
    OBVIOUS
  <2>1. calls[n].row = <<"watch", c>>
    BY SentRequests DEF TrackedInv, StarCalls
  <2> QED
    BY <2>1
<1> QED
  BY <1>1 DEF TrackedInv, TrackedTypes

LEMMA HoldingComes ==
    ASSUME TrackedBounds, TrackedInv, NEW n \in TA!Sent, TA!HoldingAdded(n)
    PROVE  TrackedInv'
<1>1. /\ UNCHANGED <<rows, page, chip, q, star, dialog, doubt, overtaken>> /\ calls[n].row[1] = "hold"
      /\ \/ calls[n].at = "ok" /\ TA!Heard(n, "told") /\ TA!Push("portfolio")
         \/ calls[n].at = "failed" /\ TA!Heard(n, "over") /\ reading' = reading
  BY DEF TA!HoldingAdded
<1>2. form' \in {TA!NoForm} \cup Forms /\ (form' # TA!NoForm => form'.coin \in page.assets)
  BY IdleForm DEF TA!HoldingAdded
<1>3. dialog' \in {TA!NoForm} \cup Dialogs
  BY <1>1 DEF TrackedInv, TrackedTypes
<1>4. TA!Push("portfolio") => reading' # TA!NoRead /\ reading' \in {TA!NoRead} \cup Readings
  BY PushReads DEF TA!Pages
<1>5. reading' = reading => reading' \in {TA!NoRead} \cup Readings
  BY DEF TrackedInv, TrackedTypes
<1>6. CASE calls[n].at = "ok" /\ TA!Heard(n, "told") /\ TA!Push("portfolio")
  BY <1>1, <1>2, <1>3, <1>4, <1>6, NoStarForHolding, AnswerHeard
<1>7. CASE calls[n].at = "failed" /\ TA!Heard(n, "over") /\ reading' = reading
  BY <1>1, <1>2, <1>3, <1>5, <1>7, NoStarForHolding, AnswerHeard
<1> QED
  BY <1>1, <1>6, <1>7

LEMMA HoldingGoes ==
    ASSUME TrackedBounds, TrackedInv, NEW n \in TA!Sent, TA!HoldingRemoved(n)
    PROVE  TrackedInv'
<1>1. /\ UNCHANGED <<rows, page, chip, q, star, form, doubt, overtaken>> /\ calls[n].row[1] = "hold"
      /\ \/ calls[n].at = "ok" /\ TA!Heard(n, "told") /\ TA!Refresh
         \/ calls[n].at = "failed" /\ TA!Heard(n, "over") /\ reading' = reading
  BY DEF TA!HoldingRemoved
<1>2. form' \in {TA!NoForm} \cup Forms /\ (form' # TA!NoForm => form'.coin \in page.assets)
  BY <1>1 DEF TrackedInv, TrackedTypes
<1>3. dialog' \in {TA!NoForm} \cup Dialogs
  BY DEF TA!HoldingRemoved, TA!CloseFor, TrackedInv, TrackedTypes
<1>4. TA!Refresh => reading' # TA!NoRead /\ reading' \in {TA!NoRead} \cup Readings
  BY RefreshReads DEF TrackedInv
<1>5. reading' = reading => reading' \in {TA!NoRead} \cup Readings
  BY DEF TrackedInv, TrackedTypes
<1>6. CASE calls[n].at = "ok" /\ TA!Heard(n, "told") /\ TA!Refresh
  BY <1>1, <1>2, <1>3, <1>4, <1>6, NoStarForHolding, AnswerHeard
<1>7. CASE calls[n].at = "failed" /\ TA!Heard(n, "over") /\ reading' = reading
  BY <1>1, <1>2, <1>3, <1>5, <1>7, NoStarForHolding, AnswerHeard
<1> QED
  BY <1>1, <1>6, <1>7

\* A request takes a place and is marked as lost.
LEMMA CallLost ==
    ASSUME TrackedTypes, NEW n \in TA!Sent, TA!Lost(n)
    PROVE  /\ calls' \in [TA!Call -> {TA!Unsent} \cup Requests]
           /\ TA!Sent' = TA!Sent
           /\ calls'[n].at = (IF calls[n].at = "sent" THEN "sent" ELSE "over")
           /\ calls'[n].row = calls[n].row /\ calls'[n].to = calls[n].to
           /\ \A m \in TA!Sent \ {n} : calls'[m] = calls[m]
<1> DEFINE v == IF calls[n].at = "sent" THEN "sent" ELSE "over"
           x == [calls[n] EXCEPT !.at = v, !.lost = TRUE]
<1>1. calls[n] \in Requests /\ n \in TA!Call /\ v \in {"sent", "over"}
  BY SentRequests
<1>2. calls' = [calls EXCEPT ![n] = x]
  BY DEF TA!Lost
<1>3. \A y \in Requests, a \in {"sent", "over"} : [y EXCEPT !.at = a, !.lost = TRUE] \in Requests
  BY DEF Requests
<1>4. x \in Requests
  BY <1>1, <1>3
<1>5. x.at = v /\ x.row = calls[n].row /\ x.to = calls[n].to
  BY <1>1 DEF Requests
<1> HIDE DEF x
<1>6. /\ calls' \in [TA!Call -> {TA!Unsent} \cup Requests]
      /\ TA!Sent' = TA!Sent
      /\ calls'[n] = x
      /\ \A m \in TA!Call \ {n} : calls'[m] = calls[m]
  BY <1>2, <1>4, CallMoves
<1>7. \A m \in TA!Sent : m \in TA!Call
  BY SentRequests
<1> QED
  BY <1>5, <1>6, <1>7

LEMMA AnswerLost ==
    ASSUME TrackedBounds, TrackedInv, NEW n \in TA!Sent, TA!LoseAnswer(n)
    PROVE  TrackedInv'
<1>0. /\ calls[n].at \in {"sent", "ok", "failed"} /\ n \in Out
      /\ TA!Lost(n) /\ TA!Settled(n, TRUE) /\ TA!FormIdle(n) /\ TA!CloseFor(n)
      /\ doubt' = doubt \cup {calls[n].row}
      /\ UNCHANGED <<rows, page, chip, q, reading, overtaken>>
  BY DEF TA!LoseAnswer, Out
<1>1. /\ calls' \in [TA!Call -> {TA!Unsent} \cup Requests]
      /\ TA!Sent' = TA!Sent
      /\ calls'[n].at = (IF calls[n].at = "sent" THEN "sent" ELSE "over")
      /\ calls'[n].row = calls[n].row /\ calls'[n].to = calls[n].to
      /\ \A m \in TA!Sent \ {n} : calls'[m] = calls[m]
  BY <1>0, CallLost DEF TrackedInv
<1>2. n \in TA!Call /\ n # 0 /\ calls[n].row \in TA!Row
  BY SentRequests DEF TrackedInv, TA!Call
<1>3. Out' \subseteq Out /\ \A m \in Out \ {n} : m \in Out'
  BY <1>0, <1>1 DEF Out
<1>4. ASSUME NEW c \in Coin
      PROVE  /\ star[c].call = n => star'[c] \in Stars /\ star'[c].call = 0
             /\ star[c].call # n => star'[c] = star[c]
             /\ star'[c] \in {TA!NoStar} \cup Stars
  <2>1. CASE star[c].call = n
    <3>1. star[c] # TA!NoStar /\ star[c].on \in BOOLEAN
      BY <1>2, <2>1, StarTypes DEF TrackedInv
    <3>2. (~star[c].on) \in BOOLEAN /\ 0 \in 0..MaxCalls
      BY DEF TrackedBounds
    <3>3. [on |-> ~star[c].on, call |-> 0] \in Stars
      BY <3>2 DEF Stars
    <3>4. star'[c] = [on |-> ~star[c].on, call |-> 0]
      BY <1>0, <2>1 DEF TA!Settled
    <3> QED
      BY <2>1, <3>3, <3>4
  <2>2. CASE star[c].call # n
    BY <1>0, <2>2 DEF TA!Settled, TrackedInv, TrackedTypes
  <2> QED
    BY <2>1, <2>2
<1>5. TrackedTypes'
  <2>1. form' \in {TA!NoForm} \cup Forms /\ (form' # TA!NoForm => form'.coin \in page.assets)
    BY <1>0, IdleForm
  <2>2. dialog' \in {TA!NoForm} \cup Dialogs
    BY <1>0 DEF TA!CloseFor, TrackedInv, TrackedTypes
  <2>3. star' \in [Coin -> {TA!NoStar} \cup Stars]
    BY <1>0, <1>4 DEF TA!Settled
  <2> QED
    BY <1>0, <1>1, <1>2, <2>1, <2>2, <2>3 DEF TrackedInv, TrackedTypes
<1>6. SentFirst'
  BY <1>1 DEF TrackedInv, SentFirst
<1>7. LostDoubted'
  BY <1>0, <1>1 DEF TrackedInv, LostDoubted
<1>8. ListsFollow'
  <2> SUFFICES ASSUME NEW x \in TA!Row, x[1] \in TA!Tables[page.at], TA!Sure(x)'
               PROVE  \/ page.list[x] = rows[x] \/ reading # TA!NoRead
                      \/ \E m \in TA!Sent : calls'[m].at = "ok" /\ calls'[m].row = x
    BY <1>0, <1>1 DEF ListsFollow
  <2>1. TA!Sure(x) /\ x # calls[n].row
    BY <1>0 DEF TA!Sure
  <2> QED
    BY <1>1, <2>1 DEF TrackedInv, ListsFollow
<1>9. StarCalls'
  <2> SUFFICES ASSUME NEW c \in Coin, star'[c].call \in TA!Call
               PROVE  /\ star'[c].call \in Out' /\ calls'[star'[c].call].row = <<"watch", c>>
                      /\ ~calls'[star'[c].call].lost
                      /\ calls'[star'[c].call].to = IF star'[c].on THEN 1 ELSE 0
    BY DEF StarCalls
  <2>1. star[c].call # n /\ star'[c] = star[c]
    BY <1>4 DEF TA!Call
  <2>2. /\ star[c].call \in Out /\ calls[star[c].call].row = <<"watch", c>>
        /\ ~calls[star[c].call].lost
        /\ calls[star[c].call].to = IF star[c].on THEN 1 ELSE 0
    BY <2>1 DEF TrackedInv, StarCalls
  <2>3. calls'[star[c].call] = calls[star[c].call]
    BY <1>1, <2>1, <2>2 DEF Out
  <2> QED
    BY <1>3, <2>1, <2>2, <2>3
<1>10. StarsFollow'
  <2> SUFFICES ASSUME NEW c \in Coin, star'[c] # TA!NoStar, <<"watch", c>> \notin doubt'
               PROVE  /\ \A m \in Out' : calls'[m].row = <<"watch", c>> => m = star'[c].call
                      /\ star'[c].call = 0 \/ calls'[star'[c].call].at = "ok" => (star'[c].on <=> rows[<<"watch", c>>] = 1)
                      /\ star'[c].call # 0 /\ calls'[star'[c].call].at # "ok" => (star'[c].on <=> rows[<<"watch", c>>] # 1)
    BY <1>0 DEF StarsFollow
  <2>1. calls[n].row # <<"watch", c>> /\ <<"watch", c>> \notin doubt
    BY <1>0
  <2>2. star[c].call # n
    BY <1>2, <2>1 DEF TrackedInv, StarCalls
  <2>3. star'[c] = star[c] /\ star[c] # TA!NoStar
    BY <1>4, <2>2
  <2>4. /\ \A m \in Out : calls[m].row = <<"watch", c>> => m = star[c].call
        /\ star[c].call = 0 \/ calls[star[c].call].at = "ok" => (star[c].on <=> rows[<<"watch", c>>] = 1)
        /\ star[c].call # 0 /\ calls[star[c].call].at # "ok" => (star[c].on <=> rows[<<"watch", c>>] # 1)
    BY <2>1, <2>3 DEF TrackedInv, StarsFollow
  <2>5. \A m \in Out' : m \in Out /\ calls'[m].row = calls[m].row
    BY <1>1, <1>3 DEF Out
  <2>6. star[c].call = 0 \/ calls'[star[c].call].at = calls[star[c].call].at
    BY <1>1, <2>2, <2>3, StarTypes DEF TrackedInv, StarCalls, Out
  <2> QED
    BY <2>3, <2>4, <2>5, <2>6
<1>11. LastStands'
  <2>1. \A m \in TA!Sent : /\ calls'[m].row = calls[m].row /\ calls'[m].to = calls[m].to
                            /\ calls'[m].at \in {"ok", "told"} => calls[m].at \in {"ok", "told"}
    BY <1>1
  <2> QED
    BY <1>0, <1>1, <2>1 DEF TrackedInv, LastStands
<1> QED
  BY <1>5, <1>6, <1>7, <1>8, <1>9, <1>10, <1>11 DEF TrackedInv

-----------------------------------------------------------------------------
\* The stars of a page: the old ones where they stay, and new ones that say what
\* the page was read with.
LEMMA StarsListed ==
    ASSUME TrackedBounds, NEW p, NEW ch, NEW s, NEW old \in [Coin -> {TA!NoStar} \cup Stars]
    PROVE  /\ TA!MarketList(p, ch, s, old) \in [Coin -> {TA!NoStar} \cup Stars]
           /\ \A c \in Coin : LET x == TA!MarketList(p, ch, s, old)[c] IN
                 x # TA!NoStar =>
                    /\ p.at = "markets"
                    /\ old[c] # TA!NoStar => x = old[c]
                    /\ old[c] = TA!NoStar => x.call = 0 /\ (x.on <=> p.list[<<"watch", c>>] = 1)
<1> DEFINE x(c) == IF p.at # "markets" \/ c \notin TA!Visible(p, ch, s) THEN TA!NoStar
                   ELSE IF old[c] # TA!NoStar THEN old[c]
                   ELSE [on |-> c \in TA!Followed(p), call |-> 0]
<1>1. TA!MarketList(p, ch, s, old) = [c \in Coin |-> x(c)]
  BY DEF TA!MarketList
<1>2. ASSUME NEW c \in Coin PROVE [on |-> c \in TA!Followed(p), call |-> 0] \in Stars
  <2>1. (c \in TA!Followed(p)) \in BOOLEAN /\ 0 \in 0..MaxCalls
    BY DEF TrackedBounds
  <2> QED
    BY <2>1 DEF Stars
<1>3. \A c \in Coin : c \in TA!Followed(p) <=> p.list[<<"watch", c>>] = 1
  BY DEF TA!Followed
<1>4. \A c \in Coin : x(c) \in {TA!NoStar} \cup Stars
  BY <1>2
<1>5. ASSUME NEW c \in Coin, x(c) # TA!NoStar
      PROVE  /\ p.at = "markets"
             /\ old[c] # TA!NoStar => x(c) = old[c]
             /\ old[c] = TA!NoStar => x(c).call = 0 /\ (x(c).on <=> p.list[<<"watch", c>>] = 1)
  <2>1. p.at = "markets" /\ (old[c] # TA!NoStar => x(c) = old[c])
    BY <1>5
  <2>2. old[c] = TA!NoStar => x(c) = [on |-> c \in TA!Followed(p), call |-> 0]
    BY <1>5
  <2> HIDE DEF x
  <2>3. ASSUME old[c] = TA!NoStar PROVE x(c).call = 0 /\ (x(c).on <=> p.list[<<"watch", c>>] = 1)
    <3>1. x(c).call = 0 /\ x(c).on = (c \in TA!Followed(p))
      BY <2>2, <2>3
    <3> QED
      BY <1>3, <3>1
  <2> QED
    BY <2>1, <2>3
<1> HIDE DEF x
<1>6. \A c \in Coin : TA!MarketList(p, ch, s, old)[c] = x(c)
  BY <1>1
<1>7. TA!MarketList(p, ch, s, old) \in [Coin -> {TA!NoStar} \cup Stars]
  BY <1>1, <1>4
<1> QED
  BY <1>5, <1>6, <1>7

LEMMA NobodyAsked ==
    ASSUME NEW r, ~TA!UnderWay(r)
    PROVE  \A n \in Out : calls[n].row # r
BY DEF TA!UnderWay, Out

LEMMA SomebodyAsked ==
    ASSUME NEW n \in Out
    PROVE  TA!UnderWay(calls[n].row)
BY DEF TA!UnderWay, Out

LEMMA UnsureRows ==
    ASSUME NEW p
    PROVE  TA!CameUnsure(p) \subseteq TA!Row
<1> SUFFICES ASSUME NEW x \in TA!CameUnsure(p) PROVE x \in TA!Row
  OBVIOUS
<1>1. PICK c \in Coin : x = <<"watch", c>>
  BY DEF TA!CameUnsure
<1> QED
  BY <1>1 DEF TA!Row

\* Chip, search and prices: the list stays, and a row that comes shows what it says.
LEMMA PageShown ==
    ASSUME TrackedBounds, TrackedInv, NEW p \in PagesRead, NEW ch \in Chips, NEW s \in Searches,
           p.at = page.at, p.assets = page.assets, p.list = page.list, p.missed = page.missed,
           p.unsure = page.unsure, TA!Show(p, ch, s)
    PROVE  TrackedInv'
<1>1. /\ page.at = "markets" /\ page' = p /\ chip' = ch /\ q' = s
      /\ star' = TA!MarketList(p, ch, s, star)
      /\ reading' = reading
      /\ doubt' = doubt \cup TA!CameUnsure(p)
      /\ UNCHANGED <<rows, form, dialog, calls, overtaken>>
  BY DEF TA!Show
<1>2. /\ star' \in [Coin -> {TA!NoStar} \cup Stars]
      /\ \A c \in Coin : star'[c] # TA!NoStar =>
            /\ star[c] # TA!NoStar => star'[c] = star[c]
            /\ star[c] = TA!NoStar => star'[c].call = 0 /\ (star'[c].on <=> p.list[<<"watch", c>>] = 1)
  <2>1. star \in [Coin -> {TA!NoStar} \cup Stars]
    BY DEF TrackedInv, TrackedTypes
  <2> QED
    BY <1>1, <2>1, StarsListed
<1>3. TA!CameUnsure(p) \subseteq TA!Row
  BY UnsureRows
<1>4. TrackedTypes'
  BY <1>1, <1>2, <1>3 DEF TrackedInv, TrackedTypes
<1>5. SentFirst' /\ LostDoubted' /\ LastStands'
  BY <1>1 DEF TrackedInv, SentFirst, LostDoubted, LastStands, TA!Sent
<1>6. ListsFollow'
  BY <1>1 DEF TrackedInv, ListsFollow, TA!Sure, TA!Sent
<1>7. StarCalls'
  <2> SUFFICES ASSUME NEW c \in Coin, star'[c].call \in TA!Call
               PROVE  /\ star'[c].call \in Out /\ calls[star'[c].call].row = <<"watch", c>>
                      /\ ~calls[star'[c].call].lost
                      /\ calls[star'[c].call].to = IF star'[c].on THEN 1 ELSE 0
    BY <1>1 DEF StarCalls, Out, TA!Sent
  <2>1. star'[c] # TA!NoStar /\ star'[c].call # 0
    BY StarTypes DEF TrackedInv, TA!Call
  <2>2. star'[c] = star[c]
    BY <1>2, <2>1
  <2> QED
    BY <2>2 DEF TrackedInv, StarCalls
<1>8. StarsFollow'
  <2> SUFFICES ASSUME NEW c \in Coin, star'[c] # TA!NoStar, <<"watch", c>> \notin doubt'
               PROVE  /\ \A m \in Out : calls[m].row = <<"watch", c>> => m = star'[c].call
                      /\ star'[c].call = 0 \/ calls[star'[c].call].at = "ok" => (star'[c].on <=> rows[<<"watch", c>>] = 1)
                      /\ star'[c].call # 0 /\ calls[star'[c].call].at # "ok" => (star'[c].on <=> rows[<<"watch", c>>] # 1)
    BY <1>1 DEF StarsFollow, Out, TA!Sent
  <2>0. <<"watch", c>> \notin doubt /\ <<"watch", c>> \notin TA!CameUnsure(p)
    BY <1>1
  <2>1. CASE star[c] # TA!NoStar
    BY <1>2, <2>0, <2>1 DEF TrackedInv, StarsFollow
  <2>2. CASE star[c] = TA!NoStar
    <3>1. /\ "watch" \notin page.missed /\ <<"watch", c>> \notin page.unsure
          /\ ~TA!UnderWay(<<"watch", c>>) /\ reading = TA!NoRead
      BY <1>1, <2>0, <2>2 DEF TA!CameUnsure
    <3>2. \A m \in Out : calls[m].row # <<"watch", c>>
      BY <3>1, NobodyAsked
    <3>3. TA!Sure(<<"watch", c>>) /\ <<"watch", c>> \in TA!Row /\ "watch" \in TA!Tables[page.at]
      BY <1>1, <2>0, <3>1 DEF TA!Sure, TA!Row, TA!Tables
    <3>4. page.list[<<"watch", c>>] = rows[<<"watch", c>>]
      BY <3>1, <3>2, <3>3 DEF TrackedInv, ListsFollow, Out
    <3> QED
      BY <1>2, <2>2, <3>2, <3>4
  <2> QED
    BY <2>1, <2>2
<1> QED
  BY <1>4, <1>5, <1>6, <1>7, <1>8 DEF TrackedInv

LEMMA PricesMerged ==
    ASSUME TrackedBounds, TrackedInv, NEW c \in Coin, TA!MergeLivePrices(c)
    PROVE  TrackedInv'
<1> DEFINE u == IF c \in page.up THEN page.up \ {c} ELSE page.up \cup {c}
           p == [page EXCEPT !.up = u]
<1>1. page \in PagesRead /\ chip \in Chips /\ q \in Searches
  BY DEF TrackedInv, TrackedTypes
<1>2. u \in SUBSET Coin
  BY <1>1 DEF PagesRead
<1>3. ASSUME NEW x \in PagesRead, NEW v \in SUBSET Coin
      PROVE  /\ [x EXCEPT !.up = v] \in PagesRead
             /\ [x EXCEPT !.up = v].at = x.at /\ [x EXCEPT !.up = v].assets = x.assets
             /\ [x EXCEPT !.up = v].list = x.list /\ [x EXCEPT !.up = v].missed = x.missed
             /\ [x EXCEPT !.up = v].unsure = x.unsure
  BY DEF PagesRead
<1>4. /\ p \in PagesRead /\ p.at = page.at /\ p.assets = page.assets /\ p.list = page.list
      /\ p.missed = page.missed /\ p.unsure = page.unsure
  BY <1>1, <1>2, <1>3
<1>5. TA!Show(p, chip, q)
  BY DEF TA!MergeLivePrices
<1> HIDE DEF p
<1> QED
  BY <1>1, <1>4, <1>5, PageShown

\* A page comes with what was read.
LEMMA FreshPage ==
    ASSUME TrackedBounds, TrackedInv, NEW p \in PagesRead, page' = p,
           \A r \in TA!Row : r[1] \in TA!Tables[p.at] \ p.missed => p.list[r] = rows[r],
           \A r \in TA!Row : TA!UnderWay(r) => r \in p.unsure,
           UNCHANGED <<rows, calls, overtaken>>, reading' = TA!NoRead,
           chip' \in Chips, q' \in Searches,
           form' \in {TA!NoForm} \cup Forms, form' # TA!NoForm => form'.coin \in p.assets,
           dialog' \in {TA!NoForm} \cup Dialogs,
           NEW old, (old = star /\ doubt \subseteq doubt') \/ (old = TA!NoStars /\ reading.anew),
           star' = TA!MarketList(p, chip', q', old),
           doubt' \subseteq TA!Row, TA!CameUnsure(p) \subseteq doubt'
    PROVE  TrackedInv'
<1>1. old \in [Coin -> {TA!NoStar} \cup Stars]
  BY DEF TA!NoStars, TrackedInv, TrackedTypes
<1>2. /\ star' \in [Coin -> {TA!NoStar} \cup Stars]
      /\ \A c \in Coin : star'[c] # TA!NoStar =>
            /\ p.at = "markets"
            /\ old[c] # TA!NoStar => star'[c] = old[c]
            /\ old[c] = TA!NoStar => star'[c].call = 0 /\ (star'[c].on <=> p.list[<<"watch", c>>] = 1)
  BY <1>1, StarsListed
<1>3. TrackedTypes'
  BY <1>2 DEF TrackedInv, TrackedTypes
<1>4. SentFirst' /\ LastStands'
  BY DEF TrackedInv, SentFirst, LastStands, TA!Sent
<1>5. LostDoubted'
  <2> SUFFICES ASSUME NEW n \in TA!Sent, calls[n].at = "sent" PROVE calls[n].row \in p.unsure
    BY DEF LostDoubted, TA!Sent
  <2>1. n \in Out /\ calls[n].row \in TA!Row
    BY SentRequests DEF Out, TrackedInv
  <2> QED
    BY <2>1, SomebodyAsked
<1>6. ListsFollow'
  BY DEF ListsFollow, TA!Sure, TA!Sent
<1>7. \A c \in Coin : old[c] # TA!NoStar => old[c] = star[c] /\ doubt \subseteq doubt'
  BY DEF TA!NoStars
<1>8. StarCalls'
  <2> SUFFICES ASSUME NEW c \in Coin, star'[c].call \in TA!Call
               PROVE  /\ star'[c].call \in Out /\ calls[star'[c].call].row = <<"watch", c>>
                      /\ ~calls[star'[c].call].lost
                      /\ calls[star'[c].call].to = IF star'[c].on THEN 1 ELSE 0
    BY DEF StarCalls, Out, TA!Sent
  <2>1. star'[c] # TA!NoStar /\ star'[c].call # 0
    BY StarTypes DEF TrackedInv, TA!Call
  <2>2. star'[c] = star[c]
    BY <1>2, <1>7, <2>1
  <2> QED
    BY <2>2 DEF TrackedInv, StarCalls
<1>9. StarsFollow'
  <2> SUFFICES ASSUME NEW c \in Coin, star'[c] # TA!NoStar, <<"watch", c>> \notin doubt'
               PROVE  /\ \A m \in Out : calls[m].row = <<"watch", c>> => m = star'[c].call
                      /\ star'[c].call = 0 \/ calls[star'[c].call].at = "ok" => (star'[c].on <=> rows[<<"watch", c>>] = 1)
                      /\ star'[c].call # 0 /\ calls[star'[c].call].at # "ok" => (star'[c].on <=> rows[<<"watch", c>>] # 1)
    BY DEF StarsFollow, Out, TA!Sent
  <2>1. CASE old[c] # TA!NoStar
    BY <1>2, <1>7, <2>1 DEF TrackedInv, StarsFollow
  <2>2. CASE old[c] = TA!NoStar
    <3>1. star[c] = TA!NoStar \/ reading.anew
      BY <2>2
    <3>2. /\ "watch" \notin p.missed /\ ~TA!UnderWay(<<"watch", c>>)
      BY <3>1 DEF TA!CameUnsure
    <3>3. \A m \in Out : calls[m].row # <<"watch", c>>
      BY <3>2, NobodyAsked
    <3>4. p.list[<<"watch", c>>] = rows[<<"watch", c>>]
      BY <1>2, <3>2 DEF TA!Row, TA!Tables
    <3> QED
      BY <1>2, <2>2, <3>3, <3>4
  <2> QED
    BY <2>1, <2>2
<1> QED
  BY <1>3, <1>4, <1>5, <1>6, <1>8, <1>9 DEF TrackedInv

LEMMA PageOpened ==
    ASSUME TrackedBounds, TrackedInv, NEW p \in PagesRead,
           \A r \in TA!Row : r[1] \in TA!Tables[p.at] \ p.missed => p.list[r] = rows[r],
           \A r \in TA!Row : TA!UnderWay(r) => r \in p.unsure,
           UNCHANGED <<rows, calls, overtaken>>, reading' = TA!NoRead,
           reading.anew, TA!Opened(p)
    PROVE  TrackedInv'
<1>1. /\ page' = p /\ chip' = "all" /\ q' = Coin
      /\ star' = TA!MarketList(p, "all", Coin, TA!NoStars)
      /\ form' = IF p.at = "form" /\ p.assets # {}
                 THEN [coin |-> CHOOSE c \in p.assets : TRUE, qty |-> 0, call |-> 0] ELSE TA!NoForm
      /\ dialog' = TA!NoForm
      /\ doubt' = TA!CameUnsure(p)
  BY DEF TA!Opened
<1>2. form' \in {TA!NoForm} \cup Forms /\ (form' # TA!NoForm => form'.coin \in p.assets)
  <2>1. CASE p.assets = {}
    BY <1>1, <2>1
  <2>2. CASE p.assets # {}
    <3>1. PICK c : c = CHOOSE x \in p.assets : TRUE
      OBVIOUS
    <3>2. c \in p.assets /\ c \in Coin
      BY <2>2, <3>1 DEF PagesRead, TrackedBounds
    <3>3. [coin |-> c, qty |-> 0, call |-> 0] \in Forms
      BY <3>2 DEF Forms, TrackedBounds
    <3> QED
      BY <1>1, <3>1, <3>2, <3>3
  <2> QED
    BY <2>1, <2>2
<1>3. "all" \in Chips /\ Coin \in Searches
  BY DEF TrackedBounds
<1>4. TA!CameUnsure(p) \subseteq TA!Row
  BY UnsureRows
<1> QED
  BY <1>1, <1>2, <1>3, <1>4, FreshPage

LEMMA PageReloaded ==
    ASSUME TrackedBounds, TrackedInv, NEW p \in PagesRead,
           \A r \in TA!Row : r[1] \in TA!Tables[p.at] \ p.missed => p.list[r] = rows[r],
           \A r \in TA!Row : TA!UnderWay(r) => r \in p.unsure,
           UNCHANGED <<rows, calls, overtaken>>, reading' = TA!NoRead, TA!Reloaded(p)
    PROVE  TrackedInv'
<1>1. /\ page' = (IF p.at = "markets" THEN [p EXCEPT !.view = page.view, !.up = page.up] ELSE p)
      /\ star' = TA!MarketList(page', chip, q, star)
      /\ form' = (IF form # TA!NoForm /\ form.coin \notin p.assets THEN TA!NoForm ELSE form)
      /\ dialog' = (IF dialog # TA!NoForm /\ dialog.coin \notin TA!Priced(p) THEN TA!NoForm ELSE dialog)
      /\ doubt' = doubt \cup TA!CameUnsure(page')
      /\ UNCHANGED <<chip, q>>
  BY DEF TA!Reloaded
<1>2. PICK pp : pp = page'
  OBVIOUS
<1>4. page.view \in Catalogs /\ page.up \in SUBSET Coin
  BY DEF TrackedInv, TrackedTypes, PagesRead
<1>5. /\ pp \in PagesRead /\ pp.at = p.at /\ pp.assets = p.assets /\ pp.list = p.list
      /\ pp.missed = p.missed /\ pp.unsure = p.unsure
  <2>1. CASE p.at = "markets"
    <3>1. pp = [p EXCEPT !.view = page.view, !.up = page.up]
      BY <1>1, <1>2, <2>1
    <3>2. PICK m : m = [p EXCEPT !.view = page.view]
      OBVIOUS
    <3>3. /\ m \in PagesRead /\ m.at = p.at /\ m.assets = p.assets /\ m.list = p.list
          /\ m.missed = p.missed /\ m.unsure = p.unsure
      BY <1>4, <3>2 DEF PagesRead
    <3>4. pp = [m EXCEPT !.up = page.up]
      BY <3>1, <3>2
    <3> QED
      BY <1>4, <3>3, <3>4 DEF PagesRead
  <2>2. CASE p.at # "markets"
    BY <1>1, <1>2, <2>2
  <2> QED
    BY <2>1, <2>2
<1>6. form' \in {TA!NoForm} \cup Forms /\ (form' # TA!NoForm => form'.coin \in pp.assets)
  BY <1>1, <1>5 DEF TrackedInv, TrackedTypes
<1>7. dialog' \in {TA!NoForm} \cup Dialogs
  BY <1>1 DEF TrackedInv, TrackedTypes
<1>8. TA!CameUnsure(pp) \subseteq TA!Row
  BY UnsureRows
<1>9. /\ doubt' \subseteq TA!Row /\ TA!CameUnsure(pp) \subseteq doubt' /\ doubt \subseteq doubt'
      /\ chip' \in Chips /\ q' \in Searches
  <2>1. doubt' = doubt \cup TA!CameUnsure(pp)
    BY <1>1, <1>2
  <2> QED
    BY <1>1, <1>8, <2>1 DEF TrackedInv, TrackedTypes
<1>10. star' = TA!MarketList(pp, chip', q', star)
  BY <1>1, <1>2
<1>11. /\ \A r \in TA!Row : r[1] \in TA!Tables[pp.at] \ pp.missed => pp.list[r] = rows[r]
       /\ \A r \in TA!Row : TA!UnderWay(r) => r \in pp.unsure
  BY <1>5
<1> QED
  BY <1>2, <1>5, <1>6, <1>7, <1>9, <1>10, <1>11, FreshPage

LEMMA PageComes ==
    ASSUME TrackedBounds, TrackedInv, TA!Arrive
    PROVE  TrackedInv'
<1>1. /\ reading \in Readings /\ reading.to \in TA!Pages /\ reading' = TA!NoRead
      /\ UNCHANGED <<rows, calls, overtaken>>
  BY DEF TA!Arrive, TrackedInv, TrackedTypes, Readings
<1>2. PICK assets \in Catalogs, missed_ \in SUBSET TA!Tables[reading.to] :
        LET p == CASE reading.to = "home" -> TA!HomePage(assets, missed_)
                   [] reading.to = "markets" -> TA!MarketsPage(assets, missed_)
                   [] reading.to = "portfolio" -> TA!PortfolioPage(assets, missed_)
                   [] OTHER -> TA!NewHoldingPage(assets)
        IN  IF reading.anew THEN TA!Opened(p) ELSE TA!Reloaded(p)
  BY DEF TA!Arrive
<1>b. assets \in Catalogs /\ missed_ \in SUBSET TA!Tables[reading.to]
  BY <1>2
<1>a. PICK p : p = TA!Reads(reading.to, TA!Tables[reading.to], assets, missed_)
  OBVIOUS
<1>3. p = CASE reading.to = "home" -> TA!HomePage(assets, missed_)
            [] reading.to = "markets" -> TA!MarketsPage(assets, missed_)
            [] reading.to = "portfolio" -> TA!PortfolioPage(assets, missed_)
            [] OTHER -> TA!NewHoldingPage(assets)
  <2>1. CASE reading.to = "home"
    BY <1>a, <2>1 DEF TA!HomePage, TA!Tables
  <2>2. CASE reading.to = "markets"
    BY <1>a, <2>2 DEF TA!MarketsPage, TA!Tables
  <2>3. CASE reading.to = "portfolio"
    BY <1>a, <2>3 DEF TA!PortfolioPage, TA!Tables
  <2>4. CASE reading.to = "form"
    <3>1. missed_ = {}
      BY <1>b, <2>4 DEF TA!Tables
    <3> QED
      BY <1>a, <2>4, <3>1 DEF TA!NewHoldingPage, TA!Tables
  <2> QED
    BY <1>1, <2>1, <2>2, <2>3, <2>4 DEF TA!Pages
<1>4. /\ p \in PagesRead /\ p.at = reading.to /\ p.missed = missed_
      /\ \A r \in TA!Row : r[1] \in TA!Tables[reading.to] \ missed_ => p.list[r] = rows[r]
      /\ \A r \in TA!Row : TA!UnderWay(r) => r \in p.unsure
  <2>0. TrackedTypes
    BY DEF TrackedInv
  <2>a. PICK to_ \in TA!Pages : to_ = reading.to
    BY <1>1
  <2> DEFINE list == [r \in TA!Row |-> IF r[1] \in TA!Tables[to_] \ missed_ THEN rows[r] ELSE 0]
             unsure == {r \in TA!Row : TA!UnderWay(r)}
  <2>1. list \in [TA!Row -> 0..MaxQty]
    <3>1. 0 \in 0..MaxQty
      BY DEF TrackedBounds
    <3> QED
      BY <2>0, <3>1 DEF TrackedTypes
  <2>2. unsure \in SUBSET TA!Row
    OBVIOUS
  <2>3. assets \in SUBSET Coin
    BY <1>b DEF TrackedBounds
  <2>4. missed_ \in SUBSET {"watch", "hold"}
    BY <1>b, <2>a DEF TA!Tables, TA!Pages
  <2>5. p = [at |-> to_, assets |-> assets, view |-> assets, up |-> assets,
             list |-> list, missed |-> missed_, unsure |-> unsure]
    BY <1>a, <2>a DEF TA!Reads
  <2>6. \A r \in TA!Row : r[1] \in TA!Tables[to_] \ missed_ => list[r] = rows[r]
    OBVIOUS
  <2>7. \A r \in TA!Row : TA!UnderWay(r) => r \in unsure
    OBVIOUS
  <2> HIDE DEF list, unsure
  <2>8. p \in PagesRead
    BY <2>1, <2>2, <2>3, <2>4, <2>5 DEF PagesRead
  <2>9. p.at = to_ /\ p.assets = assets /\ p.missed = missed_ /\ p.list = list /\ p.unsure = unsure
    BY <2>5
  <2> QED
    BY <2>a, <2>6, <2>7, <2>8, <2>9
<1>5. IF reading.anew THEN TA!Opened(p) ELSE TA!Reloaded(p)
  BY <1>2, <1>3
<1>6. \A r \in TA!Row : r[1] \in TA!Tables[p.at] \ p.missed => p.list[r] = rows[r]
  BY <1>4
<1>7. CASE reading.anew
  BY <1>1, <1>4, <1>5, <1>6, <1>7, PageOpened
<1>8. CASE ~reading.anew
  BY <1>1, <1>4, <1>5, <1>6, <1>8, PageReloaded
<1> QED
  BY <1>7, <1>8

LEMMA FilledIn ==
    ASSUME TrackedBounds, TrackedInv, NEW c \in Coin, NEW n \in 1..MaxQty, TA!FillIn(c, n)
    PROVE  TrackedInv'
<1>1. /\ form.call = 0 /\ c \in page.assets /\ form' = [form EXCEPT !.coin = c, !.qty = n]
      /\ UNCHANGED <<rows, page, chip, q, star, dialog, calls, reading, doubt, overtaken>>
  BY DEF TA!FillIn
<1>2. form \in Forms
  BY <1>1, StarTypes DEF TrackedInv, TrackedTypes, TrackedBounds
<1>3. n \in 0..MaxQty
  BY DEF TrackedBounds
<1>4. \A x \in Forms : [x EXCEPT !.coin = c, !.qty = n] \in Forms /\ [x EXCEPT !.coin = c, !.qty = n].coin = c
  BY <1>3 DEF Forms
<1>5. dialog' \in {TA!NoForm} \cup Dialogs /\ reading' \in {TA!NoRead} \cup Readings
  BY <1>1 DEF TrackedInv, TrackedTypes
<1> QED
  BY <1>1, <1>2, <1>4, <1>5, FieldsMove

LEMMA HoldingSubmitted ==
    ASSUME TrackedBounds, TrackedInv, TA!SubmitHolding
    PROVE  TrackedInv'
<1>1. /\ form.call = 0 /\ TA!Post(<<"hold", form.coin>>, form.qty)
      /\ form' = [form EXCEPT !.call = TA!Last + 1]
      /\ UNCHANGED <<rows, page, chip, q, star, dialog, reading, doubt, overtaken>>
  BY DEF TA!SubmitHolding
<1>2. form \in Forms /\ form # TA!NoForm /\ form.coin \in page.assets
  BY <1>1, StarTypes DEF TrackedInv, TrackedTypes, TrackedBounds
<1>3. form.coin \in Coin /\ form.qty \in 0..MaxQty
  BY <1>2 DEF Forms
<1>4. TA!Last + 1 \in 0..MaxCalls
  BY <1>1, LastOfSent DEF TA!Post, TrackedInv, TrackedBounds
<1>5. \A x \in Forms, k \in 0..MaxCalls : [x EXCEPT !.call = k] \in Forms /\ [x EXCEPT !.call = k].coin = x.coin
  BY DEF Forms
<1>6. dialog' \in {TA!NoForm} \cup Dialogs
  BY <1>1 DEF TrackedInv, TrackedTypes
<1> QED
  BY <1>1, <1>2, <1>3, <1>4, <1>5, <1>6, HoldingAsked

LEMMA RemovalConfirmed ==
    ASSUME TrackedBounds, TrackedInv, TA!ConfirmRemove
    PROVE  TrackedInv'
<1>1. /\ dialog.call = 0 /\ TA!Post(<<"hold", dialog.coin>>, 0)
      /\ dialog' = [dialog EXCEPT !.call = TA!Last + 1]
      /\ UNCHANGED <<rows, page, chip, q, star, form, reading, doubt, overtaken>>
  BY DEF TA!ConfirmRemove
<1>2. dialog \in Dialogs
  BY <1>1, StarTypes DEF TrackedInv, TrackedTypes, TrackedBounds
<1>3. dialog.coin \in Coin /\ 0 \in 0..MaxQty
  BY <1>2 DEF Dialogs, TrackedBounds
<1>4. TA!Last + 1 \in 0..MaxCalls
  BY <1>1, LastOfSent DEF TA!Post, TrackedInv, TrackedBounds
<1>5. \A x \in Dialogs, k \in 0..MaxCalls : [x EXCEPT !.call = k] \in Dialogs
  BY DEF Dialogs
<1>6. form' \in {TA!NoForm} \cup Forms /\ (form' # TA!NoForm => form'.coin \in page.assets)
  BY <1>1 DEF TrackedInv, TrackedTypes
<1> QED
  BY <1>1, <1>2, <1>3, <1>4, <1>5, <1>6, HoldingAsked

LEMMA DialogOpens ==
    ASSUME TrackedBounds, TrackedInv, NEW c \in Coin, TA!OpenDialog(c)
    PROVE  TrackedInv'
<1>1. /\ dialog' = [coin |-> c, call |-> 0]
      /\ UNCHANGED <<rows, page, chip, q, star, form, calls, reading, doubt, overtaken>>
  BY DEF TA!OpenDialog
<1>2. [coin |-> c, call |-> 0] \in Dialogs
  BY DEF Dialogs, TrackedBounds
<1>3. /\ form' \in {TA!NoForm} \cup Forms /\ (form' # TA!NoForm => form'.coin \in page.assets)
      /\ reading' \in {TA!NoRead} \cup Readings
  BY <1>1 DEF TrackedInv, TrackedTypes
<1> QED
  BY <1>1, <1>2, <1>3, FieldsMove

LEMMA DialogCloses ==
    ASSUME TrackedBounds, TrackedInv, TA!CancelDialog
    PROVE  TrackedInv'
<1>1. /\ dialog' = TA!NoForm
      /\ UNCHANGED <<rows, page, chip, q, star, form, calls, reading, doubt, overtaken>>
  BY DEF TA!CancelDialog
<1>2. /\ form' \in {TA!NoForm} \cup Forms /\ (form' # TA!NoForm => form'.coin \in page.assets)
      /\ reading' \in {TA!NoRead} \cup Readings
  BY <1>1 DEF TrackedInv, TrackedTypes
<1> QED
  BY <1>1, <1>2, FieldsMove

LEMMA GoesElsewhere ==
    ASSUME TrackedBounds, TrackedInv, NEW to_ \in TA!Pages, TA!Navigate(to_)
    PROVE  TrackedInv'
<1>1. /\ TA!Push(to_)
      /\ UNCHANGED <<rows, page, chip, q, star, form, dialog, calls, doubt, overtaken>>
  BY DEF TA!Navigate
<1>2. reading' # TA!NoRead /\ reading' \in {TA!NoRead} \cup Readings
  BY <1>1, PushReads
<1>3. /\ form' \in {TA!NoForm} \cup Forms /\ (form' # TA!NoForm => form'.coin \in page.assets)
      /\ dialog' \in {TA!NoForm} \cup Dialogs
  BY <1>1 DEF TrackedInv, TrackedTypes
<1> QED
  BY <1>1, <1>2, <1>3, FieldsMove

LEMMA ChipPressed ==
    ASSUME TrackedBounds, TrackedInv, NEW ch \in Chips, TA!PressChip(ch)
    PROVE  TrackedInv'
<1>1. page \in PagesRead /\ q \in Searches
  BY DEF TrackedInv, TrackedTypes
<1> QED
  BY <1>1, PageShown DEF TA!PressChip

LEMMA SearchTyped ==
    ASSUME TrackedBounds, TrackedInv, NEW s \in Searches, TA!Search(s)
    PROVE  TrackedInv'
<1>1. page \in PagesRead /\ chip \in Chips
  BY DEF TrackedInv, TrackedTypes
<1> QED
  BY <1>1, PageShown DEF TA!Search

LEMMA ServerStep ==
    ASSUME TrackedBounds, TrackedInv, NEW n \in TA!Sent,
           \/ TA!Watch(n) \/ TA!Unwatch(n) \/ TA!AddHolding(n) \/ TA!RemoveHolding(n)
    PROVE  TrackedInv'
<1>1. TA!Write(n, calls[n].to)
  BY DEF TA!Watch, TA!Unwatch, TA!AddHolding, TA!RemoveHolding
<1> QED
  BY <1>1, RowWritten

LEMMA TrackedStays ==
    ASSUME TrackedBounds, TrackedInv, [TA!Next]_(TA!vars)
    PROVE  TrackedInv'
<1>1. CASE UNCHANGED TA!vars
  <2>1. UNCHANGED <<rows, page, chip, q, star, form, dialog, calls, reading, doubt, overtaken>>
    BY <1>1 DEF TA!vars
  <2>2. /\ form' \in {TA!NoForm} \cup Forms /\ (form' # TA!NoForm => form'.coin \in page.assets)
        /\ dialog' \in {TA!NoForm} \cup Dialogs /\ reading' \in {TA!NoRead} \cup Readings
    BY <2>1 DEF TrackedInv, TrackedTypes
  <2> QED
    BY <2>1, <2>2, FieldsMove
<1>2. CASE TA!Next
  BY <1>2, ServerStep, RequestFails, StarSettles, HoldingComes, HoldingGoes, AnswerLost, GoesElsewhere,
     PageComes, ChipPressed, SearchTyped, PricesMerged, StarTurns, DialogOpens, FilledIn, HoldingSubmitted,
     DialogCloses, RemovalConfirmed DEF TA!Next
<1> QED
  BY <1>1, <1>2

-----------------------------------------------------------------------------
\* What one coin of a page is worth, and what the library adds up to the value of all.
CoinValue(p, c) == p.list[<<"hold", c>>] * CoinPrice[c]

Worths(p) ==
    CHOOSE iter : iter = [s \in SUBSET TA!Priced(p) |->
        IF s = {} THEN 0
        ELSE CoinValue(p, CHOOSE x \in s : TRUE) + iter[s \ {CHOOSE x \in s : TRUE}]]

LEMMA TotalIsWorth ==
    ASSUME NEW p
    PROVE  TA!TotalValue(p) = Worths(p)[TA!Priced(p)]
BY Zenon DEF TA!TotalValue, TA!MapThenSumSet, TA!MapThenFoldSet, Worths, CoinValue

\* A portfolio with a coin that has a price is not worth nothing.
LEMMA PricedIsWorth ==
    ASSUME TrackedBounds, NEW p \in PagesRead, NEW c \in TA!Priced(p)
    PROVE  TA!TotalValue(p) # 0
<1> DEFINE S == TA!Priced(p)
           f == [x \in Coin |-> CoinValue(p, x)]
<1>1. S \subseteq Coin /\ IsFiniteSet(S) /\ c \in S
  <2>1. S \subseteq Coin
    BY DEF TA!Priced, PagesRead, TrackedBounds
  <2> QED
    BY <2>1, FS_Subset DEF TrackedBounds
<1>2. \A x \in S : CoinValue(p, x) \in Nat \ {0} /\ f[x] = CoinValue(p, x)
  <2> SUFFICES ASSUME NEW x \in S PROVE CoinValue(p, x) \in Nat \ {0}
    BY <1>1
  <2>1. p.list[<<"hold", x>>] \in Nat \ {0}
    <3>1. p.list \in [TA!Row -> 0..MaxQty] /\ MaxQty \in Nat
      BY DEF PagesRead, TrackedBounds
    <3>2. <<"hold", x>> \in TA!Row
      BY <1>1 DEF TA!Row
    <3> QED
      BY <3>1, <3>2 DEF TA!Priced
  <2>2. CoinPrice[x] \in Nat \ {0}
    BY <1>1 DEF TrackedBounds
  <2>3. \A a, b \in Nat \ {0} : a * b \in Nat \ {0}
    OBVIOUS
  <2> QED
    BY <2>1, <2>2, <2>3 DEF CoinValue
<1>3. TA!TotalValue(p) = Worths(p)[S]
  BY TotalIsWorth
<1>4. PICK F : F = PartialSums(f, S)
  OBVIOUS
<1>5. F[{}] = 0 /\ \A T \in SUBSET S : T # {} => F[T] = f[Chosen(T)] + F[T \ {Chosen(T)}]
  BY <1>1, <1>4, PartialSumsExist DEF AddsUp
<1> HIDE DEF S, f
<1>6. \A T \in SUBSET S : T # {} => Chosen(T) \in T
  BY DEF Chosen
<1>7. \E g : g = [T \in SUBSET S |-> IF T = {} THEN 0
                                     ELSE CoinValue(p, Chosen(T)) + g[T \ {Chosen(T)}]]
  <2> DEFINE g == [T \in SUBSET S |-> F[T]]
  <2>1. ASSUME NEW T \in SUBSET S
        PROVE  F[T] = IF T = {} THEN 0 ELSE CoinValue(p, Chosen(T)) + g[T \ {Chosen(T)}]
    BY <1>2, <1>5, <1>6
  <2>2. g = [T \in SUBSET S |-> IF T = {} THEN 0 ELSE CoinValue(p, Chosen(T)) + g[T \ {Chosen(T)}]]
    BY <2>1
  <2> QED
    BY <2>2
<1>8. PICK G : G = Worths(p)
  OBVIOUS
<1>9. G = [T \in SUBSET S |-> IF T = {} THEN 0 ELSE CoinValue(p, Chosen(T)) + G[T \ {Chosen(T)}]]
  BY <1>7, <1>8, Zenon DEF Worths, Chosen, S
<1> DEFINE C == {T \in SUBSET S : G[T] \in Nat /\ (T # {} => G[T] # 0)}
<1>10. ASSUME NEW T \in SUBSET S, \A x \in T : T \ {x} \in C PROVE T \in C
  <2>1. CASE T = {}
    BY <1>9, <2>1
  <2>2. CASE T # {}
    <3>1. Chosen(T) \in T /\ Chosen(T) \in S
      BY <1>6, <2>2
    <3>2. G[T \ {Chosen(T)}] \in Nat /\ CoinValue(p, Chosen(T)) \in Nat \ {0}
      BY <1>2, <1>10, <3>1
    <3>3. G[T] = CoinValue(p, Chosen(T)) + G[T \ {Chosen(T)}]
      BY <1>9, <2>2
    <3> QED
      BY <3>2, <3>3
  <2> QED
    BY <2>1, <2>2
<1>11. C \in SUBSET SUBSET S
  OBVIOUS
<1> HIDE DEF C
<1>12. C = SUBSET S
  BY <1>1, <1>10, <1>11, FiniteSubsets
<1>13. G[S] # 0
  BY <1>1, <1>12 DEF C
<1> QED
  BY <1>3, <1>8, <1>13

LEMMA TrackedSuffices ==
    ASSUME TrackedBounds, TrackedInv
    PROVE  TA!TypeOK /\ TA!StarTruthful /\ TA!ListsTrue /\ TA!SavedStands /\ TA!ZeroIsReal
<1>1. TA!TypeOK
  <2>1. /\ rows \in [TA!Row -> 0..MaxQty]
        /\ chip \in Chips /\ q \in Searches /\ doubt \subseteq TA!Row /\ overtaken \subseteq TA!Row
    BY DEF TrackedInv, TrackedTypes
  <2>2. /\ page.at \in TA!Pages /\ page.assets \in Catalogs /\ page.view \in Catalogs /\ page.up \subseteq Coin
        /\ page.list \in [TA!Row -> 0..MaxQty] /\ page.missed \subseteq {"watch", "hold"}
        /\ page.unsure \subseteq TA!Row
    BY DEF TrackedInv, TrackedTypes, PagesRead
  <2>3. \A c \in Coin : star[c] = TA!NoStar \/ star[c] \in [on : BOOLEAN, call : 0..MaxCalls]
    BY DEF TrackedInv, TrackedTypes, Stars
  <2>4. form = TA!NoForm \/ form \in [coin : page.assets, qty : 0..MaxQty, call : 0..MaxCalls]
    <3>1. form \in {TA!NoForm} \cup Forms /\ (form # TA!NoForm => form.coin \in page.assets)
      BY DEF TrackedInv, TrackedTypes
    <3> QED
      BY <3>1 DEF Forms
  <2>5. dialog = TA!NoForm \/ dialog \in [coin : Coin, call : 0..MaxCalls]
    BY DEF TrackedInv, TrackedTypes, Dialogs
  <2>6. \A n \in TA!Call : calls[n] = TA!Unsent \/ (calls[n].row \in TA!Row /\ calls[n].to \in 0..MaxQty)
    BY DEF TrackedInv, TrackedTypes, Requests
  <2>7. reading = TA!NoRead \/ reading \in [to : TA!Pages, anew : BOOLEAN]
    BY DEF TrackedInv, TrackedTypes, Readings
  <2> QED
    BY <2>1, <2>2, <2>3, <2>4, <2>5, <2>6, <2>7 DEF TA!TypeOK
<1>2. ASSUME TA!Quiet PROVE reading = TA!NoRead /\ Out = {}
  <2>1. reading = TA!NoRead /\ \A r \in TA!Row : ~TA!UnderWay(r)
    BY <1>2 DEF TA!Quiet
  <2>2. \A n \in Out : calls[n].row \in TA!Row
    BY SentRequests DEF Out, TrackedInv
  <2> QED
    BY <2>1, <2>2, SomebodyAsked
<1>3. TA!StarTruthful
  <2> SUFFICES ASSUME TA!Quiet, NEW c \in Coin, star[c] # TA!NoStar, <<"watch", c>> \notin doubt
               PROVE  star[c].on = (rows[<<"watch", c>>] = 1)
    BY DEF TA!StarTruthful
  <2>1. star[c].call \notin TA!Call
    BY <1>2 DEF TrackedInv, StarCalls
  <2>2. star[c].call = 0 /\ star[c].on \in BOOLEAN
    BY <2>1, StarTypes DEF TrackedInv
  <2>3. star[c].on <=> rows[<<"watch", c>>] = 1
    BY <2>2 DEF TrackedInv, StarsFollow
  <2> QED
    BY <2>2, <2>3
<1>4. ASSUME TA!Quiet, NEW r \in TA!Row, r[1] \in TA!Tables[page.at], TA!Sure(r)
      PROVE  page.list[r] = rows[r]
  BY <1>2, <1>4 DEF TrackedInv, ListsFollow, Out
<1>5. TA!ListsTrue
  BY <1>4 DEF TA!ListsTrue
<1>6. TA!SavedStands
  BY DEF TrackedInv, LastStands, TA!SavedStands
<1>7. TA!ZeroIsReal
  <2> SUFFICES ASSUME TA!ValueShown(page), TA!Quiet, TA!TotalValue(page) = 0, NEW c \in Coin,
                      rows[<<"hold", c>>] > 0, TA!Sure(<<"hold", c>>)
               PROVE  page.assets # {} /\ c \notin page.assets
    BY DEF TA!ZeroIsReal
  <2>1. page.at = "markets" /\ page.assets # {}
    BY DEF TA!ValueShown
  <2>2. <<"hold", c>> \in TA!Row /\ <<"hold", c>>[1] \in TA!Tables[page.at]
    BY <2>1 DEF TA!Row, TA!Tables
  <2>3. page.list[<<"hold", c>>] = rows[<<"hold", c>>]
    BY <1>4, <2>2
  <2>4. c \notin TA!Priced(page)
    BY PricedIsWorth DEF TrackedInv, TrackedTypes
  <2> QED
    BY <2>1, <2>3, <2>4 DEF TA!Priced
<1> QED
  BY <1>1, <1>3, <1>5, <1>6, <1>7

LEMMA TrackedInit ==
    ASSUME TrackedBounds, TA!Init
    PROVE  TrackedInv
<1>1. /\ rows = [r \in TA!Row |-> 0] /\ calls = [n \in TA!Call |-> TA!Unsent]
      /\ chip = "all" /\ q = Coin /\ star = TA!NoStars
      /\ form = TA!NoForm /\ dialog = TA!NoForm
      /\ reading = TA!NoRead /\ doubt = {} /\ overtaken = {}
  BY DEF TA!Init, TA!NoRows
<1>2. TA!Sent = {} /\ Out = {}
  BY <1>1 DEF TA!Sent, Out
<1>3. calls \in [TA!Call -> {TA!Unsent} \cup Requests] /\ rows \in [TA!Row -> 0..MaxQty]
  BY <1>1 DEF TrackedBounds
<1>4. star \in [Coin -> {TA!NoStar} \cup Stars] /\ \A c \in Coin : star[c] = TA!NoStar
  BY <1>1 DEF TA!NoStars
<1>5. page \in PagesRead /\ \A r \in TA!Row : r[1] = "watch" => page.list[r] = rows[r]
  <2>1. PICK assets \in Catalogs : page = TA!Reads("home", {"watch"}, assets, {})
    BY DEF TA!Init, TA!HomePage
  <2> DEFINE list == [r \in TA!Row |-> IF r[1] \in {"watch"} \ {} THEN rows[r] ELSE 0]
             unsure == {r \in TA!Row : TA!UnderWay(r)}
  <2>2. page = [at |-> "home", assets |-> assets, view |-> assets, up |-> assets,
                list |-> list, missed |-> {}, unsure |-> unsure]
    BY <2>1 DEF TA!Reads
  <2>3. list \in [TA!Row -> 0..MaxQty] /\ \A r \in TA!Row : r[1] = "watch" => list[r] = rows[r]
    BY <1>3 DEF TrackedBounds
  <2>4. unsure \in SUBSET TA!Row /\ assets \in SUBSET Coin /\ "home" \in TA!Pages
    BY DEF TrackedBounds, TA!Pages
  <2> HIDE DEF list, unsure
  <2>5. page \in PagesRead
    BY <2>2, <2>3, <2>4 DEF PagesRead
  <2>6. page.list = list
    BY <2>2
  <2> QED
    BY <2>3, <2>5, <2>6
<1>6. TrackedTypes
  BY <1>1, <1>3, <1>4, <1>5 DEF TrackedTypes, TrackedBounds
<1>7. SentFirst
  <2>1. 0 \in 0..MaxCalls /\ 1..0 = {}
    BY DEF TrackedBounds
  <2> QED
    BY <1>2, <2>1 DEF SentFirst
<1>8. LostDoubted /\ LastStands
  BY <1>2 DEF LostDoubted, LastStands
<1>9. ListsFollow
  <2> SUFFICES ASSUME NEW r \in TA!Row, r[1] \in TA!Tables[page.at] PROVE page.list[r] = rows[r]
    BY DEF ListsFollow
  <2>1. page.at = "home"
    BY DEF TA!Init, TA!HomePage, TA!Reads
  <2>2. r[1] = "watch"
    BY <2>1 DEF TA!Tables
  <2> QED
    BY <1>5, <2>2
<1>10. StarCalls /\ StarsFollow
  <2>1. TA!NoStar.call \notin TA!Call
    BY <1>6, StarTypes
  <2> QED
    BY <1>4, <2>1 DEF StarCalls, StarsFollow
<1> QED
  BY <1>6, <1>7, <1>8, <1>9, <1>10 DEF TrackedInv

-----------------------------------------------------------------------------
(***************************************************************************)
(* The amount field.  Cleaning leaves a field clean whatever the text, for *)
(* every character taken does; and the number a text of digits is read as  *)
(* is more than 0 with any digit that is not nought, and grows with the    *)
(* text and with its digits.  Both are shown of the recursive functions    *)
(* the two folds stand for, by induction over the sets of places.          *)
(***************************************************************************)
\* A field as sanitizeDecimal leaves it: digits, not more than there is room
\* for, or digits around one point.
PointAlone(f, p) ==
    /\ p \in 2..(MaxWhole + 1) /\ p <= Len(f) /\ Len(f) <= p + MaxDecimals
    /\ \A i \in DOMAIN f : f[i] = AF!Point <=> i = p

Clean ==
    {f \in Seq(AF!Digit \cup {AF!Point}) :
        \/ Len(f) <= MaxWhole /\ \A i \in DOMAIN f : f[i] # AF!Point
        \/ \E p \in 2..(MaxWhole + 1) : PointAlone(f, p)}

LEMMA PointIsNone ==
    ASSUME AmountBounds
    PROVE  AF!Point \notin AF!Digit /\ AF!Zero \in AF!Digit
BY DEF AmountBounds, AF!Digit, AF!Zero, AF!Point

\* The two parts of a field with a point, and of one without.
LEMMA PointedParts ==
    ASSUME AmountBounds, NEW f \in Seq(AF!Digit \cup {AF!Point}), NEW p \in 2..(MaxWhole + 1),
           PointAlone(f, p)
    PROVE  /\ AF!HasPoint(f)
           /\ AF!Whole(f) = SubSeq(f, 1, p - 1) /\ AF!Frac(f) = SubSeq(f, p + 1, Len(f))
           /\ AF!Whole(f) \in Seq(AF!Digit) /\ AF!Frac(f) \in Seq(AF!Digit)
           /\ Len(AF!Whole(f)) = p - 1 /\ Len(AF!Frac(f)) = Len(f) - p
           /\ \A i \in 1..p - 1 : AF!Whole(f)[i] = f[i]
           /\ \A i \in 1..Len(f) - p : AF!Frac(f)[i] = f[p + i]
<1>1. p \in DOMAIN f /\ f[p] = AF!Point /\ \A i \in DOMAIN f : f[i] = AF!Point => i = p
  BY DEF PointAlone
<1>2. AF!HasPoint(f) /\ AF!PointAt(f) = p
  BY <1>1 DEF AF!HasPoint, AF!PointAt
<1>3. AF!Whole(f) = SubSeq(f, 1, p - 1) /\ AF!Frac(f) = SubSeq(f, p + 1, Len(f))
  BY <1>2 DEF AF!Whole, AF!Frac
<1>4. Len(f) \in Nat /\ p <= Len(f) /\ MaxWhole \in Nat /\ p \in Nat /\ DOMAIN f = 1..Len(f)
  BY DEF PointAlone, AmountBounds
<1>5. \A i \in 1..Len(f) : i # p => f[i] \in AF!Digit
  BY <1>1, <1>4
<1>6. /\ Len(SubSeq(f, 1, p - 1)) = p - 1 /\ \A i \in 1..p - 1 : SubSeq(f, 1, p - 1)[i] = f[i]
      /\ SubSeq(f, 1, p - 1) \in Seq(AF!Digit)
  <2>1. SubSeq(f, 1, p - 1) = [i \in 1..p - 1 |-> f[i]]
    BY <1>4
  <2> QED
    BY <2>1, <1>4, <1>5
<1>7. /\ Len(SubSeq(f, p + 1, Len(f))) = Len(f) - p
      /\ \A i \in 1..Len(f) - p : SubSeq(f, p + 1, Len(f))[i] = f[p + i]
      /\ SubSeq(f, p + 1, Len(f)) \in Seq(AF!Digit)
  <2>1. SubSeq(f, p + 1, Len(f)) = [i \in 1..Len(f) - p |-> f[p + i]]
    BY <1>4
  <2>2. Len(f) - p \in Nat /\ \A i \in 1..Len(f) - p : f[p + i] \in AF!Digit
    BY <1>4, <1>5
  <2>3. [i \in 1..Len(f) - p |-> f[p + i]] \in Seq(AF!Digit)
    BY <2>2
  <2>4. SubSeq(f, p + 1, Len(f)) \in Seq(AF!Digit)
    BY <2>1, <2>3
  <2>5. Len(SubSeq(f, p + 1, Len(f))) = Len(f) - p
    <3>1. DOMAIN SubSeq(f, p + 1, Len(f)) = 1..Len(f) - p
      BY <2>1
    <3>2. \A s \in Seq(AF!Digit) : DOMAIN s = 1..Len(f) - p => Len(s) = Len(f) - p
      BY <2>2
    <3> QED
      BY <3>1, <3>2, <2>4
  <2>6. \A i \in 1..Len(f) - p : SubSeq(f, p + 1, Len(f))[i] = f[p + i]
    BY <2>1
  <2> QED
    BY <2>4, <2>5, <2>6
<1> QED
  BY <1>2, <1>3, <1>6, <1>7

LEMMA PlainParts ==
    ASSUME NEW f \in Seq(AF!Digit \cup {AF!Point}), \A i \in DOMAIN f : f[i] # AF!Point
    PROVE  /\ ~ AF!HasPoint(f) /\ AF!Whole(f) = f /\ AF!Frac(f) = <<>> /\ f \in Seq(AF!Digit)
<1>1. ~ AF!HasPoint(f)
  BY DEF AF!HasPoint
<1>2. f \in [1..Len(f) -> AF!Digit] /\ Len(f) \in Nat
  OBVIOUS
<1> QED
  BY <1>1, <1>2 DEF AF!Whole, AF!Frac

\* One character more, whatever it is, leaves the field clean.
LEMMA TakeKeeps ==
    ASSUME AmountBounds, NEW f \in Clean, NEW ch
    PROVE  AF!Take(f, ch) \in Clean
<1> USE PointIsNone
<1>0. /\ f \in Seq(AF!Digit \cup {AF!Point}) /\ Len(f) \in Nat /\ MaxWhole \in Nat \ {0}
      /\ MaxDecimals \in 1..2
  BY DEF Clean, AmountBounds
<1>1. CASE ch \notin AF!Digit \cup {AF!Point}
  <2>1. AF!Take(f, ch) = f
    BY <1>1 DEF AF!Take
  <2> QED
    BY <2>1
<1>2. CASE AF!HasPoint(f) /\ (ch = AF!Point \/ Len(AF!Frac(f)) >= MaxDecimals)
  <2>1. AF!Take(f, ch) = f
    BY <1>2 DEF AF!Take
  <2> QED
    BY <2>1
<1>3. CASE ch \in AF!Digit /\ AF!HasPoint(f) /\ ~(Len(AF!Frac(f)) >= MaxDecimals)
  <2>1. AF!Take(f, ch) = Append(f, ch)
    BY <1>3 DEF AF!Take
  <2>2. PICK p \in 2..(MaxWhole + 1) : PointAlone(f, p)
    BY <1>3 DEF Clean, AF!HasPoint
  <2>3. Len(f) + 1 <= p + MaxDecimals
    BY <1>0, <1>3, <2>2, PointedParts DEF PointAlone
  <2>4. PointAlone(Append(f, ch), p)
    BY <1>0, <1>3, <2>2, <2>3 DEF PointAlone
  <2>5. Append(f, ch) \in Seq(AF!Digit \cup {AF!Point})
    BY <1>0, <1>3
  <2> QED
    BY <2>1, <2>4, <2>5 DEF Clean
<1>4. CASE ch \in AF!Digit \cup {AF!Point} /\ ~AF!HasPoint(f)
  <2>1. Len(f) <= MaxWhole /\ \A i \in DOMAIN f : f[i] # AF!Point
    BY <1>0, <1>4 DEF Clean, AF!HasPoint, PointAlone
  <2>2. CASE ch = AF!Point /\ f = <<>>
    <3>1. AF!Take(f, ch) = <<AF!Zero, AF!Point>>
      BY <1>0, <1>4, <2>2 DEF AF!Take
    <3>2. PointAlone(<<AF!Zero, AF!Point>>, 2)
      BY <1>0 DEF PointAlone, AF!Zero, AF!Point
    <3>3. <<AF!Zero, AF!Point>> \in Seq(AF!Digit \cup {AF!Point}) /\ 2 \in 2..(MaxWhole + 1)
      BY <1>0
    <3> QED
      BY <3>1, <3>2, <3>3 DEF Clean
  <2>3. CASE ch = AF!Point /\ f # <<>>
    <3>1. AF!Take(f, ch) = Append(f, AF!Point)
      BY <1>0, <1>4, <2>3 DEF AF!Take
    <3>2. Len(f) + 1 \in 2..(MaxWhole + 1)
      BY <1>0, <2>1, <2>3
    <3>3. PointAlone(Append(f, AF!Point), Len(f) + 1)
      BY <1>0, <2>1, <3>2 DEF PointAlone
    <3>4. Append(f, AF!Point) \in Seq(AF!Digit \cup {AF!Point})
      BY <1>0
    <3> QED
      BY <3>1, <3>2, <3>3, <3>4 DEF Clean
  <2>4. CASE ch \in AF!Digit /\ f = <<AF!Zero>>
    <3>1. AF!Take(f, ch) = <<ch>>
      BY <1>4, <2>4 DEF AF!Take
    <3>2. <<ch>> \in Seq(AF!Digit \cup {AF!Point}) /\ Len(<<ch>>) = 1 /\ \A i \in 1..1 : <<ch>>[i] # AF!Point
      BY <2>4
    <3> QED
      BY <3>1, <3>2, <1>0 DEF Clean
  <2>5. CASE ch \in AF!Digit /\ f # <<AF!Zero>>
    <3>1. AF!Take(f, ch) = IF Len(f) < MaxWhole THEN Append(f, ch) ELSE f
      BY <1>4, <2>5 DEF AF!Take
    <3>2. ASSUME Len(f) < MaxWhole PROVE Append(f, ch) \in Clean
      <4>1. Append(f, ch) \in Seq(AF!Digit \cup {AF!Point}) /\ Len(Append(f, ch)) = Len(f) + 1
        BY <1>0, <2>5
      <4>2. \A i \in DOMAIN Append(f, ch) : Append(f, ch)[i] # AF!Point
        BY <1>0, <2>1, <2>5
      <4>3. Len(Append(f, ch)) <= MaxWhole
        BY <4>1, <3>2, <1>0
      <4> QED
        BY <4>1, <4>2, <4>3 DEF Clean
    <3> QED
      BY <3>1, <3>2
  <2> QED
    BY <1>4, <2>2, <2>3, <2>4, <2>5
<1> QED
  BY <1>1, <1>2, <1>3, <1>4

\* The folds of the amount field, as recursive functions on sets of places.
Cleaning(s) ==
    CHOOSE iter : iter = [T \in SUBSET DOMAIN s |->
        IF T = {} THEN <<>> ELSE AF!Take(iter[T \ {Greatest(T)}], s[Greatest(T)])]

Numbering(s) ==
    CHOOSE iter : iter = [T \in SUBSET DOMAIN s |->
        IF T = {} THEN 0 ELSE 10 * iter[T \ {Greatest(T)}] + Digits[s[Greatest(T)]]]

LEMMA CleaningFolds ==
    ASSUME NEW s
    PROVE  AF!SanitizeDecimal(s) = Cleaning(s)[DOMAIN s]
BY Zenon DEF AF!SanitizeDecimal, AF!FoldLeft, AF!MapThenFoldSet, Cleaning, Greatest, AF!Max

LEMMA NumberingFolds ==
    ASSUME NEW s
    PROVE  AF!Number(s) = Numbering(s)[DOMAIN s]
BY Zenon DEF AF!Number, AF!FoldLeft, AF!MapThenFoldSet, Numbering, Greatest, AF!Max

\* Whatever the text, what is left of it is a clean field.
LEMMA SanitizedClean ==
    ASSUME AmountBounds, NEW Y, NEW s \in Seq(Y)
    PROVE  AF!SanitizeDecimal(s) \in Clean
<1> DEFINE S == 1..Len(s)
           G == [x \in Clean \X S |-> AF!Take(x[1], s[x[2]])]
           pick == [T \in SUBSET S |-> Greatest(T)]
<1>1. IsFiniteSet(S) /\ DOMAIN s = S
  BY FS_Interval
<1>2. ASSUME NEW T \in SUBSET S, T # {} PROVE pick[T] = Greatest(T) /\ pick[T] \in T
  <2>1. Len(s) \in Nat
    OBVIOUS
  <2>2. Greatest(T) \in T
    BY <1>2, <2>1, GreatestPlace
  <2> QED
    BY <2>2
<1>3. <<>> \in Clean
  BY DEF Clean, AmountBounds
<1>4. G \in [Clean \X S -> Clean]
  BY TakeKeeps
<1>5. \A f \in Clean, i \in S : G[<<f, i>>] = AF!Take(f, s[i])
  OBVIOUS
<1> HIDE DEF S, G, pick
<1>6. PICK F \in [SUBSET S -> Clean] : Folds(F, S, <<>>, G, pick)
  <2>1. \A T \in SUBSET S : T # {} => pick[T] \in T
    BY <1>2
  <2> QED
    BY <1>1, <1>3, <1>4, <2>1, FoldExists, Zenon
<1>7. \A T \in SUBSET S : T # {} => /\ F[T \ {Greatest(T)}] \in Clean /\ Greatest(T) \in S
                                    /\ pick[T] = Greatest(T)
  BY <1>2, <1>6
<1>8. \A T \in SUBSET S : F[T] = IF T = {} THEN <<>> ELSE AF!Take(F[T \ {Greatest(T)}], s[Greatest(T)])
  <2>1. \A T \in SUBSET S : F[T] = IF T = {} THEN <<>> ELSE G[<<F[T \ {pick[T]}], pick[T]>>]
    BY <1>6 DEF Folds
  <2> QED
    BY <1>5, <1>7, <2>1
<1>9. F = [T \in SUBSET S |-> IF T = {} THEN <<>> ELSE AF!Take(F[T \ {Greatest(T)}], s[Greatest(T)])]
  BY <1>6, <1>8
<1>10. Cleaning(s) = [T \in SUBSET S |->
           IF T = {} THEN <<>> ELSE AF!Take(Cleaning(s)[T \ {Greatest(T)}], s[Greatest(T)])]
  BY <1>1, <1>9, Zenon DEF Cleaning
<1>11. PICK C : C = Cleaning(s)
  OBVIOUS
<1>12. C = [T \in SUBSET S |-> IF T = {} THEN <<>> ELSE AF!Take(C[T \ {Greatest(T)}], s[Greatest(T)])]
  BY <1>10, <1>11
<1>13. /\ C[{}] = <<>>
       /\ \A T \in SUBSET S : T # {} => C[T] = AF!Take(C[T \ {Greatest(T)}], s[Greatest(T)])
  BY <1>12
<1> DEFINE K == {T \in SUBSET S : C[T] \in Clean}
<1>14. ASSUME NEW T \in SUBSET S, \A x \in T : T \ {x} \in K PROVE T \in K
  <2>1. CASE T = {}
    BY <2>1, <1>3, <1>13
  <2>2. CASE T # {}
    <3>1. T \ {Greatest(T)} \in K
      BY <2>2, <1>2, <1>14
    <3>2. C[T] = AF!Take(C[T \ {Greatest(T)}], s[Greatest(T)])
      BY <2>2, <1>13
    <3> QED
      BY <3>1, <3>2, TakeKeeps
  <2> QED
    BY <2>1, <2>2
<1>15. K = SUBSET S
  <2> HIDE DEF K
  <2>1. K \in SUBSET SUBSET S
    BY DEF K
  <2>2. \A T \in SUBSET S : (\A x \in T : T \ {x} \in K) => T \in K
    BY <1>14
  <2> QED
    BY <1>1, <2>1, <2>2, FiniteSubsets
<1> QED
  BY <1>1, <1>11, <1>15, CleaningFolds

\* The recursion the number of a text of digits is computed by.
LEMMA NumberingRule ==
    ASSUME AmountBounds, NEW s \in Seq(AF!Digit)
    PROVE  /\ Numbering(s) \in [SUBSET (1..Len(s)) -> Nat]
           /\ Numbering(s)[{}] = 0
           /\ \A T \in SUBSET (1..Len(s)) : T # {} =>
                  Numbering(s)[T] = 10 * Numbering(s)[T \ {Greatest(T)}] + Digits[s[Greatest(T)]]
<1> DEFINE S == 1..Len(s)
           G == [x \in Nat \X S |-> 10 * x[1] + Digits[s[x[2]]]]
           pick == [T \in SUBSET S |-> Greatest(T)]
<1>1. IsFiniteSet(S) /\ DOMAIN s = S
  BY FS_Interval
<1>2. ASSUME NEW T \in SUBSET S, T # {} PROVE pick[T] = Greatest(T) /\ pick[T] \in T
  <2>1. Len(s) \in Nat
    OBVIOUS
  <2>2. Greatest(T) \in T
    BY <1>2, <2>1, GreatestPlace
  <2> QED
    BY <2>2
<1>3. \A i \in S : Digits[s[i]] \in Nat
  BY DEF AmountBounds, AF!Digit
<1>4. G \in [Nat \X S -> Nat]
  BY <1>3
<1>5. \A n \in Nat, i \in S : G[<<n, i>>] = 10 * n + Digits[s[i]]
  OBVIOUS
<1> HIDE DEF S, G, pick
<1>6. PICK F \in [SUBSET S -> Nat] : Folds(F, S, 0, G, pick)
  <2>1. \A T \in SUBSET S : T # {} => pick[T] \in T
    BY <1>2
  <2>2. 0 \in Nat
    OBVIOUS
  <2> QED
    BY <1>1, <1>4, <2>1, <2>2, FoldExists, Zenon
<1>7. \A T \in SUBSET S : T # {} => /\ F[T \ {Greatest(T)}] \in Nat /\ Greatest(T) \in S
                                    /\ pick[T] = Greatest(T)
  BY <1>2, <1>6
<1>8. \A T \in SUBSET S : F[T] = IF T = {} THEN 0 ELSE 10 * F[T \ {Greatest(T)}] + Digits[s[Greatest(T)]]
  <2>1. \A T \in SUBSET S : F[T] = IF T = {} THEN 0 ELSE G[<<F[T \ {pick[T]}], pick[T]>>]
    BY <1>6 DEF Folds
  <2> QED
    BY <1>5, <1>7, <2>1
<1>9. F = [T \in SUBSET S |-> IF T = {} THEN 0 ELSE 10 * F[T \ {Greatest(T)}] + Digits[s[Greatest(T)]]]
  BY <1>6, <1>8
<1>10. Numbering(s) = [T \in SUBSET S |->
           IF T = {} THEN 0 ELSE 10 * Numbering(s)[T \ {Greatest(T)}] + Digits[s[Greatest(T)]]]
  BY <1>1, <1>9, Zenon DEF Numbering
<1>11. PICK N : N = Numbering(s)
  OBVIOUS
<1>12. N = [T \in SUBSET S |-> IF T = {} THEN 0 ELSE 10 * N[T \ {Greatest(T)}] + Digits[s[Greatest(T)]]]
  BY <1>10, <1>11
<1>13. /\ N[{}] = 0 /\ DOMAIN N = SUBSET S
       /\ \A T \in SUBSET S : T # {} => N[T] = 10 * N[T \ {Greatest(T)}] + Digits[s[Greatest(T)]]
  BY <1>12
<1> DEFINE K == {T \in SUBSET S : N[T] \in Nat}
<1>14. ASSUME NEW T \in SUBSET S, \A x \in T : T \ {x} \in K PROVE T \in K
  <2>1. CASE T = {}
    BY <2>1, <1>13
  <2>2. CASE T # {}
    <3>1. T \ {Greatest(T)} \in K /\ Greatest(T) \in S
      BY <2>2, <1>2, <1>14
    <3>2. N[T] = 10 * N[T \ {Greatest(T)}] + Digits[s[Greatest(T)]]
      BY <2>2, <1>13
    <3> QED
      BY <3>1, <3>2, <1>3
  <2> QED
    BY <2>1, <2>2
<1>15. K = SUBSET S
  <2> HIDE DEF K
  <2>1. K \in SUBSET SUBSET S
    BY DEF K
  <2>2. \A T \in SUBSET S : (\A x \in T : T \ {x} \in K) => T \in K
    BY <1>14
  <2> QED
    BY <1>1, <2>1, <2>2, FiniteSubsets
<1>16. \A T \in SUBSET S : N[T] \in Nat
  BY <1>15
<1>17. N \in [SUBSET S -> Nat]
  BY <1>12, <1>16
<1> QED
  BY <1>11, <1>13, <1>17 DEF S

LEMMA NumberType ==
    ASSUME AmountBounds, NEW s \in Seq(AF!Digit)
    PROVE  AF!Number(s) \in Nat
<1>1. DOMAIN s = 1..Len(s)
  OBVIOUS
<1> QED
  BY <1>1, NumberingRule, NumberingFolds

\* A text with a digit that is not nought is more than nothing.
LEMMA NumberPositive ==
    ASSUME AmountBounds, NEW s \in Seq(AF!Digit), NEW i \in DOMAIN s, s[i] # AF!Zero
    PROVE  AF!Number(s) > 0
<1> DEFINE S == 1..Len(s)
           N == Numbering(s)
           K == {T \in SUBSET S : i \in T => N[T] > 0}
<1>1. IsFiniteSet(S) /\ DOMAIN s = S /\ Len(s) \in Nat
  BY FS_Interval
<1>2. /\ N \in [SUBSET S -> Nat]
      /\ \A T \in SUBSET S : T # {} => N[T] = 10 * N[T \ {Greatest(T)}] + Digits[s[Greatest(T)]]
  BY NumberingRule
<1>3. \A j \in S : Digits[s[j]] \in Nat /\ (s[j] # AF!Zero => Digits[s[j]] > 0)
  BY <1>1 DEF AmountBounds, AF!Digit, AF!Zero
<1> HIDE DEF N
<1>4. ASSUME NEW T \in SUBSET S, \A x \in T : T \ {x} \in K PROVE T \in K
  <2> SUFFICES ASSUME i \in T PROVE N[T] > 0
    OBVIOUS
  <2>1. Greatest(T) \in T
    BY <1>1, GreatestPlace
  <2>2. N[T] = 10 * N[T \ {Greatest(T)}] + Digits[s[Greatest(T)]]
    BY <1>2
  <2>3. T \ {Greatest(T)} \in SUBSET S /\ N[T \ {Greatest(T)}] \in Nat /\ Digits[s[Greatest(T)]] \in Nat
    BY <1>2, <1>3, <2>1
  <2>4. CASE i = Greatest(T)
    BY <1>3, <2>1, <2>2, <2>3, <2>4
  <2>5. CASE i # Greatest(T)
    <3>1. N[T \ {Greatest(T)}] > 0
      BY <1>4, <2>1, <2>5
    <3> QED
      BY <2>2, <2>3, <3>1
  <2> QED
    BY <2>4, <2>5
<1>5. K = SUBSET S
  <2> HIDE DEF K, S
  <2>1. K \in SUBSET SUBSET S
    BY DEF K
  <2>2. \A T \in SUBSET S : (\A x \in T : T \ {x} \in K) => T \in K
    BY <1>4
  <2> QED
    BY <1>1, <2>1, <2>2, FiniteSubsets
<1>6. N[S] > 0
  BY <1>1, <1>5
<1> QED
  BY <1>1, <1>6, NumberingFolds DEF N

\* Longer, and no less at any place, is no less.
LEMMA NumberGrows ==
    ASSUME AmountBounds, NEW s \in Seq(AF!Digit), NEW t \in Seq(AF!Digit), Len(s) <= Len(t),
           \A i \in DOMAIN s : Digits[s[i]] <= Digits[t[i]]
    PROVE  AF!Number(s) <= AF!Number(t)
<1> DEFINE S == 1..Len(s)
           N == Numbering(s)
           M == Numbering(t)
           K == {T \in SUBSET S : N[T] <= M[T]}
<1>1. /\ IsFiniteSet(S) /\ DOMAIN s = S /\ Len(s) \in Nat /\ Len(t) \in Nat
      /\ DOMAIN t = 1..Len(t) /\ SUBSET S \subseteq SUBSET (1..Len(t))
  BY FS_Interval
<1>2. /\ N \in [SUBSET S -> Nat] /\ N[{}] = 0
      /\ \A T \in SUBSET S : T # {} => N[T] = 10 * N[T \ {Greatest(T)}] + Digits[s[Greatest(T)]]
  BY NumberingRule
<1>3. /\ M \in [SUBSET (1..Len(t)) -> Nat] /\ M[{}] = 0
      /\ \A T \in SUBSET (1..Len(t)) : T # {} => M[T] = 10 * M[T \ {Greatest(T)}] + Digits[t[Greatest(T)]]
  BY NumberingRule
<1>4. /\ \A j \in S : Digits[s[j]] \in Nat /\ Digits[t[j]] \in Nat /\ Digits[s[j]] <= Digits[t[j]]
      /\ \A j \in 1..Len(t) : Digits[t[j]] \in Nat
  <2>1. \A d \in AF!Digit : Digits[d] \in Nat
    BY DEF AmountBounds, AF!Digit
  <2>2. \A j \in S : j \in 1..Len(t) /\ s[j] \in AF!Digit
    BY <1>1
  <2>3. \A j \in 1..Len(t) : t[j] \in AF!Digit
    BY <1>1
  <2> QED
    BY <1>1, <2>1, <2>2, <2>3
<1> HIDE DEF N, M
<1>5. ASSUME NEW T \in SUBSET S, \A x \in T : T \ {x} \in K PROVE T \in K
  <2>1. CASE T = {}
    BY <2>1, <1>2, <1>3
  <2>2. CASE T # {}
    <3>1. Greatest(T) \in T
      BY <1>1, <2>2, GreatestPlace
    <3>2. N[T] = 10 * N[T \ {Greatest(T)}] + Digits[s[Greatest(T)]]
      BY <1>2, <2>2
    <3>3. M[T] = 10 * M[T \ {Greatest(T)}] + Digits[t[Greatest(T)]]
      BY <1>1, <1>3, <2>2
    <3>4. N[T \ {Greatest(T)}] \in Nat /\ M[T \ {Greatest(T)}] \in Nat
      BY <1>1, <1>2, <1>3
    <3>5. N[T \ {Greatest(T)}] <= M[T \ {Greatest(T)}]
      BY <1>5, <3>1
    <3>6. Greatest(T) \in S
      BY <3>1
    <3>7. N[T] <= M[T]
      <4> HIDE DEF S
      <4> QED
        BY <1>4, <3>2, <3>3, <3>4, <3>5, <3>6
    <3> QED
      BY <3>7
  <2> QED
    BY <2>1, <2>2
<1>6. K = SUBSET S
  <2> HIDE DEF K, S
  <2>1. K \in SUBSET SUBSET S
    BY DEF K
  <2>2. \A T \in SUBSET S : (\A x \in T : T \ {x} \in K) => T \in K
    BY <1>5
  <2> QED
    BY <1>1, <2>1, <2>2, FiniteSubsets
<1>7. N[S] <= M[S]
  BY <1>6
<1> DEFINE H == {n \in Nat : Len(s) + n <= Len(t) => M[S] <= M[1..Len(s) + n]}
<1>8. 0 \in H
  <2>1. Len(s) + 0 = Len(s) /\ M[S] \in Nat
    BY <1>1, <1>3
  <2> QED
    BY <2>1
<1>9. ASSUME NEW n \in H PROVE n + 1 \in H
  <2> SUFFICES ASSUME Len(s) + (n + 1) <= Len(t) PROVE M[S] <= M[1..Len(s) + (n + 1)]
    OBVIOUS
  <2> DEFINE m == Len(s) + n
             U == 1..m + 1
  <2>1. n \in Nat /\ m \in Nat /\ m + 1 = Len(s) + (n + 1) /\ m + 1 <= Len(t)
    BY <1>1
  <2>2. U \in SUBSET (1..Len(t)) /\ m + 1 \in U /\ U # {}
    BY <1>1, <2>1
  <2>3. Greatest(U) = m + 1
    <3> HIDE DEF m
    <3>1. m + 1 \in Nat /\ U \in SUBSET (1..m + 1) /\ U # {}
      BY <2>1, <2>2
    <3>2. Greatest(U) \in U /\ \A y \in U : Greatest(U) >= y
      BY <3>1, GreatestPlace
    <3> QED
      BY <2>1, <2>2, <3>2
  <2>4. U \ {m + 1} = 1..m
    BY <2>1
  <2>5. M[U] = 10 * M[1..m] + Digits[t[m + 1]]
    BY <1>3, <2>2, <2>3, <2>4
  <2>6. M[1..m] \in Nat /\ Digits[t[m + 1]] \in Nat /\ M[S] \in Nat /\ M[U] \in Nat
    <3>1. m + 1 \in 1..Len(t) /\ 1..m \in SUBSET (1..Len(t)) /\ S \in SUBSET (1..Len(t))
      BY <1>1, <2>1
    <3> HIDE DEF m, U, S
    <3> QED
      BY <1>3, <1>4, <2>2, <3>1
  <2>7. M[S] <= M[1..m]
    BY <1>1, <2>1
  <2>8. M[S] <= M[U]
    <3> HIDE DEF m, U, S
    <3> QED
      BY <2>5, <2>6, <2>7
  <2> QED
    BY <2>1, <2>8
<1>10. H = Nat
  <2> HIDE DEF H
  <2>1. H \in SUBSET Nat
    BY DEF H
  <2> QED
    BY <1>8, <1>9, <2>1, NaturalNumbers
<1>11. M[S] <= M[1..Len(t)]
  <2>1. Len(t) - Len(s) \in Nat /\ Len(s) + (Len(t) - Len(s)) = Len(t)
    BY <1>1
  <2>2. Len(t) - Len(s) \in H
    BY <1>10, <2>1
  <2> QED
    BY <1>1, <2>1, <2>2
<1>12. AF!Number(s) = N[S] /\ AF!Number(t) = M[1..Len(t)]
  BY <1>1, NumberingFolds DEF N, M
<1>13. N[S] \in Nat /\ M[S] \in Nat /\ M[1..Len(t)] \in Nat
  BY <1>1, <1>2, <1>3
<1> QED
  BY <1>7, <1>11, <1>12, <1>13

\* What parseAmountToMinor adds up: the whole part and the padded cents.
Cents(f) == IF Len(AF!Frac(f)) = 1 THEN Append(AF!Frac(f), AF!Zero) ELSE AF!Frac(f)
Minor(f) == 100 * AF!Number(AF!Whole(f)) + AF!Number(Cents(f))

LEMMA OneOrTwo ==
    ASSUME AmountBounds
    PROVE  /\ \A k \in 0..MaxDecimals : k \in 0..2
           /\ \A k \in 1..MaxDecimals : k \in 0..MaxDecimals /\ k \in 1..2
BY DEF AmountBounds

\* The parts of a clean field that does not end at the point.
LEMMA FinishedParts ==
    ASSUME AmountBounds, NEW f \in Clean, f # <<>>, f[Len(f)] # AF!Point
    PROVE  /\ AF!Whole(f) \in Seq(AF!Digit) /\ AF!Frac(f) \in Seq(AF!Digit)
           /\ Len(AF!Whole(f)) \in 1..MaxWhole /\ Len(AF!Frac(f)) \in 0..MaxDecimals
           /\ AF!HasPoint(f) => Len(AF!Frac(f)) \in 1..2
           /\ \A i \in DOMAIN f : f[i] \notin {AF!Zero, AF!Point} =>
                  \/ \E j \in DOMAIN AF!Whole(f) : AF!Whole(f)[j] # AF!Zero
                  \/ \E j \in DOMAIN AF!Frac(f) : AF!Frac(f)[j] # AF!Zero
<1>1. f \in Seq(AF!Digit \cup {AF!Point}) /\ Len(f) \in Nat \ {0} /\ Len(f) \in DOMAIN f
      /\ DOMAIN f = 1..Len(f) /\ MaxWhole \in Nat \ {0} /\ MaxDecimals \in 1..2
  BY DEF Clean, AmountBounds
<1>2. CASE Len(f) <= MaxWhole /\ \A i \in DOMAIN f : f[i] # AF!Point
  <2>1. ~ AF!HasPoint(f) /\ AF!Whole(f) = f /\ AF!Frac(f) = <<>> /\ f \in Seq(AF!Digit)
    BY <1>1, <1>2, PlainParts
  <2>2. AF!Frac(f) \in Seq(AF!Digit) /\ Len(AF!Frac(f)) = 0
    BY <2>1
  <2> QED
    BY <1>1, <1>2, <2>1, <2>2
<1>3. ASSUME NEW p \in 2..(MaxWhole + 1), PointAlone(f, p)
      PROVE  /\ AF!Whole(f) \in Seq(AF!Digit) /\ AF!Frac(f) \in Seq(AF!Digit)
             /\ Len(AF!Whole(f)) \in 1..MaxWhole /\ Len(AF!Frac(f)) \in 1..MaxDecimals
             /\ \A i \in DOMAIN f : f[i] \notin {AF!Zero, AF!Point} =>
                    \/ \E j \in DOMAIN AF!Whole(f) : AF!Whole(f)[j] # AF!Zero
                    \/ \E j \in DOMAIN AF!Frac(f) : AF!Frac(f)[j] # AF!Zero
  <2>1. /\ AF!Whole(f) \in Seq(AF!Digit) /\ AF!Frac(f) \in Seq(AF!Digit)
        /\ Len(AF!Whole(f)) = p - 1 /\ Len(AF!Frac(f)) = Len(f) - p
        /\ \A i \in 1..p - 1 : AF!Whole(f)[i] = f[i]
        /\ \A i \in 1..Len(f) - p : AF!Frac(f)[i] = f[p + i]
    BY <1>1, <1>3, PointedParts
  <2>2. /\ p < Len(f) /\ Len(f) <= p + MaxDecimals /\ f[p] = AF!Point /\ p \in Nat
    BY <1>1, <1>3 DEF PointAlone
  <2>3. DOMAIN AF!Whole(f) = 1..p - 1 /\ DOMAIN AF!Frac(f) = 1..Len(f) - p
    BY <2>1
  <2>4. ASSUME NEW i \in DOMAIN f, f[i] \notin {AF!Zero, AF!Point}
        PROVE  \/ \E j \in DOMAIN AF!Whole(f) : AF!Whole(f)[j] # AF!Zero
               \/ \E j \in DOMAIN AF!Frac(f) : AF!Frac(f)[j] # AF!Zero
    <3>1. CASE i < p
      <4>1. i \in 1..p - 1
        BY <1>1, <2>2, <3>1
      <4> QED
        BY <4>1, <2>1, <2>3, <2>4
    <3>2. CASE i > p
      <4>1. i - p \in 1..Len(f) - p /\ p + (i - p) = i
        BY <1>1, <2>2, <3>2
      <4> QED
        BY <4>1, <2>1, <2>3, <2>4
    <3> QED
      BY <1>1, <2>2, <2>4, <3>1, <3>2
  <2>5. Len(AF!Whole(f)) \in 1..MaxWhole /\ Len(AF!Frac(f)) \in 1..MaxDecimals
    BY <1>1, <2>1, <2>2
  <2> QED
    BY <2>1, <2>4, <2>5
<1>4. CASE \E p \in 2..(MaxWhole + 1) : PointAlone(f, p)
  <2>1. /\ AF!Whole(f) \in Seq(AF!Digit) /\ AF!Frac(f) \in Seq(AF!Digit)
        /\ Len(AF!Whole(f)) \in 1..MaxWhole /\ Len(AF!Frac(f)) \in 1..MaxDecimals
        /\ \A i \in DOMAIN f : f[i] \notin {AF!Zero, AF!Point} =>
               \/ \E j \in DOMAIN AF!Whole(f) : AF!Whole(f)[j] # AF!Zero
               \/ \E j \in DOMAIN AF!Frac(f) : AF!Frac(f)[j] # AF!Zero
    BY <1>3, <1>4
  <2> QED
    BY <2>1, OneOrTwo
<1> QED
  BY <1>2, <1>4 DEF Clean

LEMMA AppendOne ==
    ASSUME NEW D, NEW g \in Seq(D), NEW z \in D
    PROVE  /\ Append(g, z) \in Seq(D) /\ Len(Append(g, z)) = Len(g) + 1
           /\ \A j \in 1..Len(g) : Append(g, z)[j] = g[j]
           /\ Append(g, z)[Len(g) + 1] = z
OBVIOUS

LEMMA CentsFacts ==
    ASSUME AmountBounds, NEW f, AF!Frac(f) \in Seq(AF!Digit), Len(AF!Frac(f)) \in 0..2
    PROVE  /\ Cents(f) \in Seq(AF!Digit) /\ Len(Cents(f)) \in {0, 2}
           /\ \A j \in DOMAIN AF!Frac(f) : j \in DOMAIN Cents(f) /\ Cents(f)[j] = AF!Frac(f)[j]
           /\ Len(AF!Frac(f)) = 1 => Cents(f)[2] = AF!Zero
<1>1. CASE Len(AF!Frac(f)) = 1
  <2>1. Cents(f) = Append(AF!Frac(f), AF!Zero)
    BY <1>1 DEF Cents
  <2>2. /\ Cents(f) \in Seq(AF!Digit) /\ Len(Cents(f)) = 2 /\ DOMAIN Cents(f) = 1..2
        /\ DOMAIN AF!Frac(f) = 1..1 /\ Cents(f)[1] = AF!Frac(f)[1] /\ Cents(f)[2] = AF!Zero
    <3>1. /\ Append(AF!Frac(f), AF!Zero) \in Seq(AF!Digit)
          /\ Len(Append(AF!Frac(f), AF!Zero)) = Len(AF!Frac(f)) + 1
          /\ \A j \in 1..Len(AF!Frac(f)) : Append(AF!Frac(f), AF!Zero)[j] = AF!Frac(f)[j]
          /\ Append(AF!Frac(f), AF!Zero)[Len(AF!Frac(f)) + 1] = AF!Zero
      BY PointIsNone, AppendOne
    <3>2. /\ Cents(f) \in Seq(AF!Digit) /\ Len(Cents(f)) = Len(AF!Frac(f)) + 1
          /\ \A j \in 1..Len(AF!Frac(f)) : Cents(f)[j] = AF!Frac(f)[j]
          /\ Cents(f)[Len(AF!Frac(f)) + 1] = AF!Zero
      BY <2>1, <3>1
    <3> QED
      BY <1>1, <3>2
  <2> QED
    BY <2>2
<1>2. CASE Len(AF!Frac(f)) # 1
  BY <1>2 DEF Cents
<1> QED
  BY <1>1, <1>2

\* Such a field is read as what its parts add up to.
LEMMA FinishedParses ==
    ASSUME AmountBounds, NEW f \in Clean, f # <<>>, f[Len(f)] # AF!Point
    PROVE  /\ AF!ParseAmountToMinor(f) = IF Minor(f) > 0 THEN Minor(f) ELSE AF!NaN
           /\ Minor(f) \in Nat
           /\ (\E i \in DOMAIN f : f[i] \notin {AF!Zero, AF!Point}) => Minor(f) > 0
<1>1. /\ AF!Whole(f) \in Seq(AF!Digit) /\ AF!Frac(f) \in Seq(AF!Digit)
      /\ Len(AF!Whole(f)) \in 1..MaxWhole /\ Len(AF!Frac(f)) \in 0..MaxDecimals
      /\ AF!HasPoint(f) => Len(AF!Frac(f)) \in 1..2
  BY FinishedParts
<1>2. Len(AF!Frac(f)) \in 0..2
  BY <1>1, OneOrTwo
<1>3. /\ Cents(f) \in Seq(AF!Digit)
      /\ \A j \in DOMAIN AF!Frac(f) : j \in DOMAIN Cents(f) /\ Cents(f)[j] = AF!Frac(f)[j]
  BY <1>1, <1>2, CentsFacts
<1>4. AF!Number(AF!Whole(f)) \in Nat /\ AF!Number(Cents(f)) \in Nat
  BY <1>1, <1>3, NumberType
<1>5. Minor(f) \in Nat
  BY <1>4 DEF Minor
<1>6. /\ AF!Whole(f) # <<>>
      /\ \A i \in DOMAIN AF!Whole(f) : AF!Whole(f)[i] # AF!Point
      /\ \A i \in DOMAIN AF!Frac(f) : AF!Frac(f)[i] # AF!Point
  BY <1>1, PointIsNone
<1>7. AF!ParseAmountToMinor(f) = IF Minor(f) > 0 THEN Minor(f) ELSE AF!NaN
  BY <1>1, <1>6 DEF AF!ParseAmountToMinor, Minor, Cents
<1>8. ASSUME NEW i \in DOMAIN f, f[i] \notin {AF!Zero, AF!Point} PROVE Minor(f) > 0
  <2>1. CASE \E j \in DOMAIN AF!Whole(f) : AF!Whole(f)[j] # AF!Zero
    <3>1. AF!Number(AF!Whole(f)) > 0
      BY <1>1, <2>1, NumberPositive
    <3> QED
      BY <1>4, <3>1 DEF Minor
  <2>2. CASE \E j \in DOMAIN AF!Frac(f) : AF!Frac(f)[j] # AF!Zero
    <3>1. AF!Number(Cents(f)) > 0
      BY <1>3, <2>2, NumberPositive
    <3> QED
      BY <1>4, <3>1 DEF Minor
  <2> QED
    BY <1>8, <2>1, <2>2, FinishedParts
<1> QED
  BY <1>5, <1>7, <1>8

\* No clean field is read as more than the one full of nines.
LEMMA LargestIsLargest ==
    ASSUME AmountBounds
    PROVE  /\ AF!Largest \in Clean /\ AF!Largest # <<>> /\ AF!Largest[Len(AF!Largest)] # AF!Point
           /\ \E i \in DOMAIN AF!Largest : AF!Largest[i] \notin {AF!Zero, AF!Point}
           /\ \A f \in Clean : f # <<>> /\ f[Len(f)] # AF!Point => Minor(f) <= Minor(AF!Largest)
<1> DEFINE L == AF!Largest
           n == MaxWhole + 1 + MaxDecimals
<1>1. MaxWhole \in Nat \ {0} /\ MaxDecimals \in 1..2 /\ n \in Nat /\ n > MaxWhole + 1
  BY DEF AmountBounds
<1>2. AF!Nine \in AF!Digit /\ AF!Nine \notin {AF!Zero, AF!Point} /\ Digits[AF!Nine] = 9
  BY DEF AmountBounds, AF!Nine, AF!Zero, AF!Point, AF!Digit
<1>3. L = [i \in 1..n |-> IF i = MaxWhole + 1 THEN AF!Point ELSE AF!Nine]
  BY DEF AF!Largest
<1>4. L \in Seq(AF!Digit \cup {AF!Point}) /\ Len(L) = n /\ DOMAIN L = 1..n
  <2> HIDE DEF n
  <2> QED
    BY <1>1, <1>2, <1>3
<1>5. PointAlone(L, MaxWhole + 1)
  BY <1>1, <1>2, <1>3, <1>4 DEF PointAlone
<1>6. L \in Clean
  BY <1>1, <1>4, <1>5 DEF Clean
<1>7. L # <<>> /\ L[Len(L)] = AF!Nine /\ n \in DOMAIN L
  BY <1>1, <1>3, <1>4
<1>8. /\ AF!Whole(L) \in Seq(AF!Digit) /\ AF!Frac(L) \in Seq(AF!Digit)
      /\ Len(AF!Whole(L)) = MaxWhole /\ Len(AF!Frac(L)) = MaxDecimals
      /\ \A i \in 1..MaxWhole : AF!Whole(L)[i] = AF!Nine
      /\ \A i \in 1..MaxDecimals : AF!Frac(L)[i] = AF!Nine
  <2>1. /\ AF!Whole(L) \in Seq(AF!Digit) /\ AF!Frac(L) \in Seq(AF!Digit)
        /\ Len(AF!Whole(L)) = (MaxWhole + 1) - 1 /\ Len(AF!Frac(L)) = Len(L) - (MaxWhole + 1)
        /\ \A i \in 1..(MaxWhole + 1) - 1 : AF!Whole(L)[i] = L[i]
        /\ \A i \in 1..Len(L) - (MaxWhole + 1) : AF!Frac(L)[i] = L[(MaxWhole + 1) + i]
    <3> HIDE DEF L, n
    <3>1. MaxWhole + 1 \in 2..(MaxWhole + 1)
      BY <1>1
    <3> QED
      BY <1>4, <1>5, <3>1, PointedParts
  <2>2. (MaxWhole + 1) - 1 = MaxWhole /\ Len(L) - (MaxWhole + 1) = MaxDecimals
    BY <1>1, <1>4
  <2>3. /\ \A i \in 1..MaxWhole : L[i] = AF!Nine
        /\ \A i \in 1..MaxDecimals : L[(MaxWhole + 1) + i] = AF!Nine
    BY <1>1, <1>3
  <2> HIDE DEF L, n
  <2> QED
    BY <2>1, <2>2, <2>3
<1> HIDE DEF L, n
<1>9. /\ Cents(L) \in Seq(AF!Digit) /\ Len(Cents(L)) = 2 /\ Cents(L)[1] = AF!Nine
      /\ Cents(L)[2] = IF MaxDecimals = 1 THEN AF!Zero ELSE AF!Nine
  <2>1. Len(AF!Frac(L)) \in 0..2 /\ DOMAIN AF!Frac(L) = 1..MaxDecimals
    BY <1>1, <1>8
  <2>2. /\ Cents(L) \in Seq(AF!Digit) /\ Len(Cents(L)) \in {0, 2}
        /\ \A j \in 1..MaxDecimals : j \in DOMAIN Cents(L) /\ Cents(L)[j] = AF!Nine
        /\ MaxDecimals = 1 => Cents(L)[2] = AF!Zero
    BY <1>8, <2>1, CentsFacts
  <2> QED
    BY <1>1, <2>2
<1>10. ASSUME NEW f \in Clean, f # <<>>, f[Len(f)] # AF!Point PROVE Minor(f) <= Minor(L)
  <2>1. /\ AF!Whole(f) \in Seq(AF!Digit) /\ AF!Frac(f) \in Seq(AF!Digit)
        /\ Len(AF!Whole(f)) \in 1..MaxWhole /\ Len(AF!Frac(f)) \in 0..MaxDecimals
    BY <1>10, FinishedParts
  <2>2. Len(AF!Frac(f)) \in 0..2
    BY <2>1, OneOrTwo
  <2>3. /\ Cents(f) \in Seq(AF!Digit) /\ Len(Cents(f)) \in {0, 2}
        /\ Len(AF!Frac(f)) = 1 => Cents(f)[2] = AF!Zero
        /\ \A j \in DOMAIN AF!Frac(f) : j \in DOMAIN Cents(f) /\ Cents(f)[j] = AF!Frac(f)[j]
    BY <2>1, <2>2, CentsFacts
  <2>4. \A d \in AF!Digit : Digits[d] \in Nat /\ Digits[d] <= 9
    BY DEF AmountBounds, AF!Digit
  <2>5. AF!Number(AF!Whole(f)) <= AF!Number(AF!Whole(L))
    <3>1. \A i \in DOMAIN AF!Whole(f) : i \in 1..MaxWhole /\ AF!Whole(f)[i] \in AF!Digit
      BY <1>1, <2>1
    <3>2. \A i \in DOMAIN AF!Whole(f) : Digits[AF!Whole(f)[i]] <= Digits[AF!Whole(L)[i]]
      BY <1>2, <1>8, <2>4, <3>1
    <3>3. Len(AF!Whole(f)) <= Len(AF!Whole(L))
      BY <1>1, <1>8, <2>1
    <3> QED
      BY <1>8, <2>1, <3>2, <3>3, NumberGrows
  <2>6. AF!Number(Cents(f)) <= AF!Number(Cents(L))
    <3>1. \A i \in DOMAIN Cents(f) : i \in {1, 2} /\ Cents(f)[i] \in AF!Digit /\ Len(Cents(f)) = 2
      BY <2>3
    <3>2. ASSUME 2 \in DOMAIN Cents(f), MaxDecimals = 1 PROVE Cents(f)[2] = AF!Zero
      <4>1. Len(AF!Frac(f)) # 0
        BY <2>1, <3>1, <3>2 DEF Cents
      <4> QED
        BY <2>1, <2>3, <3>2, <4>1
    <3>3. ASSUME NEW i \in DOMAIN Cents(f) PROVE Digits[Cents(f)[i]] <= Digits[Cents(L)[i]]
      <4>1. CASE i = 2 /\ MaxDecimals = 1
        <5>1. Cents(f)[i] = AF!Zero /\ Cents(L)[i] = AF!Zero
          BY <1>9, <3>2, <4>1
        <5> QED
          BY <5>1, <2>4, PointIsNone
      <4>2. CASE ~(i = 2 /\ MaxDecimals = 1)
        <5>1. Cents(L)[i] = AF!Nine
          BY <1>9, <3>1, <4>2
        <5> QED
          BY <5>1, <1>2, <2>4, <3>1
      <4> QED
        BY <4>1, <4>2
    <3>4. Len(Cents(f)) <= Len(Cents(L))
      BY <1>9, <2>3
    <3> QED
      BY <1>9, <2>3, <3>3, <3>4, NumberGrows
  <2>7. /\ AF!Number(AF!Whole(f)) \in Nat /\ AF!Number(AF!Whole(L)) \in Nat
        /\ AF!Number(Cents(f)) \in Nat /\ AF!Number(Cents(L)) \in Nat
    BY <1>8, <1>9, <2>1, <2>3, NumberType
  <2> QED
    BY <2>5, <2>6, <2>7 DEF Minor
<1> QED
  BY <1>2, <1>4, <1>6, <1>7, <1>10 DEF L

\* A clean field that is finished is an amount no more than the largest.
LEMMA AmountSuffices ==
    ASSUME AmountBounds, field \in Clean
    PROVE  AF!TypeOK /\ AF!FieldParses
<1>1. AF!TypeOK
  BY DEF Clean, AF!TypeOK
<1>2. SUFFICES ASSUME field # <<>>, field[Len(field)] # AF!Point,
                      \E i \in DOMAIN field : field[i] \notin {AF!Zero, AF!Point}
               PROVE  AF!ParseAmountToMinor(field) \in 1..AF!ParseAmountToMinor(AF!Largest)
  BY <1>1 DEF AF!FieldParses
<1>3. AF!ParseAmountToMinor(field) = Minor(field) /\ Minor(field) \in Nat /\ Minor(field) > 0
  BY <1>2, FinishedParses
<1>4. /\ AF!ParseAmountToMinor(AF!Largest) = Minor(AF!Largest) /\ Minor(AF!Largest) \in Nat
      /\ Minor(field) <= Minor(AF!Largest)
  BY <1>2, LargestIsLargest, FinishedParses
<1> QED
  BY <1>3, <1>4

LEMMA AmountInit ==
    ASSUME AmountBounds, AF!Init
    PROVE  field \in Clean
BY DEF AmountBounds, AF!Init, Clean

LEMMA AmountStays ==
    ASSUME AmountBounds, field \in Clean, [AF!Next]_(AF!vars)
    PROVE  field' \in Clean
<1> DEFINE Y == AF!Char
<1>1. field \in Seq(Y) /\ Len(field) \in Nat
  BY DEF Clean, AF!Char
<1>2. ASSUME NEW at \in 0..Len(field), NEW text \in AF!Paste, AF!Insert(at, text) PROVE field' \in Clean
  <2>1. text \in Seq(Y)
    BY DEF AF!Paste
  <2>2. SubSeq(field, 1, at) \in Seq(Y) /\ SubSeq(field, at + 1, Len(field)) \in Seq(Y)
    BY <1>1
  <2>3. SubSeq(field, 1, at) \o text \o SubSeq(field, at + 1, Len(field)) \in Seq(Y)
    BY <2>1, <2>2
  <2> QED
    BY <1>2, <2>3, SanitizedClean DEF AF!Insert
<1>3. ASSUME NEW at \in DOMAIN field, AF!Delete(at) PROVE field' \in Clean
  <2>1. SubSeq(field, 1, at - 1) \in Seq(Y) /\ SubSeq(field, at + 1, Len(field)) \in Seq(Y)
    BY <1>1
  <2>2. SubSeq(field, 1, at - 1) \o SubSeq(field, at + 1, Len(field)) \in Seq(Y)
    BY <2>1
  <2> QED
    BY <1>3, <2>2, SanitizedClean DEF AF!Delete
<1> QED
  BY <1>2, <1>3 DEF AF!Next, AF!vars

-----------------------------------------------------------------------------
(***************************************************************************)
(* Together.  A step of Surfaces is a step of the part the behaviour is    *)
(* about, and that part keeps its invariant.                               *)
(***************************************************************************)
PartsInv ==
    /\ part = "payments" => PaymentInv
    /\ part = "exchange" => ExchangeInv
    /\ part = "amount" => field \in Clean
    /\ part = "balance" => BalanceInv
    /\ part = "chart" => ChartInv
    /\ part = "table" => TableInv
    /\ part = "push" => PushInv
    /\ part = "alerts" => AlertsInv
    /\ part = "tracked" => TrackedInv
    /\ part = "market" => MarketInv
    /\ part = "ops" => OpsInv

LEMMA Bounds ==
    /\ PaymentBounds /\ SendBounds /\ ChartBounds /\ TableBounds /\ CacheBounds
    /\ TrackedBounds /\ PushBounds /\ BalanceBounds
    /\ AmountBounds /\ AlertBounds /\ MaxEdits \in Nat /\ MaxLetters \in Nat
BY SurfacesAssumption DEF PaymentBounds, BalanceBounds, AlertBounds

LEMMA StepOfThePart ==
    ASSUME [Next]_vars
    PROVE  /\ part' = part
           /\ part = "payments" => [PF!Next]_(PF!vars)
           /\ part = "exchange" => [EF!Next]_(EF!vars)
           /\ part = "amount" => [AF!Next]_(AF!vars)
           /\ part = "balance" => [LB!Next]_(LB!vars)
           /\ part = "chart" => [AC!Next]_(AC!vars)
           /\ part = "table" => [TS!Next]_(TS!vars)
           /\ part = "push" => [PD!Next]_(PD!vars)
           /\ part = "alerts" => [PA!Next]_(PA!vars)
           /\ part = "tracked" => [TA!Next]_(TA!vars)
           /\ part = "market" => [MD!Next]_(MD!vars)
           /\ part = "ops" => [OW!Next]_(OW!vars)
<1>1. CASE UNCHANGED vars
  <2>1. UNCHANGED <<part, mount, shown, overtaken, price, ticks, rows, form, calls, redisUp, timer,
                    keyedVars, paymentVars, exchangeVars, fieldVars, balanceVars, chartVars, tableVars,
                    pushVars, alertVars, marketVars, trackedVars, opsVars>>
    BY <1>1 DEF vars
  <2> QED
    BY <2>1 DEF keyedVars, paymentVars, exchangeVars, PF!vars, PF!callVars, PF!formVars, EF!vars,
                EF!callVars, EF!screenVars, fieldVars, AF!vars, balanceVars, chartVars, tableVars, pushVars, alertVars, marketVars,
                trackedVars, opsVars, TA!vars,
                LB!vars, AC!vars, TS!vars, PD!vars, PA!vars, MD!vars, OW!vars
<1>2. CASE Next
  <2>1. part' = part
    BY <1>2 DEF Next, Rest
  <2> QED
    BY <1>2, <2>1 DEF Next
<1> QED
  BY <1>1, <1>2

LEMMA PartsInit ==
    ASSUME Init
    PROVE  PartsInv
<1>1. /\ part = "payments" => PF!Init
      /\ part = "exchange" => EF!Init
      /\ part = "amount" => AF!Init
      /\ part = "balance" => LB!Init
      /\ part = "chart" => AC!Init
      /\ part = "table" => TS!Init
      /\ part = "push" => PD!Init
      /\ part = "alerts" => PA!Init
      /\ part = "tracked" => TA!Init
      /\ part = "market" => MD!Init
      /\ part = "ops" => OW!Init
  BY DEF Init
<1> QED
  BY <1>1, Bounds, PaymentInit, ExchangeInit, AmountInit, BalanceInit, ChartInit, TableInit, PushInit, AlertsInit, MarketInit,
     TrackedInit, OpsInit DEF PartsInv

LEMMA PartsStay ==
    ASSUME PartsInv, [Next]_vars
    PROVE  PartsInv'
<1>1. ASSUME part = "balance" PROVE BalanceInv'
  BY <1>1, Bounds, StepOfThePart, BalanceStays DEF PartsInv
<1>2. ASSUME part = "chart" PROVE ChartInv'
  BY <1>2, Bounds, StepOfThePart, ChartStays DEF PartsInv
<1>3. ASSUME part = "alerts" PROVE AlertsInv'
  BY <1>3, Bounds, StepOfThePart, AlertsStay DEF PartsInv
<1>4. ASSUME part = "market" PROVE MarketInv'
  BY <1>4, Bounds, StepOfThePart, MarketStays DEF PartsInv
<1>5. ASSUME part = "ops" PROVE OpsInv'
  BY <1>5, Bounds, StepOfThePart, OpsStays DEF PartsInv
<1>6. ASSUME part = "push" PROVE PushInv'
  BY <1>6, Bounds, StepOfThePart, PushStays DEF PartsInv
<1>7. ASSUME part = "payments" PROVE PaymentInv'
  BY <1>7, Bounds, StepOfThePart, PaymentStays DEF PartsInv
<1>8. ASSUME part = "exchange" PROVE ExchangeInv'
  BY <1>8, Bounds, StepOfThePart, ExchangeStays DEF PartsInv
<1>9. ASSUME part = "table" PROVE TableInv'
  BY <1>9, Bounds, StepOfThePart, TableStays DEF PartsInv
<1>10. ASSUME part = "tracked" PROVE TrackedInv'
  BY <1>10, Bounds, StepOfThePart, TrackedStays DEF PartsInv
<1>11. ASSUME part = "amount" PROVE field' \in Clean
  BY <1>11, Bounds, StepOfThePart, AmountStays DEF PartsInv
<1>12. (field \in Clean)' <=> field' \in Clean
  BY DEF Clean, PointAlone
<1> QED
  BY <1>1, <1>2, <1>3, <1>4, <1>5, <1>6, <1>7, <1>8, <1>9, <1>10, <1>11, <1>12, StepOfThePart DEF PartsInv

\* Each part of the composition keeps its invariant.
THEOREM PartsKeepOrder == Spec => []PartsInv
<1>1. Init => PartsInv
  BY PartsInit
<1>2. PartsInv /\ [Next]_vars => PartsInv'
  BY PartsStay
<1> QED
  BY <1>1, <1>2, PTL DEF Spec

\* send-money-wizard.tsx, money-request-wizard.tsx, adjustment-form.tsx: the money goes
\* to whoever stood on the confirm page, an open wizard charges once more than it
\* has shown receipts at most, every receipt is a payment of its own, and the
\* form without a key adjusts twice only after a lost answer.
THEOREM FormsPayOnce == Spec => []PaymentsRight
<1>1. PartsInv => PaymentsRight
  BY Bounds, PaymentSuffices DEF PartsInv, PaymentsRight
<1> QED
  BY <1>1, PartsKeepOrder, PTL

\* exchange-screen.tsx: one visit makes one exchange at most, and the dialog names
\* one the server made, at a quote given for exactly that.
THEOREM ScreenExchangesOnce == Spec => []ExchangeRight
<1>1. PartsInv => ExchangeRight
  BY Bounds, ExchangeSuffices DEF PartsInv, ExchangeRight
<1> QED
  BY <1>1, PartsKeepOrder, PTL

\* sanitize-number.ts and parse-amount.ts: whatever is typed, deleted or pasted, a
\* finished field that is not all noughts is an amount, and no more than the
\* largest one the field has room for.
THEOREM AmountsParse == Spec => []FieldParses
<1>1. PartsInv => FieldParses
  BY Bounds, AmountSuffices DEF PartsInv, FieldParses
<1> QED
  BY <1>1, PartsKeepOrder, PTL

\* live-balance.tsx and use-socket.ts: the page comes to the committed balance
\* unless an announcement was missed or overtaken, and no socket outlives its
\* component.
THEOREM BalanceComesRight == Spec => []BalanceRight
<1>1. PartsInv => BalanceRight
  BY DEF PartsInv, BalanceInv, NewestToCome, BalanceRight, LB!BalanceShown
<1> QED
  BY <1>1, PartsKeepOrder, PTL

\* price-chart.tsx: button and canvas name one range unless two picks raced, and
\* header and chart show one number but from a range switch to the next event.
THEOREM ChartTellsRange == Spec => []ChartRight
<1>1. PartsInv => ChartRight
  BY DEF PartsInv, ChartInv, OnePick, ChartRight, AC!ButtonTellsRange
<1> QED
  BY <1>1, PartsKeepOrder, PTL

\* toolbar.tsx, use-table-params.ts, params.ts: once all is quiet the search box says
\* what the URL says, up to the space around it; nothing asked for in time is
\* lost; and a page that no link led past the end is empty only when nothing
\* matches or rows have left since the screen spoke of a next page.
THEOREM TablesAnswer == Spec => []TableRight
<1>1. PartsInv => TableRight
  BY Bounds, TableSuffices DEF PartsInv, TableRight
<1> QED
  BY <1>1, PartsKeepOrder, PTL

\* push-toggle.tsx, push.service.ts: a toggle that reads off has no live
\* subscription behind it, and a device shows a message once, and once more per
\* transient fault at most.
THEOREM PushTellsOnce == Spec => []PushRight
<1>1. PartsInv => PushRight
  BY Bounds, PushSuffices DEF PartsInv, PushRight
<1> QED
  BY <1>1, PartsKeepOrder, PTL

\* alert-check.service.ts: an alert is told again only by a tick that had found
\* it before, and one marked as reached was told.
THEOREM AlertsOneShot == Spec => []AlertsRight
<1>1. PartsInv => AlertsRight
  BY Bounds, AlertsSuffice DEF PartsInv, AlertsRight
<1> QED
  BY <1>1, PartsKeepOrder, PTL

\* market-list.tsx, holding-form.tsx, tracked-assets.service.ts: stars and lists say what
\* the tables hold unless an answer was lost or a read failed, what the page was
\* told is saved stays, and a portfolio of zero is not an outage.
THEOREM TrackedIsTrue == Spec => []TrackedRight
<1>1. PartsInv => TrackedRight
  BY Bounds, TrackedSuffices DEF PartsInv, TrackedRight
<1> QED
  BY <1>1, PartsKeepOrder, PTL

\* cache.service.ts: no read is given what is older than its TTL and one fetch,
\* nor an outage's answer older than the negative TTL and one fetch.
THEOREM CacheStaysFresh == Spec => []CacheRight
<1>1. PartsInv => CacheRight
  BY Bounds, MarketSuffices DEF PartsInv, CacheRight
<1> QED
  BY <1>1, PartsKeepOrder, PTL

\* ops-watch.service.ts: the dead-letter alarm recovers over waiting letters only
\* when the broker could not be asked or they came after it was.
THEOREM AlarmRecoversForCause == Spec => RecoveredForCause
<1>1. PartsInv => (part = "ops" => OW!TypeOK)
  BY DEF PartsInv, OpsInv
<1>2. PartsInv /\ [Next]_vars => [part = "ops" => OW!RecoveredForCauseStep]_vars
  <2> SUFFICES ASSUME PartsInv, [Next]_vars, part = "ops" PROVE OW!RecoveredForCauseStep
    OBVIOUS
  <2> QED
    BY Bounds, StepOfThePart, RecoversForCause DEF PartsInv
<1> QED
  BY <1>1, <1>2, PartsKeepOrder, PTL DEF Spec, RecoveredForCause

=============================================================================
