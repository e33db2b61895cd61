----------------------------- MODULE Surfaces -----------------------------
(***************************************************************************)
(* What people see: the forms that move money, the live balance, the       *)
(* chart, the console's tables, push and price alerts, what is tracked,    *)
(* the cached market data and the operations watch.  The models share no   *)
(* state, so a behaviour is about one part: part says which.  A variable   *)
(* that several parts call alike is declared once, and one the part does   *)
(* not use stays 0.                                                        *)
(***************************************************************************)
EXTENDS Naturals, FiniteSets

CONSTANTS
    MaxSends, MaxKeys, Handle, Payable, Amount, Balance, MaxLookups, MaxMounts, \* PaymentForms
    Wallet, WalletBalance, MaxEdits,                                     \* ExchangeForm
    Digits, Other, MaxWhole, MaxDecimals, MaxPaste,                      \* AmountField
    MaxVisits, MaxCommits,                                               \* LiveBalance
    Ranges, FirstRange, Price, MaxPicks, MaxTicks,                       \* AssetChart
    Text, CleanText, Filter, CleanFilter, PAGE_SIZES, MaxRows, MaxPresses, \* TableState
    Device, User, MaxSubs, MaxTries,                                     \* PushDevices
    Alert, Direction, Target, TimerRun, MaxMoves,                        \* PriceAlerts
    Caller, TTL, NEGATIVE_TTL, MaxFetch, Mixes,                          \* MarketData
    Coin, CoinPrice, MaxQty, Catalogs, Chips, Searches, MaxCalls,        \* TrackedAssets
    OpsRefresh, MaxLetters                                               \* OpsWatch

VARIABLES part,
    twoFactor, calls, waiting, keys, ledger, idem, minted, lost, form, mount, timer,
    shown, overtaken, price, ticks, rows, redisUp,
    step, draft, values, resolved, lookups, asked, stepUp, receipt, seen, unsettled,
    from, to, amount, result, failedFor, quote, done, edits,
    field,
    here, effect, balance, unsaid, missed,
    range, canvas, busy, requestId, fetch, edge, market, raced, switched,
    url, counted, nav, box, want, hasty, linked, promised, presses,
    signedIn, perm, sub, last, toggle, flow, push, copies, faults,
    moves, cached, watching, notices, late,
    mix, up, cache, given,
    page, chip, q, star, dialog, reading, doubt,
    connected, dbUp, letters, outbox, refreshes, breached, gauge, card

PF == INSTANCE PaymentForms
EF == INSTANCE ExchangeForm WITH Balance <- WalletBalance
AF == INSTANCE AmountField WITH Value <- Digits
LB == INSTANCE LiveBalance WITH MaxMounts <- MaxVisits
AC == INSTANCE AssetChart WITH Range <- Ranges, MaxPresses <- MaxPicks
TS == INSTANCE TableState
PD == INSTANCE PushDevices
PA == INSTANCE PriceAlerts WITH Tick <- TimerRun
MD == INSTANCE MarketData
TA == INSTANCE TrackedAssets WITH Price <- CoinPrice
OW == INSTANCE OpsWatch WITH Refresh <- OpsRefresh

SendBounds == MaxSends \in Nat /\ MaxKeys \in Nat

\* No handle is one of the marks that stand where a call or a field has none.
PaymentBounds ==
    /\ SendBounds /\ MaxLookups \in Nat /\ MaxMounts \in Nat
    /\ Handle \cap {"deposit", "withdraw", "adjust", PF!Nobody, PF!Blank} = {}

ChartBounds == FirstRange \in Ranges /\ MaxPicks \in Nat /\ MaxTicks \in Nat

\* An outage is kept for less time than a good value, and neither for no time.
CacheBounds ==
    /\ MaxFetch \in Nat
    /\ \A k \in {"tickers", "candles", "supply", "rate"} : TTL[k] \in Nat /\ NEGATIVE_TTL \in 1..TTL[k]
    /\ Mixes \subseteq SUBSET MD!Reads

\* What trimming and cutting leave is trimmed for good the second time, for a
\* cut may end at a space; nothing stays nothing.
TableBounds ==
    /\ TS!Sizes \subseteq Nat \ {0} /\ 1 \in DOMAIN PAGE_SIZES
    /\ TS!None \in Text /\ CleanText \in [Text -> Text] /\ CleanText[TS!None] = TS!None
    /\ \A t \in Text : CleanText[TS!Search(t)] = TS!Search(t)
    /\ TS!None \in Filter /\ CleanFilter \in [Filter -> Filter] /\ CleanFilter[TS!None] = TS!None
    /\ \A f \in Filter : CleanFilter[TS!Chosen(f)] = TS!Chosen(f)
    /\ MaxRows \in Nat /\ MaxPresses \in Nat

PushBounds == MaxTries \in Nat \ {0} /\ MaxSubs \in [Device -> Nat]

\* Every coin has a price, and searching for nothing finds every coin.
TrackedBounds ==
    /\ IsFiniteSet(Coin) /\ CoinPrice \in [Coin -> Nat \ {0}]
    /\ Catalogs \subseteq SUBSET Coin /\ Coin \in Searches /\ "all" \in Chips
    /\ MaxQty \in Nat \ {0} /\ MaxCalls \in Nat

\* The digits, nought and nine among them, and room for one or two after the point.
AmountBounds ==
    /\ DOMAIN Digits \subseteq {"0", "1", "2", "3", "4", "5", "6", "7", "8", "9"}
    /\ Digits \in [DOMAIN Digits -> 0..9]
    /\ "0" \in DOMAIN Digits /\ "9" \in DOMAIN Digits /\ Digits["9"] = 9
    /\ \A d \in DOMAIN Digits : Digits[d] = 0 <=> d = "0"
    /\ MaxWhole \in Nat \ {0} /\ MaxDecimals \in 1..2

ASSUME SurfacesAssumption ==
    /\ PaymentBounds /\ ChartBounds /\ TableBounds /\ CacheBounds /\ PushBounds /\ TrackedBounds
    /\ AmountBounds /\ MaxEdits \in Nat
    /\ MaxVisits \in Nat /\ MaxCommits \in Nat /\ MaxMoves \in Nat /\ MaxLetters \in Nat
    /\ IsFiniteSet(TimerRun)

paymentVars == <<step, draft, values, resolved, lookups, asked, stepUp, receipt, seen,
    unsettled>>
exchangeVars == <<from, to, amount, result, failedFor, quote, done, edits>>
fieldVars == <<field>>
balanceVars == <<here, effect, balance, unsaid, missed>>
chartVars == <<range, canvas, busy, requestId, fetch, edge, market, raced, switched>>
tableVars == <<url, counted, nav, box, want, hasty, linked, promised, presses>>
pushVars == <<signedIn, perm, sub, last, toggle, flow, push, copies, faults>>
alertVars == <<moves, cached, watching, notices, late>>
marketVars == <<mix, up, cache, given>>
trackedVars == <<page, chip, q, star, dialog, reading, doubt>>
opsVars == <<connected, dbUp, letters, outbox, refreshes, breached, gauge, card>>
keyedVars == <<twoFactor, waiting, keys, ledger, idem, minted, lost>>
vars == <<part, keyedVars, calls, form, mount, timer, shown, overtaken, price, ticks, rows,
          redisUp, paymentVars, exchangeVars, fieldVars, balanceVars, chartVars, tableVars,
          pushVars, alertVars, marketVars, trackedVars, opsVars>>

-----------------------------------------------------------------------------
\* The variables of the parts a behaviour is not about are 0.
Unused ==
    /\ IF part = "payments" THEN TRUE
       ELSE /\ step = 0 /\ draft = 0 /\ values = 0 /\ resolved = 0 /\ lookups = 0
            /\ asked = 0 /\ stepUp = 0 /\ receipt = 0 /\ seen = 0 /\ unsettled = 0
    /\ IF part = "exchange" THEN TRUE
       ELSE /\ from = 0 /\ to = 0 /\ amount = 0 /\ result = 0 /\ failedFor = 0
            /\ quote = 0 /\ done = 0 /\ edits = 0
    /\ IF part = "amount" THEN TRUE ELSE field = 0
    /\ IF part = "balance" THEN TRUE
       ELSE /\ here = 0 /\ effect = 0 /\ balance = 0 /\ unsaid = 0 /\ missed = 0
    /\ IF part = "chart" THEN TRUE
       ELSE /\ range = 0 /\ canvas = 0 /\ busy = 0 /\ requestId = 0 /\ fetch = 0
            /\ edge = 0 /\ market = 0 /\ raced = 0 /\ switched = 0
    /\ IF part = "table" THEN TRUE
       ELSE /\ url = 0 /\ counted = 0 /\ nav = 0 /\ box = 0 /\ want = 0 /\ hasty = 0
            /\ linked = 0 /\ promised = 0 /\ presses = 0
    /\ IF part = "push" THEN TRUE
       ELSE /\ signedIn = 0 /\ perm = 0 /\ sub = 0 /\ last = 0 /\ toggle = 0
            /\ flow = 0 /\ push = 0 /\ copies = 0 /\ faults = 0
    /\ IF part = "alerts" THEN TRUE
       ELSE /\ moves = 0 /\ cached = 0 /\ watching = 0 /\ notices = 0 /\ late = 0
    /\ IF part = "market" THEN TRUE ELSE mix = 0 /\ up = 0 /\ cache = 0 /\ given = 0
    /\ IF part = "tracked" THEN TRUE
       ELSE /\ page = 0 /\ chip = 0 /\ q = 0 /\ star = 0 /\ dialog = 0 /\ reading = 0
            /\ doubt = 0
    /\ IF part = "ops" THEN TRUE
       ELSE /\ connected = 0 /\ dbUp = 0 /\ letters = 0 /\ outbox = 0
            /\ refreshes = 0 /\ breached = 0 /\ gauge = 0 /\ card = 0
    /\ IF part \in {"payments", "exchange"} THEN TRUE
       ELSE /\ twoFactor = 0 /\ waiting = 0 /\ keys = 0 /\ ledger = 0 /\ idem = 0
            /\ minted = 0 /\ lost = 0
    /\ IF part \in {"payments", "exchange", "market", "tracked"} THEN TRUE
       ELSE /\ calls = 0
    /\ IF part \in {"payments", "alerts", "tracked"} THEN TRUE ELSE form = 0
    /\ IF part \in {"payments", "balance"} THEN TRUE ELSE mount = 0
    /\ IF part \in {"payments", "table"} THEN TRUE ELSE timer = 0
    /\ IF part \in {"balance", "alerts"} THEN TRUE ELSE shown = 0
    /\ IF part \in {"balance", "tracked"} THEN TRUE ELSE overtaken = 0
    /\ IF part \in {"chart", "alerts"} THEN TRUE ELSE price = 0 /\ ticks = 0
    /\ IF part \in {"push", "alerts", "tracked"} THEN TRUE ELSE rows = 0
    /\ IF part \in {"market", "ops"} THEN TRUE ELSE redisUp = 0

\* A step of one part leaves the variables of the others alone.
Rest ==
    /\ UNCHANGED part
    /\ IF part = "payments" THEN TRUE ELSE UNCHANGED paymentVars
    /\ IF part = "exchange" THEN TRUE ELSE UNCHANGED exchangeVars
    /\ IF part = "amount" THEN TRUE ELSE UNCHANGED fieldVars
    /\ IF part = "balance" THEN TRUE ELSE UNCHANGED balanceVars
    /\ IF part = "chart" THEN TRUE ELSE UNCHANGED chartVars
    /\ IF part = "table" THEN TRUE ELSE UNCHANGED tableVars
    /\ IF part = "push" THEN TRUE ELSE UNCHANGED pushVars
    /\ IF part = "alerts" THEN TRUE ELSE UNCHANGED alertVars
    /\ IF part = "market" THEN TRUE ELSE UNCHANGED marketVars
    /\ IF part = "tracked" THEN TRUE ELSE UNCHANGED trackedVars
    /\ IF part = "ops" THEN TRUE ELSE UNCHANGED opsVars
    /\ IF part \in {"payments", "exchange"} THEN TRUE ELSE UNCHANGED keyedVars
    /\ IF part \in {"payments", "exchange", "market", "tracked"} THEN TRUE ELSE UNCHANGED calls
    /\ IF part \in {"payments", "alerts", "tracked"} THEN TRUE ELSE UNCHANGED form
    /\ IF part \in {"payments", "balance"} THEN TRUE ELSE UNCHANGED mount
    /\ IF part \in {"payments", "table"} THEN TRUE ELSE UNCHANGED timer
    /\ IF part \in {"balance", "alerts"} THEN TRUE ELSE UNCHANGED shown
    /\ IF part \in {"balance", "tracked"} THEN TRUE ELSE UNCHANGED overtaken
    /\ IF part \in {"chart", "alerts"} THEN TRUE ELSE UNCHANGED <<price, ticks>>
    /\ IF part \in {"push", "alerts", "tracked"} THEN TRUE ELSE UNCHANGED rows
    /\ IF part \in {"market", "ops"} THEN TRUE ELSE UNCHANGED redisUp

Init ==
    /\ \/ part = "payments" /\ PF!Init
       \/ part = "exchange" /\ EF!Init
       \/ part = "amount" /\ AF!Init
       \/ part = "balance" /\ LB!Init
       \/ part = "chart" /\ AC!Init
       \/ part = "table" /\ TS!Init
       \/ part = "push" /\ PD!Init
       \/ part = "alerts" /\ PA!Init
       \/ part = "market" /\ MD!Init
       \/ part = "tracked" /\ TA!Init
       \/ part = "ops" /\ OW!Init
    /\ Unused

Next ==
    \/ part = "payments" /\ Rest /\ PF!Next
    \/ part = "exchange" /\ Rest /\ EF!Next
    \/ part = "amount" /\ Rest /\ AF!Next
    \/ part = "balance" /\ Rest /\ LB!Next
    \/ part = "chart" /\ Rest /\ AC!Next
    \/ part = "table" /\ Rest /\ TS!Next
    \/ part = "push" /\ Rest /\ PD!Next
    \/ part = "alerts" /\ Rest /\ PA!Next
    \/ part = "market" /\ Rest /\ MD!Next
    \/ part = "tracked" /\ Rest /\ TA!Next
    \/ part = "ops" /\ Rest /\ OW!Next

Spec == Init /\ [][Next]_vars

-----------------------------------------------------------------------------
(* What each part promises; its module states the conjuncts one by one.     *)

\* In whatever order lookups answer, whichever answers are lost and however
\* often a button is pressed, the money goes to the handle that stood on the
\* confirm page, a wizard charges at most once more than it has shown
\* receipts, and every receipt stands for a payment of its own; the
\* adjustment form, which sends no key, adjusts twice only after a lost
\* answer.
PaymentsRight ==
    part = "payments" =>
        /\ PF!TypeOK
        /\ PF!PaidWhoWasNamed
        /\ PF!ChargedOnce
        /\ PF!ReceiptTruthful
        /\ PF!AdjustedOnce
        /\ PF!ConfirmStays

\* exchange-screen.tsx: one visit makes at most one exchange, lost answers
\* and edits included, and the success dialog names an exchange the server
\* made, at a quote given for exactly that, between two different wallets.
ExchangeRight ==
    part = "exchange" =>
        EF!TypeOK /\ EF!SidesDiffer /\ EF!DialogTruthful /\ EF!ExchangedOnce

\* sanitize-number.ts and parse-amount.ts agree: a finished field is an
\* amount the form can send.
FieldParses == part = "amount" => AF!TypeOK /\ AF!FieldParses

\* live-balance.tsx shows the committed balance once all is announced, unless
\* an announcement was missed or overtaken; use-socket.ts holds a socket only
\* for a component that is on screen.
BalanceRight == part = "balance" => LB!TypeOK /\ LB!BalanceShown /\ LB!NoLeakedSocket

\* price-chart.tsx, asset-live.tsx: the pressed button names the range drawn,
\* unless two picks raced; header and chart show one number, except from a
\* range switch to the next event.
ChartRight == part = "chart" => AC!TypeOK /\ AC!ButtonTellsRange /\ AC!OneNumber

\* The tables of the console: once all is quiet the search box says what the
\* URL says, up to the space around it; nothing asked for is lost unless it was
\* asked for while a page was on its way or a cut search was being changed; and
\* a page is empty only when nothing matches, a link led past the end or rows
\* have left since.
TableRight ==
    part = "table" =>
        TS!TypeOK /\ TS!BoxMatchesUrl /\ TS!ChoicesKept /\ TS!EmptyMeansNone

\* A toggle that reads off, on a device nobody is switching, has no live
\* subscription behind it; push.service.ts retries the whole fan-out, so a
\* device shows a message once, and once more per transient fault at most.
PushRight == part = "push" => PD!TypeOK /\ PD!OffIsQuiet /\ PD!CopiesForFaults

\* alert-check.service.ts is "one-shot": an alert is told again only by a
\* tick that had already found it, and one marked as reached has its
\* notification in the outbox, wherever the process died.
AlertsRight == part = "alerts" => PA!TypeOK /\ PA!OneShot /\ PA!TriggeredTold

\* Stars, chips and holdings say what the tables hold unless an answer was
\* lost or a read failed; what the page was told is saved stays until
\* something newer is asked for; a portfolio value of zero is not an outage
\* of the market data.
TrackedRight ==
    part = "tracked" =>
        /\ TA!TypeOK
        /\ TA!StarTruthful
        /\ TA!ListsTrue
        /\ TA!SavedStands
        /\ TA!ZeroIsReal

\* cache.service.ts: no read is given a value older than its TTL and one
\* fetch, nor an outage's empty answer older than the negative TTL and one
\* fetch.
CacheRight == part = "market" => MD!TypeOK /\ MD!Fresh /\ MD!OutageShort

\* ops-watch.service.ts: the dead-letter alarm recovers over waiting letters
\* only when the broker could not be asked or they came after it was.
RecoveredForCause ==
    /\ [](part = "ops" => OW!TypeOK)
    /\ [][part = "ops" => OW!RecoveredForCauseStep]_vars
=============================================================================
