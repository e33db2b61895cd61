----------------------------- MODULE AssetChart -----------------------------
(***************************************************************************)
(* The page of one coin: the header's live price, and a chart whose range  *)
(* buttons fetch other candles.  A range fetch has a number; a newer press *)
(* supersedes it.  The number is looked at when the response's head        *)
(* arrives, and the body is read after that.                               *)
(***************************************************************************)
EXTENDS Naturals

CONSTANTS
    Range,         \* the range buttons
    FirstRange,    \* the range of the candles the page came with
    Price,         \* the prices a coin may have
    MaxPresses,    \* bound: presses of a range button
    MaxTicks       \* bound: price events

VARIABLES
    range,       \* the range button that is pressed
    canvas,      \* the range of the candles drawn
    busy,        \* the chart is dimmed
    requestId,   \* the number of the newest fetch
    fetch,       \* the fetches, by number
    price,       \* the price in the header
    edge,        \* the close of the last candle drawn
    market,      \* the price the API's cache has
    raced,       \* ghost: a range was picked while another was under way
    switched,    \* ghost: candles came since the last price event
    ticks

vars == <<range, canvas, busy, requestId, fetch, price, edge, market, raced, switched, ticks>>

NoFetch == [at |-> "none"]
Fetches == [at : {"asked", "body"}, next : Range, previous : Range, close : Price \cup {0}]

TypeOK ==
    /\ range \in Range /\ canvas \in Range
    /\ busy \in BOOLEAN
    /\ requestId \in 0..MaxPresses
    /\ fetch \in [1..MaxPresses -> Fetches \cup {NoFetch}]
    /\ price \in Price /\ edge \in Price /\ market \in Price
    /\ raced \in BOOLEAN /\ switched \in BOOLEAN
    /\ ticks \in 0..MaxTicks
    /\ busy <=> \E n \in 1..MaxPresses : n = requestId /\ fetch[n] # NoFetch

Init ==
    /\ range = FirstRange /\ canvas = FirstRange /\ busy = FALSE
    /\ requestId = 0 /\ fetch = [n \in 1..MaxPresses |-> NoFetch]
    /\ \E p \in Price : price = p /\ edge = p /\ market = p
    /\ raced = FALSE /\ switched = FALSE /\ ticks = 0

-----------------------------------------------------------------------------
(* Range buttons.                                                          *)

Select(next) ==
    /\ next # range /\ requestId < MaxPresses
    /\ range' = next /\ busy' = TRUE
    /\ requestId' = requestId + 1
    /\ fetch' = [fetch EXCEPT ![requestId + 1] =
                    [at |-> "asked", next |-> next, previous |-> range, close |-> 0]]
    /\ raced' = (raced \/ busy \/ \E n \in 1..MaxPresses : fetch[n] # NoFetch)
    /\ UNCHANGED <<canvas, price, edge, market, switched, ticks>>

\* The head of the response: superseded, or the body is read next.  The API
\* restates the open candle with the price of its cache.
HeadArrives(n) ==
    /\ fetch[n].at = "asked"
    /\ fetch' = [fetch EXCEPT ![n] = IF n # requestId THEN NoFetch
                                     ELSE [@ EXCEPT !.at = "body", !.close = market]]
    /\ UNCHANGED <<range, canvas, busy, requestId, price, edge, market, raced, switched, ticks>>

\* Mutant: the button stays where it was pressed.
FetchFailsSilently(n) ==
    /\ fetch[n] # NoFetch
    /\ fetch' = [fetch EXCEPT ![n] = NoFetch]
    /\ busy' = IF n = requestId THEN FALSE ELSE busy
    /\ UNCHANGED <<range, canvas, requestId, price, edge, market, raced, switched, ticks>>

\* An error status, a network failure, or a body that does not parse: the newest
\* fetch puts the button back.
FetchFails(n) ==
    /\ fetch[n] # NoFetch
    /\ fetch' = [fetch EXCEPT ![n] = NoFetch]
    /\ IF n = requestId
       THEN range' = fetch[n].previous /\ busy' = FALSE
       ELSE UNCHANGED <<range, busy>>
    /\ UNCHANGED <<canvas, requestId, price, edge, market, raced, switched, ticks>>

\* The body: drawn, whether or not a newer fetch has started since.
BodyArrives(n) ==
    /\ fetch[n].at = "body"
    /\ fetch' = [fetch EXCEPT ![n] = NoFetch]
    /\ canvas' = fetch[n].next /\ edge' = fetch[n].close /\ switched' = TRUE
    /\ busy' = IF n = requestId THEN FALSE ELSE busy
    /\ UNCHANGED <<range, requestId, price, market, raced, ticks>>

-----------------------------------------------------------------------------
(* Prices.                                                                 *)

MarketMoves(p) ==
    /\ p # market /\ ticks < MaxTicks
    /\ market' = p /\ ticks' = ticks + 1
    /\ UNCHANGED <<range, canvas, busy, requestId, fetch, price, edge, raced, switched>>

\* Mutant: the chart takes no price events.
PriceEventHeaderOnly ==
    /\ market # price
    /\ price' = market /\ switched' = FALSE
    /\ UNCHANGED <<range, canvas, busy, requestId, fetch, edge, market, raced, ticks>>

\* prices.updated: applyLive moves the header; the chart's effect runs only when
\* the number differs, and moves the open candle.
PriceEvent ==
    /\ market # price
    /\ price' = market /\ edge' = market /\ switched' = FALSE
    /\ UNCHANGED <<range, canvas, busy, requestId, fetch, market, raced, ticks>>

Leave == requestId = MaxPresses /\ ~busy /\ UNCHANGED vars

Next ==
    \/ \E r \in Range : Select(r)
    \/ \E n \in 1..MaxPresses : HeadArrives(n) \/ FetchFails(n) \/ BodyArrives(n)
    \/ \E p \in Price : MarketMoves(p)
    \/ PriceEvent
    \/ Leave

Spec == Init /\ [][Next]_vars

-----------------------------------------------------------------------------
(* Properties.                                                             *)

\* The button and the canvas disagree only after a range was picked while an
\* earlier pick was still under way.
ButtonTellsRange == ~busy /\ ~raced => range = canvas

\* The header and the chart's right edge show one number, except from a range
\* switch to the next price event.
OneNumber == ~switched => edge = price
=============================================================================
