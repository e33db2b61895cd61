----------------------------- MODULE MarketData -----------------------------
(***************************************************************************)
(* Prices, candles, supply and exchange rates through the Redis cache:     *)
(* CacheService.wrap (get, fetch on a miss, set) under the reads that use  *)
(* it, which run side by side.  The upstreams and Redis come and go.       *)
(*                                                                         *)
(* A value is what its source said once: `age` is how long ago, and `ok`   *)
(* is FALSE for an outage's empty answer.  There is no clock, only ages    *)
(* and the time entries have left, so runs of any length are covered.      *)
(***************************************************************************)
EXTENDS Naturals, Sequences

CONSTANTS
    Caller,        \* reads under way at once
    TTL,           \* how long a good value is kept, by key
    NEGATIVE_TTL,  \* how long an outage is kept
    MaxFetch,      \* bound: time from the upstream's answer to the end of set
    Mixes          \* bound: the sets of reads that run side by side

Key == {"tickers", "candles", "supply", "rate"}

VARIABLES
    mix,       \* the reads of this behaviour
    up,        \* the upstreams answer
    redisUp,   \* Redis answers
    cache,     \* what Redis holds: the value and the time it has left
    calls,     \* the reads under way
    given      \* ghost: the value a read was given in this step

vars == <<mix, up, redisUp, cache, calls, given>>

Nothing == [ok |-> FALSE, age |-> 0]
Absent == [value |-> Nothing, left |-> 0]
Free == [at |-> "free", todo |-> <<>>, value |-> Nothing]
NotGiven == [key |-> "none", value |-> Nothing]

\* The keys each read goes through, in order.
list == <<"tickers", "candles">>
detail == <<"tickers", "supply", "candles">>
chart == <<"candles", "tickers">>
quote == <<"rate">>
Reads == {list, detail, chart, quote}

TypeOK ==
    /\ mix \in SUBSET Reads /\ up \in BOOLEAN /\ redisUp \in BOOLEAN
    /\ \A k \in Key : /\ cache[k].value.ok \in BOOLEAN /\ cache[k].value.age \in Nat
                      /\ cache[k].left \in 0..TTL[k]
    /\ \A c \in Caller : /\ calls[c].at \in {"free", "get", "fetch", "set"}
                         /\ calls[c].value.age \in 0..MaxFetch
    /\ given.key \in Key \cup {"none"}

Init ==
    /\ mix \in Mixes
    /\ up = TRUE /\ redisUp = TRUE
    /\ cache = [k \in Key |-> Absent]
    /\ calls = [c \in Caller |-> Free]
    /\ given = NotGiven

-----------------------------------------------------------------------------
(* The surroundings.                                                       *)

Older(value) == [value EXCEPT !.age = @ + 1]

\* Time passes, unless a value has been on its way for MaxFetch; Redis drops
\* what has run out.
Advance ==
    /\ \A c \in Caller : calls[c].at = "set" => calls[c].value.age < MaxFetch
    /\ cache' = [k \in Key |-> IF cache[k].left <= 1 THEN Absent
                               ELSE [value |-> Older(cache[k].value), left |-> cache[k].left - 1]]
    /\ calls' = [c \in Caller |-> IF calls[c].at = "set" THEN [calls[c] EXCEPT !.value = Older(@)]
                                  ELSE calls[c]]
    /\ given' = NotGiven
    /\ UNCHANGED <<mix, up, redisUp>>

Upstream == up' = ~up /\ given' = NotGiven /\ UNCHANGED <<mix, redisUp, cache, calls>>

Redis == redisUp' = ~redisUp /\ given' = NotGiven /\ UNCHANGED <<mix, up, cache, calls>>

-----------------------------------------------------------------------------
(* wrap.                                                                   *)

Start(c, read) ==
    /\ calls[c].at = "free"
    /\ calls' = [calls EXCEPT ![c] = [at |-> "get", todo |-> read, value |-> Nothing]]
    /\ given' = NotGiven
    /\ UNCHANGED <<mix, up, redisUp, cache>>

\* The read is given the value and goes on to the next key; an empty ticker list
\* ends a list or a detail.
Given(c, value) ==
    LET key == Head(calls[c].todo)
        rest == Tail(calls[c].todo) IN
    /\ given' = [key |-> key, value |-> value]
    /\ calls' = [calls EXCEPT ![c] = IF rest = <<>> \/ (~value.ok /\ key = "tickers") THEN Free
                                     ELSE [at |-> "get", todo |-> rest, value |-> Nothing]]

Hit(key) == redisUp /\ cache[key].left > 0

\* Mutant: a hit keeps the value for another TTL.
GetSliding(c) ==
    /\ calls[c].at = "get"
    /\ LET key == Head(calls[c].todo) IN
       IF Hit(key)
       THEN Given(c, cache[key].value) /\ cache' = [cache EXCEPT ![key].left = TTL[key]]
       ELSE calls' = [calls EXCEPT ![c].at = "fetch"] /\ given' = NotGiven /\ UNCHANGED cache
    /\ UNCHANGED <<mix, up, redisUp>>

Get(c) ==
    /\ calls[c].at = "get"
    /\ LET key == Head(calls[c].todo) IN
       IF Hit(key) THEN Given(c, cache[key].value)
       ELSE calls' = [calls EXCEPT ![c].at = "fetch"] /\ given' = NotGiven
    /\ UNCHANGED <<mix, up, redisUp, cache>>

\* The upstream answers, or every failure becomes the empty value; the rate's
\* provider throws instead, and the caller gets a 503 and nothing else.
Fetch(c) ==
    /\ calls[c].at = "fetch"
    /\ calls' = [calls EXCEPT ![c] =
         IF ~up /\ Head(@.todo) = "rate" THEN Free
         ELSE [@ EXCEPT !.at = "set", !.value = [ok |-> up, age |-> 0]]]
    /\ given' = NotGiven
    /\ UNCHANGED <<mix, up, redisUp, cache>>

\* Mutant: an outage is kept as long as a good value.
KeptPinned(key, ok) == IF ok \/ key # "supply" THEN TTL[key] ELSE 0

\* The `cacheable` of each wrap: how long to keep the value, 0 for not at all.
Kept(key, ok) ==
    IF ok THEN TTL[key] ELSE IF key \in {"tickers", "candles"} THEN NEGATIVE_TTL ELSE 0

\* set, whoever stored since; a Redis that is down keeps what it had.
Set(c) ==
    /\ calls[c].at = "set"
    /\ LET key == Head(calls[c].todo)
           value == calls[c].value IN
       /\ cache' = IF redisUp /\ Kept(key, value.ok) > 0
                   THEN [cache EXCEPT ![key] = [value |-> value, left |-> Kept(key, value.ok)]]
                   ELSE cache
       /\ Given(c, value)
    /\ UNCHANGED <<mix, up, redisUp>>

Next ==
    \/ Advance \/ Upstream \/ Redis
    \/ \E c \in Caller : Get(c) \/ Fetch(c) \/ Set(c) \/ \E read \in mix : Start(c, read)

Spec == Init /\ [][Next]_vars

-----------------------------------------------------------------------------
(* Properties.                                                             *)

\* Every good price, candle list, supply and rate a read is given was true at
\* its source no longer ago than its TTL and one fetch, although reads miss
\* together, overwrite each other's newer value and Redis comes and goes.
Fresh ==
    given.key # "none" /\ given.value.ok => given.value.age < TTL[given.key] + MaxFetch

\* "An outage is cached briefly, never for a full TTL": an empty answer means the
\* upstream failed within the negative TTL and one fetch, and no rate is ever
\* made up for one.
OutageShort ==
    given.key # "none" /\ ~given.value.ok =>
        given.key # "rate" /\ given.value.age < NEGATIVE_TTL + MaxFetch
=============================================================================
