--------------------------- MODULE TrackedAssets ---------------------------
(***************************************************************************)
(* What a customer tracks: the watchlist behind the stars of the markets   *)
(* page, and the holdings of the portfolio.                                *)
(*                                                                         *)
(* Neither has an idempotency key: POST is an upsert, DELETE deletes what  *)
(* is there.  A star turns at once and turns back on failure; a success    *)
(* reloads the page, which gives the list its new rows but not the star    *)
(* its state.  A read that fails is shown as an empty list.  A request     *)
(* goes on after its button has left the screen, and so does what its      *)
(* answer starts.                                                          *)
(***************************************************************************)
EXTENDS Naturals, FiniteSetsExt

CONSTANTS
    Coin,
    Price,       \* the price of each coin
    MaxQty,      \* bound: the quantities a holding may have
    Catalogs,    \* what the market data may list; {} is an outage
    Chips,       \* chips to press, of "all", "watching", "gainers", "losers"
    Searches,    \* the coins a search may match
    MaxCalls     \* bound: requests sent

VARIABLES
    rows,        \* the tables: 1 for a followed coin, the quantity of a holding
    page,        \* the data the page on screen was rendered with
    chip, q,     \* the chip and the search of the markets page
    star,        \* the stars on screen: what each says, and its request
    form,        \* the add-holding form: its fields and its request
    dialog,      \* the open "Remove?" dialog: its coin and its request
    calls,       \* the requests, in the order they were sent
    reading,     \* the page being fetched
    doubt,       \* ghost: rows whose answer was lost, or whose star came back unsure
    overtaken    \* ghost: rows where an older request committed after a newer one

vars == <<rows, page, chip, q, star, form, dialog, calls, reading, doubt, overtaken>>

Row == {"watch", "hold"} \X Coin
Call == 1..MaxCalls
Unsent == [at |-> "none"]
NoStar == [call |-> MaxCalls + 1]
NoForm == [call |-> MaxCalls + 1]
NoRead == [to |-> "none", anew |-> FALSE]
Pages == {"home", "markets", "portfolio", "form"}
NoStars == [c \in Coin |-> NoStar]
NoRows == [r \in Row |-> 0]

TypeOK ==
    /\ rows \in [Row -> 0..MaxQty]
    /\ page.at \in Pages /\ page.assets \in Catalogs /\ page.view \in Catalogs /\ page.up \subseteq Coin
    /\ page.list \in [Row -> 0..MaxQty] /\ page.missed \subseteq {"watch", "hold"}
    /\ page.unsure \subseteq Row
    /\ chip \in Chips /\ q \in Searches
    /\ \A c \in Coin : star[c] = NoStar \/ star[c] \in [on : BOOLEAN, call : 0..MaxCalls]
    /\ form = NoForm \/ form \in [coin : page.assets, qty : 0..MaxQty, call : 0..MaxCalls]
    /\ dialog = NoForm \/ dialog \in [coin : Coin, call : 0..MaxCalls]
    /\ \A n \in Call : calls[n] = Unsent \/ (calls[n].row \in Row /\ calls[n].to \in 0..MaxQty)
    /\ reading = NoRead \/ reading \in [to : Pages, anew : BOOLEAN]
    /\ doubt \subseteq Row /\ overtaken \subseteq Row

-----------------------------------------------------------------------------
(* The requests.  "told" is a success the page heard of.                   *)

Sent == {n \in Call : calls[n] # Unsent}
Last == Cardinality(Sent)
UnderWay(r) == \E n \in Sent : calls[n].row = r /\ calls[n].at \in {"sent", "ok", "failed"}

\* Ask for row r to become `to`; 0 is DELETE.
Post(r, to) ==
    /\ Last < MaxCalls
    /\ calls' = [calls EXCEPT ![Last + 1] =
                    [at |-> "sent", row |-> r, to |-> to, lost |-> FALSE]]

Served(n, at) ==
    /\ calls[n].at = "sent"
    /\ calls' = [calls EXCEPT ![n].at = IF calls[n].lost THEN "over" ELSE at]
    /\ UNCHANGED <<page, chip, q, star, form, dialog, reading, doubt>>

Overtakes(n) ==
    \E m \in Sent : m > n /\ calls[m].row = calls[n].row /\ calls[m].at \in {"ok", "told"}

Write(n, value) ==
    /\ Served(n, "ok")
    /\ rows' = [rows EXCEPT ![calls[n].row] = value]
    /\ overtaken' = IF Overtakes(n) THEN overtaken \cup {calls[n].row} ELSE overtaken

\* Watchlist: "re-starring never errors", "removing deletes 0 rows, not an error".
Watch(n) == calls[n].row[1] = "watch" /\ calls[n].to = 1 /\ Write(n, 1)
Unwatch(n) == calls[n].row[1] = "watch" /\ calls[n].to = 0 /\ Write(n, 0)

\* Mutant: adding again leaves the holding as it is, as starring again does.
AddHoldingOnce(n) ==
    /\ calls[n].row[1] = "hold" /\ calls[n].to > 0
    /\ Write(n, IF rows[calls[n].row] = 0 THEN calls[n].to ELSE rows[calls[n].row])

\* Holdings: "re-adding sets the new quantity".
AddHolding(n) == calls[n].row[1] = "hold" /\ calls[n].to > 0 /\ Write(n, calls[n].to)
RemoveHolding(n) == calls[n].row[1] = "hold" /\ calls[n].to = 0 /\ Write(n, 0)

Fail(n) == Served(n, "failed") /\ UNCHANGED <<rows, overtaken>>

\* The network fails under a request the server may still be at work on: "over"
\* once it has answered.
Lost(n) ==
    calls' = [calls EXCEPT ![n].at = IF @ = "sent" THEN "sent" ELSE "over", ![n].lost = TRUE]
Heard(n, at) == calls' = [calls EXCEPT ![n].at = at]

-----------------------------------------------------------------------------
(* The pages.                                                              *)

\* router.refresh; under a navigation, that one fetches again.
Refresh ==
    reading' = IF reading = NoRead THEN [to |-> page.at, anew |-> FALSE] ELSE reading
Push(to) == reading' = [to |-> to, anew |-> to # page.at]

Navigate(to) ==
    /\ to # page.at /\ to # reading.to
    /\ Push(to)
    /\ UNCHANGED <<rows, page, chip, q, star, form, dialog, calls, doubt, overtaken>>

\* What a page reads of the tables and of the markets; a failed read is [].
Reads(to, tables, assets, missed) ==
    [at |-> to, assets |-> assets, view |-> assets, up |-> assets,
     list |-> [r \in Row |-> IF r[1] \in tables \ missed THEN rows[r] ELSE 0],
     missed |-> missed, unsure |-> {r \in Row : UnderWay(r)}]

Tables == [home |-> {"watch"}, markets |-> {"watch", "hold"}, portfolio |-> {"hold"}, form |-> {}]
HomePage(assets, missed) == Reads("home", {"watch"}, assets, missed)
MarketsPage(assets, missed) == Reads("markets", {"watch", "hold"}, assets, missed)
PortfolioPage(assets, missed) == Reads("portfolio", {"hold"}, assets, missed)
NewHoldingPage(assets) == Reads("form", {}, assets, {})

Followed(p) == {c \in Coin : p.list[<<"watch", c>>] = 1}

\* The rows of the markets page: the search and the chip.
Visible(p, ch, s) ==
    {c \in p.view \cap s :
        CASE ch = "watching" -> c \in Followed(p)
          [] ch = "gainers" -> c \in p.up
          [] ch = "losers" -> c \notin p.up
          [] OTHER -> TRUE}

\* A row that stays keeps its star; a row that comes gets one that says what the
\* page was rendered with.
MarketList(p, ch, s, old) ==
    [c \in Coin |-> IF p.at # "markets" \/ c \notin Visible(p, ch, s) THEN NoStar
                    ELSE IF old[c] # NoStar THEN old[c]
                    ELSE [on |-> c \in Followed(p), call |-> 0]]

\* computePortfolio: a holding without a price is skipped.
Priced(p) == {c \in p.assets : p.list[<<"hold", c>>] > 0}

\* Stars that come to a page that may be behind.
CameUnsure(p) ==
    {<<"watch", c>> : c \in {d \in Coin :
        /\ star'[d] # NoStar /\ (star[d] = NoStar \/ reading.anew)
        /\ \/ "watch" \in p.missed \/ <<"watch", d>> \in p.unsure
           \/ UnderWay(<<"watch", d>>) \/ reading' # NoRead}}

\* Another page.
Opened(p) ==
    /\ page' = p /\ chip' = "all" /\ q' = Coin
    /\ star' = MarketList(p, "all", Coin, NoStars)
    /\ form' = IF p.at = "form" /\ p.assets # {}
               THEN [coin |-> CHOOSE c \in p.assets : TRUE, qty |-> 0, call |-> 0] ELSE NoForm
    /\ dialog' = NoForm
    /\ doubt' = CameUnsure(p)

\* The same page again: the client keeps chip, search, stars and fields, and the
\* prices the markets page was first given.
Reloaded(p) ==
    /\ page' = IF p.at = "markets" THEN [p EXCEPT !.view = page.view, !.up = page.up] ELSE p
    /\ star' = MarketList(page', chip, q, star)
    /\ form' = IF form # NoForm /\ form.coin \notin p.assets THEN NoForm ELSE form
    /\ dialog' = IF dialog # NoForm /\ dialog.coin \notin Priced(p) THEN NoForm ELSE dialog
    /\ doubt' = doubt \cup CameUnsure(page')
    /\ UNCHANGED <<chip, q>>

\* The page asked for comes, with what the server read.
Arrive ==
    /\ reading # NoRead /\ reading' = NoRead
    /\ \E assets \in Catalogs, missed \in SUBSET Tables[reading.to] :
          LET p == CASE reading.to = "home" -> HomePage(assets, missed)
                     [] reading.to = "markets" -> MarketsPage(assets, missed)
                     [] reading.to = "portfolio" -> PortfolioPage(assets, missed)
                     [] OTHER -> NewHoldingPage(assets)
          IN  IF reading.anew THEN Opened(p) ELSE Reloaded(p)
    /\ UNCHANGED <<rows, calls, overtaken>>

-----------------------------------------------------------------------------
(* The markets page.                                                       *)

Show(p, ch, s) ==
    /\ page.at = "markets"
    /\ page' = p /\ chip' = ch /\ q' = s
    /\ star' = MarketList(p, ch, s, star)
    /\ reading' = reading
    /\ doubt' = doubt \cup CameUnsure(p)
    /\ UNCHANGED <<rows, form, dialog, calls, overtaken>>

PressChip(ch) == ch # chip /\ page.view # {} /\ Show(page, ch, q)
Search(s) == s # q /\ page.view # {} /\ Show(page, chip, s)

\* prices.updated: a coin starts to gain or to lose; none is added.
MergeLivePrices(c) ==
    /\ c \in page.view
    /\ Show([page EXCEPT !.up = IF c \in @ THEN @ \ {c} ELSE @ \cup {c}], chip, q)

\* toggle: nothing while busy; the star turns before the answer.
Toggle(c) ==
    /\ star[c].call = 0
    /\ star' = [star EXCEPT ![c] = [on |-> ~star[c].on, call |-> Last + 1]]
    /\ Post(<<"watch", c>>, IF star[c].on THEN 0 ELSE 1)
    /\ UNCHANGED <<rows, page, chip, q, form, dialog, reading, doubt, overtaken>>

Settled(n, turnBack) ==
    star' = [c \in Coin |->
        IF star[c].call = n THEN [on |-> IF turnBack THEN ~star[c].on ELSE star[c].on, call |-> 0]
        ELSE star[c]]

\* Mutant: a failed request leaves the star as it turned.
ToggledKeeps(n) ==
    /\ calls[n].row[1] = "watch"
    /\ \/ calls[n].at = "ok" /\ Heard(n, "told") /\ Settled(n, FALSE) /\ Refresh
       \/ calls[n].at = "failed" /\ Heard(n, "over") /\ Settled(n, FALSE) /\ UNCHANGED reading
    /\ UNCHANGED <<rows, page, chip, q, form, dialog, doubt, overtaken>>

\* The answer: the star turns back on failure, the page is fetched on success.
Toggled(n) ==
    /\ calls[n].row[1] = "watch"
    /\ \/ calls[n].at = "ok" /\ Heard(n, "told") /\ Settled(n, FALSE) /\ Refresh
       \/ calls[n].at = "failed" /\ Heard(n, "over") /\ Settled(n, TRUE) /\ UNCHANGED reading
    /\ UNCHANGED <<rows, page, chip, q, form, dialog, doubt, overtaken>>

-----------------------------------------------------------------------------
(* The portfolio.                                                          *)

FillIn(c, n) ==
    /\ form.call = 0 /\ c \in page.assets /\ <<c, n>> # <<form.coin, form.qty>>
    /\ form' = [form EXCEPT !.coin = c, !.qty = n]
    /\ UNCHANGED <<rows, page, chip, q, star, dialog, calls, reading, doubt, overtaken>>

SubmitHolding ==
    /\ form.call = 0 /\ form.qty > 0
    /\ Post(<<"hold", form.coin>>, form.qty)
    /\ form' = [form EXCEPT !.call = Last + 1]
    /\ UNCHANGED <<rows, page, chip, q, star, dialog, reading, doubt, overtaken>>

FormIdle(n) == form' = IF form.call = n THEN [form EXCEPT !.call = 0] ELSE form

\* Success leads to the portfolio, wherever the person has gone since.
HoldingAdded(n) ==
    /\ calls[n].row[1] = "hold" /\ calls[n].to > 0
    /\ \/ calls[n].at = "ok" /\ Heard(n, "told") /\ Push("portfolio")
       \/ calls[n].at = "failed" /\ Heard(n, "over") /\ UNCHANGED reading
    /\ FormIdle(n)
    /\ UNCHANGED <<rows, page, chip, q, star, dialog, doubt, overtaken>>

\* What those holdings are worth, at the prices of the page.
TotalValue(p) == MapThenSumSet(LAMBDA c : p.list[<<"hold", c>>] * Price[c], Priced(p))

\* Mutant: the aside of the markets page always shows a value.
ValueShownAlways(p) == p.at = "markets"

\* The aside of the markets page: "Valued once live prices are back".
ValueShown(p) == p.at = "markets" /\ p.assets # {}

OpenDialog(c) ==
    /\ page.at = "portfolio" /\ c \in Priced(page) /\ dialog = NoForm
    /\ dialog' = [coin |-> c, call |-> 0]
    /\ UNCHANGED <<rows, page, chip, q, star, form, calls, reading, doubt, overtaken>>

\* Closing is not possible while the request is under way.
CancelDialog ==
    /\ dialog.call = 0 /\ dialog' = NoForm
    /\ UNCHANGED <<rows, page, chip, q, star, form, calls, reading, doubt, overtaken>>

ConfirmRemove ==
    /\ dialog.call = 0
    /\ Post(<<"hold", dialog.coin>>, 0)
    /\ dialog' = [dialog EXCEPT !.call = Last + 1]
    /\ UNCHANGED <<rows, page, chip, q, star, form, reading, doubt, overtaken>>

CloseFor(n) == dialog' = IF dialog.call = n THEN NoForm ELSE dialog

\* Mutant: the list is not fetched again.
HoldingRemovedKeeps(n) ==
    /\ calls[n].row[1] = "hold" /\ calls[n].to = 0
    /\ \/ calls[n].at = "ok" /\ Heard(n, "told") /\ UNCHANGED reading
       \/ calls[n].at = "failed" /\ Heard(n, "over") /\ UNCHANGED reading
    /\ CloseFor(n)
    /\ UNCHANGED <<rows, page, chip, q, star, form, doubt, overtaken>>

HoldingRemoved(n) ==
    /\ calls[n].row[1] = "hold" /\ calls[n].to = 0
    /\ \/ calls[n].at = "ok" /\ Heard(n, "told") /\ Refresh
       \/ calls[n].at = "failed" /\ Heard(n, "over") /\ UNCHANGED reading
    /\ CloseFor(n)
    /\ UNCHANGED <<rows, page, chip, q, star, form, doubt, overtaken>>

\* apiRequest answers NETWORK: to the page, a failure like any other.
LoseAnswer(n) ==
    /\ calls[n].at \in {"sent", "ok", "failed"} /\ ~calls[n].lost
    /\ Lost(n) /\ Settled(n, TRUE) /\ FormIdle(n) /\ CloseFor(n)
    /\ doubt' = doubt \cup {calls[n].row}
    /\ UNCHANGED <<rows, page, chip, q, reading, overtaken>>

-----------------------------------------------------------------------------

Init ==
    /\ rows = NoRows /\ calls = [n \in Call |-> Unsent]
    /\ page \in {HomePage(assets, {}) : assets \in Catalogs}
    /\ chip = "all" /\ q = Coin /\ star = NoStars
    /\ form = NoForm /\ dialog = NoForm
    /\ reading = NoRead /\ doubt = {} /\ overtaken = {}

Next ==
    \/ \E n \in Sent :
          \/ Watch(n) \/ Unwatch(n) \/ AddHolding(n) \/ RemoveHolding(n) \/ Fail(n)
          \/ Toggled(n) \/ HoldingAdded(n) \/ HoldingRemoved(n) \/ LoseAnswer(n)
    \/ \E to \in Pages : Navigate(to)
    \/ Arrive
    \/ \E ch \in Chips : PressChip(ch)
    \/ \E s \in Searches : Search(s)
    \/ \E c \in Coin : MergeLivePrices(c) \/ Toggle(c) \/ OpenDialog(c)
    \/ \E c \in Coin, n \in 1..MaxQty : FillIn(c, n)
    \/ SubmitHolding \/ CancelDialog \/ ConfirmRemove

Spec == Init /\ [][Next]_vars

-----------------------------------------------------------------------------
(* Properties.                                                             *)

Quiet == reading = NoRead /\ \A r \in Row : ~UnderWay(r)
Sure(r) == r \notin doubt \cup page.unsure /\ r[1] \notin page.missed

\* A star that no request is out for says whether its coin is followed, although
\* no reload ever corrects it: unless an answer was lost, or the star left the
\* list and came back while the page was behind or its read had failed.
StarTruthful ==
    Quiet => \A c \in Coin :
        star[c] # NoStar /\ <<"watch", c>> \notin doubt
            => star[c].on = (rows[<<"watch", c>>] = 1)

\* The lists of the pages (the Watching chip, the card on the home page, the
\* holdings) are the tables' once all is quiet, unless an answer was lost or a
\* read failed.
ListsTrue ==
    Quiet => \A r \in Row : r[1] \in Tables[page.at] /\ Sure(r) => page.list[r] = rows[r]

\* What the page was told is saved stays saved until something newer is asked
\* for, unless an older request, given up as lost, commits late.
SavedStands ==
    \A n \in Sent :
        /\ calls[n].at = "told" /\ calls[n].row \notin overtaken
        /\ \A m \in Sent : m > n => calls[m].row # calls[n].row
        => rows[calls[n].row] = calls[n].to

\* "Without prices computePortfolio yields $0.00, which would read as a real
\* balance": where the markets page says zero, nothing is held, or only coins
\* that a catalog with other coins in it does not list.
ZeroIsReal ==
    ValueShown(page) /\ Quiet /\ TotalValue(page) = 0 =>
        \A c \in Coin : LET r == <<"hold", c>> IN
            rows[r] > 0 /\ Sure(r) => page.assets # {} /\ c \notin page.assets
=============================================================================
