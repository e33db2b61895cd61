----------------------------- MODULE TableState -----------------------------
(***************************************************************************)
(* The staff console's tables (users, wallets, audit): the state of a      *)
(* table is the URL, the server filters, sorts and pages, and every        *)
(* control writes the next URL in a transition.                            *)
(*                                                                         *)
(* Between a press and the new page the controls still work with the old   *)
(* parameters, and a later navigation replaces the one under way.  The     *)
(* search box is a copy of the parameter q, written to the URL 300 ms      *)
(* after the last keystroke; the URL keeps what was written, the           *)
(* parameters are that text trimmed and cut.  The rows are other people's  *)
(* as well: how many match is asked anew for every page.                   *)
(***************************************************************************)
EXTENDS Integers, FiniteSets

CONSTANTS
    Text,           \* what can stand in the box and in a URL's q; "" is no search
    CleanText,      \* trim().slice(0, 100) of each of them
    Filter,         \* the values of the filter in a URL; "" is none
    CleanFilter,    \* trim(), slice(0, 60) of each of them
    PAGE_SIZES,     \* the page sizes, the default first
    MaxRows,        \* bound: rows that match a search and a filter
    MaxPresses      \* bound: presses and keystrokes

VARIABLES
    url,       \* the parameters in the address bar, as they were written
    counted,   \* what the API answered for the page on screen: its two queries
    nav,       \* the URL a navigation under way is for
    box,       \* the search box
    timer,     \* its debounce timer is running
    want,      \* ghost: the search, sort, filter and size asked for, the page turned to
    hasty,     \* ghost: something was asked for while something else was under way
    linked,    \* ghost: the page number is a link's, or only "previous" led on from it
    promised,  \* ghost: the rows the screen spoke of when "next" was last pressed
    presses

vars == <<url, counted, nav, box, timer, want, hasty, linked, promised, presses>>

None == ""      \* no search, no filter
Sort == {"asc", "desc"}
Sizes == {PAGE_SIZES[i] : i \in DOMAIN PAGE_SIZES}
MaxPage == 1 + MaxRows
Params == [q : Text, sort : Sort, filter : Filter, size : Sizes, page : 1..MaxPage]
NoNav == [page |-> 0]

\* The page query and the count run side by side, and rows come and go: two
\* numbers of matching rows.
Reading == [rows : 0..MaxRows, total : 0..MaxRows]

\* parseTableParams: text is trimmed and cut, an unknown sort or size is the
\* default, a page that is no positive number is the first.
ParseTableParams(raw) ==
    [q |-> CleanText[raw.q], filter |-> CleanFilter[raw.filter],
     sort |-> IF raw.sort \in Sort THEN raw.sort ELSE "desc",
     size |-> IF raw.size \in Sizes THEN raw.size ELSE PAGE_SIZES[1],
     page |-> IF raw.page < 1 THEN 1 ELSE raw.page]

\* The parameters of the page on screen.
params == ParseTableParams(url)

\* A link, perhaps to a page there is no more, or one edited until nothing in it
\* can be read.  A parameter at its default is one the URL does not have.
Bookmark ==
    [q : Text, sort : {"asc"}, filter : Filter, size : Sizes, page : {1, MaxPage}]
    \cup [q : Text, sort : {"up"}, filter : Filter, size : {0}, page : {-1}]

TypeOK ==
    /\ url \in Params \cup Bookmark
    /\ counted \in Reading
    /\ nav \in Params \cup {NoNav}
    /\ box \in Text
    /\ timer \in BOOLEAN
    /\ want \in [q : Text, sort : Sort, filter : Filter, size : Sizes, page : 0..MaxPage]
    /\ hasty \in BOOLEAN /\ linked \in BOOLEAN
    /\ promised \in 0..MaxRows
    /\ presses \in 0..MaxPresses

Init ==
    /\ url \in Bookmark
    /\ counted \in Reading
    /\ nav = NoNav
    /\ box = params.q
    /\ timer = FALSE
    /\ want = [params EXCEPT !.page = 0]
    /\ hasty = FALSE
    /\ linked = TRUE
    /\ promised = 0
    /\ presses = 0

Resets(patch) == DOMAIN patch \cap {"q", "sort", "size", "filter"} # {}

\* Mutant: a new search forgets the filter.
TableHrefForgets(p, patch) ==
    [f \in DOMAIN p |-> IF f \in DOMAIN patch THEN patch[f]
                        ELSE IF f = "page" /\ Resets(patch) THEN 1
                        ELSE IF f = "filter" /\ "q" \in DOMAIN patch THEN None ELSE p[f]]

\* tableHref: "anything that changes the result set sends you back to page 1".
TableHref(p, patch) ==
    [f \in DOMAIN p |-> IF f \in DOMAIN patch THEN patch[f]
                        ELSE IF f = "page" /\ Resets(patch) THEN 1
                        ELSE p[f]]

\* The rows of the page on screen: skip and take of the query the API runs.
Skip(p) == (p.page - 1) * p.size
RowsShown(p) == {i \in 1..counted.rows : i > Skip(p) /\ i <= Skip(p) + p.size}
Pages(p) == IF counted.total = 0 THEN 1 ELSE (counted.total + p.size - 1) \div p.size

\* A keystroke or a press.
Pressed(early) ==
    /\ presses < MaxPresses
    /\ presses' = presses + 1
    /\ hasty' = (hasty \/ early)

\* Too early for a control: a page is on its way, or the box has something to
\* write and the q on screen, cut at a space, will not come through unchanged.
Busy == nav # NoNav \/ (timer /\ CleanText[params.q] # params.q)

\* set of useTableParams: from the parameters on screen; the newest wins.  A
\* page turned to is remembered unless the box will still write a search.
Set(patch) ==
    /\ nav' = TableHref(params, patch)
    /\ want' = [f \in DOMAIN want |->
                   IF f \in DOMAIN patch /\ (f = "page" => box = params.q) THEN patch[f]
                   ELSE IF f = "page" THEN 0 ELSE want[f]]

-----------------------------------------------------------------------------
(* The controls.                                                           *)

\* The search box: the timer starts again, or stops when the box says what
\* the parameters say.
Type(t) ==
    /\ t # box
    /\ Pressed(nav # NoNav)
    /\ box' = t
    /\ timer' = (t # params.q)
    /\ want' = [want EXCEPT !.q = t, !.page = 0]
    /\ UNCHANGED <<url, counted, nav, linked, promised>>

\* The timer fires.
Debounced ==
    /\ timer
    /\ timer' = FALSE
    /\ nav' = TableHref(params, [q |-> box])
    /\ hasty' = (hasty \/ nav # NoNav)
    /\ UNCHANGED <<url, counted, box, want, linked, promised, presses>>

\* A filter is chosen or its chip removed.
ChooseFilter(f) ==
    /\ f = CleanFilter[f] /\ f # params.filter
    /\ Pressed(Busy)
    /\ Set([filter |-> f])
    /\ UNCHANGED <<url, counted, box, timer, linked, promised>>

\* "Clear all", and the chip of the search; a box whose timer runs survives.
ClearAll ==
    /\ params.q # None \/ params.filter # None
    /\ Pressed(nav # NoNav \/ timer)
    /\ \/ Set([q |-> None, filter |-> None])
       \/ params.q # None /\ Set([q |-> None])
    /\ UNCHANGED <<url, counted, box, timer, linked, promised>>

\* A column header turns the sort around; an empty table has none.
ToggleSort ==
    /\ RowsShown(params) # {}
    /\ Pressed(Busy)
    /\ Set([sort |-> IF params.sort = "asc" THEN "desc" ELSE "asc"])
    /\ UNCHANGED <<url, counted, box, timer, linked, promised>>

\* Mutant: "next" is enabled one page too far.
PageTurnsFar(p) == {p.page - 1, p.page + 1} \cap (1..(Pages(p) + 1))

\* The pages "previous" and "next" lead to, where they are enabled.
PageTurns(p) ==
    {n \in {p.page - 1} : p.page > 1} \cup {n \in {p.page + 1} : p.page < Pages(p)}

TurnPage(n) ==
    /\ n \in PageTurns(params)
    /\ Pressed(Busy)
    /\ Set([page |-> n])
    /\ promised' = IF n > params.page THEN counted.total ELSE promised
    /\ UNCHANGED <<url, counted, box, timer, linked>>

ChooseSize(n) ==
    /\ n # params.size
    /\ Pressed(Busy)
    /\ Set([size |-> n])
    /\ UNCHANGED <<url, counted, box, timer, linked, promised>>

\* Mutant: the box is not synchronised with the URL.
ArriveUnsynced ==
    /\ nav # NoNav
    /\ url' = nav
    /\ nav' = NoNav
    /\ counted' \in Reading
    /\ timer' = FALSE
    /\ linked' = (linked /\ nav.page < params.page)
    /\ UNCHANGED <<box, want, hasty, promised, presses>>

\* The new page is rendered, with the rows there are by now.  A changed q
\* overwrites the box; otherwise a box that differs starts its timer again,
\* unless the URL is the one that was there: then set stays the same function
\* and no effect runs.
Arrive ==
    /\ nav # NoNav
    /\ url' = nav
    /\ nav' = NoNav
    /\ counted' \in Reading
    /\ box' = IF params'.q # params.q THEN params'.q ELSE box
    /\ timer' = IF nav = url THEN timer ELSE box' # params'.q
    /\ linked' = (linked /\ nav.page < params.page)
    /\ UNCHANGED <<want, hasty, promised, presses>>

\* A row's own action succeeded and its router.refresh brings the same page as
\* it is now.  A navigation under way comes first, and one begun meanwhile
\* takes the place of the refresh.
Refresh ==
    /\ nav = NoNav
    /\ Pressed(FALSE)
    /\ counted' \in Reading
    /\ UNCHANGED <<url, nav, box, timer, want, linked, promised>>

Rest ==
    /\ presses = MaxPresses /\ nav = NoNav /\ ~timer
    /\ UNCHANGED vars

Next ==
    \/ \E t \in Text : Type(t)
    \/ Debounced
    \/ \E f \in Filter : ChooseFilter(f)
    \/ ClearAll \/ ToggleSort
    \/ \E n \in 1..MaxPage : TurnPage(n)
    \/ \E n \in Sizes : ChooseSize(n)
    \/ Arrive
    \/ Refresh
    \/ Rest

Spec == Init /\ [][Next]_vars

-----------------------------------------------------------------------------
(* Properties.                                                             *)

Quiet == nav = NoNav /\ ~timer

\* What is left of a text however often it goes through the URL.
Search(t) == CleanText[CleanText[t]]
Chosen(f) == CleanFilter[CleanFilter[f]]

\* Once no timer runs and no page is on its way, the box says what the
\* parameters say or, where that is the same text with a space around it, what
\* the URL says; also after hasty presses.
BoxMatchesUrl == Quiet => box \in {params.q, url.q}

\* Nothing asked for is lost as long as nothing is asked for while a page is on
\* its way, or while the box has something to write over a search that was cut
\* at a space: search, up to the space around it, filter, sort and size are then
\* the ones chosen, and a page turned to with no search left to write is the
\* page on screen.
ChoicesKept ==
    Quiet /\ ~hasty =>
        /\ Search(params.q) = Search(want.q) /\ Chosen(params.filter) = Chosen(want.filter)
        /\ params.sort = want.sort /\ params.size = want.size
        /\ want.page \in {0, params.page}

\* "No results" is the truth: a page is empty only when nothing matches, except
\* where a link leads past the last page or rows have left since the screen
\* said there was a next page; no press leads past the rows.
EmptyMeansNone ==
    RowsShown(params) = {} => counted.rows = 0 \/ linked \/ counted.rows < promised
=============================================================================
