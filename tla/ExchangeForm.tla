---------------------------- MODULE ExchangeForm ----------------------------
(***************************************************************************)
(* The exchange screen: two of the person's own wallets, an amount, a live *)
(* quote 300 ms after the last change, one button.  A quote is stamped     *)
(* with what it answered and counts only while that is what is on screen;  *)
(* a reply to an earlier question is dropped.  The screen stays editable   *)
(* while the exchange is under way.                                        *)
(***************************************************************************)
EXTENDS KeyedCalls

CONSTANTS
    Wallet,       \* the person's wallets, each in a currency of its own
    Amount,       \* the amounts, in minor units; 0 is a field that does not parse
    Balance,      \* the balance of each wallet as the page was rendered
    MaxEdits      \* bound: keystrokes, swaps and picks

VARIABLES
    from, to,     \* the two sides
    amount,       \* the amount field
    result,       \* the last quote and what it answered
    failedFor,    \* the question the last failure answered
    quote,        \* the question the effect has a timer or a request for
    done,         \* what the success dialog says
    edits

screenVars == <<from, to, amount, result, failedFor, quote, done, edits>>
vars == <<callVars, screenVars>>

Question == [from : Wallet, to : Wallet, amount : Amount]
NoQuestion == [amount |-> 0]
Idle == [at |-> "idle"]
NotDone == [sent |-> NoQuestion, quoted |-> NoQuestion]

TypeOK ==
    /\ CallsTypeOK(Question)
    /\ from \in Wallet /\ to \in Wallet
    /\ amount \in Amount \cup {0}
    /\ result \in Question \cup {NoQuestion}
    /\ failedFor \in Question \cup {NoQuestion}
    /\ quote \in [at : {"timer", "asked"}, for : Question] \cup {Idle}
    /\ done \in [sent : Question, quoted : Question] \cup {NotDone}
    /\ edits \in 0..MaxEdits

Init ==
    /\ CallsInit
    /\ \E w \in Wallet \X Wallet : w[1] # w[2] /\ from = w[1] /\ to = w[2]
    /\ amount = 0 /\ result = NoQuestion /\ failedFor = NoQuestion
    /\ quote = Idle /\ done = NotDone /\ edits = 0

-----------------------------------------------------------------------------
(* The quote.                                                              *)

Asking(f, t, a) == IF a = 0 THEN NoQuestion ELSE [from |-> f, to |-> t, amount |-> a]
OnScreen == Asking(from, to, amount)

\* Mutant: any quote counts as current.
CurrentAny == result # NoQuestion

\* current: the quote is for what is on screen.
Current == result # NoQuestion /\ result = OnScreen

\* A change of an input: the effect's cleanup cancels the timer or the request
\* under way, and the new question gets a timer.
Change(f, t, a) ==
    /\ done = NotDone /\ edits < MaxEdits
    /\ from' = f /\ to' = t /\ amount' = a
    /\ quote' = IF a = 0 THEN Idle ELSE [at |-> "timer", for |-> Asking(f, t, a)]
    /\ edits' = edits + 1
    /\ UNCHANGED <<callVars, result, failedFor, done>>

TypeAmount(a) == a # amount /\ Change(from, to, a)

Swap == Change(to, from, amount)

\* Mutant: picking the other side's wallet leaves the other side alone.
PickCollides(side, w) ==
    \/ side = "from" /\ Change(w, to, amount)
    \/ side = "to" /\ Change(from, w, amount)

\* The picker: choosing the wallet of the other side swaps the two.
Pick(side, w) ==
    \/ side = "from" /\ w # from /\ Change(w, IF w = to THEN from ELSE to, amount)
    \/ side = "to" /\ w # to /\ Change(IF w = from THEN to ELSE from, w, amount)

\* The picker lists every wallet; a press picks one and closes it.
ChooseCurrency == \E side \in {"from", "to"}, w \in Wallet : Pick(side, w)

TimerFires ==
    /\ quote.at = "timer"
    /\ quote' = [quote EXCEPT !.at = "asked"]
    /\ UNCHANGED <<callVars, from, to, amount, result, failedFor, done, edits>>

QuoteAnswers(ok) ==
    /\ quote.at = "asked"
    /\ quote' = Idle
    /\ IF ok THEN result' = quote.for /\ failedFor' = NoQuestion
             ELSE failedFor' = quote.for /\ UNCHANGED result
    /\ UNCHANGED <<callVars, from, to, amount, done, edits>>

-----------------------------------------------------------------------------
(* The exchange.                                                           *)

\* submit: a current quote and enough money.  No grant is ever sent.
Submit ==
    /\ done = NotDone
    /\ Current /\ OnScreen # NoQuestion /\ amount <= Balance[from]
    /\ Send(Key, OnScreen, [guarded |-> TRUE, grant |-> FALSE, quoted |-> result])
    /\ UNCHANGED screenVars

\* Success: the dialog says what was sent and what it was quoted at, both as
\* they were when the button was pressed.
Answered ==
    /\ Hear(calls[waiting].at = "ok")
    /\ done' = IF calls[waiting].at = "ok"
               THEN [sent |-> calls[waiting].body, quoted |-> calls[waiting].detail.quoted]
               ELSE done
    /\ UNCHANGED <<from, to, amount, result, failedFor, quote, edits>>

AnswerLost == Lose /\ UNCHANGED screenVars

\* The dialog only leads home; before it the person may stop at any time.
Home == UNCHANGED vars

Next ==
    \/ \E a \in Amount \cup {0} : TypeAmount(a)
    \/ Swap
    \/ ChooseCurrency
    \/ TimerFires
    \/ \E ok \in BOOLEAN : QuoteAnswers(ok)
    \/ Submit \/ Answered \/ AnswerLost
    \/ Serve /\ UNCHANGED screenVars
    \/ Home

Spec == Init /\ [][Next]_vars

-----------------------------------------------------------------------------
(* Properties.                                                             *)

\* The two sides are never one wallet, whatever is picked and swapped.
SidesDiffer == from # to

\* The success dialog tells the truth about an exchange the server made: that
\* amount, between those wallets, at a quote given for exactly that, although
\* the screen may show something else by now.
DialogTruthful ==
    done # NotDone =>
        /\ done.quoted = done.sent
        /\ \E c \in ledger : calls[c].body = done.sent

\* Lost answers, swaps and new amounts included, one visit to the screen makes
\* at most one exchange: the key stays until a success, and a success leads
\* home.
ExchangedOnce == Cardinality(ledger) <= 1
=============================================================================
