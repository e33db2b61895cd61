---------------------------- MODULE ApprovalDesk ----------------------------
(***************************************************************************)
(* The staff console at work: the approvals queue and the dashboard's      *)
(* oldest requests, with their dialogs.  What the API does with a decision *)
(* is WalletLedger's; here it is one step, and the subject is what each    *)
(* desk shows and says afterwards.                                         *)
(*                                                                         *)
(* A page is asked for, read by the server, and shown when it reaches the  *)
(* browser: three steps, between which both desks go on deciding.  Nothing *)
(* waits for a refresh, so a decided request keeps its buttons until the   *)
(* refreshed page is there; and a row that is filtered out and in again is *)
(* a new row, which does not know of the call the old one sent.            *)
(*                                                                         *)
(* Requests are numbered from the oldest.  Answers get lost: the API has   *)
(* then decided, and the desk says it could not be reached.                *)
(***************************************************************************)
EXTENDS Naturals, FiniteSets

CONSTANTS
    Staff,
    Txn,            \* the requests, by age
    Withdrawals,    \* the requests that are withdrawals
    OVERVIEW_TAKE,  \* how many requests the dashboard shows
    MaxSends,       \* bound: decisions sent
    MaxLost         \* bound: answers lost

VARIABLES
    txn,      \* status and reviewer of each request
    page,     \* the page on each desk's screen, its rows and its filter
    asked,    \* the desks that wait for the server to read their page
    coming,   \* per desk, the page read and on its way to the browser
    dialog,   \* the dialog open at each desk
    call,     \* the API calls, in the order they were sent
    toast,    \* the last toast of each desk
    sends,    \* decisions sent
    lost,     \* the <<desk, request>> pairs an answer of which was lost
    heard,    \* the pairs of which the desk was told that they are decided
    repeats   \* the pairs sent though heard of, or during a call of their own

vars == <<txn, page, asked, coming, dialog, call, toast, sends, lost, heard, repeats>>

Acts == {"approve", "reject"}
Kinds == {"all", "deposit", "withdrawal"}
Places == {"queue", "dashboard"}
NoReviewer == "nobody"
NoDialog == [txn |-> 0, act |-> "none"]
NoCall == [at |-> "none"]
Nothing == [read |-> "none", rows |-> {}]
Results == {"done", "conflict", "funds"}
NoToast == [txn |-> 0, says |-> "nothing"]
Call == [at : {"sent"} \cup Results, by : Staff, txn : Txn, act : Acts, mounted : BOOLEAN]

TypeOK ==
    /\ txn \in [Txn -> [status : {"pending"} \cup Acts, by : Staff \cup {NoReviewer}]]
    /\ page \in [Staff -> [at : Places, rows : SUBSET Txn, kind : Kinds]]
    /\ asked \subseteq Staff
    /\ coming \in [Staff -> [read : {"fine", "failed"}, rows : SUBSET Txn] \cup {Nothing}]
    /\ dialog \in [Staff -> [txn : Txn, act : Acts] \cup {NoDialog}]
    /\ call \in [1..MaxSends -> Call \cup {NoCall}]
    /\ toast \in [Staff -> [txn : Txn, says : Acts \cup {"already", "error", "network"}]
                            \cup {NoToast}]
    /\ sends \in 0..MaxSends
    /\ lost \subseteq Staff \X Txn /\ heard \subseteq Staff \X Txn /\ repeats \subseteq Staff \X Txn

Pending == {t \in Txn : txn[t].status = "pending"}
Type(t) == IF t \in Withdrawals THEN "withdrawal" ELSE "deposit"

\* A fresh desk waits for the queue.
Init ==
    /\ txn = [t \in Txn |-> [status |-> "pending", by |-> NoReviewer]]
    /\ page = [s \in Staff |-> [at |-> "queue", rows |-> {}, kind |-> "all"]]
    /\ asked = Staff
    /\ coming = [s \in Staff |-> Nothing]
    /\ dialog = [s \in Staff |-> NoDialog]
    /\ call = [i \in 1..MaxSends |-> NoCall]
    /\ toast = [s \in Staff |-> NoToast]
    /\ sends = 0 /\ lost = {} /\ heard = {} /\ repeats = {}

-----------------------------------------------------------------------------
(* The pages.                                                              *)

\* The filter buttons narrow the queue's rows in the browser.
Visible(p) == {t \in p.rows : p.kind \in {"all", Type(t)}}

\* A row that leaves the screen takes its dialog and its pending state along,
\* whatever its call still comes to.
Unmount(s, gone) ==
    /\ dialog' = [dialog EXCEPT ![s] = IF @.txn \in gone THEN NoDialog ELSE @]
    /\ call' = [i \in 1..MaxSends |->
                  IF call[i] # NoCall /\ call[i].by = s /\ call[i].txn \in gone
                  THEN [call[i] EXCEPT !.mounted = FALSE] ELSE call[i]]

\* A link of the console: the loading skeleton takes the screen at once, and
\* what was on its way for the page left behind is discarded.
Navigate(s, place) ==
    /\ place # page[s].at /\ dialog[s] = NoDialog
    /\ page' = [page EXCEPT ![s] = [at |-> place, rows |-> {}, kind |-> "all"]]
    /\ asked' = asked \cup {s}
    /\ coming' = [coming EXCEPT ![s] = Nothing]
    /\ Unmount(s, page[s].rows)
    /\ UNCHANGED <<txn, toast, sends, lost, heard, repeats>>

\* The overview: the pending requests with the fewest before them.
OldestPending ==
    {t \in Pending : Cardinality({x \in Pending : x < t}) < OVERVIEW_TAKE}

\* The queue is every pending request.
Listed(place) == IF place = "queue" THEN Pending ELSE OldestPending

\* The server reads the page, or the API refuses: the page then has no rows.
ReadPage(s) ==
    /\ s \in asked /\ coming[s] = Nothing
    /\ asked' = asked \ {s}
    /\ \/ coming' = [coming EXCEPT ![s] = [read |-> "fine", rows |-> Listed(page[s].at)]]
       \/ coming' = [coming EXCEPT ![s] = [read |-> "failed", rows |-> {}]]
    /\ UNCHANGED <<txn, page, dialog, call, toast, sends, lost, heard, repeats>>

\* It reaches the browser: rows still listed stay as they are, with their
\* state.  A page that failed has no table, so its filter starts anew.
Arrive(s) ==
    /\ coming[s] # Nothing
    /\ page' = [page EXCEPT ![s] =
                  [at |-> page[s].at, rows |-> coming[s].rows,
                   kind |-> IF coming[s].read = "fine" THEN page[s].kind ELSE "all"]]
    /\ coming' = [coming EXCEPT ![s] = Nothing]
    /\ Unmount(s, page[s].rows \ coming[s].rows)
    /\ UNCHANGED <<txn, asked, toast, sends, lost, heard, repeats>>

\* A filter button of the queue.
SetKind(s, kind) ==
    /\ page[s].at = "queue" /\ page[s].rows # {} /\ dialog[s] = NoDialog
    /\ kind # page[s].kind
    /\ page' = [page EXCEPT ![s].kind = kind]
    /\ Unmount(s, {t \in page[s].rows : kind \notin {"all", Type(t)}})
    /\ UNCHANGED <<txn, asked, coming, toast, sends, lost, heard, repeats>>

-----------------------------------------------------------------------------
(* A decision: dialog, call, answer.                                       *)

\* Dialogs are modal: one at a time, and nothing behind it can be clicked.
OpenDialog(s, t, act) ==
    /\ dialog[s] = NoDialog /\ sends < MaxSends
    /\ t \in Visible(page[s])
    /\ dialog' = [dialog EXCEPT ![s] = [txn |-> t, act |-> act]]
    /\ UNCHANGED <<txn, page, asked, coming, call, toast, sends, lost, heard, repeats>>

\* Escape closes a dialog at any time, also while its call is under way.
CloseDialog(s) ==
    /\ dialog[s] # NoDialog
    /\ dialog' = [dialog EXCEPT ![s] = NoDialog]
    /\ UNCHANGED <<txn, page, asked, coming, call, toast, sends, lost, heard, repeats>>

\* The calls of a desk on a request that have not been answered.
Open(s, t) == {i \in 1..MaxSends : call[i] # NoCall /\ call[i].by = s /\ call[i].txn = t}

\* The confirming button is disabled while the row on the screen has a call
\* under way.
Confirm(s) ==
    LET t == dialog[s].txn IN
    /\ dialog[s] # NoDialog /\ sends < MaxSends
    /\ \A i \in Open(s, t) : ~call[i].mounted
    /\ sends' = sends + 1
    /\ call' = [call EXCEPT ![sends + 1] =
                  [at |-> "sent", by |-> s, txn |-> t, act |-> dialog[s].act, mounted |-> TRUE]]
    /\ repeats' = IF Open(s, t) # {} \/ <<s, t>> \in heard
                  THEN repeats \cup {<<s, t>>} ELSE repeats
    /\ UNCHANGED <<txn, page, asked, coming, dialog, toast, lost, heard>>

Return(i, result) == call' = [call EXCEPT ![i].at = result]

\* approve and reject of the API: a pending request is decided (a withdrawal
\* the balance does not cover is not approved), a decided one is a conflict.
Settle(i) ==
    LET t == call[i].txn IN
    /\ call[i].at = "sent"
    /\ \/ /\ txn[t].status = "pending"
          /\ txn' = [txn EXCEPT ![t] = [status |-> call[i].act, by |-> call[i].by]]
          /\ Return(i, "done")
       \/ /\ txn[t].status = "pending"
          /\ call[i].act = "approve" /\ t \in Withdrawals
          /\ Return(i, "funds")
          /\ UNCHANGED txn
       \/ /\ txn[t].status # "pending"
          /\ Return(i, "conflict")
          /\ UNCHANGED txn
    /\ UNCHANGED <<page, asked, coming, dialog, toast, sends, lost, heard, repeats>>

\* Mutant: any answer but a conflict is taken for a success.
SaysOptimist(c) == IF c.at = "conflict" THEN "already" ELSE c.act

\* The toast an answer ends in.
SaysOf(c) ==
    CASE c.at = "done" -> c.act
      [] c.at = "conflict" -> "already"
      [] OTHER -> "error"

\* The toast; and the row that sent the call, if it is still there, closes its
\* dialog, whichever that is by now.
Finish(i, says) ==
    LET c == call[i] IN
    /\ toast' = [toast EXCEPT ![c.by] = [txn |-> c.txn, says |-> says]]
    /\ dialog' = [dialog EXCEPT ![c.by] = IF c.mounted /\ @.txn = c.txn THEN NoDialog ELSE @]
    /\ call' = [call EXCEPT ![i] = NoCall]
    /\ UNCHANGED <<txn, page, coming, sends, repeats>>

\* The desk is told that a request is decided, by its decision or before it.
Hear(c) ==
    heard' = IF c.at \in {"done", "conflict"} THEN heard \cup {<<c.by, c.txn>>} ELSE heard

\* Mutant: a refresh is asked for on a success only.
AnswerCallKeeps(i) ==
    /\ call[i].at \in Results
    /\ Finish(i, SaysOf(call[i]))
    /\ Hear(call[i])
    /\ asked' = IF call[i].at = "done" THEN asked \cup {call[i].by} ELSE asked
    /\ UNCHANGED lost

\* A refresh is asked for "either way", and not waited for.
AnswerCall(i) ==
    /\ call[i].at \in Results
    /\ Finish(i, SaysOf(call[i]))
    /\ Hear(call[i])
    /\ asked' = asked \cup {call[i].by}
    /\ UNCHANGED lost

\* The answer is lost; the refresh is asked for all the same.
LoseAnswer(i) ==
    /\ call[i].at \in Results
    /\ Cardinality(lost) < MaxLost
    /\ lost' = lost \cup {<<call[i].by, call[i].txn>>}
    /\ Finish(i, "network")
    /\ asked' = asked \cup {call[i].by}
    /\ UNCHANGED heard

Next ==
    \/ \E s \in Staff :
          \/ \E place \in Places : Navigate(s, place)
          \/ \E kind \in Kinds : SetKind(s, kind)
          \/ ReadPage(s) \/ Arrive(s) \/ CloseDialog(s) \/ Confirm(s)
          \/ \E t \in Txn, act \in Acts : OpenDialog(s, t, act)
    \/ \E i \in 1..MaxSends : Settle(i) \/ AnswerCall(i) \/ LoseAnswer(i)

Spec == Init /\ [][Next]_vars

-----------------------------------------------------------------------------
(* Properties.                                                             *)

\* What a desk says is what happened: "approved" and "rejected" name a
\* decision this desk made, and "already reviewed by someone else" one that
\* another desk made, unless this desk lost the answer to its own or sent its
\* decision again: from the row it knew to be decided, before the refreshed
\* page had come, or from a new row while the old row's call was under way.
ToastTruthful ==
    \A s \in Staff : \A t \in Txn : toast[s].txn = t =>
       /\ toast[s].says \in Acts => txn[t] = [status |-> toast[s].says, by |-> s]
       /\ toast[s].says = "already" =>
             txn[t].status # "pending" /\ (txn[t].by = s => <<s, t>> \in lost \cup repeats)

\* "On 409 the row is gone; on success it's settled": once the pages a desk
\* asked for have come, no request it was told to be decided is among its rows.
DecidedRowsLeave ==
    \A s \in Staff : \A t \in Txn :
        <<s, t>> \in heard /\ s \notin asked /\ coming[s] = Nothing => t \notin page[s].rows
=============================================================================
