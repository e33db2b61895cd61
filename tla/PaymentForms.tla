---------------------------- MODULE PaymentForms ----------------------------
(***************************************************************************)
(* The forms that move money: the customer's send wizard and its deposit   *)
(* and withdrawal wizards, and the staff console's adjustment form.        *)
(*                                                                         *)
(* The send wizard resolves a handle 400 ms after the last keystroke.  A   *)
(* lookup under way is never cancelled, so answers come in any order; each *)
(* is stamped with the handle it was for.  The wizards hold one key per    *)
(* operation, the adjustment form holds none.                              *)
(***************************************************************************)
EXTENDS KeyedCalls

CONSTANTS
    Handle,       \* the handles a person may type
    Payable,      \* the handles that resolve to somebody else's wallet, same currency
    Amount,       \* the amounts, in minor units
    Balance,      \* the balance the page was rendered with
    MaxLookups,   \* bound: lookups asked for
    MaxMounts     \* bound: times a form is opened

VARIABLES
    form,       \* the form on screen, "home" when none
    mount,      \* how often one was opened
    step,       \* the step of the wizard
    draft,      \* the fields
    values,     \* the fields as confirmed
    resolved,   \* the last lookup's answer and the handle it was for
    timer,      \* the handle the debounce timer will look up
    lookups,    \* lookups under way, by handle
    asked,      \* lookups asked for so far
    stepUp,     \* the step-up prompt shows
    receipt,    \* the payment the receipt shows
    seen,       \* ghost: receipts shown since the form was opened
    unsettled   \* ghost: a lookup was still due when the person continued

formVars == <<form, mount, step, draft, values, resolved, timer, lookups, asked,
              stepUp, receipt, seen, unsettled>>
vars == <<callVars, formVars>>

Wizards == {"send", "deposit", "withdraw"}
Nobody == "nobody"
Blank == ""
Fields == [handle : Handle \cup {Blank}, amount : Amount \cup {0}]
NoFields == [handle |-> Blank, amount |-> 0]
Unresolved == [handle |-> Blank, to |-> Nobody]

TypeOK ==
    /\ CallsTypeOK([to : Handle \cup {"deposit", "withdraw", "adjust"}, amount : Amount])
    /\ form \in Wizards \cup {"adjust", "home"}
    /\ mount \in 0..MaxMounts
    /\ step \in 1..3
    /\ draft \in Fields /\ values \in Fields
    /\ resolved \in [handle : Handle \cup {Blank}, to : Handle \cup {Nobody}]
    /\ timer \in Handle \cup {Blank}
    /\ lookups \in [Handle -> 0..MaxLookups] /\ asked \in 0..MaxLookups
    /\ stepUp \in BOOLEAN
    /\ receipt \in 0..MaxSends /\ seen \in 0..MaxSends
    /\ unsettled \in BOOLEAN

Init ==
    /\ CallsInit
    /\ form = "home" /\ mount = 0 /\ step = 1
    /\ draft = NoFields /\ values = NoFields
    /\ resolved = Unresolved /\ timer = Blank
    /\ lookups = [h \in Handle |-> 0] /\ asked = 0
    /\ stepUp = FALSE /\ receipt = 0 /\ seen = 0 /\ unsettled = FALSE

-----------------------------------------------------------------------------
(* Opening and leaving.                                                    *)

FreshPage(f, handle) ==
    /\ form' = f /\ step' = 1
    /\ draft' = [NoFields EXCEPT !.handle = handle]
    /\ timer' = handle /\ lookups' = [h \in Handle |-> 0]
    /\ values' = NoFields /\ resolved' = Unresolved
    /\ stepUp' = FALSE /\ receipt' = 0 /\ seen' = 0 /\ unsettled' = FALSE

Mount(f, handle) ==
    /\ form = "home" /\ mount < MaxMounts
    /\ FreshPage(f, handle) /\ mount' = mount + 1
    /\ UNCHANGED <<asked, callVars>>

\* SendPage: with the handle of a link, if any.
OpenSend == \E h \in Handle \cup {Blank} : Mount("send", h)

\* QrScanner: the code of somebody's handle opens the send wizard with it; any
\* other code keeps the scanner running.
ScanQr == \E h \in Handle : Mount("send", h)

OpenDeposit == Mount("deposit", Blank)
OpenWithdraw == Mount("withdraw", Blank)
OpenAdjustment == Mount("adjust", Blank)

\* Back to home, or a reload: the state of the page goes, the requests do not.
Leave ==
    /\ form # "home"
    /\ FreshPage("home", Blank)
    /\ Unmount
    /\ UNCHANGED <<mount, asked>>

-----------------------------------------------------------------------------
(* The send wizard's first step: who.                                      *)

\* Mutant: whoever the last lookup found, whatever the field says.
RecipientLast == resolved.to

\* The recipient is derived: an answer for another handle than the typed one
\* counts for nothing.
Recipient == IF resolved.handle = draft.handle THEN resolved.to ELSE Nobody

\* A keystroke: the effect's cleanup stops the old timer and, for a well-formed
\* handle, starts a new one.
TypeHandle(h) ==
    /\ form = "send" /\ step = 1 /\ h # draft.handle
    /\ draft' = [draft EXCEPT !.handle = h]
    /\ timer' = h
    /\ UNCHANGED <<callVars, form, mount, step, values, resolved, lookups, asked, stepUp, receipt, seen, unsettled>>

TimerFires ==
    /\ timer # Blank /\ asked < MaxLookups
    /\ lookups' = [lookups EXCEPT ![timer] = @ + 1]
    /\ asked' = asked + 1 /\ timer' = Blank
    /\ UNCHANGED <<callVars, form, mount, step, draft, values, resolved, stepUp, receipt, seen, unsettled>>

\* The answer: somebody payable, or a failure (nobody found, oneself, another
\* currency, the network).  Both are kept with the handle they are for.
LookupAnswers(h, ok) ==
    /\ form = "send" /\ lookups[h] > 0
    /\ lookups' = [lookups EXCEPT ![h] = @ - 1]
    /\ resolved' = [handle |-> h, to |-> IF ok THEN h ELSE Nobody]
    /\ UNCHANGED <<callVars, form, mount, step, draft, values, timer, asked, stepUp, receipt, seen, unsettled>>

LookupEnds == \E h \in Handle : \E ok \in {FALSE, (h \in Payable)} : LookupAnswers(h, ok)

\* The amount field and the quick amounts.
TypeAmount(a) ==
    /\ form # "home" /\ step = 1 /\ a # draft.amount
    /\ form = "adjust" => waiting = 0
    /\ draft' = [draft EXCEPT !.amount = a]
    /\ UNCHANGED <<callVars, form, mount, step, values, resolved, timer, lookups, asked, stepUp, receipt, seen, unsettled>>

-----------------------------------------------------------------------------
(* The steps of the wizards.                                               *)

ToStep2 ==
    /\ step = 1 /\ draft.amount # 0
    /\ step' = 2 /\ values' = draft
    /\ UNCHANGED <<callVars, form, mount, draft, resolved, timer, lookups, asked, stepUp, receipt, seen>>

\* Mutant: Continue does not ask for a recipient.
ToConfirmAnyone ==
    /\ form = "send" /\ draft.handle # Blank
    /\ unsettled' = (timer # Blank \/ \E h \in Handle : lookups[h] > 0)
    /\ ToStep2

\* toConfirm: a valid handle and amount, and somebody found.
ToConfirm ==
    /\ form = "send" /\ Recipient # Nobody
    /\ unsettled' = (timer # Blank \/ \E h \in Handle : lookups[h] > 0)
    /\ ToStep2

ToReview ==
    /\ form \in {"deposit", "withdraw"}
    /\ ToStep2 /\ UNCHANGED unsettled

\* The confirm page and the receipt are there only while there is a recipient.
Rendered == form = "send" => Recipient # Nobody

\* The step-up prompt takes the place of Edit and Confirm.
Edit ==
    /\ form \in Wizards /\ step = 2 /\ Rendered
    /\ waiting = 0 /\ ~stepUp
    /\ step' = 1
    /\ UNCHANGED <<callVars, form, mount, draft, values, resolved, timer, lookups, asked, stepUp, receipt, seen, unsettled>>

Press(guarded) == [guarded |-> guarded, grant |-> stepUp, mount |-> mount, named |-> values.handle]

\* send: from Confirm, or from the prompt with the grant a code or a passkey got.
ConfirmSend ==
    /\ form = "send" /\ step = 2 /\ Rendered
    /\ Send(Key, [to |-> Recipient, amount |-> values.amount], Press(TRUE))
    /\ UNCHANGED formVars

\* submit: the button is disabled above the balance.
SubmitRequest ==
    /\ form \in {"deposit", "withdraw"} /\ step = 2
    /\ form = "withdraw" => values.amount <= Balance
    /\ Send(Key, [to |-> form, amount |-> values.amount], Press(FALSE))
    /\ UNCHANGED formVars

\* Mutant: the key survives a success.
WizardAnsweredKeeps ==
    /\ form \in Wizards /\ Hear(FALSE)
    /\ stepUp' = (calls[waiting].at = "stepUp" \/ (stepUp /\ calls[waiting].at # "ok"))
    /\ IF calls[waiting].at = "ok"
       THEN step' = 3 /\ receipt' = calls[waiting].made /\ seen' = seen + 1
       ELSE UNCHANGED <<step, receipt, seen>>
    /\ UNCHANGED <<form, mount, draft, values, resolved, timer, lookups, asked, unsettled>>

\* Success forgets the key and shows the receipt; a request for a step-up shows
\* the prompt; anything else is a toast, and the page stays.
WizardAnswered ==
    /\ form \in Wizards /\ Hear(calls[waiting].at = "ok")
    /\ stepUp' = (calls[waiting].at = "stepUp" \/ (stepUp /\ calls[waiting].at # "ok"))
    /\ IF calls[waiting].at = "ok"
       THEN step' = 3 /\ receipt' = calls[waiting].made /\ seen' = seen + 1
       ELSE UNCHANGED <<step, receipt, seen>>
    /\ UNCHANGED <<form, mount, draft, values, resolved, timer, lookups, asked, unsettled>>

AnswerLost == form # "home" /\ Lose /\ UNCHANGED formVars

\* Send again, Add more money: a fresh form on the same page.
Again ==
    /\ form \in Wizards /\ step = 3 /\ Rendered
    /\ step' = 1 /\ draft' = NoFields /\ values' = NoFields
    /\ receipt' = 0 /\ timer' = Blank
    /\ resolved' = IF form = "send" THEN Unresolved ELSE resolved
    /\ UNCHANGED <<callVars, form, mount, lookups, asked, stepUp, seen, unsettled>>

-----------------------------------------------------------------------------
(* The staff console's adjustment form: one step, no key.                  *)

SubmitAdjustment ==
    /\ form = "adjust" /\ draft.amount # 0
    /\ Send(0, [to |-> "adjust", amount |-> draft.amount], Press(FALSE))
    /\ UNCHANGED formVars

\* Success clears the fields; a failure is a toast and leaves them.
AdjustmentAnswered ==
    /\ form = "adjust" /\ Hear(FALSE)
    /\ IF calls[waiting].at = "ok"
       THEN draft' = NoFields /\ seen' = seen + 1
       ELSE UNCHANGED <<draft, seen>>
    /\ UNCHANGED <<form, mount, step, values, resolved, timer, lookups, asked, stepUp, receipt, unsettled>>

\* Every form was opened and left; or the requests allowed are used up.
AllOver ==
    /\ form = "home" /\ mount = MaxMounts
    /\ UNCHANGED vars

Next ==
    \/ OpenSend \/ ScanQr \/ OpenDeposit \/ OpenWithdraw \/ OpenAdjustment \/ Leave
    \/ \E h \in Handle \cup {Blank} : TypeHandle(h)
    \/ TimerFires \/ LookupEnds
    \/ \E a \in Amount : TypeAmount(a)
    \/ ToConfirm \/ ToReview \/ Edit
    \/ ConfirmSend \/ SubmitRequest \/ WizardAnswered \/ AnswerLost \/ Again
    \/ SubmitAdjustment \/ AdjustmentAnswered
    \/ Serve /\ UNCHANGED formVars
    \/ AllOver

Spec == Init /\ [][Next]_vars

-----------------------------------------------------------------------------
(* Properties.                                                             *)

MadeHere == {c \in ledger : calls[c].detail.mount = mount}

\* Whatever order lookups answer in, the money goes to the person whose handle
\* stood on the confirm page when the button was pressed.
PaidWhoWasNamed ==
    \A c \in SentCalls :
        calls[c].body.to \in Handle => calls[c].body.to = calls[c].detail.named

\* However many answers are lost and however often the person presses again or
\* edits in between, one open wizard charges at most once more than it has
\* shown receipts.
ChargedOnce == form \in Wizards => Cardinality(MadeHere) <= seen + 1

\* Every receipt stands for a payment of its own, and it is the payment on the
\* page: the amount confirmed, to the handle confirmed.
ReceiptTruthful ==
    form \in Wizards =>
        /\ seen <= Cardinality(MadeHere)
        /\ receipt # 0 => /\ receipt \in ledger
                          /\ calls[receipt].body.amount = values.amount
                          /\ form = "send" => calls[receipt].body.to = values.handle

\* The adjustment form has no key: a member of staff who tries again after a
\* lost answer may adjust twice, and only that makes one entry more.
AdjustedOnce == form = "adjust" => Cardinality(MadeHere) <= seen + 1 + lost

\* The confirm page and the receipt vanish only when a lookup was still due
\* when the person continued: its late answer, for another handle or a failure,
\* takes the recipient away.
ConfirmStays == form = "send" /\ step > 1 /\ ~unsettled => Recipient # Nobody
=============================================================================
