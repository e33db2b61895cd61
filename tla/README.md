# MaxOne: specifications, model checks and proofs

MaxOne is a wallet and ledger platform: a NestJS API over PostgreSQL, Redis and RabbitMQ
(`src/backend`), a staff console (`src/frontend`) and a customer app (`src/customer`), each of the two
a Next.js app with its own backend-for-frontend. Money moves in the API only. This directory holds
TLA+ models of the parts where interleavings, failures, lost answers and ordering decide correctness,
the TLC instances that check them, and TLAPS proofs of what matters most.

`PROJECT.json` lists the components, the runs, the mutants that show each property can fail, the
map from definitions to source lines, the findings, the hazards and the theorems.

## 1. Inventory

| Part | State | Operations | Hard part | Correct when |
|---|---|---|---|---|
| Wallets and ledger (`wallets/`) | Wallet, Transaction rows | createWallet, deposit, requestWithdrawal, approve, reject, adjust, transfer | read-modify-write under row locks, two locks per transfer, review races, rollback at any statement | balance = opening + settled rows; never below 0; rows settle once; no deadlock |
| Currency conversion (`rates/convert-minor.ts`) | none | convertMinor | rounding | within half a minor unit |
| Audit log (`audit/`) | AuditLog rows | log inside the caller's transaction | written with the change or not at all | one truthful entry per decided change |
| Idempotency (`idempotency/`) | IdempotencyKey rows | reserve, complete, release; interceptor | duplicates racing, expiry, statements failing after the money moved, crash while reserved | one handler per key, honest replays, no second charge |
| Outbox (`outbox/`), broker client (`queue/`) | OutboxEvent rows; connection, channel, queues | enqueue, publishNow, relayPending, purgePublished; publish, consume, ack, nack, reconnect | publish/mark gap, two publishers, lost connections, no confirms | every committed event reaches the broker |
| Consumer and push (`worker/`, `push/`, the toggle) | Redis dedupe marks, subscriptions | handle, retryOrDead, subscribe, unsubscribe, sendToUser | redelivery, concurrent duplicates, retry budget, one device of several failing | pushed at least once or in the dead queue; off is quiet |
| Tokens (`auth/tokens.service.ts`) and BFF sessions (`proxy.ts`, `lib/api`) | RefreshToken rows; cookies | login, register, refresh, logout; the proxies and routes that refresh | parallel refreshes, replay detection, logout or suspension meanwhile, lost answers | tokens rotate once; an ended family stays ended; sign-out for a cause |
| Two-factor, passkeys (`auth/`) | secret, flag, recovery hashes; signature counter | setup, verify, disable, prove; register, authenticate, remove | read then write without a lock | codes work once, no silent downgrade |
| Users and roles (`users/`) | User rows, roles in tokens | updateStatus, updateRole and their guards | three unlocked reads, stale token | audit tells the truth; somebody can still manage users |
| Approval desk, tables (`frontend/`) | pages on screen and on their way, rows and their pending calls, dialogs, toasts; URL, navigation under way | approve, reject; search, filter, sort, page | lost answers, two reviewers, refreshes nobody waits for; stale parameters, rows that come and go | toasts say what happened; choices are kept |
| Money forms (`customer/`, adjustment form) | wizard steps, quotes, idempotency key | look up, confirm, send, exchange, adjust | late lookups and quotes, lost answers, presses in between | charged once, to who was named, and told so |
| Live balance, chart (`customer/`) | socket, balance; candles, range | ticket, connect, events; range fetches | late connects, missed and overtaken events; requests superseded | what is shown is current unless an event was lost |
| Price alerts and stream (`alerts/`, `realtime/`) | PriceAlert rows | add, remove; tick, check, mark | overlapping ticks, crash between mark and message | a reached alert is told, and once unless ticks overlap |
| Markets, rates, cache (`markets/`, `rates/`, `cache/`) | Redis entries | wrap, get, set; list, detail, chart, getRate | Redis down, outages cached, slow fetches | stale at most one lifetime and one fetch |
| Ops watch (`observability/`, `health/`) | set of breached alarms | refresh, watch, report | unknown depth, overlapping refreshes | recovery announced for a cause |
| Watchlist and holdings | rows, optimistic stars, reloaded pages | add, remove, save, reload | lost answers, late requests, reads that fail | stars and lists tell the truth |

How they interact: the forms reach the API through the BFFs, whose cookies the token service rotates;
money routes pass the idempotency interceptor and the step-up guard; money handlers write the audit
log and the outbox in their own transaction and emit to sockets after COMMIT; outbox, broker and
consumer carry the message to the push services; alerts enter the same outbox from the price tick,
which reads the markets through the cache; the ops watch looks at broker, outbox and Redis.

Hazards are in `PROJECT.json`, each at the line where it bites.

## 2. Plan

Done: every part of the inventory modelled and checked, and proofs for all of them: the ledger,
conversion, idempotency, the notification pipeline, sessions, accounts, and what people see (`Surfaces`).
What is left, in order:

1. The in-process consumer, which survives a reconnect with deliveries of the old channel, and several
   workers.
2. `PaymentForms` over the full `Idempotency` instead of its short form, and the second login step in
   `BffSession`.

## 3. Modules and the code

### ConvertMinor, LedgerRows

`ConvertMinorAmount` is `convertMinor`: amount times an exact rate, rounded half to even. A rate is a
fraction, because `Prisma.Decimal` is exact. `LedgerRows` holds the shape of a Transaction row and
the constants both ledger modules are about. A row is named after the request that inserts it, leg 1
for its own row and leg 2 for the `transfer_in` half; the ids of pending deposits left by the older
approval flow (`approve` still settles them) are `Legacy`. Wallet ids are naturals because `transfer`
sorts them.

### AtomicLedger, WalletLedger

`AtomicLedger` is the promise: every movement happens in one step on the balances of that instant
(`Deposit`, `Adjust`, `Approve`, `Reject`, `Move`, `Ask`, `Open`). It has no locks, no handlers and no
faults, and nothing of it is code. `WalletLedger` instantiates it
(`Atomic == INSTANCE AtomicLedger WITH ...`, the tables mapped to themselves); `ImplementsAtomicLedger` says
that every behaviour of the handlers is one of it.

In `WalletLedger` one handler is one `Request`. `pc` says where it is, `job` what it was asked, `seen`
the balances it read. Under READ COMMITTED other transactions see the writes of a transaction when it
commits, so

* each `SELECT ... FOR UPDATE` is a step (`LockTxn`, `LockFirst`, `LockSecond`) that waits for the
  holder of the row,
* the re-check of a reviewed row (`CheckPending`) and the reads (`ReadBalances`) are steps under
  the locks,
* the writes, the audit entry, the outbox row, COMMIT and the release of the locks are one step per
  handler (`CommitDeposit`, `CommitAdjust`, `CommitApprove`, `CommitReject`, `CommitTransfer`),
* the unlocked pre-check and the INSERT of `requestWithdrawal` are `BeginWithdrawal` and
  `InsertWithdrawal`; the foreign key of the INSERT waits for a `FOR UPDATE` holder of the wallet,
* `Refuse` is every early exit inside a transaction (already reviewed, insufficient funds, negative
  adjustment, integer overflow reported by the database), `Abort` a timeout or a lost connection,
* after COMMIT come `EmitBalance` and `Dispatch`, and `CrashAfterCommit` can cut them off.

What is read before the transaction and cannot change (a wallet's owner and currency, a row's type)
is read in the `Begin...` step of its handler. Requests that would be turned away there change
nothing and have no step. Notes, names, timestamps and message texts are left out.

### AtomicKeys, Idempotency

`AtomicKeys` is the promise made to the routes behind the header. A key is free, held, done or stale; an
attempt that asks for it takes it (`Take`) or is turned away (`TurnAway`, `Refuse`) in one step; only its
holder answers for it (`Store`) or lets go of it (`LetGo`); it lapses only when its owner has ended, and
only a lapsed key is cleared. There is no table, no row read now and acted on later, and nothing of it is
code. In `Idempotency` (`Atomic == INSTANCE AtomicKeys WITH ...`) a key is what its row says (`StateOf`)
and an attempt at the INSERT, the lookup or the deletion by id is asking (`StageOf`);
`ImplementsAtomicKeys` says that every behaviour of the statements is one of it. `StoredResponseStays`,
which follows from it, is proved on its own as well.

One HTTP request is one `Attempt`; every statement of `reserve`, `complete` and `release` is a step. A
row carries the id of the attempt that inserted it, so that deleting by id and by key differ, as they do
in the code. The handler is abstracted to whether its transaction committed. `Faults` chooses what may
fail: the process (`crash`), the handler after its COMMIT (`lateFailure`), the two closing statements
without taking effect (`completeFails`, `releaseFails`), and the 24 hours passing (`expiry`). Two ghosts
say what has happened: `lapsed` the keys that no longer guard their payment (a handler failed after its
COMMIT, a completion failed, or the 24 hours are over), `stuck` the attempts whose own release failed.
They appear in no guard; `GuardedKeyMovesOnce` and `FailureFreesKey` are stated with them. The model
assumes that no request is still running 24 hours after it reserved its key.

### NotificationPipeline

An event is an OutboxEvent row; every publish makes one `copy` of its message. The field `at` of a
copy is its place: on the wire, in the main queue, parked in a retry queue, or, once delivered, the
point its handler has reached (`check`, `send`, `mark`, `ack`, then `acking` or `nacking` while the
answer travels). A handler belongs to exactly one delivery, so it needs no state of its own. The
retry count of a copy is its `x-retry-count` header.

* `Commit` is `enqueue` in a transaction that commits; `PublishNow` and `MarkPublished` are the two
  halves of `publishNow`; `RelaySelect`, `RelayPublish` and `RelayCommit` the three of `relayPending`,
  whose loop has no await; `RelayAbort` its rollback.
* `CheckMark`, `PushOk`, `GiveUp`, `Retry`, `SetMark` and `Ack` are `handle` and `retryOrDead` between
  two awaits. `sendToUser` succeeds or throws as a whole; `PushDevices` opens it up.
* `publish` without a channel returns false. With one it may also return false, when the write buffer
  is full (`backpressure`), and the message goes out all the same: that is what amqplib does.
* Frames of one channel arrive in order. The only order that matters here is a retry copy and the ack
  that follows it, kept in `ahead`.
* A lost connection puts unsettled deliveries back, also those whose ack was travelling, and removes
  what a process in `Lossy` has on the wire. An API process goes on without a channel
  (`ApiDisconnect`) or dies (`ApiCrash`); the worker exits on a lost connection (`worker.ts`), so its
  handlers are gone with it (`WorkerCrash`), and the supervisor starts it again (`Open`). A graceful
  stop is a crash at a moment when no handler is in flight.

The ghost `struck` says which of two faults have made a difference: a publish that reported a full
buffer after sending its message, and a mark that Redis could not say or keep. It appears in no guard;
what `DuplicatesFew` promises of copies ends with the first, what it promises of pushes with the second.

The broker, Redis and the push services are modelled from how the code uses them. The dedupe mark's
24 hours are taken to outlast the deliveries of an event. There is one worker.

### TokenRotation, BffSession

`TokenRotation` is `TokensService` and `AuthService` for one account. A call is one HTTP request and a
statement is a step: the lookup, the conditional update that claims a token together with the INSERT
of its successor, the sibling pair of a request that lost the claim, and the deletion of a family. A
pair is named after the call that issued it. Suspension and reactivation come from `updateStatus`,
which deletes the account's rows in its transaction. Time is a counter, so that the reuse window and
the lifetimes are compared as the code compares them.

`BffSession` EXTENDS it with a browser in front: cookies taken when a request leaves, changed when its
answer arrives, answers in any order; the proxy before every page, the route handlers that refresh
once on a 401, login, sign-up and logout. `app` says whether the customer app or the console stands
there, since the two treat a failing refresh differently. `causes` is a ghost: what has happened to a
family that justifies its end. Answers of the API can be lost, the API can be unreachable or fail; the
link between the browser and its BFF is taken to be reliable. The second factor of a login is not part
of `BffSession`.

### TwoFactor, Passkeys

Columns of one User row, tabs that run one request at a time, and a step per statement: none of the
handlers locks the row, so each writes what it decided from an earlier read. `raced` (in the modules'
own words) records that a row changed in between; the properties hold without such a race, and
`NoSilentDowngrade` and `RemovedNeverSignsIn` hold with it. In `Passkeys` an assertion can be sent
again, since the challenge is a signed token that is stored nowhere; the signature counter of a device
that keeps one is what tells. Lost answers are not part of `TwoFactor`.

### UsersAdmin, ApprovalDesk, TableState

`UsersAdmin` has the three unlocked reads of one request (`JwtStrategy`, `PermissionsGuard`, the old
value of the audit entry) and its transaction as steps, a token that keeps the role it was issued
with, and the Users page that sends the change.

`ApprovalDesk` is the queue, the dashboard and the dialogs of two reviewers; what the API does with a
decision is `WalletLedger`'s, and `Settle` is its outcome. A desk's page goes through three steps: it is
asked for (`asked`; by `Navigate`, or by `AnswerCall` and `LoseAnswer`, which are `settle` in
`row-actions.tsx` and do not wait for `router.refresh()`), read (`ReadPage`) and shown (`Arrive`). Until
then the rows are the old ones and their buttons work. `call` holds the requests under way; its `mounted`
says whether the row that sent it is still the row on screen, which alone knows that it is pending. A row
that is filtered out, left behind by a link or no longer listed is unmounted (`Unmount`); shown again it
is a new row. The ghosts `lost`, `heard` and `repeats` say which desk lost an answer on a request, was
told that it is decided, and sent a decision again although it had been told or had one under way.

`TableState` is the URL, what the API answered for the page on screen, a navigation under way and the
search box with its debounce. The URL keeps what was written and `params` is what `parseTableParams`
makes of it, q and filters trimmed and cut: `CleanText` and `CleanFilter` are that conversion, given for
every text of an instance; the proofs ask only that a third cleaning changes nothing any more. `Type` and
`Debounced` are the two effects of the toolbar, `Set` the function every control calls. The API counts
and reads the rows in two queries, anew for each render, so `Arrive` and `Refresh` (the `router.refresh`
of a row's own action) take any two numbers for `counted`. The ghosts are `want`, what was asked for
last; `hasty`, that something was asked for too early; `linked` and `promised`, what the screen knew when
a page was turned.

### KeyedCalls, PaymentForms, ExchangeForm, AmountField

`KeyedCalls` is what a form meets: route, step-up guard, interceptor and handler, with answers lost on
either side of the commit. `PaymentForms` EXTENDS it with the send wizard, the deposit and withdrawal
wizards and the adjustment form, `ExchangeForm` with the exchange screen. Debounces are timers that
may fire at any time after the last keystroke; lookups are stamped with the handle they were for, and
quotes with what they answered. `AmountField` is `sanitizeDecimal`, `withSanitizer` and
`parseAmountToMinor`, over sequences of characters because the text is the subject.

### LiveBalance, AssetChart, PriceAlerts, PushDevices, MarketData, OpsWatch, TrackedAssets

* `LiveBalance`: `useSocket`, the ticket, the gateway's room and the emits of handlers, in whatever
  order they get to them. `BalanceShown` names the two ways to stay behind: an announcement that was
  missed or overtaken.
* `AssetChart`: the header's price and the chart's candles from one event, and range fetches numbered
  by `requestId`.
* `PriceAlerts`: ticks that overlap, each with its own list of pending alerts, the transaction that
  marks and enqueues, and crashes.
* `PushDevices`: the toggle, the browser's permission and subscription, the rows, and `sendToUser` with
  the retries of the queue. `pushManager.subscribe` is taken to succeed once permission is given.
* `MarketData`: `CacheService.wrap` under several reads at once. There is no clock, only the age of a
  value and the life an entry has left, so that runs of any length are covered.
* `OpsWatch`: snapshots whose reads are answered one by one, the alarms, and the health report.
* `TrackedAssets`: stars and holdings. A page is read and rendered in one step, and a value is one of
  small numbers.

### MC modules

`MCWalletLedger`, `MCIdempotency`, `MCNotificationPipeline`, `MCBffSession` and `MCUsersAdmin` give the
constants values that a `.cfg` cannot write, and `MCAccounts` and `MCSurfaces` do so for `Accounts` and
`Surfaces`. `MCPipelineSafety` checks one specification in two settings, one of them in each behaviour:
every fault with one API process at work, or two API processes whose relays compete, with the faults
that make duplicates. `Accounts` and `Surfaces` put specifications that share no state side by side: `part` is
chosen in Init and never changes, and a property of a part says nothing of the others. Each variable
keeps its own name; a name that several parts use is declared once.

A module of several parts states one promise per part, which conjoins the part's type invariant
with the properties its module states one by one: `PaymentsRight` those of `PaymentForms`,
`SecondFactorHolds` those of `TwoFactor`, and so on. `EndedStaysEnded` of `BffSession` and
`DuplicatesFew` of `NotificationPipeline` are built the same way.

Operators marked "Mutant" in a comment stand next to the definition they are a faulty version of and
are used nowhere else.

## 4. Runs

| Run | Question | Bounds |
|---|---|---|
| `ledger_review` | do deposits, withdrawals, reviews and adjustments of one wallet keep ledger, audit and sockets right, and implement the atomic ledger? | 3 handlers, one legacy deposit, amounts 1 and 2, opening balance 2, INTEGER limit 3 |
| `ledger_transfers` | do transfers conserve money, pair their rows, avoid deadlock and stale reads? | 3 transfers, 3 wallets, 2 currencies, rate 1/2, one wallet created meanwhile |
| `ledger_liveness` | does every handler end? | 3 handlers, transfers, withdrawal requests and approvals over 2 wallets |
| `idempotency_faults` | one handler per key, honest replays, keys taken and answered for as if in one step, failures free the key, money moved once per key that still guards it, every attempt answered, under every fault? | 3 attempts, 2 keys, 2 fingerprints |
| `idempotency_retry` | can a retry charge twice when only storing the response fails? (yes) | 3 attempts, 1 key |
| `pipeline_safety` | with one API process: is an event that is no longer pending pushed, dead-lettered or under way? With two: do relays split the batch, and how often can an event be pushed? | 1 event, 1 or 2 API processes, 3 copies, prefetch 2, 1 retry, one failure per process, a lossy worker |
| `pipeline_liveness` | is every committed event pushed or dead-lettered? | 1 event, 1 API process, 2 copies, every fault but backpressure |
| `pipeline_lost` | is nothing lost when an API process loses its connection? (it can be) | 1 event, 1 API process, a lossy connection |
| `sessions` | do tokens rotate once, do ended families stay ended, is a customer signed out only for a cause? | 3 requests, reuse window 3, lifetimes 1 and 4, time up to 5, 2 status changes, unreachable, failing and lost answers |
| `accounts` | second factor, passkeys, administration, approval desk with overlapping requests | 2 tabs or persons, 2 secrets, 2 sets of recovery codes, 2 credentials, counters up to 2, 2 changes, 2 requests and 2 desks, 2 sends of which 1 loses its answer, 1 row on the dashboard |
| `surfaces` | forms, live balance, chart, tables, push, alerts, tracked assets, market data and operations watch under lost, late and reordered answers | see below |
| `role_from_token` | does only a super_admin assign super_admin? (not always) | 2 users, 3 roles, 2 changes |

The bounds are the smallest in which the interesting cases meet. With an opening balance of 2, a
limit of 3 and amounts 1 and 2, debits miss their funds, credits overflow, and two movements that
each fit do not fit together. Three handlers give a reviewer against a reviewer while a third moves
the balance, and a cycle of three in a lock graph. At rate 1/2 odd amounts tie, and 1 rounds to 0.
Three attempts give one that owns the key, one that looks at it and one that deletes it. Requests and
attempts are interchangeable, so safety runs use symmetry; the runs with a liveness property do not.

In the pipeline `Copy` bounds the messages that exist at a time. Three are the copy of publishNow,
that of a relay and a retry copy; prefetch 2 is the least with which deliveries overlap. `Budget`
bounds the failures of each process and `PushLimit` the pushes counted, one above what
`DuplicatesBounded` allows. One event is enough because rows and messages of different events meet
only in the batch, whose rows are published one by one, and in the prefetch.

In `sessions` three calls are a login and two requests that refresh with its token; a window of three
ticks and a latency of at most one leave room before, in and after the window, and a refresh lifetime of
four lets a token expire after that. In `surfaces`: two payments over two keys to one of two handles,
with two lookups; two exchanges over three wallets with three edits; fields with three whole and two
decimal digits, each a nought or a nine, and pastes of three characters; three mounts and three commits
of the live balance; three ranges and three presses on the chart; three presses on a table of up to two
rows with pages of one and two, whose texts are none, one that stays as it is, one with a space after it
and one that is cut right behind its space; two devices of two people, two tries of a message; two alerts
and two ticks; two callers of the cache with lifetime 2 (for the supply 1) against 1 for an outage and a
fetch of at most one tick; one tracked coin with one quantity and two calls (several coins meet only in
the reload they share); two refreshes and two dead letters. Two actors and one failure are what each of
the hazards takes.

In `accounts` two sends are a decision and the same again, or two reviewers at one request; the desks are
interchangeable (`DesksAlike`), and no other part of that run speaks of them.

`AllEnded` and its like are stuttering steps for the state in which every request of the instance has
ended, so that TLC's deadlock check stays on and reports any other state without a successor.

**Fairness.** `WalletLedger!FairSpec` and `Idempotency!FairSpec` assume weak fairness of the steps of
a handler that has started: Node resumes a handler whose statement returned, and PostgreSQL grants a
row lock that stays free. New requests, aborts, crashes and expiry are never forced.
`NotificationPipeline!FairSpec` adds the relay (a timer), reconnects (a timer, or the supervisor) and
the broker, which routes, expires parked messages and delivers to a consumer that has room. Weak fairness is
enough for the lock steps because each lock is taken a bounded number of times in an instance. The
other modules state safety only: what a browser or a person does next is never owed.

## 5. What is proved

The theorems hold for every value of the constants (any sets of requests, wallets, users, calls,
attempts, events, processes and keys, any positive rates and amounts, any opening balances within the
INTEGER range) that satisfies the named assumptions of the modules. Those that restrict more than the
kind of a constant are listed at the end of this section.

* `ArithmeticProofs`: `RoundingError`, a converted amount is within half a unit of the exact product.
  Then what the community modules' `SumFunctionOnSet` is: adding an element adds its number, in whatever
  order the recursion takes the set apart (`SumRemove`, `SumInsert`, `SumChange`). The recursive function
  behind it is shown to exist by the argument that a set of naturals has a least element, since the
  library's induction theorems cannot be instantiated. `FoldExists` is the same of any fold over a finite
  set.
* `LedgerProofs`, over the handlers: `TypeCorrect` and `NoStaleRead` from the inductive invariant
  `HandlersInv`. `ReadIsCurrent` is not inductive by itself: it needs that a handler between read and
  commit holds the locks of the wallets it read (`HoldsLocks`), that only lock holders write balances
  (which follows from `JobOK`, tying `pc` to the operation), that a row found pending stays pending under
  its lock (`ReviewedIsPending`), and that rows are inserted by the commit only (`NotYetInserted`).
* `LedgerProofs`, from the handlers to the ledger: `LedgerRefinement`, every step of a handler is a step
  of `AtomicLedger` or leaves the ledger alone, because at COMMIT the balances it read are current;
  `BalancesInBounds`; then, over the atomic steps, `RowsSettledOnce`, `LedgerExplainsBalance` and
  `MoneyIsConserved`. The last needs that a pending row names no other wallet (`PendingUnpaired`), and
  then every atomic step adds the same to both sums of a currency: a posting adds one external row, a
  transfer within a currency none, an exchange one in each of two currencies. `TransfersPaired` and
  `AuditTellsRows`, over the atomic steps with the audit entry of the handler that makes them; a rejected
  row has no balances in its entry because a pending row has none yet (`PendingUnposted`).
  `OnlyCommittedShown`: a handler that is about to emit has settled the row whose balance it emits
  (`CommittedOK`). `NeverDeadlocked`: in `LocksInv` a lock is held only at the places of a handler that
  took it, a review holds its row before any wallet, and only finitely many wallets are locked; so the
  highest locked wallet is held by somebody who waits for nothing.
* `IdempotencyProofs`: `OneHandler`, `HonestReplay` and `ResponseStays` with every fault allowed, from
  `IdempotencyInv`: who is past the reservation owns the row of its key, a completed row was completed by
  the attempt it names, which has ended, and the id a deleter remembers is never used again.
  `KeysAreAtomic`, from the same invariant, is the refinement of `AtomicKeys`, one lemma per statement:
  the INSERT takes a free key, a lookup that goes round again is a stutter, the deletion by id clears
  only a stale key (the row it finds under the id it remembers is still the expired one), and `complete`
  and `release` find the row of their own attempt. `ChargedOnce`, also with every fault: a key moves
  money at most once until a handler fails after its COMMIT, a completion fails or 24 hours pass; in
  `ChargeInv` the row of such a key is live and is still that of the attempt that moved the money.
  `FailureFrees`: an attempt that answered an error does not keep its key reserved unless its own release
  failed.
* `NotificationProofs`: `NoEventLost`, for any copies, retries and prefetch, every fault and a worker
  that may lose what it has on the wire. `NothingLost` is not inductive: a copy may be the last of its
  event and about to go. `PipelineInv` says that every event with a copy in use is firm: pushed,
  dead-lettered, or with a solid copy. A retry copy on the wire is not solid, but its original is as long
  as its ack is queued behind it; when the retry copy arrives it is solid itself. And a mark is in Redis
  only after a push. `PipelineTypes` needs no condition. `DuplicatesPerLife` counts: while an event has
  no mark, its pushes exceed what earlier lives of the worker explain by the deliveries that wait to set
  it, and once it has one only deliveries that looked before may push; both are among the `Prefetch` held
  (`MarkedInv`). `TwoCopiesBeforeFailure` weighs an event by its copies and the publishers that have
  still to send: with row locks, one relay at most (`CalmInv`). `FewDuplicates` puts the two together,
  with no assumption on `Faults`: the ghost `struck` says when each promise ends.
* `BffSessionProofs`: `SessionsInPlace`, what every request, token and cookie is at each stage, is the
  ground of the rest. `ClaimedOnce`: the claim of a token is written once, however many refreshes present
  it. `EndedForGood`: an ended family stays ended, and a suspended account has only rows of calls that
  were past their status check. `SiblingsClose`: `GraceInv` ties every pair issued for a token to the
  moment it was first used. `EndsForCause`: `CauseInv` says that rows go for a cause (`RowsGoForCause`),
  that a claimed token in the jar has a request on its way with its successor (`SuccessorOnItsWay`), and
  that a request with a claimed token left at most one latency after the claim; with the latency of its
  own answer it reads the row inside the reuse window, so it is never taken for a replay.
* `AccountsProofs`: theorems of each of `TwoFactor`, `Passkeys`, `UsersAdmin` and `ApprovalDesk` for
  itself, and from them the promises of their composition `Accounts`: `SecondFactorKept`, `PasskeysKept`,
  `AdministrationKept` and `DesksSayWhatHappened`, each as an instance of the part's own invariant
  (`FactorInv`, `KeyInv`, `UsersInv` with `EntriesInv`, `DeskInv`). What these add to the properties: a
  handler whose row has not changed knows what it decided on (`HandlersKnow`); an authenticator is ahead
  of all it signed and a verification past its check is ahead of the row (`DeviceAhead`, `CountersMove`);
  the token of a person says a role the entries give that person (`TokensHad`). At the desks a decision
  has been heard by the desk that made it, lost its answer, or has its call still under way
  (`OwnDecisions`), so a second call of the desk on that request is known to be a repeat (`RepeatsKnown`,
  with `CallsTell` for what the call will be told); and a page read or on its way after the desk heard of
  a decision does not list that request, unless another page has been asked for (`PagesFresh`).

* `SurfacesProofs`: a theorem for each part of `Surfaces`, from `PartsInv`: whichever
  part the behaviour is about keeps its own invariant. The lemmas about the forms and the tables are in
  `FormsProofs`.
  * `FormsPayOnce` and `ScreenExchangesOnce`: `KeysKept` says what a key stands for: free until a call of
    it runs, done once one has committed, and every answer "ok" names the payment of its own key and
    body. While a wizard is open, every key it used but the one it holds is done, so it has made as many
    payments as it showed receipts, and one more if the key it holds is done (`CountKept`). On the
    exchange screen a visit has one key (`OneKey`).
  * `AmountsParse`: for any text and any room, `sanitizeDecimal` leaves a field of digits, not more than
    there is room for, around one point at most (`Clean`), since every character it takes does
    (`TakeKeeps`). A clean field that is finished is well formed for `parseAmountToMinor`, it is more
    than 0 with any digit that is not nought (`NumberPositive`), and a text that is no longer and nowhere
    larger is no larger as a number (`NumberGrows`). The two loops are folds over a sequence: that the
    recursive functions behind them exist is `FoldExists` of `ArithmeticProofs`, and what holds along
    them goes by induction over the finite sets of places (`FiniteSubsets`).
  * `BalanceComesRight`: unless an announcement was missed or overtaken, the newest balance is shown or
    its announcement is still to come (`NewestToCome`).
  * `ChartTellsRange`: unless two picks raced, the only fetch under way is the newest, it is for the
    button pressed, and it remembers the range drawn (`OnePick`).
  * `TablesAnswer`: a timer runs only for a box that differs from q (`TimerTells`), and when nothing is
    under way a box that differs is what the URL says, kept because its q was not changed by it (`BoxSettles`);
    what a table was asked for is, up to the space around a text, in the parameters on screen, in those
    on their way, or in the box whose timer runs (`ChoicesHeld`); a page is past the rows only by a link,
    from which "previous" is all that leads on, or because fewer rows are there than the screen had
    counted when "next" was pressed (`PagesHeld`).
  * `PushTellsOnce`: while a message will be tried again, every try so far met a fault, so no device has
    shown it more often than there were faults (`PushCounted`).
  * `AlertsOneShot`: once an alert is told, every tick that still holds it held it at the first notice,
    and each further notice uses one of them up (`HoldersCounted`); any number of overlapping ticks.
  * `TrackedIsTrue`: unless its row is in doubt, a star is the only one with a request under way for its
    row, and says what the table holds once that request ends (`StarCalls`, `StarsFollow`); a list that
    is sure is the table's unless a commit is yet to be told or a page is coming (`ListsFollow`); the last
    request of a row stands (`LastStands`). That a portfolio of priced coins is worth zero only when it is
    empty rests on the sums of `ArithmeticProofs`.
  * `CacheStaysFresh`: the age of an entry and the life it has left add up to no more than its lifetime
    and one fetch (`EntryOK`).
  * `AlarmRecoversForCause`: a depth that a refresh was told is no less than what waits now, unless the
    broker could not be asked or a letter came since (`DepthTold`).

Assumptions a reader should know of, with why the code justifies them or what happens without:

| Assumption | Where | Why |
|---|---|---|
| `IsFiniteSet(Wallet)` | `MoneyIsConserved` | a table is finite; a sum over an infinite set is no sum |
| `Lossy \cap Api = {}` | `NoEventLost` | `pipeline_lost` shows that it is needed |
| `2 * MaxLatency < REUSE_GRACE` | `LatencyAssumption`, the session theorems | the window is 30 seconds; a request, like its answer, is taken to need less than half of it |
| `PaymentBounds` | `FormsPayOnce` | no handle is one of the words that stand for other beneficiaries in the model |
| `CacheBounds` | `CacheStaysFresh` | the lifetimes in `markets.service.ts` and `rates.service.ts` are longer than the negative one, and none is zero |
| `TableBounds` | `TablesAnswer` | a page size is positive; trimming and cutting twice leaves what a third time does not change (the cut may end in a space, which the second trim removes), and an empty text stays empty |
| `PushBounds` | `PushTellsOnce` | a message is tried at least once |
| `AmountBounds` | `AmountsParse` | digits have their values, nought alone is 0, and `sanitizeAmount` asks for nine places before the point and two after; `parseAmountToMinor` reads one or two |
| `TrackedBounds` | `TrackedIsTrue` | coins are finite in number and, where they have a price, it is above zero |
| `IsFiniteSet(TimerRun)` | `AlertsOneShot` | finitely many ticks overlap |

The bounds that cut a behaviour short (`MaxSends`, `MaxCalls`, `MaxMoves` and their like) are any naturals.

Only model-checked: liveness (`EveryRequestEnds`, `EveryAttemptAnswered`, `Delivered`), which the prover
does not reach. Every invariant and action property of the passing runs is stated by a theorem.

## 6. Findings

Shown by a run:

* The error handler that frees an idempotency key also catches a failure to store the response, when the
  money has already moved (`idempotency_retry`). The theorem `ChargedOnce` shows that this, a handler
  failing after its COMMIT and the expiry of the key are the only ways to a second charge.
* Channels have no publisher confirms: a message on the wire when an API connection is lost is gone, and
  its row is already marked published (`pipeline_lost`). The theorem `NoEventLost` shows that this is the
  only way to lose an event.
* Who may assign super_admin is decided by the role in the token, so one who has been demoted to admin
  still may until the token expires (`role_from_token`), while the guards read the database.

Built into a property, as a condition it names:

* A cross-currency transfer can record a `transfer_in` row of amount 0 (`TransferPaired` allows it),
  while `schema.prisma` says amounts are always positive.
* The dedupe mark is set after the push, so the copies of publishNow and of a relay can both be pushed
  with nothing failing, although `outbox.service.ts` calls a double publish harmless;
  `DuplicatesBounded` says how often at most.
* A range fetch that fails after another was superseded puts the button of the chart back to a range
  that was never drawn (`ButtonTellsRange` excepts two picks that raced).
* A decided row stays on screen with live buttons until the refreshed page arrives, since `settle` in
  `row-actions.tsx` does not wait for `router.refresh()`; and a row that a filter button took away and
  brought back has forgotten that its call is under way. Pressing again in either case gets a conflict,
  and the desk says "Already reviewed by someone else." of its own decision. `ToastTruthful` excepts a
  decision sent twice, and one whose answer was lost.
* A search box that is typed into while a page arrives loses what was typed, and a choice made while
  one is on its way undoes the one before (`ChoicesKept` excepts it).
* `parseTableParams` trims q, the box does not. Text with a space around it loses the space when the page
  arrives, while the person may be about to type on, or keeps it while the parameters do not have it,
  when q is what it was (`BoxMatchesUrl` allows both). In the second case the box counts as unsaved at
  every new page: a page turned to is followed by the search again, which goes back to page 1, and may
  replace a press made meanwhile. A search of more than 100 characters cut at a space changes once more
  at the next press, and what is being typed then is lost (`Busy`).
* Rows that leave between two renders, for one by suspending the last user on the last page of a
  status filter, leave an empty page that says nothing matches (`EmptyMeansNone` excepts it and links).
* Alerts are "one-shot" by `alert-check.service.ts`, but two ticks that overlap tell one twice: the update
  that marks it does not ask whether it is still active (`OneShot` allows one notice more per tick that
  already held the alert).
* Two requests of one person that overlap can undo a recovery code or enable a secret nobody proved
  (`RecoveryCodesOnce`, `EnabledSecretProved` except such a race).
* A star that was turned while its answer was lost stays wrong until the page is opened anew
  (`StarTruthful`).

## 7. Not modelled

Lists, filters and serialization on the API's side beyond what the console's tables show, the shape of
messages, logging, metrics and error bodies, provider parsing, seeds, deployment, vendored user
interface components and rendering without state.

Faults outside the models: an acknowledgement lost after its statement took effect, in `Idempotency`. A
`complete` whose UPDATE commits and then reports an error would let `catchError` delete a completed, live
row, and an INSERT that commits and reports an error would keep its key reserved with nobody to free it.
`HonestReplay`, `FailureFreesKey` and `ImplementsAtomicKeys` are about statements that either take effect
and say so, or do not take effect. At the desk: the browser's Back, Forward and reload. In the tables: a
page that could not be loaded, which has no table, and Back and Forward. The alerts page mounts two push
toggles, of which its layout shows one at a time; they share browser and rows but not what they say, and
`PushDevices` has one per device.

Within what is modelled: the in-process consumer after a reconnect; the form that adds a wallet; what
the push toggle says after a reload; the exchange screen's dead end when a second factor is asked for;
the portfolio page, which shows $0.00 when prices are missing (`ZeroIsReal` is about the markets page,
the one that distinguishes the two); the number of fetches a cache miss starts; and how long a provider
may take. The first two are listed in `PROJECT.json` as hazards without a property, with the reason.
