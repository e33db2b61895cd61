---------------------------- MODULE WalletLedger ----------------------------
(***************************************************************************)
(* The money core of the API: WalletsService over PostgreSQL.              *)
(*                                                                         *)
(* A request is one HTTP handler in flight.  Inside prisma.$transaction a  *)
(* handler takes row locks with SELECT ... FOR UPDATE, reads what it needs *)
(* under them, and writes; under READ COMMITTED its writes are seen by     *)
(* nobody before COMMIT, so the writes of one transaction are one step and *)
(* the lock and read statements before it are steps of their own.  What a  *)
(* handler read is kept in `seen` until it writes.  After COMMIT the       *)
(* handler emits the new balance to the owner's socket and dispatches the  *)
(* notification.  A transaction can roll back at any point (timeout, lost  *)
(* connection) and the process can die after COMMIT and before the emits.  *)
(***************************************************************************)
EXTENDS LedgerRows, Functions

CONSTANTS
    Free,        \* the holder of an unlocked row
    User,
    Owner,       \* Wallet.userId
    Approvers,   \* who holds withdrawal.approve, who holds deposit.approve
    Adjusters,   \* who holds wallet.adjust
    Ops          \* operations the instance exercises

OpNames == {"deposit", "withdrawal", "approve", "reject", "adjust", "transfer"}

ASSUME LedgerAssumption ==
    /\ Free \notin Request
    /\ Owner \in [Wallet -> User]
    /\ Approvers \in [{"deposit", "withdrawal"} -> SUBSET User]
    /\ Adjusters \subseteq User
    /\ Ops \subseteq OpNames

NoTxn == <<Free, 0>>

Job == [op: OpNames \cup {"none"}, wallet: Wallet \cup {0}, to: Wallet \cup {0},
        amount: Nat, credit: Nat, rate: Rates \cup {NoRate},
        txn: TxnId \cup {NoTxn}, debit: BOOLEAN]

NoJob == [op |-> "none", wallet |-> 0, to |-> 0, amount |-> 0, credit |-> 0,
          rate |-> NoRate, txn |-> NoTxn, debit |-> FALSE]

AuditActions == {"deposit.settle", "deposit.approve", "deposit.reject",
                 "withdrawal.approve", "withdrawal.reject", "wallet.adjust", "wallet.transfer"}

\* An AuditLog row: the handler that wrote it, its entity (a transaction or a
\* wallet), and the balances in its old and new values.
AuditRow == [by: Request, action: AuditActions, txn: TxnId \cup {NoTxn},
             wallet: Wallet \cup {0}, old: Int, new: Int]

VARIABLES
    exists,    \* wallets in the Wallet table
    balance,   \* Wallet.balance
    txn,       \* the Transaction table
    settled,   \* per wallet, the ids of its approved rows in commit order
    audit,     \* the AuditLog table
    outbox,    \* requests whose OutboxEvent row is committed
    walletLock, txnLock,   \* holder of each row lock
    pc, job, seen,         \* the handlers: where, doing what, having read what
    shown,     \* balance last emitted for a wallet on its owner's socket
    toasted    \* requests whose notification was emitted on a socket

tables == <<exists, balance, txn, settled, audit, outbox>>
locks == <<walletLock, txnLock>>
sockets == <<shown, toasted>>
vars == <<tables, locks, pc, job, seen, sockets>>

-----------------------------------------------------------------------------
Init ==
    /\ exists = Existing
    /\ balance = Opening
    /\ \E old \in [Legacy -> Existing \X Amounts] : txn = InitialRows(old)
    /\ settled = [w \in Wallet |-> <<>>]
    /\ audit = {}
    /\ outbox = {}
    /\ walletLock = [w \in Wallet |-> Free]
    /\ txnLock = [i \in TxnId |-> Free]
    /\ pc = [r \in Request |-> "idle"]
    /\ job = [r \in Request |-> NoJob]
    /\ seen = [r \in Request |-> <<0, 0>>]
    /\ shown = Opening
    /\ toasted = {}

\* A handler that ends forgets what it was doing and what it read.
Leave(r, how) ==
    /\ pc' = [pc EXCEPT ![r] = how]
    /\ job' = [job EXCEPT ![r] = NoJob]
    /\ seen' = [seen EXCEPT ![r] = <<0, 0>>]

\* createWallet: one INSERT, balance 0.
CreateWallet(w) ==
    /\ w \notin exists
    /\ exists' = exists \cup {w}
    /\ UNCHANGED <<balance, txn, settled, audit, outbox, locks, pc, job, seen, sockets>>

-----------------------------------------------------------------------------
(***************************************************************************)
(* Entering a handler.  What is read before the transaction opens and is   *)
(* immutable (a wallet's existence, owner and currency, a row's type) is   *)
(* part of this step.                                                      *)
(***************************************************************************)
Begin(r, op, where, fields) ==
    /\ pc[r] = "idle"
    /\ op \in Ops
    /\ pc' = [pc EXCEPT ![r] = where]
    /\ job' = [job EXCEPT ![r] = fields]
    /\ UNCHANGED <<tables, locks, seen, sockets>>

\* getOwnedWallet: 404 if missing, 403 if not owned.
GetOwnedWallet(w, u) == w \in exists /\ Owner[w] = u

BeginDeposit(r, u, w, a) ==
    /\ GetOwnedWallet(w, u)
    /\ Begin(r, "deposit", "lock1", [NoJob EXCEPT !.op = "deposit", !.wallet = w, !.amount = a])

\* requestWithdrawal: the friendly pre-check reads the balance without a lock.
BeginWithdrawal(r, u, w, a) ==
    /\ GetOwnedWallet(w, u)
    /\ balance[w] >= a
    /\ Begin(r, "withdrawal", "insert",
             [NoJob EXCEPT !.op = "withdrawal", !.wallet = w, !.amount = a])

\* getSettleableType and assertApprovePermission, outside the transaction.
\* Any type but withdrawal asks for deposit.approve.
MayReview(u, i) ==
    /\ txn[i].status # "absent"
    /\ u \in Approvers[IF txn[i].type = "withdrawal" THEN "withdrawal" ELSE "deposit"]

BeginReview(r, u, op, i) ==
    /\ op \in {"approve", "reject"}
    /\ MayReview(u, i)
    /\ Begin(r, op, "lockTxn", [NoJob EXCEPT !.op = op, !.txn = i])

\* Mutant: the row carries a signed amount.
BeginAdjustSigned(r, u, w, a, debit) ==
    /\ u \in Adjusters
    /\ w \in exists
    /\ Begin(r, "adjust", "lock1",
             [NoJob EXCEPT !.op = "adjust", !.wallet = w, !.amount = IF debit THEN -a ELSE a])

\* adjust: the route asks for wallet.adjust.
BeginAdjust(r, u, w, a, debit) ==
    /\ u \in Adjusters
    /\ w \in exists
    /\ Begin(r, "adjust", "lock1",
             [NoJob EXCEPT !.op = "adjust", !.wallet = w, !.amount = a, !.debit = debit])

\* Mutant: the recipient is credited the unconverted amount.
BeginTransferUnconverted(r, u, from, to, a, rate) ==
    /\ from # to
    /\ GetOwnedWallet(from, u)
    /\ to \in exists
    /\ Begin(r, "transfer", "lock1",
             [NoJob EXCEPT !.op = "transfer", !.wallet = from, !.to = to, !.amount = a,
                           !.credit = a, !.rate = Quote(from, to, a, rate).rate])

\* transfer: the rate is fetched, and the credit computed, before any lock.
BeginTransfer(r, u, from, to, a, rate) ==
    /\ from # to
    /\ GetOwnedWallet(from, u)
    /\ to \in exists
    /\ LET q == Quote(from, to, a, rate) IN
       Begin(r, "transfer", "lock1",
             [NoJob EXCEPT !.op = "transfer", !.wallet = from, !.to = to, !.amount = a,
                           !.credit = q.credit, !.rate = q.rate])

-----------------------------------------------------------------------------
(***************************************************************************)
(* Inside the transaction: lock, check, read.                              *)
(***************************************************************************)
\* Mutant: the wallets are locked in the order of the request.
LockOrderAsSent(j) == <<j.wallet, j.to>>

\* [fromWalletId, toWalletId].sort()
LockOrder(j) ==
    IF j.op = "transfer" /\ j.to < j.wallet THEN <<j.to, j.wallet>> ELSE <<j.wallet, j.to>>
FirstLock(j) == LockOrder(j)[1]
SecondLock(j) == LockOrder(j)[2]

LockTxn(r) ==
    LET i == job[r].txn IN
    /\ pc[r] = "lockTxn"
    /\ txnLock[i] = Free
    /\ txnLock' = [txnLock EXCEPT ![i] = r]
    /\ pc' = [pc EXCEPT ![r] = "check"]
    /\ UNCHANGED <<tables, walletLock, job, seen, sockets>>

\* Mutant: the status found before the transaction is trusted.
CheckPendingTrusted(r) ==
    LET i == job[r].txn IN
    /\ pc[r] = "check"
    /\ job' = [job EXCEPT ![r].wallet = txn[i].wallet, ![r].amount = txn[i].amount]
    /\ pc' = [pc EXCEPT ![r] = IF job[r].op = "approve" THEN "lock1" ELSE "commit"]
    /\ UNCHANGED <<tables, locks, seen, sockets>>

\* The status is re-read under the row lock; approve goes on to lock the wallet.
CheckPending(r) ==
    LET i == job[r].txn IN
    /\ pc[r] = "check"
    /\ txn[i].status = "pending"
    /\ job' = [job EXCEPT ![r].wallet = txn[i].wallet, ![r].amount = txn[i].amount]
    /\ pc' = [pc EXCEPT ![r] = IF job[r].op = "approve" THEN "lock1" ELSE "commit"]
    /\ UNCHANGED <<tables, locks, seen, sockets>>

\* Mutant: a plain SELECT, which waits for nobody.
LockFirstPlain(r) ==
    /\ pc[r] = "lock1"
    /\ pc' = [pc EXCEPT ![r] = IF job[r].op = "transfer" THEN "lock2" ELSE "read"]
    /\ UNCHANGED <<tables, locks, job, seen, sockets>>

LockFirst(r) ==
    LET w == FirstLock(job[r]) IN
    /\ pc[r] = "lock1"
    /\ walletLock[w] = Free
    /\ walletLock' = [walletLock EXCEPT ![w] = r]
    /\ pc' = [pc EXCEPT ![r] = IF job[r].op = "transfer" THEN "lock2" ELSE "read"]
    /\ UNCHANGED <<tables, txnLock, job, seen, sockets>>

\* Mutant: only one of the two wallets is locked.
LockSecondPlain(r) ==
    /\ pc[r] = "lock2"
    /\ pc' = [pc EXCEPT ![r] = "read"]
    /\ UNCHANGED <<tables, locks, job, seen, sockets>>

LockSecond(r) ==
    LET w == SecondLock(job[r]) IN
    /\ pc[r] = "lock2"
    /\ walletLock[w] = Free
    /\ walletLock' = [walletLock EXCEPT ![w] = r]
    /\ pc' = [pc EXCEPT ![r] = "read"]
    /\ UNCHANGED <<tables, txnLock, job, seen, sockets>>

\* Mutant: the new balance is emitted from inside the transaction.
ReadBalancesAndEmit(r) ==
    LET j == job[r] IN
    /\ pc[r] = "read"
    /\ seen' = [seen EXCEPT ![r] = <<balance[j.wallet],
                                     IF j.op = "transfer" THEN balance[j.to] ELSE 0>>]
    /\ shown' = [shown EXCEPT ![j.wallet] = balance[j.wallet] + j.amount]
    /\ pc' = [pc EXCEPT ![r] = "commit"]
    /\ UNCHANGED <<tables, locks, job, toasted>>

\* findUnique on the locked wallet rows.
ReadBalances(r) ==
    LET j == job[r] IN
    /\ pc[r] = "read"
    /\ seen' = [seen EXCEPT ![r] = <<balance[j.wallet],
                                     IF j.op = "transfer" THEN balance[j.to] ELSE 0>>]
    /\ pc' = [pc EXCEPT ![r] = "commit"]
    /\ UNCHANGED <<tables, locks, job, sockets>>

-----------------------------------------------------------------------------
(***************************************************************************)
(* The writes and COMMIT.                                                  *)
(***************************************************************************)
Unlocked(lock, r) == [x \in DOMAIN lock |-> IF lock[x] = r THEN Free ELSE lock[x]]

ReleaseLocks(r) ==
    /\ walletLock' = Unlocked(walletLock, r)
    /\ txnLock' = Unlocked(txnLock, r)

Debits(j) == \/ j.op = "transfer"
             \/ j.op = "adjust" /\ j.debit
             \/ j.op = "approve" /\ txn[j.txn].type = "withdrawal"

After(r) == IF Debits(job[r]) THEN seen[r][1] - job[r].amount ELSE seen[r][1] + job[r].amount

ToAfter(r) == seen[r][2] + job[r].credit

\* Mutant: no check for sufficient funds.
AcceptedOverdrawn(r) ==
    \/ job[r].op = "reject"
    \/ /\ After(r) <= MaxInt
       /\ job[r].op = "transfer" => ToAfter(r) <= MaxInt

\* The debit is refused below zero; an INTEGER column refuses the overflow.
Accepted(r) ==
    \/ job[r].op = "reject"
    \/ /\ After(r) \in 0 .. MaxInt
       /\ job[r].op = "transfer" => ToAfter(r) <= MaxInt

TxnAudit(r, action, i, old, new) ==
    [by |-> r, action |-> action, txn |-> i, wallet |-> 0, old |-> old, new |-> new]
WalletAudit(r, action, w, old, new) ==
    [by |-> r, action |-> action, txn |-> NoTxn, wallet |-> w, old |-> old, new |-> new]

\* One wallet goes to After(r) by row i; the handler will emit that balance.
CommitBalance(r, i) ==
    LET w == job[r].wallet IN
    /\ pc[r] = "commit"
    /\ Accepted(r)
    /\ balance' = [balance EXCEPT ![w] = After(r)]
    /\ settled' = [settled EXCEPT ![w] = Append(@, i)]
    /\ pc' = [pc EXCEPT ![r] = "emit"]
    /\ ReleaseLocks(r)
    /\ UNCHANGED <<exists, job, seen, sockets>>

CommitDeposit(r) ==
    LET j == job[r]
        i == <<r, 1>>
    IN
    /\ j.op = "deposit"
    /\ CommitBalance(r, i)
    /\ txn' = [txn EXCEPT ![i] = SettledRow("deposit", j.wallet, j.amount, seen[r][1], After(r))]
    /\ audit' = audit \cup {TxnAudit(r, "deposit.settle", i, seen[r][1], After(r))}
    /\ outbox' = outbox \cup {r}

\* adjust notifies nobody.
CommitAdjust(r) ==
    LET j == job[r]
        i == <<r, 1>>
    IN
    /\ j.op = "adjust"
    /\ CommitBalance(r, i)
    /\ txn' = [txn EXCEPT ![i] = SettledRow("adjustment", j.wallet, j.amount, seen[r][1], After(r))]
    /\ audit' = audit \cup {WalletAudit(r, "wallet.adjust", j.wallet, seen[r][1], After(r))}
    /\ UNCHANGED outbox

ApproveAction(i) ==
    IF txn[i].type = "withdrawal" THEN "withdrawal.approve" ELSE "deposit.approve"
RejectAction(i) ==
    IF txn[i].type = "withdrawal" THEN "withdrawal.reject" ELSE "deposit.reject"

CommitApprove(r) ==
    LET i == job[r].txn IN
    /\ job[r].op = "approve"
    /\ CommitBalance(r, i)
    /\ txn' = [txn EXCEPT ![i].status = "approved", ![i].before = seen[r][1], ![i].after = After(r)]
    /\ audit' = audit \cup {TxnAudit(r, ApproveAction(i), i, Null, After(r))}
    /\ outbox' = outbox \cup {r}

CommitReject(r) ==
    LET j == job[r] IN
    /\ pc[r] = "commit"
    /\ j.op = "reject"
    /\ txn' = [txn EXCEPT ![j.txn].status = "rejected"]
    /\ audit' = audit \cup {TxnAudit(r, RejectAction(j.txn), j.txn, Null, Null)}
    /\ outbox' = outbox \cup {r}
    /\ pc' = [pc EXCEPT ![r] = "dispatch"]
    /\ ReleaseLocks(r)
    /\ UNCHANGED <<exists, balance, settled, job, seen, sockets>>

CommitTransfer(r) ==
    LET j == job[r] IN
    /\ pc[r] = "commit"
    /\ j.op = "transfer"
    /\ Accepted(r)
    /\ balance' = [balance EXCEPT ![j.wallet] = After(r), ![j.to] = ToAfter(r)]
    /\ txn' = [txn EXCEPT
          ![<<r, 1>>] = TransferRow("transfer_out", j.wallet, j.amount,
                                    seen[r][1], After(r), j.to, j.rate),
          ![<<r, 2>>] = TransferRow("transfer_in", j.to, j.credit,
                                    seen[r][2], ToAfter(r), j.wallet, j.rate)]
    /\ settled' = [settled EXCEPT ![j.wallet] = Append(@, <<r, 1>>),
                                  ![j.to] = Append(@, <<r, 2>>)]
    /\ audit' = audit \cup {WalletAudit(r, "wallet.transfer", j.wallet, seen[r][1], After(r))}
    /\ outbox' = outbox \cup {r}
    /\ pc' = [pc EXCEPT ![r] = "emit"]
    /\ ReleaseLocks(r)
    /\ UNCHANGED <<exists, job, seen, sockets>>

\* The INSERT of a withdrawal request is one statement.  Its foreign key takes
\* a KEY SHARE lock on the wallet row, which waits for a FOR UPDATE holder.
InsertWithdrawal(r) ==
    LET j == job[r] IN
    /\ pc[r] = "insert"
    /\ walletLock[j.wallet] = Free
    /\ txn' = [txn EXCEPT ![<<r, 1>>] = PendingRow("withdrawal", j.wallet, j.amount)]
    /\ Leave(r, "done")
    /\ UNCHANGED <<exists, balance, settled, audit, outbox, locks, sockets>>

InTransaction == {"lockTxn", "check", "lock1", "lock2", "read", "commit", "insert"}

RollBack(r) ==
    /\ Leave(r, "failed")
    /\ ReleaseLocks(r)
    /\ UNCHANGED <<tables, sockets>>

\* 409 Transaction already reviewed; 400 Insufficient funds / negative
\* adjustment; the database's own integer-overflow error.
Refuse(r) ==
    /\ \/ pc[r] = "check" /\ txn[job[r].txn].status # "pending"
       \/ pc[r] = "commit" /\ ~Accepted(r)
    /\ RollBack(r)

\* Transaction timeout, connection loss, process death: nothing was written.
Abort(r) == pc[r] \in InTransaction /\ RollBack(r)

-----------------------------------------------------------------------------
(***************************************************************************)
(* After COMMIT.                                                           *)
(***************************************************************************)
\* emitBalance carries the balance the transaction computed, not a fresh read.
EmitBalance(r) ==
    LET j == job[r] IN
    /\ pc[r] = "emit"
    /\ shown' = [w \in Wallet |->
                    IF w = j.wallet THEN txn[IF j.op = "approve" THEN j.txn ELSE <<r, 1>>].after
                    ELSE IF j.op = "transfer" /\ w = j.to THEN txn[<<r, 2>>].after
                    ELSE shown[w]]
    /\ IF j.op = "adjust" THEN Leave(r, "done")
                          ELSE pc' = [pc EXCEPT ![r] = "dispatch"] /\ UNCHANGED <<job, seen>>
    /\ UNCHANGED <<tables, locks, toasted>>

\* dispatch: the socket toast; publishing to the broker is OutboxRelay's part.
Dispatch(r) ==
    /\ pc[r] = "dispatch"
    /\ toasted' = toasted \cup {r}
    /\ Leave(r, "done")
    /\ UNCHANGED <<tables, locks, shown>>

\* The process dies after COMMIT: the tables keep everything, no emit happens.
CrashAfterCommit(r) ==
    /\ pc[r] \in {"emit", "dispatch"}
    /\ Leave(r, "failed")
    /\ UNCHANGED <<tables, locks, sockets>>

-----------------------------------------------------------------------------
BeginSome(r) ==
    \E u \in User, a \in Amounts :
       \/ \E w \in Wallet : BeginDeposit(r, u, w, a)
       \/ \E w \in Wallet : BeginWithdrawal(r, u, w, a)
       \/ \E w \in Wallet, debit \in BOOLEAN : BeginAdjust(r, u, w, a, debit)
       \/ \E from, to \in Wallet, rate \in Rates : BeginTransfer(r, u, from, to, a, rate)

BeginSomeReview(r) ==
    \E u \in User, op \in {"approve", "reject"}, i \in TxnId : BeginReview(r, u, op, i)

\* What a handler that has started goes on to do.
Advance(r) ==
    \/ LockTxn(r) \/ CheckPending(r) \/ LockFirst(r) \/ LockSecond(r) \/ ReadBalances(r)
    \/ CommitDeposit(r) \/ CommitAdjust(r) \/ CommitApprove(r) \/ CommitReject(r) \/ CommitTransfer(r)
    \/ InsertWithdrawal(r) \/ Refuse(r) \/ EmitBalance(r) \/ Dispatch(r)

Fault(r) == Abort(r) \/ CrashAfterCommit(r)

Ended == {"done", "failed"}

\* Every handler of the instance has ended: nothing more happens.
AllEnded == (\A r \in Request : pc[r] \in Ended) /\ exists = Wallet /\ UNCHANGED vars

Next ==
    \/ \E w \in Wallet : CreateWallet(w)
    \/ \E r \in Request : BeginSome(r) \/ BeginSomeReview(r) \/ Advance(r) \/ Fault(r)
    \/ AllEnded

Spec == Init /\ [][Next]_vars

\* A started handler keeps running: Node resumes it, PostgreSQL grants a lock
\* that stays free.  New requests and faults are never forced.
FairSpec == Spec /\ \A r \in Request : WF_vars(Advance(r))

-----------------------------------------------------------------------------
(***************************************************************************)
(* Properties.                                                             *)
(***************************************************************************)
Places == InTransaction \cup {"idle", "emit", "dispatch"} \cup Ended

\* Every variable has its type.  Balances are only integers here: that they
\* stay within bounds is InBounds.
TypeOK ==
    /\ exists \subseteq Wallet
    /\ balance \in [Wallet -> Int]
    /\ txn \in [TxnId -> Row]
    /\ settled \in [Wallet -> Seq(TxnId)]
    /\ audit \subseteq AuditRow
    /\ outbox \subseteq Request
    /\ walletLock \in [Wallet -> Request \cup {Free}]
    /\ txnLock \in [TxnId -> Request \cup {Free}]
    /\ pc \in [Request -> Places]
    /\ job \in [Request -> Job]
    /\ seen \in [Request -> Int \X Int]
    /\ shown \in [Wallet -> Int]
    /\ toasted \subseteq Request

\* schema.prisma, Wallet.balance: "invariant: never < 0", and it always fits
\* its INTEGER column, whatever debits and credits race.
InBounds == \A w \in Wallet : balance[w] \in 0 .. MaxInt

\* The k-th approved row of wallet w, and the balance it started from.
SettledRowAt(w, k) == txn[settled[w][k]]
StartOf(w, k) == IF k = 1 THEN Opening[w] ELSE SettledRowAt(w, k - 1).after

\* A settled row moves its wallet by its amount, the way its type says (an
\* adjustment goes either way).
MovesByAmount(t) ==
    \/ t.type \notin {"withdrawal", "transfer_out"} /\ t.after = t.before + t.amount
    \/ t.type \in {"withdrawal", "transfer_out", "adjustment"} /\ t.after = t.before - t.amount

ChainOK(w) ==
    /\ \A k \in DOMAIN settled[w] :
          /\ SettledRowAt(w, k).status = "approved"
          /\ SettledRowAt(w, k).wallet = w
          /\ SettledRowAt(w, k).before = StartOf(w, k)
          /\ MovesByAmount(SettledRowAt(w, k))
    /\ balance[w] = StartOf(w, Len(settled[w]) + 1)

\* The ledger explains the balance: the approved rows of a wallet, in commit
\* order, chain from the opening balance to the current one, each moving it by
\* exactly its amount.
BalanceChain == \A w \in Wallet : ChainOK(w)

Decided == {"approved", "rejected"}

\* schema.prisma, Transaction: "Append-only ledger. A row is created `pending`
\* and later settled exactly once."  A decided row never changes again, a
\* pending one keeps what was asked for, and the chain only grows.
SettledOnce ==
    [][/\ \A i \in TxnId :
             /\ txn[i].status \in Decided => txn'[i] = txn[i]
             /\ txn[i].status = "pending" =>
                   /\ txn'[i].status # "absent"
                   /\ txn'[i].type = txn[i].type
                   /\ txn'[i].wallet = txn[i].wallet
                   /\ txn'[i].amount = txn[i].amount
       /\ \A w \in Wallet :
             /\ Len(settled'[w]) >= Len(settled[w])
             /\ \A k \in DOMAIN settled[w] : settled'[w][k] = settled[w][k]]_vars

\* The two rows of one request: the halves of a transfer or of none.
HalvesMatch(out, in) ==
    /\ (out.type = "transfer_out") <=> (in.type = "transfer_in")
    /\ out.type = "transfer_out" =>
          /\ out.status = "approved" /\ in.status = "approved"
          /\ out.peer = in.wallet /\ in.peer = out.wallet
          /\ out.wallet # in.wallet
          /\ out.rate = in.rate
          /\ (out.rate = NoRate) <=> (Currency[out.wallet] = Currency[in.wallet])
          /\ in.amount = IF out.rate = NoRate THEN out.amount
                         ELSE ConvertMinorAmount(out.amount, out.rate)

\* schema.prisma, transferId and exchangeRate: both halves of a transfer exist
\* or neither, they name each other's wallet and one rate, and
\* in.amount = round(out.amount * rate), or out.amount without a rate.
TransferPaired == \A r \in Request : HalvesMatch(txn[<<r, 1>>], txn[<<r, 2>>])

\* What settled row i moved.
Moved(i) == IF txn[i].after < txn[i].before THEN 0 - txn[i].amount ELSE txn[i].amount

WalletsIn(c) == {w \in Wallet : Currency[w] = c}

\* The settled rows that bring money into currency c or take it out of it: all
\* but those of transfers within it.
External(c) ==
    {i \in TxnId : /\ txn[i].status = "approved"
                   /\ txn[i].wallet \in WalletsIn(c)
                   /\ txn[i].peer \notin WalletsIn(c)}

\* Transfers create no money: within a currency the balances move only by
\* deposits, settled withdrawals, adjustments and exchanged transfers.
MoneyConserved ==
    \A c \in {Currency[w] : w \in Wallet} :
        SumFunctionOnSet([w \in Wallet |-> balance[w] - Opening[w]], WalletsIn(c))
          = SumFunctionOnSet([i \in TxnId |-> Moved(i)], External(c))

\* The row an audit entry is about: adjust and transfer anchor theirs to the
\* wallet, so the row is the one their handler inserted.
AuditedRow(e) == IF e.txn = NoTxn THEN <<e.by, 1>> ELSE e.txn

\* schema.prisma, AuditLog: "a state change can never exist without its audit
\* entry".  Every decided row has exactly one entry (a transfer's two rows
\* share one), every entry is about a decided row, and its balances are the
\* row's, also when two reviewers race for one row.
AuditMatches ==
    /\ \A i \in TxnId :
          (txn[i].status \in Decided /\ txn[i].type # "transfer_in") =>
              \E e \in audit : /\ AuditedRow(e) = i
                                /\ \A f \in audit : AuditedRow(f) = i => f = e
    /\ \A e \in audit :
          LET t == txn[AuditedRow(e)] IN
          /\ t.status \in Decided
          /\ e.new = t.after
          /\ e.old # Null => e.old = t.before
          /\ e.txn = NoTxn => e.wallet = t.wallet

\* "A rolled-back credit must never announce a balance change": what a socket
\* shows for a wallet is its opening balance or one it really had, and a toast
\* is only shown for a committed event.
AnnouncedWasCommitted ==
    /\ \A w \in Wallet :
          shown[w] = Opening[w] \/ \E k \in DOMAIN settled[w] : shown[w] = SettledRowAt(w, k).after
    /\ toasted \subseteq outbox

\* r waits for a row lock that h holds.
BlockedOn(r, h) ==
    \/ pc[r] = "lockTxn" /\ txnLock[job[r].txn] = h
    \/ pc[r] = "lock1" /\ walletLock[FirstLock(job[r])] = h
    \/ pc[r] = "lock2" /\ walletLock[SecondLock(job[r])] = h
    \/ pc[r] = "insert" /\ walletLock[job[r].wallet] = h

\* "Deterministic lock order": no set of handlers in which everyone waits for
\* someone of the set, so PostgreSQL never has a deadlock to break, neither
\* between opposite transfers nor between reviews and transfers.
NoDeadlock ==
    \A S \in (SUBSET Request) \ {{}} : \E r \in S : \A h \in S : ~BlockedOn(r, h)

\* Every request that enters a handler is answered, without help from faults.
EveryRequestEnds == \A r \in Request : pc[r] # "idle" ~> pc[r] \in Ended

\* The handlers implement the atomic ledger: no update is lost, no row settled
\* twice, although each handler reads in one step and writes in a later one.
Atomic == INSTANCE AtomicLedger WITH
    exists <- exists, balance <- balance, txn <- txn, settled <- settled
ImplementsAtomicLedger == Atomic!Spec

-----------------------------------------------------------------------------
(***************************************************************************)
(* Why it implements the atomic ledger: what a handler in flight holds and *)
(* knows, handler by handler.                                              *)
(***************************************************************************)
Reviews == {"approve", "reject"}

\* Which operation can be where, and what its local variables hold there.
JobOK(r) ==
    LET j == job[r] IN
    /\ pc[r] = "insert" => j.op = "withdrawal"
    /\ pc[r] \in {"lockTxn", "check"} => j.op \in Reviews
    /\ pc[r] \in {"lock1", "read"} => j.op \in {"deposit", "adjust", "approve", "transfer"}
    /\ pc[r] = "lock2" => j.op = "transfer"
    /\ pc[r] = "commit" => j.op \in {"deposit", "adjust", "approve", "reject", "transfer"}
    /\ j.op \in Reviews => j.txn \in TxnId
    /\ j.op \in {"deposit", "withdrawal", "adjust", "transfer"} => j.wallet \in exists /\ j.amount \in Amounts
    /\ j.op = "transfer" =>
          /\ j.to \in exists
          /\ j.to # j.wallet
          /\ \E rate \in Rates : [rate |-> j.rate, credit |-> j.credit]
                                   = Quote(j.wallet, j.to, j.amount, rate)

\* The row locks a handler has taken and not yet released.
HoldsLocks(r) ==
    LET j == job[r] IN
    /\ pc[r] = "lock2" => walletLock[FirstLock(j)] = r
    /\ pc[r] \in {"read", "commit"} /\ j.op # "reject" =>
          walletLock[j.wallet] = r /\ (j.op = "transfer" => walletLock[j.to] = r)
    /\ pc[r] \in {"check", "lock1", "read", "commit"} /\ j.op \in Reviews => txnLock[j.txn] = r

\* A handler inserts its rows when it commits, not before.
NotYetInserted(r) ==
    pc[r] \in {"idle"} \cup InTransaction =>
        txn[<<r, 1>>].status = "absent" /\ txn[<<r, 2>>].status = "absent"

\* A row found pending under its lock is still pending, and the same, when the
\* reviewer writes.
ReviewedIsPending(r) ==
    LET j == job[r] IN
    pc[r] \in {"lock1", "read", "commit"} /\ j.op \in Reviews =>
        /\ txn[j.txn].status = "pending"
        /\ txn[j.txn].wallet = j.wallet
        /\ txn[j.txn].amount = j.amount

\* The balances a handler read are still the balances when it writes.
CurrentRead(r) ==
    pc[r] = "commit" /\ job[r].op # "reject" =>
        /\ seen[r][1] = balance[job[r].wallet]
        /\ job[r].op = "transfer" => seen[r][2] = balance[job[r].to]

\* No handler writes a balance computed from a stale read, however long it
\* paused between its read and its write: the read-modify-write of every money
\* movement is safe.
ReadIsCurrent == \A r \in Request : CurrentRead(r)

HandlerOK(r) ==
    JobOK(r) /\ HoldsLocks(r) /\ NotYetInserted(r) /\ ReviewedIsPending(r) /\ CurrentRead(r)

PendingRowsOK ==
    \A i \in TxnId : txn[i].status = "pending" =>
        txn[i].wallet \in exists /\ txn[i].type \in {"deposit", "withdrawal"}

\* The inductive invariant.
HandlersInv ==
    /\ TypeOK
    /\ PendingRowsOK
    /\ \A r \in Request : HandlerOK(r)

=============================================================================
