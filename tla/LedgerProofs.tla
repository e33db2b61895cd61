---------------------------- MODULE LedgerProofs ----------------------------
(***************************************************************************)
(* Theorems about WalletLedger for every set of requests, wallets, users,  *)
(* amounts and rates: what a handler holds and has read, that it           *)
(* implements AtomicLedger, and what follows.  From the steps of           *)
(* AtomicLedger alone, without a lock or a read kept for later: a row is   *)
(* settled at most once, the settled rows of a wallet chain up to its      *)
(* balance, no money is made or lost, and the two rows of a transfer       *)
(* match.  From the handlers: every decided row has one truthful audit     *)
(* entry, sockets show only balances that were committed, and the row      *)
(* locks never close a cycle of waiting handlers.                          *)
(***************************************************************************)
EXTENDS WalletLedger, ArithmeticProofs

-----------------------------------------------------------------------------
(***************************************************************************)
(* The rows and jobs the handlers build.                                   *)
(***************************************************************************)
LEMMA PendingRowType ==
    ASSUME NEW type \in RowTypes, NEW w \in Wallet, NEW a \in Nat
    PROVE  PendingRow(type, w, a) \in Row
BY DEF PendingRow, Row, Null

\* A half of a transfer is a row.
LEMMA TransferRowType ==
    ASSUME NEW type \in RowTypes, NEW w \in Wallet, NEW a \in Nat, NEW before \in Int,
           NEW after \in Int, NEW peer \in Wallet, NEW rate \in Rates \cup {NoRate}
    PROVE  TransferRow(type, w, a, before, after, peer, rate) \in Row
BY DEF TransferRow, Row

\* A row settled at once (deposit, adjustment) is a row.
LEMMA SettledRowType ==
    ASSUME NEW type \in RowTypes, NEW w \in Wallet, NEW a \in Nat, NEW before \in Int,
           NEW after \in Int
    PROVE  SettledRow(type, w, a, before, after) \in Row
BY DEF SettledRow, Row

\* An approved row is a row.
LEMMA RowExcept ==
    ASSUME NEW t \in Row, NEW before \in Int, NEW after \in Int
    PROVE  [t EXCEPT !.status = "approved", !.before = before, !.after = after] \in Row
BY DEF Row

\* A rejected row is a row.
LEMMA RowRejected ==
    ASSUME NEW t \in Row
    PROVE  [t EXCEPT !.status = "rejected"] \in Row
BY DEF Row

\* A handler without a request has a well-typed job.
LEMMA NoJobType == NoJob \in Job
BY DEF NoJob, Job

\* The credit of a transfer is a natural number of minor units.
LEMMA QuoteType ==
    ASSUME NEW from \in Wallet, NEW to \in Wallet, NEW a \in Amounts, NEW rate \in Rates
    PROVE  /\ Quote(from, to, a, rate).credit \in Nat
           /\ Quote(from, to, a, rate).rate \in Rates \cup {NoRate}
<1>1. a \in Nat /\ rate \in (Nat \ {0}) \X (Nat \ {0})
  BY RowAssumption
<1>2. ConvertMinorAmount(a, rate) \in Nat
  BY <1>1, ConvertMinorNat
<1> QED
  BY <1>1, <1>2 DEF Quote

\* Both legs of a request name rows.
LEMMA TxnIds ==
    ASSUME NEW r \in Request
    PROVE  <<r, 1>> \in TxnId /\ <<r, 2>> \in TxnId
BY DEF TxnId

\* The balances a handler computes are integers.
LEMMA AfterType ==
    ASSUME TypeOK, NEW r \in Request
    PROVE  /\ After(r) \in Int
           /\ ToAfter(r) \in Int
           /\ seen[r][1] \in Int /\ seen[r][2] \in Int
           /\ job[r].amount \in Nat /\ job[r].credit \in Nat
<1>1. job[r] \in Job /\ seen[r] \in Int \X Int
  BY DEF TypeOK
<1>2. job[r].amount \in Nat /\ job[r].credit \in Nat
  BY <1>1 DEF Job
<1> QED
  BY <1>1, <1>2 DEF After, ToAfter

\* Releasing a table of locks keeps its type.
LEMMA UnlockedType ==
    ASSUME NEW D, NEW lock \in [D -> Request \cup {Free}], NEW r
    PROVE  Unlocked(lock, r) \in [D -> Request \cup {Free}]
BY DEF Unlocked

-----------------------------------------------------------------------------
(***************************************************************************)
(* Types.                                                                  *)
(***************************************************************************)
\* The initial tables, with any pending deposits of the older flow, are typed.
LEMMA InitTypeOK == Init => TypeOK
<1> SUFFICES ASSUME Init PROVE TypeOK
  OBVIOUS
<1>1. txn \in [TxnId -> Row]
  <2>1. PICK old \in [Legacy -> Existing \X Amounts] : txn = InitialRows(old)
    BY DEF Init
  <2>2. ASSUME NEW i \in TxnId, i[1] \in Legacy
        PROVE  PendingRow("deposit", old[i[1]][1], old[i[1]][2]) \in Row
    BY RowAssumption, <2>2, PendingRowType DEF RowTypes
  <2>3. NoRow \in Row
    BY DEF NoRow, Row, RowTypes, Null
  <2> QED
    BY <2>1, <2>2, <2>3 DEF InitialRows
<1>2. job \in [Request -> Job]
  BY NoJobType DEF Init
<1>3. balance \in [Wallet -> Int] /\ shown \in [Wallet -> Int]
  BY RowAssumption DEF Init
<1>4. settled \in [Wallet -> Seq(TxnId)]
  BY DEF Init
<1> QED
  BY RowAssumption, <1>1, <1>2, <1>3, <1>4 DEF Init, TypeOK, Places

\* A handler that starts leaves every variable well typed.
LEMMA BeginType ==
    ASSUME TypeOK, NEW r \in Request, NEW op, NEW where \in Places, NEW fields \in Job,
           Begin(r, op, where, fields)
    PROVE  TypeOK'
BY DEF TypeOK, Begin, tables, locks, sockets

\* A handler that ends leaves its own state well typed.
LEMMA LeaveType ==
    ASSUME TypeOK, NEW r \in Request, NEW how \in Places, Leave(r, how)
    PROVE  /\ pc' \in [Request -> Places]
           /\ job' \in [Request -> Job]
           /\ seen' \in [Request -> Int \X Int]
<1>1. <<0, 0>> \in Int \X Int
  OBVIOUS
<1> QED
  BY <1>1, NoJobType DEF TypeOK, Leave

\* Releasing the locks of a handler keeps the types of both lock tables.
LEMMA ReleaseType ==
    ASSUME TypeOK, NEW r \in Request, ReleaseLocks(r)
    PROVE  /\ walletLock' \in [Wallet -> Request \cup {Free}]
           /\ txnLock' \in [TxnId -> Request \cup {Free}]
BY UnlockedType DEF TypeOK, ReleaseLocks

\* Starting any operation is well typed.
LEMMA BeginSomeType ==
    ASSUME TypeOK, NEW r \in Request, BeginSome(r) \/ BeginSomeReview(r)
    PROVE  TypeOK'
<1>1. ASSUME NEW u \in User, NEW a \in Amounts, NEW w \in Wallet, BeginDeposit(r, u, w, a)
      PROVE  TypeOK'
  <2>1. [NoJob EXCEPT !.op = "deposit", !.wallet = w, !.amount = a] \in Job
    BY RowAssumption DEF NoJob, Job, OpNames
  <2> QED
    BY <1>1, <2>1, BeginType DEF BeginDeposit, Places, InTransaction
<1>2. ASSUME NEW u \in User, NEW a \in Amounts, NEW w \in Wallet, BeginWithdrawal(r, u, w, a)
      PROVE  TypeOK'
  <2>1. [NoJob EXCEPT !.op = "withdrawal", !.wallet = w, !.amount = a] \in Job
    BY RowAssumption DEF NoJob, Job, OpNames
  <2> QED
    BY <1>2, <2>1, BeginType DEF BeginWithdrawal, Places, InTransaction
<1>3. ASSUME NEW u \in User, NEW a \in Amounts, NEW w \in Wallet, NEW debit \in BOOLEAN,
             BeginAdjust(r, u, w, a, debit)
      PROVE  TypeOK'
  <2>1. [NoJob EXCEPT !.op = "adjust", !.wallet = w, !.amount = a, !.debit = debit] \in Job
    BY RowAssumption DEF NoJob, Job, OpNames
  <2> QED
    BY <1>3, <2>1, BeginType DEF BeginAdjust, Places, InTransaction
<1>4. ASSUME NEW u \in User, NEW a \in Amounts, NEW from \in Wallet, NEW to \in Wallet,
             NEW rate \in Rates, BeginTransfer(r, u, from, to, a, rate)
      PROVE  TypeOK'
  <2> DEFINE q == Quote(from, to, a, rate)
  <2>1. q.credit \in Nat /\ q.rate \in Rates \cup {NoRate}
    BY QuoteType
  <2> HIDE DEF q
  <2>2. [NoJob EXCEPT !.op = "transfer", !.wallet = from, !.to = to, !.amount = a,
                      !.credit = q.credit, !.rate = q.rate] \in Job
    BY RowAssumption, <2>1 DEF NoJob, Job, OpNames
  <2> QED
    BY <1>4, <2>2, BeginType DEF BeginTransfer, Places, InTransaction, q
<1>5. ASSUME NEW u \in User, NEW op \in {"approve", "reject"}, NEW i \in TxnId,
             BeginReview(r, u, op, i)
      PROVE  TypeOK'
  <2>1. [NoJob EXCEPT !.op = op, !.txn = i] \in Job
    BY DEF NoJob, Job, OpNames
  <2> QED
    BY <1>5, <2>1, BeginType DEF BeginReview, Places, InTransaction
<1> QED
  BY <1>1, <1>2, <1>3, <1>4, <1>5 DEF BeginSome, BeginSomeReview

\* A handler that works on a wallet works on an existing one.
LEMMA JobWallet ==
    ASSUME HandlersInv, NEW r \in Request, pc[r] \in {"lock1", "lock2", "read", "commit"}
    PROVE  job[r].wallet \in exists /\ job[r].wallet \in Wallet
<1>1. TypeOK /\ JobOK(r) /\ ReviewedIsPending(r) /\ PendingRowsOK
  BY DEF HandlersInv, HandlerOK
<1>2. CASE job[r].op \in Reviews
  BY <1>1, <1>2 DEF JobOK, ReviewedIsPending, PendingRowsOK, TypeOK, Reviews
<1>3. CASE job[r].op \notin Reviews
  BY <1>1, <1>3 DEF JobOK, TypeOK, Reviews
<1> QED
  BY <1>2, <1>3

\* What the commit of one wallet's movement leaves typed.
LEMMA CommitBalanceType ==
    ASSUME HandlersInv, NEW r \in Request, NEW i \in TxnId, CommitBalance(r, i)
    PROVE  /\ exists' \subseteq Wallet
           /\ balance' \in [Wallet -> Int]
           /\ settled' \in [Wallet -> Seq(TxnId)]
           /\ walletLock' \in [Wallet -> Request \cup {Free}]
           /\ txnLock' \in [TxnId -> Request \cup {Free}]
           /\ pc' \in [Request -> Places]
           /\ job' \in [Request -> Job]
           /\ seen' \in [Request -> Int \X Int]
           /\ shown' \in [Wallet -> Int]
           /\ toasted' \subseteq Request
<1>0. TypeOK /\ job[r].wallet \in Wallet
  BY JobWallet DEF HandlersInv, CommitBalance
<1>1. After(r) \in Int
  BY <1>0, AfterType
<1>2. "emit" \in Places
  BY DEF Places
<1>3. settled' \in [Wallet -> Seq(TxnId)]
  <2>1. settled[job[r].wallet] \in Seq(TxnId)
    BY <1>0 DEF TypeOK
  <2>2. Append(settled[job[r].wallet], i) \in Seq(TxnId)
    BY <2>1
  <2> QED
    BY <1>0, <2>2 DEF TypeOK, CommitBalance
<1> QED
  BY <1>0, <1>1, <1>2, <1>3, ReleaseType DEF TypeOK, CommitBalance, sockets

\* Every step of a running handler is well typed.
LEMMA AdvanceType ==
    ASSUME HandlersInv, NEW r \in Request, Advance(r)
    PROVE  TypeOK'
<1> DEFINE j == job[r]
<1>0. /\ TypeOK
      /\ JobOK(r)
      /\ j \in Job
  BY DEF HandlersInv, HandlerOK, TypeOK
<1>a. /\ After(r) \in Int /\ ToAfter(r) \in Int
      /\ seen[r][1] \in Int /\ seen[r][2] \in Int
      /\ j.amount \in Nat /\ j.credit \in Nat
  BY <1>0, AfterType
<1>b. <<r, 1>> \in TxnId /\ <<r, 2>> \in TxnId
  BY TxnIds
<1>1. CASE LockTxn(r)
  BY <1>0, <1>1 DEF LockTxn, TypeOK, tables, sockets, Places, InTransaction
<1>2. CASE CheckPending(r)
  <2>1. j.txn \in TxnId
    BY <1>0, <1>2 DEF CheckPending, JobOK
  <2>2. txn[j.txn] \in Row
    BY <1>0, <2>1 DEF TypeOK
  <2>3. job' \in [Request -> Job]
    BY <1>0, <1>2, <2>2 DEF CheckPending, TypeOK, Job, Row
  <2> QED
    BY <1>0, <1>2, <2>3 DEF CheckPending, TypeOK, tables, locks, sockets, Places, InTransaction
<1>3. CASE LockFirst(r)
  BY <1>0, <1>3 DEF LockFirst, TypeOK, tables, sockets, Places, InTransaction
<1>4. CASE LockSecond(r)
  BY <1>0, <1>4 DEF LockSecond, TypeOK, tables, sockets, Places, InTransaction
<1>5. CASE ReadBalances(r)
  <2>1. j.wallet \in Wallet /\ (j.op = "transfer" => j.to \in Wallet)
    BY <1>0, <1>5, JobWallet DEF ReadBalances, JobOK, TypeOK
  <2>2. \A w \in Wallet : balance[w] \in Int
    BY <1>0 DEF TypeOK
  <2>3. seen' \in [Request -> Int \X Int]
    <3> DEFINE y == IF j.op = "transfer" THEN balance[j.to] ELSE 0
    <3>1. balance[j.wallet] \in Int
      BY <2>1, <2>2
    <3>2. y \in Int
      BY <2>1, <2>2
    <3>3. seen' = [seen EXCEPT ![r] = <<balance[j.wallet], y>>]
      BY <1>5 DEF ReadBalances
    <3> HIDE DEF y
    <3>4. <<balance[j.wallet], y>> \in Int \X Int
      BY <3>1, <3>2
    <3> QED
      BY <1>0, <3>3, <3>4 DEF TypeOK
  <2> QED
    BY <1>0, <1>5, <2>3 DEF ReadBalances, TypeOK, tables, locks, sockets, Places, InTransaction
<1>6. CASE CommitDeposit(r)
  <2>1. j.wallet \in Wallet
    BY <1>6, JobWallet DEF CommitDeposit, CommitBalance
  <2>2. SettledRow("deposit", j.wallet, j.amount, seen[r][1], After(r)) \in Row
    BY <1>a, <2>1, SettledRowType DEF RowTypes
  <2>3. TxnAudit(r, "deposit.settle", <<r, 1>>, seen[r][1], After(r)) \in AuditRow
    BY <1>a, <1>b DEF TxnAudit, AuditRow, AuditActions
  <2>4. CommitBalance(r, <<r, 1>>)
    BY <1>6 DEF CommitDeposit
  <2> QED
    BY <1>0, <1>6, <1>b, <2>2, <2>3, <2>4, CommitBalanceType DEF CommitDeposit, TypeOK
<1>7. CASE CommitAdjust(r)
  <2>1. j.wallet \in Wallet
    BY <1>7, JobWallet DEF CommitAdjust, CommitBalance
  <2>2. SettledRow("adjustment", j.wallet, j.amount, seen[r][1], After(r)) \in Row
    BY <1>a, <2>1, SettledRowType DEF RowTypes
  <2>3. WalletAudit(r, "wallet.adjust", j.wallet, seen[r][1], After(r)) \in AuditRow
    BY <1>a, <2>1 DEF WalletAudit, AuditRow, AuditActions
  <2>4. CommitBalance(r, <<r, 1>>)
    BY <1>7 DEF CommitAdjust
  <2> QED
    BY <1>0, <1>7, <1>b, <2>2, <2>3, <2>4, CommitBalanceType DEF CommitAdjust, TypeOK
<1>8. CASE CommitApprove(r)
  <2>1. j.txn \in TxnId
    BY <1>0, <1>8 DEF CommitApprove, JobOK, Reviews
  <2>2. [txn[j.txn] EXCEPT !.status = "approved", !.before = seen[r][1], !.after = After(r)] \in Row
    BY <1>0, <1>a, <2>1, RowExcept DEF TypeOK
  <2>3. TxnAudit(r, ApproveAction(j.txn), j.txn, Null, After(r)) \in AuditRow
    BY <1>a, <2>1 DEF TxnAudit, AuditRow, AuditActions, ApproveAction, Null
  <2>4. CommitBalance(r, j.txn)
    BY <1>8 DEF CommitApprove
  <2>5. txn' \in [TxnId -> Row]
    BY <1>0, <1>8, <2>1, <2>2 DEF CommitApprove, TypeOK
  <2> QED
    BY <1>0, <1>8, <2>1, <2>3, <2>4, <2>5, CommitBalanceType DEF CommitApprove, TypeOK
<1>9. CASE CommitReject(r)
  <2>1. j.txn \in TxnId
    BY <1>0, <1>9 DEF CommitReject, JobOK, Reviews
  <2>2. TxnAudit(r, RejectAction(j.txn), j.txn, Null, Null) \in AuditRow
    BY <2>1 DEF TxnAudit, AuditRow, AuditActions, RejectAction, Null
  <2>3. [txn[j.txn] EXCEPT !.status = "rejected"] \in Row
    BY <1>0, <2>1, RowRejected DEF TypeOK
  <2>4. txn' \in [TxnId -> Row]
    BY <1>0, <1>9, <2>1, <2>3 DEF CommitReject, TypeOK
  <2> QED
    BY <1>0, <1>9, <2>2, <2>4, ReleaseType DEF CommitReject, TypeOK, Places, sockets
<1>10. CASE CommitTransfer(r)
  <2>1. j.wallet \in Wallet /\ j.to \in Wallet /\ j.rate \in Rates \cup {NoRate}
    BY <1>0, <1>10, JobWallet DEF CommitTransfer, JobOK, TypeOK, Job
  <2>2. /\ TransferRow("transfer_out", j.wallet, j.amount, seen[r][1], After(r), j.to, j.rate) \in Row
        /\ TransferRow("transfer_in", j.to, j.credit, seen[r][2], ToAfter(r), j.wallet, j.rate) \in Row
    BY <1>a, <2>1, TransferRowType DEF RowTypes
  <2>3. WalletAudit(r, "wallet.transfer", j.wallet, seen[r][1], After(r)) \in AuditRow
    BY <1>a, <2>1 DEF WalletAudit, AuditRow, AuditActions
  <2>4. settled' \in [Wallet -> Seq(TxnId)]
    <3>1. \A w \in Wallet : settled[w] \in Seq(TxnId)
      BY <1>0 DEF TypeOK
    <3>2. /\ \A w \in Wallet : Append(settled[w], <<r, 1>>) \in Seq(TxnId)
          /\ \A w \in Wallet : Append(settled[w], <<r, 2>>) \in Seq(TxnId)
      BY <3>1, <1>b
    <3>3. j.wallet # j.to
      BY <1>0, <1>10 DEF CommitTransfer, JobOK
    <3> QED
      BY <1>0, <1>10, <2>1, <3>2, <3>3 DEF CommitTransfer, TypeOK
  <2>5. txn' \in [TxnId -> Row]
    BY <1>0, <1>10, <1>b, <2>2 DEF CommitTransfer, TypeOK
  <2>6. balance' \in [Wallet -> Int]
    BY <1>0, <1>10, <1>a DEF CommitTransfer, TypeOK
  <2> QED
    BY <1>0, <1>10, <2>3, <2>4, <2>5, <2>6, ReleaseType DEF CommitTransfer, TypeOK, Places, sockets
<1>11. CASE InsertWithdrawal(r)
  <2>1. j.wallet \in Wallet /\ "done" \in Places
    BY <1>0, <1>11 DEF InsertWithdrawal, JobOK, TypeOK, Places, Ended
  <2>2. PendingRow("withdrawal", j.wallet, j.amount) \in Row
    BY <1>a, <2>1, PendingRowType DEF RowTypes
  <2> QED
    BY <1>0, <1>11, <1>b, <2>1, <2>2, LeaveType DEF InsertWithdrawal, TypeOK, locks, sockets
<1>12. CASE Refuse(r)
  BY <1>0, <1>12, LeaveType, ReleaseType DEF Refuse, RollBack, TypeOK, tables, sockets, Places, Ended
<1>13. CASE EmitBalance(r)
  <2>1. \A i \in TxnId : txn[i].after \in Int
    BY <1>0 DEF TypeOK, Row
  <2>2. j.op = "approve" => j.txn \in TxnId
    BY <1>0 DEF JobOK, Reviews
  <2>3. shown' \in [Wallet -> Int]
    BY <1>0, <1>13, <1>b, <2>1, <2>2 DEF EmitBalance, TypeOK
  <2>4. pc' \in [Request -> Places] /\ job' \in [Request -> Job] /\ seen' \in [Request -> Int \X Int]
    BY <1>0, <1>13, LeaveType DEF EmitBalance, TypeOK, Places, Ended
  <2> QED
    BY <1>0, <1>13, <2>3, <2>4 DEF EmitBalance, TypeOK, tables, locks
<1>14. CASE Dispatch(r)
  BY <1>0, <1>14, LeaveType DEF Dispatch, TypeOK, tables, locks, Places, Ended
<1> QED
  BY <1>1, <1>2, <1>3, <1>4, <1>5, <1>6, <1>7, <1>8, <1>9, <1>10, <1>11, <1>12, <1>13, <1>14
     DEF Advance

\* Every step keeps every variable typed.
LEMMA NextTypeOK == HandlersInv /\ [Next]_vars => TypeOK'
<1> SUFFICES ASSUME HandlersInv, [Next]_vars PROVE TypeOK'
  OBVIOUS
<1>0. TypeOK
  BY DEF HandlersInv
<1>1. ASSUME NEW w \in Wallet, CreateWallet(w) PROVE TypeOK'
  BY <1>0, <1>1 DEF CreateWallet, TypeOK, locks, sockets
<1>2. ASSUME NEW r \in Request, BeginSome(r) \/ BeginSomeReview(r) PROVE TypeOK'
  BY <1>0, <1>2, BeginSomeType
<1>3. ASSUME NEW r \in Request, Advance(r) PROVE TypeOK'
  BY <1>3, AdvanceType
<1>4. ASSUME NEW r \in Request, Fault(r) PROVE TypeOK'
  <2>1. CASE Abort(r)
    BY <1>0, <2>1, LeaveType, ReleaseType DEF Abort, RollBack, TypeOK, tables, sockets, Places, Ended
  <2>2. CASE CrashAfterCommit(r)
    BY <1>0, <2>2, LeaveType DEF CrashAfterCommit, TypeOK, tables, locks, sockets, Places, Ended
  <2> QED
    BY <1>4, <2>1, <2>2 DEF Fault
<1>5. CASE UNCHANGED vars
  BY <1>0, <1>5 DEF TypeOK, vars, tables, locks, sockets
<1> QED
  BY <1>1, <1>2, <1>3, <1>4, <1>5 DEF Next, AllEnded

-----------------------------------------------------------------------------
(***************************************************************************)
(* The inductive invariant.  A step of one handler is looked at twice: it  *)
(* leaves the others undisturbed, and its own handler right.               *)
(***************************************************************************)
\* What the others leave alone: a handler's local state, its locks, and the
\* rows those locks protect.
Undisturbed(q) ==
    /\ pc'[q] = pc[q] /\ job'[q] = job[q] /\ seen'[q] = seen[q]
    /\ \A w \in Wallet : walletLock[w] = q => walletLock'[w] = q /\ balance'[w] = balance[w]
    /\ \A i \in TxnId : txnLock[i] = q => txnLock'[i] = q
    /\ \A i \in TxnId : txnLock[i] = q /\ txn[i].status = "pending" => txn'[i] = txn[i]
    /\ txn[<<q, 1>>].status = "absent" => txn'[<<q, 1>>].status = "absent"
    /\ txn[<<q, 2>>].status = "absent" => txn'[<<q, 2>>].status = "absent"

\* Being undisturbed is enough to stay right.
LEMMA UndisturbedOK ==
    ASSUME HandlersInv, NEW q \in Request, Undisturbed(q), exists \subseteq exists'
    PROVE  HandlerOK(q)'
<1> DEFINE j == job[q]
<1>0. TypeOK /\ HandlerOK(q) /\ j \in Job /\ job'[q] = j
  BY DEF HandlersInv, TypeOK, Undisturbed
<1>1. JobOK(q)'
  BY <1>0 DEF HandlerOK, JobOK, Undisturbed
<1>2. HoldsLocks(q)'
  <2>1. CASE j.op \in Reviews
    BY <1>0, <2>1, JobWallet DEF HandlerOK, JobOK, HoldsLocks, Undisturbed, Reviews
  <2>2. CASE j.op \notin Reviews
    <3>1. pc[q] \in {"lock2", "read", "commit"} => j.wallet \in Wallet
      BY JobWallet
    <3>2. j.op = "transfer" => j.to \in Wallet
      BY <1>0 DEF HandlerOK, JobOK, TypeOK
    <3>3. pc[q] = "lock2" => FirstLock(j) \in Wallet
      BY <1>0, <3>1, <3>2 DEF FirstLock, LockOrder
    <3> QED
      BY <1>0, <2>2, <3>1, <3>2, <3>3 DEF HandlerOK, HoldsLocks, Undisturbed, Reviews, FirstLock, LockOrder
  <2> QED
    BY <2>1, <2>2
<1>3. NotYetInserted(q)'
  BY <1>0 DEF HandlerOK, NotYetInserted, Undisturbed
<1>4. ReviewedIsPending(q)'
  BY <1>0 DEF HandlerOK, JobOK, HoldsLocks, ReviewedIsPending, Undisturbed
<1>5. CurrentRead(q)'
  <2>1. pc[q] = "commit" => j.wallet \in Wallet
    BY JobWallet
  <2>2. j.op = "transfer" => j.to \in Wallet
    BY <1>0 DEF HandlerOK, JobOK, TypeOK
  <2> QED
    BY <1>0, <2>1, <2>2 DEF HandlerOK, HoldsLocks, CurrentRead, Undisturbed
<1> QED
  BY <1>1, <1>2, <1>3, <1>4, <1>5 DEF HandlerOK

\* What a step of handler r has to show.
StepOK(r) ==
    /\ exists \subseteq exists'
    /\ \A q \in Request \ {r} : Undisturbed(q)
    /\ HandlerOK(r)'
    /\ PendingRowsOK'

\* It is enough for the invariant.
LEMMA StepOKSuffices ==
    ASSUME HandlersInv, [Next]_vars, NEW r \in Request, StepOK(r)
    PROVE  HandlersInv'
<1>1. TypeOK'
  BY NextTypeOK
<1>2. ASSUME NEW q \in Request PROVE HandlerOK(q)'
  <2>1. CASE q = r
    BY <2>1 DEF StepOK
  <2>2. CASE q # r
    BY <2>2, UndisturbedOK DEF StepOK
  <2> QED
    BY <2>1, <2>2
<1> QED
  BY <1>1, <1>2 DEF StepOK, HandlersInv

\* Entering a handler.
LEMMA BeginStep ==
    ASSUME HandlersInv, NEW r \in Request, BeginSome(r) \/ BeginSomeReview(r)
    PROVE  StepOK(r)
<1>0. TypeOK /\ HandlerOK(r) /\ PendingRowsOK
  BY DEF HandlersInv
<1>1. ASSUME NEW op, NEW where, NEW fields, Begin(r, op, where, fields)
      PROVE  /\ exists' = exists /\ PendingRowsOK'
             /\ \A q \in Request \ {r} : Undisturbed(q)
             /\ pc[r] = "idle" /\ pc'[r] = where /\ job'[r] = fields
             /\ txn' = txn
  BY <1>0, <1>1 DEF Begin, Undisturbed, PendingRowsOK, TypeOK, tables, locks, sockets
<1>2. ASSUME NEW op \in {"deposit", "withdrawal", "adjust"}, NEW w \in exists, NEW a \in Amounts,
             NEW where \in {"lock1", "insert"}, where = "insert" <=> op = "withdrawal",
             NEW j, j.op = op, j.wallet = w, j.amount = a,
             Begin(r, op, where, j)
      PROVE  StepOK(r)
  <2>1. pc[r] = "idle" /\ pc'[r] = where /\ job'[r] = j /\ txn' = txn /\ exists' = exists
    BY <1>1, <1>2
  <2>2. HandlerOK(r)'
    BY <1>0, <1>2, <2>1
       DEF HandlerOK, JobOK, HoldsLocks, NotYetInserted, ReviewedIsPending, CurrentRead, Reviews, InTransaction
  <2> QED
    BY <1>1, <1>2, <2>2 DEF StepOK
<1>3. ASSUME NEW u \in User, NEW a \in Amounts, NEW w \in Wallet, BeginDeposit(r, u, w, a)
      PROVE  StepOK(r)
  <2> DEFINE j == [NoJob EXCEPT !.op = "deposit", !.wallet = w, !.amount = a]
  <2>1. j.op = "deposit" /\ j.wallet = w /\ j.amount = a
    BY DEF NoJob
  <2>2. w \in exists /\ Begin(r, "deposit", "lock1", j)
    BY <1>3 DEF BeginDeposit, GetOwnedWallet
  <2> HIDE DEF j
  <2> QED
    BY <1>2, <2>1, <2>2
<1>4. ASSUME NEW u \in User, NEW a \in Amounts, NEW w \in Wallet, BeginWithdrawal(r, u, w, a)
      PROVE  StepOK(r)
  <2> DEFINE j == [NoJob EXCEPT !.op = "withdrawal", !.wallet = w, !.amount = a]
  <2>1. j.op = "withdrawal" /\ j.wallet = w /\ j.amount = a
    BY DEF NoJob
  <2>2. w \in exists /\ Begin(r, "withdrawal", "insert", j)
    BY <1>4 DEF BeginWithdrawal, GetOwnedWallet
  <2> HIDE DEF j
  <2> QED
    BY <1>2, <2>1, <2>2
<1>5. ASSUME NEW u \in User, NEW a \in Amounts, NEW w \in Wallet, NEW debit \in BOOLEAN,
             BeginAdjust(r, u, w, a, debit)
      PROVE  StepOK(r)
  <2> DEFINE j == [NoJob EXCEPT !.op = "adjust", !.wallet = w, !.amount = a, !.debit = debit]
  <2>1. j.op = "adjust" /\ j.wallet = w /\ j.amount = a
    BY DEF NoJob
  <2>2. w \in exists /\ Begin(r, "adjust", "lock1", j)
    BY <1>5 DEF BeginAdjust
  <2> HIDE DEF j
  <2> QED
    BY <1>2, <2>1, <2>2
<1>6. ASSUME NEW u \in User, NEW a \in Amounts, NEW from \in Wallet, NEW to \in Wallet,
             NEW rate \in Rates, BeginTransfer(r, u, from, to, a, rate)
      PROVE  StepOK(r)
  <2> DEFINE q == Quote(from, to, a, rate)
             j == [NoJob EXCEPT !.op = "transfer", !.wallet = from, !.to = to, !.amount = a,
                                !.credit = q.credit, !.rate = q.rate]
  <2>1. q = [rate |-> q.rate, credit |-> q.credit]
    BY DEF Quote
  <2> HIDE DEF q
  <2>2. /\ j.op = "transfer" /\ j.wallet = from /\ j.to = to /\ j.amount = a
        /\ j.credit = q.credit /\ j.rate = q.rate
    BY DEF NoJob
  <2> HIDE DEF j
  <2>3. Begin(r, "transfer", "lock1", j)
    BY <1>6 DEF BeginTransfer, j, q
  <2>4. pc[r] = "idle" /\ pc'[r] = "lock1" /\ job'[r] = j /\ txn' = txn /\ exists' = exists
    BY <1>1, <2>3
  <2>5. from \in exists /\ to \in exists /\ from # to
    BY <1>6 DEF BeginTransfer, GetOwnedWallet
  <2>6. \E x \in Rates : [rate |-> j.rate, credit |-> j.credit] = Quote(j.wallet, j.to, j.amount, x)
    BY <2>1, <2>2 DEF q
  <2>7. HandlerOK(r)'
    BY <1>0, <2>2, <2>4, <2>5, <2>6
       DEF HandlerOK, JobOK, HoldsLocks, NotYetInserted, ReviewedIsPending, CurrentRead, Reviews, InTransaction
  <2> QED
    BY <1>1, <2>3, <2>7 DEF StepOK
<1>7. ASSUME NEW u \in User, NEW op \in {"approve", "reject"}, NEW i \in TxnId,
             BeginReview(r, u, op, i)
      PROVE  StepOK(r)
  <2> DEFINE j == [NoJob EXCEPT !.op = op, !.txn = i]
  <2>1. j.op = op /\ j.txn = i
    BY DEF NoJob
  <2> HIDE DEF j
  <2>2. Begin(r, op, "lockTxn", j)
    BY <1>7 DEF BeginReview, j
  <2>3. pc[r] = "idle" /\ pc'[r] = "lockTxn" /\ job'[r] = j /\ txn' = txn /\ exists' = exists
    BY <1>1, <2>2
  <2>4. HandlerOK(r)'
    BY <1>0, <2>1, <2>3
       DEF HandlerOK, JobOK, HoldsLocks, NotYetInserted, ReviewedIsPending, CurrentRead, Reviews, InTransaction
  <2> QED
    BY <1>1, <2>2, <2>4 DEF StepOK
<1> QED
  BY <1>3, <1>4, <1>5, <1>6, <1>7 DEF BeginSome, BeginSomeReview

\* A handler that leaves has nothing left to keep.
LEMMA LeaveOK ==
    ASSUME TypeOK, NEW r \in Request, NEW how \in Ended, Leave(r, how)
    PROVE  /\ HandlerOK(r)'
           /\ \A q \in Request \ {r} : pc'[q] = pc[q] /\ job'[q] = job[q] /\ seen'[q] = seen[q]
<1>1. pc'[r] = how /\ job'[r] = NoJob
  BY DEF Leave, TypeOK
<1>2. NoJob.op = "none"
  BY DEF NoJob
<1>3. HandlerOK(r)'
  BY <1>1, <1>2 DEF HandlerOK, JobOK, HoldsLocks, NotYetInserted, ReviewedIsPending, CurrentRead,
                    Reviews, InTransaction, Ended
<1> QED
  BY <1>3 DEF Leave, TypeOK

\* Releasing one handler's locks keeps those of the others.
LEMMA ReleaseKeeps ==
    ASSUME TypeOK, NEW r \in Request, NEW q \in Request \ {r}, ReleaseLocks(r)
    PROVE  /\ \A w \in Wallet : walletLock[w] = q => walletLock'[w] = q
           /\ \A i \in TxnId : txnLock[i] = q => txnLock'[i] = q
BY DEF TypeOK, ReleaseLocks, Unlocked

\* Locking, checking and reading.
LEMMA LockStep ==
    ASSUME HandlersInv, NEW r \in Request,
           LockTxn(r) \/ CheckPending(r) \/ LockFirst(r) \/ LockSecond(r) \/ ReadBalances(r)
    PROVE  StepOK(r)
<1> DEFINE j == job[r]
<1>0. /\ TypeOK /\ PendingRowsOK /\ HandlerOK(r) /\ j \in Job
      /\ exists' = exists /\ txn' = txn /\ balance' = balance
  BY DEF HandlersInv, TypeOK, LockTxn, CheckPending, LockFirst, LockSecond, ReadBalances, tables
<1>1. PendingRowsOK'
  BY <1>0 DEF PendingRowsOK
<1>2. ASSUME NEW q \in Request \ {r} PROVE Undisturbed(q)
  <2>1. q # Free
    BY LedgerAssumption
  <2>2. CASE LockTxn(r)
    BY <1>0, <2>1, <2>2 DEF LockTxn, Undisturbed, TypeOK
  <2>3. CASE CheckPending(r)
    BY <1>0, <2>3 DEF CheckPending, Undisturbed, TypeOK, locks
  <2>4. CASE LockFirst(r)
    BY <1>0, <2>1, <2>4 DEF LockFirst, Undisturbed, TypeOK
  <2>5. CASE LockSecond(r)
    BY <1>0, <2>1, <2>5 DEF LockSecond, Undisturbed, TypeOK
  <2>6. CASE ReadBalances(r)
    BY <1>0, <2>6 DEF ReadBalances, Undisturbed, TypeOK, locks
  <2> QED
    BY <2>2, <2>3, <2>4, <2>5, <2>6
<1>3. HandlerOK(r)'
  <2>1. CASE LockTxn(r)
    <3>1. j.op \in Reviews /\ j.txn \in TxnId
      BY <1>0, <2>1 DEF LockTxn, HandlerOK, JobOK
    <3>2. pc[r] = "lockTxn" /\ pc'[r] = "check" /\ job' = job /\ txnLock'[j.txn] = r
      BY <1>0, <2>1, <3>1 DEF LockTxn, TypeOK
    <3> QED
      BY <1>0, <3>1, <3>2 DEF HandlerOK, JobOK, HoldsLocks, NotYetInserted, ReviewedIsPending,
                              CurrentRead, Reviews, InTransaction
  <2>2. CASE CheckPending(r)
    <3>1. j.op \in Reviews /\ j.txn \in TxnId
      BY <1>0, <2>2 DEF CheckPending, HandlerOK, JobOK
    <3>2. /\ job'[r] = [j EXCEPT !.wallet = txn[j.txn].wallet, !.amount = txn[j.txn].amount]
          /\ pc[r] = "check" /\ txnLock' = txnLock
          /\ pc'[r] = IF j.op = "approve" THEN "lock1" ELSE "commit"
          /\ txn[j.txn].status = "pending"
      BY <1>0, <2>2 DEF CheckPending, TypeOK, locks
    <3>3. /\ job'[r].op = j.op /\ job'[r].txn = j.txn
          /\ job'[r].wallet = txn[j.txn].wallet /\ job'[r].amount = txn[j.txn].amount
      BY <1>0, <3>2 DEF Job
    <3>4. txnLock[j.txn] = r
      BY <1>0, <3>1, <3>2 DEF HandlerOK, HoldsLocks
    <3> QED
      BY <1>0, <3>1, <3>2, <3>3, <3>4
         DEF HandlerOK, JobOK, HoldsLocks, NotYetInserted, ReviewedIsPending,
             CurrentRead, Reviews, InTransaction
  <2>3. CASE LockFirst(r)
    <3>1. /\ pc[r] = "lock1" /\ job' = job /\ txnLock' = txnLock
          /\ pc'[r] = IF j.op = "transfer" THEN "lock2" ELSE "read"
      BY <1>0, <2>3 DEF LockFirst, TypeOK
    <3>2. j.wallet \in Wallet /\ (j.op = "transfer" => j.to \in Wallet)
      BY <1>0, <3>1, JobWallet DEF HandlerOK, JobOK, TypeOK
    <3>3. FirstLock(j) \in Wallet /\ (j.op # "transfer" => FirstLock(j) = j.wallet)
      BY <3>2 DEF FirstLock, LockOrder
    <3>4. walletLock'[FirstLock(j)] = r
      BY <1>0, <2>3, <3>3 DEF LockFirst, TypeOK
    <3> QED
      BY <1>0, <3>1, <3>3, <3>4
         DEF HandlerOK, JobOK, HoldsLocks, NotYetInserted, ReviewedIsPending,
             CurrentRead, Reviews, InTransaction
  <2>4. CASE LockSecond(r)
    <3>1. pc[r] = "lock2" /\ job' = job /\ txnLock' = txnLock /\ pc'[r] = "read" /\ j.op = "transfer"
      BY <1>0, <2>4 DEF LockSecond, TypeOK, HandlerOK, JobOK
    <3>2. j.wallet \in Wallet /\ j.to \in Wallet /\ j.wallet # j.to
      BY <1>0, <3>1, JobWallet DEF HandlerOK, JobOK, TypeOK
    <3>3. /\ walletLock'[SecondLock(j)] = r
          /\ walletLock'[FirstLock(j)] = r
          /\ {FirstLock(j), SecondLock(j)} = {j.wallet, j.to}
      BY <1>0, <2>4, <3>1, <3>2 DEF LockSecond, TypeOK, FirstLock, LockOrder, SecondLock, HandlerOK, HoldsLocks
    <3>4. walletLock'[j.wallet] = r /\ walletLock'[j.to] = r
      BY <3>3
    <3> QED
      BY <1>0, <3>1, <3>4
         DEF HandlerOK, JobOK, HoldsLocks, NotYetInserted, ReviewedIsPending,
             CurrentRead, Reviews, InTransaction
  <2>5. CASE ReadBalances(r)
    <3>1. /\ pc[r] = "read" /\ job' = job /\ pc'[r] = "commit"
          /\ txnLock' = txnLock /\ walletLock' = walletLock
          /\ seen'[r] = <<balance[j.wallet], IF j.op = "transfer" THEN balance[j.to] ELSE 0>>
      BY <1>0, <2>5 DEF ReadBalances, TypeOK, locks
    <3>2. seen'[r][1] = balance[j.wallet] /\ (j.op = "transfer" => seen'[r][2] = balance[j.to])
      BY <3>1
    <3> QED
      BY <1>0, <3>1, <3>2
         DEF HandlerOK, JobOK, HoldsLocks, NotYetInserted, ReviewedIsPending,
             CurrentRead, Reviews, InTransaction
  <2> QED
    BY <2>1, <2>2, <2>3, <2>4, <2>5
<1> QED
  BY <1>0, <1>1, <1>2, <1>3 DEF StepOK

\* What a committing handler knows: the wallets it changes and the row it
\* reviews are locked by it, the rows it inserts are not there yet.
LEMMA CommitKnows ==
    ASSUME HandlersInv, NEW r \in Request, pc[r] = "commit"
    PROVE  /\ job[r].op # "reject" => job[r].wallet \in exists /\ walletLock[job[r].wallet] = r
           /\ job[r].op = "transfer" => job[r].to \in exists /\ walletLock[job[r].to] = r
           /\ job[r].op \in Reviews =>
                 job[r].txn \in TxnId /\ txnLock[job[r].txn] = r /\ txn[job[r].txn].status = "pending"
           /\ txn[<<r, 1>>].status = "absent" /\ txn[<<r, 2>>].status = "absent"
<1>1. HandlerOK(r)
  BY DEF HandlersInv
<1>2. job[r].wallet \in exists
  BY JobWallet
<1> QED
  BY <1>1, <1>2 DEF HandlerOK, JobOK, HoldsLocks, NotYetInserted, ReviewedIsPending, Reviews, InTransaction

\* A commit changes only wallets its handler holds, inserts only its own rows
\* and reviews only the row it holds: nobody else is disturbed.
LEMMA CommitUndisturbed ==
    ASSUME HandlersInv, NEW r \in Request, NEW q \in Request \ {r}, pc[r] = "commit",
           ReleaseLocks(r),
           pc' = [pc EXCEPT ![r] = pc'[r]], job' = job, seen' = seen,
           \A w \in Wallet : walletLock[w] # r => balance'[w] = balance[w],
           \A i \in TxnId : i \notin {<<r, 1>>, <<r, 2>>} /\ txnLock[i] # r => txn'[i] = txn[i],
           \A i \in TxnId : txnLock[i] = r /\ txn[i].status # "pending"
                              /\ i \notin {<<r, 1>>, <<r, 2>>} => txn'[i] = txn[i]
    PROVE  Undisturbed(q)
<1>0. TypeOK
  BY DEF HandlersInv
<1>1. pc'[q] = pc[q]
  BY <1>0 DEF TypeOK
<1>2. \A i \in TxnId : txnLock[i] = q /\ txn[i].status = "pending" => txn'[i] = txn[i]
  BY CommitKnows
<1>3. /\ <<q, 1>> \in TxnId /\ <<q, 2>> \in TxnId
      /\ {<<q, 1>>, <<q, 2>>} \cap {<<r, 1>>, <<r, 2>>} = {}
  BY TxnIds
<1>4. /\ txn[<<q, 1>>].status = "absent" => txn'[<<q, 1>>].status = "absent"
      /\ txn[<<q, 2>>].status = "absent" => txn'[<<q, 2>>].status = "absent"
  BY <1>3
<1> QED
  BY <1>0, <1>1, <1>2, <1>4, ReleaseKeeps DEF Undisturbed

\* A commit establishes what the invariant says of its handler and disturbs no other.
LEMMA CommitStep ==
    ASSUME HandlersInv, NEW r \in Request,
           \/ CommitDeposit(r) \/ CommitAdjust(r) \/ CommitApprove(r)
           \/ CommitReject(r) \/ CommitTransfer(r)
    PROVE  StepOK(r)
<1> DEFINE j == job[r]
<1>0. TypeOK /\ PendingRowsOK /\ HandlerOK(r) /\ j \in Job
  BY DEF HandlersInv, TypeOK
<1>1. /\ pc[r] = "commit" /\ pc'[r] \in {"emit", "dispatch"} /\ pc' = [pc EXCEPT ![r] = pc'[r]]
      /\ job' = job /\ seen' = seen /\ exists' = exists /\ ReleaseLocks(r)
  BY <1>0 DEF CommitDeposit, CommitAdjust, CommitApprove, CommitReject, CommitTransfer, CommitBalance, TypeOK
<1>2. <<r, 1>> \in TxnId /\ <<r, 2>> \in TxnId
  BY TxnIds
<1>3. HandlerOK(r)'
  BY <1>0, <1>1 DEF HandlerOK, JobOK, HoldsLocks, NotYetInserted, ReviewedIsPending, CurrentRead, InTransaction
<1>4. \A w \in Wallet : walletLock[w] # r => balance'[w] = balance[w]
  <2>1. CASE CommitReject(r)
    BY <2>1 DEF CommitReject
  <2>2. CASE CommitTransfer(r)
    <3>1. walletLock[j.wallet] = r /\ walletLock[j.to] = r
      BY <1>1, <2>2, CommitKnows DEF CommitTransfer
    <3> QED
      BY <1>0, <2>2, <3>1 DEF CommitTransfer, TypeOK
  <2>3. CASE CommitDeposit(r) \/ CommitAdjust(r) \/ CommitApprove(r)
    <3>1. walletLock[j.wallet] = r
      BY <1>1, <2>3, CommitKnows DEF CommitDeposit, CommitAdjust, CommitApprove
    <3>2. balance' = [balance EXCEPT ![j.wallet] = After(r)]
      BY <2>3 DEF CommitDeposit, CommitAdjust, CommitApprove, CommitBalance
    <3> QED
      BY <1>0, <3>1, <3>2 DEF TypeOK
  <2> QED
    BY <2>1, <2>2, <2>3
<1>5. /\ \A i \in TxnId : i \notin {<<r, 1>>, <<r, 2>>} /\ txnLock[i] # r => txn'[i] = txn[i]
      /\ \A i \in TxnId : txnLock[i] = r /\ txn[i].status # "pending"
                          /\ i \notin {<<r, 1>>, <<r, 2>>} => txn'[i] = txn[i]
      /\ PendingRowsOK'
  <2>1. CASE CommitDeposit(r) \/ CommitAdjust(r)
    <3>1. PICK type \in {"deposit", "adjustment"} :
             txn' = [txn EXCEPT ![<<r, 1>>] =
                        SettledRow(type, j.wallet, j.amount, seen[r][1], After(r))]
      BY <2>1 DEF CommitDeposit, CommitAdjust
    <3>2. SettledRow(type, j.wallet, j.amount, seen[r][1], After(r)).status = "approved"
      BY DEF SettledRow
    <3>3. /\ \A i \in TxnId : i # <<r, 1>> => txn'[i] = txn[i]
          /\ txn'[<<r, 1>>].status = "approved"
      BY <1>0, <1>2, <3>1, <3>2 DEF TypeOK
    <3> QED
      BY <1>0, <1>1, <3>3 DEF PendingRowsOK
  <2>2. CASE CommitApprove(r) \/ CommitReject(r)
    <3>1. j.op \in Reviews
      BY <2>2 DEF CommitApprove, CommitReject, Reviews
    <3>2. j.txn \in TxnId /\ txnLock[j.txn] = r /\ txn[j.txn].status = "pending" /\ txn[j.txn] \in Row
      BY <1>0, <1>1, <3>1, CommitKnows DEF TypeOK
    <3>3. /\ \A i \in TxnId : i # j.txn => txn'[i] = txn[i]
          /\ txn'[j.txn].status \in Decided
      BY <1>0, <2>2, <3>2 DEF TypeOK, CommitApprove, CommitReject, Decided, Row
    <3> QED
      BY <1>0, <1>1, <3>2, <3>3 DEF PendingRowsOK, Decided
  <2>3. CASE CommitTransfer(r)
    BY <1>0, <1>1, <1>2, <2>3 DEF TypeOK, PendingRowsOK, CommitTransfer, TransferRow
  <2> QED
    BY <2>1, <2>2, <2>3
<1>6. \A q \in Request \ {r} : Undisturbed(q)
  BY <1>1, <1>4, <1>5, CommitUndisturbed
<1> QED
  BY <1>1, <1>3, <1>5, <1>6 DEF StepOK

\* Leaving: the plain insert, a rollback, the emits and a crash.
LEMMA EndStep ==
    ASSUME HandlersInv, NEW r \in Request,
           InsertWithdrawal(r) \/ Refuse(r) \/ EmitBalance(r) \/ Dispatch(r) \/ Fault(r)
    PROVE  StepOK(r)
<1> DEFINE j == job[r]
<1>0. TypeOK /\ PendingRowsOK /\ HandlerOK(r) /\ j \in Job
  BY DEF HandlersInv, TypeOK
<1>1. CASE InsertWithdrawal(r)
  <2>1. <<r, 1>> \in TxnId /\ j.wallet \in exists /\ txn[<<r, 1>>].status = "absent"
    BY <1>0, <1>1, TxnIds DEF InsertWithdrawal, HandlerOK, JobOK, NotYetInserted, InTransaction
  <2>2. /\ exists' = exists /\ balance' = balance /\ walletLock' = walletLock /\ txnLock' = txnLock
        /\ txn' = [txn EXCEPT ![<<r, 1>>] = PendingRow("withdrawal", j.wallet, j.amount)]
    BY <1>1 DEF InsertWithdrawal, locks
  <2>3. PendingRowsOK'
    BY <1>0, <2>1, <2>2 DEF PendingRowsOK, PendingRow, TypeOK
  <2>4. /\ HandlerOK(r)'
        /\ \A q \in Request \ {r} : pc'[q] = pc[q] /\ job'[q] = job[q] /\ seen'[q] = seen[q]
    BY <1>0, <1>1, LeaveOK DEF InsertWithdrawal, Ended
  <2>5. ASSUME NEW q \in Request \ {r} PROVE Undisturbed(q)
    <3>1. /\ <<q, 1>> \in TxnId /\ <<q, 2>> \in TxnId
          /\ <<q, 1>> # <<r, 1>> /\ <<q, 2>> # <<r, 1>>
      BY TxnIds
    <3> QED
      BY <1>0, <2>1, <2>2, <2>4, <3>1 DEF Undisturbed, TypeOK
  <2> QED
    BY <2>2, <2>3, <2>4, <2>5 DEF StepOK
<1>2. ASSUME RollBack(r) PROVE StepOK(r)
  <2>1. exists' = exists /\ balance' = balance /\ txn' = txn
    BY <1>2 DEF RollBack, tables
  <2>2. /\ HandlerOK(r)'
        /\ \A q \in Request \ {r} : pc'[q] = pc[q] /\ job'[q] = job[q] /\ seen'[q] = seen[q]
    BY <1>0, <1>2, LeaveOK DEF RollBack, Ended
  <2>3. ASSUME NEW q \in Request \ {r} PROVE Undisturbed(q)
    BY <1>0, <1>2, <2>1, <2>2, ReleaseKeeps DEF RollBack, Undisturbed
  <2> QED
    BY <1>0, <2>1, <2>2, <2>3 DEF StepOK, PendingRowsOK
<1>3. ASSUME UNCHANGED <<tables, locks>>, NEW how \in Ended, Leave(r, how) PROVE StepOK(r)
  <2>1. /\ exists' = exists /\ balance' = balance /\ txn' = txn
        /\ walletLock' = walletLock /\ txnLock' = txnLock
    BY <1>3 DEF tables, locks
  <2>2. /\ HandlerOK(r)'
        /\ \A q \in Request \ {r} : pc'[q] = pc[q] /\ job'[q] = job[q] /\ seen'[q] = seen[q]
    BY <1>0, <1>3, LeaveOK
  <2>3. ASSUME NEW q \in Request \ {r} PROVE Undisturbed(q)
    BY <2>1, <2>2 DEF Undisturbed
  <2> QED
    BY <1>0, <2>1, <2>2, <2>3 DEF StepOK, PendingRowsOK
<1>4. CASE EmitBalance(r) /\ j.op # "adjust"
  <2>1. /\ exists' = exists /\ balance' = balance /\ txn' = txn
        /\ walletLock' = walletLock /\ txnLock' = txnLock /\ job' = job /\ seen' = seen
        /\ pc' = [pc EXCEPT ![r] = "dispatch"]
    BY <1>4 DEF EmitBalance, tables, locks
  <2>2. HandlerOK(r)'
    BY <1>0, <2>1 DEF TypeOK, HandlerOK, JobOK, HoldsLocks, NotYetInserted, ReviewedIsPending,
                      CurrentRead, InTransaction
  <2>3. ASSUME NEW q \in Request \ {r} PROVE Undisturbed(q)
    BY <1>0, <2>1 DEF Undisturbed, TypeOK
  <2> QED
    BY <1>0, <2>1, <2>2, <2>3 DEF StepOK, PendingRowsOK
<1>5. CASE EmitBalance(r) /\ j.op = "adjust"
  BY <1>3, <1>5 DEF EmitBalance, Ended
<1>6. CASE Dispatch(r) \/ CrashAfterCommit(r)
  BY <1>3, <1>6 DEF Dispatch, CrashAfterCommit, Ended
<1> QED
  BY <1>1, <1>2, <1>4, <1>5, <1>6 DEF Refuse, Fault, Abort

\* No handler runs and no row is locked at the start.
LEMMA InitHandlersInv == Init => HandlersInv
<1> SUFFICES ASSUME Init PROVE HandlersInv
  OBVIOUS
<1>1. TypeOK
  BY InitTypeOK
<1>2. PICK old \in [Legacy -> Existing \X Amounts] : txn = InitialRows(old)
  BY DEF Init
<1>3. PendingRowsOK
  <2>1. ASSUME NEW i \in TxnId, i[1] \in Legacy
        PROVE  /\ PendingRow("deposit", old[i[1]][1], old[i[1]][2]).wallet \in exists
               /\ PendingRow("deposit", old[i[1]][1], old[i[1]][2]).type = "deposit"
    BY <2>1 DEF PendingRow, Init
  <2>2. NoRow.status = "absent"
    BY DEF NoRow
  <2> QED
    BY <1>2, <2>1, <2>2 DEF PendingRowsOK, InitialRows
<1>4. ASSUME NEW r \in Request PROVE HandlerOK(r)
  <2>1. pc[r] = "idle" /\ job[r].op = "none"
    BY DEF Init, NoJob
  <2>2. txn[<<r, 1>>] = NoRow /\ txn[<<r, 2>>] = NoRow
    BY <1>2, RowAssumption, TxnIds DEF InitialRows
  <2>3. NoRow.status = "absent"
    BY DEF NoRow
  <2> QED
    BY <2>1, <2>2, <2>3
       DEF HandlerOK, JobOK, HoldsLocks, NotYetInserted, ReviewedIsPending, CurrentRead, Reviews
<1> QED
  BY <1>1, <1>3, <1>4 DEF HandlersInv

\* The invariant is inductive.
LEMMA NextHandlersInv == HandlersInv /\ [Next]_vars => HandlersInv'
<1> SUFFICES ASSUME HandlersInv, [Next]_vars PROVE HandlersInv'
  OBVIOUS
<1>0. TypeOK
  BY DEF HandlersInv
<1>1. ASSUME NEW w \in Wallet, CreateWallet(w) PROVE HandlersInv'
  <2>1. \A q \in Request : Undisturbed(q)
    BY <1>1 DEF CreateWallet, Undisturbed, locks
  <2>2. exists \subseteq exists' /\ txn' = txn
    BY <1>1 DEF CreateWallet
  <2>3. \A q \in Request : HandlerOK(q)'
    BY <2>1, <2>2, UndisturbedOK
  <2> QED
    BY <2>2, <2>3, NextTypeOK DEF HandlersInv, PendingRowsOK
<1>2. ASSUME NEW r \in Request, BeginSome(r) \/ BeginSomeReview(r) PROVE HandlersInv'
  BY <1>2, BeginStep, StepOKSuffices
<1>3. ASSUME NEW r \in Request, Advance(r) PROVE HandlersInv'
  BY <1>3, LockStep, CommitStep, EndStep, StepOKSuffices DEF Advance
<1>4. ASSUME NEW r \in Request, Fault(r) PROVE HandlersInv'
  BY <1>4, EndStep, StepOKSuffices
<1>5. CASE UNCHANGED vars
  <2>1. \A q \in Request : Undisturbed(q)
    BY <1>5 DEF vars, tables, locks, Undisturbed
  <2>2. exists' = exists /\ txn' = txn
    BY <1>5 DEF vars, tables
  <2>3. \A q \in Request : HandlerOK(q)'
    BY <2>1, <2>2, UndisturbedOK
  <2> QED
    BY <2>2, <2>3, NextTypeOK DEF HandlersInv, PendingRowsOK
<1> QED
  BY <1>1, <1>2, <1>3, <1>4, <1>5 DEF Next, AllEnded

\* The inductive invariant of the handlers: whoever computed a balance holds the locks of the wallets it read.
THEOREM HandlersInvariant == Spec => []HandlersInv
BY InitHandlersInv, NextHandlersInv, PTL DEF Spec

\* Type correctness of the money core.
THEOREM TypeCorrect == Spec => []TypeOK
<1>1. HandlersInv => TypeOK
  BY DEF HandlersInv
<1> QED
  BY <1>1, HandlersInvariant, PTL

\* No handler writes a balance computed from a stale read.
THEOREM NoStaleRead == Spec => []ReadIsCurrent
<1>1. HandlersInv => ReadIsCurrent
  BY DEF HandlersInv, HandlerOK, ReadIsCurrent
<1> QED
  BY <1>1, HandlersInvariant, PTL

-----------------------------------------------------------------------------
\* The steps that write the tables; every other step leaves them alone.
Writes(r) ==
    \/ CommitDeposit(r) \/ CommitAdjust(r) \/ CommitApprove(r)
    \/ CommitReject(r) \/ CommitTransfer(r) \/ InsertWithdrawal(r)

\* Only createWallet and the writing steps of handlers change the tables.
LEMMA TableWriters ==
    ASSUME [Next]_vars
    PROVE  \/ \E w \in Wallet : CreateWallet(w)
           \/ \E r \in Request : Writes(r)
           \/ UNCHANGED tables
<1>1. ASSUME NEW r \in Request, BeginSome(r) \/ BeginSomeReview(r) PROVE UNCHANGED tables
  <2>1. \A op, where, fields : Begin(r, op, where, fields) => UNCHANGED tables
    BY DEF Begin
  <2> QED
    BY <1>1, <2>1 DEF BeginSome, BeginSomeReview, BeginDeposit, BeginWithdrawal, BeginAdjust,
                      BeginTransfer, BeginReview
<1>2. ASSUME NEW r \in Request, Advance(r), ~Writes(r) PROVE UNCHANGED tables
  BY <1>2 DEF Advance, Writes, LockTxn, CheckPending, LockFirst, LockSecond, ReadBalances, Refuse,
              EmitBalance, Dispatch, RollBack
<1>3. ASSUME NEW r \in Request, Fault(r) PROVE UNCHANGED tables
  BY <1>3 DEF Fault, Abort, CrashAfterCommit, RollBack
<1>4. CASE UNCHANGED vars
  BY <1>4 DEF vars
<1> QED
  BY <1>1, <1>2, <1>3, <1>4 DEF Next, AllEnded

\* What the committing handler computes is what the atomic step computes.
LEMMA AfterIsCurrent ==
    ASSUME HandlersInv, NEW r \in Request, pc[r] = "commit", job[r].op # "reject", Accepted(r)
    PROVE  /\ seen[r][1] = balance[job[r].wallet]
           /\ job[r].op = "transfer" => seen[r][2] = balance[job[r].to]
           /\ After(r) \in 0 .. MaxInt
           /\ job[r].op = "transfer" => ToAfter(r) \in Int /\ ToAfter(r) <= MaxInt
<1>1. TypeOK /\ CurrentRead(r)
  BY DEF HandlersInv, HandlerOK
<1> QED
  BY <1>1, AfterType DEF CurrentRead, Accepted

-----------------------------------------------------------------------------
(***************************************************************************)
(* Bounds.                                                                 *)
(***************************************************************************)
LEMMA InitInBounds == Init => InBounds
BY RowAssumption DEF Init, InBounds

\* No step takes a balance below zero or above the largest INTEGER.
LEMMA NextInBounds == HandlersInv /\ InBounds /\ [Next]_vars => InBounds'
<1> SUFFICES ASSUME HandlersInv, InBounds, [Next]_vars PROVE InBounds'
  OBVIOUS
<1>0. TypeOK
  BY DEF HandlersInv
<1>1. CASE balance' = balance
  BY <1>1 DEF InBounds
<1>2. ASSUME NEW r \in Request, CommitDeposit(r) \/ CommitAdjust(r) \/ CommitApprove(r)
      PROVE  InBounds'
  <2>1. /\ pc[r] = "commit" /\ job[r].op # "reject" /\ Accepted(r)
        /\ balance' = [balance EXCEPT ![job[r].wallet] = After(r)]
    BY <1>2 DEF CommitDeposit, CommitAdjust, CommitApprove, CommitBalance
  <2>2. After(r) \in 0 .. MaxInt
    BY <2>1, AfterIsCurrent
  <2> QED
    BY <1>0, <2>1, <2>2 DEF InBounds, TypeOK
<1>3. ASSUME NEW r \in Request, CommitTransfer(r) PROVE InBounds'
  <2>1. /\ pc[r] = "commit" /\ job[r].op = "transfer" /\ Accepted(r) /\ JobOK(r)
        /\ balance' = [balance EXCEPT ![job[r].wallet] = After(r), ![job[r].to] = ToAfter(r)]
    BY <1>3 DEF CommitTransfer, HandlersInv, HandlerOK
  <2>2. job[r].to \in Wallet
    BY <1>0, <2>1 DEF JobOK, TypeOK
  <2>3. balance[job[r].to] \in 0 .. MaxInt
    BY <2>2 DEF InBounds
  <2>4. ToAfter(r) \in 0 .. MaxInt
    BY <1>0, <2>1, <2>3, AfterIsCurrent, AfterType, RowAssumption DEF ToAfter
  <2>5. After(r) \in 0 .. MaxInt
    BY <2>1, AfterIsCurrent
  <2> QED
    BY <1>0, <2>1, <2>4, <2>5 DEF InBounds, TypeOK
<1>4. \/ balance' = balance
      \/ \E r \in Request : CommitDeposit(r) \/ CommitAdjust(r) \/ CommitApprove(r) \/ CommitTransfer(r)
  <2>1. ASSUME NEW w \in Wallet, CreateWallet(w) PROVE balance' = balance
    BY <2>1 DEF CreateWallet
  <2>2. ASSUME NEW r \in Request, CommitReject(r) \/ InsertWithdrawal(r) PROVE balance' = balance
    BY <2>2 DEF CommitReject, InsertWithdrawal
  <2>3. CASE UNCHANGED tables
    BY <2>3 DEF tables
  <2> QED
    BY <2>1, <2>2, <2>3, TableWriters DEF Writes
<1> QED
  BY <1>1, <1>2, <1>3, <1>4

-----------------------------------------------------------------------------
(***************************************************************************)
(* Refinement.                                                             *)
(***************************************************************************)
LEMMA RefinesInit == Init => Atomic!Init
BY DEF Init, Atomic!Init, InitialRows, Atomic!InitialRows, TxnId, Atomic!TxnId,
       PendingRow, Atomic!PendingRow, NoRow, Atomic!NoRow, Null, Atomic!Null, NoRate, Atomic!NoRate

\* Every step of a handler is a step of the atomic ledger or leaves it alone.
LEMMA RefinesNext == HandlersInv /\ InBounds /\ [Next]_vars => [Atomic!Next]_(Atomic!ledger)
<1> SUFFICES ASSUME HandlersInv, InBounds, [Next]_vars
             PROVE  Atomic!Next \/ UNCHANGED Atomic!ledger
  OBVIOUS
<1>0. TypeOK
  BY DEF HandlersInv
<1>1. ASSUME NEW w \in Wallet, CreateWallet(w) PROVE Atomic!Next
  BY <1>1 DEF CreateWallet, Atomic!Next, Atomic!Open
<1>2. ASSUME NEW r \in Request, Writes(r) PROVE Atomic!Next
  <2> DEFINE j == job[r]
  <2>0. HandlerOK(r) /\ <<r, 1>> \in TxnId /\ <<r, 2>> \in TxnId
    BY TxnIds DEF HandlersInv
  <2>1. CASE CommitDeposit(r)
    <3>1. /\ pc[r] = "commit" /\ j.op = "deposit" /\ Accepted(r)
          /\ balance' = [balance EXCEPT ![j.wallet] = After(r)]
          /\ settled' = [settled EXCEPT ![j.wallet] = Append(@, <<r, 1>>)]
          /\ exists' = exists
          /\ txn' = [txn EXCEPT ![<<r, 1>>] = SettledRow("deposit", j.wallet, j.amount, seen[r][1], After(r))]
      BY <2>1 DEF CommitDeposit, CommitBalance
    <3>2. After(r) = balance[j.wallet] + j.amount /\ After(r) \in 0 .. MaxInt
          /\ seen[r][1] = balance[j.wallet]
      BY <3>1, AfterIsCurrent DEF After, Debits
    <3>3. j.wallet \in exists /\ j.wallet \in Wallet /\ j.amount \in Amounts
          /\ txn[<<r, 1>>].status = "absent"
      BY <1>0, <2>0, <3>1 DEF HandlerOK, JobOK, NotYetInserted, InTransaction, TypeOK
    <3>4. Atomic!Deposit(<<r, 1>>, j.wallet, j.amount)
      BY <3>1, <3>2, <3>3 DEF Atomic!Deposit, Atomic!Post, SettledRow, Atomic!SettledRow, NoRate, Atomic!NoRate
    <3> QED
      BY <3>3, <3>4 DEF Atomic!Next
  <2>2. CASE CommitAdjust(r)
    <3>1. /\ pc[r] = "commit" /\ j.op = "adjust" /\ Accepted(r)
          /\ balance' = [balance EXCEPT ![j.wallet] = After(r)]
          /\ settled' = [settled EXCEPT ![j.wallet] = Append(@, <<r, 1>>)]
          /\ exists' = exists
          /\ txn' = [txn EXCEPT ![<<r, 1>>] = SettledRow("adjustment", j.wallet, j.amount, seen[r][1], After(r))]
      BY <2>2 DEF CommitAdjust, CommitBalance
    <3>2. After(r) \in {balance[j.wallet] + j.amount, balance[j.wallet] - j.amount}
          /\ After(r) \in 0 .. MaxInt /\ seen[r][1] = balance[j.wallet]
      BY <3>1, AfterIsCurrent DEF After, Debits
    <3>3. j.wallet \in exists /\ j.wallet \in Wallet /\ j.amount \in Amounts
          /\ txn[<<r, 1>>].status = "absent"
      BY <1>0, <2>0, <3>1 DEF HandlerOK, JobOK, NotYetInserted, InTransaction, TypeOK
    <3>4. Atomic!Adjust(<<r, 1>>, j.wallet, j.amount, After(r))
      BY <3>1, <3>2, <3>3 DEF Atomic!Adjust, Atomic!Post, SettledRow, Atomic!SettledRow, NoRate, Atomic!NoRate
    <3> QED
      BY <3>2, <3>3, <3>4 DEF Atomic!Next
  <2>3. CASE CommitApprove(r)
    <3> DEFINE i == j.txn
    <3>1. /\ pc[r] = "commit" /\ j.op = "approve" /\ Accepted(r)
          /\ balance' = [balance EXCEPT ![j.wallet] = After(r)]
          /\ settled' = [settled EXCEPT ![j.wallet] = Append(@, i)]
          /\ exists' = exists
          /\ txn' = [txn EXCEPT ![i].status = "approved", ![i].before = seen[r][1], ![i].after = After(r)]
      BY <2>3 DEF CommitApprove, CommitBalance
    <3>2. i \in TxnId /\ txn[i].status = "pending" /\ txn[i].wallet = j.wallet /\ txn[i].amount = j.amount
      BY <2>0, <3>1 DEF HandlerOK, JobOK, ReviewedIsPending, Reviews
    <3>3. /\ After(r) = IF txn[i].type = "withdrawal" THEN balance[j.wallet] - j.amount
                                                      ELSE balance[j.wallet] + j.amount
          /\ After(r) \in 0 .. MaxInt /\ seen[r][1] = balance[j.wallet]
      BY <3>1, AfterIsCurrent DEF After, Debits
    <3>4. Atomic!Approve(i)
      BY <3>1, <3>2, <3>3 DEF Atomic!Approve, Atomic!Post
    <3> QED
      BY <3>2, <3>4 DEF Atomic!Next, TxnId, Atomic!TxnId
  <2>4. CASE CommitReject(r)
    <3>1. j.txn \in TxnId /\ txn[j.txn].status = "pending"
      BY <2>0, <2>4 DEF CommitReject, HandlerOK, JobOK, ReviewedIsPending, Reviews
    <3>2. Atomic!Reject(j.txn)
      BY <2>4, <3>1 DEF CommitReject, Atomic!Reject
    <3> QED
      BY <3>1, <3>2 DEF Atomic!Next, TxnId, Atomic!TxnId
  <2>5. CASE CommitTransfer(r)
    <3>1. /\ pc[r] = "commit" /\ j.op = "transfer" /\ Accepted(r)
          /\ balance' = [balance EXCEPT ![j.wallet] = After(r), ![j.to] = ToAfter(r)]
          /\ settled' = [settled EXCEPT ![j.wallet] = Append(@, <<r, 1>>), ![j.to] = Append(@, <<r, 2>>)]
          /\ exists' = exists
          /\ txn' = [txn EXCEPT
                ![<<r, 1>>] = TransferRow("transfer_out", j.wallet, j.amount,
                                          seen[r][1], After(r), j.to, j.rate),
                ![<<r, 2>>] = TransferRow("transfer_in", j.to, j.credit,
                                          seen[r][2], ToAfter(r), j.wallet, j.rate)]
      BY <2>5 DEF CommitTransfer
    <3>2. /\ j.wallet \in exists /\ j.to \in exists /\ j.wallet \in Wallet /\ j.to \in Wallet
          /\ j.wallet # j.to /\ j.amount \in Amounts
          /\ txn[<<r, 1>>].status = "absent" /\ txn[<<r, 2>>].status = "absent"
      BY <1>0, <2>0, <3>1 DEF HandlerOK, JobOK, NotYetInserted, InTransaction, TypeOK
    <3>3. PICK rate \in Rates : [rate |-> j.rate, credit |-> j.credit] = Quote(j.wallet, j.to, j.amount, rate)
      BY <2>0, <3>1 DEF HandlerOK, JobOK
    <3>4. /\ j.rate = Quote(j.wallet, j.to, j.amount, rate).rate
          /\ j.credit = Quote(j.wallet, j.to, j.amount, rate).credit
      BY <3>3
    <3>5. /\ After(r) = balance[j.wallet] - j.amount /\ ToAfter(r) = balance[j.to] + j.credit
          /\ After(r) \in 0 .. MaxInt /\ ToAfter(r) \in Int /\ ToAfter(r) <= MaxInt
          /\ seen[r][1] = balance[j.wallet] /\ seen[r][2] = balance[j.to]
      BY <3>1, AfterIsCurrent DEF After, ToAfter, Debits
    <3>6. ToAfter(r) \in 0 .. MaxInt
      <4>1. balance[j.to] \in 0 .. MaxInt /\ j.credit \in Nat
        BY <1>0, <3>2, AfterType DEF InBounds
      <4> QED
        BY <3>5, <4>1, RowAssumption
    <3>7. Atomic!Move(r, j.wallet, j.to, j.amount, rate)
      BY <3>1, <3>2, <3>4, <3>5, <3>6 DEF Atomic!Move, TransferRow, Atomic!TransferRow,
            Quote, Atomic!Quote, ConvertMinorAmount, Atomic!ConvertMinorAmount, HalfEven, Atomic!HalfEven,
            NoRate, Atomic!NoRate
    <3> QED
      BY <3>2, <3>7 DEF Atomic!Next
  <2>6. CASE InsertWithdrawal(r)
    <3>1. j.wallet \in exists /\ j.wallet \in Wallet /\ j.amount \in Amounts
          /\ txn[<<r, 1>>].status = "absent"
      BY <1>0, <2>0, <2>6 DEF InsertWithdrawal, HandlerOK, JobOK, NotYetInserted, InTransaction, TypeOK
    <3>2. Atomic!Ask(<<r, 1>>, j.wallet, j.amount)
      BY <2>6, <3>1 DEF InsertWithdrawal, Atomic!Ask, PendingRow, Atomic!PendingRow,
         Null, Atomic!Null, NoRate, Atomic!NoRate
    <3> QED
      BY <3>1, <3>2 DEF Atomic!Next
  <2> QED
    BY <1>2, <2>1, <2>2, <2>3, <2>4, <2>5, <2>6 DEF Writes
<1>3. CASE UNCHANGED tables
  BY <1>3 DEF tables, Atomic!ledger
<1> QED
  BY <1>1, <1>2, <1>3, TableWriters

\* schema.prisma: "invariant: never < 0".  However handlers interleave, a
\* balance never goes below zero nor past its column.
THEOREM BalancesInBounds == Spec => []InBounds
BY HandlersInvariant, InitInBounds, NextInBounds, PTL DEF Spec

\* The handlers, with their locks, reads and crashes, implement the ledger in
\* which every money movement is one atomic step.
THEOREM LedgerRefinement == Spec => ImplementsAtomicLedger
BY HandlersInvariant, BalancesInBounds, RefinesInit, RefinesNext, PTL
   DEF Spec, ImplementsAtomicLedger, Atomic!Spec

-----------------------------------------------------------------------------
(***************************************************************************)
(* What follows from the atomic steps.                                     *)
(***************************************************************************)
\* Which rows an atomic step writes: those of one action, none of them decided
\* before, and of a pending one only status and balances.
SettleStep ==
    /\ \A i \in TxnId :
          /\ txn[i].status \in Decided => txn'[i] = txn[i]
          /\ txn[i].status = "pending" =>
                /\ txn'[i].status # "absent"
                /\ txn'[i].type = txn[i].type
                /\ txn'[i].wallet = txn[i].wallet
                /\ txn'[i].amount = txn[i].amount
    /\ \A w \in Wallet :
          /\ Len(settled'[w]) >= Len(settled[w])
          /\ \A k \in DOMAIN settled[w] : settled'[w][k] = settled[w][k]

\* Appending keeps what was there.
LEMMA AppendKeeps ==
    ASSUME NEW S, NEW s \in Seq(S), NEW e \in S
    PROVE  /\ Append(s, e) \in Seq(S)
           /\ Len(Append(s, e)) = Len(s) + 1
           /\ \A k \in DOMAIN s : Append(s, e)[k] = s[k] /\ k \in DOMAIN Append(s, e)
           /\ Append(s, e)[Len(s) + 1] = e
           /\ DOMAIN Append(s, e) = DOMAIN s \cup {Len(s) + 1}
           /\ DOMAIN s = 1 .. Len(s) /\ Len(s) \in Nat
OBVIOUS

\* An atomic step changes no decided row and only appends to the settled rows.
LEMMA AtomicSettles ==
    ASSUME TypeOK, PendingRowsOK, [Atomic!Next]_(Atomic!ledger)
    PROVE  SettleStep
<1>0. \A w \in Wallet : settled[w] \in Seq(TxnId)
  BY DEF TypeOK
<1>a. \A r \in Request : <<r, 1>> \in TxnId /\ <<r, 2>> \in TxnId
  BY TxnIds
<1>b. Atomic!TxnId = TxnId
  BY DEF TxnId, Atomic!TxnId
<1>1. CASE UNCHANGED Atomic!ledger
  BY <1>0, <1>1 DEF Atomic!ledger, SettleStep, Decided
<1>2. ASSUME settled' = settled PROVE \A w \in Wallet :
          /\ Len(settled'[w]) >= Len(settled[w])
          /\ \A k \in DOMAIN settled[w] : settled'[w][k] = settled[w][k]
  BY <1>0, <1>2
<1>3. ASSUME NEW w \in Wallet, NEW i \in TxnId, settled' = [settled EXCEPT ![w] = Append(@, i)]
      PROVE \A v \in Wallet :
          /\ Len(settled'[v]) >= Len(settled[v])
          /\ \A k \in DOMAIN settled[v] : settled'[v][k] = settled[v][k]
  BY <1>0, <1>3, AppendKeeps DEF TypeOK
<1>4. ASSUME NEW w \in Wallet, Atomic!Open(w) PROVE SettleStep
  BY <1>2, <1>4 DEF Atomic!Open, SettleStep, Decided
<1>5. ASSUME NEW r \in Request, NEW w \in Wallet, NEW a \in Amounts, Atomic!Ask(<<r, 1>>, w, a)
      PROVE  SettleStep
  BY <1>2, <1>5, <1>a DEF Atomic!Ask, SettleStep, Decided, TypeOK
<1>6. ASSUME NEW r \in Request, NEW w \in Wallet, NEW a \in Amounts, NEW after,
             Atomic!Deposit(<<r, 1>>, w, a) \/ Atomic!Adjust(<<r, 1>>, w, a, after)
      PROVE  SettleStep
  BY <1>3, <1>6, <1>a DEF Atomic!Deposit, Atomic!Adjust, Atomic!Post, SettleStep, Decided, TypeOK
<1>7. ASSUME NEW i \in TxnId, Atomic!Approve(i), txn[i].wallet \in Wallet PROVE SettleStep
  <2>1. txn[i] \in Row /\ txn[i].status = "pending"
    BY <1>7 DEF TypeOK, Atomic!Approve
  <2>2. /\ txn'[i].status = "approved" /\ txn'[i].type = txn[i].type
        /\ txn'[i].wallet = txn[i].wallet /\ txn'[i].amount = txn[i].amount
        /\ \A k \in TxnId : k # i => txn'[k] = txn[k]
    BY <1>7, <2>1 DEF Atomic!Approve, TypeOK, Row
  <2>3. settled' = [settled EXCEPT ![txn[i].wallet] = Append(@, i)]
    BY <1>7 DEF Atomic!Approve, Atomic!Post
  <2> QED
    BY <1>3, <1>7, <2>1, <2>2, <2>3 DEF SettleStep, Decided
<1>8. ASSUME NEW i \in TxnId, Atomic!Reject(i) PROVE SettleStep
  <2>1. txn[i] \in Row /\ txn[i].status = "pending" /\ settled' = settled
    BY <1>8 DEF TypeOK, Atomic!Reject
  <2>2. /\ txn'[i].status = "rejected" /\ txn'[i].type = txn[i].type
        /\ txn'[i].wallet = txn[i].wallet /\ txn'[i].amount = txn[i].amount
        /\ \A k \in TxnId : k # i => txn'[k] = txn[k]
    BY <1>8, <2>1 DEF Atomic!Reject, TypeOK, Row
  <2> QED
    BY <1>2, <2>1, <2>2 DEF SettleStep, Decided
<1>9. ASSUME NEW r \in Request, NEW from \in Wallet, NEW to \in Wallet, NEW a \in Amounts,
             NEW rate \in Rates, Atomic!Move(r, from, to, a, rate)
      PROVE  SettleStep
  <2>1. /\ txn[<<r, 1>>].status = "absent" /\ txn[<<r, 2>>].status = "absent"
        /\ \A k \in TxnId : k \notin {<<r, 1>>, <<r, 2>>} => txn'[k] = txn[k]
        /\ from # to
    BY <1>9, <1>a DEF Atomic!Move, TypeOK
  <2>2. ASSUME NEW v \in Wallet
        PROVE  /\ Len(settled'[v]) >= Len(settled[v])
               /\ \A k \in DOMAIN settled[v] : settled'[v][k] = settled[v][k]
    <3>1. \/ settled'[v] = settled[v]
          \/ settled'[v] = Append(settled[v], <<r, 1>>)
          \/ settled'[v] = Append(settled[v], <<r, 2>>)
      BY <1>9 DEF Atomic!Move, TypeOK
    <3> QED
      <4>1. settled[v] \in Seq(TxnId) /\ Len(settled[v]) \in Nat
        BY <1>0
      <4>2. ASSUME NEW e \in TxnId, settled'[v] = Append(settled[v], e)
            PROVE  /\ Len(settled'[v]) >= Len(settled[v])
                   /\ \A k \in DOMAIN settled[v] : settled'[v][k] = settled[v][k]
        BY <4>1, <4>2, AppendKeeps
      <4>3. CASE settled'[v] = settled[v]
        BY <4>1, <4>3
      <4> QED
        BY <1>a, <3>1, <4>2, <4>3
  <2> QED
    BY <2>1, <2>2 DEF SettleStep, Decided
<1> QED
  <2>1. \A i \in TxnId : Atomic!Approve(i) => txn[i].wallet \in Wallet
    BY DEF Atomic!Approve, PendingRowsOK, TypeOK
  <2> QED
    BY <1>1, <1>4, <1>5, <1>6, <1>7, <1>8, <1>9, <1>b, <2>1 DEF Atomic!Next

\* schema.prisma: "Append-only ledger ... settled exactly once".
THEOREM RowsSettledOnce == Spec => SettledOnce
<1>1. HandlersInv /\ InBounds /\ [Next]_vars => SettleStep
  BY RefinesNext, AtomicSettles DEF HandlersInv
<1>2. SettledOnce <=> [][SettleStep]_vars
  BY PTL DEF SettledOnce, SettleStep
<1> QED
  BY <1>1, <1>2, HandlersInvariant, BalancesInBounds, PTL DEF Spec

-----------------------------------------------------------------------------
(***************************************************************************)
(* The balance chain.                                                      *)
(***************************************************************************)
LEMMA ChainKept ==
    ASSUME TypeOK, SettleStep, NEW w \in Wallet, ChainOK(w),
           settled'[w] = settled[w], balance'[w] = balance[w]
    PROVE  ChainOK(w)'
<1>1. settled[w] \in Seq(TxnId) /\ DOMAIN settled[w] = 1 .. Len(settled[w]) /\ Len(settled[w]) \in Nat
  BY DEF TypeOK
<1>2. \A k \in DOMAIN settled[w] : SettledRowAt(w, k)' = SettledRowAt(w, k)
  BY <1>1 DEF ChainOK, SettledRowAt, SettleStep, Decided
<1>3. \A k \in 1 .. Len(settled[w]) + 1 : StartOf(w, k)' = StartOf(w, k)
  BY <1>1, <1>2 DEF StartOf
<1> QED
  BY <1>1, <1>2, <1>3 DEF ChainOK

\* Settling one more row on the current balance extends the chain of its wallet.
LEMMA ChainExtended ==
    ASSUME TypeOK, SettleStep, NEW w \in Wallet, ChainOK(w), NEW i \in TxnId,
           settled'[w] = Append(settled[w], i),
           txn'[i].status = "approved", txn'[i].wallet = w, txn'[i].before = balance[w],
           MovesByAmount(txn'[i]), balance'[w] = txn'[i].after
    PROVE  ChainOK(w)'
<1>0. PICK n : n = Len(settled[w])
  OBVIOUS
<1>1. settled[w] \in Seq(TxnId) /\ DOMAIN settled[w] = 1 .. n /\ n \in Nat
  BY <1>0 DEF TypeOK
<1>2. /\ DOMAIN settled'[w] = 1 .. n + 1 /\ Len(settled'[w]) = n + 1
      /\ settled'[w][n + 1] = i
      /\ \A k \in 1 .. n : settled'[w][k] = settled[w][k]
  BY <1>0, <1>1, AppendKeeps
<1>3. \A k \in 1 .. n : SettledRowAt(w, k)' = SettledRowAt(w, k)
  <2>1. \A k \in 1 .. n : settled[w][k] \in TxnId /\ txn[settled[w][k]].status \in Decided
    BY <1>1 DEF ChainOK, SettledRowAt, Decided
  <2>2. \A k \in 1 .. n : txn'[settled[w][k]] = txn[settled[w][k]]
    BY <2>1 DEF SettleStep
  <2> QED
    BY <1>2, <2>2 DEF SettledRowAt
<1>4. SettledRowAt(w, n + 1)' = txn'[i]
  BY <1>2 DEF SettledRowAt
<1>5. \A k \in 1 .. n + 1 : StartOf(w, k)' = StartOf(w, k)
  BY <1>1, <1>3 DEF StartOf
<1>6. StartOf(w, n + 2)' = txn'[i].after
  BY <1>1, <1>4 DEF StartOf
<1>7. StartOf(w, n + 1) = balance[w]
  BY <1>0 DEF ChainOK
<1>8. ASSUME NEW k \in DOMAIN settled'[w]
      PROVE  /\ SettledRowAt(w, k)'.status = "approved"
             /\ SettledRowAt(w, k)'.wallet = w
             /\ SettledRowAt(w, k)'.before = StartOf(w, k)'
             /\ MovesByAmount(SettledRowAt(w, k)')
  <2>1. CASE k \in 1 .. n
    BY <1>1, <1>3, <1>5, <2>1 DEF ChainOK
  <2>2. CASE k = n + 1
    BY <1>4, <1>5, <1>7, <1>1, <2>2
  <2> QED
    BY <1>1, <1>2, <1>8, <2>1, <2>2
<1> QED
  BY <1>1, <1>2, <1>6, <1>8 DEF ChainOK, MovesByAmount

\* One wallet posts row i and no other wallet moves.
LEMMA ChainPosted ==
    ASSUME TypeOK, SettleStep, BalanceChain, NEW w \in Wallet, NEW i \in TxnId, NEW after,
           Atomic!Post(i, w, after),
           txn'[i].status = "approved", txn'[i].wallet = w, txn'[i].before = balance[w],
           MovesByAmount(txn'[i]), txn'[i].after = after
    PROVE  BalanceChain'
<1>1. /\ settled'[w] = Append(settled[w], i) /\ balance'[w] = after
      /\ \A v \in Wallet \ {w} : settled'[v] = settled[v] /\ balance'[v] = balance[v]
  BY DEF Atomic!Post, TypeOK
<1>2. ASSUME NEW v \in Wallet PROVE ChainOK(v)'
  <2>1. ChainOK(v)
    BY DEF BalanceChain
  <2>2. CASE v = w
    BY <1>1, <2>1, <2>2, ChainExtended
  <2>3. CASE v # w
    BY <1>1, <2>1, <2>3, ChainKept
  <2> QED
    BY <2>2, <2>3
<1> QED
  BY <1>2 DEF BalanceChain

\* An atomic step keeps the chain of every wallet.
LEMMA AtomicChain ==
    ASSUME TypeOK, PendingRowsOK, BalanceChain, [Atomic!Next]_(Atomic!ledger)
    PROVE  BalanceChain'
<1>0. SettleStep
  BY AtomicSettles
<1>a. \A r \in Request : <<r, 1>> \in TxnId /\ <<r, 2>> \in TxnId
  BY TxnIds
<1>b. Atomic!TxnId = TxnId
  BY DEF TxnId, Atomic!TxnId
<1>1. ASSUME settled' = settled, balance' = balance PROVE BalanceChain'
  BY <1>0, <1>1, ChainKept DEF BalanceChain
<1>2. CASE UNCHANGED Atomic!ledger
  BY <1>1, <1>2 DEF Atomic!ledger
<1>3. ASSUME NEW w \in Wallet, Atomic!Open(w) PROVE BalanceChain'
  BY <1>1, <1>3 DEF Atomic!Open
<1>4. ASSUME NEW r \in Request, NEW w \in Wallet, NEW a \in Amounts, Atomic!Ask(<<r, 1>>, w, a)
      PROVE  BalanceChain'
  BY <1>1, <1>4 DEF Atomic!Ask
<1>5. ASSUME NEW i \in TxnId, Atomic!Reject(i) PROVE BalanceChain'
  BY <1>1, <1>5 DEF Atomic!Reject
<1>6. ASSUME NEW r \in Request, NEW w \in Wallet, NEW a \in Amounts, Atomic!Deposit(<<r, 1>>, w, a)
      PROVE  BalanceChain'
  <2>1. /\ Atomic!Post(<<r, 1>>, w, balance[w] + a)
        /\ txn'[<<r, 1>>] = Atomic!SettledRow("deposit", w, a, balance[w], balance[w] + a)
    BY <1>6, <1>a DEF Atomic!Deposit, TypeOK
  <2>2. /\ txn'[<<r, 1>>].status = "approved" /\ txn'[<<r, 1>>].wallet = w
        /\ txn'[<<r, 1>>].before = balance[w] /\ txn'[<<r, 1>>].after = balance[w] + a
        /\ txn'[<<r, 1>>].type = "deposit" /\ txn'[<<r, 1>>].amount = a
    BY <2>1 DEF Atomic!SettledRow
  <2>3. MovesByAmount(txn'[<<r, 1>>])
    BY <2>2 DEF MovesByAmount
  <2> QED
    BY <1>0, <1>a, <2>1, <2>2, <2>3, ChainPosted
<1>7. ASSUME NEW r \in Request, NEW w \in Wallet, NEW a \in Amounts, NEW after,
             Atomic!Adjust(<<r, 1>>, w, a, after)
      PROVE  BalanceChain'
  <2>1. /\ Atomic!Post(<<r, 1>>, w, after)
        /\ txn'[<<r, 1>>] = Atomic!SettledRow("adjustment", w, a, balance[w], after)
        /\ after \in {balance[w] + a, balance[w] - a}
    BY <1>7, <1>a DEF Atomic!Adjust, TypeOK
  <2>2. /\ txn'[<<r, 1>>].status = "approved" /\ txn'[<<r, 1>>].wallet = w
        /\ txn'[<<r, 1>>].before = balance[w] /\ txn'[<<r, 1>>].after = after
        /\ txn'[<<r, 1>>].type = "adjustment" /\ txn'[<<r, 1>>].amount = a
    BY <2>1 DEF Atomic!SettledRow
  <2>3. MovesByAmount(txn'[<<r, 1>>])
    BY <2>1, <2>2 DEF MovesByAmount
  <2> QED
    BY <1>0, <1>a, <2>1, <2>2, <2>3, ChainPosted
<1>8. ASSUME NEW i \in TxnId, Atomic!Approve(i) PROVE BalanceChain'
  <2> DEFINE t == txn[i]
             after == IF t.type = "withdrawal" THEN balance[t.wallet] - t.amount
                                               ELSE balance[t.wallet] + t.amount
  <2>1. t \in Row /\ t.status = "pending" /\ t.wallet \in Wallet /\ t.type \in {"deposit", "withdrawal"}
    BY <1>8 DEF Atomic!Approve, TypeOK, PendingRowsOK
  <2>2. Atomic!Post(i, t.wallet, after)
    BY <1>8 DEF Atomic!Approve
  <2>3. /\ txn'[i].status = "approved" /\ txn'[i].wallet = t.wallet /\ txn'[i].type = t.type
        /\ txn'[i].amount = t.amount /\ txn'[i].before = balance[t.wallet] /\ txn'[i].after = after
    BY <1>8, <2>1 DEF Atomic!Approve, TypeOK, Row
  <2>4. MovesByAmount(txn'[i])
    BY <2>1, <2>3 DEF MovesByAmount
  <2> QED
    BY <1>0, <2>1, <2>2, <2>3, <2>4, ChainPosted
<1>9. ASSUME NEW r \in Request, NEW from \in Wallet, NEW to \in Wallet, NEW a \in Amounts,
             NEW rate \in Rates, Atomic!Move(r, from, to, a, rate)
      PROVE  BalanceChain'
  <2> DEFINE q == Atomic!Quote(from, to, a, rate)
  <2> HIDE DEF q
  <2>1. /\ from # to
        /\ settled'[from] = Append(settled[from], <<r, 1>>)
        /\ settled'[to] = Append(settled[to], <<r, 2>>)
        /\ balance'[from] = balance[from] - a
        /\ balance'[to] = balance[to] + q.credit
        /\ \A v \in Wallet \ {from, to} : settled'[v] = settled[v] /\ balance'[v] = balance[v]
    BY <1>9 DEF Atomic!Move, TypeOK, q
  <2>2. /\ txn'[<<r, 1>>] = Atomic!TransferRow("transfer_out", from, a, balance[from],
                                              balance[from] - a, to, q.rate)
        /\ txn'[<<r, 2>>] = Atomic!TransferRow("transfer_in", to, q.credit, balance[to],
                                              balance[to] + q.credit, from, q.rate)
    BY <1>9, <1>a DEF Atomic!Move, TypeOK, q
  <2>3. /\ txn'[<<r, 1>>].status = "approved" /\ txn'[<<r, 1>>].wallet = from
        /\ txn'[<<r, 1>>].before = balance[from] /\ txn'[<<r, 1>>].after = balance[from] - a
        /\ MovesByAmount(txn'[<<r, 1>>])
    BY <2>2 DEF Atomic!TransferRow, MovesByAmount
  <2>4. /\ txn'[<<r, 2>>].status = "approved" /\ txn'[<<r, 2>>].wallet = to
        /\ txn'[<<r, 2>>].before = balance[to] /\ txn'[<<r, 2>>].after = balance[to] + q.credit
        /\ MovesByAmount(txn'[<<r, 2>>])
    BY <2>2 DEF Atomic!TransferRow, MovesByAmount
  <2>5. ASSUME NEW v \in Wallet PROVE ChainOK(v)'
    <3>1. ChainOK(v)
      BY DEF BalanceChain
    <3>2. CASE v = from
      BY <1>0, <1>a, <2>1, <2>3, <3>1, <3>2, ChainExtended
    <3>3. CASE v = to
      BY <1>0, <1>a, <2>1, <2>4, <3>1, <3>3, ChainExtended
    <3>4. CASE v \notin {from, to}
      BY <1>0, <2>1, <3>1, <3>4, ChainKept
    <3> QED
      BY <3>2, <3>3, <3>4
  <2> QED
    BY <2>5 DEF BalanceChain
<1> QED
  BY <1>2, <1>3, <1>4, <1>5, <1>6, <1>7, <1>8, <1>9, <1>b DEF Atomic!Next

\* Before the first movement every chain is empty and the balance is the opening one.
LEMMA InitChain == Init => BalanceChain
<1> SUFFICES ASSUME Init, NEW w \in Wallet PROVE ChainOK(w)
  BY DEF BalanceChain
<1>1. settled[w] = <<>> /\ balance[w] = Opening[w]
  BY DEF Init
<1>2. DOMAIN settled[w] = {} /\ Len(settled[w]) = 0
  BY <1>1
<1> QED
  BY <1>1, <1>2 DEF ChainOK, StartOf

\* The settled rows of every wallet chain from its opening balance to its
\* balance: the ledger explains the money.
THEOREM LedgerExplainsBalance == Spec => []BalanceChain
<1>1. HandlersInv /\ InBounds /\ BalanceChain /\ [Next]_vars => BalanceChain'
  BY RefinesNext, AtomicChain DEF HandlersInv
<1> QED
  BY <1>1, InitChain, HandlersInvariant, BalancesInBounds, PTL DEF Spec

-----------------------------------------------------------------------------
(***************************************************************************)
(* Conservation.  A settled row moves its wallet by what Moved says of it, *)
(* and a pending row names no other wallet, so every step adds the same to *)
(* the balances of a currency as to its external rows.                     *)
(***************************************************************************)
Currencies == {Currency[w] : w \in Wallet}

Gained(c) == SumFunctionOnSet([w \in Wallet |-> balance[w] - Opening[w]], WalletsIn(c))
Entered(c) == SumFunctionOnSet([i \in TxnId |-> Moved(i)], External(c))

Conserved(c) == IsFiniteSet(External(c)) /\ Gained(c) = Entered(c)

PendingUnpaired == \A i \in TxnId : txn[i].status = "pending" => txn[i].peer = 0

MoneyInv == PendingUnpaired /\ \A c \in Currencies : Conserved(c)

LEMMA MovedInt ==
    ASSUME TypeOK, NEW i \in TxnId
    PROVE  Moved(i) \in Int
<1>1. txn[i] \in Row
  BY DEF TypeOK
<1>2. txn[i].amount \in Int
  BY <1>1 DEF Row
<1> QED
  BY <1>2 DEF Moved

LEMMA GainedInt ==
    ASSUME TypeOK, NEW w \in Wallet
    PROVE  balance[w] - Opening[w] \in Int
BY RowAssumption DEF TypeOK

\* No wallet of the currency moves, and no external row appears.
LEMMA ConservedKept ==
    ASSUME TypeOK, IsFiniteSet(Wallet), NEW c, Conserved(c),
           \A w \in WalletsIn(c) : balance'[w] = balance[w],
           External(c)' = External(c), \A i \in External(c) : txn'[i] = txn[i]
    PROVE  Conserved(c)'
<1> DEFINE f == [w \in Wallet |-> balance[w] - Opening[w]]
           g == [w \in Wallet |-> balance'[w] - Opening[w]]
           m == [i \in TxnId |-> Moved(i)]
           n == [i \in TxnId |-> Moved(i)']
<1>1. IsFiniteSet(WalletsIn(c)) /\ WalletsIn(c) \subseteq Wallet
  BY FS_Subset DEF WalletsIn
<1>2. \A w \in WalletsIn(c) : f[w] = g[w]
  BY <1>1
<1>3. \A i \in External(c) : m[i] = n[i]
  BY DEF External, Moved
<1> HIDE DEF f, g, m, n
<1>4. SumFunctionOnSet(f, WalletsIn(c)) = SumFunctionOnSet(g, WalletsIn(c))
  BY <1>1, <1>2, SumSame
<1>5. SumFunctionOnSet(m, External(c)) = SumFunctionOnSet(n, External(c))
  BY <1>3, SumSame DEF Conserved
<1>6. Gained(c)' = SumFunctionOnSet(g, WalletsIn(c)) /\ Gained(c) = SumFunctionOnSet(f, WalletsIn(c))
  BY DEF Gained, f, g, WalletsIn
<1>7. Entered(c)' = SumFunctionOnSet(n, External(c)') /\ Entered(c) = SumFunctionOnSet(m, External(c))
  BY DEF Entered, m, n
<1> QED
  BY <1>4, <1>5, <1>6, <1>7 DEF Conserved

\* One wallet of the currency moves by an external row.
LEMMA ConservedPosted ==
    ASSUME TypeOK, TypeOK', IsFiniteSet(Wallet), NEW c, Conserved(c),
           NEW w \in WalletsIn(c), NEW i \in TxnId, i \notin External(c),
           \A v \in WalletsIn(c) \ {w} : balance'[v] = balance[v],
           External(c)' = External(c) \cup {i}, \A x \in External(c) : txn'[x] = txn[x],
           Moved(i)' = balance'[w] - balance[w]
    PROVE  Conserved(c)'
<1> DEFINE f == [v \in Wallet |-> balance[v] - Opening[v]]
           g == [v \in Wallet |-> balance'[v] - Opening[v]]
           m == [x \in TxnId |-> Moved(x)]
           n == [x \in TxnId |-> Moved(x)']
<1>1. IsFiniteSet(WalletsIn(c)) /\ WalletsIn(c) \subseteq Wallet
  BY FS_Subset DEF WalletsIn
<1>2. \A v \in Wallet : f[v] \in Int /\ g[v] \in Int
  BY RowAssumption DEF TypeOK
<1>3. \A v \in WalletsIn(c) \ {w} : g[v] = f[v]
  BY <1>1
<1>4. External(c) \subseteq TxnId
  BY DEF External
<1>5. \A x \in External(c) : m[x] \in Int /\ m[x] = n[x]
  BY <1>4, MovedInt DEF Moved
<1>6. n[i] = g[w] - f[w] /\ n[i] \in Int
  <2>1. w \in Wallet
    BY <1>1
  <2>2. balance[w] \in Int /\ balance'[w] \in Int /\ Opening[w] \in Int
    BY <2>1, RowAssumption DEF TypeOK
  <2>3. n[i] = balance'[w] - balance[w]
    OBVIOUS
  <2>4. f[w] = balance[w] - Opening[w] /\ g[w] = balance'[w] - Opening[w]
    BY <2>1
  <2> HIDE DEF f, g, n
  <2>5. \A p, q, o \in Int : (q - o) - (p - o) = q - p /\ q - p \in Int
    OBVIOUS
  <2> QED
    BY <2>2, <2>3, <2>4, <2>5
<1> HIDE DEF f, g, m, n
<1>7. /\ SumFunctionOnSet(f, WalletsIn(c)) \in Int
      /\ SumFunctionOnSet(g, WalletsIn(c)) = SumFunctionOnSet(f, WalletsIn(c)) + (g[w] - f[w])
  <2>1. (\A x \in WalletsIn(c) : f[x] \in Int) /\ g[w] \in Int
    BY <1>1, <1>2
  <2> QED
    BY <1>1, <1>3, <2>1, SumChange
<1>8. /\ IsFiniteSet(External(c) \cup {i})
      /\ SumFunctionOnSet(m, External(c)) \in Int
      /\ SumFunctionOnSet(n, External(c) \cup {i}) = SumFunctionOnSet(m, External(c)) + n[i]
  <2>1. PICK E, T : E = External(c) /\ T = E \cup {i}
    OBVIOUS
  <2>2. IsFiniteSet(E) /\ i \notin E /\ i \in T /\ T = E \cup {i}
    BY <2>1 DEF Conserved
  <2>3. OneMore(E, T, i, m, n)
    BY <1>5, <1>6, <2>1, <2>2 DEF OneMore
  <2>4. /\ IsFiniteSet(T)
        /\ SumFunctionOnSet(m, E) \in Int
        /\ SumFunctionOnSet(n, T) = SumFunctionOnSet(m, E) + n[i]
    BY <2>3, SumInsert
  <2> QED
    BY <2>1, <2>4
<1>9. Gained(c)' = SumFunctionOnSet(g, WalletsIn(c)) /\ Gained(c) = SumFunctionOnSet(f, WalletsIn(c))
  BY DEF Gained, f, g, WalletsIn
<1>10. Entered(c)' = SumFunctionOnSet(n, External(c) \cup {i}) /\ Entered(c) = SumFunctionOnSet(m, External(c))
  BY DEF Entered, m, n
<1>11. Gained(c)' = Entered(c)'
  BY <1>6, <1>7, <1>8, <1>9, <1>10 DEF Conserved
<1> QED
  BY <1>8, <1>11 DEF Conserved

\* A transfer within the currency: one wallet loses what the other gains.
LEMMA ConservedWithin ==
    ASSUME TypeOK, TypeOK', IsFiniteSet(Wallet), NEW c, Conserved(c),
           NEW w \in WalletsIn(c), NEW v \in WalletsIn(c), w # v, NEW a \in Int,
           balance'[w] = balance[w] - a, balance'[v] = balance[v] + a,
           \A x \in WalletsIn(c) \ {w, v} : balance'[x] = balance[x],
           External(c)' = External(c), \A i \in External(c) : txn'[i] = txn[i]
    PROVE  Conserved(c)'
<1> DEFINE f == [x \in Wallet |-> balance[x] - Opening[x]]
           h == [f EXCEPT ![w] = @ - a]
           g == [x \in Wallet |-> balance'[x] - Opening[x]]
           m == [i \in TxnId |-> Moved(i)]
           n == [i \in TxnId |-> Moved(i)']
<1>1. IsFiniteSet(WalletsIn(c)) /\ WalletsIn(c) \subseteq Wallet
  BY FS_Subset DEF WalletsIn
<1>a. w \in Wallet /\ v \in Wallet
  BY <1>1
<1>b. \A x \in Wallet : balance[x] \in Int /\ balance'[x] \in Int /\ Opening[x] \in Int
  BY RowAssumption DEF TypeOK
<1>c. \A x \in Wallet : f[x] = balance[x] - Opening[x] /\ g[x] = balance'[x] - Opening[x]
  OBVIOUS
<1>d. h[w] = f[w] - a /\ \A x \in Wallet \ {w} : h[x] = f[x]
  BY <1>a
<1>e. \A p, q \in Int : (p - q) \in Int /\ (p + a) - q - (p - q) = a /\ (p - q) - a = (p - a) - q
                       /\ ((p - q) - a) - (p - q) = 0 - a /\ (p - q) - a \in Int
  OBVIOUS
<1>6. \A i \in External(c) : m[i] = n[i]
  BY DEF External, Moved
<1> HIDE DEF f, g, h, m, n
<1>2. \A x \in Wallet : f[x] \in Int /\ h[x] \in Int /\ g[x] \in Int
  BY <1>a, <1>b, <1>c, <1>d, <1>e
<1>3. /\ \A x \in WalletsIn(c) \ {w} : h[x] = f[x]
      /\ h[w] - f[w] = 0 - a
  BY <1>1, <1>a, <1>b, <1>c, <1>d, <1>e
<1>4. \A x \in WalletsIn(c) \ {v} : g[x] = h[x]
  <2>1. ASSUME NEW x \in WalletsIn(c) \ {v} PROVE g[x] = h[x]
    <3>1. CASE x = w
      <4>1. g[x] = balance[w] - a - Opening[w] /\ h[x] = balance[w] - Opening[w] - a
        BY <1>a, <1>c, <1>d, <3>1
      <4>2. balance[w] \in Int /\ Opening[w] \in Int
        BY <1>a, <1>b
      <4> QED
        BY <1>e, <4>1, <4>2
    <3>2. CASE x # w
      BY <1>1, <1>b, <1>c, <1>d, <3>2
    <3> QED
      BY <3>1, <3>2
  <2> QED
    BY <2>1
<1>5. g[v] - h[v] = a
  BY <1>a, <1>b, <1>c, <1>d, <1>e
<1>7. /\ SumFunctionOnSet(f, WalletsIn(c)) \in Int
      /\ SumFunctionOnSet(h, WalletsIn(c)) = SumFunctionOnSet(f, WalletsIn(c)) + (h[w] - f[w])
  <2>1. (\A x \in WalletsIn(c) : f[x] \in Int) /\ h[w] \in Int
    BY <1>1, <1>2
  <2> QED
    BY <1>1, <1>3, <2>1, SumChange
<1>8. /\ SumFunctionOnSet(h, WalletsIn(c)) \in Int
      /\ SumFunctionOnSet(g, WalletsIn(c)) = SumFunctionOnSet(h, WalletsIn(c)) + (g[v] - h[v])
  <2>1. (\A x \in WalletsIn(c) : h[x] \in Int) /\ g[v] \in Int
    BY <1>1, <1>2
  <2> QED
    BY <1>1, <1>4, <2>1, SumChange
<1>9. SumFunctionOnSet(g, WalletsIn(c)) = SumFunctionOnSet(f, WalletsIn(c))
  BY <1>3, <1>5, <1>7, <1>8
<1>10. SumFunctionOnSet(m, External(c)) = SumFunctionOnSet(n, External(c))
  BY <1>6, SumSame DEF Conserved
<1>11. Gained(c)' = SumFunctionOnSet(g, WalletsIn(c)) /\ Gained(c) = SumFunctionOnSet(f, WalletsIn(c))
  BY DEF Gained, f, g, WalletsIn
<1>12. Entered(c)' = SumFunctionOnSet(n, External(c)') /\ Entered(c) = SumFunctionOnSet(m, External(c))
  BY DEF Entered, m, n
<1> QED
  BY <1>9, <1>10, <1>11, <1>12 DEF Conserved

\* The step moves no wallet of S; but for row i, it writes at most the rows D,
\* which are not external rows of c, before or after.
Still(S) == \A v \in S : balance'[v] = balance[v]
WritesAside(c, D) ==
    /\ \A x \in TxnId \ D : txn'[x] = txn[x]
    /\ \A x \in D : x \notin External(c) /\ x \notin External(c)'
WritesBeside(c, D, i) ==
    /\ \A x \in TxnId \ D : x # i => txn'[x] = txn[x]
    /\ \A x \in D : x \notin External(c) /\ x \notin External(c)'

\* A step that settles no external row of the currency and leaves its wallets
\* alone.
LEMMA ConservedAside ==
    ASSUME TypeOK, IsFiniteSet(Wallet), NEW c, Conserved(c),
           Still(WalletsIn(c)), NEW D, WritesAside(c, D)
    PROVE  Conserved(c)'
<1>1. External(c)' = External(c)
  BY DEF External, WalletsIn, WritesAside
<1>2. \A i \in External(c) : txn'[i] = txn[i]
  BY DEF External, WritesAside
<1>3. \A w \in WalletsIn(c) : balance'[w] = balance[w]
  BY DEF Still
<1> QED
  BY <1>1, <1>2, <1>3, ConservedKept

\* A step that moves one wallet of the currency by row i, an external one.
LEMMA ConservedByRow ==
    ASSUME TypeOK, TypeOK', IsFiniteSet(Wallet), NEW c, Conserved(c),
           NEW w \in WalletsIn(c), NEW i \in TxnId, i \notin External(c), i \in External(c)',
           Still(WalletsIn(c) \ {w}), NEW D, WritesBeside(c, D, i),
           Moved(i)' = balance'[w] - balance[w]
    PROVE  Conserved(c)'
<1>1. External(c)' = External(c) \cup {i}
  BY DEF External, WalletsIn, WritesBeside
<1>2. \A x \in External(c) : txn'[x] = txn[x]
  BY DEF External, WritesBeside
<1>3. \A v \in WalletsIn(c) \ {w} : balance'[v] = balance[v]
  BY DEF Still
<1> QED
  BY <1>1, <1>2, <1>3, ConservedPosted

\* A row moves its wallet by the difference of the balances it carries.
LEMMA MovedIs ==
    ASSUME NEW i \in TxnId, txn'[i].amount \in Nat, NEW b \in Int, NEW a \in Int,
           txn'[i].before = b, txn'[i].after = a,
           a \in {b + txn'[i].amount, b - txn'[i].amount}
    PROVE  Moved(i)' = a - b
<1>1. PICK n \in Nat : n = txn'[i].amount
  OBVIOUS
<1>2. Moved(i)' = IF a < b THEN 0 - n ELSE n
  BY <1>1 DEF Moved
<1>3. CASE a = b + n
  BY <1>2, <1>3
<1>4. CASE a = b - n
  BY <1>2, <1>4
<1> QED
  BY <1>1, <1>3, <1>4

\* No balance moves, and row i is settled neither before nor after.
LEMMA MoneyAside ==
    ASSUME TypeOK, IsFiniteSet(Wallet), MoneyInv, balance' = balance,
           NEW i \in TxnId, \A x \in TxnId \ {i} : txn'[x] = txn[x],
           txn[i].status # "approved", txn'[i].status # "approved",
           txn'[i].status = "pending" => txn'[i].peer = 0
    PROVE  MoneyInv'
<1>1. PendingUnpaired'
  BY DEF MoneyInv, PendingUnpaired
<1>2. ASSUME NEW c \in Currencies PROVE Conserved(c)'
  <2>1. Conserved(c)
    BY DEF MoneyInv
  <2>2. Still(WalletsIn(c)) /\ WritesAside(c, {i})
    BY DEF Still, WritesAside, External, WalletsIn
  <2> QED
    BY <2>1, <2>2, ConservedAside
<1> QED
  BY <1>1, <1>2 DEF MoneyInv, Currencies

\* One wallet moves by row i, which names no other wallet.
LEMMA MoneyPosted ==
    ASSUME TypeOK, TypeOK', IsFiniteSet(Wallet), MoneyInv, NEW w \in Wallet,
           NEW i \in TxnId, \A x \in TxnId \ {i} : txn'[x] = txn[x],
           \A v \in Wallet \ {w} : balance'[v] = balance[v],
           txn[i].status # "approved", txn'[i].status = "approved",
           txn'[i].wallet = w, txn'[i].peer = 0,
           txn'[i].before = balance[w], txn'[i].after = balance'[w],
           balance'[w] \in {balance[w] + txn'[i].amount, balance[w] - txn'[i].amount}
    PROVE  MoneyInv'
<1>1. PendingUnpaired'
  BY DEF MoneyInv, PendingUnpaired
<1>2. Moved(i)' = balance'[w] - balance[w]
  <2>1. txn'[i] \in Row
    BY DEF TypeOK, TxnId
  <2>2. txn'[i].amount \in Nat
    BY <2>1 DEF Row
  <2>3. PICK b \in Int, a \in Int : b = balance[w] /\ a = balance'[w]
    BY DEF TypeOK
  <2>4. txn'[i].before = b /\ txn'[i].after = a /\ a \in {b + txn'[i].amount, b - txn'[i].amount}
    BY <2>3
  <2>5. Moved(i)' = a - b
    BY <2>2, <2>4, MovedIs
  <2> QED
    BY <2>3, <2>5
<1>3. ASSUME NEW c \in Currencies PROVE Conserved(c)'
  <2>1. Conserved(c)
    BY DEF MoneyInv
  <2>2. i \notin External(c)
    BY DEF External
  <2>3. CASE Currency[w] = c
    <3>1. w \in WalletsIn(c)
      BY <2>3 DEF WalletsIn
    <3>2. i \in External(c)'
      BY <3>1, RowAssumption DEF External, WalletsIn
    <3>3. Still(WalletsIn(c) \ {w}) /\ WritesBeside(c, {}, i)
      BY DEF WalletsIn, Still, WritesBeside
    <3> QED
      BY <1>2, <2>1, <2>2, <3>1, <3>2, <3>3, ConservedByRow
  <2>4. CASE Currency[w] # c
    <3>1. Still(WalletsIn(c))
      BY <2>4 DEF WalletsIn, Still
    <3>2. WritesAside(c, {i})
      BY <2>2, <2>4 DEF External, WalletsIn, WritesAside
    <3> QED
      BY <2>1, <3>1, <3>2, ConservedAside
  <2> QED
    BY <2>3, <2>4
<1> QED
  BY <1>1, <1>3 DEF MoneyInv, Currencies

\* A transfer within a currency moves one of its wallets as much as the other,
\* and an exchanged one is an external row in each of two currencies.
LEMMA MoneyMoved ==
    ASSUME TypeOK, TypeOK', PendingRowsOK, IsFiniteSet(Wallet), MoneyInv,
           NEW r \in Request, NEW from \in Wallet, NEW to \in Wallet, NEW a \in Amounts,
           NEW rate \in Rates, Atomic!Move(r, from, to, a, rate)
    PROVE  MoneyInv'
<1> DEFINE q == Atomic!Quote(from, to, a, rate)
           legs == {<<r, 1>>, <<r, 2>>}
<1>a. <<r, 1>> \in TxnId /\ <<r, 2>> \in TxnId /\ Atomic!TxnId = TxnId
  BY TxnIds DEF TxnId, Atomic!TxnId
<1>b. a \in Nat /\ q.credit \in Nat /\ (Currency[from] = Currency[to] => q.credit = a)
  <2>1. a \in Nat /\ rate \in (Nat \ {0}) \X (Nat \ {0})
    BY RowAssumption
  <2>2. ConvertMinorAmount(a, rate) \in Nat
    BY <2>1, ConvertMinorNat
  <2> QED
    BY <2>1, <2>2 DEF Atomic!Quote, Atomic!ConvertMinorAmount, ConvertMinorAmount,
                      Atomic!HalfEven, HalfEven
<1> HIDE DEF q
<1>1. /\ from # to
      /\ txn[<<r, 1>>].status = "absent" /\ txn[<<r, 2>>].status = "absent"
      /\ balance'[from] = balance[from] - a
      /\ balance'[to] = balance[to] + q.credit
      /\ \A v \in Wallet \ {from, to} : balance'[v] = balance[v]
  BY DEF Atomic!Move, TypeOK, q
<1>2. /\ txn'[<<r, 1>>] = Atomic!TransferRow("transfer_out", from, a, balance[from],
                                            balance[from] - a, to, q.rate)
      /\ txn'[<<r, 2>>] = Atomic!TransferRow("transfer_in", to, q.credit, balance[to],
                                            balance[to] + q.credit, from, q.rate)
      /\ \A x \in TxnId \ legs : txn'[x] = txn[x]
  BY <1>a DEF Atomic!Move, TypeOK, q
<1>3. /\ txn'[<<r, 1>>].status = "approved" /\ txn'[<<r, 1>>].wallet = from
      /\ txn'[<<r, 1>>].peer = to /\ txn'[<<r, 1>>].amount = a
      /\ txn'[<<r, 1>>].before = balance[from] /\ txn'[<<r, 1>>].after = balance[from] - a
      /\ txn'[<<r, 2>>].status = "approved" /\ txn'[<<r, 2>>].wallet = to
      /\ txn'[<<r, 2>>].peer = from /\ txn'[<<r, 2>>].amount = q.credit
      /\ txn'[<<r, 2>>].before = balance[to] /\ txn'[<<r, 2>>].after = balance[to] + q.credit
  BY <1>2 DEF Atomic!TransferRow
<1>4. PendingUnpaired'
  BY <1>2, <1>3 DEF MoneyInv, PendingUnpaired
<1>5. Moved(<<r, 1>>)' = balance'[from] - balance[from]
  <2>a. PICK b \in Int : b = balance[from]
    BY DEF TypeOK
  <2>1. PICK e \in Int : b = balance[from] /\ e = b - a
    BY <1>b, <2>a
  <2>2. Moved(<<r, 1>>)' = e - b
    <3>1. /\ txn'[<<r, 1>>].amount \in Nat /\ txn'[<<r, 1>>].before = b /\ txn'[<<r, 1>>].after = e
          /\ e \in {b + txn'[<<r, 1>>].amount, b - txn'[<<r, 1>>].amount}
      BY <1>3, <1>b, <2>1
    <3> QED
      BY <1>a, <3>1, MovedIs
  <2> QED
    BY <1>1, <2>1, <2>2
<1>6. Moved(<<r, 2>>)' = balance'[to] - balance[to]
  <2>a. PICK b \in Int : b = balance[to]
    BY DEF TypeOK
  <2>1. PICK e \in Int : b = balance[to] /\ e = b + q.credit
    BY <1>b, <2>a
  <2>2. Moved(<<r, 2>>)' = e - b
    <3>1. /\ txn'[<<r, 2>>].amount \in Nat /\ txn'[<<r, 2>>].before = b /\ txn'[<<r, 2>>].after = e
          /\ e \in {b + txn'[<<r, 2>>].amount, b - txn'[<<r, 2>>].amount}
      BY <1>3, <1>b, <2>1
    <3> QED
      BY <1>a, <3>1, MovedIs
  <2> QED
    BY <1>1, <2>1, <2>2
<1>7. ASSUME NEW c \in Currencies PROVE Conserved(c)'
  <2>1. Conserved(c) /\ <<r, 1>> \notin External(c) /\ <<r, 2>> \notin External(c)
    BY <1>1 DEF MoneyInv, External
  <2>2. CASE from \in WalletsIn(c) /\ to \in WalletsIn(c)
    <3>1. Still(WalletsIn(c) \ {from, to}) /\ WritesAside(c, legs)
      BY <1>1, <1>2, <1>3, <2>1, <2>2 DEF Still, WritesAside, External, WalletsIn
    <3>2. balance'[to] = balance[to] + a
      BY <1>1, <1>b, <2>2 DEF WalletsIn
    <3>3. External(c)' = External(c) /\ \A i \in External(c) : txn'[i] = txn[i]
      BY <2>1, <3>1 DEF WritesAside, External, WalletsIn
    <3>4. \A x \in WalletsIn(c) \ {from, to} : balance'[x] = balance[x]
      BY <3>1 DEF Still
    <3> QED
      BY <1>1, <1>b, <2>1, <2>2, <3>2, <3>3, <3>4, ConservedWithin
  <2>3. CASE from \in WalletsIn(c) /\ to \notin WalletsIn(c)
    <3>1. Still(WalletsIn(c) \ {from}) /\ WritesBeside(c, {<<r, 2>>}, <<r, 1>>)
      BY <1>1, <1>2, <1>3, <2>1, <2>3 DEF Still, WritesBeside, External, WalletsIn
    <3>2. <<r, 1>> \in External(c)'
      BY <1>a, <1>3, <2>3 DEF External, WalletsIn
    <3> QED
      BY <1>a, <1>5, <2>1, <2>3, <3>1, <3>2, ConservedByRow
  <2>4. CASE from \notin WalletsIn(c) /\ to \in WalletsIn(c)
    <3>1. Still(WalletsIn(c) \ {to}) /\ WritesBeside(c, {<<r, 1>>}, <<r, 2>>)
      BY <1>1, <1>2, <1>3, <2>1, <2>4 DEF Still, WritesBeside, External, WalletsIn
    <3>2. <<r, 2>> \in External(c)'
      BY <1>a, <1>3, <2>4 DEF External, WalletsIn
    <3> QED
      BY <1>a, <1>6, <2>1, <2>4, <3>1, <3>2, ConservedByRow
  <2>5. CASE from \notin WalletsIn(c) /\ to \notin WalletsIn(c)
    <3>1. Still(WalletsIn(c)) /\ WritesAside(c, legs)
      BY <1>1, <1>2, <1>3, <2>1, <2>5 DEF Still, WritesAside, External, WalletsIn
    <3> QED
      BY <2>1, <3>1, ConservedAside
  <2> QED
    BY <2>2, <2>3, <2>4, <2>5
<1> QED
  BY <1>4, <1>7 DEF MoneyInv, Currencies

\* No atomic step makes or loses money.
LEMMA AtomicMoney ==
    ASSUME TypeOK, TypeOK', PendingRowsOK, IsFiniteSet(Wallet), MoneyInv,
           [Atomic!Next]_(Atomic!ledger)
    PROVE  MoneyInv'
<1>a. \A r \in Request : <<r, 1>> \in TxnId /\ <<r, 2>> \in TxnId
  BY TxnIds
<1>b. Atomic!TxnId = TxnId
  BY DEF TxnId, Atomic!TxnId
<1>1. ASSUME txn' = txn, balance' = balance PROVE MoneyInv'
  <2>1. PendingUnpaired'
    BY <1>1 DEF MoneyInv, PendingUnpaired
  <2>2. ASSUME NEW c \in Currencies PROVE Conserved(c)'
    <3>1. Conserved(c)
      BY DEF MoneyInv
    <3>2. Still(WalletsIn(c)) /\ WritesAside(c, {})
      BY <1>1 DEF Still, WritesAside, WalletsIn
    <3> QED
      BY <3>1, <3>2, ConservedAside
  <2> QED
    BY <2>1, <2>2 DEF MoneyInv, Currencies
<1>2. CASE UNCHANGED Atomic!ledger
  BY <1>1, <1>2 DEF Atomic!ledger
<1>3. ASSUME NEW w \in Wallet, Atomic!Open(w) PROVE MoneyInv'
  BY <1>1, <1>3 DEF Atomic!Open
<1>4. ASSUME NEW r \in Request, NEW w \in Wallet, NEW a \in Amounts, Atomic!Ask(<<r, 1>>, w, a)
      PROVE  MoneyInv'
  <2>1. /\ balance' = balance /\ txn[<<r, 1>>].status = "absent"
        /\ txn'[<<r, 1>>] = Atomic!PendingRow("withdrawal", w, a)
        /\ \A x \in TxnId \ {<<r, 1>>} : txn'[x] = txn[x]
    BY <1>4, <1>a DEF Atomic!Ask, TypeOK
  <2>2. txn'[<<r, 1>>].status = "pending" /\ txn'[<<r, 1>>].peer = 0
    BY <2>1 DEF Atomic!PendingRow
  <2> QED
    BY <1>a, <2>1, <2>2, MoneyAside
<1>5. ASSUME NEW i \in TxnId, Atomic!Reject(i) PROVE MoneyInv'
  <2>1. /\ balance' = balance /\ txn[i].status = "pending" /\ txn'[i].status = "rejected"
        /\ \A x \in TxnId \ {i} : txn'[x] = txn[x]
    BY <1>5 DEF Atomic!Reject, TypeOK, Row
  <2> QED
    BY <2>1, MoneyAside
<1>6. ASSUME NEW r \in Request, NEW w \in Wallet, NEW a \in Amounts, Atomic!Deposit(<<r, 1>>, w, a)
      PROVE  MoneyInv'
  <2>1. /\ txn[<<r, 1>>].status = "absent"
        /\ txn'[<<r, 1>>] = Atomic!SettledRow("deposit", w, a, balance[w], balance[w] + a)
        /\ \A x \in TxnId \ {<<r, 1>>} : txn'[x] = txn[x]
        /\ balance'[w] = balance[w] + a
        /\ \A v \in Wallet \ {w} : balance'[v] = balance[v]
    BY <1>6, <1>a DEF Atomic!Deposit, Atomic!Post, TypeOK
  <2>2. /\ txn'[<<r, 1>>].status = "approved" /\ txn'[<<r, 1>>].wallet = w
        /\ txn'[<<r, 1>>].before = balance[w] /\ txn'[<<r, 1>>].after = balance'[w]
        /\ txn'[<<r, 1>>].peer = 0 /\ txn'[<<r, 1>>].amount = a
    BY <2>1 DEF Atomic!SettledRow
  <2> QED
    BY <1>a, <2>1, <2>2, MoneyPosted
<1>7. ASSUME NEW r \in Request, NEW w \in Wallet, NEW a \in Amounts, NEW after,
             Atomic!Adjust(<<r, 1>>, w, a, after)
      PROVE  MoneyInv'
  <2>1. /\ txn[<<r, 1>>].status = "absent"
        /\ txn'[<<r, 1>>] = Atomic!SettledRow("adjustment", w, a, balance[w], after)
        /\ \A x \in TxnId \ {<<r, 1>>} : txn'[x] = txn[x]
        /\ balance'[w] = after /\ after \in {balance[w] + a, balance[w] - a}
        /\ \A v \in Wallet \ {w} : balance'[v] = balance[v]
    BY <1>7, <1>a DEF Atomic!Adjust, Atomic!Post, TypeOK
  <2>2. /\ txn'[<<r, 1>>].status = "approved" /\ txn'[<<r, 1>>].wallet = w
        /\ txn'[<<r, 1>>].before = balance[w] /\ txn'[<<r, 1>>].after = balance'[w]
        /\ txn'[<<r, 1>>].peer = 0 /\ txn'[<<r, 1>>].amount = a
    BY <2>1 DEF Atomic!SettledRow
  <2> QED
    BY <1>a, <2>1, <2>2, MoneyPosted
<1>8. ASSUME NEW i \in TxnId, Atomic!Approve(i) PROVE MoneyInv'
  <2> DEFINE t == txn[i]
             after == IF t.type = "withdrawal" THEN balance[t.wallet] - t.amount
                                               ELSE balance[t.wallet] + t.amount
  <2>1. t \in Row /\ t.status = "pending" /\ t.wallet \in Wallet /\ t.peer = 0
    BY <1>8 DEF Atomic!Approve, TypeOK, PendingRowsOK, MoneyInv, PendingUnpaired
  <2>2. /\ balance'[t.wallet] = after
        /\ \A v \in Wallet \ {t.wallet} : balance'[v] = balance[v]
        /\ \A x \in TxnId \ {i} : txn'[x] = txn[x]
    BY <1>8, <2>1 DEF Atomic!Approve, Atomic!Post, TypeOK
  <2>3. /\ txn'[i].status = "approved" /\ txn'[i].wallet = t.wallet /\ txn'[i].peer = 0
        /\ txn'[i].amount = t.amount /\ txn'[i].before = balance[t.wallet] /\ txn'[i].after = after
    BY <1>8, <2>1 DEF Atomic!Approve, TypeOK, Row
  <2>4. balance'[t.wallet] \in {balance[t.wallet] + txn'[i].amount, balance[t.wallet] - txn'[i].amount}
    BY <2>2, <2>3
  <2>5. PICK w \in Wallet : w = t.wallet
    BY <2>1
  <2> QED
    BY <2>1, <2>2, <2>3, <2>4, <2>5, MoneyPosted
<1>9. ASSUME NEW r \in Request, NEW from \in Wallet, NEW to \in Wallet, NEW a \in Amounts,
             NEW rate \in Rates, Atomic!Move(r, from, to, a, rate)
      PROVE  MoneyInv'
  BY <1>9, MoneyMoved
<1> QED
  BY <1>2, <1>3, <1>4, <1>5, <1>6, <1>7, <1>8, <1>9, <1>b DEF Atomic!Next

\* Before the first movement no row is settled and no balance has moved.
LEMMA InitMoney ==
    ASSUME IsFiniteSet(Wallet), Init
    PROVE  MoneyInv
<1>1. PICK old \in [Legacy -> Existing \X Amounts] : txn = InitialRows(old)
  BY DEF Init
<1>2. \A i \in TxnId : txn[i].status # "approved" /\ txn[i].peer = 0
  BY <1>1 DEF InitialRows, PendingRow, NoRow
<1>3. ASSUME NEW c PROVE Conserved(c)
  <2>1. External(c) = {}
    BY <1>2 DEF External
  <2>2. Entered(c) = 0
    <3> DEFINE m == [i \in TxnId |-> Moved(i)]
    <3>1. IsFiniteSet({}) /\ \A x \in {} : m[x] = 0
      BY FS_EmptySet
    <3> HIDE DEF m
    <3>2. SumFunctionOnSet(m, {}) = 0
      BY <3>1, SumZeros
    <3> QED
      BY <2>1, <3>2 DEF Entered, m
  <2>3. Gained(c) = 0
    <3> DEFINE f == [w \in Wallet |-> balance[w] - Opening[w]]
    <3>1. IsFiniteSet(WalletsIn(c)) /\ WalletsIn(c) \subseteq Wallet
      BY FS_Subset DEF WalletsIn
    <3>2. \A w \in Wallet : f[w] = 0
      BY RowAssumption DEF Init
    <3> HIDE DEF f
    <3>3. \A w \in WalletsIn(c) : f[w] = 0
      BY <3>1, <3>2
    <3>4. SumFunctionOnSet(f, WalletsIn(c)) = 0
      BY <3>1, <3>3, SumZeros
    <3> QED
      BY <3>4 DEF Gained, f
  <2>4. IsFiniteSet(External(c))
    BY <2>1, FS_EmptySet
  <2> QED
    BY <2>2, <2>3, <2>4 DEF Conserved
<1> QED
  BY <1>2, <1>3 DEF MoneyInv, PendingUnpaired

\* Of any finite number of wallets, the balances in a currency change together
\* by what its external rows moved: no interleaving of handlers, no crash and
\* no rounding of an exchange makes or loses money.
THEOREM MoneyIsConserved ==
    ASSUME IsFiniteSet(Wallet)
    PROVE  Spec => []MoneyConserved
<1>1. Init => MoneyInv
  BY InitMoney
<1>2. HandlersInv /\ HandlersInv' /\ InBounds /\ MoneyInv /\ [Next]_vars => MoneyInv'
  BY RefinesNext, AtomicMoney DEF HandlersInv
<1>3. MoneyInv => MoneyConserved
  BY DEF MoneyInv, MoneyConserved, Currencies, Conserved, Gained, Entered
<1> QED
  BY <1>1, <1>2, <1>3, HandlersInvariant, BalancesInBounds, PTL DEF Spec

-----------------------------------------------------------------------------
\* What the lemmas below take for granted in a state.
LedgerInv == HandlersInv /\ InBounds

LEMMA LedgerInvariant == Spec => []LedgerInv
BY HandlersInvariant, BalancesInBounds, PTL DEF LedgerInv

-----------------------------------------------------------------------------
(***************************************************************************)
(* Transfers.  Rows are looked at through the steps of the atomic ledger.  *)
(***************************************************************************)
\* A row that is not there has no type, so it is no half of a transfer.
AbsentUntyped == \A i \in TxnId : txn[i].status = "absent" => txn[i].type = "none"

PairsInv == AbsentUntyped /\ TransferPaired

\* The rows of request r after a step that leaves its two rows no transfer.
LEMMA NoTransferOK ==
    ASSUME TransferPaired, NEW i \in TxnId, txn[i].type \notin {"transfer_out", "transfer_in"},
           txn'[i].type \notin {"transfer_out", "transfer_in"},
           \A k \in TxnId : k # i => txn'[k] = txn[k]
    PROVE  TransferPaired'
<1> SUFFICES ASSUME NEW r \in Request PROVE HalvesMatch(txn'[<<r, 1>>], txn'[<<r, 2>>])
  BY DEF TransferPaired, HalvesMatch
<1>1. <<r, 1>> \in TxnId /\ <<r, 2>> \in TxnId
  BY TxnIds
<1>2. CASE i \notin {<<r, 1>>, <<r, 2>>}
  <2>1. txn'[<<r, 1>>] = txn[<<r, 1>>] /\ txn'[<<r, 2>>] = txn[<<r, 2>>]
    BY <1>1, <1>2
  <2> QED
    BY <2>1 DEF TransferPaired
<1>3. CASE i \in {<<r, 1>>, <<r, 2>>}
  <2>1. txn[<<r, 1>>].type # "transfer_out" /\ txn[<<r, 2>>].type # "transfer_in"
    BY <1>3 DEF TransferPaired, HalvesMatch
  <2>2. txn'[<<r, 1>>].type # "transfer_out" /\ txn'[<<r, 2>>].type # "transfer_in"
    BY <1>1, <1>3, <2>1
  <2> QED
    BY <2>2 DEF HalvesMatch
<1> QED
  BY <1>2, <1>3

\* The rows a transfer writes match.
LEMMA MoveOK ==
    ASSUME TypeOK, PairsInv, NEW r \in Request, NEW from \in Wallet, NEW to \in Wallet,
           NEW a \in Amounts, NEW rate \in Rates, Atomic!Move(r, from, to, a, rate)
    PROVE  PairsInv'
<1> DEFINE q == Atomic!Quote(from, to, a, rate)
           out == Atomic!TransferRow("transfer_out", from, a, balance[from], balance[from] - a, to, q.rate)
           in == Atomic!TransferRow("transfer_in", to, q.credit, balance[to], balance[to] + q.credit,
                                    from, q.rate)
<1>1. <<r, 1>> \in TxnId /\ <<r, 2>> \in TxnId /\ from # to
  BY TxnIds DEF Atomic!Move
<1>2. txn' = [txn EXCEPT ![<<r, 1>>] = out, ![<<r, 2>>] = in]
  BY DEF Atomic!Move
<1>3. /\ txn'[<<r, 1>>] = out /\ txn'[<<r, 2>>] = in
      /\ \A k \in TxnId : k \notin {<<r, 1>>, <<r, 2>>} => txn'[k] = txn[k]
  BY <1>1, <1>2 DEF TypeOK
<1>4. /\ out.type = "transfer_out" /\ out.status = "approved" /\ out.wallet = from
      /\ out.amount = a /\ out.peer = to /\ out.rate = q.rate
      /\ in.type = "transfer_in" /\ in.status = "approved" /\ in.wallet = to
      /\ in.amount = q.credit /\ in.peer = from /\ in.rate = q.rate
  BY DEF Atomic!TransferRow
<1>5. rate # NoRate
  BY RowAssumption DEF NoRate
<1>6. /\ (q.rate = NoRate) <=> (Currency[from] = Currency[to])
      /\ q.credit = IF q.rate = NoRate THEN a ELSE ConvertMinorAmount(a, q.rate)
  BY <1>5 DEF Atomic!Quote, NoRate, Atomic!NoRate, ConvertMinorAmount, Atomic!ConvertMinorAmount,
              HalfEven, Atomic!HalfEven
<1> HIDE DEF q, out, in
<1>7. TransferPaired'
  <2> SUFFICES ASSUME NEW s \in Request PROVE HalvesMatch(txn'[<<s, 1>>], txn'[<<s, 2>>])
    BY DEF TransferPaired, HalvesMatch
  <2>1. CASE s = r
    BY <1>1, <1>3, <1>4, <1>6, <2>1 DEF HalvesMatch
  <2>2. CASE s # r
    <3>1. txn'[<<s, 1>>] = txn[<<s, 1>>] /\ txn'[<<s, 2>>] = txn[<<s, 2>>]
      BY <1>3, <2>2, TxnIds
    <3> QED
      BY <3>1 DEF PairsInv, TransferPaired
  <2> QED
    BY <2>1, <2>2
<1>8. AbsentUntyped'
  BY <1>3, <1>4 DEF PairsInv, AbsentUntyped
<1> QED
  BY <1>7, <1>8 DEF PairsInv

\* Every atomic step keeps the halves of every transfer matched.
LEMMA AtomicPairs ==
    ASSUME TypeOK, PendingRowsOK, PairsInv, [Atomic!Next]_(Atomic!ledger)
    PROVE  PairsInv'
<1>1. ASSUME NEW i \in TxnId, txn[i].type \notin {"transfer_out", "transfer_in"},
             txn'[i].type \notin {"transfer_out", "transfer_in"}, txn'[i].status # "absent",
             \A k \in TxnId : k # i => txn'[k] = txn[k]
      PROVE  PairsInv'
  <2>1. TransferPaired'
    BY <1>1, NoTransferOK DEF PairsInv
  <2> QED
    BY <1>1, <2>1 DEF PairsInv, AbsentUntyped
<1>2. CASE txn' = txn
  BY <1>2 DEF PairsInv, TransferPaired, HalvesMatch, AbsentUntyped
<1>3. ASSUME NEW r \in Request, NEW w \in Wallet, NEW a \in Amounts,
             \/ Atomic!Ask(<<r, 1>>, w, a)
             \/ Atomic!Deposit(<<r, 1>>, w, a)
             \/ \E after \in 0 .. MaxInt : Atomic!Adjust(<<r, 1>>, w, a, after)
      PROVE  PairsInv'
  <2> DEFINE i == <<r, 1>>
  <2>1. i \in TxnId /\ txn[i].status = "absent"
    BY <1>3, TxnIds DEF Atomic!Ask, Atomic!Deposit, Atomic!Adjust
  <2>2. txn[i].type = "none"
    BY <2>1 DEF PairsInv, AbsentUntyped
  <2>3. /\ \A k \in TxnId : k # i => txn'[k] = txn[k]
        /\ txn'[i].type \in {"withdrawal", "deposit", "adjustment"}
        /\ txn'[i].status \in {"pending", "approved"}
    <3>1. ASSUME NEW row, txn' = [txn EXCEPT ![i] = row],
                 row.type \in {"withdrawal", "deposit", "adjustment"},
                 row.status \in {"pending", "approved"}
          PROVE  /\ \A k \in TxnId : k # i => txn'[k] = txn[k]
                 /\ txn'[i].type \in {"withdrawal", "deposit", "adjustment"}
                 /\ txn'[i].status \in {"pending", "approved"}
      BY <2>1, <3>1 DEF TypeOK
    <3> DEFINE ask == Atomic!PendingRow("withdrawal", w, a)
               deposit == Atomic!SettledRow("deposit", w, a, balance[w], balance[w] + a)
               adjust(after) == Atomic!SettledRow("adjustment", w, a, balance[w], after)
    <3>2. /\ ask.type = "withdrawal" /\ ask.status = "pending"
          /\ deposit.type = "deposit" /\ deposit.status = "approved"
          /\ \A after : adjust(after).type = "adjustment" /\ adjust(after).status = "approved"
      BY DEF Atomic!PendingRow, Atomic!SettledRow
    <3>3. \/ txn' = [txn EXCEPT ![i] = ask]
          \/ txn' = [txn EXCEPT ![i] = deposit]
          \/ \E after \in 0 .. MaxInt : txn' = [txn EXCEPT ![i] = adjust(after)]
      BY <1>3 DEF Atomic!Ask, Atomic!Deposit, Atomic!Adjust
    <3> HIDE DEF ask, deposit, adjust
    <3> QED
      BY <3>1, <3>2, <3>3
  <2> QED
    BY <1>1, <2>1, <2>2, <2>3
<1>4. ASSUME NEW i \in TxnId, Atomic!Approve(i) \/ Atomic!Reject(i) PROVE PairsInv'
  <2>1. txn[i].status = "pending" /\ txn[i] \in Row
    BY <1>4 DEF Atomic!Approve, Atomic!Reject, TypeOK
  <2>2. txn[i].type \in {"deposit", "withdrawal"}
    BY <2>1 DEF PendingRowsOK
  <2>3. /\ \A k \in TxnId : k # i => txn'[k] = txn[k]
        /\ txn'[i].type = txn[i].type /\ txn'[i].status \in {"approved", "rejected"}
    BY <1>4, <2>1 DEF Atomic!Approve, Atomic!Reject, TypeOK, Row
  <2> QED
    BY <1>1, <2>2, <2>3
<1>5. Atomic!TxnId = TxnId
  BY DEF TxnId, Atomic!TxnId
<1> QED
  BY <1>2, <1>3, <1>4, <1>5, MoveOK DEF Atomic!Next, Atomic!Open, Atomic!ledger

\* At the start there is no transfer.
LEMMA InitPairs == Init => PairsInv
<1> SUFFICES ASSUME Init PROVE PairsInv
  OBVIOUS
<1>1. PICK old \in [Legacy -> Existing \X Amounts] : txn = InitialRows(old)
  BY DEF Init
<1>2. ASSUME NEW i \in TxnId
      PROVE  txn[i].type \notin {"transfer_out", "transfer_in"}
             /\ (txn[i].status = "absent" => txn[i].type = "none")
  BY <1>1 DEF InitialRows, PendingRow, NoRow
<1>3. TransferPaired
  BY <1>2, TxnIds DEF TransferPaired, HalvesMatch
<1> QED
  BY <1>2, <1>3 DEF PairsInv, AbsentUntyped

\* schema.prisma, transferId and exchangeRate: both halves of a transfer are
\* written together, name each other's wallet and one rate, and the credit is
\* the converted debit.
THEOREM TransfersPaired == Spec => []TransferPaired
<1>1. LedgerInv /\ PairsInv /\ [Next]_vars => PairsInv'
  BY RefinesNext, AtomicPairs DEF LedgerInv, HandlersInv
<1>2. PairsInv => TransferPaired
  BY DEF PairsInv
<1> QED
  BY <1>1, <1>2, InitPairs, LedgerInvariant, PTL DEF Spec
-----------------------------------------------------------------------------
(***************************************************************************)
(* The audit log.  An entry is written in the step that decides its row,   *)
(* and a decided row is never written again.                               *)
(***************************************************************************)
\* A pending row has no balances yet; a rejection writes none.
PendingUnposted == \A i \in TxnId : txn[i].status = "pending" => txn[i].after = Null

AuditInv == PendingUnposted /\ AuditMatches

\* The row an entry is about is a row.
LEMMA AuditedRowType ==
    ASSUME NEW e \in AuditRow
    PROVE  AuditedRow(e) \in TxnId
<1>1. e.txn \in TxnId \cup {NoTxn} /\ e.by \in Request
  BY DEF AuditRow
<1> QED
  BY <1>1, TxnIds DEF AuditedRow

\* The handlers settle rows as the atomic ledger does.
LEMMA HandlersSettle ==
    ASSUME LedgerInv, [Next]_vars
    PROVE  SettleStep
BY RefinesNext, AtomicSettles DEF LedgerInv, HandlersInv

\* A step that decides no row and writes no entry.
LEMMA AuditKept ==
    ASSUME TypeOK, AuditMatches, SettleStep, audit' = audit,
           \A k \in TxnId : txn'[k].status \in Decided => txn[k].status \in Decided
    PROVE  AuditMatches'
<1>1. ASSUME NEW i \in TxnId, txn'[i].status \in Decided, txn'[i].type # "transfer_in"
      PROVE  \E e \in audit' : /\ AuditedRow(e) = i
                               /\ \A f \in audit' : AuditedRow(f) = i => f = e
  <2>1. txn[i].status \in Decided /\ txn[i].type # "transfer_in"
    BY <1>1 DEF SettleStep
  <2> QED
    BY <2>1 DEF AuditMatches
<1>2. ASSUME NEW e \in audit'
      PROVE  LET t == txn'[AuditedRow(e)] IN
             /\ t.status \in Decided
             /\ e.new = t.after
             /\ e.old # Null => e.old = t.before
             /\ e.txn = NoTxn => e.wallet = t.wallet
  <2>1. AuditedRow(e) \in TxnId /\ txn[AuditedRow(e)].status \in Decided
    BY AuditedRowType DEF AuditMatches, TypeOK
  <2>2. txn'[AuditedRow(e)] = txn[AuditedRow(e)]
    BY <2>1 DEF SettleStep
  <2> QED
    BY <2>2 DEF AuditMatches
<1> QED
  BY <1>1, <1>2 DEF AuditMatches, AuditedRow

\* A step that decides row i (and with it, at most, the other half of a
\* transfer) and writes the entry e about it.
LEMMA AuditAdded ==
    ASSUME TypeOK, AuditMatches, SettleStep,
           NEW i \in TxnId, NEW e \in AuditRow, AuditedRow(e) = i, audit' = audit \cup {e},
           txn[i].status \notin Decided, txn'[i].status \in Decided,
           \A k \in TxnId : k # i /\ txn'[k].status \in Decided =>
               txn[k].status \in Decided \/ txn'[k].type = "transfer_in",
           e.new = txn'[i].after, e.old # Null => e.old = txn'[i].before,
           e.txn = NoTxn => e.wallet = txn'[i].wallet
    PROVE  AuditMatches'
<1>0. \A f \in audit : AuditedRow(f) # i
  BY DEF AuditMatches
<1>1. ASSUME NEW k \in TxnId, txn'[k].status \in Decided, txn'[k].type # "transfer_in"
      PROVE  \E f \in audit' : /\ AuditedRow(f) = k
                               /\ \A g \in audit' : AuditedRow(g) = k => g = f
  <2>1. CASE k = i
    BY <1>0, <2>1
  <2>2. CASE k # i
    <3>1. txn[k].status \in Decided /\ txn[k].type # "transfer_in"
      BY <1>1, <2>2 DEF SettleStep
    <3>2. PICK f \in audit : AuditedRow(f) = k /\ \A g \in audit : AuditedRow(g) = k => g = f
      BY <3>1 DEF AuditMatches
    <3> QED
      BY <2>2, <3>2
  <2> QED
    BY <2>1, <2>2
<1>2. ASSUME NEW f \in audit'
      PROVE  LET t == txn'[AuditedRow(f)] IN
             /\ t.status \in Decided
             /\ f.new = t.after
             /\ f.old # Null => f.old = t.before
             /\ f.txn = NoTxn => f.wallet = t.wallet
  <2>1. CASE f = e
    BY <2>1
  <2>2. CASE f \in audit
    <3>1. AuditedRow(f) \in TxnId /\ txn[AuditedRow(f)].status \in Decided
      BY <2>2, AuditedRowType DEF AuditMatches, TypeOK
    <3>2. txn'[AuditedRow(f)] = txn[AuditedRow(f)]
      BY <3>1 DEF SettleStep
    <3> QED
      BY <2>2, <3>2 DEF AuditMatches
  <2> QED
    BY <2>1, <2>2
<1> QED
  BY <1>1, <1>2 DEF AuditMatches, AuditedRow

\* Deposit, adjustment and transfer insert a decided row and its entry.
LEMMA InsertAudited ==
    ASSUME LedgerInv, AuditInv, [Next]_vars, NEW r \in Request,
           CommitDeposit(r) \/ CommitAdjust(r) \/ CommitTransfer(r)
    PROVE  AuditInv'
<1> DEFINE i == <<r, 1>>
           j == job[r]
<1>0. /\ TypeOK /\ SettleStep /\ i \in TxnId /\ <<r, 2>> \in TxnId
      /\ pc[r] = "commit" /\ txn[i].status = "absent" /\ txn[<<r, 2>>].status = "absent"
  BY HandlersSettle, TxnIds, CommitKnows
     DEF LedgerInv, HandlersInv, CommitDeposit, CommitAdjust, CommitTransfer, CommitBalance
<1>1. ASSUME NEW e \in AuditRow, AuditedRow(e) = i, audit' = audit \cup {e},
             txn'[i].status = "approved",
             \A k \in TxnId : k # i =>
                 txn'[k] = txn[k] \/ (txn'[k].type = "transfer_in" /\ txn'[k].status = "approved"),
             e.new = txn'[i].after, e.old = txn'[i].before,
             e.txn = NoTxn => e.wallet = txn'[i].wallet
      PROVE  AuditInv'
  <2>1. PendingUnposted'
    BY <1>0, <1>1 DEF AuditInv, PendingUnposted
  <2>2. AuditMatches'
    BY <1>0, <1>1, AuditAdded DEF AuditInv, Decided
  <2> QED
    BY <2>1, <2>2 DEF AuditInv
<1>2. /\ j.wallet \in Wallet /\ j.amount \in Nat
      /\ seen[r][1] \in Int /\ After(r) \in Int
  BY <1>0, AfterType, JobWallet DEF LedgerInv
<1>3. CASE CommitDeposit(r)
  <2> DEFINE e == TxnAudit(r, "deposit.settle", i, seen[r][1], After(r))
             row == SettledRow("deposit", j.wallet, j.amount, seen[r][1], After(r))
  <2>1. /\ e \in AuditRow /\ e.txn = i /\ e.new = After(r) /\ e.old = seen[r][1]
        /\ row.status = "approved" /\ row.after = After(r) /\ row.before = seen[r][1]
    BY <1>0, <1>2 DEF TxnAudit, AuditRow, AuditActions, SettledRow
  <2>2. txn' = [txn EXCEPT ![i] = row] /\ audit' = audit \cup {e}
    BY <1>3 DEF CommitDeposit
  <2>3. i # NoTxn
    BY DEF NoTxn
  <2> HIDE DEF e, row
  <2>4. AuditedRow(e) = i
    BY <2>1, <2>3 DEF AuditedRow
  <2>5. txn'[i] = row /\ \A k \in TxnId : k # i => txn'[k] = txn[k]
    BY <1>0, <2>2 DEF TypeOK
  <2> QED
    BY <1>1, <2>1, <2>2, <2>3, <2>4, <2>5
<1>4. CASE CommitAdjust(r)
  <2> DEFINE e == WalletAudit(r, "wallet.adjust", j.wallet, seen[r][1], After(r))
             row == SettledRow("adjustment", j.wallet, j.amount, seen[r][1], After(r))
  <2>1. /\ e \in AuditRow /\ e.txn = NoTxn /\ e.by = r /\ e.wallet = j.wallet
        /\ e.new = After(r) /\ e.old = seen[r][1] /\ row.wallet = j.wallet
        /\ row.status = "approved" /\ row.after = After(r) /\ row.before = seen[r][1]
    BY <1>0, <1>2 DEF WalletAudit, AuditRow, AuditActions, SettledRow
  <2>2. txn' = [txn EXCEPT ![i] = row] /\ audit' = audit \cup {e}
    BY <1>4 DEF CommitAdjust
  <2> HIDE DEF e, row
  <2>3. AuditedRow(e) = i
    BY <2>1 DEF AuditedRow
  <2>4. txn'[i] = row /\ \A k \in TxnId : k # i => txn'[k] = txn[k]
    BY <1>0, <2>2 DEF TypeOK
  <2> QED
    BY <1>1, <2>1, <2>2, <2>3, <2>4
<1>5. CASE CommitTransfer(r)
  <2> DEFINE e == WalletAudit(r, "wallet.transfer", j.wallet, seen[r][1], After(r))
             out == TransferRow("transfer_out", j.wallet, j.amount, seen[r][1], After(r), j.to, j.rate)
             in == TransferRow("transfer_in", j.to, j.credit, seen[r][2], ToAfter(r), j.wallet, j.rate)
  <2>1. /\ e \in AuditRow /\ e.txn = NoTxn /\ e.by = r /\ e.wallet = j.wallet
        /\ e.new = After(r) /\ e.old = seen[r][1] /\ out.wallet = j.wallet
        /\ out.status = "approved" /\ out.after = After(r) /\ out.before = seen[r][1]
        /\ in.status = "approved" /\ in.type = "transfer_in"
    BY <1>0, <1>2 DEF WalletAudit, AuditRow, AuditActions, TransferRow
  <2>2. txn' = [txn EXCEPT ![i] = out, ![<<r, 2>>] = in] /\ audit' = audit \cup {e}
    BY <1>5 DEF CommitTransfer
  <2> HIDE DEF e, out, in
  <2>3. AuditedRow(e) = i
    BY <2>1 DEF AuditedRow
  <2>4. /\ txn'[i] = out /\ txn'[<<r, 2>>] = in
        /\ \A k \in TxnId : k \notin {i, <<r, 2>>} => txn'[k] = txn[k]
    BY <1>0, <2>2 DEF TypeOK
  <2> QED
    BY <1>0, <1>1, <2>1, <2>2, <2>3, <2>4
<1> QED
  BY <1>3, <1>4, <1>5

\* A review decides the row it found pending and writes its entry.
LEMMA ReviewAudited ==
    ASSUME LedgerInv, AuditInv, [Next]_vars, NEW r \in Request, CommitApprove(r) \/ CommitReject(r)
    PROVE  AuditInv'
<1> DEFINE i == job[r].txn
<1>0. /\ TypeOK /\ SettleStep /\ i \in TxnId /\ i # NoTxn /\ pc[r] = "commit"
      /\ txn[i].status = "pending" /\ txn[i] \in Row /\ txn[i].after = Null
  <2>1. pc[r] = "commit" /\ job[r].op \in Reviews
    BY DEF CommitApprove, CommitReject, CommitBalance, Reviews
  <2>2. TypeOK /\ SettleStep /\ i \in TxnId /\ txn[i].status = "pending"
    BY <2>1, HandlersSettle, CommitKnows DEF LedgerInv, HandlersInv
  <2>3. i # NoTxn
    BY <2>2 DEF NoTxn, TxnId
  <2> QED
    BY <2>1, <2>2, <2>3 DEF TypeOK, AuditInv, PendingUnposted
<1>1. ASSUME NEW e \in AuditRow, e.txn = i, audit' = audit \cup {e}, e.old = Null,
             NEW row, txn' = [txn EXCEPT ![i] = row], row.status \in Decided, e.new = row.after
      PROVE  AuditInv'
  <2>1. txn'[i] = row /\ \A k \in TxnId : k # i => txn'[k] = txn[k]
    BY <1>0, <1>1 DEF TypeOK
  <2>2. PendingUnposted'
    BY <1>1, <2>1 DEF AuditInv, PendingUnposted, Decided
  <2>3. AuditedRow(e) = i
    BY <1>0, <1>1 DEF AuditedRow
  <2>4. AuditMatches'
    BY <1>0, <1>1, <2>1, <2>3, AuditAdded DEF AuditInv, Decided
  <2> QED
    BY <2>2, <2>4 DEF AuditInv
<1>2. seen[r][1] \in Int /\ After(r) \in Int
  BY <1>0, AfterType
<1>3. CASE CommitApprove(r)
  <2> DEFINE e == TxnAudit(r, ApproveAction(i), i, Null, After(r))
             row == [txn[i] EXCEPT !.status = "approved", !.before = seen[r][1], !.after = After(r)]
  <2>1. /\ e \in AuditRow /\ e.txn = i /\ e.old = Null /\ e.new = After(r)
        /\ row.status = "approved" /\ row.after = After(r)
    BY <1>0, <1>2 DEF TxnAudit, AuditRow, AuditActions, ApproveAction, Row, Null
  <2>2. txn' = [txn EXCEPT ![i] = row] /\ audit' = audit \cup {e}
    BY <1>0, <1>3 DEF CommitApprove, TypeOK
  <2> HIDE DEF e, row
  <2> QED
    BY <1>1, <2>1, <2>2 DEF Decided
<1>4. CASE CommitReject(r)
  <2> DEFINE e == TxnAudit(r, RejectAction(i), i, Null, Null)
             row == [txn[i] EXCEPT !.status = "rejected"]
  <2>1. /\ e \in AuditRow /\ e.txn = i /\ e.old = Null /\ e.new = Null
        /\ row.status = "rejected" /\ row.after = Null
    BY <1>0 DEF TxnAudit, AuditRow, AuditActions, RejectAction, Row, Null
  <2>2. txn' = [txn EXCEPT ![i] = row] /\ audit' = audit \cup {e}
    BY <1>0, <1>4 DEF CommitReject, TypeOK
  <2> HIDE DEF e, row
  <2> QED
    BY <1>1, <2>1, <2>2 DEF Decided
<1> QED
  BY <1>3, <1>4

\* Every step keeps the audit log in agreement with the rows.
LEMMA NextAudit == LedgerInv /\ AuditInv /\ [Next]_vars => AuditInv'
<1> SUFFICES ASSUME LedgerInv, AuditInv, [Next]_vars PROVE AuditInv'
  OBVIOUS
<1>0. TypeOK /\ SettleStep
  BY HandlersSettle DEF LedgerInv, HandlersInv
<1>1. ASSUME audit' = audit, txn' = txn PROVE AuditInv'
  BY <1>0, <1>1, AuditKept DEF AuditInv, PendingUnposted
<1>2. ASSUME NEW r \in Request, InsertWithdrawal(r) PROVE AuditInv'
  <2> DEFINE row == PendingRow("withdrawal", job[r].wallet, job[r].amount)
  <2>1. row.status = "pending" /\ row.after = Null
    BY DEF PendingRow
  <2>2. txn' = [txn EXCEPT ![<<r, 1>>] = row] /\ audit' = audit
    BY <1>2 DEF InsertWithdrawal
  <2> HIDE DEF row
  <2>3. \A k \in TxnId : txn'[k] = row \/ txn'[k] = txn[k]
    BY <1>0, <2>2, TxnIds DEF TypeOK
  <2>4. AuditMatches'
    BY <1>0, <2>1, <2>2, <2>3, AuditKept DEF AuditInv, Decided
  <2> QED
    BY <2>1, <2>3, <2>4 DEF AuditInv, PendingUnposted
<1>3. ASSUME NEW r \in Request, Writes(r) PROVE AuditInv'
  BY <1>2, <1>3, InsertAudited, ReviewAudited DEF Writes
<1>4. ASSUME NEW w \in Wallet, CreateWallet(w) PROVE AuditInv'
  BY <1>1, <1>4 DEF CreateWallet
<1> QED
  BY <1>1, <1>3, <1>4, TableWriters DEF tables

\* At the start nothing is decided and nothing is logged.
LEMMA InitAudit == Init => AuditInv
<1> SUFFICES ASSUME Init PROVE AuditInv
  OBVIOUS
<1>1. PICK old \in [Legacy -> Existing \X Amounts] : txn = InitialRows(old)
  BY DEF Init
<1>2. ASSUME NEW i \in TxnId
      PROVE  txn[i].status \notin Decided /\ txn[i].after = Null
  BY <1>1 DEF InitialRows, PendingRow, NoRow, Decided
<1>3. audit = {}
  BY DEF Init
<1> QED
  BY <1>2, <1>3 DEF AuditInv, PendingUnposted, AuditMatches

\* "A state change can never exist without its audit entry": every decided row
\* has exactly one entry, and the entry tells the row's balances, whoever races.
THEOREM AuditTellsRows == Spec => []AuditMatches
<1>1. AuditInv => AuditMatches
  BY DEF AuditInv
<1> QED
  BY <1>1, InitAudit, NextAudit, LedgerInvariant, PTL DEF Spec

-----------------------------------------------------------------------------
(***************************************************************************)
(* What sockets show.  A handler past its COMMIT knows a row that really   *)
(* moved the wallet whose balance it will emit.                            *)
(***************************************************************************)
SettledOn(w, i) == w \in Wallet /\ \E k \in DOMAIN settled[w] : settled[w][k] = i

\* The row whose balance the handler emits for its first wallet.
EmittedRow(r) == IF job[r].op = "approve" THEN job[r].txn ELSE <<r, 1>>

CommittedOK(r) ==
    /\ pc[r] = "emit" =>
          /\ job[r].op \in {"deposit", "adjust", "approve", "transfer"}
          /\ SettledOn(job[r].wallet, EmittedRow(r))
          /\ job[r].op = "transfer" => SettledOn(job[r].to, <<r, 2>>)
          /\ job[r].op # "adjust" => r \in outbox
    /\ pc[r] = "dispatch" => r \in outbox

AnnouncedInv == AnnouncedWasCommitted /\ \A r \in Request : CommittedOK(r)

\* A step of handler r leaves the others where they are, and the outbox only grows.
LEMMA OthersStand ==
    ASSUME TypeOK, NEW r \in Request, BeginSome(r) \/ BeginSomeReview(r) \/ Advance(r) \/ Fault(r)
    PROVE  /\ \A q \in Request : q # r => pc'[q] = pc[q] /\ job'[q] = job[q]
           /\ outbox \subseteq outbox'
<1>1. ASSUME NEW op, NEW where, NEW fields, Begin(r, op, where, fields)
      PROVE  /\ \A q \in Request : q # r => pc'[q] = pc[q] /\ job'[q] = job[q]
             /\ outbox' = outbox
  BY <1>1 DEF Begin, TypeOK, tables
<1>2. CASE BeginSome(r) \/ BeginSomeReview(r)
  BY <1>1, <1>2 DEF BeginSome, BeginSomeReview, BeginDeposit, BeginWithdrawal, BeginAdjust,
                    BeginTransfer, BeginReview
<1>3. ASSUME NEW how, Leave(r, how)
      PROVE  \A q \in Request : q # r => pc'[q] = pc[q] /\ job'[q] = job[q]
  BY <1>3 DEF Leave, TypeOK
<1>4. CASE Advance(r)
  <2>1. CASE LockTxn(r) \/ CheckPending(r) \/ LockFirst(r) \/ LockSecond(r) \/ ReadBalances(r)
    BY <2>1 DEF LockTxn, CheckPending, LockFirst, LockSecond, ReadBalances, TypeOK, tables
  <2>2. CASE CommitDeposit(r) \/ CommitAdjust(r) \/ CommitApprove(r)
    BY <2>2 DEF CommitDeposit, CommitAdjust, CommitApprove, CommitBalance, TypeOK
  <2>3. CASE CommitReject(r) \/ CommitTransfer(r)
    BY <2>3 DEF CommitReject, CommitTransfer, TypeOK
  <2>4. CASE InsertWithdrawal(r) \/ Refuse(r) \/ Dispatch(r)
    BY <1>3, <2>4 DEF InsertWithdrawal, Refuse, RollBack, Dispatch, tables
  <2>5. CASE EmitBalance(r)
    BY <1>3, <2>5 DEF EmitBalance, TypeOK, tables
  <2> QED
    BY <1>4, <2>1, <2>2, <2>3, <2>4, <2>5 DEF Advance
<1>5. CASE Fault(r)
  BY <1>3, <1>5 DEF Fault, Abort, CrashAfterCommit, RollBack, tables
<1> QED
  BY <1>2, <1>4, <1>5

\* A settled row stays on its wallet, and stays what it was.
LEMMA StillSettled ==
    ASSUME TypeOK, TypeOK', BalanceChain, SettleStep, NEW w, NEW i, SettledOn(w, i)
    PROVE  SettledOn(w, i)' /\ txn'[i] = txn[i]
<1>1. w \in Wallet /\ settled[w] \in Seq(TxnId) /\ settled'[w] \in Seq(TxnId)
  BY DEF SettledOn, TypeOK
<1>2. PICK k \in DOMAIN settled[w] : settled[w][k] = i
  BY DEF SettledOn
<1>3. k \in DOMAIN settled'[w] /\ settled'[w][k] = i
  <2>1. Len(settled'[w]) >= Len(settled[w]) /\ settled'[w][k] = settled[w][k]
    BY <1>1, <1>2 DEF SettleStep
  <2> QED
    BY <1>1, <1>2, <2>1
<1>4. i \in TxnId /\ txn[i].status = "approved"
  BY <1>1, <1>2 DEF BalanceChain, ChainOK, SettledRowAt
<1> QED
  BY <1>1, <1>3, <1>4 DEF SettledOn, SettleStep, Decided

\* A step that shows only balances of settled rows and toasts only committed
\* events, and leaves every handler past its COMMIT or brings it there rightly.
LEMMA AnnouncedSuffices ==
    ASSUME TypeOK, TypeOK', BalanceChain, SettleStep, AnnouncedInv, outbox \subseteq outbox',
           \A w \in Wallet : shown'[w] = shown[w]
                             \/ \E i : SettledOn(w, i) /\ shown'[w] = txn[i].after,
           toasted' \subseteq outbox',
           \A q \in Request : (pc'[q] = pc[q] /\ job'[q] = job[q]) \/ CommittedOK(q)'
    PROVE  AnnouncedInv'
<1>1. ASSUME NEW w \in Wallet, NEW i, SettledOn(w, i), shown'[w] = txn[i].after
      PROVE  \E k \in DOMAIN settled'[w] : shown'[w] = txn'[settled'[w][k]].after
  <2>1. SettledOn(w, i)' /\ txn'[i] = txn[i]
    BY <1>1, StillSettled
  <2> QED
    BY <1>1, <2>1 DEF SettledOn
<1>2. ASSUME NEW w \in Wallet
      PROVE  shown'[w] = Opening[w] \/ \E k \in DOMAIN settled'[w] : shown'[w] = txn'[settled'[w][k]].after
  <2>1. CASE shown'[w] = shown[w] /\ shown[w] # Opening[w]
    <3>1. PICK k \in DOMAIN settled[w] : shown[w] = txn[settled[w][k]].after
      BY <2>1 DEF AnnouncedInv, AnnouncedWasCommitted, SettledRowAt
    <3> QED
      BY <1>1, <2>1, <3>1 DEF SettledOn
  <2> QED
    BY <1>1, <2>1
<1>3. ASSUME NEW q \in Request, pc'[q] = pc[q], job'[q] = job[q] PROVE CommittedOK(q)'
  <2>1. CommittedOK(q)
    BY DEF AnnouncedInv
  <2>2. ASSUME NEW w, NEW i, w \in Wallet, \E k \in DOMAIN settled[w] : settled[w][k] = i
        PROVE  \E k \in DOMAIN settled'[w] : settled'[w][k] = i
    <3>1. SettledOn(w, i)
      BY <2>2 DEF SettledOn
    <3>2. SettledOn(w, i)'
      BY <3>1, StillSettled
    <3> QED
      BY <3>2 DEF SettledOn
  <2>3. EmittedRow(q)' = EmittedRow(q)
    BY <1>3 DEF EmittedRow
  <2>4. pc[q] = "emit" =>
            /\ SettledOn(job[q].wallet, EmittedRow(q))'
            /\ job[q].op = "transfer" => SettledOn(job[q].to, <<q, 2>>)'
    <3> DEFINE w == job[q].wallet
               v == job[q].to
               i == EmittedRow(q)
    <3>1. pc[q] = "emit" => SettledOn(w, i) /\ (job[q].op = "transfer" => SettledOn(v, <<q, 2>>))
      BY <2>1 DEF CommittedOK
    <3> QED
      BY <1>3, <2>2, <2>3, <3>1 DEF SettledOn
  <2> QED
    BY <1>3, <2>1, <2>4 DEF CommittedOK
<1> QED
  BY <1>2, <1>3 DEF AnnouncedInv, AnnouncedWasCommitted, SettledRowAt

\* What is appended to a list is in it.
LEMMA AppendedIn ==
    ASSUME NEW S, NEW s \in Seq(S), NEW e \in S
    PROVE  \E k \in DOMAIN Append(s, e) : Append(s, e)[k] = e
<1>1. /\ Len(s) + 1 \in DOMAIN Append(s, e)
      /\ Append(s, e)[Len(s) + 1] = e
  BY AppendKeeps
<1> QED
  BY <1>1

\* The handler that commits knows the rows it settled, and its event is committed.
LEMMA CommitKnowsRow ==
    ASSUME HandlersInv, NEW r \in Request,
           \/ CommitDeposit(r) \/ CommitAdjust(r) \/ CommitApprove(r)
           \/ CommitReject(r) \/ CommitTransfer(r)
    PROVE  CommittedOK(r)'
<1> DEFINE j == job[r]
<1>0. TypeOK /\ <<r, 1>> \in TxnId /\ <<r, 2>> \in TxnId
  BY TxnIds DEF HandlersInv
<1>a. ASSUME NEW w \in Wallet, NEW i \in TxnId, settled[w] \in Seq(TxnId),
             settled'[w] = Append(settled[w], i)
      PROVE  \E k \in DOMAIN settled'[w] : settled'[w][k] = i
  BY <1>a, AppendedIn
<1>1. ASSUME NEW i \in TxnId, CommitBalance(r, i), j.op \in {"deposit", "adjust", "approve"},
             i = EmittedRow(r), j.op # "adjust" => r \in outbox'
      PROVE  CommittedOK(r)'
  <2>1. pc'[r] = "emit" /\ job' = job /\ settled' = [settled EXCEPT ![j.wallet] = Append(@, i)]
    BY <1>0, <1>1 DEF CommitBalance, TypeOK
  <2>2. j.wallet \in Wallet /\ settled[j.wallet] \in Seq(TxnId)
    BY <1>0, <1>1, JobWallet DEF CommitBalance, TypeOK
  <2>3. \E k \in DOMAIN settled'[j.wallet] : settled'[j.wallet][k] = i
    <3>1. settled'[j.wallet] = Append(settled[j.wallet], i)
      BY <1>0, <2>1, <2>2 DEF TypeOK
    <3> QED
      BY <1>a, <2>2, <3>1
  <2>4. EmittedRow(r)' = i
    BY <1>1, <2>1 DEF EmittedRow
  <2> QED
    BY <1>1, <2>1, <2>2, <2>3, <2>4 DEF CommittedOK, SettledOn
<1>2. CASE CommitDeposit(r) \/ CommitAdjust(r)
  BY <1>0, <1>1, <1>2 DEF CommitDeposit, CommitAdjust, EmittedRow
<1>3. CASE CommitApprove(r)
  <2>1. j.txn \in TxnId
    BY <1>3, CommitKnows DEF CommitApprove, CommitBalance, Reviews
  <2> QED
    BY <1>1, <1>3, <2>1 DEF CommitApprove, EmittedRow
<1>4. CASE CommitReject(r)
  BY <1>0, <1>4 DEF CommitReject, CommittedOK, TypeOK
<1>5. CASE CommitTransfer(r)
  <2>1. /\ pc[r] = "commit" /\ pc'[r] = "emit" /\ job' = job /\ j.op = "transfer" /\ r \in outbox'
        /\ settled' = [settled EXCEPT ![j.wallet] = Append(@, <<r, 1>>), ![j.to] = Append(@, <<r, 2>>)]
    BY <1>0, <1>5 DEF CommitTransfer, TypeOK
  <2>2. /\ j.wallet \in Wallet /\ j.to \in Wallet /\ j.wallet # j.to
        /\ settled[j.wallet] \in Seq(TxnId) /\ settled[j.to] \in Seq(TxnId)
    BY <1>0, <2>1, JobWallet DEF HandlersInv, HandlerOK, JobOK, TypeOK
  <2>3. /\ settled'[j.wallet] = Append(settled[j.wallet], <<r, 1>>)
        /\ settled'[j.to] = Append(settled[j.to], <<r, 2>>)
    BY <1>0, <2>1, <2>2 DEF TypeOK
  <2>4. /\ \E k \in DOMAIN settled'[j.wallet] : settled'[j.wallet][k] = <<r, 1>>
        /\ \E k \in DOMAIN settled'[j.to] : settled'[j.to][k] = <<r, 2>>
    BY <1>0, <1>a, <2>2, <2>3
  <2>5. EmittedRow(r)' = <<r, 1>>
    BY <2>1 DEF EmittedRow
  <2> QED
    BY <2>1, <2>2, <2>4, <2>5 DEF CommittedOK, SettledOn
<1> QED
  BY <1>2, <1>3, <1>4, <1>5

\* Every step keeps the sockets truthful.
LEMMA NextAnnounced ==
    LedgerInv /\ LedgerInv' /\ BalanceChain /\ AnnouncedInv /\ [Next]_vars => AnnouncedInv'
<1> SUFFICES ASSUME LedgerInv, LedgerInv', BalanceChain, AnnouncedInv, [Next]_vars
             PROVE  AnnouncedInv'
  OBVIOUS
<1>0. TypeOK /\ TypeOK' /\ HandlersInv /\ SettleStep
  BY HandlersSettle DEF LedgerInv, HandlersInv
<1>1. ASSUME shown' = shown, toasted' = toasted, outbox \subseteq outbox',
             \A q \in Request : (pc'[q] = pc[q] /\ job'[q] = job[q]) \/ CommittedOK(q)'
      PROVE  AnnouncedInv'
  <2>1. toasted' \subseteq outbox'
    BY <1>1 DEF AnnouncedInv, AnnouncedWasCommitted
  <2> QED
    BY <1>0, <1>1, <2>1, AnnouncedSuffices
<1>2. ASSUME NEW r \in Request, BeginSome(r) \/ BeginSomeReview(r) \/ Advance(r) \/ Fault(r)
      PROVE  AnnouncedInv'
  <2>1. /\ \A q \in Request : q # r => pc'[q] = pc[q] /\ job'[q] = job[q]
        /\ outbox \subseteq outbox'
    BY <1>0, <1>2, OthersStand
  <2>2. ASSUME shown' = shown, toasted' = toasted, CommittedOK(r)' PROVE AnnouncedInv'
    BY <1>1, <2>1, <2>2
  <2>3. ASSUME pc'[r] \notin {"emit", "dispatch"} PROVE CommittedOK(r)'
    BY <2>3 DEF CommittedOK
  <2>4. ASSUME NEW how \in Ended, Leave(r, how) PROVE CommittedOK(r)'
    BY <1>0, <2>3, <2>4 DEF Leave, TypeOK, Ended
  <2>5. CASE BeginSome(r) \/ BeginSomeReview(r)
    <3>1. ASSUME NEW op, NEW where \in {"lock1", "lockTxn", "insert"}, NEW fields,
                 Begin(r, op, where, fields)
          PROVE  AnnouncedInv'
      BY <1>0, <2>2, <2>3, <3>1 DEF Begin, sockets, TypeOK
    <3> QED
      BY <2>5, <3>1 DEF BeginSome, BeginSomeReview, BeginDeposit, BeginWithdrawal, BeginAdjust,
                        BeginTransfer, BeginReview
  <2>6. CASE LockTxn(r) \/ CheckPending(r) \/ LockFirst(r) \/ LockSecond(r) \/ ReadBalances(r)
    BY <1>0, <2>2, <2>3, <2>6
       DEF LockTxn, CheckPending, LockFirst, LockSecond, ReadBalances, sockets, TypeOK
  <2>7. CASE \/ CommitDeposit(r) \/ CommitAdjust(r) \/ CommitApprove(r)
             \/ CommitReject(r) \/ CommitTransfer(r)
    <3>1. shown' = shown /\ toasted' = toasted
      BY <2>7 DEF CommitDeposit, CommitAdjust, CommitApprove, CommitReject, CommitTransfer,
                  CommitBalance, sockets
    <3> QED
      BY <1>0, <2>2, <2>7, <3>1, CommitKnowsRow
  <2>8. CASE InsertWithdrawal(r) \/ Refuse(r) \/ Fault(r)
    BY <2>2, <2>4, <2>8 DEF InsertWithdrawal, Refuse, Fault, Abort, CrashAfterCommit, RollBack,
                            sockets, Ended
  <2>9. CASE EmitBalance(r)
    <3>1. pc[r] = "emit" /\ toasted' = toasted
      BY <2>9 DEF EmitBalance
    <3>2. CommittedOK(r)
      BY DEF AnnouncedInv
    <3>3. ASSUME NEW w \in Wallet
          PROVE  shown'[w] = shown[w] \/ \E i : SettledOn(w, i) /\ shown'[w] = txn[i].after
      BY <2>9, <3>1, <3>2 DEF EmitBalance, CommittedOK, EmittedRow
    <3>4. CommittedOK(r)'
      <4>1. CASE job[r].op = "adjust"
        BY <2>4, <2>9, <4>1 DEF EmitBalance, Ended
      <4>2. CASE job[r].op # "adjust"
        BY <1>0, <2>1, <2>9, <3>1, <3>2, <4>2 DEF EmitBalance, CommittedOK, TypeOK
      <4> QED
        BY <4>1, <4>2
    <3>5. toasted' \subseteq outbox'
      BY <2>1, <3>1 DEF AnnouncedInv, AnnouncedWasCommitted
    <3> QED
      BY <1>0, <2>1, <3>3, <3>4, <3>5, AnnouncedSuffices
  <2>10. CASE Dispatch(r)
    <3>1. r \in outbox /\ toasted' = toasted \cup {r} /\ shown' = shown
      BY <2>10 DEF Dispatch, AnnouncedInv, CommittedOK
    <3>2. toasted' \subseteq outbox'
      BY <2>1, <3>1 DEF AnnouncedInv, AnnouncedWasCommitted
    <3>3. CommittedOK(r)'
      BY <2>4, <2>10 DEF Dispatch, Ended
    <3> QED
      BY <1>0, <2>1, <3>1, <3>2, <3>3, AnnouncedSuffices
  <2> QED
    BY <1>2, <2>5, <2>6, <2>7, <2>8, <2>9, <2>10 DEF Advance
<1>3. ASSUME NEW w \in Wallet, CreateWallet(w) PROVE AnnouncedInv'
  BY <1>1, <1>3 DEF CreateWallet, sockets
<1>4. CASE UNCHANGED vars
  BY <1>1, <1>4 DEF vars, tables, sockets
<1> QED
  BY <1>2, <1>3, <1>4 DEF Next, AllEnded

\* "A rolled-back credit must never announce a balance change": what a socket
\* shows is the opening balance or one the wallet really had, and a toast is
\* only shown for a committed event, wherever handlers roll back or die.
THEOREM OnlyCommittedShown == Spec => []AnnouncedWasCommitted
<1>1. Init => AnnouncedInv
  BY DEF Init, AnnouncedInv, AnnouncedWasCommitted, CommittedOK
<1>2. AnnouncedInv => AnnouncedWasCommitted
  BY DEF AnnouncedInv
<1> QED
  BY <1>1, <1>2, NextAnnounced, LedgerInvariant, LedgerExplainsBalance, PTL DEF Spec

-----------------------------------------------------------------------------
(***************************************************************************)
(* Waiting.  Who holds a row lock is past the statement that took it, so   *)
(* it can only wait for a lock further along: a review's transaction row   *)
(* before any wallet, the wallets in the order of their ids.               *)
(***************************************************************************)
MayHoldTxn(r, i) ==
    pc[r] \in {"check", "lock1", "read", "commit"} /\ job[r].op \in Reviews /\ job[r].txn = i

MayHoldWallet(r, w) ==
    \/ pc[r] \in {"read", "commit"}
    \/ pc[r] = "lock2" /\ w = FirstLock(job[r])

LockedBelow(n) == \A w \in Wallet : walletLock[w] # Free => w < n

LocksInv ==
    /\ \A r \in Request, i \in TxnId : txnLock[i] = r => MayHoldTxn(r, i)
    /\ \A r \in Request, w \in Wallet : walletLock[w] = r => MayHoldWallet(r, w)
    /\ \E n \in Nat : LockedBelow(n)

\* The two locks of a transfer are taken in increasing order.
LEMMA LocksOrdered ==
    ASSUME HandlersInv, NEW r \in Request, pc[r] = "lock2"
    PROVE  /\ FirstLock(job[r]) \in Wallet /\ SecondLock(job[r]) \in Wallet
           /\ FirstLock(job[r]) < SecondLock(job[r])
           /\ walletLock[FirstLock(job[r])] = r
<1> DEFINE j == job[r]
<1>1. TypeOK /\ JobOK(r) /\ HoldsLocks(r) /\ j.op = "transfer"
  BY DEF HandlersInv, HandlerOK, JobOK
<1>2. j.wallet \in Wallet /\ j.to \in Wallet /\ j.to # j.wallet
  BY <1>1 DEF JobOK, TypeOK
<1>3. j.wallet \in Nat /\ j.to \in Nat
  BY <1>2, RowAssumption
<1> QED
  BY <1>1, <1>2, <1>3 DEF FirstLock, SecondLock, LockOrder, HoldsLocks

\* A step of handler r takes or frees only locks of its own, and may hold what it then holds.
LEMMA LocksSuffice ==
    ASSUME TypeOK, LocksInv, NEW r \in Request,
           \A q \in Request : q # r => pc'[q] = pc[q] /\ job'[q] = job[q],
           \A i \in TxnId : txnLock'[i] = txnLock[i] \/ txnLock'[i] \in {r, Free},
           \A w \in Wallet : walletLock'[w] = walletLock[w] \/ walletLock'[w] \in {r, Free},
           \A i \in TxnId : txnLock'[i] = r => MayHoldTxn(r, i)',
           \A w \in Wallet : walletLock'[w] = r => MayHoldWallet(r, w)',
           NEW v \in Nat, \A w \in Wallet : walletLock'[w] # Free => walletLock[w] # Free \/ w = v
    PROVE  LocksInv'
<1>0. \A q \in Request : q # Free
  BY LedgerAssumption
<1>1. ASSUME NEW q \in Request, NEW i \in TxnId, txnLock'[i] = q PROVE MayHoldTxn(q, i)'
  BY <1>0, <1>1 DEF LocksInv, MayHoldTxn
<1>2. ASSUME NEW q \in Request, NEW w \in Wallet, walletLock'[w] = q PROVE MayHoldWallet(q, w)'
  BY <1>0, <1>2 DEF LocksInv, MayHoldWallet
<1>3. \E n \in Nat : LockedBelow(n)'
  <2>1. PICK n \in Nat : LockedBelow(n)
    BY DEF LocksInv
  <2>2. n + v + 1 \in Nat
    OBVIOUS
  <2>3. ASSUME NEW w \in Wallet, walletLock'[w] # Free PROVE w < n + v + 1
    BY <2>1, <2>3, RowAssumption DEF LockedBelow
  <2> QED
    BY <2>2, <2>3 DEF LockedBelow
<1> QED
  BY <1>1, <1>2, <1>3 DEF LocksInv

\* Every step keeps the locks with handlers past the statements that took them.
LEMMA NextLocks == HandlersInv /\ LocksInv /\ [Next]_vars => LocksInv'
<1> SUFFICES ASSUME HandlersInv, LocksInv, [Next]_vars PROVE LocksInv'
  OBVIOUS
<1>0. TypeOK /\ 0 \in Nat
  BY DEF HandlersInv
<1>1. ASSUME UNCHANGED <<locks, pc, job>> PROVE LocksInv'
  BY <1>1 DEF LocksInv, MayHoldTxn, MayHoldWallet, LockedBelow, locks
<1>2. ASSUME NEW r \in Request, BeginSome(r) \/ BeginSomeReview(r) \/ Advance(r) \/ Fault(r)
      PROVE  LocksInv'
  <2> DEFINE j == job[r]
  <2>0. HandlerOK(r) /\ \A q \in Request : q # r => pc'[q] = pc[q] /\ job'[q] = job[q]
    BY <1>0, <1>2, OthersStand DEF HandlersInv
  <2>1. ASSUME walletLock' = walletLock, txnLock' = txnLock,
               pc[r] \notin {"check", "lock1", "lock2", "read", "commit"}
        PROVE  LocksInv'
    <3>1. /\ \A i \in TxnId : txnLock[i] # r
          /\ \A w \in Wallet : walletLock[w] # r
      BY <2>1 DEF LocksInv, MayHoldTxn, MayHoldWallet
    <3> QED
      BY <1>0, <2>0, <2>1, <3>1, LocksSuffice
  <2>2. ASSUME ReleaseLocks(r) PROVE LocksInv'
    <3>1. /\ \A i \in TxnId : txnLock'[i] = IF txnLock[i] = r THEN Free ELSE txnLock[i]
          /\ \A w \in Wallet : walletLock'[w] = IF walletLock[w] = r THEN Free ELSE walletLock[w]
      BY <1>0, <2>2 DEF ReleaseLocks, Unlocked, TypeOK
    <3>2. r # Free
      BY LedgerAssumption
    <3> QED
      BY <1>0, <2>0, <3>1, <3>2, LocksSuffice
  <2>3. CASE BeginSome(r) \/ BeginSomeReview(r)
    <3>1. ASSUME NEW op, NEW where, NEW fields, Begin(r, op, where, fields) PROVE LocksInv'
      BY <2>1, <3>1 DEF Begin, locks
    <3> QED
      BY <2>3, <3>1 DEF BeginSome, BeginSomeReview, BeginDeposit, BeginWithdrawal, BeginAdjust,
                        BeginTransfer, BeginReview
  <2>4. CASE LockTxn(r)
    <3>1. /\ pc[r] = "lockTxn" /\ pc'[r] = "check" /\ job' = job /\ walletLock' = walletLock
          /\ txnLock' = [txnLock EXCEPT ![j.txn] = r] /\ j.op \in Reviews
      BY <1>0, <2>0, <2>4 DEF LockTxn, HandlerOK, JobOK, TypeOK
    <3>2. /\ \A i \in TxnId : txnLock[i] # r
          /\ \A w \in Wallet : walletLock[w] # r
      BY <3>1 DEF LocksInv, MayHoldTxn, MayHoldWallet
    <3>3. \A i \in TxnId : txnLock'[i] = IF i = j.txn THEN r ELSE txnLock[i]
      BY <1>0, <3>1 DEF TypeOK
    <3>4. \A i \in TxnId : txnLock'[i] = r => MayHoldTxn(r, i)'
      BY <3>1, <3>2, <3>3 DEF MayHoldTxn
    <3> QED
      BY <1>0, <2>0, <3>1, <3>2, <3>3, <3>4, LocksSuffice
  <2>5. CASE CheckPending(r)
    <3>1. /\ pc[r] = "check" /\ pc'[r] \in {"lock1", "commit"}
          /\ walletLock' = walletLock /\ txnLock' = txnLock
          /\ job'[r] = [j EXCEPT !.wallet = txn[j.txn].wallet, !.amount = txn[j.txn].amount]
      BY <1>0, <2>5 DEF CheckPending, TypeOK, locks
    <3>2. job'[r].op = j.op /\ job'[r].txn = j.txn
      BY <1>0, <3>1 DEF TypeOK, Job
    <3>3. /\ \A i \in TxnId : txnLock'[i] = r => MayHoldTxn(r, i)'
          /\ \A w \in Wallet : walletLock[w] # r
      BY <3>1, <3>2 DEF LocksInv, MayHoldTxn, MayHoldWallet
    <3> QED
      BY <1>0, <2>0, <3>1, <3>3, LocksSuffice
  <2>6. CASE LockFirst(r)
    <3> DEFINE w == FirstLock(j)
    <3>1. /\ pc[r] = "lock1" /\ job' = job /\ txnLock' = txnLock
          /\ pc'[r] = IF j.op = "transfer" THEN "lock2" ELSE "read"
          /\ walletLock' = [walletLock EXCEPT ![w] = r]
      BY <1>0, <2>6 DEF LockFirst, TypeOK
    <3>2. w \in Nat
      <4>1. j.wallet \in Nat
        BY <3>1, JobWallet, RowAssumption
      <4>2. j.op = "transfer" => j.to \in Nat
        BY <1>0, <2>0, RowAssumption DEF HandlerOK, JobOK, TypeOK
      <4> QED
        BY <4>1, <4>2 DEF FirstLock, LockOrder
    <3>3. \A v \in Wallet : walletLock'[v] = IF v = w THEN r ELSE walletLock[v]
      BY <1>0, <3>1 DEF TypeOK
    <3>4. \A v \in Wallet : walletLock[v] # r
      BY <3>1 DEF LocksInv, MayHoldWallet
    <3>5. \A v \in Wallet : walletLock'[v] = r => MayHoldWallet(r, v)'
      BY <3>1, <3>3, <3>4 DEF MayHoldWallet
    <3>6. \A i \in TxnId : txnLock'[i] = r => MayHoldTxn(r, i)'
      BY <3>1 DEF LocksInv, MayHoldTxn, Reviews
    <3> HIDE DEF w
    <3> QED
      BY <1>0, <2>0, <3>1, <3>2, <3>3, <3>5, <3>6, LocksSuffice
  <2>7. CASE LockSecond(r)
    <3> DEFINE w == SecondLock(j)
    <3>1. /\ pc[r] = "lock2" /\ job' = job /\ txnLock' = txnLock /\ pc'[r] = "read"
          /\ walletLock' = [walletLock EXCEPT ![w] = r]
      BY <1>0, <2>7 DEF LockSecond, TypeOK
    <3>2. w \in Nat
      BY <3>1, LocksOrdered, RowAssumption
    <3>3. \A v \in Wallet : walletLock'[v] = IF v = w THEN r ELSE walletLock[v]
      BY <1>0, <3>1 DEF TypeOK
    <3>4. \A v \in Wallet : MayHoldWallet(r, v)'
      BY <3>1 DEF MayHoldWallet
    <3>5. \A i \in TxnId : txnLock[i] # r
      BY <3>1 DEF LocksInv, MayHoldTxn
    <3> HIDE DEF w
    <3> QED
      BY <1>0, <2>0, <3>1, <3>2, <3>3, <3>4, <3>5, LocksSuffice
  <2>8. CASE ReadBalances(r)
    <3>1. /\ pc[r] = "read" /\ pc'[r] = "commit" /\ job' = job
          /\ walletLock' = walletLock /\ txnLock' = txnLock
      BY <1>0, <2>8 DEF ReadBalances, TypeOK, locks
    <3>2. /\ \A i \in TxnId : txnLock'[i] = r => MayHoldTxn(r, i)'
          /\ \A w \in Wallet : MayHoldWallet(r, w)'
      BY <3>1 DEF LocksInv, MayHoldTxn, MayHoldWallet
    <3> QED
      BY <1>0, <2>0, <3>1, <3>2, LocksSuffice
  <2>9. CASE \/ CommitDeposit(r) \/ CommitAdjust(r) \/ CommitApprove(r)
             \/ CommitReject(r) \/ CommitTransfer(r) \/ Refuse(r) \/ Abort(r)
    BY <2>2, <2>9 DEF CommitDeposit, CommitAdjust, CommitApprove, CommitReject, CommitTransfer,
                      CommitBalance, Refuse, Abort, RollBack
  <2>10. CASE InsertWithdrawal(r) \/ EmitBalance(r) \/ Dispatch(r) \/ CrashAfterCommit(r)
    BY <2>1, <2>10 DEF InsertWithdrawal, EmitBalance, Dispatch, CrashAfterCommit, locks
  <2> QED
    BY <1>2, <2>3, <2>4, <2>5, <2>6, <2>7, <2>8, <2>9, <2>10 DEF Advance, Fault
<1>3. ASSUME NEW w \in Wallet, CreateWallet(w) PROVE LocksInv'
  BY <1>1, <1>3 DEF CreateWallet
<1>4. CASE UNCHANGED vars
  BY <1>1, <1>4 DEF vars
<1> QED
  BY <1>2, <1>3, <1>4 DEF Next, AllEnded

\* At the start nothing is locked.
LEMMA InitLocks == Init => LocksInv
<1> SUFFICES ASSUME Init PROVE LocksInv
  OBVIOUS
<1>1. \A r \in Request : r # Free
  BY LedgerAssumption
<1>2. LockedBelow(0) /\ 0 \in Nat
  BY DEF Init, LockedBelow
<1> QED
  BY <1>1, <1>2 DEF Init, LocksInv

\* A nonempty set of naturals has a least element.
LEMMA LeastNatural ==
    ASSUME NEW T, T \subseteq Nat, T # {}
    PROVE  \E x \in T : \A y \in T : x <= y
<1>1. PICK x \in T : \A y \in T : ~(<<y, x>> \in OpToRel(<, Nat))
  BY NatLessThanWellFounded, WFMin
<1>2. ASSUME NEW y \in T PROVE x <= y
  <2>1. x \in Nat /\ y \in Nat
    OBVIOUS
  <2>2. ~(y < x)
    BY <1>1, <2>1 DEF OpToRel
  <2> QED
    BY <2>1, <2>2
<1> QED
  BY <1>2

\* Some handler of every set waits for nobody in it: among those that hold a
\* first wallet, the one that holds the greatest waits for none of the others.
LEMMA SomeoneRuns ==
    ASSUME HandlersInv, LocksInv
    PROVE  NoDeadlock
<1> SUFFICES ASSUME NEW S \in (SUBSET Request) \ {{}}, \A r \in S : \E h \in S : BlockedOn(r, h)
             PROVE  FALSE
  BY DEF NoDeadlock
<1> DEFINE Second == {r \in S : pc[r] = "lock2"}
<1>0. /\ TypeOK
      /\ \A r \in S : r \in Request /\ r # Free /\ JobOK(r)
      /\ \A r \in S : pc[r] \in {"lockTxn", "lock1", "lock2", "insert"}
  BY LedgerAssumption DEF HandlersInv, HandlerOK, BlockedOn
<1>1. ASSUME NEW g \in S, NEW w \in Wallet, NEW h \in S, walletLock[w] = h
      PROVE  h \in Second /\ w = FirstLock(job[h])
  BY <1>0, <1>1 DEF LocksInv, MayHoldWallet
<1>2. ASSUME NEW g \in S, pc[g] # "lockTxn" PROVE Second # {}
  <2>1. PICK h \in S : BlockedOn(g, h)
    OBVIOUS
  <2>2. /\ pc[g] = "insert" => job[g].wallet \in Wallet
        /\ pc[g] = "lock1" => FirstLock(job[g]) \in Wallet
        /\ pc[g] = "lock2" => SecondLock(job[g]) \in Wallet
    <3>1. pc[g] = "insert" => job[g].wallet \in Wallet
      BY <1>0 DEF JobOK, TypeOK
    <3>2. pc[g] = "lock1" => FirstLock(job[g]) \in Wallet
      <4>1. pc[g] = "lock1" => job[g].wallet \in Wallet
        BY <1>0, JobWallet
      <4>2. job[g].op = "transfer" => job[g].to \in Wallet
        BY <1>0 DEF JobOK, TypeOK
      <4> QED
        BY <4>1, <4>2 DEF FirstLock, LockOrder
    <3> QED
      BY <1>0, <3>1, <3>2, LocksOrdered
  <2>3. \E w \in Wallet : walletLock[w] = h
    BY <1>2, <2>1, <2>2 DEF BlockedOn
  <2> QED
    BY <1>1, <2>3
<1>3. Second # {}
  <2>1. PICK g : g \in S
    OBVIOUS
  <2>2. CASE pc[g] = "lockTxn"
    <3>1. PICK h \in S : BlockedOn(g, h)
      BY <2>1
    <3>2. txnLock[job[g].txn] = h /\ job[g].txn \in TxnId
      BY <1>0, <2>1, <2>2, <3>1 DEF BlockedOn, JobOK
    <3>3. pc[h] # "lockTxn"
      BY <1>0, <3>2 DEF LocksInv, MayHoldTxn
    <3> QED
      BY <1>2, <3>3
  <2> QED
    BY <1>2, <2>1, <2>2
<1>4. PICK n \in Nat : LockedBelow(n)
  BY DEF LocksInv
<1> DEFINE T == {n - FirstLock(job[r]) : r \in Second}
<1>5. ASSUME NEW r \in Second
      PROVE  /\ FirstLock(job[r]) \in Nat /\ FirstLock(job[r]) < n
             /\ \E h \in Second : FirstLock(job[r]) < FirstLock(job[h])
  <2>1. /\ FirstLock(job[r]) \in Wallet /\ SecondLock(job[r]) \in Wallet
        /\ FirstLock(job[r]) < SecondLock(job[r])
        /\ walletLock[FirstLock(job[r])] = r
    BY <1>0, LocksOrdered
  <2>2. PICK h \in S : BlockedOn(r, h)
    OBVIOUS
  <2>3. h \in Second /\ SecondLock(job[r]) = FirstLock(job[h])
    BY <1>1, <2>1, <2>2 DEF BlockedOn
  <2> QED
    BY <1>0, <1>4, <2>1, <2>3, RowAssumption DEF LockedBelow
<1>6. T \subseteq Nat /\ T # {}
  BY <1>3, <1>5
<1>7. PICK r \in Second : \A h \in Second : n - FirstLock(job[r]) <= n - FirstLock(job[h])
  <2>1. PICK x \in T : \A y \in T : x <= y
    <3> HIDE DEF T
    <3> QED
      BY <1>6, LeastNatural
  <2>2. PICK r \in Second : x = n - FirstLock(job[r])
    BY <2>1
  <2>3. \A h \in Second : n - FirstLock(job[h]) \in T
    OBVIOUS
  <2> QED
    BY <2>1, <2>2, <2>3
<1> HIDE DEF T, Second
<1>8. PICK h \in Second : FirstLock(job[r]) < FirstLock(job[h])
  BY <1>5
<1> QED
  BY <1>5, <1>7, <1>8

\* "Deterministic lock order": however many transfers and reviews race, no set
\* of handlers is left in which everyone waits for another of the set.
THEOREM NeverDeadlocked == Spec => []NoDeadlock
BY InitLocks, NextLocks, SomeoneRuns, HandlersInvariant, PTL DEF Spec
=============================================================================
