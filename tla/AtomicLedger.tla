---------------------------- MODULE AtomicLedger ----------------------------
(***************************************************************************)
(* What the ledger promises its callers: no locks, no reads kept for       *)
(* later, no handlers in flight.  A money movement happens in one step, on *)
(* the balances of that very instant, and settles a row that was not       *)
(* settled before.  WalletLedger implements this specification: that it    *)
(* does is the absence of lost updates and of double settlements.          *)
(***************************************************************************)
EXTENDS LedgerRows

VARIABLES
    exists,    \* wallets in the Wallet table
    balance,   \* Wallet.balance
    txn,       \* the Transaction table
    settled    \* per wallet, the ids of its approved rows in commit order

ledger == <<exists, balance, txn, settled>>

Init ==
    /\ exists = Existing
    /\ balance = Opening
    /\ \E old \in [Legacy -> Existing \X Amounts] : txn = InitialRows(old)
    /\ settled = [w \in Wallet |-> <<>>]

Open(w) ==
    /\ w \notin exists
    /\ exists' = exists \cup {w}
    /\ UNCHANGED <<balance, txn, settled>>

\* A withdrawal request only leaves a pending row.
Ask(i, w, a) ==
    /\ w \in exists
    /\ txn[i].status = "absent"
    /\ txn' = [txn EXCEPT ![i] = PendingRow("withdrawal", w, a)]
    /\ UNCHANGED <<exists, balance, settled>>

\* Wallet w goes to the balance `after` by row i.
Post(i, w, after) ==
    /\ after \in 0 .. MaxInt
    /\ balance' = [balance EXCEPT ![w] = after]
    /\ settled' = [settled EXCEPT ![w] = Append(@, i)]
    /\ UNCHANGED exists

Deposit(i, w, a) ==
    /\ w \in exists
    /\ txn[i].status = "absent"
    /\ Post(i, w, balance[w] + a)
    /\ txn' = [txn EXCEPT ![i] = SettledRow("deposit", w, a, balance[w], balance[w] + a)]

Adjust(i, w, a, after) ==
    /\ w \in exists
    /\ txn[i].status = "absent"
    /\ after \in {balance[w] + a, balance[w] - a}
    /\ Post(i, w, after)
    /\ txn' = [txn EXCEPT ![i] = SettledRow("adjustment", w, a, balance[w], after)]

Approve(i) ==
    LET t == txn[i]
        after == IF t.type = "withdrawal" THEN balance[t.wallet] - t.amount
                                          ELSE balance[t.wallet] + t.amount
    IN
    /\ t.status = "pending"
    /\ Post(i, t.wallet, after)
    /\ txn' = [txn EXCEPT ![i].status = "approved",
                          ![i].before = balance[t.wallet], ![i].after = after]

Reject(i) ==
    /\ txn[i].status = "pending"
    /\ txn' = [txn EXCEPT ![i].status = "rejected"]
    /\ UNCHANGED <<exists, balance, settled>>

\* Both wallets move, and both legs appear, in the same step.
Move(r, from, to, a, rate) ==
    LET q == Quote(from, to, a, rate)
        fromAfter == balance[from] - a
        toAfter == balance[to] + q.credit
    IN
    /\ {from, to} \subseteq exists
    /\ from # to
    /\ txn[<<r, 1>>].status = "absent"
    /\ txn[<<r, 2>>].status = "absent"
    /\ fromAfter \in 0 .. MaxInt
    /\ toAfter \in 0 .. MaxInt
    /\ balance' = [balance EXCEPT ![from] = fromAfter, ![to] = toAfter]
    /\ txn' = [txn EXCEPT
          ![<<r, 1>>] = TransferRow("transfer_out", from, a, balance[from], fromAfter, to, q.rate),
          ![<<r, 2>>] = TransferRow("transfer_in", to, q.credit, balance[to], toAfter, from, q.rate)]
    /\ settled' = [settled EXCEPT ![from] = Append(@, <<r, 1>>), ![to] = Append(@, <<r, 2>>)]
    /\ UNCHANGED exists

Next ==
    \/ \E w \in Wallet : Open(w)
    \/ \E r \in Request, w \in Wallet, a \in Amounts :
          \/ Ask(<<r, 1>>, w, a)
          \/ Deposit(<<r, 1>>, w, a)
          \/ \E after \in 0 .. MaxInt : Adjust(<<r, 1>>, w, a, after)
          \/ \E to \in Wallet, rate \in Rates : Move(r, w, to, a, rate)
    \/ \E i \in TxnId : Approve(i) \/ Reject(i)

Spec == Init /\ [][Next]_ledger
=============================================================================
