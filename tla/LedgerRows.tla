----------------------------- MODULE LedgerRows -----------------------------
(***************************************************************************)
(* The rows of the Transaction table (schema.prisma) and the constants     *)
(* that both the promise AtomicLedger makes and the handlers of            *)
(* WalletLedger are about.  Wallet ids are naturals: only their order      *)
(* matters (transfer sorts them), and 0 stands for a null column.          *)
(***************************************************************************)
EXTENDS ConvertMinor, Sequences, FiniteSets

CONSTANTS
    Request,     \* handlers; a row is named after the request that inserts it
    Legacy,      \* ids of pending deposits left by the older approval flow
    Wallet,      \* wallet ids
    Existing,    \* wallets that exist at the start
    Opening,     \* balance of every wallet at the start
    Currency,    \* Wallet.currency, fixed per wallet
    Rates,       \* rates the FX provider may answer with
    Amounts,     \* minor units a caller may send (DTO: integer >= 1)
    MaxInt       \* largest value of a PostgreSQL INTEGER column

ASSUME RowAssumption ==
    /\ Wallet \subseteq Nat \ {0}
    /\ Existing \subseteq Wallet
    /\ MaxInt \in Nat
    /\ Opening \in [Wallet -> 0 .. MaxInt]
    /\ \A w \in Wallet \ Existing : Opening[w] = 0
    /\ Amounts \subseteq Nat \ {0}
    /\ Rates \subseteq (Nat \ {0}) \X (Nat \ {0})
    /\ Request \cap Legacy = {}

Null == -1
NoRate == <<0, 1>>

\* Primary keys of the Transaction table: leg 1 is the row a request inserts,
\* leg 2 the transfer_in row of a transfer.  Both legs carry one transferId.
TxnId == (Request \cup Legacy) \X {1, 2}

RowTypes == {"none", "deposit", "withdrawal", "adjustment", "transfer_out", "transfer_in"}

Row == [type: RowTypes, wallet: Wallet \cup {0}, amount: Nat, before: Int, after: Int,
        status: {"absent", "pending", "approved", "rejected"},
        peer: Wallet \cup {0}, rate: Rates \cup {NoRate}]

NoRow == [type |-> "none", wallet |-> 0, amount |-> 0, before |-> Null, after |-> Null,
          status |-> "absent", peer |-> 0, rate |-> NoRate]

\* A row still to be reviewed: no balances yet.
PendingRow(type, w, a) ==
    [type |-> type, wallet |-> w, amount |-> a, before |-> Null, after |-> Null,
     status |-> "pending", peer |-> 0, rate |-> NoRate]

\* A row written already settled, with its link in the balance chain.
SettledRow(type, w, a, before, after) ==
    [type |-> type, wallet |-> w, amount |-> a, before |-> before, after |-> after,
     status |-> "approved", peer |-> 0, rate |-> NoRate]

TransferRow(type, w, a, before, after, peer, rate) ==
    [type |-> type, wallet |-> w, amount |-> a, before |-> before, after |-> after,
     status |-> "approved", peer |-> peer, rate |-> rate]

\* transfer: no rate is asked for, and none recorded, within one currency.
Quote(from, to, a, rate) ==
    IF Currency[from] = Currency[to] THEN [rate |-> NoRate, credit |-> a]
                                     ELSE [rate |-> rate, credit |-> ConvertMinorAmount(a, rate)]

\* The deposits the older approval flow left pending.
InitialRows(old) ==
    [i \in TxnId |-> IF i[1] \in Legacy /\ i[2] = 1
                     THEN PendingRow("deposit", old[i[1]][1], old[i[1]][2])
                     ELSE NoRow]
=============================================================================
