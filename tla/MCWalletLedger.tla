--------------------------- MODULE MCWalletLedger ---------------------------
(***************************************************************************)
(* Instances of WalletLedger for TLC.  The .cfg files choose which         *)
(* operations run; the values that a .cfg cannot write are defined here.   *)
(***************************************************************************)
EXTENDS WalletLedger, TLC

CONSTANTS alice, bob, staff

\* One wallet with 2 units; a column that holds at most 3, so that a debit can
\* miss its funds and a credit can overflow.
OneWallet == [w \in Wallet |-> 2]
OneOwner == [w \in Wallet |-> alice]
OneCurrency == [w \in Wallet |-> "USD"]

\* Two wallets in USD, a third (if any) in EUR, owned by two customers.
TwoEach == [w \in Wallet |-> IF w \in Existing THEN 2 ELSE 0]
TwoOwners == [w \in Wallet |-> IF w = 1 THEN alice ELSE bob]
ThirdInEuro == [w \in Wallet |-> IF w = 3 THEN "EUR" ELSE "USD"]

\* A half: odd amounts tie in the rounding.
HalfRate == {<<1, 2>>}

StaffApproves == [type \in {"deposit", "withdrawal"} |-> {staff}]

RequestSymmetry == Permutations(Request)
=============================================================================
