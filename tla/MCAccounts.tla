---------------------------- MODULE MCAccounts ----------------------------
(***************************************************************************)
(* The instance of Accounts for TLC: whose tab is whose, who starts with   *)
(* which role, and that the two desks differ in name only.                 *)
(***************************************************************************)
EXTENDS Accounts, TLC

OwnerOfTab == [t \in Session |-> IF t = "t1" THEN "ann" ELSE "bob"]
FirstRoles == [p \in User |-> IF p = "ann" THEN "super_admin" ELSE "admin"]
DesksAlike == Permutations(Staff)
=============================================================================
