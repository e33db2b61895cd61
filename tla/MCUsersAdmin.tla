--------------------------- MODULE MCUsersAdmin ---------------------------
(***************************************************************************)
(* User administration for TLC: a super_admin and an admin who change each *)
(* other's role while their tokens say what they were.                     *)
(***************************************************************************)
EXTENDS UsersAdmin, TLC
CONSTANTS a, b

FirstRoles == a :> "super_admin" @@ b :> "admin"
=============================================================================
