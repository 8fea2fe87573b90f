--------------------------- MODULE MCPermissions ----------------------------
(* Instances of Permissions for TLC.  Users and requests are               *)
(* interchangeable.                                                         *)
EXTENDS Permissions, TLC

Symmetry == Permutations(Users) \cup Permutations(Requests)
=============================================================================
