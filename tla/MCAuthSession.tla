--------------------------- MODULE MCAuthSession ---------------------------
(***************************************************************************)
(* Instances of AuthSession for TLC.  Requests are model values; the       *)
(* specification treats them alike, so permuting them is a symmetry.       *)
(***************************************************************************)
EXTENDS AuthSession, TLC

Symmetry == Permutations(Requests)
=============================================================================
