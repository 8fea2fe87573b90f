----------------------------- MODULE MCUafeForm -----------------------------
(***************************************************************************)
(* Instances of UafeForm for TLC.  Requests are interchangeable.           *)
(***************************************************************************)
EXTENDS UafeForm, TLC

Symmetry == Permutations(Requests)
=============================================================================
