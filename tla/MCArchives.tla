----------------------------- MODULE MCArchives -----------------------------
(***************************************************************************)
(* Instances of Archives for TLC.  Requests are interchangeable, and so    *)
(* are codes.                                                              *)
(***************************************************************************)
EXTENDS Archives, TLC

Symmetry == Permutations(Requests) \cup Permutations(Codes)
=============================================================================
