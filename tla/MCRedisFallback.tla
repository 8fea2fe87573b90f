-------------------------- MODULE MCRedisFallback --------------------------
(***************************************************************************)
(* Instances of RedisFallback for TLC.  Pods are interchangeable, and so   *)
(* are requests.                                                           *)
(***************************************************************************)
EXTENDS RedisFallback, TLC

Symmetry == Permutations(Requests) \cup Permutations(Pods)
=============================================================================
