------------------------------- MODULE MCNews -------------------------------
(* Instances of News for TLC.  Requests are interchangeable. *)
EXTENDS News, TLC

Symmetry == Permutations(Requests)
=============================================================================
