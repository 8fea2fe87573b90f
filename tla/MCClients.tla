----------------------------- MODULE MCClients ------------------------------
(* Instances of Clients for TLC.  Calls are interchangeable. *)
EXTENDS Clients, TLC

Symmetry == Permutations(Calls)
=============================================================================
