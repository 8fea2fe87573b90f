------------------------------ MODULE MCInbox -------------------------------
(* Instances of Inbox for TLC.  Requests and sockets are interchangeable. *)
EXTENDS Inbox, TLC

Symmetry == Permutations(Requests) \cup Permutations(Sockets)
=============================================================================
