----------------------------- MODULE MCSettings -----------------------------
(* Instances of Settings for TLC.  The values are in the cfg files. *)
EXTENDS Settings
=============================================================================
