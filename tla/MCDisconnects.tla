---------------------------- MODULE MCDisconnects ----------------------------
(* Disconnects on small instances. *)
EXTENDS Disconnects, TLC

Addresses == Permutations(Ip)
=============================================================================
