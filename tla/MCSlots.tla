------------------------------ MODULE MCSlots ------------------------------
(* ClientSlots with interchangeable workers. *)
EXTENDS ClientSlots, TLC

Workers == Permutations(Pid)
=============================================================================
