---------------------------- MODULE OrderedStream ----------------------------
(***************************************************************************)
(* What a media window promises to the client: packets come out in the     *)
(* sender's order, each at most once; some may be missing.                 *)
(***************************************************************************)
EXTENDS Integers, Sequences

VARIABLES
  frontier,  \* every packet before it was delivered or given up
  emitted    \* packets of the latest step, in order

Ascending(s) == \A i, j \in 1..Len(s) : i < j => s[i] < s[j]

Init == frontier = 0 /\ emitted = <<>>

Step == /\ frontier' >= frontier
        /\ Ascending(emitted')
        /\ \A i \in 1..Len(emitted') : emitted'[i] \in frontier..frontier' - 1

Spec == Init /\ [][Step]_<<frontier, emitted>>
==============================================================================
