---- MODULE MCBufferPool ----
(* Symmetry for model checking BufferPool: buffers and views have no order. *)
EXTENDS BufferPool, TLC

Names == Permutations(Buffer) \cup Permutations(View)
====
