------------------------------ MODULE MCWorker ------------------------------
(* TransmuxWorker on small instances. *)
EXTENDS TransmuxWorker

\* Durations of 1 and 2 in turn.
Beginnings == [k \in 0..LastSequence+1 |-> k + k \div 2]
TsThenMp4  == [k \in Sequence |-> IF k = 0 THEN NoInit ELSE IF k = 1 THEN "a" ELSE "b"]

Stream(mode, mp2, items) == [mode |-> mode, mp2 |-> mp2, items |-> items]
\* A URL known to be a playlist starts like one that turns out to be ("list").
AllKinds == {Stream("live", TRUE, <<"ts">>), Stream("live", FALSE, <<"list">>),
             Stream("static", TRUE, <<"ts", "ts">>), Stream("static", FALSE, <<"mp4", "mp4">>),
             Stream("static", FALSE, <<"junk">>)}
=============================================================================
