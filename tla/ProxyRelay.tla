---------------------------- MODULE ProxyRelay ----------------------------
(***************************************************************************)
(* An HTTP proxy body on its way from the upstream socket through the send *)
(* queue of a connection to the client's socket (http_proxy.c,             *)
(* connection.c, send_queue.c and the write list of worker.c).  Both       *)
(* sockets are edge-triggered.  Payload is counted in units; a receive     *)
(* fills at most one pool buffer, and a queued buffer keeps its whole      *)
(* capacity until its last unit is sent.                                   *)
(***************************************************************************)
EXTENDS Integers, Sequences, FiniteSets, FiniteSetsExt

CONSTANTS
  Cap,          \* units in a buffer (BUFFER_POOL_BUFFER_SIZE)
  Batch,        \* units that are flushed at once (SEND_QUEUE_BATCH_BYTES)
  Budget,       \* units written in one turn (256 KiB)
  Limits,       \* values the queue limit takes as streams and the pool change
  Room,         \* units the client's socket holds
  Total,        \* bound: units in the body
  Framings,     \* {TRUE, FALSE}: bodies with and without a Content-Length
  Resets,       \* the upstream may reset the connection after its last unit
  PoolFails     \* bound: times the buffer pool is exhausted

ASSUME RelayAssumption ==
  /\ Cap \in Nat \ {0} /\ Batch \in Nat \ {0} /\ Budget \in Nat \ {0}
  /\ \A l \in Limits : l \in Nat /\ l >= 4 * Cap
  /\ Room \in Nat \ {0} /\ Total \in Nat \ {0} /\ PoolFails \in Nat
  /\ Framings \subseteq BOOLEAN /\ Resets \in BOOLEAN

VARIABLES
  sized,    \* the response has a Content-Length
  coming,   \* units the upstream has yet to send
  kernel,   \* units received and not read
  ended,    \* "open", "fin" or "rst": how the upstream ended
  edges,    \* events of the upstream socket not yet delivered: "IN", "ERR"
  pstate,   \* the proxy session: "STREAMING", "COMPLETE"
  paused,   \* upstream_paused
  queue,    \* unsent units of each queued buffer
  total,    \* total_bytes
  memory,   \* memory_bytes
  room,     \* free units in the client's socket
  armed,    \* write_poll_armed
  writable, \* the event of the client's socket not yet delivered
  pending,  \* the connection is on the worker's write list
  state,    \* "STREAMING", "CLOSING", or how it was closed: "DRAINED", "ABORTED"
  sent,     \* history: units the client's socket took
  fails     \* times the pool was exhausted

upstream == <<coming, kernel, ended, edges>>
relay    == <<pstate, paused, queue, total, memory, pending, state>>
client   == <<room, armed, writable, sent>>
vars     == <<sized, upstream, relay, client, fails>>

Hwm(l) == (l * 3) \div 4
Lwm(l) == l \div 2
Closed == state \in {"DRAINED", "ABORTED"}
Sum(q) ==
  LET s[k \in 0..Len(q)] == IF k = 0 THEN 0 ELSE s[k - 1] + q[k]
  IN  s[Len(q)]

-----------------------------------------------------------------------------
(* The send queue.  The handlers work on a record of the relay's state.    *)

Here == [pstate |-> pstate, paused |-> paused, queue |-> queue, total |-> total,
         memory |-> memory, pending |-> pending, state |-> state,
         kernel |-> kernel, armed |-> armed, failed |-> FALSE]

\* connection_schedule_write
Schedule(x) == [x EXCEPT !.pending = @ \/ ~x.armed]

\* connection_queue_buffer, send_queue_add, send_queue_should_flush
Queue(x, n) ==
  LET y == [x EXCEPT !.queue = Append(@, n), !.total = @ + n, !.memory = @ + Cap]
  IN  IF y.total >= Batch THEN Schedule(y) ELSE y

\* send_queue_consume_memory, send_queue_pop_head
Consume(x, n) ==
  LET gone == Max({k \in 0..Len(x.queue) : Sum(SubSeq(x.queue, 1, k)) <= n})
      rest == SubSeq(x.queue, gone + 1, Len(x.queue))
      part == n - Sum(SubSeq(x.queue, 1, gone))
  IN  [x EXCEPT !.queue = IF rest = <<>> THEN rest ELSE [rest EXCEPT ![1] = @ - part],
                !.total = @ - n, !.memory = @ - Cap * gone]

-----------------------------------------------------------------------------
(* Receiving from the upstream: l is the queue limit, f the buffers left    *)

\* units the loop has taken after k buffers
Taken(x, k) == Min({x.kernel, k * Cap})

\* connection_queue_buffer has no place for one buffer more
Refuses(x, k, l) == x.memory + (k + 1) * Cap > l

\* connection_should_pause_upstream, after k buffers
Pauses(x, k, l) == x.memory + k * Cap >= Hwm(l)

\* http_proxy_try_receive_response until it makes no progress: it pauses, a
\* buffer cannot be allocated, nothing is left, the queue refuses a buffer, or
\* the content is complete
Receive(x, l, f) ==
  LET most == Min({k \in 0..Total : \/ Pauses(x, k, l) \/ k = f
                                    \/ Taken(x, k) = x.kernel \/ Refuses(x, k, l)})
      \* after k buffers
      queued[k \in 0..most] ==
        IF k = 0 THEN [x EXCEPT !.kernel = @ - Taken(x, most)]
        ELSE Queue(queued[k - 1], Taken(x, k) - Taken(x, k - 1))
      y    == queued[most]
      done == sized /\ coming + y.kernel = 0
  IN  IF most > 0 /\ done THEN [y EXCEPT !.pstate = "COMPLETE"]
      ELSE IF Pauses(x, most, l) THEN [y EXCEPT !.paused = TRUE]
      ELSE IF most = f THEN [y EXCEPT !.failed = TRUE]
      ELSE IF y.kernel > 0 THEN [y EXCEPT !.failed = TRUE, !.kernel = x.kernel - Taken(x, most + 1)]
      ELSE IF ended # "open" THEN [y EXCEPT !.pstate = "COMPLETE"]
      ELSE y

\* mutant: the close is not followed by a write
DrainCloseQuiet(x) == [x EXCEPT !.state = "CLOSING"]

\* connection_begin_drain_close
DrainClose(x) == IF x.state = "CLOSING" THEN x ELSE Schedule([x EXCEPT !.state = "CLOSING"])

\* http_proxy_resume_upstream; a failure only ends its loop
Resume(x, l, f) ==
  LET y == Receive([x EXCEPT !.paused = FALSE], l, f)
  IN  IF y.pstate = "COMPLETE" THEN DrainClose(y) ELSE y

\* stream_on_client_drain
OnDrain(x, l, f) ==
  IF x.paused /\ x.memory <= Lwm(l) THEN Resume(x, l, f) ELSE x

-----------------------------------------------------------------------------
Become(after) == \E x \in {after} :
  /\ pstate' = x.pstate /\ paused' = x.paused /\ queue' = x.queue /\ total' = x.total
  /\ memory' = x.memory /\ pending' = x.pending /\ state' = x.state
  /\ kernel' = x.kernel /\ armed' = x.armed

\* f buffers are left of the pool, or more than the body can fill
Buffers == (IF fails < PoolFails THEN 0..Total \div Cap ELSE {}) \cup {Total + 1}

Exhausts(f) == fails' = IF f <= Total THEN fails + 1 ELSE fails

\* http_proxy_handle_socket_event; on an error the worker closes the
\* connection, whose headers were sent
UpstreamEvent(l, f) ==
  /\ edges # {} /\ pstate = "STREAMING" /\ ~Closed
  /\ LET x == IF "IN" \in edges THEN Receive(Here, l, f) ELSE Here
         y == IF "ERR" \in edges THEN [x EXCEPT !.pstate = "COMPLETE"] ELSE x
     IN  Become(CASE x.failed -> [x EXCEPT !.state = "ABORTED"]
                  [] ~x.failed /\ y.pstate = "COMPLETE" -> DrainClose(y)
                  [] ~x.failed /\ y.pstate # "COMPLETE" -> y)
  /\ edges' = {}
  /\ Exhausts(f)
  /\ UNCHANGED <<sized, coming, ended, room, writable, sent>>

\* mutant: a closing connection is closed after one turn
WriteCloses(x, n, l, f) ==
  LET y == Consume([x EXCEPT !.pending = FALSE], n)
  IN  IF y.state = "CLOSING" THEN [y EXCEPT !.armed = FALSE, !.state = "DRAINED"]
      ELSE IF y.queue = <<>> THEN OnDrain([y EXCEPT !.armed = FALSE], l, f)
      ELSE OnDrain([y EXCEPT !.armed = TRUE], l, f)

\* connection_handle_write takes n units: the queue is empty, the turn is
\* over, or the socket is full
Write(x, n, l, f) ==
  LET y    == Consume([x EXCEPT !.pending = FALSE], n)
      idle == OnDrain([y EXCEPT !.armed = FALSE], l, f)
  IN  CASE y.queue = <<>> /\ y.state = "CLOSING" -> [y EXCEPT !.armed = FALSE, !.state = "DRAINED"]
        [] y.queue = <<>> /\ y.state # "CLOSING" ->
             IF n = 0 THEN [y EXCEPT !.armed = FALSE]
             ELSE IF idle.queue # <<>> THEN Schedule(idle) ELSE idle
        [] y.queue # <<>> /\ n = Budget -> [idle EXCEPT !.pending = TRUE]
        [] y.queue # <<>> /\ n < Budget ->
             IF n > 0 THEN OnDrain([y EXCEPT !.armed = TRUE], l, f) ELSE [y EXCEPT !.armed = TRUE]

\* worker_drain_writes
DrainWrites(l, f) ==
  /\ pending /\ ~Closed
  /\ LET n == Min({room, total, Budget})
     IN  /\ Become(Write(Here, n, l, f))
         /\ room' = room - n /\ sent' = sent + n
  /\ Exhausts(f)
  /\ UNCHANGED <<sized, coming, ended, edges, writable>>

\* the client's socket has room again (worker_run_event_loop, POLLER_OUT)
WritableEvent ==
  /\ writable /\ ~Closed
  /\ writable' = FALSE /\ pending' = TRUE
  /\ UNCHANGED <<sized, upstream, pstate, paused, queue, total, memory, state, room, armed, sent, fails>>

-----------------------------------------------------------------------------
(* The two ends of the relay                                               *)

Arrive(n) ==
  /\ n \in 1..coming /\ ended = "open"
  /\ coming' = coming - n /\ kernel' = kernel + n
  /\ edges' = edges \cup {"IN"}
  /\ UNCHANGED <<sized, ended, relay, client, fails>>

End(how) ==
  /\ coming = 0 /\ ended = "open" /\ (how = "rst" => Resets)
  /\ ended' = how
  /\ edges' = edges \cup (IF how = "rst" THEN {"IN", "ERR"} ELSE {"IN"})
  /\ UNCHANGED <<sized, coming, kernel, relay, client, fails>>

\* the client reads everything; a full socket that is watched reports it
ClientReads ==
  /\ room < Room /\ ~Closed
  /\ room' = Room
  /\ writable' = (writable \/ (armed /\ room = 0))
  /\ UNCHANGED <<sized, upstream, relay, armed, sent, fails>>

Init ==
  /\ sized \in Framings
  /\ coming = Total /\ kernel = 0 /\ ended = "open" /\ edges = {}
  /\ pstate = "STREAMING" /\ paused = FALSE /\ queue = <<>> /\ total = 0 /\ memory = 0
  /\ room = Room /\ armed = FALSE /\ writable = FALSE /\ pending = FALSE
  /\ state = "STREAMING" /\ sent = 0 /\ fails = 0

Handles == \E l \in Limits, f \in Buffers : UpstreamEvent(l, f)
Drains  == \E l \in Limits, f \in Buffers : DrainWrites(l, f)

Next ==
  \/ Handles \/ Drains \/ WritableEvent \/ ClientReads
  \/ \E n \in 1..Total : Arrive(n)
  \/ \E how \in {"fin", "rst"} : End(how)

\* The worker's loop reaches every event and the write list (weak fairness of
\* the two handlers, with what enables them written out); the upstream sends
\* its body; the client reads.
Fairness ==
  /\ []<>~(edges # {} /\ pstate = "STREAMING" /\ ~Closed) \/ []<><<Handles>>_vars
  /\ []<>~(pending /\ ~Closed) \/ []<><<Drains>>_vars
  /\ WF_vars(WritableEvent) /\ WF_vars(ClientReads)
  /\ WF_vars(\E n \in 1..Total : Arrive(n)) /\ WF_vars(End("fin"))

Spec == Init /\ [][Next]_vars /\ Fairness
-----------------------------------------------------------------------------
\* The two totals of the send queue are exact through partial writes: payload
\* goes with each write, capacity with the last unit of its buffer.
QueueExact == total = Sum(queue) /\ memory = Cap * Len(queue)

\* The variables' types, with the totals of the queue.
TypeOK ==
  /\ QueueExact
  /\ sized \in Framings
  /\ coming \in 0..Total /\ kernel \in 0..Total /\ ended \in {"open", "fin", "rst"}
  /\ edges \subseteq {"IN", "ERR"} /\ pstate \in {"STREAMING", "COMPLETE"}
  /\ paused \in BOOLEAN /\ queue \in Seq(1..Cap) /\ total \in 0..Total /\ memory \in Nat
  /\ room \in 0..Room /\ armed \in BOOLEAN /\ writable \in BOOLEAN /\ pending \in BOOLEAN
  /\ state \in {"STREAMING", "CLOSING", "DRAINED", "ABORTED"}
  /\ sent \in 0..Total /\ fails \in 0..PoolFails

\* The body is never cut by backpressure: the queue refuses no buffer whatever
\* the limit becomes between two of its checks, so the connection is given up
\* only for an exhausted pool.
NeverCut == state = "ABORTED" => fails > 0

\* A connection that closes in order has written the whole body, whatever
\* closed the upstream connection.
Complete == state = "DRAINED" => sent = Total

\* The same unless the upstream resets the connection.
CompleteUnlessReset == ended # "rst" => Complete

\* The totals of the queue, and no body cut short by backpressure or at its end.
Inv == TypeOK /\ NeverCut /\ CompleteUnlessReset

\* Whatever lies in the upstream socket will be read: an event is due, or the
\* reads are paused.
UnreadIsCovered ==
  ~Closed /\ pstate = "STREAMING" /\ kernel > 0 => edges # {} \/ paused

\* A client that reads gets the whole body and its connection is closed.
Delivered == <>(state = "DRAINED")

\* Nothing but an exhausted pool, a reset and one known state stops the body:
\* reads paused for good with less queued than is ever flushed.
DeliveredUnlessShort ==
  \/ <>(state = "DRAINED" \/ fails > 0 \/ ended = "rst")
  \/ <>[](paused /\ total < Batch)
=============================================================================
