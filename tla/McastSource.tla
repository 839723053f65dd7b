---------------------------- MODULE McastSource ----------------------------
(***************************************************************************)
(* One shared multicast source of a worker and its subscribers             *)
(* (multicast.c).  Subscribers without processing of their own share one   *)
(* reorder window and one batch of payload; the others (snapshot, FCC, FEC)*)
(* get every packet through a window of their own until they can change    *)
(* over.  A packet is its position in the stream; the windows are those of *)
(* RtpReorder without the wrap of sequence numbers and without FEC: what a *)
(* connection gets once FEC is at work in its window is RtpReorder's.      *)
(***************************************************************************)
EXTENDS Integers, Sequences, FiniteSets, FiniteSetsExt, SequencesExt

CONSTANTS
  Client,       \* connections of the worker
  NoClient,     \* an fd without a connection
  Window,       \* slots of a reorder window
  InitCollect,  \* packets collected before delivery starts
  BatchCap,     \* packets in a full batch (BUFFER_POOL_BATCH_SIZE)
  LastPacket,   \* bound: packets of the stream
  Late, Skip,   \* bounds: how far behind the newest packet one may arrive, and
                \* how many may be missing in front of it
  StartSpan,    \* bound: the packets a window collects before its delivery starts
                \* are less than this apart
  Behind,       \* bound: how far behind the group's next packet a unicast part may
                \* leave the window of a connection
  MaxLacks,     \* bound: for how many connections a step may have no view, and for how
                \* many packets it may find a queue too full, together
  MaxJoins      \* bound: subscriptions

ASSUME SourceAssumption ==
  /\ NoClient \notin Client
  /\ Window \in Nat \ {0} /\ InitCollect \in Nat \ {0} /\ BatchCap \in Nat \ {0}
  /\ LastPacket \in Nat /\ Late \in Nat /\ Skip \in Nat /\ MaxJoins \in Nat /\ MaxLacks \in Nat
  /\ StartSpan \in Nat /\ StartSpan <= Window /\ Behind \subseteq Int

VARIABLES
  subs,     \* subscribers, the latest first; none: there is no source
  batched,  \* the subscribers that share the window and the batch
  shared,   \* shared_output: no in-band FEC was seen
  failed,   \* the source failed
  win,      \* its reorder window
  batch,    \* payload collected for the batched subscribers
  owner,    \* the connection the source's socket is mapped to
  ctx,      \* what each connection has: own window, special (snapshot or FCC at
            \* work), fec (at work in that window), failed, closing
  out,      \* history: what was queued for each connection since it joined
  due,      \* history: packets each connection is to get since it joined; not
            \* those its queue refused
  got, head,  \* history: packets received; the newest of them
  joins     \* number of subscriptions

source == <<subs, batched, shared, failed, win, batch, owner>>
vars   == <<source, ctx, out, due, got, head, joins>>

Fresh  == [phase |-> 0, base |-> 0, held |-> {}]
NoCtx  == [win |-> Fresh, special |-> FALSE, fec |-> FALSE, failed |-> FALSE, closing |-> FALSE]
Subs   == ToSet(subs)

\* whom packets are handed to here; nobody of the batch has FEC at work
Takes(c, cx) == ~cx[c].failed /\ ~cx[c].closing /\ ~cx[c].fec

-----------------------------------------------------------------------------
(* rtp_reorder_insert without FEC: the window and what it delivers         *)

\* the packets of a set in order
Ascending(S) == CHOOSE q \in [1..Cardinality(S) -> S] :
                  /\ \A i, j \in DOMAIN q : i < j => q[i] < q[j]
                  /\ \A s \in S : \E i \in DOMAIN q : q[i] = s

\* what the slot of packet p holds
At(w, p) == {h \in w.held : h % Window = p % Window}
Occupant(w, p) == CHOOSE h \in At(w, p) : TRUE

\* into its slot, in place of what is there: nothing, or the same packet
Put(w, s) == [w EXCEPT !.held = (@ \ At(w, s)) \cup {s}]

\* the packets held are counted: each once, in a slot of its own
Flush(w) ==
  LET n == Min({k \in 0..Cardinality(w.held) : k = Cardinality(w.held) \/ At(w, w.base + k) = {}})
  IN  [win |-> [w EXCEPT !.base = w.base + n,
                         !.held = @ \ UNION {At(w, p) : p \in w.base .. w.base + n - 1}],
       out |-> [k \in 1..n |-> Occupant(w, w.base + k - 1)]]

\* force_flush_until: the slots up to that of packet b are emptied in turn
Forced(w, b) ==
  LET top    == Min({b, w.base + Window})
      passed == {p \in w.base .. top - 1 : At(w, p) # {}}
  IN  [win |-> [w EXCEPT !.base = b, !.held = @ \ UNION {At(w, p) : p \in passed}],
       out |-> [k \in 1..Cardinality(passed) |-> Occupant(w, Ascending(passed)[k])]]

Insert(w, s) ==
  CASE w.phase = 0 -> [win |-> [phase |-> 1, base |-> s, held |-> {s}], out |-> <<>>]
    [] w.phase = 1 ->
         LET x == IF At(w, s) # {} THEN w
                  ELSE [w EXCEPT !.held = @ \cup {s}, !.base = IF s < @ THEN s ELSE @]
         IN  IF Cardinality(x.held) >= InitCollect THEN Flush([x EXCEPT !.phase = 2])
                                                   ELSE [win |-> x, out |-> <<>>]
    [] w.phase = 2 /\ s < w.base -> [win |-> w, out |-> <<>>]
    [] w.phase = 2 /\ s = w.base -> Flush(Put(w, s))
    [] w.phase = 2 /\ s > w.base ->
         IF s - w.base < Window THEN [win |-> Put(w, s), out |-> <<>>]
         ELSE LET y == Forced(w, s - Window + 1) IN [win |-> Put(y.win, s), out |-> y.out]

-----------------------------------------------------------------------------
(* The shared output works on a record of the batch, the connections, their*)
(* output and what is due to them.  e, what a step lacks: the connections  *)
(* no view (or window) can be made for (bad), whether no batch can be      *)
(* allocated (full), and the packets (of a batch the first) that the queue *)
(* of a connection is too full for (refuse).                               *)

\* mcast_source_fanout: one subscriber takes the batch itself
Fanout(x, data, e) ==
  LET lone == Len(subs) = 1
      lost == {c \in batched : Takes(c, x.ctx) /\ ~lone /\ c \in e.bad}
      over == {c \in batched : Takes(c, x.ctx) /\ <<c, data[1]>> \in e.refuse} \ lost
      fed  == {c \in batched : Takes(c, x.ctx)} \ (lost \cup over)
  IN  [batch |-> x.batch,
       ctx   |-> [c \in Client |-> [x.ctx[c] EXCEPT !.failed = @ \/ c \in lost]],
       out   |-> [c \in Client |-> IF c \in fed THEN x.out[c] \o data ELSE x.out[c]],
       due   |-> [c \in Client |-> IF c \in over THEN x.due[c] \ ToSet(data) ELSE x.due[c]]]

\* mcast_source_flush
FlushBatch(x, e) ==
  IF x.batch = <<>> THEN x ELSE Fanout([x EXCEPT !.batch = <<>>], x.batch, e)

\* mcast_source_append
AppendPacket(x, s, e) ==
  IF batched = {} THEN x
  ELSE IF x.batch = <<>> /\ e.full THEN Fanout(x, <<s>>, e)
  ELSE LET y == [x EXCEPT !.batch = Append(@, s)]
       IN  IF Len(y.batch) = BatchCap THEN FlushBatch(y, e) ELSE y

\* the packets of a delivery one after another
AppendAll(x, data, e) ==
  LET upto[k \in 0..Len(data)] == IF k = 0 THEN x ELSE AppendPacket(upto[k-1], data[k], e)
  IN  upto[Len(data)]

Here == [batch |-> batch, ctx |-> ctx, out |-> out, due |-> due]

Become(x) == batch' = x.batch /\ ctx' = x.ctx /\ out' = x.out /\ due' = x.due

-----------------------------------------------------------------------------
(* mcast_session_join and mcast_session_cleanup                            *)

\* the client is new, or leaves the unicast part of its FCC session; n, what it
\* has then
Join(c, n, e) ==
  /\ c \notin Subs /\ joins < MaxJoins /\ ~failed
  /\ joins' = joins + 1
  /\ LET first == subs = <<>>
         y == FlushBatch(Here, e)
     IN  /\ subs' = <<c>> \o subs
         /\ shared' = (first \/ shared)
         /\ win' = IF first THEN Fresh ELSE win
         /\ batched' = IF shared' /\ ~n.special THEN batched \cup {c} ELSE batched
         /\ Become([y EXCEPT !.ctx[c] = n, !.out[c] = <<>>,
                             !.due[c] = IF c \in batched' THEN win'.held ELSE {}])
  /\ owner' = c
  /\ UNCHANGED <<failed, got, head>>

Without(c) == RemoveAt(subs, CHOOSE k \in 1..Len(subs) : subs[k] = c)

\* mutant: the socket stays mapped to the connection that leaves
LeaveMapped(c) ==
  /\ c \in Subs
  /\ subs' = Without(c)
  /\ batched' = batched \ {c}
  /\ ctx' = [ctx EXCEPT ![c] = NoCtx]
  /\ out' = [out EXCEPT ![c] = <<>>] /\ due' = [due EXCEPT ![c] = {}]
  /\ IF subs' = <<>> THEN owner' = NoClient /\ failed' = FALSE /\ batch' = <<>> /\ win' = Fresh
     ELSE UNCHANGED <<owner, failed, batch, win>>
  /\ UNCHANGED <<shared, got, head, joins>>

\* the connection is closed: by its client, or because mcast_session_tick
\* found it or the source failed
Leave(c) ==
  /\ c \in Subs
  /\ subs' = Without(c)
  /\ batched' = batched \ {c}
  /\ ctx' = [ctx EXCEPT ![c] = NoCtx]
  /\ out' = [out EXCEPT ![c] = <<>>] /\ due' = [due EXCEPT ![c] = {}]
  /\ IF subs' = <<>>
     THEN owner' = NoClient /\ failed' = FALSE /\ batch' = <<>> /\ win' = Fresh
     ELSE owner' = Head(subs') /\ UNCHANGED <<failed, batch, win>>
  /\ UNCHANGED <<shared, got, head, joins>>

-----------------------------------------------------------------------------
(* mcast_source_process_packet                                             *)

\* mcast_deliver_packet to the connections with a window of their own; one
\* without a view misses the packet
Denied(c, e) == c \in Subs \ batched /\ c \in e.bad /\ ~(Len(subs) = 1 /\ ~shared)

\* the elements of a sequence at the positions I
Picked(q, I) == [k \in 1..Cardinality(I) |-> q[Ascending(I)[k]]]

\* each packet the window delivers is queued, or refused
Private(x, s, e) ==
  LET fed == {c \in Subs \ batched : Takes(c, x.ctx) /\ ~Denied(c, e)}
      done == [c \in fed |-> Insert(x.ctx[c].win, s)]
      over == [c \in fed |-> {i \in 1..Len(done[c].out) : <<c, done[c].out[i]>> \in e.refuse}]
      room == [c \in fed |-> Picked(done[c].out, (1..Len(done[c].out)) \ over[c])]
  IN  [batch |-> x.batch,
       ctx   |-> [c \in Client |-> IF c \in fed THEN [x.ctx[c] EXCEPT !.win = done[c].win]
                                                ELSE x.ctx[c]],
       out   |-> [c \in Client |-> IF c \in fed THEN x.out[c] \o room[c] ELSE x.out[c]],
       due   |-> [c \in Client |-> IF c \in fed
                                   THEN x.due[c] \ {done[c].out[i] : i \in over[c]}
                                   ELSE x.due[c]]]

\* mcast_source_promote_ready: who may change over to the shared output
Ready(x, w) ==
  {c \in Subs \ batched : /\ Takes(c, x.ctx) /\ ~x.ctx[c].special
                          /\ w.phase = 2 /\ x.ctx[c].win.phase = 2
                          /\ x.ctx[c].win.held = {} /\ x.ctx[c].win.base = w.base}

\* the first change over flushes the batch
Promote(x, w, e) == IF Ready(x, w) = {} THEN x ELSE FlushBatch(x, e)

\* a window that collects takes the packet only near those it holds
Within(w, s) == w.phase = 1 => \A h \in w.held : s - h < StartSpan /\ h - s < StartSpan

\* who is handed the packet s through a window of its own
Feeds(c, e) == c \in Subs \ batched /\ Takes(c, ctx) /\ ~Denied(c, e)

\* the packet s is due to whom packets are handed to, unless it came before or
\* is a window behind the newest, h, or there is no view for it
Arrival(s, h, e) ==
  [Here EXCEPT !.due = [c \in Client |-> due[c] \cup
     {p \in {s} : /\ c \in Subs /\ Takes(c, ctx) /\ ~Denied(c, e)
                 /\ s \notin got /\ s > h - Window}]]

Receive(s, e) ==
  /\ subs # <<>> /\ ~failed
  /\ s \in head - Late .. head + 1 + Skip /\ s \in 1..LastPacket
  /\ shared => Within(win, s)
  /\ \A c \in Subs : Feeds(c, e) => Within(ctx[c].win, s)
  /\ got' = got \cup {s}
  /\ head' = IF s > head THEN s ELSE head
  /\ LET x  == Private(Arrival(s, head', e), s, e)
         in == Insert(win, s)
         y  == AppendAll(x, in.out, e)
     IN  IF shared
         THEN /\ win' = in.win
              /\ batched' = batched \cup Ready(y, in.win)
              /\ Become(Promote(y, in.win, e))
         ELSE Become(x) /\ UNCHANGED <<win, batched>>
  /\ UNCHANGED <<subs, shared, failed, owner, joins>>

\* mutant: the change to private windows starts them afresh
CopyNothing(x, e) == [x EXCEPT !.ctx = [c \in Client |->
                        IF c \in batched THEN [x.ctx[c] EXCEPT !.win = Fresh] ELSE x.ctx[c]]]

\* mcast_source_enable_private_fec: the window goes to every batched subscriber
Copy(x, e) ==
  [x EXCEPT !.ctx = [c \in Client |->
     IF c \in batched THEN [x.ctx[c] EXCEPT !.win = win, !.failed = @ \/ c \in e.bad]
                      ELSE x.ctx[c]]]

\* a FEC packet on the media socket; it sets FEC to work in the windows of the
\* connections F, which have a view and find the packet in order
ReceiveFec(e, F) ==
  /\ subs # <<>> /\ ~failed
  /\ LET y == IF shared THEN Copy(FlushBatch(Here, e), e) ELSE Here
     IN  /\ F \subseteq {c \in Subs : Takes(c, y.ctx)}
         /\ Become([y EXCEPT !.ctx = [c \in Client |-> [y.ctx[c] EXCEPT !.fec = @ \/ c \in F]]])
  /\ shared' = FALSE /\ batched' = {} /\ win' = Fresh
  /\ UNCHANGED <<subs, failed, owner, got, head, joins>>

-----------------------------------------------------------------------------
(* mcast_session_tick, and what happens to the connections meanwhile       *)

Tick(e) ==
  /\ subs # <<>> /\ ~failed /\ batch # <<>>
  /\ Become(FlushBatch(Here, e))
  /\ UNCHANGED <<subs, batched, shared, failed, win, owner, got, head, joins>>

\* a receive error, or no data for MCAST_TIMEOUT_SEC
SourceFails ==
  /\ subs # <<>> /\ ~failed
  /\ failed' = TRUE
  /\ UNCHANGED <<subs, batched, shared, win, batch, owner, ctx, out, due, got, head, joins>>

\* the snapshot is taken, or the FCC session has handed over; of a connection
\* that is handed no more packets it makes no difference
SpecialEnds(c) ==
  /\ c \in Subs /\ Takes(c, ctx) /\ ctx[c].special
  /\ ctx' = [ctx EXCEPT ![c].special = FALSE]
  /\ UNCHANGED <<source, out, due, got, head, joins>>

\* the connection waits only for its output to be sent
Closes(c) ==
  /\ c \in Subs /\ Takes(c, ctx)
  /\ ctx' = [ctx EXCEPT ![c].closing = TRUE]
  /\ UNCHANGED <<source, out, due, got, head, joins>>

Init ==
  /\ subs = <<>> /\ batched = {} /\ shared = TRUE /\ failed = FALSE
  /\ win = Fresh /\ batch = <<>> /\ owner = NoClient
  /\ ctx = [c \in Client |-> NoCtx] /\ out = [c \in Client |-> <<>>]
  /\ due = [c \in Client |-> {}] /\ got = {} /\ head = 0 /\ joins = 0

\* after a unicast part FEC is at work, or the window goes on being used here
Newcomers ==
  LET special == [NoCtx EXCEPT !.special = TRUE]
      Used == [phase : {2}, base : {head + 1 - k : k \in Behind}, held : {{}}]
  IN  {NoCtx, special, [special EXCEPT !.fec = TRUE]} \cup {[special EXCEPT !.win = w] : w \in Used}

Few(S) == {T \in SUBSET S : Cardinality(T) <= MaxLacks}

\* B: whom a view may be denied; R: what may be refused
Lacking(B, F, R) == {e \in [bad : Few(B), full : F, refuse : Few(R)] :
                       Cardinality(e.bad) + Cardinality(e.refuse) <= MaxLacks}

\* what a step may lack that hands on the batch
Lacks == Lacking(batched, {FALSE}, batched \X ToSet(batch))

\* the same when the packet s comes: the windows may deliver packets, too
LacksFor(s) ==
  LET in  == IF batched = {} THEN {} ELSE ToSet(Insert(win, s).out)
      own == UNION {{c} \X ToSet(Insert(ctx[c].win, s).out) : c \in Subs \ batched}
  IN  Lacking({c \in Subs : Takes(c, ctx)}, {FALSE, in # {}},
              (batched \X (ToSet(batch) \cup in)) \cup own)

Next ==
  \/ \E c \in Client \ Subs, n \in Newcomers, e \in Lacks : Join(c, n, e)
  \/ \E c \in Subs : Leave(c) \/ SpecialEnds(c) \/ Closes(c)
  \/ \E s \in 1..LastPacket : \E e \in LacksFor(s) : Receive(s, e)
  \/ \E e \in Lacks, F \in SUBSET Subs : ReceiveFec(e, F)
  \/ \E e \in Lacks : Tick(e)
  \/ SourceFails

Spec == Init /\ [][Next]_vars

-----------------------------------------------------------------------------
Packet == 1..LastPacket
Win    == [phase : 0..2, base : Int, held : SUBSET Packet]
Ctx    == [win : Win, special : BOOLEAN, fec : BOOLEAN, failed : BOOLEAN, closing : BOOLEAN]

\* The variables' types.
TypeOK ==
  /\ subs \in Seq(Client) /\ batched \subseteq Client
  /\ shared \in BOOLEAN /\ failed \in BOOLEAN
  /\ batch \in Seq(Packet) /\ Len(batch) < BatchCap
  /\ owner \in Client \cup {NoClient}
  /\ win \in Win /\ ctx \in [Client -> Ctx]
  /\ out \in [Client -> Seq(Packet)] /\ due \in [Client -> SUBSET Packet]
  /\ got \subseteq Packet /\ head \in 0..LastPacket

\* However it changes between its own window and the shared one, a connection
\* gets no packet twice or out of order, and between two packets misses none
\* that came less than a window behind the newest while it subscribed or was
\* waiting in the window it joined, unless the pool denied it a view of its own
\* or its queue was too full, and as long as no FEC is at work in its window.
OneRun ==
  \A c \in Client : \A i \in 1..Len(out[c]) - 1 :
    /\ out[c][i] < out[c][i+1]
    /\ \A s \in out[c][i] + 1 .. out[c][i+1] - 1 : s \notin due[c]

\* The socket of the source is always mapped to a connection that subscribes.
OwnerSubscribes == IF subs = <<>> THEN owner = NoClient ELSE owner \in Subs

\* Each subscriber subscribes once; who shares the batch subscribes and has no
\* FEC at work.
Subscriptions ==
  /\ \A i, j \in 1..Len(subs) : i # j => subs[i] # subs[j]
  /\ batched \subseteq Subs /\ (~shared => batched = {})
  /\ \A c \in batched : ~ctx[c].fec

\* What waits in a window came (G) and lies between its base and the newest
\* packet h, less than a window from the base: each in a slot of its own.
Shaped(w, h, G) ==
  /\ \A p \in w.held : w.base <= p /\ p < w.base + Window /\ p <= h /\ p \in G
  /\ w.phase = 0 => w.held = {}
  /\ w.phase = 1 => w.base \in w.held

\* Of the packets D those not handed on wait in the window.
Waits(w, D) == \A p \in D : w.phase < 2 \/ p >= w.base => p \in w.held

\* The packets from lo to hi - 1 in order; those left out are not of D and do
\* not become so: they came (G), or are a window behind the newest, h.
Covers(q, lo, hi, D, h, G) ==
  /\ \A i, j \in 1..Len(q) : i < j => q[i] < q[j]
  /\ \A i \in 1..Len(q) : lo <= q[i] /\ q[i] < hi
  /\ \A s \in lo..hi - 1 : s \in ToSet(q) \/ (s \notin D /\ (s <= h - Window \/ s \in G))

\* The same of what a connection got from its first packet on.
Run(q, hi, D, h, G) == q # <<>> => Covers(q, q[1], hi, D, h, G)

\* What was handed on is one run.
Kept(q, D, h, G) == q # <<>> => Run(q, q[Len(q)] + 1, D, h, G)

\* What the window w that serves a connection handed on is a run up to its base,
\* and the rest of D waits in it.
Fed(q, w, D, h, G) ==
  /\ Waits(w, D)
  /\ IF w.phase < 2 THEN q = <<>> ELSE Run(q, w.base, D, h, G)

\* The windows, and the packets of the batch came.
Windows ==
  /\ ToSet(batch) \subseteq got
  /\ Shaped(win, head, got) /\ \A c \in Subs : Shaped(ctx[c].win, head, got)

\* What a connection got is one run; with its share of the batch, one up to the
\* base of the window that serves it.
Runs ==
  /\ \A c \in Client : Kept(out[c], due[c], head, got)
  /\ \A c \in Subs : Takes(c, ctx) =>
       IF c \in batched THEN Fed(out[c] \o batch, win, due[c], head, got)
                        ELSE Fed(out[c], ctx[c].win, due[c], head, got)

\* The types, the socket of the source mapped to a subscriber, and what every
\* connection got with what waits for it.
Inv == TypeOK /\ OwnerSubscribes /\ Subscriptions /\ Windows /\ Runs

-----------------------------------------------------------------------------
\* TLC: the connections are alike.  One that is handed no more packets has no use
\* for its window and flags, nor for its history when that did not change with it.
\* Of the history what goes on is the last packet and what is due after it, and
\* whether it was right up to there.
Alike   == Permutations(Client)
LastOf(c) == IF out[c] = <<>> THEN 0 ELSE Last(out[c])
Past(c) == IF ctx[c].closing \/ ctx[c].fec THEN <<>>
           ELSE <<LastOf(c), {s \in due[c] : s > LastOf(c)}, Kept(out[c], due[c], head, got)>>
Seen    == <<source, [c \in Client |-> {x \in {ctx[c]} : Takes(c, ctx)}],
             [c \in Client |-> Past(c)], got, head, joins>>
=============================================================================
