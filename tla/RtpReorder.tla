----------------------------- MODULE RtpReorder -----------------------------
(***************************************************************************)
(* The RTP reorder window of one media stream (rtp_reorder.c), with the    *)
(* forward-error-correction groups that read from it and release packets   *)
(* held in it (rtp_fec.c).  A packet is named by its position in the       *)
(* sender's stream; the program sees only that position modulo SeqMod.     *)
(* The network may lose, duplicate and displace packets.                   *)
(***************************************************************************)
EXTENDS Integers, Sequences, FiniteSets, FiniteSetsExt

CONSTANTS
  SeqMod,       \* size of the RTP sequence space (2^16 in the program)
  Window,       \* slots of the ring (32, or 512 with a FEC port)
  InitCollect,  \* packets collected before delivery starts (8)
  FecPorts,     \* whether a separate FEC port is configured: the cases
  GroupLen,     \* media packets of a FEC group (k); the sender's choice
  Parities,     \* parity packets of a group (m), when there is a FEC port
  MaxGroups,    \* groups tracked at once (FEC_MAX_GROUPS, 32)
  LastPacket,   \* bound: packets of the stream
  Late,         \* bound: how far behind the newest packet one may arrive
  Skip,         \* bound: packets that may be missing in front of a new one
  StartSpan,    \* bound: the first packets, while they are collected, are less
                \* than this apart
  NoPacket, NoGroup

ASSUME WindowAssumption ==
  /\ SeqMod \in Nat /\ Window \in Nat \ {0} /\ InitCollect \in Nat
  /\ SeqMod % Window = 0 /\ 2 * Window <= SeqMod
  /\ LastPacket \in Nat /\ Late \in Nat /\ Skip \in Nat /\ StartSpan \in Nat
  /\ NoPacket \notin Int /\ FecPorts \subseteq BOOLEAN

VARIABLES
  fecPort,    \* whether the stream has a FEC port
  slots,      \* the ring: slot -> packet held
  base,       \* base_seq, next sequence number to deliver
  count,      \* uint16 count of buffered packets
  phase,      \* 0 not started, 1 collecting, 2 active
  fecActive,  \* a FEC packet was seen on the media socket
  groups,     \* array of FEC groups
  minEnd,     \* the cached minimum end_seq, or NoGroup when not valid
  out,        \* packets the last call delivered, in order
  head        \* newest packet the network has handed over

fecVars  == <<fecActive, groups, minEnd>>
ringVars == <<slots, base, count, phase>>
vars     == <<fecPort, ringVars, fecVars, out, head>>

Packet == 0..LastPacket
Seqn   == 0..SeqMod - 1
Ring   == 0..Window - 1

SeqOf(p)   == p % SeqMod
SlotOf(s)  == s % Window
\* (int16_t)(a - b)
Diff(a, b) == LET d == (a - b) % SeqMod
              IN  IF d < SeqMod \div 2 THEN d ELSE d - SeqMod
\* the packet a sequence number stands for, near the newest packet
Named(s) == CHOOSE p \in (head - SeqMod \div 2 + 1)..(head + SeqMod \div 2) : SeqOf(p) = s

FecEnabled == fecPort \/ fecActive

-----------------------------------------------------------------------------
(* The calls work on a record w of the window, the groups and the output.  *)
Here == [slots |-> slots, base |-> base, count |-> count,
         groups |-> groups, minEnd |-> minEnd, out |-> <<>>]

Become(w) ==
  /\ slots'  = w.slots  /\ base'   = w.base   /\ count' = w.count
  /\ groups' = w.groups /\ minEnd' = w.minEnd /\ out'   = w.out

\* rtp_reorder_get
Holds(w, s) == LET p == w.slots[SlotOf(s)] IN p # NoPacket /\ SeqOf(p) = s

\* rtp_reorder_release_range; the count is not touched
ReleaseRange(w, g) ==
  [w EXCEPT !.slots = [i \in Ring |->
     IF \E k \in 0..GroupLen - 1 : LET s == (g.begin + k) % SeqMod
                                   IN  SlotOf(s) = i /\ Holds(w, s)
     THEN NoPacket ELSE w.slots[i]]]

Active(gs) == {i \in DOMAIN gs : gs[i] # NoGroup}

\* fec_recalc_min_end_seq: one pass over the array
RecalcMinEnd(gs) ==
  LET scan[n \in 0..MaxGroups] ==
        IF n = 0 THEN NoGroup
        ELSE IF gs[n-1] = NoGroup \/ (scan[n-1] # NoGroup /\ Diff(gs[n-1].end, scan[n-1]) >= 0)
             THEN scan[n-1] ELSE gs[n-1].end
  IN  scan[MaxGroups]

\* fec_release_expired_groups
ReleaseExpired(w) ==
  LET expired == {i \in Active(w.groups) : Diff(w.base, w.groups[i].end) > 0}
      kept    == [i \in DOMAIN w.groups |-> IF i \in expired THEN NoGroup ELSE w.groups[i]]
      freed   == FoldSet(LAMBDA i, v : ReleaseRange(v, w.groups[i]), w, expired)
  IN  [freed EXCEPT !.groups = kept, !.minEnd = RecalcMinEnd(kept)]

\* flush_consecutive: deliver while something is counted and the slot of base
\* is not empty.  With FEC the slot keeps its packet.
Flush(w, fec) ==
  LET keep  == fec /\ FecEnabled
      At(i) == w.slots[SlotOf(w.base + i)]
      n     == Min({w.count} \cup {i \in 0..w.count : At(i) = NoPacket}
                             \cup (IF keep THEN {} ELSE {Window}))
      done  == [w EXCEPT
                 !.slots = [i \in Ring |-> IF ~keep /\ (i - w.base) % Window < n
                                           THEN NoPacket ELSE w.slots[i]],
                 !.base  = (w.base + n) % SeqMod,
                 !.count = w.count - n,
                 !.out   = w.out \o [i \in 1..n |-> At(i - 1)]]
  IN  IF fec /\ done.minEnd # NoGroup /\ Diff(done.base, done.minEnd) > 0
      THEN ReleaseExpired(done) ELSE done

\* what the first m slots from the base on hold, in order
Swept(w, m) ==
  LET upto[k \in 0..m] ==
        IF k = 0 THEN <<>>
        ELSE IF w.slots[SlotOf(w.base + k - 1)] = NoPacket THEN upto[k-1]
        ELSE Append(upto[k-1], w.slots[SlotOf(w.base + k - 1)])
  IN  upto[m]

\* the base moves on by n, the slots passed are released
Advanced(w, n, sent) ==
  [w EXCEPT !.slots = [i \in Ring |-> IF (i - w.base) % Window < n THEN NoPacket ELSE w.slots[i]],
            !.base  = (w.base + n) % SeqMod,
            !.count = (w.count - Len(sent)) % SeqMod,
            !.out   = w.out \o sent]

\* Mutant: the window is taken to be one slot larger.
ForceFlushOneLess(w, s) ==
  LET n == Diff(s, w.base) - Window
  IN  Advanced(w, n, Swept(w, Min({n, Window})))

\* Mutant: the packets passed over are released without being delivered.
ForceFlushSilent(w, s) == Advanced(w, Diff(s, w.base) - Window + 1, <<>>)

\* force_flush_until: advance the base until s fits, releasing every slot passed
ForceFlush(w, s) ==
  LET n == Diff(s, w.base) - Window + 1
  IN  Advanced(w, n, Swept(w, Min({n, Window})))

Store(w, p) == [w EXCEPT !.slots[SlotOf(SeqOf(p))] = p,
                         !.count = (w.count + 1) % SeqMod]

\* fec_attempt_recovery, from the first group that covers s: the packet itself
\* when it is stored, else enough stored and parity packets to decode it
CanRecover(w, s) ==
  LET covering == {i \in Active(w.groups) : /\ Diff(s, w.groups[i].begin) >= 0
                                            /\ Diff(w.groups[i].end, s) >= 0}
  IN  /\ covering # {} /\ GroupLen <= Window
      /\ LET g == w.groups[Min(covering)]
             present == {k \in 0..GroupLen - 1 : Holds(w, (g.begin + k) % SeqMod)}
         IN  Holds(w, s) \/ Cardinality(present) + Cardinality(g.got) >= GroupLen

Recover(w, fec) ==
  IF fec /\ FecEnabled /\ CanRecover(w, w.base)
  THEN Flush([w EXCEPT !.base = (w.base + 1) % SeqMod,
                       !.out  = Append(w.out, Named(w.base))], fec)
  ELSE w

-----------------------------------------------------------------------------
(* rtp_reorder_insert.  fec says that the caller passes a FEC context, as  *)
(* the private path of a stream does and the shared multicast source does  *)
(* not.                                                                    *)
InsertFirst(p) ==
  /\ phase = 0 /\ phase' = 1
  /\ Become([Store(Here, p) EXCEPT !.base = SeqOf(p)])

InsertCollecting(p, fec) ==
  /\ phase = 1
  /\ LET s      == SeqOf(p)
         stored == IF slots[SlotOf(s)] # NoPacket THEN Here
                   ELSE [Store(Here, p) EXCEPT !.base = IF Diff(s, base) < 0 THEN s ELSE base]
     IN  IF stored.count >= InitCollect
         THEN phase' = 2 /\ Become(Flush(stored, fec))
         ELSE phase' = 1 /\ Become(stored)

InsertExpected(p, fec) ==
  /\ phase = 2 /\ Diff(SeqOf(p), base) = 0
  /\ IF count = 0 /\ ~(fec /\ FecEnabled) /\ slots[SlotOf(base)] = NoPacket
     THEN Become([Here EXCEPT !.base = (base + 1) % SeqMod, !.out = <<p>>])
     ELSE Become(Flush(Store(Here, p), fec))
  /\ UNCHANGED phase

\* Mutant: a late packet is passed on instead of dropped.
InsertLatePassed(p) ==
  /\ phase = 2 /\ Diff(SeqOf(p), base) < 0
  /\ Become([Here EXCEPT !.out = <<p>>]) /\ UNCHANGED phase

InsertLate(p) ==
  /\ phase = 2 /\ Diff(SeqOf(p), base) < 0
  /\ Become(Here) /\ UNCHANGED phase

InsertAhead(p, fec) ==
  /\ phase = 2 /\ Diff(SeqOf(p), base) > 0
  /\ LET s == SeqOf(p)
         w == IF Diff(s, base) >= Window THEN ForceFlush(Here, s) ELSE Here
     IN  Become(IF Holds(w, s) THEN w ELSE Recover(Store(w, p), fec))
  /\ UNCHANGED phase

Insert(p, fec) ==
  /\ \/ InsertFirst(p)
     \/ InsertCollecting(p, fec)
     \/ InsertExpected(p, fec)
     \/ InsertLate(p)
     \/ InsertAhead(p, fec)
  /\ fecActive' = fecActive

-----------------------------------------------------------------------------
\* fec_find_or_create_group: the index given to a new group and the window
\* after an eviction
Victim(gs, begin) ==
  LET older == {i \in Active(gs) : Diff(begin, gs[i].begin) > 0}
  IN  IF older = {} THEN 0
      ELSE CHOOSE i \in older : \A j \in older :
             Diff(begin, gs[i].begin) >= Diff(begin, gs[j].begin)

NewGroup(w, begin, end) ==
  LET full == Active(w.groups) = DOMAIN w.groups
      at   == IF full THEN Victim(w.groups, begin)
              ELSE Min(DOMAIN w.groups \ Active(w.groups))
      room == IF full THEN ReleaseRange(w, w.groups[at]) ELSE w
      gs   == [w.groups EXCEPT ![at] = [begin |-> begin, end |-> end, got |-> {}]]
  IN  [room EXCEPT !.groups = gs,
         !.minEnd = IF w.minEnd = NoGroup \/ Diff(end, w.minEnd) < 0 THEN end
                    ELSE IF full THEN RecalcMinEnd(gs) ELSE w.minEnd]

\* fec_process_packet: parity idx of the group of packets begin..end
ProcessFec(b, idx) ==
  LET begin == SeqOf(b)
      end   == SeqOf(b + GroupLen - 1)
      Same  == {i \in Active(groups) : groups[i].begin = begin /\ groups[i].end = end}
      w     == IF Same = {} THEN NewGroup(Here, begin, end) ELSE Here
      at    == CHOOSE i \in Active(w.groups) : w.groups[i].begin = begin /\ w.groups[i].end = end
  IN  /\ fecActive' = TRUE
      /\ IF Diff(base, end) > 0
         THEN Become(Here)
         ELSE Become([w EXCEPT !.groups[at].got = @ \cup {idx}])
      /\ UNCHANGED phase

-----------------------------------------------------------------------------
Init ==
  /\ fecPort \in FecPorts
  /\ slots = [i \in Ring |-> NoPacket]
  /\ base = 0 /\ count = 0 /\ phase = 0
  /\ fecActive = FALSE
  /\ groups = [i \in 0..MaxGroups - 1 |-> NoGroup] /\ minEnd = NoGroup
  /\ out = <<>>
  /\ head = -1

Arrivals == {p \in Packet :
               /\ head - Late <= p /\ p <= head + 1 + Skip
               /\ phase = 1 => \A i \in Ring : slots[i] # NoPacket =>
                                 p - slots[i] \in 1 - StartSpan .. StartSpan - 1}

\* a media packet reaches the window
Media(fec) == \E p \in Arrivals :
  /\ Insert(p, fec)
  /\ head' = IF p > head THEN p ELSE head

\* a parity packet arrives once its group was sent
Fec == \E b \in {q \in Packet : q % GroupLen = 0}, idx \in 0..Parities - 1 :
  /\ fecPort /\ b + GroupLen - 1 <= head /\ head - Late <= b + GroupLen - 1
  /\ ProcessFec(b, idx)
  /\ UNCHANGED head

Next == (Media(fecPort) \/ Fec) /\ UNCHANGED fecPort

Spec == Init /\ [][Next]_vars
-----------------------------------------------------------------------------
Groups == [begin : 0..SeqMod - 1, end : 0..SeqMod - 1, got : SUBSET (0..Parities - 1)]

\* The variables' types: base and count stay within 16 bits, the ring holds
\* packets only.
TypeOK ==
  /\ fecPort \in FecPorts
  /\ slots \in [Ring -> Packet \cup {NoPacket}]
  /\ base \in Seqn /\ count \in Seqn /\ phase \in 0..2
  /\ fecActive \in BOOLEAN
  /\ groups \in [0..MaxGroups - 1 -> Groups \cup {NoGroup}]
  /\ minEnd \in Seqn \cup {NoGroup}
  /\ out \in Seq(Packet)
  /\ head \in -1..LastPacket

\* Every call hands on packets in the sender's order, and none that precedes
\* what was handed on before: no packet is delivered twice or out of turn.
InOrder ==
  [][\A i \in 1..Len(out') :
       /\ \A j \in 1..i - 1 : out'[j] < out'[i]
       /\ phase = 2 => out'[i] >= Named(base)]_vars

\* The same promise as a refinement of OrderedStream: before delivery starts
\* nothing is passed over, afterwards everything before base is.  It is that of
\* a stream without FEC: with a FEC port delivered packets stay in their slots,
\* and flush_consecutive may take one for the next.
Stream == INSTANCE OrderedStream WITH
            frontier <- IF phase = 2 /\ ~fecPort THEN Named(base) ELSE 0,
            emitted  <- IF fecPort THEN <<>> ELSE out
ImplementsStream == Stream!Spec

\* A packet that was accepted leaves the window only by being delivered,
\* unless its turn has passed already.  (With FEC a group that expires may
\* release it.)
NothingLost ==
  [][~fecPort => \A i \in Ring :
       (/\ slots[i] # NoPacket /\ slots'[i] # slots[i]
        /\ phase = 2 => slots[i] >= Named(base))
       => \E k \in 1..Len(out') : out'[k] = slots[i]]_vars

\* Once delivery has started every packet still waiting is within the window
\* of the next one to deliver, in the slot of its own number.  (With FEC those
\* delivered stay behind it.)
WithinWindow ==
  phase = 2 /\ ~fecPort => \A i \in Ring : slots[i] # NoPacket =>
                 (/\ slots[i] - Named(base) \in 0..Window - 1
                  /\ SlotOf(SeqOf(slots[i])) = i)

\* count is the number of buffered packets (rtp_reorder.h), those still to be
\* delivered: flush_consecutive and the batching of a client trust it.
CountIsBuffered ==
  count = Cardinality({i \in Ring : slots[i] # NoPacket /\
                         (phase = 2 => slots[i] >= Named(base))})

\* base_seq is the next packet to expect (rtp_reorder.h): at most the one after
\* the newest packet, or that one would be dropped as late when it comes.
NotAhead == phase = 2 => Named(base) <= head + 1

\* The cached minimum end of the groups is valid exactly when there is a group
\* and is then the first end to expire; nothing expires before it.
MinEndExact ==
  /\ (minEnd = NoGroup) <=> (Active(groups) = {})
  /\ \A i \in Active(groups) : Diff(minEnd, groups[i].end) <= 0

\* Without FEC the state is as the code takes it to be: no group, nothing held
\* before the start; afterwards the base is near the newest packet, nothing
\* waits before it, and while packets are collected the first and the newest
\* are among them.
Shaped ==
  ~fecPort =>
    /\ ~fecActive /\ minEnd = NoGroup /\ Active(groups) = {}
    /\ phase = 0 => head = -1 /\ \A i \in Ring : slots[i] = NoPacket
    /\ phase # 0 =>
         /\ Named(base) \in Nat /\ base = SeqOf(Named(base))
         /\ Named(base) \in head - Window + 1 .. head + 1
         /\ \A i \in Ring : slots[i] # NoPacket =>
              /\ slots[i] - Named(base) \in 0..Window - 1
              /\ slots[i] <= head /\ slots[i] % Window = i
    /\ phase = 1 => /\ slots[SlotOf(base)] = Named(base)
                    /\ slots[SlotOf(SeqOf(head))] = head

\* The types, what waits within the window, the cached minimum as it is, and
\* what these rest on without FEC.
Inv == TypeOK /\ WithinWindow /\ MinEndExact /\ Shaped
=============================================================================
