------------------------- MODULE FccSessionProofs -------------------------
(***************************************************************************)
(* Proofs about FccSession: its invariant, for every window, burst, group, *)
(* bound and way of failing that Calm allows.  The stream's window is the  *)
(* one RtpReorderProofs speaks of; what an insertion does to it (Took) is  *)
(* proved there and cited here, so this module is about the two sources.   *)
(***************************************************************************)
EXTENDS FccSession, FiniteSetTheorems, SequenceTheorems, TLAPS

W == INSTANCE RtpReorderProofs WITH
  FecPorts <- {FALSE}, fecPort <- FALSE, GroupLen <- 1, Parities <- 0, MaxGroups <- 1,
  Late <- 0, Skip <- 0, StartSpan <- 0,
  fecActive <- FALSE, groups <- [i \in {0} |-> NoGroup], minEnd <- NoGroup, head <- 0

\* The two instances name one window.
LEMMA HereSame == Reorder!Here = W!Here
BY DEF Reorder!Here, W!Here

\* A step of one instance is a step of the other.
LEMMA BecomeSame == ASSUME NEW w PROVE Reorder!Become(w) <=> W!Become(w)
BY DEF Reorder!Become, W!Become

\* Distances and slots are the same in both.
LEMMA DiffSame ==
  ASSUME NEW a, NEW b
  PROVE  /\ Reorder!Diff(a, b) = W!Diff(a, b) /\ Reorder!SlotOf(a) = W!SlotOf(a)
         /\ Reorder!SeqOf(a) = W!SeqOf(a) /\ Reorder!Ring = W!Ring
BY DEF Reorder!Diff, W!Diff, Reorder!SlotOf, W!SlotOf, Reorder!SeqOf, W!SeqOf, Reorder!Ring, W!Ring

\* A flush is the same in both.
LEMMA FlushSame == ASSUME NEW w PROVE Reorder!Flush(w, FALSE) = W!Flush(w, FALSE)
<1> DEFINE At(i) == w.slots[(w.base + i) % Window]
           n == Min({w.count} \cup {i \in 0..w.count : At(i) = NoPacket} \cup {Window})
           v == [w EXCEPT
                 !.slots = [i \in 0..Window - 1 |-> IF (i - w.base) % Window < n
                                           THEN NoPacket ELSE w.slots[i]],
                 !.base  = (w.base + n) % SeqMod,
                 !.count = w.count - n,
                 !.out   = w.out \o [i \in 1..n |-> At(i - 1)]]
<1>1. Reorder!Flush(w, FALSE) = v
  BY DEF Reorder!Flush, Reorder!SlotOf, Reorder!Ring, Reorder!Min, Min
<1>2. W!Flush(w, FALSE) = v
  BY DEF W!Flush, W!SlotOf, W!Ring, W!Min, Min
<1> QED BY <1>1, <1>2

\* So is a packet put into its slot.
LEMMA StoreSame == ASSUME NEW w, NEW p PROVE Reorder!Store(w, p) = W!Store(w, p)
BY DiffSame DEF Reorder!Store, W!Store, Reorder!SlotOf, W!SlotOf, Reorder!SeqOf, W!SeqOf

\* So are the packets a forced flush collects,
LEMMA SweptSame == ASSUME NEW w, NEW m PROVE Reorder!Swept(w, m) = W!Swept(w, m)
BY DEF Reorder!Swept, W!Swept, Reorder!SlotOf, W!SlotOf

\* and the forced flush itself.
LEMMA ForceSame == ASSUME NEW w, NEW s PROVE Reorder!ForceFlush(w, s) = W!ForceFlush(w, s)
<1>1. ASSUME NEW n, NEW q PROVE Reorder!Advanced(w, n, q) = W!Advanced(w, n, q)
  BY DEF Reorder!Advanced, W!Advanced, Reorder!Ring, W!Ring
<1>2. Reorder!Diff(s, w.base) = W!Diff(s, w.base)
  BY DiffSame
<1> QED BY <1>1, <1>2, SweptSame DEF Reorder!ForceFlush, W!ForceFlush, Reorder!Min, W!Min

\* An insertion of the session is one of the window that RtpReorderProofs speaks of.
LEMMA InsertSame == ASSUME NEW p, Reorder!Insert(p, FALSE) PROVE W!Insert(p, FALSE)
<1>1. CASE Reorder!InsertFirst(p)
  BY <1>1, StoreSame, HereSame, BecomeSame, DiffSame DEF Reorder!InsertFirst, W!InsertFirst, W!Insert
<1>2. CASE Reorder!InsertCollecting(p, FALSE)
  <2> DEFINE x == IF slots[W!SlotOf(W!SeqOf(p))] # NoPacket THEN W!Here
                  ELSE [W!Store(W!Here, p) EXCEPT !.base = IF W!Diff(W!SeqOf(p), base) < 0 THEN W!SeqOf(p) ELSE base]
             y == IF slots[Reorder!SlotOf(Reorder!SeqOf(p))] # NoPacket THEN Reorder!Here
                  ELSE [Reorder!Store(Reorder!Here, p) EXCEPT !.base = IF Reorder!Diff(Reorder!SeqOf(p), base) < 0 THEN Reorder!SeqOf(p) ELSE base]
  <2>1. x = y
    BY StoreSame, HereSame, DiffSame
  <2>2. phase = 1 /\ IF y.count >= InitCollect THEN phase' = 2 /\ Reorder!Become(Reorder!Flush(y, FALSE))
                     ELSE phase' = 1 /\ Reorder!Become(y)
    BY <1>2 DEF Reorder!InsertCollecting
  <2> HIDE DEF x, y
  <2>3. phase = 1 /\ IF x.count >= InitCollect THEN phase' = 2 /\ W!Become(W!Flush(x, FALSE))
                     ELSE phase' = 1 /\ W!Become(x)
    BY <2>1, <2>2, FlushSame, BecomeSame
  <2>4. W!InsertCollecting(p, FALSE)
    BY <2>3 DEF W!InsertCollecting, x
  <2> QED BY <2>4 DEF W!Insert
<1>3. CASE Reorder!InsertExpected(p, FALSE)
  <2>1. phase = 2 /\ phase' = phase /\ W!Diff(W!SeqOf(p), base) = 0
    BY <1>3, DiffSame DEF Reorder!InsertExpected
  <2> DEFINE y == [W!Here EXCEPT !.base = (base + 1) % SeqMod, !.out = <<p>>]
             z == W!Flush(W!Store(W!Here, p), FALSE)
             fast == count = 0 /\ slots[W!SlotOf(base)] = NoPacket
  <2>2. IF fast THEN Reorder!Become(y) ELSE Reorder!Become(z)
    <3>1. Reorder!Store(Reorder!Here, p) = W!Store(W!Here, p) /\ Reorder!Here = W!Here
          /\ Reorder!SlotOf(base) = W!SlotOf(base)
      BY StoreSame, HereSame, DiffSame
    <3> QED BY <1>3, <3>1, FlushSame DEF Reorder!InsertExpected
  <2> HIDE DEF y, z
  <2>3. IF fast THEN W!Become(y) ELSE W!Become(z)
    BY <2>2, BecomeSame
  <2>4. W!InsertExpected(p, FALSE)
    BY <2>1, <2>3 DEF W!InsertExpected, y, z
  <2> QED BY <2>4 DEF W!Insert
<1>4. CASE Reorder!InsertLate(p)
  BY <1>4, StoreSame, HereSame, BecomeSame, DiffSame DEF Reorder!InsertLate, W!InsertLate, W!Insert
<1>5. CASE Reorder!InsertAhead(p, FALSE)
  <2> DEFINE q == W!SeqOf(p)
             x == IF W!Diff(q, base) >= Window THEN W!ForceFlush(W!Here, q) ELSE W!Here
             y == IF Reorder!Diff(q, base) >= Window THEN Reorder!ForceFlush(Reorder!Here, q) ELSE Reorder!Here
  <2>1. x = y
    BY HereSame, DiffSame, ForceSame
  <2>2. /\ phase = 2 /\ Reorder!Diff(q, base) > 0 /\ phase' = phase
        /\ Reorder!Become(IF Reorder!Holds(y, q) THEN y ELSE Reorder!Store(y, p))
    BY <1>5, DiffSame DEF Reorder!InsertAhead, Reorder!Recover
  <2> HIDE DEF x, y
  <2>3. Reorder!Holds(y, q) <=> W!Holds(x, q)
    BY <2>1, DiffSame DEF Reorder!Holds, W!Holds
  <2>4. /\ phase = 2 /\ W!Diff(q, base) > 0 /\ phase' = phase
        /\ W!Become(IF W!Holds(x, q) THEN x ELSE W!Store(x, p))
    BY <2>1, <2>2, <2>3, DiffSame, StoreSame, BecomeSame
  <2>5. W!InsertAhead(p, FALSE)
    BY <2>4 DEF W!InsertAhead, W!Recover, x
  <2> QED BY <2>5 DEF W!Insert
<1> QED BY <1>1, <1>2, <1>3, <1>4, <1>5 DEF Reorder!Insert
-----------------------------------------------------------------------------
(* The invariant                                                           *)

\* The collection is long enough to tell what is missing, with room for the
\* packets displaced; the channel is shorter than half the sequence space;
\* no packet's termination message says 0; the last termination message does
\* not fail.
Calm ==
  /\ InitCollect >= 2 /\ InitCollect + Displaced <= Window
  /\ LastPacket + 1 - FirstBurst < SeqMod \div 2
  /\ \A p \in Packet : (p + 2) % SeqMod # 0
  /\ "last term" \notin Failing

\* The packets the window holds.
Held == W!Held(slots)

\* Of the packets F..E-1 of a source those in C are still to come to the window,
\* the others are held or handed on; H is what is held, b the next to hand on.
Fed(H, ph, lv, F, E, C, b) ==
  /\ C \subseteq F..E-1
  /\ F..E-1 \subseteq C \cup H \cup (IF ph = 2 THEN 0..b-1 ELSE {})
  /\ H \subseteq 0..lv-1
  /\ ph # 0 => F <= b /\ b <= lv
  /\ ph = 1 => H \subseteq F..F+InitCollect-1+Displaced

\* No packet of q is far ahead of a later one, or of one that is to come.
Close(q, S) == \A i \in 1..Len(q) : /\ \A j \in i..Len(q) : q[i] - q[j] <= Displaced
                                    /\ \A x \in S : q[i] - x <= Displaced

\* What a packet that goes into the window needs: none before it by more than
\* the displacement is still to come.
LEMMA FedFits ==
  ASSUME Calm, NEW b, W!Settled(b), NEW F \in Nat, NEW E \in Int, NEW C, NEW lv \in Int,
         Fed(Held, phase, lv, F, E, C, b), FirstBurst <= F, E <= lv, lv <= LastPacket + 1,
         NEW p \in C, \A q \in C : p - q <= Displaced
  PROVE  /\ p \in Packet /\ p \in F..E-1 /\ W!Fits(p, b)
         /\ phase # 2 => p \in F..F+InitCollect-1+Displaced
<1>1. /\ InitCollect \in Nat /\ Displaced \in Nat /\ Window \in Nat /\ LastPacket \in Nat
      /\ FirstBurst \in Nat /\ InitCollect >= 2 /\ InitCollect + Displaced <= Window
      /\ LastPacket + 1 - FirstBurst < W!Half
  BY FccAssumption DEF Calm, W!Half
<1>2. /\ b \in Nat /\ phase \in 0..2
      /\ phase = 0 => Held = {}
      /\ phase = 2 => b \notin Held
  BY W!SettledIs, FccAssumption DEF Held
<1>6. /\ C \subseteq F..E-1
      /\ F..E-1 \subseteq C \cup Held \cup (IF phase = 2 THEN 0..b-1 ELSE {})
      /\ Held \subseteq 0..lv-1
      /\ phase # 0 => F <= b /\ b <= lv
      /\ phase = 1 => Held \subseteq F..F+InitCollect-1+Displaced
  BY DEF Fed
<1>7. p \in Int /\ F <= p /\ p <= E - 1
  BY <1>6
<1>8. p \in Packet /\ p \in F..E-1
  BY <1>1, <1>7 DEF Packet
<1>9. ASSUME phase # 2 PROVE p \in F..F+InitCollect-1+Displaced
  <2> DEFINE S == F..p-Displaced-1
  <2>1. ASSUME NEW q \in S PROVE q \in Held
    <3>1. q \in F..E-1 /\ p - q > Displaced
      BY <1>1, <1>7
    <3>2. q \notin C
      BY <1>1, <1>7, <3>1
    <3> QED BY <1>6, <1>9, <3>1, <3>2
  <2>3. CASE phase = 0
    <3>1. ~(F \in S)
      BY <1>2, <2>1, <2>3
    <3>2. p - Displaced - 1 < F
      BY <1>1, <1>7, <3>1
    <3> QED BY <1>1, <1>7, <3>2
  <2>4. CASE phase = 1
    <3>1. CASE F <= p-Displaced-1
      <4> DEFINE g == p-Displaced-1
      <4>1. g \in Int /\ F..g \subseteq W!Held(slots) /\ F \in Int /\ F <= g
        BY <1>1, <1>7, <2>1, <3>1 DEF Held
      <4> HIDE DEF g
      <4>2. g - F + 1 < InitCollect
        BY <2>4, <4>1, W!CollectedRun, FccAssumption
      <4> QED BY <1>1, <1>7, <4>2 DEF g
    <3>2. CASE ~(F <= p-Displaced-1)
      BY <1>1, <1>7, <3>2
    <3> QED BY <3>1, <3>2
  <2> QED BY <1>2, <1>9, <2>3, <2>4
<1>10. ASSUME phase = 1, NEW h \in Held PROVE -Window < p - h /\ p - h < Window
  <2>1. p \in F..F+InitCollect-1+Displaced /\ h \in F..F+InitCollect-1+Displaced
    BY <1>6, <1>9, <1>10
  <2> QED BY <1>1, <2>1
<1>11. ASSUME phase = 2 PROVE -W!Half <= p - b /\ p - b < Window
  <2>1. F <= b /\ b <= lv
    BY <1>6, <1>11
  <2>2. W!Half \in Int
    <3>1. SeqMod \in Nat
      BY FccAssumption
    <3> QED BY <3>1 DEF W!Half
  <2>3. -W!Half <= p - b
    BY <1>1, <1>2, <1>7, <2>1, <2>2
  <2>4. CASE b < E
    <3>1. b \in F..E-1 /\ b \notin 0..b-1
      BY <1>2, <2>1, <2>4
    <3>2. b \in C
      BY <1>2, <1>6, <1>11, <3>1
    <3> QED BY <1>1, <1>2, <1>7, <2>3, <3>2
  <2>5. CASE ~(b < E)
    BY <1>1, <1>2, <1>7, <2>3, <2>5
  <2> QED BY <2>4, <2>5
<1>12. W!Fits(p, b)
  BY <1>10, <1>11 DEF W!Fits, Held
<1> QED BY <1>8, <1>9, <1>12

\* What is left after it.
LEMMA FedOn ==
  ASSUME Calm, NEW b, W!Settled(b), NEW F \in Nat, NEW E \in Int, NEW C, NEW lv \in Int,
         Fed(Held, phase, lv, F, E, C, b), FirstBurst <= F, E <= lv, lv <= LastPacket + 1,
         NEW p \in C, \A q \in C : p - q <= Displaced,
         Reorder!Insert(p, FALSE),
         NEW G, G \subseteq C, C \ {p} \subseteq G
  PROVE  \E c \in Nat : W!Took(p, b, c) /\ Fed(Held', phase', lv, F, E, G, c)
<1>1. /\ InitCollect \in Nat /\ Displaced \in Nat /\ Window \in Nat
      /\ InitCollect >= 2 /\ Window >= 2
  <2>1. InitCollect \in Nat /\ Displaced \in Nat /\ Window \in Nat
    BY FccAssumption
  <2>2. InitCollect >= 2 /\ InitCollect + Displaced <= Window
    BY DEF Calm
  <2> QED BY <2>1, <2>2
<1>2. /\ p \in Packet /\ p \in F..E-1 /\ W!Fits(p, b)
      /\ phase # 2 => p \in F..F+InitCollect-1+Displaced
  BY FedFits
<1>3. W!Insert(p, FALSE)
  BY InsertSame
<1>4. p \in W!Packet
  BY <1>2 DEF Packet, W!Packet
<1>5. PICK c \in Nat : W!Took(p, b, c)
  BY <1>1, <1>2, <1>3, <1>4, W!InsertTook, FccAssumption
<1>6. b \in Nat /\ phase \in 0..2 /\ (phase = 0 => Held = {})
  BY DEF W!Settled, Held
<1>7. /\ C \subseteq F..E-1
      /\ F..E-1 \subseteq C \cup Held \cup (IF phase = 2 THEN 0..b-1 ELSE {})
      /\ Held \subseteq 0..lv-1
      /\ phase # 0 => F <= b /\ b <= lv
      /\ phase = 1 => Held \subseteq F..F+InitCollect-1+Displaced
  BY DEF Fed
<1>8. /\ phase' \in 1..2 /\ phase <= phase'
      /\ Held' \subseteq Held \cup {p}
      /\ Held \cup {p} \subseteq Held' \cup (IF phase' = 2 THEN 0..c-1 ELSE {})
      /\ phase' = 2 => \E a \in Nat : /\ a <= c /\ a..c-1 \subseteq Held \cup {p}
                                      /\ IF phase = 2 THEN a = b ELSE a \in Held \cup {p}
  BY <1>5 DEF W!Took, Held
<1>9. phase' = 1 => c \in Held'
  BY <1>5, <1>8 DEF W!Took, W!Settled, W!Exact, W!Here, Held
<1> HIDE DEF Held
<1>10. phase = 2 => phase' = 2 /\ b <= c
  BY <1>6, <1>8
<1>11. ASSUME NEW q \in F..E-1
       PROVE  q \in G \/ q \in Held' \/ (phase' = 2 /\ q \in 0..c-1)
  <2>1. CASE q \in C
    BY <1>8, <2>1
  <2>2. CASE q \in Held
    BY <1>8, <2>2
  <2>3. CASE phase = 2 /\ q \in 0..b-1
    BY <1>6, <1>10, <2>3
  <2> QED BY <1>7, <2>1, <2>2, <2>3
<1>12. p \in Int /\ F <= p /\ p <= E - 1 /\ p \in 0..lv-1
  BY <1>2
<1>13. Held' \subseteq 0..lv-1
  BY <1>7, <1>8, <1>12
<1>14. ASSUME phase # 2, NEW x \in Held \cup {p} PROVE x \in F..F+InitCollect-1+Displaced
  BY <1>2, <1>6, <1>7, <1>14
<1>15. \A x \in Held \cup {p} : x \in Int /\ x < lv
  BY <1>7, <1>12
<1>16. F <= c /\ c <= lv
  <2>1. CASE phase' = 1
    <3>1. phase # 2 /\ c \in Held \cup {p}
      BY <1>8, <1>9, <1>10, <2>1
    <3> QED BY <1>1, <1>14, <1>15, <3>1
  <2>2. CASE phase' = 2
    <3>1. PICK a \in Nat : /\ a <= c /\ a..c-1 \subseteq Held \cup {p}
                           /\ IF phase = 2 THEN a = b ELSE a \in Held \cup {p}
      BY <1>8, <2>2
    <3>2. F <= a /\ a <= lv
      BY <1>1, <1>7, <1>14, <1>15, <3>1
    <3>3. c = a \/ c - 1 \in Held \cup {p}
      BY <3>1
    <3> QED BY <1>15, <3>1, <3>2, <3>3
  <2> QED BY <1>8, <2>1, <2>2
<1>17. phase' = 1 => Held' \subseteq F..F+InitCollect-1+Displaced
  BY <1>8, <1>10, <1>14
<1>18. G \subseteq F..E-1
  BY <1>7
<1>19. F..E-1 \subseteq G \cup Held' \cup (IF phase' = 2 THEN 0..c-1 ELSE {})
  BY <1>11
<1>20. Fed(Held', phase', lv, F, E, G, c)
  BY <1>13, <1>16, <1>17, <1>18, <1>19 DEF Fed
<1> QED BY <1>5, <1>20
-----------------------------------------------------------------------------
(* The types, and what holds of the handoff whatever is lost                *)

\* The types; the burst is behind the group; a server is told to stop once and
\* for all, after the first packet that waits; a handler that fails leaves
\* nothing to insert.
Basic ==
  /\ TypeOK
  /\ live \in FirstLive..LastPacket + 1
  /\ burst = -1 \/ (burst \in FirstBurst..LastPacket + 1 /\ burst <= live)
  /\ state = "REQUESTED" => redirects <= MaxRedirects
  /\ termSent => stopAt <= LastPacket + 2 /\ state \in {"MCAST_REQUESTED", "MCAST_ACTIVE"}
  /\ pending # <<>> => termSent /\ stopAt = pending[1] + 2
  /\ termSent /\ state = "MCAST_REQUESTED" => pending # <<>>
  /\ failed => work = <<>> /\ state # "MCAST_ACTIVE"
  /\ state = "CLOSED" => work = <<>> /\ (burst # -1 => stopAt # Never)

\* The constants without the arithmetic of the sequence numbers.
LEMMA SizesAre ==
  /\ InitCollect \in Nat /\ Displaced \in Nat /\ Window \in Nat /\ Window > 0
  /\ SeqMod \in Nat /\ SeqMod > 0 /\ FirstBurst \in Nat /\ FirstLive \in Nat /\ LastPacket \in Nat
  /\ FirstBurst <= FirstLive /\ FirstLive <= LastPacket
  /\ MaxRedirects \in Nat /\ MaxDrops \in Nat /\ MaxControl \in Nat
  /\ SignalTicks \in Nat /\ UnicastTicks \in Nat /\ SyncTicks \in Nat
  /\ SignalTicks > 0 /\ SignalTicks <= UnicastTicks /\ UnicastTicks < SyncTicks
  /\ NoPacket \notin Int
<1>1. SeqMod > 0
  <2>1. Window \in Nat \ {0} /\ SeqMod \in Nat /\ 2 * Window <= SeqMod
    BY FccAssumption
  <2> QED BY <2>1
<1>2. /\ InitCollect \in Nat /\ Displaced \in Nat /\ Window \in Nat \ {0}
      /\ SeqMod \in Nat /\ FirstBurst \in Nat /\ FirstLive \in Nat /\ LastPacket \in Nat
      /\ FirstBurst <= FirstLive /\ FirstLive <= LastPacket
      /\ MaxRedirects \in Nat /\ MaxDrops \in Nat /\ MaxControl \in Nat
      /\ SignalTicks \in Nat \ {0} /\ UnicastTicks \in Nat /\ SyncTicks \in Nat
      /\ SignalTicks <= UnicastTicks /\ UnicastTicks < SyncTicks
      /\ NoPacket \notin Int
  BY FccAssumption
<1> QED BY <1>1, <1>2

\* Packets are numbers, and no packet is the mark of a server never told to stop.
LEMMA PacketsAre == /\ Packet \subseteq Nat /\ \A p \in Packet : p \in Nat /\ p <= LastPacket
                    /\ Never = LastPacket + 3 /\ Never \in Nat
BY SizesAre DEF Packet, Never

\* An insertion keeps the window's types.
LEMMA InsertTypes ==
  ASSUME TypeOK, NEW p \in Packet, Reorder!Insert(p, FALSE)
  PROVE  /\ slots' \in [Reorder!Ring -> Packet \cup {NoPacket}]
         /\ base' \in 0..SeqMod - 1 /\ count' \in 0..SeqMod - 1 /\ phase' \in 0..2
         /\ out' \in Seq(Packet)
<1>1. W!Insert(p, FALSE)
  BY InsertSame
<1>2. /\ W!Packet = Packet /\ W!Seqn = 0..SeqMod - 1 /\ W!Ring = Reorder!Ring
      /\ W!Content = Packet \cup {NoPacket}
  BY DEF W!Packet, Packet, W!Seqn, W!Ring, Reorder!Ring, W!Content
<1>3. W!Here \in W!Windows
  <2>1. <<>> \in Seq(Packet)
    OBVIOUS
  <2> QED BY <1>2, <2>1 DEF W!Windows, W!Here, TypeOK
<1>4. phase \in 0..2
  BY DEF TypeOK
<1>5. PICK v \in W!Windows : W!Become(v) /\ phase' \in 0..2
  BY <1>1, <1>2, <1>3, <1>4, W!InsertTyped, FccAssumption
<1>6. slots' = v.slots /\ base' = v.base /\ count' = v.count /\ out' = v.out
  BY <1>5 DEF W!Become
<1>7. /\ v.slots \in [Reorder!Ring -> Packet \cup {NoPacket}] /\ v.base \in 0..SeqMod - 1
      /\ v.count \in 0..SeqMod - 1 /\ v.out \in Seq(Packet)
  BY <1>2, <1>5 DEF W!Windows
<1> QED BY <1>5, <1>6, <1>7

\* Basic holds at first.
LEMMA BasicInit == Init => Basic
<1> SUFFICES ASSUME Init PROVE Basic
  OBVIOUS
<1>1. /\ <<>> \in Seq(Packet) /\ 0 \in 0..SeqMod - 1 /\ Never \in -1..Never /\ -1 \in -1..LastPacket + 1
      /\ 0 \in 0..UnicastTicks /\ -1 \in -1..SyncTicks /\ 0 \in 0..MaxDrops /\ 0 \in 0..MaxControl
      /\ 0 \in 0..MaxRedirects + 1 /\ FirstLive \in FirstLive..LastPacket + 1
  BY SizesAre, PacketsAre
<1>2. slots \in [Reorder!Ring -> Packet \cup {NoPacket}]
  BY DEF Init
<1>3. base \in 0..SeqMod - 1 /\ count \in 0..SeqMod - 1 /\ phase \in 0..2
  BY <1>1 DEF Init
<1>4. TypeOK
  BY <1>1, <1>2, <1>3 DEF Init, TypeOK, States
<1> QED BY <1>1, <1>4, SizesAre DEF Init, Basic

\* The burst begins.
LEMMA BasicStart == ASSUME Basic, StartBurst PROVE Basic'
<1>1. FirstBurst \in -1..LastPacket + 1 /\ FirstBurst \in FirstBurst..LastPacket + 1
  BY SizesAre
<1>2. TypeOK'
  BY <1>1 DEF StartBurst, Basic, TypeOK, fcc, ring, ghosts
<1>3. FirstBurst <= live
  BY SizesAre DEF Basic
<1> QED BY <1>1, <1>2, <1>3 DEF StartBurst, Basic, fcc, ring, ghosts

\* The burst goes on.
LEMMA BasicPushBurst == ASSUME Basic, PushBurst PROVE Basic'
<1>1. /\ burst \in Nat /\ burst < live /\ live \in Int /\ burst <= LastPacket
      /\ (burst = -1 \/ burst >= FirstBurst)
  BY SizesAre, PacketsAre DEF Basic, PushBurst
<1>2. burst + 1 \in -1..LastPacket + 1 /\ burst + 1 \in FirstBurst..LastPacket + 1 /\ burst + 1 <= live
  BY <1>1, SizesAre
<1>3. TypeOK'
  BY <1>2 DEF PushBurst, Basic, TypeOK, fcc, ring, ghosts
<1> QED BY <1>2, <1>3 DEF PushBurst, Basic, fcc, ring, ghosts

\* The group goes on.
LEMMA BasicPushGroup == ASSUME Basic, PushGroup PROVE Basic'
<1>1. live \in Nat /\ live <= LastPacket /\ live >= FirstLive
  BY SizesAre, PacketsAre DEF Basic, PushGroup
<1>2. live + 1 \in FirstLive..LastPacket + 1
  BY <1>1, SizesAre
<1>3. TypeOK'
  BY DEF PushGroup, Basic, TypeOK, fcc, ring, ghosts
<1>4. burst = -1 \/ (burst \in FirstBurst..LastPacket + 1 /\ burst <= live + 1)
  BY <1>1, SizesAre DEF Basic
<1> QED BY <1>2, <1>3, <1>4 DEF PushGroup, Basic, fcc, ring, ghosts

\* A packet is lost.
LEMMA BasicDrop == ASSUME Basic, Drop PROVE Basic'
<1>1. drops + 1 \in 0..MaxDrops
  BY SizesAre DEF Basic, TypeOK, Drop
<1>2. /\ unicast' \subseteq Packet /\ multicast' \subseteq Packet /\ quiet' \in 0..UnicastTicks
  BY SizesAre DEF Basic, TypeOK, Drop
<1>3. TypeOK'
  BY <1>1, <1>2 DEF Drop, Basic, TypeOK, ring
<1> QED BY <1>3 DEF Drop, Basic, ring

\* A packet of the burst arrives.
LEMMA BasicUnicast == ASSUME Basic, NEW p \in unicast, UnicastMedia(p) PROVE Basic'
<1>1. p \in Packet /\ <<p>> \in Seq(Packet)
  BY DEF Basic, TypeOK
<1>2. /\ state' \in States /\ work' \in Seq(Packet) /\ played' \in -1..SyncTicks
      /\ unicast' \subseteq Packet /\ quiet' \in 0..UnicastTicks
  <2>1. 0 \in -1..SyncTicks /\ 0 \in 0..UnicastTicks
    BY SizesAre
  <2> QED BY <1>1, <2>1 DEF UnicastMedia, Basic, TypeOK, States
<1>3. TypeOK'
  BY <1>2 DEF UnicastMedia, Basic, TypeOK, ring
<1>4. state # "CLOSED" /\ ~failed
  BY DEF UnicastMedia, Idle
<1>5. /\ state' # "CLOSED" /\ (state' = state \/ (state' = "UNICAST_ACTIVE" /\ state = "UNICAST_PENDING"))
  BY <1>4 DEF UnicastMedia
<1> QED BY <1>3, <1>4, <1>5 DEF UnicastMedia, Basic, ring

\* A packet of the group arrives; the first of them stops the server.
LEMMA BasicGroup == ASSUME Calm, Basic, NEW p \in multicast, GroupMedia(p) PROVE Basic'
<1>1. p \in Packet /\ p \in Nat /\ p <= LastPacket
  BY PacketsAre DEF Basic, TypeOK
<1>2. /\ state # "CLOSED" /\ ~failed /\ work = <<>> /\ state' = state /\ multicast' = multicast \ {p}
      /\ pending \in Seq(Packet)
  BY DEF GroupMedia, Idle, Basic, TypeOK
<1>3. CASE McastTransition(p)
  <2>1. /\ state = "MCAST_REQUESTED" /\ work' = work
        /\ pending' = IF failed' THEN pending ELSE Append(pending, p)
    BY <1>3 DEF McastTransition
  <2>2. CASE termSent
    <3>1. UNCHANGED <<termSent, termSeq, stopAt, failed>>
      BY <1>3, <2>2 DEF McastTransition
    <3>2. pending' = Append(pending, p) /\ pending' \in Seq(Packet)
      BY <1>1, <1>2, <2>1, <3>1
    <3>3. pending # <<>> /\ stopAt = pending[1] + 2 /\ stopAt <= LastPacket + 2
      BY <2>1, <2>2 DEF Basic
    <3>4. pending' # <<>> /\ pending'[1] = pending[1]
      BY <1>1, <1>2, <3>2, <3>3
    <3>5. TypeOK'
      BY <1>2, <2>1, <3>1, <3>2 DEF GroupMedia, Basic, TypeOK, ring, ghosts
    <3> QED BY <1>2, <2>1, <2>2, <3>1, <3>3, <3>4, <3>5 DEF GroupMedia, Basic, ring, ghosts
  <2>3. CASE ~termSent
    <3>1. termSeq' = p % SeqMod /\ SendTermination(p)
      BY <1>3, <2>3 DEF McastTransition
    <3>2. pending = <<>>
      BY <2>3 DEF Basic
    <3>3. p % SeqMod \in 0..SeqMod - 1
      BY <1>1, SizesAre
    <3>4. CASE termSent' = TRUE /\ stopAt' = p + 2 /\ failed' = failed
      <4>1. pending' = <<p>> /\ pending' \in Seq(Packet) /\ pending' # <<>> /\ pending'[1] = p
        BY <1>1, <1>2, <2>1, <3>2, <3>4
      <4>2. p + 2 \in -1..Never /\ p + 2 <= LastPacket + 2
        BY <1>1, SizesAre, PacketsAre
      <4>3. TypeOK'
        BY <1>2, <2>1, <3>1, <3>3, <3>4, <4>1, <4>2 DEF GroupMedia, Basic, TypeOK, ring, ghosts
      <4> QED BY <1>2, <2>1, <3>4, <4>1, <4>2, <4>3 DEF GroupMedia, Basic, ring, ghosts
    <3>5. CASE failed' = TRUE /\ UNCHANGED <<termSent, stopAt>>
      <4>1. pending' = pending
        BY <2>1, <3>5
      <4>2. TypeOK'
        BY <1>2, <2>1, <3>1, <3>3, <3>5, <4>1 DEF GroupMedia, Basic, TypeOK, ring, ghosts
      <4> QED BY <1>2, <2>1, <2>3, <3>2, <3>5, <4>1, <4>2 DEF GroupMedia, Basic, ring, ghosts
    <3>6. (p + 2) % SeqMod # 0
      BY <1>1 DEF Calm
    <3> QED BY <3>1, <3>4, <3>5, <3>6 DEF SendTermination
  <2> QED BY <2>2, <2>3
<1>4. CASE McastActive(p)
  <2>1. Append(pending, p) \in Seq(Packet) /\ <<>> \in Seq(Packet)
    BY <1>1, <1>2
  <2>2. TypeOK'
    BY <1>2, <1>4, <2>1 DEF McastActive, GroupMedia, Basic, TypeOK, ring, ghosts
  <2> QED BY <1>2, <1>4, <2>2 DEF McastActive, GroupMedia, Basic, ring, ghosts
<1> QED BY <1>3, <1>4 DEF GroupMedia

\* A packet goes into the window.
LEMMA BasicProcess == ASSUME Basic, Process PROVE Basic'
<1> DEFINE p == Head(work)
<1>1. p \in Packet /\ Tail(work) \in Seq(Packet) /\ work # <<>>
  BY DEF Basic, TypeOK, Process
<1>2. Reorder!Insert(p, FALSE) /\ work' = Tail(work) /\ sent' = sent \cup Range(out')
      /\ state' = (IF Reached THEN "MCAST_ACTIVE" ELSE state)
  BY DEF Process
<1> HIDE DEF p
<1>3. /\ slots' \in [Reorder!Ring -> Packet \cup {NoPacket}]
      /\ base' \in 0..SeqMod - 1 /\ count' \in 0..SeqMod - 1 /\ phase' \in 0..2
      /\ out' \in Seq(Packet)
  BY <1>1, <1>2, InsertTypes DEF Basic
<1>4. sent' \subseteq Packet
  BY <1>2, <1>3 DEF Basic, TypeOK, Range
<1>5. state' \in States /\ (state' = state \/ (state' = "MCAST_ACTIVE" /\ termSent))
  BY <1>2 DEF Basic, TypeOK, States, Reached
<1>6. TypeOK'
  BY <1>1, <1>2, <1>3, <1>4, <1>5 DEF Process, Basic, TypeOK, env, ghosts
<1>7. ~failed /\ state # "CLOSED"
  BY <1>1 DEF Basic
<1> QED BY <1>2, <1>5, <1>6, <1>7 DEF Process, Basic, env, ghosts

\* A join has a result.
LEMMA JoinTypes == joined \in BOOLEAN /\ Join => joined' \in BOOLEAN
BY DEF Join

\* The server answers.
LEMMA BasicControl == ASSUME Basic, ControlMessage PROVE Basic'
<1>1. /\ Idle /\ controls + 1 \in 0..MaxControl /\ controls' = controls + 1 /\ quiet' = 0
      /\ UNCHANGED <<termSent, termSeq, pending, ring, work, env, sent, drops, played, clean>>
  <2>1. Idle /\ controls' = controls + 1
        /\ UNCHANGED <<termSent, termSeq, pending, ring, work, env, sent, drops, played, clean>>
    BY DEF ControlMessage
  <2>2. controls < MaxControl
    BY DEF ControlMessage
  <2>3. controls \in 0..MaxControl
    BY DEF Basic, TypeOK
  <2>4. controls + 1 \in 0..MaxControl
    BY <2>2, <2>3, SizesAre
  <2>5. quiet' = 0
    BY DEF ControlMessage, ServerResponse
  <2> QED BY <2>1, <2>4, <2>5
<1>2. /\ state # "CLOSED" /\ ~failed /\ work = <<>>
  BY <1>1 DEF Idle
<1>3. 0 \in 0..UnicastTicks /\ 0 \in -1..SyncTicks
  BY SizesAre
<1>4. /\ state' \in States /\ joined' \in BOOLEAN /\ failed' \in BOOLEAN
      /\ redirects' \in 0..MaxRedirects + 1 /\ waited' \in -1..SyncTicks
      /\ state' = "REQUESTED" => redirects' <= MaxRedirects
      /\ state' # "CLOSED" /\ (failed' => state' # "MCAST_ACTIVE")
      /\ termSent => state' \in {"MCAST_REQUESTED", "MCAST_ACTIVE"}
      /\ state' = "MCAST_REQUESTED" => state = "MCAST_REQUESTED" \/ ~termSent
  <2>1. CASE SyncNotification /\ UNCHANGED <<redirects, waited, failed>>
    <3>1. /\ state' = state \/ state' = "MCAST_REQUESTED"
          /\ state \in {"MCAST_REQUESTED", "MCAST_ACTIVE"} => state' = state
          /\ joined' = joined \/ Join
      BY <2>1 DEF SyncNotification
    <3>2. joined' \in BOOLEAN
      BY <3>1, JoinTypes DEF Basic, TypeOK
    <3> QED BY <1>2, <2>1, <3>1, <3>2 DEF Basic, TypeOK, States
  <2>2. ASSUME NEW a, ServerResponse(a)
        PROVE  /\ state' \in States /\ joined' \in BOOLEAN /\ failed' \in BOOLEAN
               /\ redirects' \in 0..MaxRedirects + 1 /\ waited' \in -1..SyncTicks
               /\ state' = "REQUESTED" => redirects' <= MaxRedirects
               /\ state' # "CLOSED" /\ (failed' => state' # "MCAST_ACTIVE")
               /\ ~termSent
    <3>1. /\ state = "REQUESTED" /\ redirects \in 0..MaxRedirects + 1 /\ redirects <= MaxRedirects
          /\ joined \in BOOLEAN /\ ~failed /\ waited \in -1..SyncTicks /\ failed \in BOOLEAN
          /\ ~termSent
      BY <1>2, <2>2 DEF ServerResponse, Basic, TypeOK
    <3>2. CASE state' = "UNICAST_PENDING" /\ waited' = 0 /\ UNCHANGED <<redirects, joined, failed>>
      BY <1>3, <3>1, <3>2 DEF States
    <3>3. CASE Fallback /\ UNCHANGED <<redirects, waited, failed>>
      BY <3>1, <3>3, JoinTypes DEF States, Fallback
    <3>4. CASE /\ redirects' = redirects + 1 /\ UNCHANGED waited
               /\ IF redirects' > MaxRedirects
                  THEN Fallback /\ UNCHANGED failed
                  ELSE /\ failed' \in IF "request" \in Failing THEN BOOLEAN ELSE {FALSE}
                       /\ state' = IF failed' THEN "INIT" ELSE "REQUESTED"
                       /\ UNCHANGED joined
      <4>1. redirects' \in 0..MaxRedirects + 1
        BY <3>1, <3>4, SizesAre
      <4>2. CASE redirects' > MaxRedirects
        BY <3>1, <3>4, <4>1, <4>2, JoinTypes DEF States, Fallback
      <4>3. CASE ~(redirects' > MaxRedirects)
        <5>1. redirects' <= MaxRedirects
          BY <4>1, <4>3, SizesAre
        <5>2. failed' \in BOOLEAN /\ state' = (IF failed' THEN "INIT" ELSE "REQUESTED") /\ joined' = joined
          BY <3>4, <4>3
        <5> QED BY <3>1, <3>4, <4>1, <5>1, <5>2 DEF States
      <4> QED BY <4>2, <4>3
    <3>5. CASE UNCHANGED <<state, redirects, waited, joined, failed>>
      BY <3>1, <3>5 DEF States
    <3> QED BY <2>2, <3>2, <3>3, <3>4, <3>5 DEF ServerResponse
  <2> QED BY <2>1, <2>2 DEF ControlMessage
<1>5. TypeOK'
  BY <1>1, <1>3, <1>4 DEF Basic, TypeOK, ring, env
<1> QED BY <1>1, <1>2, <1>4, <1>5 DEF Basic, ring, env

\* Time passes.
LEMMA BasicTick == ASSUME Basic, Tick PROVE Basic'
<1>1. /\ Idle
      /\ UNCHANGED <<redirects, termSent, termSeq, pending, failed, ring, work, env, sent, drops, controls>>
      /\ quiet' = UpTo(quiet, UnicastTicks)
      /\ waited' = (IF waited < 0 THEN waited ELSE UpTo(waited, SyncTicks))
      /\ played' = (IF played < 0 THEN played ELSE UpTo(played, SyncTicks))
  BY DEF Tick
<1>2. state # "CLOSED" /\ ~failed /\ work = <<>>
  BY <1>1 DEF Idle
<1>3. quiet' \in 0..UnicastTicks /\ waited' \in -1..SyncTicks /\ played' \in -1..SyncTicks
  BY <1>1, SizesAre DEF UpTo, Basic, TypeOK
<1>4. /\ state' = state \/ state' = "MCAST_ACTIVE" \/ (state' = "MCAST_REQUESTED" /\ state = "UNICAST_ACTIVE")
      /\ joined' = joined \/ Join
      /\ clean' = clean \/ clean' = FALSE
  BY DEF Tick, Fallback, SyncNotification
<1>5. joined' \in BOOLEAN /\ clean' \in BOOLEAN /\ state' \in States
  BY <1>4, JoinTypes DEF Basic, TypeOK, States
<1>6. TypeOK'
  BY <1>1, <1>3, <1>5 DEF Basic, TypeOK, ring, env
<1> QED BY <1>1, <1>2, <1>4, <1>6 DEF Basic, ring, env

\* The stream ends and tells the server.
LEMMA BasicCleanup == ASSUME Calm, Basic, Cleanup PROVE Basic'
<1>1. /\ stopAt' = IF termSent THEN stopAt ELSE burst
      /\ state' = "CLOSED" /\ work = <<>> /\ work' = work /\ pending' = <<>> /\ termSent' = FALSE
  BY DEF Cleanup, Calm
<1>2. stopAt' \in -1..Never /\ (burst # -1 => stopAt' # Never)
  BY <1>1, SizesAre, PacketsAre DEF Basic, TypeOK
<1>3. "CLOSED" \in States /\ <<>> \in Seq(Packet) /\ 0 \in 0..SeqMod - 1 /\ FALSE \in BOOLEAN
      /\ {} \subseteq Packet
  BY SizesAre DEF States
<1>4. TypeOK'
  BY <1>1, <1>2, <1>3 DEF Cleanup, Basic, TypeOK, ring, ghosts
<1> QED BY <1>1, <1>2, <1>4 DEF Cleanup, Basic, ring, ghosts

\* Every step keeps Basic.
LEMMA BasicNext == ASSUME Calm, Basic, [Next]_vars PROVE Basic'
<1>1. CASE UNCHANGED vars
  BY <1>1 DEF Basic, TypeOK, vars, fcc, ring, env, ghosts
<1> QED BY <1>1, BasicStart, BasicPushBurst, BasicPushGroup, BasicDrop, BasicControl, BasicUnicast,
           BasicGroup, BasicProcess, BasicTick, BasicCleanup DEF Next, Media
-----------------------------------------------------------------------------
(* A stream from which nothing is lost                                      *)

\* The group is to be joined from packet J on, or has been: what came of it
\* waits, close to the order it was sent in, and the termination message named
\* one of its packets.
Waiting(J) ==
  /\ FirstBurst <= J
  /\ IF joined THEN J <= live ELSE J > LastPacket /\ pending = <<>> /\ multicast = {} /\ ~termSent
  /\ Close(pending, multicast)
  /\ termSent => \E p \in J..live-1 : termSeq = p % SeqMod

\* The window is fed by the burst, which is unbroken; all that was sent of the
\* group since the stream joined waits or is on its way.
OnBurst(J, b) ==
  /\ state # "MCAST_REQUESTED" => ~joined
  /\ multicast \cup Range(pending) = J..live-1
  /\ Len(work) <= 1 /\ Close(work, unicast)
  /\ burst = -1 => phase = 0
  /\ Fed(Held, phase, live, FirstBurst, burst, unicast \cup Range(work), b)

\* The window is fed by the group, which is unbroken from J on.
OnGroup(J, b) ==
  /\ termSent => phase = 2
  /\ work # <<>> => pending = <<>>
  /\ Close(work, multicast)
  /\ Fed(Held, phase, live, J, live, multicast \cup Range(pending) \cup Range(work), b)

\* Either source, the window next to hand on b.
Line(b) == \E J \in Nat :
  /\ Waiting(J)
  /\ IF state = "MCAST_ACTIVE" THEN OnGroup(J, b) ELSE OnBurst(J, b)

\* Unless something was dropped or cut off, what was handed on is one run of
\* packets and the window goes on behind it.
Clean ==
  clean => \E lo, b \in Nat :
    /\ lo <= b /\ sent = lo..b-1
    /\ phase # 2 => sent = {}
    /\ state # "CLOSED" /\ ~failed => W!Settled(b) /\ Line(b)

\* What is proved of every state.
IInv == Basic /\ Clean

\* A sequence of packets is one of integers.
LEMMA SeqPackets == ASSUME NEW q \in Seq(Packet) PROVE q \in Seq(Int)
<1>1. Packet \subseteq Int
  BY PacketsAre
<1> QED BY <1>1, SeqMonotonic

\* One packet more at the end of a sequence.
LEMMA RangeAppend == ASSUME NEW T, NEW q \in Seq(T), NEW p \in T
                     PROVE  Range(Append(q, p)) = Range(q) \cup {p}
<1>1. /\ Append(q, p) \in Seq(T) /\ Len(Append(q, p)) = Len(q) + 1 /\ Len(q) \in Nat
      /\ DOMAIN q = 1..Len(q) /\ DOMAIN Append(q, p) = 1..Len(q)+1
      /\ \A i \in 1..Len(q) : Append(q, p)[i] = q[i]
      /\ Append(q, p)[Len(q)+1] = p
  OBVIOUS
<1> QED BY <1>1 DEF Range

\* The first packet of a sequence and the others.
LEMMA RangeTail == ASSUME NEW T, NEW q \in Seq(T), q # <<>>
                   PROVE  Range(q) = Range(Tail(q)) \cup {Head(q)} /\ Head(q) \in T
<1>1. /\ Tail(q) \in Seq(T) /\ Len(Tail(q)) = Len(q) - 1 /\ Len(q) \in Nat \ {0}
      /\ DOMAIN q = 1..Len(q) /\ DOMAIN Tail(q) = 1..Len(q)-1
      /\ \A i \in 1..Len(q)-1 : Tail(q)[i] = q[i+1]
      /\ Head(q) = q[1]
  OBVIOUS
<1>2. \A i \in 1..Len(q) : i = 1 \/ (i - 1 \in 1..Len(q)-1 /\ q[i] = Tail(q)[i-1])
  BY <1>1
<1>3. Range(q) \subseteq Range(Tail(q)) \cup {Head(q)}
  <2>1. ASSUME NEW i \in 1..Len(q) PROVE q[i] \in {Tail(q)[j] : j \in 1..Len(q)-1} \cup {Head(q)}
    <3>1. CASE i = 1
      BY <1>1, <3>1
    <3>2. CASE i # 1
      <4>1. i - 1 \in 1..Len(q)-1 /\ q[i] = Tail(q)[i-1]
        BY <1>2, <3>2
      <4> QED BY <4>1
    <3> QED BY <3>1, <3>2
  <2>2. \A j \in 1..Len(q)-1 : Tail(q)[j] \in Range(Tail(q))
    BY <1>1 DEF Range
  <2>3. \A x \in Range(q) : \E i \in 1..Len(q) : x = q[i]
    BY <1>1 DEF Range
  <2> QED BY <2>1, <2>2, <2>3
<1>4. Range(Tail(q)) \cup {Head(q)} \subseteq Range(q)
  <2>1. \A i \in 1..Len(q)-1 : i + 1 \in 1..Len(q)
    BY <1>1
  <2>2. 1 \in 1..Len(q)
    BY <1>1
  <2> QED BY <1>1, <2>1, <2>2 DEF Range
<1>5. q[1] \in T
  BY <1>1
<1> QED BY <1>1, <1>3, <1>4, <1>5

\* A packet that arrived may wait behind those that do.
LEMMA CloseAppend ==
  ASSUME NEW S \in SUBSET Int, NEW q \in Seq(Int), NEW p \in S, Close(q, S),
         \A x \in S : p - x <= Displaced
  PROVE  Close(Append(q, p), S \ {p})
<1> DEFINE r == Append(q, p)
<1>1. /\ Len(r) = Len(q) + 1 /\ Len(q) \in Nat /\ r[Len(q)+1] = p /\ p \in Int
      /\ \A i \in 1..Len(q) : r[i] = q[i] /\ q[i] \in Int
  OBVIOUS
<1>2. Displaced \in Nat
  BY SizesAre
<1>3. \A i \in 1..Len(q) : /\ \A j \in i..Len(q) : q[i] - q[j] <= Displaced
                           /\ \A x \in S : q[i] - x <= Displaced
  BY DEF Close
<1> HIDE DEF r
<1>4. ASSUME NEW i \in 1..Len(r)
      PROVE  /\ \A j \in i..Len(r) : r[i] - r[j] <= Displaced
             /\ \A x \in S \ {p} : r[i] - x <= Displaced
  <2>1. CASE i = Len(q) + 1
    BY <1>1, <1>2, <2>1
  <2>2. CASE i \in 1..Len(q)
    <3>1. ASSUME NEW j \in i..Len(r) PROVE r[i] - r[j] <= Displaced
      <4>1. CASE j = Len(q) + 1
        BY <1>1, <1>3, <2>2, <4>1
      <4>2. CASE j \in i..Len(q)
        BY <1>1, <1>3, <2>2, <4>2
      <4> QED BY <1>1, <2>2, <4>1, <4>2
    <3> QED BY <1>1, <1>3, <2>2, <3>1
  <2> QED BY <1>1, <2>1, <2>2
<1> QED BY <1>4 DEF Close, r

\* The first of a sequence may go, and the others stay as close as they were.
LEMMA CloseTail ==
  ASSUME NEW S, NEW q \in Seq(Int), q # <<>>, Close(q, S)
  PROVE  /\ Close(Tail(q), S)
         /\ \A x \in S \cup Range(q) : Head(q) - x <= Displaced
<1> DEFINE r == Tail(q)
<1>1. /\ Len(r) = Len(q) - 1 /\ Len(q) \in Nat \ {0} /\ Head(q) = q[1] /\ DOMAIN q = 1..Len(q)
      /\ \A i \in 1..Len(r) : r[i] = q[i+1]
  OBVIOUS
<1>2. \A i \in 1..Len(q) : /\ \A j \in i..Len(q) : q[i] - q[j] <= Displaced
                           /\ \A x \in S : q[i] - x <= Displaced
  BY DEF Close
<1> HIDE DEF r
<1>3. ASSUME NEW i \in 1..Len(r)
      PROVE  /\ \A j \in i..Len(r) : r[i] - r[j] <= Displaced
             /\ \A x \in S : r[i] - x <= Displaced
  <2>1. i + 1 \in 1..Len(q) /\ \A j \in i..Len(r) : j + 1 \in i+1..Len(q) /\ j \in 1..Len(r)
    BY <1>1
  <2> QED BY <1>1, <1>2, <2>1
<1>4. Close(r, S)
  BY <1>3 DEF Close
<1>5. 1 \in 1..Len(q)
  BY <1>1
<1>6. \A x \in Range(q) : \E j \in 1..Len(q) : x = q[j]
  BY <1>1 DEF Range
<1> QED BY <1>1, <1>2, <1>4, <1>5, <1>6 DEF r

\* An empty sequence is close to anything.
LEMMA CloseEmpty == ASSUME NEW S PROVE Close(<<>>, S)
<1>1. Len(<<>>) = 0
  OBVIOUS
<1> QED BY <1>1 DEF Close

\* An empty sequence has no elements.
LEMMA RangeEmpty == Range(<<>>) = {}
BY DEF Range

\* The packets that may arrive are not far ahead of any that is on its way.
LEMMA ArrivableIs ==
  ASSUME NEW S \in SUBSET Nat, NEW p \in Arrivable(S)
  PROVE  p \in S /\ \A x \in S : p - x <= Displaced
<1>1. p \in S /\ p - Min(S) <= Displaced
  BY DEF Arrivable
<1>2. Min(S) \in S /\ \A x \in S : Min(S) <= x
  <2>1. W!Min(S) \in S /\ \A x \in S : W!Min(S) <= x
    BY <1>1, W!LowestIs, FccAssumption
  <2> QED BY <2>1 DEF W!Min, Min
<1>3. Displaced \in Nat
  BY SizesAre
<1> DEFINE m == Min(S)
<1>4. m \in Int /\ p \in Int /\ p - m <= Displaced /\ \A x \in S : x \in Int /\ m <= x
  <2>1. \A x \in S : x \in Int
    OBVIOUS
  <2>2. m \in S /\ \A x \in S : m <= x
    BY <1>2
  <2>3. p - m <= Displaced /\ p \in S
    BY <1>1
  <2> QED BY <2>1, <2>2, <2>3
<1> HIDE DEF m
<1>5. \A x \in S : p - x <= Displaced
  BY <1>3, <1>4
<1> QED BY <1>1, <1>5

\* The window stays as it is.
LEMMA SettledStays == ASSUME NEW b, W!Settled(b), UNCHANGED ring PROVE W!Settled(b)' /\ Held' = Held
BY DEF W!Settled, W!Here, W!Exact, W!Placed, W!Held, Held, ring

\* A step that leaves the window alone.
LEMMA CleanStep ==
  ASSUME Clean, UNCHANGED <<sent, ring>>, clean' => clean,
         clean' /\ state' # "CLOSED" /\ ~failed' => state # "CLOSED" /\ ~failed,
         clean' /\ state' # "CLOSED" /\ ~failed' =>
           \A b \in Nat : W!Settled(b) /\ Line(b) => Line(b)'
  PROVE  Clean'
<1> SUFFICES ASSUME clean'
             PROVE  \E lo, b \in Nat :
                      /\ lo <= b /\ sent' = lo..b-1
                      /\ phase' # 2 => sent' = {}
                      /\ state' # "CLOSED" /\ ~failed' => W!Settled(b)' /\ Line(b)'
  BY DEF Clean
<1>1. PICK lo \in Nat, b \in Nat :
        /\ lo <= b /\ sent = lo..b-1
        /\ phase # 2 => sent = {}
        /\ state # "CLOSED" /\ ~failed => W!Settled(b) /\ Line(b)
  BY DEF Clean
<1>2. sent' = sent /\ phase' = phase
  BY DEF ring
<1>3. state' # "CLOSED" /\ ~failed' => W!Settled(b)' /\ Line(b)'
  <2>1. ASSUME state' # "CLOSED", ~failed' PROVE W!Settled(b) /\ Line(b) /\ Line(b)'
    BY <1>1, <2>1
  <2> QED BY <2>1, SettledStays
<1> QED BY <1>1, <1>2, <1>3
-----------------------------------------------------------------------------
(* The steps                                                                *)

\* The burst begins; nothing was handed on yet.
LEMMA LineStart ==
  ASSUME Basic, StartBurst, NEW b \in Nat, Line(b) PROVE Line(b)'
<1>1. PICK J \in Nat : Waiting(J) /\ IF state = "MCAST_ACTIVE" THEN OnGroup(J, b) ELSE OnBurst(J, b)
  BY DEF Line
<1>2. /\ state = "REQUESTED" /\ burst = -1 /\ burst' = FirstBurst /\ Held' = Held
      /\ UNCHANGED <<state, joined, pending, multicast, termSent, termSeq, live, phase, unicast, work>>
  BY DEF StartBurst, fcc, ring, Held
<1>3. Waiting(J)'
  BY <1>1, <1>2 DEF Waiting
<1>4. OnBurst(J, b)
  BY <1>1, <1>2
<1>5. FirstBurst..(-1)-1 = {} /\ FirstBurst..FirstBurst-1 = {}
  BY SizesAre
<1>6. OnBurst(J, b)'
  <2>1. Fed(Held, phase, live, FirstBurst, FirstBurst, unicast \cup Range(work), b)
    BY <1>2, <1>4, <1>5 DEF OnBurst, Fed
  <2>2. phase = 0
    BY <1>2, <1>4 DEF OnBurst
  <2> QED BY <1>2, <1>4, <2>1, <2>2 DEF OnBurst
<1> QED BY <1>2, <1>3, <1>6 DEF Line

\* The burst goes on.
LEMMA LinePushBurst ==
  ASSUME Basic, PushBurst, NEW b \in Nat, Line(b) PROVE Line(b)'
<1>1. PICK J \in Nat : Waiting(J) /\ IF state = "MCAST_ACTIVE" THEN OnGroup(J, b) ELSE OnBurst(J, b)
  BY DEF Line
<1>2. /\ burst' = burst + 1 /\ unicast' = unicast \cup {burst} /\ Held' = Held /\ work = <<>>
      /\ UNCHANGED <<state, joined, pending, multicast, termSent, termSeq, live, phase, work>>
  BY DEF PushBurst, fcc, ring, Held
<1>3. Waiting(J)'
  BY <1>1, <1>2 DEF Waiting
<1>4. CASE state = "MCAST_ACTIVE"
  BY <1>1, <1>2, <1>3, <1>4 DEF OnGroup, Line
<1>5. CASE state # "MCAST_ACTIVE"
  <2>1. OnBurst(J, b)
    BY <1>1, <1>5
  <2>2. burst \in Int /\ burst >= FirstBurst /\ FirstBurst \in Nat /\ burst # -1
    BY SizesAre DEF Basic, PushBurst, Packet
  <2>3. /\ FirstBurst..burst'-1 = (FirstBurst..burst-1) \cup {burst}
        /\ unicast' \cup Range(work') = (unicast \cup Range(work)) \cup {burst}
    BY <1>2, <2>2
  <2>4. Fed(Held, phase, live, FirstBurst, burst', unicast' \cup Range(work'), b)
    BY <2>1, <2>3 DEF OnBurst, Fed
  <2>5. Close(work', unicast') /\ burst' # -1
    BY <1>2, <2>2, CloseEmpty
  <2>6. OnBurst(J, b)'
    BY <1>2, <2>1, <2>4, <2>5 DEF OnBurst
  <2> QED BY <1>2, <1>3, <1>5, <2>6 DEF Line
<1> QED BY <1>4, <1>5

\* The group goes on, whether it was joined or not.
LEMMA LinePushGroup ==
  ASSUME Basic, PushGroup, NEW b \in Nat, Line(b) PROVE Line(b)'
<1>1. PICK J \in Nat : Waiting(J) /\ IF state = "MCAST_ACTIVE" THEN OnGroup(J, b) ELSE OnBurst(J, b)
  BY DEF Line
<1>2. /\ live' = live + 1 /\ multicast' = (IF joined THEN multicast \cup {live} ELSE multicast)
      /\ Held' = Held /\ work = <<>>
      /\ UNCHANGED <<state, joined, pending, termSent, termSeq, burst, unicast, phase, work>>
  BY DEF PushGroup, fcc, ring, Held
<1>3. live \in Nat /\ live <= LastPacket /\ LastPacket \in Nat /\ Displaced \in Nat
      /\ pending \in Seq(Packet) /\ multicast \subseteq Packet
  BY SizesAre DEF PushGroup, Packet, Basic, TypeOK
<1>4. Range(work) = {} /\ Close(work', multicast') /\ Close(work', unicast')
  BY <1>2, RangeEmpty, CloseEmpty
<1>5. J..live'-1 = (J..live-1) \cup (IF J <= live THEN {live} ELSE {})
  BY <1>2, <1>3
<1>6. joined \/ (J > live /\ pending = <<>> /\ multicast = {} /\ ~termSent /\ J..live'-1 = {})
  BY <1>1, <1>2, <1>3 DEF Waiting
<1>7. Range(pending) \subseteq J..live-1
  BY <1>1 DEF OnGroup, OnBurst, Fed
<1>8. Waiting(J)'
  <2>1. FirstBurst <= J /\ Close(pending, multicast)
        /\ (IF joined THEN J <= live ELSE J > LastPacket /\ pending = <<>> /\ multicast = {} /\ ~termSent)
        /\ (termSent => \E p \in J..live-1 : termSeq = p % SeqMod)
    BY <1>1 DEF Waiting
  <2>2. Close(pending, multicast \cup {live})
    <3>1. \A i \in 1..Len(pending) : pending[i] \in J..live-1
      BY <1>3, <1>7 DEF Range
    <3>2. \A i \in 1..Len(pending) : pending[i] - live <= Displaced
      BY <1>3, <3>1
    <3> QED BY <2>1, <3>2 DEF Close
  <2>3. Close(pending, multicast')
    BY <1>2, <2>1, <2>2
  <2>4. joined => J <= live'
    BY <1>2, <1>3, <2>1
  <2>5. termSent => \E p \in J..live'-1 : termSeq = p % SeqMod
    BY <1>5, <2>1
  <2> QED BY <1>2, <2>1, <2>3, <2>4, <2>5 DEF Waiting
<1>9. J..live'-1 = (J..live-1) \cup (IF joined THEN {live} ELSE {})
      /\ multicast' = multicast \cup (IF joined THEN {live} ELSE {})
  BY <1>1, <1>2, <1>5, <1>6 DEF Waiting
<1>10. 0..live-1 \subseteq 0..live'-1 /\ \A c \in Nat : c <= live => c <= live'
  BY <1>2, <1>3
<1>11. CASE state = "MCAST_ACTIVE"
  <2>1. OnGroup(J, b)
    BY <1>1, <1>11
  <2>2. Fed(Held, phase, live', J, live', multicast' \cup Range(pending) \cup Range(work), b)
    BY <1>9, <1>10, <2>1 DEF OnGroup, Fed
  <2>3. OnGroup(J, b)'
    BY <1>2, <1>4, <2>1, <2>2 DEF OnGroup
  <2> QED BY <1>2, <1>8, <1>11, <2>3 DEF Line
<1>12. CASE state # "MCAST_ACTIVE"
  <2>1. OnBurst(J, b)
    BY <1>1, <1>12
  <2>2. Fed(Held, phase, live', FirstBurst, burst, unicast \cup Range(work), b)
    BY <1>10, <2>1 DEF OnBurst, Fed
  <2>3. multicast' \cup Range(pending) = J..live'-1
    BY <1>9, <2>1 DEF OnBurst
  <2>4. OnBurst(J, b)'
    BY <1>2, <1>4, <2>1, <2>2, <2>3 DEF OnBurst
  <2> QED BY <1>2, <1>8, <1>12, <2>4 DEF Line
<1> QED BY <1>11, <1>12
\* The stream joins the group, or tries to: to take it beside the burst, or
\* instead of a burst that never began.
LEMMA LineJoin ==
  ASSUME Basic, NEW b \in Nat, W!Settled(b), Line(b), state \notin {"MCAST_REQUESTED", "MCAST_ACTIVE"},
         UNCHANGED <<termSent, termSeq, pending, ring, work, env>>, work = <<>>,
         \/ state' \notin {"MCAST_REQUESTED", "MCAST_ACTIVE"} /\ joined' = joined
         \/ state' = "MCAST_REQUESTED" /\ Join
         \/ state' = "MCAST_ACTIVE" /\ Join /\ burst = -1
  PROVE  Line(b)'
<1>1. PICK J \in Nat : Waiting(J) /\ OnBurst(J, b)
  BY DEF Line
<1>2. Held' = Held /\ UNCHANGED <<termSent, termSeq, pending, work, burst, live, unicast, multicast, phase>>
  BY DEF ring, env, Held
<1>3. ~joined /\ J > LastPacket /\ pending = <<>> /\ multicast = {} /\ ~termSent /\ FirstBurst <= J
  BY <1>1 DEF OnBurst, Waiting
<1>4. live \in Nat /\ live <= LastPacket + 1 /\ FirstBurst <= live /\ LastPacket \in Nat /\ FirstBurst \in Nat
  BY SizesAre DEF Basic
<1>5. joined' = FALSE \/ joined' = TRUE
  BY <1>3 DEF Join
<1>11. PICK K \in Nat : K = IF joined' THEN live ELSE J
  BY <1>4
<1>6. K \in Nat /\ K..live-1 = {} /\ J..live-1 = {} /\ FirstBurst <= K
  BY <1>3, <1>4, <1>11
<1>7. Waiting(K)'
  <2>1. IF joined' THEN K <= live ELSE K > LastPacket /\ pending = <<>> /\ multicast = {} /\ ~termSent
    BY <1>3, <1>4, <1>11
  <2>2. Close(pending, multicast)
    BY <1>3, CloseEmpty
  <2> QED BY <1>2, <1>3, <1>6, <2>1, <2>2 DEF Waiting
<1>8. Range(pending) = {} /\ Range(work) = {}
  BY <1>3, RangeEmpty
<1>9. CASE state' # "MCAST_ACTIVE"
  <2>1. state' # "MCAST_REQUESTED" => ~joined'
    BY <1>3, <1>9
  <2>2. multicast \cup Range(pending) = K..live-1
    BY <1>3, <1>6, <1>8
  <2>3. OnBurst(K, b)'
    BY <1>1, <1>2, <2>1, <2>2 DEF OnBurst
  <2> QED BY <1>6, <1>7, <1>9, <2>3 DEF Line
<1>10. CASE state' = "MCAST_ACTIVE"
  <2>1. burst = -1 /\ phase = 0
    BY <1>1, <1>10 DEF OnBurst
  <2>2. Held = {}
    BY <2>1 DEF W!Settled, Held
  <2>3. Fed(Held, phase, live, K, live, multicast \cup Range(pending) \cup Range(work), b)
    BY <1>3, <1>6, <1>8, <2>1, <2>2 DEF Fed
  <2>4. OnGroup(K, b)'
    BY <1>2, <1>3, <2>3, CloseEmpty DEF OnGroup
  <2> QED BY <1>6, <1>7, <1>10, <2>4 DEF Line
<1> QED BY <1>9, <1>10

\* A step that changes nothing of what Line speaks of.
LEMMA LineStays ==
  ASSUME NEW b \in Nat, Line(b), UNCHANGED <<state, joined, termSent, termSeq, pending, ring, work, env>>
  PROVE  Line(b)'
<1>1. Held' = Held /\ UNCHANGED <<state, joined, termSent, termSeq, pending, work, burst, live, unicast, multicast, phase>>
  BY DEF ring, env, Held
<1>2. PICK J \in Nat : Waiting(J) /\ IF state = "MCAST_ACTIVE" THEN OnGroup(J, b) ELSE OnBurst(J, b)
  BY DEF Line
<1>3. Waiting(J)'
  BY <1>1, <1>2 DEF Waiting
<1>4. CASE state = "MCAST_ACTIVE"
  BY <1>1, <1>2, <1>3, <1>4 DEF OnGroup, Line
<1>5. CASE state # "MCAST_ACTIVE"
  BY <1>1, <1>2, <1>3, <1>5 DEF OnBurst, Line
<1> QED BY <1>4, <1>5

\* The server answers: a burst that was accepted goes on, the group is taken
\* only where none has begun.
LEMMA LineControl ==
  ASSUME Basic, ControlMessage, NEW b \in Nat, W!Settled(b), Line(b) PROVE Line(b)'
<1>1. work = <<>> /\ UNCHANGED <<termSent, termSeq, pending, ring, work, env>>
  BY DEF ControlMessage, Idle
<1>2. CASE SyncNotification
  <2>1. CASE state \in {"MCAST_REQUESTED", "MCAST_ACTIVE"}
    <3>1. UNCHANGED <<state, joined>>
      BY <1>2, <2>1 DEF SyncNotification
    <3> QED BY <1>1, <3>1, LineStays
  <2>2. CASE state \notin {"MCAST_REQUESTED", "MCAST_ACTIVE"}
    <3>1. state' = "MCAST_REQUESTED" /\ Join
      BY <1>2, <2>2 DEF SyncNotification
    <3> QED BY <1>1, <2>2, <3>1, LineJoin
  <2> QED BY <2>1, <2>2
<1>3. ASSUME NEW a, a \in (IF burst = -1 THEN Answers \ {"accept"} ELSE {"accept"}), ServerResponse(a)
      PROVE  Line(b)'
  <2>1. state = "REQUESTED"
    BY <1>3 DEF ServerResponse
  <2>2. CASE a = "accept"
    <3>1. state' = "UNICAST_PENDING" /\ joined' = joined
      BY <1>3, <2>2 DEF ServerResponse
    <3> QED BY <1>1, <2>1, <3>1, LineJoin
  <2>3. CASE a # "accept"
    <3>1. burst = -1
      BY <1>3, <2>3
    <3>2. \/ state' = "MCAST_ACTIVE" /\ Join
          \/ state' \notin {"MCAST_REQUESTED", "MCAST_ACTIVE"} /\ joined' = joined
      <4>1. CASE a = "refuse"
        BY <1>3, <4>1 DEF ServerResponse, Fallback
      <4>2. CASE a = "again"
        BY <1>3, <2>1, <4>2 DEF ServerResponse
      <4>3. CASE a = "redirect"
        BY <1>3, <4>3 DEF ServerResponse, Fallback
      <4> QED BY <1>3, <2>3, <4>1, <4>2, <4>3 DEF Answers
    <3> QED BY <1>1, <2>1, <3>1, <3>2, LineJoin
  <2> QED BY <2>2, <2>3
<1> QED BY <1>2, <1>3 DEF ControlMessage

\* Time passes; what cuts the burst off is not clean.
LEMMA LineTick ==
  ASSUME Basic, Tick, clean, clean', NEW b \in Nat, W!Settled(b), Line(b) PROVE Line(b)'
<1>1. work = <<>> /\ UNCHANGED <<termSent, termSeq, pending, ring, work, env>>
  BY DEF Tick, Idle
<1>2. \/ state = "UNICAST_ACTIVE" /\ SyncNotification
      \/ UNCHANGED <<state, joined>>
  BY DEF Tick
<1>3. CASE state = "UNICAST_ACTIVE" /\ SyncNotification
  <2>1. state' = "MCAST_REQUESTED" /\ Join /\ state \notin {"MCAST_REQUESTED", "MCAST_ACTIVE"}
    BY <1>3 DEF SyncNotification
  <2> QED BY <1>1, <2>1, LineJoin
<1>4. CASE UNCHANGED <<state, joined>>
  BY <1>1, <1>4, LineStays
<1> QED BY <1>2, <1>3, <1>4

\* A packet of the burst arrives; one of a stream that left it is not looked at.
LEMMA LineUnicast ==
  ASSUME Basic, NEW p \in unicast, UnicastMedia(p), NEW b \in Nat, Line(b) PROVE Line(b)'
<1>1. PICK J \in Nat : Waiting(J) /\ IF state = "MCAST_ACTIVE" THEN OnGroup(J, b) ELSE OnBurst(J, b)
  BY DEF Line
<1>2. /\ work = <<>> /\ Held' = Held /\ unicast' = unicast \ {p} /\ p \in Arrivable(unicast)
      /\ UNCHANGED <<termSent, termSeq, pending, joined, burst, live, multicast, phase>>
  BY DEF UnicastMedia, Idle, ring, Held
<1>3. CASE state = "MCAST_ACTIVE"
  <2>1. UNCHANGED <<state, work>>
    BY <1>3 DEF UnicastMedia
  <2> QED BY <1>1, <1>2, <1>3, <2>1 DEF Line, Waiting, OnGroup
<1>4. CASE state # "MCAST_ACTIVE"
  <2>1. /\ work' = <<p>> /\ state' = IF state = "UNICAST_PENDING" THEN "UNICAST_ACTIVE" ELSE state
    BY <1>4 DEF UnicastMedia
  <2>2. OnBurst(J, b) /\ Waiting(J)
    BY <1>1, <1>4
  <2>3. unicast \in SUBSET Nat /\ unicast \in SUBSET Int /\ p \in Int
    BY PacketsAre DEF Basic, TypeOK
  <2>4. Range(work') = {p} /\ Range(work) = {} /\ Len(work') = 1
    <3>1. work' \in Seq(Int) /\ work' # <<>> /\ Tail(work') = <<>> /\ Head(work') = p
      BY <2>1, <2>3
    <3> QED BY <1>2, <2>1, <3>1, RangeTail, RangeEmpty
  <2>5. Close(work', unicast')
    <3>1. Close(work, unicast) /\ work \in Seq(Int)
      BY <1>2, CloseEmpty
    <3>2. \A x \in unicast : p - x <= Displaced
      BY <1>2, <2>3, ArrivableIs
    <3>3. Close(Append(work, p), unicast \ {p})
      BY <2>3, <3>1, <3>2, CloseAppend
    <3>4. work' = Append(work, p)
      BY <1>2, <2>1
    <3> QED BY <1>2, <3>3, <3>4
  <2>6. unicast' \cup Range(work') = unicast \cup Range(work)
    BY <1>2, <2>4
  <2>7. Waiting(J)'
    BY <1>2, <2>2 DEF Waiting
  <2>8. OnBurst(J, b)'
    <3>1. (state' # "MCAST_REQUESTED" => ~joined') /\ Len(work') <= 1
      BY <1>2, <2>1, <2>2, <2>4 DEF OnBurst
    <3>2. /\ multicast' \cup Range(pending') = J..live'-1
          /\ burst' = -1 => phase' = 0
          /\ Fed(Held', phase', live', FirstBurst, burst', unicast' \cup Range(work'), b)
      BY <1>2, <2>2, <2>6 DEF OnBurst
    <3> QED BY <2>5, <3>1, <3>2 DEF OnBurst
  <2> QED BY <1>4, <2>1, <2>7, <2>8 DEF Line
<1> QED BY <1>3, <1>4
\* A packet of the group arrives: it waits, or goes into the window behind all
\* that waited.
LEMMA LineGroup ==
  ASSUME Basic, NEW p \in multicast, GroupMedia(p), ~failed', NEW b \in Nat, Line(b) PROVE Line(b)'
<1>1. PICK J \in Nat : Waiting(J) /\ IF state = "MCAST_ACTIVE" THEN OnGroup(J, b) ELSE OnBurst(J, b)
  BY DEF Line
<1>2. /\ work = <<>> /\ Held' = Held /\ multicast' = multicast \ {p} /\ p \in Arrivable(multicast)
      /\ UNCHANGED <<state, joined, burst, live, unicast, phase>>
      /\ McastTransition(p) \/ McastActive(p)
  BY DEF GroupMedia, Idle, ring, Held
<1>3. multicast \in SUBSET Nat /\ multicast \in SUBSET Int /\ p \in Packet /\ p \in Int
      /\ pending \in Seq(Packet) /\ pending \in Seq(Int) /\ live \in Int
  <2>1. multicast \subseteq Packet /\ pending \in Seq(Packet)
    BY DEF Basic, TypeOK
  <2>2. pending \in Seq(Int)
    BY <2>1, SeqPackets
  <2>3. live \in Int
    BY SizesAre DEF Basic
  <2> QED BY <2>1, <2>2, <2>3, PacketsAre
<1>4. Close(Append(pending, p), multicast') /\ Range(Append(pending, p)) = Range(pending) \cup {p}
  <2>1. \A x \in multicast : p - x <= Displaced
    BY <1>2, <1>3, ArrivableIs
  <2>2. Close(pending, multicast)
    BY <1>1 DEF Waiting
  <2>3. Close(Append(pending, p), multicast \ {p})
    BY <1>3, <2>1, <2>2, CloseAppend
  <2> QED BY <1>2, <1>3, <2>3, RangeAppend
<1>5. joined /\ FirstBurst <= J /\ J <= live
      /\ (termSent => \E q \in J..live-1 : termSeq = q % SeqMod)
  BY <1>1 DEF Waiting
<1>6. Range(work) = {}
  BY <1>2, RangeEmpty
<1>7. CASE McastTransition(p)
  <2>1. state = "MCAST_REQUESTED" /\ work' = work /\ pending' = Append(pending, p)
        /\ ((termSent' = termSent /\ termSeq' = termSeq) \/ termSeq' = p % SeqMod)
    BY <1>7 DEF McastTransition
  <2>2. OnBurst(J, b)
    BY <1>1, <2>1
  <2>3. p \in J..live-1
    BY <2>2 DEF OnBurst
  <2>4. Waiting(J)'
    <3>1. termSent' => \E q \in J..live-1 : termSeq' = q % SeqMod
      BY <1>5, <2>1, <2>3
    <3> QED BY <1>2, <1>4, <1>5, <2>1, <3>1 DEF Waiting
  <2>5. multicast' \cup Range(pending') = multicast \cup Range(pending)
    BY <1>2, <1>4, <2>1
  <2>6. OnBurst(J, b)'
    BY <1>2, <2>1, <2>2, <2>5 DEF OnBurst
  <2> QED BY <1>2, <2>1, <2>4, <2>6 DEF Line
<1>8. CASE McastActive(p)
  <2>1. /\ state = "MCAST_ACTIVE" /\ work' = Append(pending, p) /\ pending' = <<>>
        /\ UNCHANGED <<termSent, termSeq>>
    BY <1>8 DEF McastActive
  <2>2. OnGroup(J, b)
    BY <1>1, <2>1
  <2>3. Waiting(J)'
    <3>1. Close(pending', multicast')
      BY <2>1, CloseEmpty
    <3> QED BY <1>2, <1>5, <2>1, <3>1 DEF Waiting
  <2>4. multicast' \cup Range(pending') \cup Range(work') = multicast \cup Range(pending) \cup Range(work)
    <3>1. Range(pending') = {}
      BY <2>1, RangeEmpty
    <3> QED BY <1>2, <1>4, <1>6, <2>1, <3>1
  <2>5. OnGroup(J, b)'
    BY <1>2, <1>4, <2>1, <2>2, <2>4 DEF OnGroup
  <2> QED BY <1>2, <2>1, <2>3, <2>5 DEF Line
<1> QED BY <1>2, <1>7, <1>8

\* The window's next to hand on has reached the packet the message named.
LEMMA ReachedIs ==
  ASSUME Calm, NEW J \in Nat, NEW p \in J..live-1, FirstBurst <= J, live \in Int, live <= LastPacket + 1,
         termSeq = p % SeqMod, Reached, NEW c \in Nat, W!Settled(c)', FirstBurst <= c, c <= live
  PROVE  J <= c
<1>1. phase' = 2 /\ Reorder!Diff(base', termSeq) >= 0
  BY DEF Reached
<1>2. base' = c % SeqMod
  BY <1>1 DEF W!Settled, W!Exact, W!Placed, W!Here, W!SeqOf
<1>3. /\ LastPacket + 1 - FirstBurst < W!Half /\ LastPacket \in Nat /\ FirstBurst \in Nat
  BY SizesAre DEF Calm, W!Half
<1>4. W!Half \in Int
  BY SizesAre DEF W!Half
<1>5. -W!Half <= c - p /\ c - p < W!Half /\ p \in Int /\ c \in Int /\ J <= p
  BY <1>3, <1>4
<1>6. W!Diff(W!SeqOf(c), W!SeqOf(p)) = c - p
  BY <1>5, W!DiffIs, FccAssumption
<1>7. c - p >= 0
  BY <1>1, <1>2, <1>6, DiffSame DEF W!SeqOf
<1> QED BY <1>5, <1>7

\* The next packet goes into the window, of the burst or of the group; the burst
\* is left when the window has reached what the group holds.
LEMMA LineProcess ==
  ASSUME Calm, Basic, Process, NEW b, W!Settled(b), Line(b)
  PROVE  \E c \in Nat : W!Took(Head(work), b, c) /\ Line(c)'
<1>1. PICK J \in Nat : Waiting(J) /\ IF state = "MCAST_ACTIVE" THEN OnGroup(J, b) ELSE OnBurst(J, b)
  BY DEF Line
<1> DEFINE p == Head(work)
<1>2. /\ work # <<>> /\ Reorder!Insert(p, FALSE) /\ work' = Tail(work)
      /\ state' = IF Reached THEN "MCAST_ACTIVE" ELSE state
      /\ UNCHANGED <<joined, burst, live, unicast, multicast, termSent, termSeq, pending>>
  BY DEF Process, env
<1>3. /\ work \in Seq(Packet) /\ work \in Seq(Int) /\ live \in Int /\ live <= LastPacket + 1
      /\ burst \in Int /\ burst <= live /\ FirstBurst \in Nat
  <2>1. work \in Seq(Packet)
    BY DEF Basic, TypeOK
  <2>2. work \in Seq(Int)
    BY <2>1, SeqPackets
  <2>3. live \in FirstLive..LastPacket + 1 /\ (burst = -1 \/ (burst \in FirstBurst..LastPacket + 1 /\ burst <= live))
    BY DEF Basic
  <2> QED BY <2>1, <2>2, <2>3, SizesAre
<1>4. Range(work) = Range(Tail(work)) \cup {p}
  BY <1>2, <1>3, RangeTail
<1>5. Waiting(J)'
  BY <1>1, <1>2 DEF Waiting
<1>6. FirstBurst <= J /\ (termSent => \E q \in J..live-1 : termSeq = q % SeqMod)
      /\ (joined \/ J > LastPacket)
  BY <1>1 DEF Waiting
<1>7. CASE state = "MCAST_ACTIVE"
  <2>1. OnGroup(J, b) /\ pending = <<>> /\ Range(pending) = {}
    BY <1>1, <1>2, <1>7, RangeEmpty DEF OnGroup
  <2> DEFINE C == multicast \cup Range(pending) \cup Range(work)
             G == multicast \cup Range(pending) \cup Range(Tail(work))
  <2>2. p \in C /\ G \subseteq C /\ C \ {p} \subseteq G
    BY <1>4
  <2>3. Close(Tail(work), multicast) /\ \A q \in C : p - q <= Displaced
    <3>1. Close(work, multicast)
      BY <2>1 DEF OnGroup
    <3> QED BY <1>2, <1>3, <2>1, <3>1, CloseTail
  <2>4. Fed(Held, phase, live, J, live, C, b)
    BY <2>1 DEF OnGroup
  <2> HIDE DEF C, G, p
  <2>5. PICK c \in Nat : W!Took(p, b, c) /\ Fed(Held', phase', live, J, live, G, c)
    <3>1. live <= live
      BY <1>3
    <3> QED BY <1>2, <1>3, <1>6, <2>2, <2>3, <2>4, <3>1, FedOn
  <2>6. phase = 2 => phase' = 2
    BY <2>5 DEF W!Took
  <2>7. OnGroup(J, c)'
    <3>1. Fed(Held', phase', live', J, live', multicast' \cup Range(pending') \cup Range(work'), c)
      BY <1>2, <2>5 DEF G
    <3>2. termSent' => phase' = 2
      BY <1>2, <2>1, <2>6 DEF OnGroup
    <3>3. Close(work', multicast') /\ pending' = <<>>
      BY <1>2, <2>1, <2>3
    <3> QED BY <3>1, <3>2, <3>3 DEF OnGroup
  <2>8. state' = "MCAST_ACTIVE"
    BY <1>2, <1>7
  <2> QED BY <1>5, <2>5, <2>7, <2>8 DEF Line, p
<1>8. CASE state # "MCAST_ACTIVE"
  <2>1. OnBurst(J, b)
    BY <1>1, <1>8
  <2>2. Tail(work) = <<>> /\ Range(Tail(work)) = {} /\ Range(work) = {p}
    <3>1. Len(work) <= 1
      BY <2>1 DEF OnBurst
    <3>2. Tail(work) = <<>>
      BY <1>2, <1>3, <3>1
    <3> QED BY <1>4, <3>2, RangeEmpty
  <2> DEFINE C == unicast \cup Range(work)
  <2>3. p \in C /\ unicast \subseteq C /\ C \ {p} \subseteq unicast
    BY <2>2
  <2>4. \A q \in C : p - q <= Displaced
    <3>1. Close(work, unicast)
      BY <2>1 DEF OnBurst
    <3> QED BY <1>2, <1>3, <3>1, CloseTail
  <2>5. Fed(Held, phase, live, FirstBurst, burst, C, b)
    BY <2>1 DEF OnBurst
  <2> HIDE DEF C, p
  <2>6. PICK c \in Nat : W!Took(p, b, c) /\ Fed(Held', phase', live, FirstBurst, burst, unicast, c)
    <3>1. FirstBurst <= FirstBurst
      BY <1>3
    <3> QED BY <1>2, <1>3, <2>3, <2>4, <2>5, <3>1, FedOn
  <2>7. burst # -1
    <3>1. p \in FirstBurst..burst-1
      BY <2>3, <2>5 DEF Fed
    <3> QED BY <1>3, <3>1
  <2>8. CASE Reached
    <3>1. termSent /\ phase' = 2
      BY <2>8 DEF Reached
    <3>2. PICK q \in J..live-1 : termSeq = q % SeqMod
      BY <1>6, <3>1
    <3>3. FirstBurst <= c /\ c <= live /\ Held' \subseteq 0..live-1 /\ W!Settled(c)'
      BY <2>6, <3>1 DEF Fed, W!Took
    <3>4. J <= c
      BY <1>3, <1>6, <2>8, <3>2, <3>3, ReachedIs
    <3>5. multicast \cup Range(pending) = J..live-1
      BY <2>1 DEF OnBurst
    <3>6. Fed(Held', 2, live, J, live, J..live-1, c)
      BY <3>3, <3>4 DEF Fed
    <3>7. Range(work') = {} /\ Close(work', multicast') /\ work' = <<>>
      BY <1>2, <2>2, CloseEmpty
    <3>8. multicast' \cup Range(pending') \cup Range(work') = J..live-1
      BY <1>2, <3>5, <3>7
    <3>9. OnGroup(J, c)'
      BY <1>2, <3>1, <3>6, <3>7, <3>8 DEF OnGroup
    <3>10. state' = "MCAST_ACTIVE"
      BY <1>2, <2>8
    <3> QED BY <1>5, <2>6, <3>9, <3>10 DEF Line, p
  <2>9. CASE ~Reached
    <3>1. state' = state /\ work' = <<>> /\ Range(work') = {}
      BY <1>2, <2>2, <2>9
    <3>2. Len(work') <= 1 /\ Close(work', unicast')
      BY <3>1, CloseEmpty
    <3>3. unicast' \cup Range(work') = unicast
      BY <1>2, <3>1
    <3>4. OnBurst(J, c)'
      BY <1>2, <2>1, <2>6, <2>7, <3>1, <3>2, <3>3 DEF OnBurst
    <3> QED BY <1>5, <1>8, <2>6, <3>1, <3>4 DEF Line, p
  <2> QED BY <2>8, <2>9
<1> QED BY <1>7, <1>8
\* What is handed on goes on where it stopped.
LEMMA CleanProcess == ASSUME Calm, Basic, Clean, Process PROVE Clean'
<1> SUFFICES ASSUME clean
             PROVE  \E lo, b \in Nat :
                      /\ lo <= b /\ sent' = lo..b-1
                      /\ phase' # 2 => sent' = {}
                      /\ W!Settled(b)' /\ Line(b)'
  BY DEF Clean, Process, ghosts
<1>1. state # "CLOSED" /\ ~failed /\ work # <<>>
  BY DEF Basic, Process
<1>2. PICK lo \in Nat, b \in Nat :
        /\ lo <= b /\ sent = lo..b-1
        /\ phase # 2 => sent = {}
        /\ W!Settled(b) /\ Line(b)
  BY <1>1 DEF Clean
<1> DEFINE p == Head(work)
<1>3. PICK c \in Nat : W!Took(p, b, c) /\ Line(c)'
  BY <1>2, LineProcess
<1>4. W!Settled(c)' /\ phase \in 0..2 /\ phase' \in 1..2 /\ phase <= phase'
  BY <1>2, <1>3 DEF W!Took, W!Settled
<1>5. p \in Packet /\ Reorder!Insert(p, FALSE) /\ sent' = sent \cup Range(out')
  <2>1. work \in Seq(Packet)
    BY DEF Basic, TypeOK
  <2> QED BY <1>1, <2>1, RangeTail DEF Process
<1>6. Range(out') = {out'[i] : i \in 1..Len(out')}
  <2>1. out' \in Seq(Packet)
    BY <1>5, InsertTypes DEF Basic
  <2>2. DOMAIN out' = 1..Len(out')
    BY <2>1
  <2> QED BY <2>2 DEF Range
<1>7. CASE phase' = 1
  <2>1. out' = <<>> /\ phase # 2
    BY <1>3, <1>4, <1>7 DEF W!Took
  <2>2. sent' = {} /\ c..c-1 = {}
    BY <1>2, <1>5, <2>1, RangeEmpty
  <2> QED BY <1>3, <1>4, <2>2
<1>8. CASE phase' = 2
  <2>1. PICK a \in Nat : /\ a <= c /\ (phase = 2 => a = b)
                         /\ Range(out') = a..c-1
    BY <1>3, <1>6, <1>8 DEF W!Took
  <2>2. CASE phase = 2
    <3>1. sent' = lo..c-1 /\ lo <= c
      BY <1>2, <1>5, <2>1, <2>2
    <3> QED BY <1>3, <1>4, <1>8, <3>1
  <2>3. CASE phase # 2
    <3>1. sent' = a..c-1
      BY <1>2, <1>5, <2>1, <2>3
    <3> QED BY <1>3, <1>4, <1>8, <2>1, <3>1
  <2> QED BY <2>2, <2>3
<1> QED BY <1>4, <1>7, <1>8

\* Clean holds at first: the burst and the group are to come.
LEMMA CleanInit == ASSUME Init PROVE Clean
<1>1. /\ state = "REQUESTED" /\ termSent = FALSE /\ pending = <<>> /\ joined = FALSE
      /\ slots = [i \in Reorder!Ring |-> NoPacket]
      /\ base = 0 /\ count = 0 /\ phase = 0 /\ work = <<>> /\ burst = -1 /\ live = FirstLive
      /\ unicast = {} /\ multicast = {} /\ sent = {}
  BY DEF Init
<1>2. Held = {}
  BY <1>1 DEF Held, W!Held, Reorder!Ring, W!Ring
<1>3. W!Settled(0)
  <2>1. slots \in [W!Ring -> W!Content]
    BY <1>1 DEF W!Ring, Reorder!Ring, W!Content
  <2>2. 0 \in W!Seqn
    BY SizesAre DEF W!Seqn
  <2>3. W!Here \in W!Windows
    BY <1>1, <2>1, <2>2 DEF W!Here, W!Windows
  <2> QED BY <1>1, <1>2, <2>3 DEF W!Settled, Held
<1>4. PICK J \in Nat : J = LastPacket + 1
  BY SizesAre
<1>5. J..live-1 = {} /\ FirstBurst..burst-1 = {} /\ FirstBurst <= J /\ J > LastPacket
  BY <1>1, <1>4, SizesAre
<1>6. Waiting(J)
  BY <1>1, <1>5, CloseEmpty DEF Waiting
<1>7. OnBurst(J, 0)
  <2>1. Range(pending) = {} /\ Range(work) = {} /\ Len(work) <= 1
    BY <1>1, RangeEmpty
  <2>2. Fed(Held, phase, live, FirstBurst, burst, unicast \cup Range(work), 0)
    BY <1>1, <1>2, <1>5, <2>1 DEF Fed
  <2> QED BY <1>1, <1>5, <2>1, <2>2, CloseEmpty DEF OnBurst
<1>8. Line(0)
  BY <1>1, <1>6, <1>7 DEF Line
<1>9. 0 <= 0 /\ sent = 0..0-1
  BY <1>1
<1> QED BY <1>1, <1>3, <1>8, <1>9 DEF Clean

\* Every step keeps Clean.
LEMMA CleanNext == ASSUME Calm, Basic, Clean, [Next]_vars PROVE Clean'
<1>1. CASE StartBurst
  <2>1. UNCHANGED <<sent, ring, clean, state, failed>>
    BY <1>1 DEF StartBurst, fcc, ghosts
  <2> QED BY <1>1, <2>1, LineStart, CleanStep
<1>2. CASE PushBurst
  <2>1. UNCHANGED <<sent, ring, clean, state, failed>>
    BY <1>2 DEF PushBurst, fcc, ghosts
  <2> QED BY <1>2, <2>1, LinePushBurst, CleanStep
<1>3. CASE PushGroup
  <2>1. UNCHANGED <<sent, ring, clean, state, failed>>
    BY <1>3 DEF PushGroup, fcc, ghosts
  <2> QED BY <1>3, <2>1, LinePushGroup, CleanStep
<1>4. CASE Drop
  BY <1>4 DEF Drop, Clean
<1>5. CASE ControlMessage
  <2>1. UNCHANGED <<sent, ring, clean>> /\ state # "CLOSED" /\ ~failed
    BY <1>5 DEF ControlMessage, Idle
  <2> QED BY <1>5, <2>1, LineControl, CleanStep
<1>6. ASSUME NEW p \in unicast, UnicastMedia(p) PROVE Clean'
  <2>1. UNCHANGED <<sent, ring, clean, failed>> /\ state # "CLOSED" /\ ~failed
    BY <1>6 DEF UnicastMedia, Idle
  <2> QED BY <1>6, <2>1, LineUnicast, CleanStep
<1>7. ASSUME NEW p \in multicast, GroupMedia(p) PROVE Clean'
  <2>1. UNCHANGED <<sent, ring, clean>> /\ state # "CLOSED" /\ ~failed
    BY <1>7 DEF GroupMedia, Idle, ghosts
  <2> QED BY <1>7, <2>1, LineGroup, CleanStep
<1>8. CASE Process
  BY <1>8, CleanProcess
<1>9. CASE Tick
  <2>1. UNCHANGED <<sent, ring>> /\ state # "CLOSED" /\ ~failed
    BY <1>9 DEF Tick, Idle
  <2>2. clean' => clean
    BY <1>9 DEF Tick
  <2> QED BY <1>9, <2>1, <2>2, LineTick, CleanStep
<1>10. CASE Cleanup
  <2>1. UNCHANGED <<sent, ring, clean>> /\ state' = "CLOSED"
    BY <1>10 DEF Cleanup, ghosts
  <2> QED BY <2>1, CleanStep
<1>11. CASE UNCHANGED vars
  <2>1. UNCHANGED <<sent, ring, clean, state, joined, failed, termSent, termSeq, pending, work, env>>
    BY <1>11 DEF vars, fcc, ghosts
  <2> QED BY <2>1, LineStays, CleanStep
<1> QED BY <1>1, <1>2, <1>3, <1>4, <1>5, <1>6, <1>7, <1>8, <1>9, <1>10, <1>11 DEF Next, Media
-----------------------------------------------------------------------------
(* What the invariant says                                                  *)

\* Clean says that what was sent is a run: nothing is missing before its end.
LEMMA UnbrokenRun ==
  ASSUME NEW lo \in Nat, NEW b \in Nat, sent = lo..b-1, NEW p \in sent, NEW q \in p..Max(sent \cup {p})
  PROVE  q \in sent
<1>1. sent \cup {p} = lo..b-1 /\ b - 1 \in lo..b-1 /\ p \in Int /\ lo <= p
  OBVIOUS
<1> DEFINE m == Max(lo..b-1)
<1>2. m \in lo..b-1
  <2>1. m = CHOOSE x \in lo..b-1 : \A y \in lo..b-1 : x >= y
    BY DEF Max
  <2>2. b - 1 \in lo..b-1 /\ \A y \in lo..b-1 : b - 1 >= y
    BY <1>1
  <2> HIDE DEF m
  <2> QED BY <2>1, <2>2
<1>3. q \in p..m
  BY <1>1
<1> HIDE DEF m
<1> QED BY <1>1, <1>2, <1>3

\* The change of channel is seamless.
LEMMA SeamlessHolds == ASSUME Basic, Clean PROVE Seamless
<1> SUFFICES ASSUME clean
             PROVE  /\ \A p \in sent : \A q \in p..Max(sent \cup {p}) : q \in sent
                    /\ (state = "MCAST_ACTIVE" /\ termSent /\ work = <<>> /\ multicast = {} /\ pending = <<>>
                          => count = 0)
  BY DEF Seamless
<1>1. PICK lo \in Nat, b \in Nat :
        /\ sent = lo..b-1
        /\ state # "CLOSED" /\ ~failed => W!Settled(b) /\ Line(b)
  BY DEF Clean
<1>2. \A p \in sent : \A q \in p..Max(sent \cup {p}) : q \in sent
  BY <1>1, UnbrokenRun
<1>3. ASSUME state = "MCAST_ACTIVE", termSent, work = <<>>, multicast = {}, pending = <<>>
      PROVE  count = 0
  <2>1. ~failed
    BY <1>3 DEF Basic
  <2>2. PICK J \in Nat : Waiting(J) /\ OnGroup(J, b)
    BY <1>1, <1>3, <2>1 DEF Line
  <2>3. W!Settled(b) /\ phase = 2
    BY <1>1, <1>3, <2>1, <2>2 DEF OnGroup
  <2>4. multicast \cup Range(pending) \cup Range(work) = {}
    BY <1>3, RangeEmpty
  <2>5. Fed(Held, 2, live, J, live, {}, b)
    BY <2>2, <2>3, <2>4 DEF OnGroup
  <2>6. /\ J..live-1 \subseteq Held \cup 0..b-1 /\ Held \subseteq 0..live-1 /\ J <= b /\ b <= live
    BY <2>5 DEF Fed
  <2>7. b \notin Held /\ Held \subseteq b..b+Window-1 /\ (Held = {} => count = 0)
    BY <2>3, W!SettledIs, FccAssumption DEF Held
  <2>8. live \in Int
    BY SizesAre DEF Basic
  <2>9. b = live
    <3>1. CASE b < live
      <4>1. b \in J..live-1 /\ b \notin 0..b-1
        BY <2>6, <2>8, <3>1
      <4> QED BY <2>6, <2>7, <4>1
    <3> QED BY <2>6, <2>8, <3>1
  <2>10. \A h \in Held : h \in 0..live-1 /\ h \in b..b+Window-1
    BY <2>6, <2>7
  <2>11. Held = {}
    BY <2>8, <2>9, <2>10, SizesAre
  <2> QED BY <2>7, <2>11
<1> QED BY <1>2, <1>3

\* The server is told to stop behind the first packet that waits.
LEMMA StopHolds == ASSUME Basic PROVE StopCoversHandoff
<1> SUFFICES ASSUME pending # <<>> PROVE stopAt >= Min(Range(pending))
  BY DEF StopCoversHandoff
<1>1. pending \in Seq(Packet) /\ stopAt = pending[1] + 2
  BY DEF Basic, TypeOK
<1>2. pending[1] \in Range(pending) /\ Range(pending) \in SUBSET Nat
  <2>1. 1 \in DOMAIN pending /\ \A i \in DOMAIN pending : pending[i] \in Packet
    BY <1>1
  <2> QED BY <2>1, PacketsAre DEF Range
<1> DEFINE S == Range(pending)
<1>3. S \in SUBSET Nat /\ S # {} /\ pending[1] \in S
  BY <1>2
<1> HIDE DEF S
<1>4. Min(S) \in S /\ \A x \in S : Min(S) <= x
  <2>1. W!Min(S) \in S /\ \A x \in S : W!Min(S) <= x
    BY <1>3, W!LowestIs, FccAssumption
  <2> QED BY <2>1 DEF W!Min, Min
<1> DEFINE m == Min(S)
           h == pending[1]
<1>5. m \in S /\ h \in S /\ m <= h
  BY <1>3, <1>4
<1> HIDE DEF m, h
<1>6. m \in Nat /\ h \in Nat
  BY <1>3, <1>5
<1>7. m <= h + 2
  BY <1>5, <1>6
<1> QED BY <1>1, <1>6, <1>7 DEF S, m, h

\* The invariant says what the runs check.
LEMMA InvHolds == ASSUME Basic, Clean PROVE Inv
<1>1. TypeOK /\ ServerTold
  BY DEF Basic, ServerTold
<1> QED BY <1>1, SeamlessHolds, StopHolds DEF Inv

\* A change of channel is seamless, on a channel shorter than half the sequence
\* numbers and where none of its termination messages says 0: while nothing is
\* dropped and no time-out cuts the burst off, the client gets an unbroken run
\* of packets across the moment the stream leaves the burst, and nothing stays
\* behind in the window; and always the server is told to stop, and not short
\* of the packets the pending list starts with (fcc.c).
THEOREM SessionInvariant == ASSUME Calm PROVE Spec => []Inv
<1>1. Init => IInv
  BY BasicInit, CleanInit DEF IInv
<1>2. IInv /\ [Next]_vars => IInv'
  BY BasicNext, CleanNext DEF IInv
<1>3. IInv => Inv
  BY InvHolds DEF IInv
<1> QED BY <1>1, <1>2, <1>3, PTL DEF Spec
====
