----------------------- MODULE PlaybackControllerProofs -----------------------
(***************************************************************************)
(* Machine-checked proofs about PlaybackController with its media source   *)
(* and the software audio player, for all streams, sizes and orders of     *)
(* events: the near-stop of the element's rate ends with the startup that  *)
(* asked for it; the worker is paused exactly when the controller believes *)
(* it is; what a load delivers for a track is appended once and in order;  *)
(* the browser parses no init segment before every buffer of the load      *)
(* exists, if the streams' first init segments come before their data.     *)
(***************************************************************************)
EXTENDS PlaybackController, WellFoundedInduction, TLAPS

MediaFields == {"ready", "dead", "managed", "streaming", "parsed", "type", "doing", "upto", "lo", "hi",
                "due", "segments", "removals", "inits", "disabled", "full", "eos", "duration", "told",
                "done", "refused", "garbled", "calls"}

\* What an operation may call.
Answers == {"full", "available", "updated", "error", "startstreaming"}

-----------------------------------------------------------------------------
(* Recursive definitions                                                   *)

\* Induction up to a number.
LEMMA Reaches ==
  ASSUME NEW len \in Nat, NEW G, 0 \in G, \A n \in 0..len-1 : n \in G => n + 1 \in G
  PROVE  \A n \in 0..len : n \in G
<1> DEFINE Out == {n \in 0..len : n \notin G}
<1> SUFFICES ASSUME Out # {} PROVE FALSE
  OBVIOUS
<1>1. Out \in SUBSET Nat
  OBVIOUS
<1>2. PICK x \in Out : \A y \in Out : ~(<<y, x>> \in OpToRel(<, Nat))
  <2> HIDE DEF Out
  <2> QED BY <1>1, NatLessThanWellFounded, WFMin
<1>3. \A y \in Out : ~(y < x)
  <2> HIDE DEF Out
  <2> QED BY <1>1, <1>2 DEF OpToRel
<1>4. x # 0 /\ x - 1 \in 0..len-1 /\ x - 1 \in 0..len /\ (x - 1) + 1 = x /\ x - 1 < x
  OBVIOUS
<1>5. x - 1 \in G
  BY <1>3, <1>4
<1> QED BY <1>4, <1>5

-----------------------------------------------------------------------------
(* The media buffers                                                       *)

\* A queue q of segments, when done of the told segments of its track are appended.
Line(q, done, told) ==
  /\ done + Len(q) = told
  /\ \A i \in 1..Len(q) : q[i].id = done + i

Queue(q) == (\E S : q \in Seq(S)) /\ \A i \in 1..Len(q) : q[i].kind \in {"init", "media"}

Inits(s) == (\E S : s \in Seq(S)) /\ \A i \in 1..Len(s) : s[i].track \in Tracks

MediaKept(m) ==
  /\ DOMAIN m = MediaFields
  /\ m.calls \in Seq(Answers)
  /\ DOMAIN m.type = Tracks /\ m.doing \in [Tracks -> {"idle", "init", "media", "remove"}]
  /\ m.ready = "closed" => \A t \in Tracks : m.type[t] = NoType /\ m.doing[t] = Idle
  /\ m.told \in [Tracks -> Int] /\ m.done \in [Tracks -> Int]
  /\ Inits(m.inits)
  /\ DOMAIN m.segments = Tracks
  /\ \A t \in Tracks : /\ Queue(m.segments[t])
                       /\ t \notin m.disabled => Line(m.segments[t], m.done[t], m.told[t])

\* What an operation on an attached MediaSource comes to.
Grows(m, n) == MediaKept(n) /\ n.dead = m.dead /\ (n.ready = "closed" <=> m.ready = "closed")

LEMMA QueueEnds ==
  ASSUME NEW q, Queue(q)
  PROVE  /\ Len(q) \in Nat
         /\ Queue(<<>>)
         /\ \A e : e.kind \in {"init", "media"} => Queue(Append(q, e))
         /\ q # <<>> => /\ Len(q) > 0 /\ Queue(Tail(q)) /\ Len(Tail(q)) = Len(q) - 1
                        /\ Head(q) = q[1] /\ Head(q).kind \in {"init", "media"}
                        /\ \A i \in 1..Len(Tail(q)) : Tail(q)[i] = q[i + 1]
<1>1. PICK S : q \in Seq(S)
  BY DEF Queue
<1>2. Len(q) \in Nat /\ Len(<<>>) = 0 /\ <<>> \in Seq(S)
  BY <1>1
<1>3. ASSUME NEW e, e.kind \in {"init", "media"} PROVE Queue(Append(q, e))
  <2>1. Append(q, e) \in Seq(S \cup {e}) /\ Len(Append(q, e)) = Len(q) + 1
        /\ \A i \in 1..Len(q)+1 : Append(q, e)[i] = IF i = Len(q) + 1 THEN e ELSE q[i]
    <3>1. q \in Seq(S \cup {e})
      BY <1>1
    <3> QED BY <3>1
  <2>2. \A i \in 1..Len(q)+1 : i = Len(q) + 1 \/ i \in 1..Len(q)
    BY <1>2
  <2> QED BY <1>3, <2>1, <2>2 DEF Queue
<1>4. ASSUME q # <<>>
      PROVE  /\ Len(q) > 0 /\ Tail(q) \in Seq(S) /\ Len(Tail(q)) = Len(q) - 1
             /\ Head(q) = q[1] /\ \A i \in 1..Len(q) - 1 : Tail(q)[i] = q[i + 1]
  BY <1>1, <1>4
<1>5. ASSUME q # <<>> PROVE Queue(Tail(q))
  <2>1. \A i \in 1..Len(q) - 1 : i + 1 \in 1..Len(q)
    BY <1>2
  <2> QED BY <1>4, <1>5, <2>1 DEF Queue
<1>6. q # <<>> => Head(q).kind \in {"init", "media"}
  <2>1. q # <<>> => 1 \in 1..Len(q)
    BY <1>2, <1>4
  <2> QED BY <1>4, <2>1 DEF Queue
<1> QED BY <1>2, <1>3, <1>4, <1>5, <1>6 DEF Queue

LEMMA LineEnds ==
  ASSUME NEW q, Queue(q), NEW done \in Int, NEW told \in Int, Line(q, done, told)
  PROVE  /\ \A e : e.id = told + 1 => Line(Append(q, e), done, told + 1)
         /\ q # <<>> => Head(q).id = done + 1 /\ Line(Tail(q), done + 1, told)
<1>1. PICK S : q \in Seq(S)
  BY DEF Queue
<1>2. Len(q) \in Nat
  BY <1>1
<1>3. ASSUME NEW e, e.id = told + 1 PROVE Line(Append(q, e), done, told + 1)
  <2>1. Len(Append(q, e)) = Len(q) + 1
        /\ \A i \in 1..Len(q)+1 : Append(q, e)[i] = IF i = Len(q) + 1 THEN e ELSE q[i]
    <3>1. q \in Seq(S \cup {e})
      BY <1>1
    <3> QED BY <3>1
  <2>2. \A i \in 1..Len(q)+1 : i = Len(q) + 1 \/ i \in 1..Len(q)
    BY <1>2
  <2> QED BY <1>2, <1>3, <2>1, <2>2 DEF Line
<1>4. ASSUME q # <<>> PROVE Head(q).id = done + 1 /\ Line(Tail(q), done + 1, told)
  <2>1. 1 \in 1..Len(q) /\ Head(q) = q[1]
    BY <1>1, <1>4
  <2>2. Len(Tail(q)) = Len(q) - 1 /\ \A i \in 1..Len(q) - 1 : Tail(q)[i] = q[i + 1] /\ i + 1 \in 1..Len(q)
    BY <1>1, <1>2, <1>4
  <2>3. \A i \in 1..Len(q) - 1 : Tail(q)[i].id = (done + 1) + i
    BY <1>2, <2>2 DEF Line
  <2>4. (done + 1) + Len(Tail(q)) = told
    <3>1. done + Len(q) = told
      BY DEF Line
    <3>2. Len(Tail(q)) = Len(q) - 1
      BY <2>2
    <3> DEFINE a == Len(q)
               b == Len(Tail(q))
    <3>3. a \in Nat /\ done + a = told /\ b = a - 1
      BY <1>2, <3>1, <3>2
    <3> HIDE DEF a, b
    <3>4. (done + 1) + b = told
      BY <3>3
    <3> QED BY <3>4 DEF b
  <2> QED BY <2>1, <2>2, <2>3, <2>4 DEF Line
<1> QED BY <1>3, <1>4

LEMMA NoInits == Inits(<<>>)
<1>1. <<>> \in Seq({}) /\ Len(<<>>) = 0
  OBVIOUS
<1> QED BY <1>1 DEF Inits

LEMMA InitsMore ==
  ASSUME NEW s, Inits(s), NEW e, e.track \in Tracks
  PROVE  Inits(Append(s, e))
<1>1. PICK S : s \in Seq(S)
  BY DEF Inits
<1>2. /\ Append(s, e) \in Seq(S \cup {e}) /\ Len(s) \in Nat /\ Len(Append(s, e)) = Len(s) + 1
      /\ \A i \in 1..Len(s)+1 : Append(s, e)[i] = IF i = Len(s) + 1 THEN e ELSE s[i]
  <2>1. s \in Seq(S \cup {e})
    BY <1>1
  <2> QED BY <2>1
<1>3. \A i \in 1..Len(s)+1 : i = Len(s) + 1 \/ i \in 1..Len(s)
  BY <1>2
<1> QED BY <1>2, <1>3 DEF Inits

LEMMA CallGrows ==
  ASSUME NEW m, MediaKept(m), NEW c \in Answers
  PROVE  Grows(m, Call(m, c))
BY DEF MediaKept, Grows, Call, MediaFields

LEMMA QueuedGrows ==
  ASSUME NEW m, MediaKept(m), NEW t \in Tracks, NEW kind \in {"init", "media"}, NEW codec
  PROVE  Grows(m, Queued(m, t, kind, codec))
<1> DEFINE e == [kind |-> kind, codec |-> codec, id |-> m.told[t] + 1]
           q == Append(m.segments[t], e)
           n == [m EXCEPT !.told[t] = @ + 1, !.segments[t] = q]
<1>1. Queued(m, t, kind, codec) = n
  BY DEF Queued
<1>2. Queue(q) /\ (t \notin m.disabled => Line(q, m.done[t], m.told[t] + 1))
  <2>1. e.kind \in {"init", "media"} /\ e.id = m.told[t] + 1
    OBVIOUS
  <2> HIDE DEF e
  <2> DEFINE s == m.segments[t]
             done == m.done[t]
             told == m.told[t]
  <2>2. /\ Queue(s) /\ done \in Int /\ told \in Int
        /\ t \notin m.disabled => Line(s, done, told)
    BY DEF MediaKept
  <2>3. q = Append(s, e)
    OBVIOUS
  <2>4. e.id = told + 1
    BY <2>1
  <2> HIDE DEF s, done, told, q
  <2>5. Queue(q)
    BY <2>1, <2>2, <2>3, QueueEnds
  <2>6. t \notin m.disabled => Line(q, done, told + 1)
    BY <2>2, <2>3, <2>4, LineEnds
  <2> QED BY <2>5, <2>6 DEF done, told
<1> HIDE DEF q, e
<1> QED BY <1>1, <1>2 DEF MediaKept, Grows, MediaFields

LEMMA AppendGrows ==
  ASSUME NEW m, MediaKept(m), NEW t \in Tracks, NEW cur
  PROVE  Grows(m, AppendHead(m, t, cur))
<1> DEFINE e == Head(m.segments[t])
           lo == IF m.hi[t] - m.lo[t] >= Quota THEN cur ELSE m.lo[t]
           d == IF e.id = m.done[t] + 1 THEN e.id ELSE -1
           q == Tail(m.segments[t])
           g == m.garbled \/ e.codec # m.type[t]
           n == [m EXCEPT !.segments[t] = q, !.doing[t] = e.kind, !.full = FALSE,
                          !.lo[t] = lo, !.done[t] = d, !.garbled = g]
           r == Refused(m, t)
<1>1. Grows(m, m)
  BY DEF Grows
<1>2. Grows(m, r)
  BY DEF Refused, Grows, MediaKept, MediaFields
<1>3. ASSUME m.segments[t] # <<>>, Callable(m, t) PROVE Grows(m, n)
  <2>1. Queue(q) /\ e.kind \in {"init", "media"}
    BY <1>3, QueueEnds DEF MediaKept
  <2>2. t \notin m.disabled => e.id = m.done[t] + 1 /\ Line(q, m.done[t] + 1, m.told[t])
    BY <1>3, LineEnds DEF MediaKept
  <2>3. d \in Int /\ (t \notin m.disabled => Line(q, d, m.told[t]))
    BY <2>2 DEF MediaKept
  <2>4. m.ready # "closed"
    BY <1>3 DEF Callable, MediaKept
  <2> HIDE DEF q, e, d, lo, g
  <2> QED BY <2>1, <2>3, <2>4 DEF Grows, MediaKept, MediaFields
<1>4. \/ AppendHead(m, t, cur) = m
      \/ /\ m.segments[t] # <<>> /\ Callable(m, t)
         /\ AppendHead(m, t, cur) \in {n, Call(n, "available"), r, Call(r, "full")}
  BY Zenon DEF AppendHead
<1> HIDE DEF n, r
<1>5. Grows(m, Call(r, "full"))
  BY <1>2, CallGrows DEF Grows, Answers
<1>6. Grows(m, n) => Grows(m, Call(n, "available"))
  BY CallGrows DEF Grows, Answers
<1> QED BY <1>1, <1>2, <1>3, <1>4, <1>5, <1>6

LEMMA RemoveGrows ==
  ASSUME NEW m, MediaKept(m), NEW t \in Tracks
  PROVE  Grows(m, RemoveHead(m, t))
<1> DEFINE q == Tail(m.removals[t])
           u == Head(m.removals[t])
           n == [m EXCEPT !.removals[t] = q, !.doing[t] = "remove", !.upto[t] = u, !.ready = "open"]
<1>1. RemoveHead(m, t) = m \/ (Callable(m, t) /\ RemoveHead(m, t) = n)
  BY Zenon DEF RemoveHead
<1>2. ASSUME Callable(m, t) PROVE Grows(m, n)
  <2>1. m.ready # "closed"
    BY <1>2 DEF Callable, MediaKept
  <2> HIDE DEF q, u
  <2> QED BY <2>1 DEF Grows, MediaKept, MediaFields
<1> HIDE DEF n
<1>3. Grows(m, m)
  BY DEF Grows
<1> QED BY <1>1, <1>2, <1>3

LEMMA PendingGrows ==
  ASSUME NEW m, MediaKept(m), NEW cur
  PROVE  Grows(m, doRemoveRanges(m)) /\ Grows(m, tryAppendPending(m, cur))
<1>1. "video" \in Tracks /\ "audio" \in Tracks
  BY DEF Tracks
<1>2. Grows(m, m)
  BY DEF Grows
<1>3. Grows(m, doRemoveRanges(m))
  <2>1. Grows(m, RemoveHead(m, "video"))
    BY <1>1, RemoveGrows
  <2>2. Grows(RemoveHead(m, "video"), RemoveHead(RemoveHead(m, "video"), "audio"))
    BY <1>1, <2>1, RemoveGrows DEF Grows
  <2> QED BY <2>1, <2>2 DEF Grows, doRemoveRanges
<1>4. Grows(m, doAppendSegments(m, cur))
  <2>1. Grows(m, AppendHead(m, "video", cur))
    BY <1>1, AppendGrows
  <2>2. Grows(AppendHead(m, "video", cur), AppendHead(AppendHead(m, "video", cur), "audio", cur))
    BY <1>1, <2>1, AppendGrows DEF Grows
  <2> QED BY <2>1, <2>2 DEF Grows, doAppendSegments
<1> QED BY <1>2, <1>3, <1>4 DEF tryAppendPending

LEMMA CleanedGrows ==
  ASSUME NEW m, MediaKept(m), NEW cur
  PROVE  Grows(m, Cleaned(m, cur))
<1> DEFINE far(t)  == t \in Attached(m) /\ m.hi[t] > m.lo[t] /\ cur - m.lo[t] >= MaxBackward
           more(n, t) == [n EXCEPT !.removals[t] = Append(@, cur - MinBackward)]
           mark(n, t) == IF ~far(t) THEN n ELSE more(n, t)
           one(n, t) == IF far(t) /\ ~Updating(n, t) THEN doRemoveRanges(mark(n, t)) ELSE mark(n, t)
<1>1. ASSUME NEW n, MediaKept(n), NEW t PROVE Grows(n, one(n, t))
  <2>1. Grows(n, more(n, t))
    <3> DEFINE q == Append(n.removals[t], cur - MinBackward)
    <3> HIDE DEF q
    <3>1. Grows(n, [n EXCEPT !.removals[t] = q])
      BY <1>1 DEF Grows, MediaKept, MediaFields
    <3> QED BY <3>1 DEF q
  <2>2. Grows(n, n)
    BY <1>1 DEF Grows
  <2> HIDE DEF more, far
  <2>3. Grows(n, mark(n, t))
    BY <2>1, <2>2
  <2> HIDE DEF mark
  <2>4. Grows(n, doRemoveRanges(mark(n, t)))
    BY <2>3, PendingGrows DEF Grows
  <2> QED BY <2>3, <2>4
<1>2. Cleaned(m, cur) = one(one(m, "video"), "audio")
  BY DEF Cleaned
<1> HIDE DEF one
<1> QED BY <1>1, <1>2 DEF Grows

LEMMA DurationGrows ==
  ASSUME NEW m, MediaKept(m)
  PROVE  Grows(m, tryApplyDuration(m)) /\ Grows(m, setDuration(m))
<1>1. ASSUME NEW n, MediaKept(n), NEW d PROVE Grows(n, [n EXCEPT !.duration = d])
  BY <1>1 DEF Grows, MediaKept, MediaFields
<1>2. ASSUME NEW n, MediaKept(n) PROVE Grows(n, tryApplyDuration(n))
  BY <1>1, <1>2 DEF tryApplyDuration, Grows
<1> QED BY <1>1, <1>2 DEF setDuration, Grows

\* The init segments kept of s, up to its k-th.
Keeps(f, s, t, k) ==
  f = [n \in 0..k |-> IF n = 0 THEN <<>>
                      ELSE IF s[n].track = t THEN f[n - 1] ELSE Append(f[n - 1], s[n])]

LEMMA KeepsExist ==
  ASSUME NEW s, NEW t, NEW len \in Nat
  PROVE  \E f : Keeps(f, s, t, len)
<1> DEFINE Next1(q, n) == IF s[n].track = t THEN q ELSE Append(q, s[n])
           none == <<>>
           G == {k \in Nat : \E f : Keeps(f, s, t, k)}
<1>1. \A f, k : Keeps(f, s, t, k) <=> f = [n \in 0..k |-> IF n = 0 THEN none ELSE Next1(f[n - 1], n)]
  BY DEF Keeps
<1> HIDE DEF Next1, none
<1>2. 0 \in G
  <2> DEFINE f == [n \in 0..0 |-> none]
  <2>1. f = [n \in 0..0 |-> IF n = 0 THEN none ELSE Next1(f[n - 1], n)]
    OBVIOUS
  <2> HIDE DEF f
  <2> QED BY <1>1, <2>1
<1>3. ASSUME NEW k \in Nat, k \in G PROVE k + 1 \in G
  <2>1. PICK f : f = [n \in 0..k |-> IF n = 0 THEN none ELSE Next1(f[n - 1], n)]
    BY <1>1, <1>3
  <2>2. \A n \in 0..k : f[n] = IF n = 0 THEN none ELSE Next1(f[n - 1], n)
    BY <2>1
  <2> DEFINE x == Next1(f[k], k + 1)
  <2> HIDE DEF x
  <2> DEFINE g == [n \in 0..k+1 |-> IF n = k + 1 THEN x ELSE f[n]]
  <2>3. g = [n \in 0..k+1 |-> g[n]] /\ g[k+1] = x /\ \A n \in 0..k : g[n] = f[n]
    OBVIOUS
  <2> HIDE DEF g
  <2>4. ASSUME NEW n \in 0..k+1 PROVE g[n] = IF n = 0 THEN none ELSE Next1(g[n - 1], n)
    <3>1. CASE n = k + 1
      <4>1. n - 1 = k /\ n # 0 /\ k \in 0..k
        BY <3>1
      <4> QED BY <2>3, <3>1, <4>1 DEF x
    <3>2. CASE n # k + 1 /\ n # 0
      <4>1. n \in 0..k /\ n - 1 \in 0..k
        BY <3>2
      <4> QED BY <2>2, <2>3, <3>2, <4>1
    <3>3. CASE n = 0
      <4>1. n \in 0..k
        BY <3>3
      <4> QED BY <2>2, <2>3, <3>3, <4>1
    <3> QED BY <3>1, <3>2, <3>3
  <2>5. g = [n \in 0..k+1 |-> IF n = 0 THEN none ELSE Next1(g[n - 1], n)]
    BY <2>3, <2>4
  <2>6. Keeps(g, s, t, k + 1)
    BY <1>1, <2>5
  <2> QED BY <2>6
<1> HIDE DEF G
<1>4. len \in G
  BY <1>2, <1>3, Reaches
<1> QED BY <1>4 DEF G

\* Init segments that are all among others.
Among(q, s) == Inits(q) /\ \A i \in 1..Len(q) : \E j \in 1..Len(s) : q[i] = s[j]

LEMMA WithoutInits ==
  ASSUME NEW s, Inits(s), NEW t
  PROVE  Among(Without(s, t), s)
<1> DEFINE len == Len(s)
           f == CHOOSE g : Keeps(g, s, t, len)
<1>1. Without(s, t) = f[len]
  BY DEF Without, Keeps
<1>2. len \in Nat
  BY DEF Inits
<1> HIDE DEF len
<1>3. Keeps(f, s, t, len)
  BY <1>2, KeepsExist
<1> HIDE DEF f
<1>4. \A n \in 0..len :
        f[n] = IF n = 0 THEN <<>> ELSE IF s[n].track = t THEN f[n - 1] ELSE Append(f[n - 1], s[n])
  BY <1>3 DEF Keeps
<1> DEFINE G == {n \in 0..len : Among(f[n], s)}
<1>5. 0 \in G
  <2>1. f[0] = <<>>
    BY <1>2, <1>4
  <2>2. <<>> \in Seq({}) /\ Len(<<>>) = 0
    OBVIOUS
  <2>3. Among(<<>>, s)
    BY <2>2, NoInits DEF Among
  <2> QED BY <1>2, <2>1, <2>3
<1>6. ASSUME NEW n \in 0..len-1, n \in G PROVE n + 1 \in G
  <2>1. n + 1 \in 0..len /\ n + 1 \in 1..len /\ (n + 1) - 1 = n /\ n + 1 # 0
    BY <1>2
  <2>2. f[n + 1] = IF s[n + 1].track = t THEN f[n] ELSE Append(f[n], s[n + 1])
    BY <1>4, <2>1
  <2> DEFINE q == f[n]
             e == s[n + 1]
  <2>3. e.track \in Tracks /\ n + 1 \in 1..Len(s)
    BY <2>1 DEF Inits, len
  <2>4. Among(q, s)
    BY <1>6
  <2> HIDE DEF q, G
  <2>5. PICK S : q \in Seq(S)
    BY <2>4 DEF Among, Inits
  <2>6. /\ Len(q) \in Nat /\ Len(Append(q, e)) = Len(q) + 1
        /\ \A i \in 1..Len(q)+1 : Append(q, e)[i] = IF i = Len(q) + 1 THEN e ELSE q[i]
    <3> HIDE DEF e
    <3>1. q \in Seq(S \cup {e})
      BY <2>5
    <3> QED BY <3>1
  <2>7. \A i \in 1..Len(q)+1 : i = Len(q) + 1 \/ i \in 1..Len(q)
    BY <2>6
  <2>8. Among(Append(q, e), s)
    <3>1. Inits(Append(q, e))
      BY <2>3, <2>4, InitsMore DEF Among
    <3> QED BY <2>3, <2>4, <2>6, <2>7, <3>1 DEF Among
  <2>9. Among(f[n + 1], s)
    BY <2>2, <2>4, <2>8 DEF q
  <2> QED BY <2>1, <2>9 DEF G
<1>7. len \in G
  <2> HIDE DEF G
  <2> QED BY <1>2, <1>5, <1>6, Reaches
<1> QED BY <1>1, <1>7

\* The queue of a disabled track counts no more.
LEMMA DisableGrows ==
  ASSUME NEW m, MediaKept(m), NEW t \in Tracks
  PROVE  Grows(m, disableTrack(m, t))
<1> DEFINE i == Without(m.inits, t)
           d == m.disabled \cup {t}
           none == <<>>
           n == [m EXCEPT !.disabled = d, !.segments[t] = none, !.removals[t] = none, !.inits = i]
<1>1. disableTrack(m, t) = n
  BY DEF disableTrack
<1>2. Queue(none) /\ t \in d /\ \A s : s \notin d => s \notin m.disabled
  BY QueueEnds DEF MediaKept
<1>3. Inits(i)
  BY WithoutInits DEF MediaKept, Among
<1> HIDE DEF i, d, none
<1> QED BY <1>1, <1>2, <1>3 DEF Grows, MediaKept, MediaFields

LEMMA CreateGrows ==
  ASSUME NEW m, MediaKept(m), NEW t \in Tracks, NEW codec
  PROVE  Grows(m, createSourceBuffer(m, t, codec))
<1> DEFINE d == disableTrack(m, t)
           r == [m EXCEPT !.refused = TRUE]
           n == [m EXCEPT !.type[t] = codec]
<1>1. \/ createSourceBuffer(m, t, codec) \in {m, Call(m, "error"), Call(d, "error"), Call(r, "error")}
      \/ Open(m) /\ createSourceBuffer(m, t, codec) = n
  BY Zenon DEF createSourceBuffer
<1>2. Grows(m, m) /\ Grows(m, r)
  BY DEF Grows, MediaKept, MediaFields
<1>3. Open(m) => Grows(m, n)
  BY DEF Grows, MediaKept, MediaFields, Open
<1>4. Grows(m, d)
  BY DisableGrows
<1> HIDE DEF d, r, n
<1>5. \A o : Grows(m, o) => Grows(m, Call(o, "error"))
  BY CallGrows DEF Grows, Answers
<1> QED BY <1>1, <1>2, <1>3, <1>4, <1>5

LEMMA InitGrows ==
  ASSUME NEW m, MediaKept(m), NEW t \in Tracks, NEW codec, NEW cur
  PROVE  Grows(m, appendInit(m, t, codec, cur))
<1> DEFINE i == Append(m.inits, [track |-> t, codec |-> codec])
           w == [m EXCEPT !.inits = i]
           n == createSourceBuffer(m, t, codec)
<1>1. Grows(m, m)
  BY DEF Grows
<1>2. Grows(m, Queued(w, t, "init", codec))
  <2>1. Grows(m, w)
    <3>1. Inits(i)
      BY InitsMore DEF MediaKept
    <3> HIDE DEF i
    <3> QED BY <3>1 DEF Grows, MediaKept, MediaFields
  <2> HIDE DEF w
  <2> QED BY <2>1, QueuedGrows DEF Grows
<1>3. Grows(m, n)
  BY CreateGrows
<1>4. Grows(m, tryAppendPending(Queued(n, t, "init", codec), cur))
  <2> HIDE DEF n
  <2>1. Grows(n, Queued(n, t, "init", codec))
    BY <1>3, QueuedGrows DEF Grows
  <2> QED BY <1>3, <2>1, PendingGrows DEF Grows
<1>5. appendInit(m, t, codec, cur) \in
        {m, Queued(w, t, "init", codec), n, tryAppendPending(Queued(n, t, "init", codec), cur)}
  BY Zenon DEF appendInit
<1> HIDE DEF w, n
<1> QED BY <1>1, <1>2, <1>3, <1>4, <1>5

LEMMA MediaGrows ==
  ASSUME NEW m, MediaKept(m), NEW t \in Tracks, NEW codec, NEW cur
  PROVE  Grows(m, appendMedia(m, t, codec, cur))
<1> DEFINE n == Queued(m, t, "media", codec)
<1>1. Grows(m, m)
  BY DEF Grows
<1>2. Grows(m, n)
  BY QueuedGrows
<1> HIDE DEF n
<1>3. Grows(m, Cleaned(n, cur))
  BY <1>2, CleanedGrows DEF Grows
<1>4. Grows(m, tryAppendPending(Cleaned(n, cur), cur))
  BY <1>3, PendingGrows DEF Grows
<1> QED BY <1>1, <1>2, <1>4 DEF appendMedia, n

LEMMA EndGrows ==
  ASSUME NEW m, MediaKept(m)
  PROVE  Grows(m, endOfStream(m))
<1>1. ASSUME NEW e PROVE Grows(m, [m EXCEPT !.eos = e])
  BY DEF Grows, MediaKept, MediaFields
<1>2. ASSUME Open(m) PROVE Grows(m, [m EXCEPT !.eos = FALSE, !.ready = "ended"])
  BY <1>2 DEF Grows, MediaKept, MediaFields, Open
<1> QED BY <1>1, <1>2 DEF endOfStream

LEMMA FinishedGrows ==
  ASSUME NEW m, MediaKept(m), NEW t \in Tracks, Updating(m, t)
  PROVE  Grows(m, Finished(m, t))
<1> DEFINE d == m.due \cup {t}
           n == [m EXCEPT !.doing[t] = Idle, !.due = d]
<1>1. Grows(m, n) /\ m.ready # "closed" /\ m.doing[t] \in {"init", "media", "remove"}
  <2> HIDE DEF d
  <2> QED BY DEF Grows, MediaKept, MediaFields, Updating, Idle
<1> HIDE DEF d
<1>2. ASSUME NEW r, NEW h, r # "closed"
      PROVE  /\ Grows(m, [n EXCEPT !.parsed = TRUE, !.ready = r])
             /\ Grows(m, [n EXCEPT !.hi[t] = h, !.ready = r])
             /\ Grows(m, [n EXCEPT !.lo[t] = h])
  <2> HIDE DEF n
  <2> QED BY <1>1, <1>2 DEF Grows, MediaKept, MediaFields
<1> DEFINE r == IF m.garbled THEN "ended" ELSE n.ready
           h == IF m.garbled THEN n.hi[t] ELSE n.hi[t] + 1
           l == Max({n.lo[t], n.upto[t]})
<1>3. n.upto = m.upto
  BY DEF MediaKept, MediaFields
<1>4. r # "closed"
  <2> HIDE DEF n
  <2> QED BY <1>1 DEF Grows
<1>5. Finished(m, t) \in {[n EXCEPT !.parsed = TRUE, !.ready = r], [n EXCEPT !.hi[t] = h, !.ready = r],
                          [n EXCEPT !.lo[t] = l]}
  <2> HIDE DEF l, n
  <2>1. Finished(m, t) =
          CASE m.doing[t] = "init" -> [n EXCEPT !.parsed = TRUE, !.ready = r]
            [] m.doing[t] = "media" -> [n EXCEPT !.hi[t] = h, !.ready = r]
            [] m.doing[t] = "remove" -> [n EXCEPT !.lo[t] = l]
    BY <1>3, Zenon DEF Finished, n, d, l
  <2> HIDE DEF r, h
  <2> QED BY <1>1, <2>1
<1> HIDE DEF r, h, l, n
<1>6. Grows(m, [n EXCEPT !.parsed = TRUE, !.ready = r])
  BY <1>2, <1>4
<1>7. Grows(m, [n EXCEPT !.hi[t] = h, !.ready = r])
  BY <1>2, <1>4
<1>8. Grows(m, [n EXCEPT !.lo[t] = l])
  BY <1>2, <1>4
<1> QED BY <1>5, <1>6, <1>7, <1>8

LEMMA UpdateEndGrows ==
  ASSUME NEW m, MediaKept(m), NEW t, NEW cur
  PROVE  Grows(m, onSourceBufferUpdateEnd(m, t, cur))
<1> DEFINE d == m.due \ {t}
           o == [m EXCEPT !.due = d]
           n == tryApplyDuration(Call(o, "updated"))
<1>1. Grows(m, o)
  <2> HIDE DEF d
  <2> QED BY DEF Grows, MediaKept, MediaFields
<1> HIDE DEF o
<1>2. Grows(m, Call(o, "updated"))
  BY <1>1, CallGrows DEF Grows, Answers
<1>3. Grows(m, n)
  BY <1>2, DurationGrows DEF Grows
<1> HIDE DEF n
<1>4. Grows(m, doRemoveRanges(n)) /\ Grows(m, tryAppendPending(n, cur)) /\ Grows(m, endOfStream(n))
  BY <1>3, PendingGrows, EndGrows DEF Grows
<1> DEFINE f == [n EXCEPT !.full = FALSE]
<1>5. Grows(m, f)
  BY <1>3 DEF Grows, MediaKept, MediaFields
<1> HIDE DEF f
<1>6. Grows(m, Call(f, "available"))
  BY <1>5, CallGrows DEF Grows, Answers
<1>7. onSourceBufferUpdateEnd(m, t, cur) \in
        {doRemoveRanges(n), tryAppendPending(n, cur), endOfStream(n), Call(f, "available"), n}
  BY Zenon DEF onSourceBufferUpdateEnd, n, o, d, f
<1> QED BY <1>3, <1>4, <1>6, <1>7

\* The browser takes the MediaSource away.
LEMMA CloseKept ==
  ASSUME NEW m, MediaKept(m), m.calls = <<>>
  PROVE  /\ MediaKept([onSourceClose(m) EXCEPT !.calls = <<>>]) /\ onSourceClose(m).dead
         /\ onSourceClose(m).calls = <<"close">>
<1> DEFINE p0 == PerTrack(0)
           pn == PerTrack(NoType)
           pi == PerTrack(Idle)
           n == [m EXCEPT !.ready = "closed", !.dead = TRUE, !.type = pn, !.doing = pi, !.due = {},
                          !.lo = p0, !.hi = p0]
<1>1. onSourceClose(m) = Call(n, "close")
  BY DEF onSourceClose
<1>2. DOMAIN pn = Tracks /\ pi \in [Tracks -> {"idle", "init", "media", "remove"}]
      /\ \A t \in Tracks : pn[t] = NoType /\ pi[t] = Idle
  BY DEF PerTrack, Idle
<1> HIDE DEF p0, pn, pi
<1>3. MediaKept(n) /\ n.dead /\ n.calls = <<>>
  BY <1>2 DEF MediaKept, MediaFields
<1> HIDE DEF n
<1>4. MediaKept([Call(n, "close") EXCEPT !.calls = <<>>]) /\ Call(n, "close").dead
      /\ Call(n, "close").calls = <<"close">>
  BY <1>3 DEF MediaKept, MediaFields, Call
<1> QED BY <1>1, <1>4

LEMMA EndStreamingGrows ==
  ASSUME NEW m, MediaKept(m)
  PROVE  Grows(m, onEndStreaming(m))
BY DEF onEndStreaming, Grows, MediaKept, MediaFields
\* The buffers made for the first k init segments that waited in m.
Creates(f, m, k) ==
  f = [n \in 0..k |-> IF n = 0 THEN [m EXCEPT !.inits = <<>>]
                      ELSE createSourceBuffer(f[n - 1], m.inits[n].track, m.inits[n].codec)]

LEMMA CreatesExist ==
  ASSUME NEW m, NEW len \in Nat
  PROVE  \E f : Creates(f, m, len)
<1> DEFINE Step(q, n) == createSourceBuffer(q, m.inits[n].track, m.inits[n].codec)
           base == [m EXCEPT !.inits = <<>>]
           G == {k \in Nat : \E f : Creates(f, m, k)}
<1>1. \A f, k : Creates(f, m, k) <=> f = [n \in 0..k |-> IF n = 0 THEN base ELSE Step(f[n - 1], n)]
  BY DEF Creates
<1> HIDE DEF Step, base
<1>2. 0 \in G
  <2> DEFINE f == [n \in 0..0 |-> base]
  <2>1. f = [n \in 0..0 |-> IF n = 0 THEN base ELSE Step(f[n - 1], n)]
    OBVIOUS
  <2> HIDE DEF f
  <2> QED BY <1>1, <2>1
<1>3. ASSUME NEW k \in Nat, k \in G PROVE k + 1 \in G
  <2>1. PICK f : f = [n \in 0..k |-> IF n = 0 THEN base ELSE Step(f[n - 1], n)]
    BY <1>1, <1>3
  <2>2. \A n \in 0..k : f[n] = IF n = 0 THEN base ELSE Step(f[n - 1], n)
    BY <2>1
  <2> DEFINE x == Step(f[k], k + 1)
  <2> HIDE DEF x
  <2> DEFINE g == [n \in 0..k+1 |-> IF n = k + 1 THEN x ELSE f[n]]
  <2>3. g = [n \in 0..k+1 |-> g[n]] /\ g[k+1] = x /\ \A n \in 0..k : g[n] = f[n]
    OBVIOUS
  <2> HIDE DEF g
  <2>4. ASSUME NEW n \in 0..k+1 PROVE g[n] = IF n = 0 THEN base ELSE Step(g[n - 1], n)
    <3>1. CASE n = k + 1
      <4>1. n - 1 = k /\ n # 0 /\ k \in 0..k
        BY <3>1
      <4> QED BY <2>3, <3>1, <4>1 DEF x
    <3>2. CASE n # k + 1 /\ n # 0
      <4>1. n \in 0..k /\ n - 1 \in 0..k
        BY <3>2
      <4> QED BY <2>2, <2>3, <3>2, <4>1
    <3>3. CASE n = 0
      <4>1. n \in 0..k
        BY <3>3
      <4> QED BY <2>2, <2>3, <3>3, <4>1
    <3> QED BY <3>1, <3>2, <3>3
  <2>5. g = [n \in 0..k+1 |-> IF n = 0 THEN base ELSE Step(g[n - 1], n)]
    BY <2>3, <2>4
  <2>6. Creates(g, m, k + 1)
    BY <1>1, <2>5
  <2> QED BY <2>6
<1> HIDE DEF G
<1>4. len \in G
  BY <1>2, <1>3, Reaches
<1> QED BY <1>4 DEF G

LEMMA FlushGrows ==
  ASSUME NEW m, MediaKept(m)
  PROVE  Grows(m, flushPendingSourceBufferInit(m))
<1> DEFINE len == Len(m.inits)
           f == CHOOSE g : Creates(g, m, len)
<1>1. flushPendingSourceBufferInit(m) = IF Open(m) THEN f[len] ELSE m
  BY DEF flushPendingSourceBufferInit, Creates
<1>2. len \in Nat /\ \A i \in 1..len : m.inits[i].track \in Tracks
  BY DEF MediaKept, Inits
<1> HIDE DEF len
<1>3. Creates(f, m, len)
  BY <1>2, CreatesExist
<1> HIDE DEF f
<1>4. \A n \in 0..len : f[n] = IF n = 0 THEN [m EXCEPT !.inits = <<>>]
                               ELSE createSourceBuffer(f[n - 1], m.inits[n].track, m.inits[n].codec)
  BY <1>3 DEF Creates
<1> DEFINE G == {n \in 0..len : Grows(m, f[n])}
<1>5. 0 \in G
  <2>1. f[0] = [m EXCEPT !.inits = <<>>]
    BY <1>2, <1>4
  <2>2. Inits(<<>>)
    BY NoInits
  <2>3. Grows(m, [m EXCEPT !.inits = <<>>])
    BY <2>2 DEF Grows, MediaKept, MediaFields
  <2> QED BY <1>2, <2>1, <2>3
<1>6. ASSUME NEW n \in 0..len-1, n \in G PROVE n + 1 \in G
  <2>1. n + 1 \in 0..len /\ n + 1 \in 1..len /\ (n + 1) - 1 = n /\ n + 1 # 0
    BY <1>2
  <2>2. f[n + 1] = createSourceBuffer(f[n], m.inits[n + 1].track, m.inits[n + 1].codec)
    BY <1>4, <2>1
  <2>3. m.inits[n + 1].track \in Tracks
    BY <1>2, <2>1
  <2>4. Grows(f[n], f[n + 1]) /\ Grows(m, f[n])
    BY <1>6, <2>2, <2>3, CreateGrows DEF Grows
  <2> QED BY <2>1, <2>4 DEF Grows
<1>7. Grows(m, f[len])
  <2>1. len \in G
    <3> HIDE DEF G
    <3> QED BY <1>2, <1>5, <1>6, Reaches
  <2> QED BY <2>1
<1> QED BY <1>1, <1>7 DEF Grows

LEMMA StreamingGrows ==
  ASSUME NEW m, MediaKept(m), NEW cur
  PROVE  Grows(m, onStartStreaming(m, cur))
<1> DEFINE s == [m EXCEPT !.streaming = TRUE]
           n == tryAppendPending(flushPendingSourceBufferInit(s), cur)
<1>1. Grows(m, s)
  BY DEF Grows, MediaKept, MediaFields
<1> HIDE DEF s
<1>2. Grows(m, flushPendingSourceBufferInit(s))
  BY <1>1, FlushGrows DEF Grows
<1>3. Grows(m, n)
  BY <1>2, PendingGrows DEF Grows
<1> HIDE DEF n
<1>4. Grows(m, Call(n, "startstreaming"))
  BY <1>3, CallGrows DEF Grows, Answers
<1> QED BY <1>4 DEF onStartStreaming, n, s

\* A MediaSource nothing has been done with yet.
Fresh(m) ==
  /\ m.ready = "closed" /\ ~m.dead /\ m.inits = <<>> /\ m.due = {}
  /\ \A t \in Tracks : m.segments[t] = <<>> /\ m.removals[t] = <<>>

LEMMA NewFresh ==
  ASSUME NEW managed
  PROVE  LET m == NewMedia(managed) IN
         /\ MediaKept(m) /\ Fresh(m) /\ m.calls = <<>>
         /\ MediaKept(setDuration(m)) /\ Fresh(setDuration(m)) /\ setDuration(m).calls = <<>>
         /\ MediaKept([m EXCEPT !.dead = TRUE])
<1> DEFINE m == NewMedia(managed)
           none == <<>>
           p0 == PerTrack(0)
           pn == PerTrack(NoType)
           pi == PerTrack(Idle)
           pq == PerTrack(none)
<1>1. DOMAIN pn = Tracks /\ pi \in [Tracks -> {"idle", "init", "media", "remove"}]
      /\ p0 \in [Tracks -> Int] /\ DOMAIN pq = Tracks
      /\ \A t \in Tracks : p0[t] = 0 /\ pn[t] = NoType /\ pi[t] = Idle /\ pq[t] = none
  BY DEF PerTrack, Idle
<1>2. none \in Seq({}) /\ Len(none) = 0 /\ none \in Seq(Answers)
  OBVIOUS
<1>3. Queue(none) /\ Line(none, 0, 0) /\ Inits(none)
  BY <1>2 DEF Queue, Line, Inits
<1>4. m = [ready |-> "closed", dead |-> FALSE, managed |-> managed, streaming |-> ~managed,
           parsed |-> FALSE, type |-> pn, doing |-> pi, upto |-> p0, lo |-> p0, hi |-> p0, due |-> {},
           segments |-> pq, removals |-> pq, inits |-> none,
           disabled |-> {}, full |-> FALSE, eos |-> FALSE, duration |-> "none",
           told |-> p0, done |-> p0, refused |-> FALSE, garbled |-> FALSE, calls |-> none]
  BY DEF NewMedia
<1> HIDE DEF pn, pi, p0, pq, m
<1>5. MediaKept(m) /\ Fresh(m) /\ m.calls = none
  <2> HIDE DEF none
  <2>1. DOMAIN m = MediaFields
    BY <1>4 DEF MediaFields
  <2> QED BY <1>1, <1>2, <1>3, <1>4, <2>1 DEF MediaKept, Fresh, none
<1>6. setDuration(m) = [m EXCEPT !.duration = "pending"]
  BY <1>5 DEF MediaKept, MediaFields, Fresh, setDuration, tryApplyDuration, Open
<1>7. MediaKept(setDuration(m)) /\ Fresh(setDuration(m)) /\ setDuration(m).calls = <<>>
  BY <1>5, <1>6 DEF MediaKept, MediaFields, Fresh
<1>8. MediaKept([m EXCEPT !.dead = TRUE])
  BY <1>5 DEF MediaKept, MediaFields
<1> QED BY <1>5, <1>7, <1>8 DEF m

\* A new MediaSource opens: nothing waits for it, and it only calls back that it is open.
LEMMA OpenKept ==
  ASSUME NEW m, MediaKept(m), Fresh(m), m.calls = <<>>, NEW cur
  PROVE  LET n == onSourceOpen(m, cur) IN
         MediaKept([n EXCEPT !.calls = <<>>]) /\ ~n.dead /\ n.ready = "open" /\ n.calls = <<"open">>
<1> DEFINE o == [m EXCEPT !.ready = "open"]
           q == flushPendingSourceBufferInit(o)
           f == CHOOSE g : Creates(g, o, 0)
<1>1. MediaKept(o) /\ ~o.dead /\ o.ready = "open" /\ o.calls = <<>> /\ o.inits = <<>>
      /\ \A t \in Tracks : o.segments[t] = <<>> /\ o.removals[t] = <<>>
  BY DEF MediaKept, MediaFields, Fresh
<1>2. [o EXCEPT !.inits = <<>>] = o
  <2>1. o = [x \in DOMAIN o |-> o[x]]
    OBVIOUS
  <2> HIDE DEF o
  <2>2. o["inits"] = <<>>
    BY <1>1
  <2>3. \A x \in DOMAIN o : [o EXCEPT !.inits = <<>>][x] = o[x]
    BY <2>2
  <2>4. [o EXCEPT !.inits = <<>>] = [x \in DOMAIN o |-> [o EXCEPT !.inits = <<>>][x]]
    OBVIOUS
  <2> QED BY <2>1, <2>3, <2>4
<1> HIDE DEF o
<1>3. q = o
  <2>1. Len(o.inits) = 0
    BY <1>1
  <2>2. flushPendingSourceBufferInit(o) = f[0]
    BY <1>1, <2>1 DEF flushPendingSourceBufferInit, Creates, Open
  <2> HIDE DEF f
  <2>3. Creates(f, o, 0)
    BY CreatesExist DEF f
  <2>4. f[0] = [o EXCEPT !.inits = <<>>]
    BY <2>3 DEF Creates
  <2> QED BY <1>2, <2>2, <2>4
<1>4. tryAppendPending(o, cur) = o
  <2>1. ~HasRemovals(o)
    BY <1>1 DEF HasRemovals
  <2>2. AppendHead(o, "video", cur) = o /\ AppendHead(o, "audio", cur) = o
    <3>1. o.segments["video"] = <<>> /\ o.segments["audio"] = <<>>
      BY <1>1 DEF Tracks
    <3> QED BY <3>1 DEF AppendHead
  <2> QED BY <2>1, <2>2 DEF tryAppendPending, doAppendSegments
<1>5. onSourceOpen(m, cur) = Call(o, "open")
  BY <1>3, <1>4 DEF onSourceOpen, o
<1>6. LET n == Call(o, "open") IN
      MediaKept([n EXCEPT !.calls = <<>>]) /\ ~n.dead /\ n.ready = "open" /\ n.calls = <<"open">>
  BY <1>1 DEF MediaKept, MediaFields, Call
<1> QED BY <1>5, <1>6

-----------------------------------------------------------------------------
(* Operations of the player                                                *)

\* The fields of a player.
Fields == {"up", "startup", "original", "waited", "sync", "timer", "buffering", "seeking", "from", "to",
           "pending", "cursor", "at", "delay", "spans", "stretcher", "ctx", "asked", "rate", "calls"}

\* What the player calls back.
Complaints == {"startup failed", "resync failed"}
Complains(s) == s \in Seq(Complaints)

LEMMA ComplainsMore ==
  Complains(<<>>) /\ \A s : Complains(s) => \A c \in Complaints : Complains(Append(s, c))
BY DEF Complains

\* The near-stop and the state of startup, in a player p under the video v, and what p
\* calls back.
SlowKept(p, v) ==
  /\ DOMAIN p = Fields /\ Complains(p.calls)
  /\ p.original # "" <=> p.startup = "slowing"
  /\ p.original # "slow" /\ p.rate # ""
  /\ p.rate = "slow" => p.startup = "slowing"
  /\ p.startup = "slowing" => p.up /\ p.sync = "active" /\ ~v.paused /\ ~v.seeking
  /\ p.up /\ v.hidden => p.sync # "active"

\* What an operation of the player comes to: the near-stop kept, and the player still there.
Kept(p, q, v) == SlowKept(q, v) /\ q.up = p.up

\* No player, and a new one.
LEMMA NewKept ==
  ASSUME NEW r, r # "slow", r # "", NEW p, p.rate = r, NEW v
  PROVE  SlowKept(NoPlayer(r), v) /\ SlowKept(NewPlayer(p, v), v) /\ NewPlayer(p, v).up
BY ComplainsMore DEF SlowKept, NoPlayer, NewPlayer, Fields

\* Startup left for another state: the rate is the one it began with.
LEMMA RestoreKept ==
  ASSUME NEW p, NEW v, SlowKept(p, v), NEW s, s # "slowing"
  PROVE  /\ Kept(p, [restoreStartupPlaybackRate(p) EXCEPT !.startup = s], v)
         /\ Kept(p, [restoreStartupPlaybackRate(p) EXCEPT !.startup = s, !.waited = "no"], v)
BY DEF SlowKept, Kept, restoreStartupPlaybackRate, Fields

LEMMA ChainKept ==
  ASSUME NEW p, NEW v, SlowKept(p, v)
  PROVE  /\ Kept(p, NoChain(p), v) /\ Kept(p, Unanchored(p), v) /\ Kept(p, Played(p), v)
         /\ \A c \in Complaints : Kept(p, Tell(p, c), v)
         /\ \A t : Kept(p, Rebuilt(p, t), v)
BY ComplainsMore DEF SlowKept, Kept, NoChain, Unanchored, Tell, Rebuilt, Played, Fields

LEMMA SyncKept ==
  ASSUME NEW p, NEW v, SlowKept(p, v), NEW s,
         s = "active" => ~v.hidden, s # "active" => p.startup # "slowing"
  PROVE  SlowKept(setSyncState(p, s), v) /\ setSyncState(p, s).up = p.up
         /\ setSyncState(p, s).startup = p.startup /\ setSyncState(p, s).sync = s
BY DEF SlowKept, setSyncState, Fields

LEMMA ResetKept ==
  ASSUME NEW p, NEW v, SlowKept(p, v)
  PROVE  /\ SlowKept(resetStartupSyncWait(p), v) /\ resetStartupSyncWait(p).startup # "slowing"
         /\ resetStartupSyncWait(p).up = p.up
BY DEF resetStartupSyncWait, restoreStartupPlaybackRate, Started, SlowKept, Fields

LEMMA FailKept ==
  ASSUME NEW p, NEW v, SlowKept(p, v)
  PROVE  Kept(p, failStartupSync(p), v)
<1> DEFINE q == [restoreStartupPlaybackRate(p) EXCEPT !.startup = "failed", !.waited = "no"]
<1>1. Kept(p, q, v)
  BY RestoreKept
<1> HIDE DEF q
<1>2. Kept(p, Tell(q, "startup failed"), v)
  BY <1>1, ChainKept DEF Kept, Complaints
<1>3. Kept(p, p, v)
  BY DEF Kept
<1> QED BY <1>2, <1>3 DEF failStartupSync, q

\* pump() past startup.
LEMMA ScheduleKept ==
  ASSUME NEW p, NEW v, NEW w, SlowKept(p, w)
  PROVE  SlowKept(Schedule(p, v), w) /\ Schedule(p, v).up = p.up
<1>1. ASSUME NEW f
      PROVE  LET n == [p EXCEPT !.pending = f, !.stretcher = IF @ = "none" THEN "loading" ELSE @]
             IN SlowKept(n, w) /\ n.up = p.up
  BY DEF SlowKept, Fields
<1> DEFINE first == IF p.pending # None THEN p.pending
               ELSE IF p.sync = "recovering" /\ p.cursor = None THEN None
               ELSE Refilled(p, IF p.cursor # None THEN p.cursor ELSE v.cur)
           begin == IF p.cursor # None THEN p.cursor ELSE first
           new   == p.at = None
           at    == IF new THEN begin ELSE p.at
           delay == IF new THEN StartDelay(p, v, begin) ELSE p.delay
           ahead == IF p.sync = "background" THEN BACKGROUND_SCHEDULE_AHEAD ELSE SCHEDULE_AHEAD
           full  == at + ahead - delay
           limit == IF new /\ full <= begin THEN begin + 1 ELSE full
           end   == IF p.to < limit THEN p.to ELSE limit
           n     == [p EXCEPT !.cursor = end, !.at = at, !.delay = delay, !.spans = TRUE,
                              !.pending = None]
           l     == [p EXCEPT !.pending = first, !.stretcher = IF @ = "none" THEN "loading" ELSE @]
           r     == restoreStartupPlaybackRate([n EXCEPT !.startup = "complete", !.waited = "no"])
<1>2. \/ Schedule(p, v) = p \/ Schedule(p, v) = l \/ Schedule(p, v) = n
      \/ p.startup = "anchoring" /\ Schedule(p, v) = r
  <2> HIDE DEF first
  <2> QED BY Zenon DEF Schedule, first
<1>3. SlowKept(l, w) /\ l.up = p.up
  <2> HIDE DEF first
  <2> QED BY <1>1
<1>4. SlowKept(n, w) /\ n.up = p.up /\ (p.startup = "anchoring" => SlowKept(r, w) /\ r.up = p.up)
  <2> HIDE DEF end, at, delay
  <2> QED BY DEF SlowKept, Fields, restoreStartupPlaybackRate
<1> HIDE DEF l, n, r
<1> QED BY <1>2, <1>3, <1>4

LEMMA PumpedKept ==
  ASSUME NEW p, NEW v, NEW w, SlowKept(p, w)
  PROVE  SlowKept(Pumped(p, v), w) /\ Pumped(p, v).up = p.up
<1>1. SlowKept([p EXCEPT !.asked = "resume"], w) /\ [p EXCEPT !.asked = "resume"].up = p.up
  BY DEF SlowKept, Fields
<1> QED BY <1>1, ScheduleKept DEF Pumped
LEMMA StartKept ==
  ASSUME NEW p, NEW v, SlowKept(p, v), p.up
  PROVE  Kept(p, tryStartInitialSync(p, v), v)
<1> DEFINE w == [p EXCEPT !.waited = IF @ = "no" THEN "yes" ELSE @]
           target == IF p.from > v.cur THEN p.from ELSE v.cur
           anchored == [restoreStartupPlaybackRate(w) EXCEPT !.startup = "anchoring"]
           slowed == IF p.startup = "waiting"
                       THEN [w EXCEPT !.original = w.rate, !.startup = "slowing", !.rate = "slow"]
                       ELSE [w EXCEPT !.rate = "slow"]
           r == Rebuilt(anchored, target)
           Begins == Starting(p) /\ p.sync = "active" /\ canScheduleAudio(p, v)
<1>1. SlowKept(w, v) /\ w.up = p.up /\ w.startup = p.startup /\ w.sync = p.sync
  BY DEF SlowKept, Fields
<1>2. Kept(p, anchored, v)
  <2> HIDE DEF w
  <2>1. Kept(w, anchored, v)
    BY <1>1, RestoreKept
  <2> QED BY <2>1, <1>1 DEF Kept
<1>3. Kept(p, Pumped(r, v), v)
  <2> HIDE DEF anchored, target
  <2>1. Kept(p, r, v)
    BY <1>2, ChainKept DEF Kept
  <2> HIDE DEF r
  <2> QED BY <2>1, PumpedKept DEF Kept
<1>4. ASSUME Begins PROVE SlowKept(slowed, v) /\ slowed.up = p.up
  <2>1. ~v.paused /\ ~v.seeking /\ p.startup \in {"waiting", "slowing"} /\ p.sync = "active"
    BY <1>4 DEF canScheduleAudio, hasPlayableVideoData, Starting
  <2> HIDE DEF w
  <2> QED BY <2>1, <1>1 DEF SlowKept, Fields
<1>5. ASSUME Begins PROVE Kept(p, failStartupSync(slowed), v)
  <2> HIDE DEF slowed
  <2> QED BY <1>4, <1>5, FailKept DEF Kept
<1>6. \/ tryStartInitialSync(p, v) = p \/ tryStartInitialSync(p, v) = Pumped(r, v)
      \/ /\ Begins
         /\ tryStartInitialSync(p, v) = failStartupSync(slowed) \/ tryStartInitialSync(p, v) = slowed
  BY Zenon DEF tryStartInitialSync
<1> HIDE DEF r, slowed, Begins
<1> QED BY <1>3, <1>4, <1>5, <1>6 DEF Kept

LEMMA PumpKept ==
  ASSUME NEW p, NEW v, SlowKept(p, v), p.up
  PROVE  Kept(p, pump(p, v), v)
BY StartKept, PumpedKept DEF pump, Kept

LEMMA ResyncKept ==
  ASSUME NEW p, NEW v, NEW t, SlowKept(p, v), p.up
  PROVE  Kept(p, resyncFromBuffer(p, t, v), v)
<1> DEFINE r == Rebuilt(p, t)
           u == Unanchored(p)
<1>1. Kept(p, r, v) /\ Kept(p, u, v)
  BY ChainKept
<1> HIDE DEF r, u
<1>2. Kept(p, pump(r, v), v)
  BY <1>1, PumpKept DEF Kept
<1> QED BY <1>1, <1>2 DEF resyncFromBuffer, Kept, r, u

LEMMA FeedKept ==
  ASSUME NEW p, NEW v, NEW n, SlowKept(p, v), p.up
  PROVE  Kept(p, feed(p, n, v), v)
<1> DEFINE q == IF p.from = p.to THEN [p EXCEPT !.from = n, !.to = n + 1] ELSE [p EXCEPT !.to = @ + 1]
           now   == audioStreamTimeNow(q)
           clock == IF q.sync = "active" THEN v.cur ELSE IF now # None THEN now ELSE q.to
           kept  == IF clock - MinBackward < q.to THEN clock - MinBackward ELSE q.to
           c == IF clock - q.from < MaxBackward THEN q ELSE [q EXCEPT !.from = kept]
<1>1. SlowKept(q, v) /\ q.up = p.up
  BY DEF SlowKept, Fields
<1>2. SlowKept(c, v) /\ c.up = p.up
  <2> HIDE DEF q, clock, kept
  <2> QED BY <1>1 DEF SlowKept, Fields
<1>3. feed(p, n, v) = c \/ feed(p, n, v) = pump(c, v)
  BY Zenon DEF feed
<1> HIDE DEF c
<1> QED BY <1>2, <1>3, PumpKept DEF Kept

LEMMA ControlKept ==
  ASSUME NEW p, NEW v, SlowKept(p, v), p.up
  PROVE  Kept(p, controlAndPump(p, v), v)
<1> DEFINE q == resyncFromBuffer(p, v.cur, v)
<1>1. SlowKept(q, v) /\ q.up = p.up
  BY ResyncKept DEF Kept
<1>2. controlAndPump(p, v) \in {q, pump(p, v), pump(q, v)}
  <2> HIDE DEF q
  <2> QED BY DEF controlAndPump, q
<1> HIDE DEF q
<1> QED BY <1>1, <1>2, PumpKept DEF Kept

\* A hidden player is not the one the element's clock is trusted by.
LEMMA VisibilityKept ==
  ASSUME NEW p, NEW v, NEW w, SlowKept(p, w), p.up,
         v.paused = w.paused, v.seeking = w.seeking, ~v.hidden => w.hidden
  PROVE  Kept(p, onVisibilityChange(p, v), v)
<1> DEFINE r == resetStartupSyncWait(p)
<1>1. SlowKept(r, w) /\ r.up = p.up /\ r.startup # "slowing"
  BY ResetKept
<1>2. ASSUME v.hidden PROVE Kept(p, setSyncState(r, "background"), v)
  <2> HIDE DEF r
  <2> QED BY <1>1, <1>2 DEF Kept, SlowKept, setSyncState, Fields
<1>3. ASSUME ~v.hidden PROVE Kept(p, setSyncState(p, "recovering"), v)
  BY <1>3 DEF Kept, SlowKept, setSyncState, Fields
<1> QED BY <1>2, <1>3 DEF onVisibilityChange

LEMMA RecoveryKept ==
  ASSUME NEW p, NEW v, SlowKept(p, v), p.up, p.sync = "recovering", ~v.hidden
  PROVE  Kept(p, completeRecovery(p, v), v)
<1> DEFINE q == setSyncState(p, "active")
           w == [q EXCEPT !.startup = "waiting", !.waited = "no"]
           r == resyncFromBuffer(q, v.cur, v)
           t == Tell(r, "resync failed")
<1>1. SlowKept(q, v) /\ q.up = p.up /\ q.startup = p.startup /\ p.startup # "slowing"
  BY DEF SlowKept, setSyncState, Fields
<1>2. SlowKept(r, v) /\ r.up = p.up
  <2> HIDE DEF q
  <2> QED BY <1>1, ResyncKept DEF Kept
<1>3. Kept(p, t, v)
  <2> HIDE DEF r
  <2> QED BY <1>2, ChainKept DEF Kept, Complaints
<1>4. SlowKept(w, v) /\ w.up = p.up
  <2> HIDE DEF q
  <2> QED BY <1>1 DEF SlowKept, Fields
<1>5. completeRecovery(p, v) \in {q, r, t, tryStartInitialSync(w, v)}
  <2> HIDE DEF t, r, w, q
  <2> QED BY DEF completeRecovery, t, r, w, q
<1> HIDE DEF t, r, w, q
<1> QED BY <1>1, <1>2, <1>3, <1>4, <1>5, StartKept DEF Kept
LEMMA TimeUpdateKept ==
  ASSUME NEW p, NEW v, SlowKept(p, v), p.up
  PROVE  Kept(p, onTimeUpdate(p, v), v)
BY RecoveryKept, ControlKept DEF onTimeUpdate

LEMMA TimeoutKept ==
  ASSUME NEW p, NEW v, SlowKept(p, v)
  PROVE  Kept(p, onRecoveryTimeout(p, v), v)
<1> DEFINE q == [p EXCEPT !.timer = FALSE]
<1>1. Kept(p, q, v)
  BY DEF Kept, SlowKept, Fields
<1> HIDE DEF q
<1> QED BY <1>1, ChainKept DEF onRecoveryTimeout, Kept, q, Complaints

\* The element stalls, and goes on.
LEMMA BufferingKept ==
  ASSUME NEW p, NEW v, SlowKept(p, v), p.up
  PROVE  Kept(p, enterBuffering(p, v), v) /\ Kept(p, maybeExitBuffering(p, v), v)
<1> DEFINE q == [p EXCEPT !.buffering = FALSE]
           u == Unanchored(p)
           w == [u EXCEPT !.buffering = TRUE]
<1>1. Kept(p, p, v) /\ Kept(p, q, v)
  BY DEF Kept, SlowKept, Fields
<1>2. Kept(p, w, v)
  <2>1. Kept(p, u, v)
    BY ChainKept
  <2> HIDE DEF u
  <2> QED BY <2>1 DEF Kept, SlowKept, Fields
<1> HIDE DEF q
<1>3. Kept(p, enterBuffering(p, v), v)
  <2> HIDE DEF w
  <2>1. Kept(p, resetStartupSyncWait(w), v)
    BY <1>2, ResetKept DEF Kept
  <2> QED BY <1>1, <2>1 DEF enterBuffering, w
<1>4. /\ Kept(p, pump(q, v), v) /\ Kept(p, tryStartInitialSync(q, v), v)
      /\ Kept(p, resyncFromBuffer(q, v.cur, v), v)
  BY <1>1, PumpKept, StartKept, ResyncKept DEF Kept
<1>5. Kept(p, maybeExitBuffering(p, v), v)
  BY <1>1, <1>4 DEF maybeExitBuffering, q
<1> QED BY <1>3, <1>5

\* Seeking ends startup; the element is seeking from then on.
LEMMA SeekingKept ==
  ASSUME NEW p, NEW v, NEW w, SlowKept(p, v), w.hidden = v.hidden
  PROVE  Kept(p, onVideoSeeking(p), w)
<1> DEFINE n == NoChain(p)
           q == [n EXCEPT !.buffering = FALSE, !.seeking = TRUE]
           d == [restoreStartupPlaybackRate(q) EXCEPT !.startup = "disabled", !.waited = "no"]
<1>1. Kept(p, n, v) /\ n.startup = p.startup
  BY ChainKept DEF NoChain, SlowKept, Fields
<1>2. Kept(p, q, v) /\ q.startup = p.startup
  <2> HIDE DEF n
  <2> QED BY <1>1 DEF Kept, SlowKept, Fields
<1>3. Kept(p, d, v) /\ d.startup = "disabled"
  <2> HIDE DEF q
  <2>1. Kept(q, d, v)
    BY <1>2, RestoreKept DEF Kept
  <2>2. d.startup = "disabled"
    BY <1>2 DEF Kept, SlowKept, restoreStartupPlaybackRate, Fields
  <2> QED BY <1>2, <2>1, <2>2 DEF Kept
<1>4. onVideoSeeking(p) = IF p.startup = "complete" THEN q ELSE d
  BY DEF onVideoSeeking
<1> HIDE DEF q, d
<1> QED BY <1>2, <1>3, <1>4 DEF Kept, SlowKept

LEMMA SeekedKept ==
  ASSUME NEW p, NEW v, SlowKept(p, v), p.up
  PROVE  Kept(p, onVideoSeeked(p, v), v)
<1> DEFINE q == [p EXCEPT !.seeking = FALSE]
           s == IF v.hidden THEN "background" ELSE "active"
           r == IF q.sync # "recovering" THEN q ELSE setSyncState(q, s)
<1>1. Kept(p, q, v)
  BY DEF Kept, SlowKept, Fields
<1>2. Kept(p, r, v)
  <2> HIDE DEF q
  <2> QED BY <1>1 DEF Kept, SlowKept, setSyncState, Fields
<1>3. onVideoSeeked(p, v) = resyncFromBuffer(r, v.cur, v)
  BY DEF onVideoSeeked
<1> HIDE DEF r
<1> QED BY <1>2, <1>3, ResyncKept DEF Kept

LEMMA PlayKept ==
  ASSUME NEW p, NEW v, SlowKept(p, v), p.up
  PROVE  Kept(p, play(p, v), v)
<1>1. Kept(p, [p EXCEPT !.asked = "resume"], v) /\ Kept(p, p, v)
  BY DEF Kept, SlowKept, Fields
<1> QED BY <1>1, StartKept, ResyncKept DEF play

\* Pausing ends the near-stop; the element is paused from then on.
LEMMA PauseKept ==
  ASSUME NEW p, NEW v, NEW w, SlowKept(p, v), w.hidden = v.hidden
  PROVE  Kept(p, pause(p), w)
<1> DEFINE u == Unanchored(p)
           b == [u EXCEPT !.buffering = FALSE]
           q == resetStartupSyncWait(b)
           a == [q EXCEPT !.asked = "suspend"]
<1>1. Kept(p, u, v)
  BY ChainKept
<1>2. Kept(p, b, v)
  <2> HIDE DEF u
  <2> QED BY <1>1 DEF Kept, SlowKept, Fields
<1>3. Kept(p, q, v) /\ q.startup # "slowing"
  <2> HIDE DEF b
  <2> QED BY <1>2, ResetKept DEF Kept
<1>4. Kept(p, a, v) /\ a.startup # "slowing"
  <2> HIDE DEF q
  <2> QED BY <1>3 DEF Kept, SlowKept, Fields
<1>5. pause(p) = IF p.ctx = "running" THEN a ELSE q
  BY DEF pause
<1> HIDE DEF a, q
<1> QED BY <1>3, <1>4, <1>5 DEF Kept, SlowKept

LEMMA StopKept ==
  ASSUME NEW p, NEW v, SlowKept(p, v), NEW w
  PROVE  SlowKept(stop(p), w)
<1> DEFINE r == restoreStartupPlaybackRate(p).rate
<1>1. r # "slow" /\ r # ""
  BY DEF SlowKept, restoreStartupPlaybackRate, Fields
<1>2. stop(p) = NoPlayer(r)
  BY DEF stop
<1> HIDE DEF r
<1>3. SlowKept(NoPlayer(r), w)
  BY <1>1, ComplainsMore DEF SlowKept, NoPlayer, Fields
<1> QED BY <1>2, <1>3

\* The AudioContext and the stretcher.
LEMMA ContextKept ==
  ASSUME NEW p, NEW v, NEW s, SlowKept(p, v), p.up
  PROVE  Kept(p, onstatechange(p, s, v), v)
<1> DEFINE q == [p EXCEPT !.ctx = s, !.asked = ""]
           u == Unanchored(q)
           lost == resetStartupSyncWait(u)
           i == setSyncState(lost, "background")
           to == IF v.hidden THEN "background" ELSE "recovering"
           b == setSyncState(q, to)
<1>1. Kept(p, q, v) /\ q.startup = p.startup
  BY DEF Kept, SlowKept, Fields
<1>2. Kept(p, lost, v) /\ lost.startup # "slowing"
  <2> HIDE DEF q
  <2>1. Kept(p, u, v)
    BY <1>1, ChainKept DEF Kept
  <2> HIDE DEF u
  <2> QED BY <2>1, ResetKept DEF Kept
<1>3. Kept(p, i, v)
  <2> HIDE DEF lost
  <2> QED BY <1>2, SyncKept DEF Kept
<1>4. q.sync = "background" => Kept(p, b, v)
  <2> HIDE DEF q
  <2> QED BY <1>1 DEF Kept, SlowKept, setSyncState, Fields
<1>5. onstatechange(p, s, v) =
        CASE s = "interrupted" -> i
          [] s = "suspended" -> lost
          [] OTHER -> IF q.sync = "background" THEN pump(b, v)
                      ELSE IF ~canScheduleAudio(q, v) THEN q
                      ELSE IF Starting(q) THEN tryStartInitialSync(q, v)
                      ELSE resyncFromBuffer(q, v.cur, v)
  BY DEF onstatechange
<1> HIDE DEF i, lost, b, q
<1>6. q.sync = "background" => Kept(p, pump(b, v), v)
  BY <1>4, PumpKept DEF Kept
<1>7. Kept(p, tryStartInitialSync(q, v), v) /\ Kept(p, resyncFromBuffer(q, v.cur, v), v)
  BY <1>1, StartKept, ResyncKept DEF Kept
<1> QED BY <1>1, <1>2, <1>3, <1>5, <1>6, <1>7

LEMMA StretcherKept ==
  ASSUME NEW p, NEW v, SlowKept(p, v), p.up
  PROVE  Kept(p, StretcherReady(p, v), v) /\ Kept(p, StretcherFails(p), v)
<1> DEFINE r == [p EXCEPT !.stretcher = "ready"]
           q == [p EXCEPT !.stretcher = "failed", !.pending = None]
<1>1. Kept(p, r, v) /\ Kept(p, q, v)
  BY DEF Kept, SlowKept, Fields
<1> HIDE DEF r, q
<1>2. Kept(p, pump(r, v), v) /\ Kept(p, failStartupSync(q), v)
  BY <1>1, PumpKept, FailKept DEF Kept
<1> QED BY <1>1, <1>2 DEF StretcherReady, StretcherFails, r, q
-----------------------------------------------------------------------------
(* The page                                                                *)

\* What makes it inductive.
SlowIInv ==
  /\ DOMAIN video = {"paused", "seeking", "cur", "stalled", "hidden"}
  /\ SlowKept(pcm, video)

\* Callbacks leave the player as the operation left it.
LEMMA BecomesKept ==
  ASSUME NEW m, NEW p, NEW c, NEW cur, Becomes(m, p, c, cur), NEW v, SlowKept(p, v)
  PROVE  SlowKept(pcm', v)
BY ComplainsMore DEF Becomes, SlowKept, Fields

\* An operation has left m and c, and a player with what it calls back.
Leaves(m, c, cur) == \E p : Complains(p.calls) /\ Becomes(m, p, c, cur)

LEMMA LeavesIs ==
  ASSUME NEW m, NEW p, NEW c, NEW cur, NEW v, Becomes(m, p, c, cur), SlowKept(p, v)
  PROVE  Leaves(m, c, cur)
BY DEF Leaves, SlowKept

\* What an operation sees of the video is the video.
LEMMA ViewKept ==
  ASSUME NEW p, NEW v, NEW w, v.paused = w.paused, v.seeking = w.seeking, v.hidden = w.hidden
  PROVE  SlowKept(p, v) <=> SlowKept(p, w)
BY DEF SlowKept

LEMMA Seen ==
  /\ V.paused = video.paused /\ V.seeking = video.seeking /\ V.hidden = video.hidden
  /\ DOMAIN V = {"paused", "seeking", "cur", "hidden", "future"}
BY DEF V

LEMMA SlowInit == Init => SlowIInv
<1> SUFFICES ASSUME Init PROVE SlowIInv
  OBVIOUS
<1>1. pcm = NoPlayer("one") /\ NoPlayer("one").rate = "one"
  BY DEF Init, NoPlayer
<1>2. SlowKept(NoPlayer("one"), video)
  BY ComplainsMore DEF SlowKept, NoPlayer, Fields
<1> QED BY <1>1, <1>2 DEF Init, SlowIInv

\* An operation on a player that is up, none without.
LEMMA IfUp ==
  ASSUME NEW p, NEW q, NEW v, NEW w, SlowKept(p, v), w.hidden = v.hidden,
         p.up => Kept(p, q, w)
  PROVE  SlowKept(IF p.up THEN q ELSE p, w)
BY DEF SlowKept, Kept

LEMMA LoadSlow ==
  ASSUME SlowIInv, NEW s, Load(s) PROVE SlowIInv'
<1>1. pcm' = NoPlayer("one") /\ DOMAIN video' = DOMAIN video
  BY DEF Load
<1>2. SlowKept(NoPlayer("one"), video')
  BY ComplainsMore DEF SlowKept, NoPlayer, Fields
<1> QED BY <1>1, <1>2 DEF SlowIInv

LEMMA SuspendSlow ==
  ASSUME SlowIInv, Suspend PROVE SlowIInv'
<1> DEFINE r == IF ctl.sync THEN "one" ELSE stop(pcm).rate
<1>1. pcm' = NoPlayer(r) /\ DOMAIN video' = DOMAIN video
  BY DEF Suspend
<1>2. r # "slow" /\ r # ""
  <2>1. stop(pcm).rate = restoreStartupPlaybackRate(pcm).rate
    BY DEF stop, NoPlayer
  <2>2. restoreStartupPlaybackRate(pcm).rate \notin {"slow", ""}
    BY DEF SlowIInv, SlowKept, restoreStartupPlaybackRate, Fields
  <2> QED BY <2>1, <2>2
<1> HIDE DEF r
<1>3. SlowKept(NoPlayer(r), video')
  BY <1>2, ComplainsMore DEF SlowKept, NoPlayer, Fields
<1> QED BY <1>1, <1>3 DEF SlowIInv

LEMMA SyncSlow ==
  ASSUME SlowIInv, SetLiveSync PROVE SlowIInv'
<1>1. SlowKept(pcm', video)
  BY DEF SetLiveSync, SlowIInv, SlowKept, Fields
<1> QED BY <1>1 DEF SetLiveSync, SlowIInv

LEMMA SeekSlow ==
  ASSUME SlowIInv, NEW n, bufferSeek(n)
  PROVE  SlowIInv' /\ Leaves(mse, updateFetchBackpressure(ctl, Ahead(mse, n)), n)
<1> DEFINE p == IF pcm.up THEN onVideoSeeking(pcm) ELSE pcm
           c == updateFetchBackpressure(ctl, Ahead(mse, n))
<1>1. DOMAIN video' = DOMAIN video /\ video'.hidden = video.hidden
  BY DEF bufferSeek, SlowIInv
<1>2. Becomes(mse, p, c, n)
  BY DEF bufferSeek
<1>3. SlowKept(p, video')
  <2>1. Kept(pcm, onVideoSeeking(pcm), video')
    BY <1>1, SeekingKept DEF SlowIInv
  <2> QED BY <2>1, <1>1, IfUp DEF SlowIInv
<1> HIDE DEF p
<1>4. Leaves(mse, c, n)
  BY <1>2, <1>3, LeavesIs
<1>5. SlowIInv'
  <2> HIDE DEF c
  <2> QED BY <1>1, <1>2, <1>3, BecomesKept DEF SlowIInv
<1> QED BY <1>4, <1>5

LEMMA SeekedSlow ==
  ASSUME SlowIInv, Seeked PROVE SlowIInv' /\ Leaves(mse, ctl, video.cur)
<1> DEFINE v == [V EXCEPT !.seeking = FALSE]
           p == IF pcm.up THEN onVideoSeeked(pcm, v) ELSE pcm
<1>1. /\ DOMAIN video' = DOMAIN video /\ video'.hidden = video.hidden
      /\ v.paused = video'.paused /\ v.seeking = video'.seeking /\ v.hidden = video'.hidden
  BY Seen DEF Seeked, SlowIInv
<1>2. Becomes(mse, p, ctl, video.cur)
  BY DEF Seeked
<1>3. SlowKept(pcm, v)
  BY Seen DEF Seeked, SlowIInv, SlowKept
<1> HIDE DEF v
<1>4. SlowKept(p, v)
  <2>1. pcm.up => Kept(pcm, onVideoSeeked(pcm, v), v)
    BY <1>3, SeekedKept
  <2> QED BY <2>1, <1>3, IfUp
<1> HIDE DEF p
<1>5. SlowKept(p, video')
  BY <1>1, <1>4, ViewKept
<1> QED BY <1>1, <1>2, <1>5, BecomesKept, LeavesIs DEF SlowIInv

LEMMA PlaySlow ==
  ASSUME SlowIInv, PlayOrPause PROVE SlowIInv' /\ Leaves(mse, ctl, video.cur)
<1> DEFINE v == [V EXCEPT !.paused = FALSE]
           p == IF ~pcm.up THEN pcm ELSE IF video.paused THEN play(pcm, v) ELSE pause(pcm)
<1>1. /\ DOMAIN video' = DOMAIN video /\ video'.hidden = video.hidden
      /\ video'.seeking = video.seeking /\ video'.paused = ~video.paused
      /\ v.seeking = video.seeking /\ v.hidden = video.hidden /\ v.paused = FALSE
  BY Seen DEF PlayOrPause, SlowIInv
<1>2. Becomes(mse, p, ctl, video.cur)
  BY DEF PlayOrPause
<1>3. SlowKept(pcm, v)
  BY <1>1 DEF SlowIInv, SlowKept
<1>4. ASSUME pcm.up PROVE SlowKept(p, video')
  <2>1. CASE video.paused
    <3>1. Kept(pcm, play(pcm, v), v)
      BY <1>3, <1>4, PlayKept
    <3>2. SlowKept(p, v)
      BY <3>1, <2>1, <1>4 DEF Kept
    <3>3. v.paused = video'.paused
      BY <1>1, <2>1
    <3> HIDE DEF p, v
    <3> QED BY <3>2, <3>3, <1>1 DEF SlowKept
  <2>2. CASE ~video.paused
    <3>1. Kept(pcm, pause(pcm), video')
      BY <1>1, PauseKept DEF SlowIInv
    <3> QED BY <3>1, <2>2, <1>4 DEF Kept
  <2> QED BY <2>1, <2>2
<1>5. ASSUME ~pcm.up PROVE SlowKept(p, video')
  BY <1>5, <1>1 DEF SlowKept, SlowIInv
<1> HIDE DEF p
<1> QED BY <1>1, <1>2, <1>4, <1>5, BecomesKept, LeavesIs DEF SlowIInv

LEMMA HideSlow ==
  ASSUME SlowIInv, HideOrShow PROVE SlowIInv' /\ Leaves(mse, ctl, video.cur)
<1> DEFINE v == [V EXCEPT !.hidden = ~@]
           p == IF pcm.up THEN onVisibilityChange(pcm, v) ELSE pcm
<1>1. /\ DOMAIN video' = DOMAIN video /\ video'.hidden = ~video.hidden
      /\ video'.seeking = video.seeking /\ video'.paused = video.paused
      /\ v.seeking = video.seeking /\ v.hidden = ~video.hidden /\ v.paused = video.paused
  BY Seen DEF HideOrShow, SlowIInv
<1>2. Becomes(mse, p, ctl, video.cur)
  BY DEF HideOrShow
<1>3. pcm.up => Kept(pcm, onVisibilityChange(pcm, v), v)
  <2> HIDE DEF v
  <2> QED BY <1>1, VisibilityKept DEF SlowIInv
<1>4. SlowKept(p, video')
  <2> HIDE DEF v
  <2>1. CASE pcm.up
    BY <2>1, <1>1, <1>3 DEF Kept, SlowKept
  <2>2. CASE ~pcm.up
    BY <2>2, <1>1 DEF SlowKept, SlowIInv
  <2> QED BY <2>1, <2>2
<1> HIDE DEF p
<1> QED BY <1>1, <1>2, <1>4, BecomesKept, LeavesIs DEF SlowIInv

\* What leaves the video alone: an operation of the player under it.
LEMMA SameVideo ==
  ASSUME SlowIInv, NEW p, NEW m, NEW c, NEW cur, Becomes(m, p, c, cur),
         DOMAIN video' = DOMAIN video, video'.paused = video.paused,
         video'.seeking = video.seeking, video'.hidden = video.hidden, SlowKept(p, V)
  PROVE  SlowIInv' /\ Leaves(m, c, cur)
<1>1. SlowKept(p, video')
  BY Seen, ViewKept
<1> QED BY <1>1, BecomesKept, LeavesIs DEF SlowIInv

\* Audio fed to the player, a new one if there is none.
Fed1(n) == feed(IF pcm.up THEN pcm ELSE NewPlayer(pcm, V), n, V)

LEMMA FedKept == ASSUME SlowIInv, NEW n PROVE SlowKept(pcm, V) /\ SlowKept(Fed1(n), V)
<1> DEFINE player == IF pcm.up THEN pcm ELSE NewPlayer(pcm, V)
<1>1. SlowKept(pcm, V)
  BY Seen, ViewKept DEF SlowIInv
<1>2. SlowKept(player, V) /\ player.up
  <2>1. CASE pcm.up
    BY <2>1, <1>1
  <2>2. CASE ~pcm.up
    <3>1. pcm.rate # "slow" /\ pcm.rate # ""
      BY <2>2, <1>1 DEF SlowKept
    <3> QED BY <2>2, <3>1, NewKept
  <2> QED BY <2>1, <2>2
<1>3. Fed1(n) = feed(player, n, V)
  BY DEF Fed1
<1> HIDE DEF player
<1> QED BY <1>1, <1>2, <1>3, FeedKept DEF Kept

LEMMA MessageSlow ==
  ASSUME SlowIInv, handleWorkerMessage PROVE SlowIInv'
<1>1. UNCHANGED video
  BY DEF handleWorkerMessage
<1>2. CASE UNCHANGED pcm
  BY <1>1, <1>2 DEF SlowIInv
<1>3. CASE \E m, c, cur : Becomes(m, pcm, c, cur)
  BY <1>1, <1>3, FedKept, SameVideo
<1>4. CASE \E n, m, c, cur : Becomes(m, Fed1(n), c, cur)
  BY <1>1, <1>4, FedKept, SameVideo
<1>5. \/ UNCHANGED pcm \/ \E m, c, cur : Becomes(m, pcm, c, cur)
      \/ \E n, m, c, cur : Becomes(m, Fed1(n), c, cur)
  BY DEF handleWorkerMessage, Fed1
<1> QED BY <1>2, <1>3, <1>4, <1>5

LEMMA SourceSlow ==
  ASSUME SlowIInv,
         \/ SourceOpen \/ SourceClose \/ StartStreaming \/ EndStreaming \/ WorkerTakes \/ WorkerPosts
         \/ \E t \in Tracks : Finish(t) \/ UpdateEnd(t)
  PROVE  SlowIInv'
<1>1. SlowKept(pcm, V)
  BY Seen, ViewKept DEF SlowIInv
<1>2. UNCHANGED video
  BY DEF SourceOpen, SourceClose, StartStreaming, EndStreaming, WorkerTakes, WorkerPosts, Finish, UpdateEnd
<1>3. UNCHANGED pcm \/ \E m, c, cur : Becomes(m, pcm, c, cur)
  BY DEF SourceOpen, SourceClose, StartStreaming, EndStreaming, WorkerTakes, WorkerPosts, Finish, UpdateEnd
<1>4. CASE UNCHANGED pcm
  BY <1>2, <1>4 DEF SlowIInv
<1>5. CASE \E m, c, cur : Becomes(m, pcm, c, cur)
  BY <1>1, <1>2, <1>5, SameVideo
<1> QED BY <1>3, <1>4, <1>5

\* The live sync leaves a rate that startup has set alone.
LEMMA RateKept ==
  ASSUME NEW p, NEW v, SlowKept(p, v), p.original = "",
         NEW r, r \in {"one", "fast"} \/ r = p.rate
  PROVE  SlowKept([p EXCEPT !.rate = r], v) /\ [p EXCEPT !.rate = r].up = p.up
BY DEF SlowKept, Fields

LEMMA TimeSlow ==
  ASSUME SlowIInv, TimeUpdate
  PROVE  LET cur == video.cur + 1
             c == updateFetchBackpressure(ctl, Ahead(mse, cur))
         IN  SlowIInv' /\ (Leaves(mse, c, cur) \/ \E e : Leaves(mse, [c EXCEPT !.extra = e], cur))
<1> DEFINE cur == video.cur + 1
           v == [V EXCEPT !.cur = cur, !.future = Ahead(mse, cur) > 0]
           c == updateFetchBackpressure(ctl, Ahead(mse, cur))
           moved(p) == IF p.at # None /\ p.ctx = "running" THEN Played(p) ELSE p
           heard(p) == IF p.up THEN onTimeUpdate(moved(p), v) ELSE p
           l(lag) == [pcm EXCEPT !.rate = LiveSyncRate(lag)]
           k(lag) == [c EXCEPT !.extra = IF lag <= TargetLatency THEN 0 ELSE @]
<1>1. /\ DOMAIN video' = DOMAIN video /\ video'.paused = video.paused
      /\ video'.seeking = video.seeking /\ video'.hidden = video.hidden
  BY DEF TimeUpdate, SlowIInv
<1>2. v.paused = V.paused /\ v.seeking = V.seeking /\ v.hidden = V.hidden
  BY Seen
<1> HIDE DEF v, c, cur
<1>3. ASSUME NEW p, SlowKept(p, V) PROVE SlowKept(heard(p), V)
  <2>1. SlowKept(p, v)
    BY <1>2, <1>3, ViewKept
  <2>2. Kept(p, moved(p), v)
    BY <2>1, ChainKept DEF Kept
  <2> HIDE DEF moved
  <2>3. p.up => SlowKept(onTimeUpdate(moved(p), v), v)
    BY <2>2, TimeUpdateKept DEF Kept
  <2> HIDE DEF moved
  <2>4. SlowKept(heard(p), v)
    BY <2>1, <2>3
  <2> HIDE DEF heard
  <2> QED BY <1>2, <2>4, ViewKept
<1>4. SlowKept(pcm, V)
  BY Seen, ViewKept DEF SlowIInv
<1>5. ASSUME NEW lag, Adjusts PROVE SlowKept(l(lag), V)
  <2>1. pcm.original = "" /\ (LiveSyncRate(lag) \in {"one", "fast"} \/ LiveSyncRate(lag) = pcm.rate)
    BY <1>5 DEF Adjusts, LiveSyncRate
  <2> QED BY <1>4, <2>1, RateKept
<1>6. \/ Becomes(mse, heard(pcm), c, cur)
      \/ Adjusts /\ \E lag : Becomes(mse, heard(l(lag)), k(lag), cur)
  BY Zenon DEF TimeUpdate, v, c, cur
<1> HIDE DEF heard, l
<1>7. ASSUME NEW p, SlowKept(p, V), NEW d, Becomes(mse, p, d, cur) PROVE SlowIInv' /\ Leaves(mse, d, cur)
  BY <1>1, <1>7, SameVideo
<1>8. CASE Becomes(mse, heard(pcm), c, cur)
  BY <1>3, <1>4, <1>7, <1>8 DEF c, cur
<1>9. CASE \E lag : Adjusts /\ Becomes(mse, heard(l(lag)), k(lag), cur)
  <2> PICK lag : Adjusts /\ Becomes(mse, heard(l(lag)), k(lag), cur)
    BY <1>9
  <2> DEFINE e == IF lag <= TargetLatency THEN 0 ELSE c.extra
  <2>1. k(lag) = [c EXCEPT !.extra = e]
    OBVIOUS
  <2> HIDE DEF k, e
  <2>2. SlowIInv' /\ Leaves(mse, k(lag), cur)
    BY <1>3, <1>5, <1>7
  <2> QED BY <2>1, <2>2 DEF c, cur
<1> QED BY <1>6, <1>8, <1>9

LEMMA WaitingSlow ==
  ASSUME SlowIInv, Waiting
  PROVE  SlowIInv' /\ (Leaves(mse, ctl, video.cur) \/ \E e : Leaves(mse, [ctl EXCEPT !.extra = e], video.cur))
<1> DEFINE o == [pcm EXCEPT !.rate = "one"]
           edge(near) == Adjusts /\ near
           p(near) == IF edge(near) THEN o ELSE pcm
           q(near) == IF pcm.up THEN enterBuffering(p(near), V) ELSE p(near)
           k(near) == IF edge(near) /\ ctl.extra < UNDERRUN_BACKOFF_MAX
                        THEN [ctl EXCEPT !.extra = @ + 1] ELSE ctl
<1>1. /\ DOMAIN video' = DOMAIN video /\ video'.paused = video.paused
      /\ video'.seeking = video.seeking /\ video'.hidden = video.hidden
  BY DEF Waiting, SlowIInv
<1>2. SlowKept(pcm, V)
  BY Seen, ViewKept DEF SlowIInv
<1>3. PICK near : Becomes(mse, q(near), k(near), video.cur)
  BY DEF Waiting
<1>4. SlowKept(p(near), V) /\ p(near).up = pcm.up
  <2>1. edge(near) => SlowKept(o, V) /\ o.up = pcm.up
    BY <1>2, RateKept DEF Adjusts
  <2> HIDE DEF o, edge
  <2> QED BY <1>2, <2>1
<1> HIDE DEF p
<1>5. SlowKept(q(near), V)
  BY <1>4, BufferingKept DEF Kept
<1> HIDE DEF q
<1>6. k(near) = ctl \/ \E e : k(near) = [ctl EXCEPT !.extra = e]
  OBVIOUS
<1> HIDE DEF k
<1>7. SlowIInv' /\ Leaves(mse, k(near), video.cur)
  BY <1>1, <1>3, <1>5, SameVideo
<1> QED BY <1>6, <1>7

LEMMA PlayingSlow ==
  ASSUME SlowIInv, Playing PROVE SlowIInv' /\ Leaves(mse, ctl, video.cur)
<1>1. /\ DOMAIN video' = DOMAIN video /\ video'.paused = video.paused
      /\ video'.seeking = video.seeking /\ video'.hidden = video.hidden
      /\ Becomes(mse, IF pcm.up THEN maybeExitBuffering(pcm, V) ELSE pcm, ctl, video.cur)
  BY DEF Playing, SlowIInv
<1>2. SlowKept(pcm, V)
  BY Seen, ViewKept DEF SlowIInv
<1>3. SlowKept(IF pcm.up THEN maybeExitBuffering(pcm, V) ELSE pcm, V)
  BY <1>2, BufferingKept DEF Kept
<1> QED BY <1>1, <1>3, SameVideo

LEMMA AudioSlow ==
  ASSUME SlowIInv,
         \/ ControlTimer \/ ContextSettles \/ Interrupt \/ StretcherLoads \/ StartupTimeout
         \/ RecoveryTimeout \/ AudioGoesOn
  PROVE  SlowIInv' /\ UNCHANGED worker /\ UNCHANGED inbox /\ Leaves(mse, ctl, video.cur)
<1>1. SlowKept(pcm, V)
  BY Seen, ViewKept DEF SlowIInv
<1> DEFINE over == [pcm EXCEPT !.waited = "over"]
           next == {controlAndPump(pcm, V), StretcherReady(pcm, V), StretcherFails(pcm), over,
                    onRecoveryTimeout(pcm, V), Played(pcm)}
<1>2. pcm.up /\ \E p : Audio(p) /\ (p \in next \/ \E s : p = onstatechange(pcm, s, V))
  <2>1. ASSUME ControlTimer \/ StartupTimeout \/ RecoveryTimeout \/ AudioGoesOn
        PROVE  pcm.up /\ \E p \in next : Audio(p)
    BY <2>1, Zenon DEF ControlTimer, StartupTimeout, RecoveryTimeout, AudioGoesOn
  <2>2. ASSUME StretcherLoads PROVE pcm.up /\ \E p \in next : Audio(p)
    BY <2>2, Zenon DEF StretcherLoads
  <2>3. ASSUME ContextSettles \/ Interrupt
        PROVE  pcm.up /\ \E s : Audio(onstatechange(pcm, s, V))
    BY <2>3, Zenon DEF ContextSettles, Interrupt
  <2> HIDE DEF next
  <2> QED BY <2>1, <2>2, <2>3
<1>3. SlowKept(over, V)
  BY <1>1 DEF SlowKept, Fields
<1> HIDE DEF over
<1>4. \A p \in next : SlowKept(p, V)
  BY <1>1, <1>2, <1>3, ControlKept, StretcherKept, TimeoutKept, ChainKept DEF Kept
<1>5. \A s : SlowKept(onstatechange(pcm, s, V), V)
  BY <1>1, <1>2, ContextKept DEF Kept
<1> HIDE DEF next
<1>6. PICK p : Audio(p) /\ SlowKept(p, V)
  BY <1>2, <1>4, <1>5
<1> QED BY <1>6, SameVideo DEF Audio

LEMMA SlowStep == ASSUME SlowIInv, [Next]_vars PROVE SlowIInv'
<1>1. ASSUME UNCHANGED vars PROVE SlowIInv'
  BY <1>1 DEF vars, SlowIInv
<1>2. ASSUME Progress PROVE SlowIInv'
  BY <1>2, SourceSlow, MessageSlow, SeekedSlow, WaitingSlow, PlayingSlow, AudioSlow DEF Progress
<1>3. ASSUME Next, ~Progress PROVE SlowIInv'
  BY <1>3, LoadSlow, SuspendSlow, SyncSlow, PlaySlow, HideSlow, SeekSlow, SourceSlow, TimeSlow,
     AudioSlow DEF Next
<1> QED BY <1>1, <1>2, <1>3

\* Whatever the page, the user, the system and the worker do, and in whatever order the
\* audio is loaded, stalls, is hidden, interrupted and resynchronised: the near-stop of
\* the element's rate that startup sets ends with the startup that asked for it, and
\* never meets a paused or a seeking element (audio/pcm-audio-player.ts, tryStartInitialSync).
THEOREM SlowEnds == Spec => []SlowOnlyAtStartup
<1>1. SlowIInv => SlowOnlyAtStartup
  BY DEF SlowIInv, SlowKept, SlowOnlyAtStartup
<1> QED BY <1>1, SlowInit, SlowStep, PTL DEF Spec

-----------------------------------------------------------------------------
(* The controller and the worker                                           *)

CtlFields == {"gen", "on", "managed", "stream", "mode", "sync", "syncEnabled", "extra", "out",
              "waiting", "inits", "throttle", "watermark", "bufferFull", "failed"}

\* A generation that was asked for: not the current one while that waits for its MediaSource.
Under(g, c) == g \in Nat /\ g <= c.gen /\ (c.waiting => g # c.gen)

\* The worker is to be paused.
Held(c) == c.watermark \/ c.bufferFull

MessageOk(msg) == msg.kind \in {"init", "media"} => msg.track \in Tracks

StreamOk(s) ==
  /\ DOMAIN s.messages = 1..Len(s.messages) /\ Len(s.messages) \in Nat
  /\ \A i \in DOMAIN s.messages : MessageOk(s.messages[i])

\* The commands s under way from the controller c.
Outbox(s, c) ==
  /\ \E S : s \in Seq(S)
  /\ \A i \in 1..Len(s) : s[i].kind = "load" => Under(s[i].gen, c) /\ StreamOk(s[i].stream)

CtlOk(c) ==
  /\ DOMAIN c = CtlFields /\ c.gen \in Nat
  /\ Outbox(c.out, c) /\ StreamOk(c.stream) /\ Inits(c.inits)
  /\ c.waiting => ~Held(c) /\ ~c.throttle

\* What the worker w was last told, or has done, is what the controller believes.
Speaks(c, w) ==
  ~c.waiting =>
    /\ c.out = <<>> /\ w.up /\ w.gen = c.gen => (w.paused <=> Held(c))
    /\ c.out # <<>> => (c.out[Len(c.out)].kind = "pause" <=> Held(c))

\* The loads under way from the controller c are of later and later generations, all later
\* than that of the worker w.
InTurn(c, w) ==
  /\ Under(w.gen, c)
  /\ \A i \in 1..Len(c.out) : c.out[i].kind = "load" =>
       /\ w.gen < c.out[i].gen
       /\ c.out[i].gen = c.gen => c.out[i].stream = c.stream
       /\ \A j \in 1..i-1 : c.out[j].kind = "load" => c.out[j].gen < c.out[i].gen

\* What a callback may do to the controller c.
Reacts(c, d, w) ==
  /\ CtlOk(d) /\ d.gen = c.gen /\ d.stream = c.stream /\ (d.waiting => c.waiting)
  /\ Speaks(c, w) => Speaks(d, w)
  /\ InTurn(c, w) => InTurn(d, w)

LEMMA OutboxMore ==
  ASSUME NEW c, NEW s, Outbox(s, c), NEW x, x.kind = "load" => Under(x.gen, c) /\ StreamOk(x.stream)
  PROVE  /\ Outbox(Append(s, x), c)
         /\ Append(s, x) # <<>> /\ Append(s, x)[Len(Append(s, x))] = x
<1>1. PICK S : s \in Seq(S)
  BY DEF Outbox
<1>2. /\ Append(s, x) \in Seq(S \cup {x}) /\ Len(s) \in Nat /\ Len(Append(s, x)) = Len(s) + 1
      /\ \A i \in 1..Len(s)+1 : Append(s, x)[i] = IF i = Len(s) + 1 THEN x ELSE s[i]
  <2>1. s \in Seq(S \cup {x})
    BY <1>1
  <2> QED BY <2>1
<1>3. \A i \in 1..Len(s)+1 : i = Len(s) + 1 \/ i \in 1..Len(s)
  BY <1>2
<1>4. Outbox(Append(s, x), c)
  BY <1>2, <1>3 DEF Outbox
<1> QED BY <1>2, <1>4

\* A command more, which may be the load that waited for its MediaSource.
LEMMA TurnMore ==
  ASSUME NEW c, CtlOk(c), NEW x, NEW d, d.out = Append(c.out, x),
         d.gen = c.gen, d.stream = c.stream, d.waiting => c.waiting,
         x.kind = "load" => c.waiting /\ x.gen = c.gen /\ x.stream = c.stream,
         NEW w, InTurn(c, w)
  PROVE  InTurn(d, w)
<1>1. PICK S : c.out \in Seq(S)
  BY DEF CtlOk, Outbox
<1>2. /\ Len(c.out) \in Nat /\ Len(d.out) = Len(c.out) + 1
      /\ \A i \in 1..Len(c.out)+1 : d.out[i] = IF i = Len(c.out) + 1 THEN x ELSE c.out[i]
  <2>1. c.out \in Seq(S \cup {x})
    BY <1>1
  <2> QED BY <2>1
<1> DEFINE o == c.out
           n == Len(c.out)
<1>3. /\ n \in Nat /\ \A i \in 1..n : d.out[i] = o[i]
      /\ d.out[n + 1] = x /\ Len(d.out) = n + 1
  BY <1>2
<1>4. \A i \in 1..n : o[i].kind = "load" =>
        /\ w.gen < o[i].gen /\ Under(o[i].gen, c)
        /\ o[i].gen = c.gen => o[i].stream = c.stream
        /\ \A j \in 1..i-1 : o[j].kind = "load" => o[j].gen < o[i].gen
  BY DEF InTurn, CtlOk, Outbox
<1>5. Under(w.gen, d) /\ w.gen \in Nat /\ c.gen \in Nat /\ (c.waiting => w.gen < c.gen)
  BY DEF InTurn, CtlOk, Under
<1>6. c.waiting => \A i \in 1..n : o[i].kind = "load" => o[i].gen < c.gen
  BY <1>4, <1>5 DEF Under
<1> HIDE DEF o, n
<1>7. ASSUME NEW i \in 1..n+1, d.out[i].kind = "load"
      PROVE  /\ w.gen < d.out[i].gen
             /\ d.out[i].gen = d.gen => d.out[i].stream = d.stream
             /\ \A j \in 1..i-1 : d.out[j].kind = "load" => d.out[j].gen < d.out[i].gen
  <2>1. CASE i = n + 1
    <3>1. \A j \in 1..i-1 : j \in 1..n
      BY <1>3, <2>1
    <3> QED BY <1>3, <1>5, <1>6, <1>7, <2>1, <3>1
  <2>2. CASE i # n + 1
    <3>1. i \in 1..n /\ \A j \in 1..i-1 : j \in 1..n
      BY <1>3, <2>2
    <3> QED BY <1>3, <1>4, <1>7, <3>1
  <2> QED BY <2>1, <2>2
<1> QED BY <1>3, <1>5, <1>7 DEF InTurn

\* A command that is no load.
LEMMA PauseReacts ==
  ASSUME NEW c, CtlOk(c), ~c.waiting, NEW w, NEW kind
  PROVE  Reacts(c, pauseWorkerForBackpressure(c, kind), w)
<1> DEFINE o == Append(c.out, Command("pause"))
<1>0. Command("pause").kind = "pause"
  BY DEF Command
<1>1. Outbox(o, c) /\ o # <<>> /\ o[Len(o)].kind = "pause"
  <2> DEFINE x == Command("pause")
  <2> HIDE DEF x
  <2> QED BY <1>0, OutboxMore DEF CtlOk, x
<1>a. ASSUME NEW d, d.out = o, d.gen = c.gen, d.stream = c.stream, d.waiting = c.waiting,
             InTurn(c, w)
      PROVE  InTurn(d, w)
  <2> DEFINE x == Command("pause")
  <2> HIDE DEF x
  <2> QED BY <1>0, <1>a, TurnMore DEF x
<1>2. pauseWorkerForBackpressure(c, kind) \in
        {[c EXCEPT !.watermark = TRUE, !.out = o], [c EXCEPT !.bufferFull = TRUE, !.out = o]}
  BY DEF pauseWorkerForBackpressure, post, CtlOk, CtlFields
<1> HIDE DEF o
<1>3. ASSUME NEW d \in {[c EXCEPT !.watermark = TRUE, !.out = o], [c EXCEPT !.bufferFull = TRUE, !.out = o]}
      PROVE  Reacts(c, d, w)
  <2>1. /\ DOMAIN d = CtlFields /\ d.out = o /\ d.gen = c.gen /\ d.stream = c.stream
        /\ d.inits = c.inits /\ d.waiting = c.waiting /\ Held(d)
    BY <1>3 DEF CtlOk, CtlFields, Held
  <2>2. Outbox(o, d)
    BY <1>1, <2>1 DEF Outbox, Under
  <2> QED BY <1>1, <1>a, <2>1, <2>2 DEF Reacts, CtlOk, Speaks
<1> QED BY <1>2, <1>3

LEMMA ResumeReacts ==
  ASSUME NEW c, CtlOk(c), NEW w
  PROVE  /\ Reacts(c, resumeWorkerFromBackpressure(c), w)
         /\ ~Held(c) => Reacts(c, post(c, Command("resume")), w)
<1> DEFINE o == Append(c.out, Command("resume"))
           r == [c EXCEPT !.watermark = FALSE, !.bufferFull = FALSE, !.out = o]
           p == [c EXCEPT !.out = o]
<1>0. Command("resume").kind = "resume"
  BY DEF Command
<1>1. Outbox(o, c) /\ o # <<>> /\ o[Len(o)].kind # "pause"
  <2> DEFINE x == Command("resume")
  <2> HIDE DEF x
  <2> QED BY <1>0, OutboxMore DEF CtlOk, x
<1>a. ASSUME NEW d, d.out = o, d.gen = c.gen, d.stream = c.stream, d.waiting = c.waiting,
             InTurn(c, w)
      PROVE  InTurn(d, w)
  <2> DEFINE x == Command("resume")
  <2> HIDE DEF x
  <2> QED BY <1>0, <1>a, TurnMore DEF x
<1>2. resumeWorkerFromBackpressure(c) = r /\ post(c, Command("resume")) = p
  BY DEF resumeWorkerFromBackpressure, post, CtlOk, CtlFields
<1> HIDE DEF o
<1>3. ASSUME NEW d \in {r, p}, d = p => ~Held(c) PROVE Reacts(c, d, w)
  <2>1. /\ DOMAIN d = CtlFields /\ d.out = o /\ d.gen = c.gen /\ d.stream = c.stream
        /\ d.inits = c.inits /\ d.waiting = c.waiting
        /\ d.throttle = c.throttle /\ ~Held(d)
    BY <1>3 DEF CtlOk, CtlFields, Held
  <2>2. Outbox(o, d)
    BY <1>1, <2>1 DEF Outbox, Under
  <2> HIDE DEF r, p
  <2> QED BY <1>1, <1>a, <2>1, <2>2 DEF Reacts, CtlOk, Speaks
<1>4. Reacts(c, r, w)
  <2>1. CASE r = p /\ Held(c)
    <3>1. ~Held(r)
      BY DEF CtlOk, CtlFields, Held
    <3>2. Held(p)
      BY <2>1 DEF CtlOk, CtlFields, Held
    <3> QED BY <2>1, <3>1, <3>2
  <2>2. CASE ~(r = p /\ Held(c))
    <3> HIDE DEF r, p
    <3> QED BY <1>3, <2>2
  <2> QED BY <2>1, <2>2
<1> HIDE DEF r, p
<1> QED BY <1>2, <1>3, <1>4

LEMMA SameReacts == ASSUME NEW c, CtlOk(c), NEW w PROVE Reacts(c, c, w)
BY DEF Reacts

LEMMA UpdateReacts ==
  ASSUME NEW c, CtlOk(c), NEW ahead, NEW w
  PROVE  /\ Reacts(c, updateFetchBackpressure(c, ahead), w)
         /\ c.waiting => updateFetchBackpressure(c, ahead) = c
<1>1. c.waiting => updateFetchBackpressure(c, ahead) = c
  BY DEF CtlOk, Held, updateFetchBackpressure
<1>2. \/ updateFetchBackpressure(c, ahead) = c
      \/ updateFetchBackpressure(c, ahead) = resumeWorkerFromBackpressure(c)
      \/ updateFetchBackpressure(c, ahead) = pauseWorkerForBackpressure(c, "watermark")
  BY Zenon DEF updateFetchBackpressure
<1>3. CASE c.waiting
  BY <1>1, <1>3, SameReacts
<1>4. CASE ~c.waiting
  BY <1>2, <1>4, SameReacts, PauseReacts, ResumeReacts
<1> QED BY <1>1, <1>3, <1>4

LEMMA LoadReacts ==
  ASSUME NEW c, CtlOk(c), c.waiting, NEW w
  PROVE  Reacts(c, loadInWorker(c), w) /\ ~loadInWorker(c).waiting
<1> DEFINE n == [c EXCEPT !.waiting = FALSE]
           x == [kind |-> "load", gen |-> c.gen, stream |-> c.stream]
           o == Append(c.out, x)
           d == [c EXCEPT !.waiting = FALSE, !.out = o]
<1>1. Outbox(c.out, n) /\ Under(x.gen, n) /\ StreamOk(x.stream)
  BY DEF CtlOk, CtlFields, Outbox, Under
<1>2. Outbox(o, n) /\ o # <<>> /\ o[Len(o)].kind # "pause"
  <2>1. x.kind = "load"
    OBVIOUS
  <2> HIDE DEF x, n
  <2> QED BY <1>1, <2>1, OutboxMore
<1>3. loadInWorker(c) = d
  BY DEF loadInWorker, post, CtlOk, CtlFields
<1>a. ASSUME NEW q, q.out = o, q.gen = c.gen, q.stream = c.stream, ~q.waiting, InTurn(c, w)
      PROVE  InTurn(q, w)
  <2>1. x.gen = c.gen /\ x.stream = c.stream
    OBVIOUS
  <2> HIDE DEF x
  <2> QED BY <1>a, <2>1, TurnMore
<1> HIDE DEF o
<1>4. /\ DOMAIN d = CtlFields /\ d.out = o /\ d.gen = c.gen /\ d.stream = c.stream
      /\ d.inits = c.inits /\ ~d.waiting /\ ~Held(d)
      /\ n.gen = c.gen /\ ~n.waiting
  BY DEF CtlOk, CtlFields, Held
<1> HIDE DEF d, n
<1>5. Outbox(o, d)
  BY <1>2, <1>4 DEF Outbox, Under
<1> QED BY <1>2, <1>3, <1>4, <1>5, <1>a DEF Reacts, CtlOk, Speaks

\* All that may be called back.
Callbacks == Answers \cup Complaints \cup {"open", "close"}

LEMMA UpdateInits ==
  ASSUME NEW c, DOMAIN c = CtlFields, NEW ahead
  PROVE  updateFetchBackpressure(c, ahead).inits = c.inits
BY DEF post, updateFetchBackpressure, pauseWorkerForBackpressure, resumeWorkerFromBackpressure, CtlFields

LEMMA CalledInits ==
  ASSUME NEW c, DOMAIN c = CtlFields, NEW call, NEW ahead
  PROVE  Called(c, call, ahead).inits = c.inits
<1>1. post(c, Command("resume")).inits = c.inits
  BY DEF post, CtlFields
<1>2. pauseWorkerForBackpressure(c, "buffer-full").inits = c.inits
  BY DEF post, pauseWorkerForBackpressure, CtlFields
<1>3. updateFetchBackpressure(c, ahead).inits = c.inits
  BY UpdateInits
<1>4. loadInWorker(c).inits = c.inits
  BY DEF post, loadInWorker, CtlFields
<1>5. [post(c, Command("pause")) EXCEPT !.failed = @ \/ ~video.hidden].inits = c.inits
  BY DEF post, CtlFields
<1>6. [c EXCEPT !.failed = TRUE].inits = c.inits
  BY DEF CtlFields
<1>7. \/ Called(c, call, ahead) = pauseWorkerForBackpressure(c, "buffer-full")
      \/ Called(c, call, ahead) = updateFetchBackpressure(c, ahead)
      \/ Called(c, call, ahead) = post(c, Command("resume"))
      \/ Called(c, call, ahead) = loadInWorker(c)
      \/ Called(c, call, ahead) = c
      \/ Called(c, call, ahead) = [post(c, Command("pause")) EXCEPT !.failed = @ \/ ~video.hidden]
      \/ Called(c, call, ahead) = [c EXCEPT !.failed = TRUE]
  BY DEF Called
<1> QED BY <1>1, <1>2, <1>3, <1>4, <1>5, <1>6, <1>7

LEMMA CalledReacts ==
  ASSUME NEW c, CtlOk(c), NEW w, NEW ahead, NEW call \in Callbacks,
         c.waiting => call \in Complaints \cup {"open"}
  PROVE  LET d == Called(c, call, ahead) IN
         /\ CtlOk(d) /\ d.gen = c.gen /\ (d.waiting => c.waiting)
         /\ d.stream = c.stream /\ d.inits = c.inits /\ (InTurn(c, w) => InTurn(d, w))
         /\ call # "close" /\ Speaks(c, w) => Speaks(d, w)
         /\ call # "open" /\ c.waiting => d.waiting
         /\ call = "open" => ~d.waiting
<1> DEFINE d == Called(c, call, ahead)
<1>0. d = Called(c, call, ahead)
  OBVIOUS
<1> SUFFICES /\ CtlOk(d) /\ d.gen = c.gen /\ (d.waiting => c.waiting)
             /\ d.stream = c.stream /\ d.inits = c.inits /\ (InTurn(c, w) => InTurn(d, w))
             /\ call # "close" /\ Speaks(c, w) => Speaks(d, w)
             /\ call # "open" /\ c.waiting => d.waiting
             /\ call = "open" => ~d.waiting
  OBVIOUS
<1>i. d.inits = c.inits
  BY CalledInits DEF CtlOk
<1> HIDE DEF d
<1>1. CASE call = "full"
  <2>1. d = pauseWorkerForBackpressure(c, "buffer-full")
    BY <1>0, <1>1 DEF Called
  <2>2. ~c.waiting
    BY <1>1 DEF Complaints
  <2> QED BY <1>1, <1>i, <2>1, <2>2, PauseReacts DEF Reacts
<1>2. CASE call \in {"available", "updated"}
  <2>1. d = updateFetchBackpressure(c, ahead)
    BY <1>0, <1>2 DEF Called
  <2>2. ~c.waiting
    BY <1>2 DEF Complaints
  <2> QED BY <1>2, <1>i, <2>1, <2>2, UpdateReacts DEF Reacts
<1>3. CASE call = "startstreaming"
  <2>1. \/ d = updateFetchBackpressure(c, ahead)
        \/ ~Held(c) /\ d = post(c, Command("resume"))
    BY <1>0, <1>3 DEF Called, Held
  <2>2. ~c.waiting
    BY <1>3 DEF Complaints
  <2> QED BY <1>3, <1>i, <2>1, <2>2, UpdateReacts, ResumeReacts DEF Reacts
<1>4. CASE call = "open"
  <2>1. d = IF c.waiting THEN loadInWorker(c) ELSE c
    BY <1>0, <1>4 DEF Called
  <2> QED BY <1>4, <1>i, <2>1, LoadReacts DEF Reacts
<1>5. CASE call = "close"
  <2> DEFINE o == Append(c.out, Command("pause"))
             f == c.failed \/ ~video.hidden
  <2>1. d = [c EXCEPT !.out = o, !.failed = f]
    BY <1>0, <1>5 DEF Called, post, CtlOk, CtlFields
  <2>0. Command("pause").kind = "pause"
    BY DEF Command
  <2>2. Outbox(o, c)
    <3> DEFINE x == Command("pause")
    <3> HIDE DEF x
    <3> QED BY <2>0, OutboxMore DEF CtlOk, x
  <2>a. ASSUME d.out = o, d.gen = c.gen, d.stream = c.stream, d.waiting = c.waiting, InTurn(c, w)
        PROVE  InTurn(d, w)
    <3> DEFINE x == Command("pause")
    <3> HIDE DEF x
    <3> QED BY <2>0, <2>a, TurnMore DEF x
  <2> HIDE DEF o, f
  <2>3. /\ DOMAIN d = CtlFields /\ d.out = o /\ d.gen = c.gen /\ d.stream = c.stream
        /\ d.inits = c.inits /\ d.waiting = c.waiting
        /\ Held(d) = Held(c) /\ d.throttle = c.throttle
    BY <2>1 DEF CtlOk, CtlFields, Held
  <2>4. Outbox(o, d)
    BY <2>2, <2>3 DEF Outbox, Under
  <2> QED BY <1>5, <2>3, <2>4, <2>a DEF CtlOk
<1>6. CASE call \in Complaints \cup {"error"}
  <2>1. d = [c EXCEPT !.failed = TRUE]
    BY <1>0, <1>6 DEF Called, Complaints
  <2>2. /\ DOMAIN d = CtlFields /\ d.out = c.out /\ d.gen = c.gen /\ d.stream = c.stream
        /\ d.inits = c.inits /\ d.waiting = c.waiting
        /\ Held(d) = Held(c) /\ d.throttle = c.throttle
    BY <2>1 DEF CtlOk, CtlFields, Held
  <2>3. Outbox(d.out, d)
    BY <2>2 DEF Outbox, Under, CtlOk
  <2>4. CtlOk(d) /\ (Speaks(c, w) => Speaks(d, w)) /\ (InTurn(c, w) => InTurn(d, w))
    BY <2>2, <2>3 DEF CtlOk, Speaks, InTurn, Under
  <2> QED BY <1>6, <2>2, <2>4 DEF Complaints
<1>7. \/ call \in {"full", "available", "updated", "startstreaming", "open", "close"}
      \/ call \in Complaints \cup {"error"}
  BY DEF Callbacks, Answers
<1> QED BY <1>1, <1>2, <1>3, <1>4, <1>5, <1>6, <1>7

\* The controller after each of the first k callbacks.
CallsMade(f, calls, c, ahead, k) ==
  f = [n \in 0..k |-> IF n = 0 THEN c ELSE Called(f[n - 1], calls[n], ahead)]

LEMMA CallsExist ==
  ASSUME NEW calls, NEW c, NEW ahead, NEW len \in Nat
  PROVE  \E f : CallsMade(f, calls, c, ahead, len)
<1> DEFINE Step(q, n) == Called(q, calls[n], ahead)
           base == c
           G == {k \in Nat : \E f : CallsMade(f, calls, c, ahead, k)}
<1>1. \A f, k : CallsMade(f, calls, c, ahead, k) <=>
                  f = [n \in 0..k |-> IF n = 0 THEN base ELSE Step(f[n - 1], n)]
  BY DEF CallsMade
<1> HIDE DEF Step, base
<1>2. 0 \in G
  <2> DEFINE f == [n \in 0..0 |-> base]
  <2>1. f = [n \in 0..0 |-> IF n = 0 THEN base ELSE Step(f[n - 1], n)]
    OBVIOUS
  <2> HIDE DEF f
  <2> QED BY <1>1, <2>1
<1>3. ASSUME NEW k \in Nat, k \in G PROVE k + 1 \in G
  <2>1. PICK f : f = [n \in 0..k |-> IF n = 0 THEN base ELSE Step(f[n - 1], n)]
    BY <1>1, <1>3
  <2>2. \A n \in 0..k : f[n] = IF n = 0 THEN base ELSE Step(f[n - 1], n)
    BY <2>1
  <2> DEFINE x == Step(f[k], k + 1)
  <2> HIDE DEF x
  <2> DEFINE g == [n \in 0..k+1 |-> IF n = k + 1 THEN x ELSE f[n]]
  <2>3. g = [n \in 0..k+1 |-> g[n]] /\ g[k+1] = x /\ \A n \in 0..k : g[n] = f[n]
    OBVIOUS
  <2> HIDE DEF g
  <2>4. ASSUME NEW n \in 0..k+1 PROVE g[n] = IF n = 0 THEN base ELSE Step(g[n - 1], n)
    <3>1. CASE n = k + 1
      <4>1. n - 1 = k /\ n # 0 /\ k \in 0..k
        BY <3>1
      <4> QED BY <2>3, <3>1, <4>1 DEF x
    <3>2. CASE n # k + 1 /\ n # 0
      <4>1. n \in 0..k /\ n - 1 \in 0..k
        BY <3>2
      <4> QED BY <2>2, <2>3, <3>2, <4>1
    <3>3. CASE n = 0
      <4>1. n \in 0..k
        BY <3>3
      <4> QED BY <2>2, <2>3, <3>3, <4>1
    <3> QED BY <3>1, <3>2, <3>3
  <2>5. g = [n \in 0..k+1 |-> IF n = 0 THEN base ELSE Step(g[n - 1], n)]
    BY <2>3, <2>4
  <2>6. CallsMade(g, calls, c, ahead, k + 1)
    BY <1>1, <2>5
  <2> QED BY <2>6
<1> HIDE DEF G
<1>4. len \in G
  BY <1>2, <1>3, Reaches
<1> QED BY <1>4 DEF G

LEMMA CallsReact ==
  ASSUME NEW c, CtlOk(c), NEW w, NEW ahead, NEW calls, NEW len \in Nat,
         \A i \in 1..len : calls[i] \in Callbacks,
         c.waiting => \A i \in 1..len : calls[i] \in Complaints \cup {"open"},
         NEW f, CallsMade(f, calls, c, ahead, len)
  PROVE  /\ CtlOk(f[len]) /\ f[len].gen = c.gen /\ (f[len].waiting => c.waiting)
         /\ f[len].stream = c.stream /\ f[len].inits = c.inits
         /\ InTurn(c, w) => InTurn(f[len], w)
         /\ (\A i \in 1..len : calls[i] # "close") /\ Speaks(c, w) => Speaks(f[len], w)
         /\ (\A i \in 1..len : calls[i] # "open") /\ c.waiting => f[len].waiting
         /\ (\E i \in 1..len : calls[i] = "open") => ~f[len].waiting
<1> DEFINE P(d, n) ==
             /\ CtlOk(d) /\ d.gen = c.gen /\ (d.waiting => c.waiting)
             /\ d.stream = c.stream /\ d.inits = c.inits /\ (InTurn(c, w) => InTurn(d, w))
             /\ (\A i \in 1..n : calls[i] # "close") /\ Speaks(c, w) => Speaks(d, w)
             /\ (\A i \in 1..n : calls[i] # "open") /\ c.waiting => d.waiting
             /\ (\E i \in 1..n : calls[i] = "open") => ~d.waiting
           G == {n \in 0..len : P(f[n], n)}
<1>1. \A n \in 0..len : f[n] = IF n = 0 THEN c ELSE Called(f[n - 1], calls[n], ahead)
  BY DEF CallsMade
<1>2. 0 \in G
  BY <1>1
<1>3. ASSUME NEW n \in 0..len-1, n \in G PROVE n + 1 \in G
  <2>1. n + 1 \in 0..len /\ n + 1 \in 1..len /\ (n + 1) - 1 = n /\ n + 1 # 0 /\ n + 1 \in 1..n+1
        /\ \A i \in 1..n : i \in 1..n+1 /\ i \in 1..len
    OBVIOUS
  <2>2. f[n + 1] = Called(f[n], calls[n + 1], ahead)
    BY <1>1, <2>1
  <2>3. P(f[n], n)
    BY <1>3
  <2> DEFINE e == f[n]
             d == f[n + 1]
  <2>4. /\ CtlOk(d) /\ d.gen = e.gen /\ (d.waiting => e.waiting)
        /\ d.stream = e.stream /\ d.inits = e.inits /\ (InTurn(e, w) => InTurn(d, w))
        /\ calls[n + 1] # "close" /\ Speaks(e, w) => Speaks(d, w)
        /\ calls[n + 1] # "open" /\ e.waiting => d.waiting
        /\ calls[n + 1] = "open" => ~d.waiting
    <3>1. CtlOk(e) /\ calls[n + 1] \in Callbacks /\ (e.waiting => calls[n + 1] \in Complaints \cup {"open"})
      BY <2>1, <2>3
    <3>2. d = Called(e, calls[n + 1], ahead)
      BY <2>2
    <3> HIDE DEF d, e
    <3> QED BY <3>1, <3>2, CalledReacts
  <2>5. \A i \in 1..n+1 : i = n + 1 \/ i \in 1..n
    OBVIOUS
  <2>6. P(d, n + 1)
    <3> HIDE DEF d
    <3> QED BY <2>1, <2>3, <2>4, <2>5 DEF e
  <2> QED BY <2>1, <2>6
<1>4. P(f[len], len)
  <2>1. len \in G
    <3> HIDE DEF G
    <3> QED BY <1>2, <1>3, Reaches
  <2> QED BY <2>1
<1> QED BY <1>4

\* What an operation leaves in the controller, when it has called back a's and what
\* the player calls.
LEMMA LeavesReact ==
  ASSUME NEW m, NEW c, NEW cur, Leaves(m, c, cur), CtlOk(c), NEW w,
         m.calls \in Seq(Callbacks),
         c.waiting => \A i \in 1..Len(m.calls) : m.calls[i] = "open"
  PROVE  /\ mse' = [m EXCEPT !.calls = <<>>]
         /\ CtlOk(ctl') /\ ctl'.gen = c.gen /\ (ctl'.waiting => c.waiting)
         /\ ctl'.stream = c.stream /\ ctl'.inits = c.inits
         /\ InTurn(c, w) => InTurn(ctl', w)
         /\ (\A i \in 1..Len(m.calls) : m.calls[i] # "close") /\ Speaks(c, w) => Speaks(ctl', w)
         /\ (\A i \in 1..Len(m.calls) : m.calls[i] # "open") /\ c.waiting => ctl'.waiting
         /\ (\E i \in 1..Len(m.calls) : m.calls[i] = "open") => ~ctl'.waiting
<1>1. PICK p : Complains(p.calls) /\ Becomes(m, p, c, cur)
  BY DEF Leaves
<1> DEFINE a == Len(m.calls)
           calls == m.calls \o p.calls
           len == Len(calls)
           ahead == Ahead(m, cur)
           f == CHOOSE g : CallsMade(g, calls, c, ahead, len)
<1>2. mse' = [m EXCEPT !.calls = <<>>] /\ ctl' = f[len]
  BY <1>1 DEF Becomes, CallsMade
<1>3. /\ a \in Nat /\ len \in Nat /\ a <= len
      /\ \A i \in 1..a : i \in 1..len /\ calls[i] = m.calls[i]
      /\ \A i \in 1..len : i \in 1..a \/ calls[i] \in Complaints
  <2>1. PICK b \in Nat : /\ b = Len(p.calls) /\ p.calls \in Seq(Complaints)
                         /\ \A i \in 1..b : p.calls[i] \in Complaints
    BY <1>1 DEF Complains
  <2>2. a \in Nat /\ len = a + b
    BY <2>1
  <2>3. \A i \in 1..len : calls[i] = IF i <= a THEN m.calls[i] ELSE p.calls[i - a]
    BY <2>1, <2>2
  <2> HIDE DEF len, calls, a
  <2>4. \A i \in 1..len : i \in 1..a \/ (~(i <= a) /\ i - a \in 1..b)
    BY <2>1, <2>2
  <2>5. a <= len /\ len \in Nat /\ \A i \in 1..a : i \in 1..len /\ i <= a
    BY <2>1, <2>2
  <2>6. \A i \in 1..len : i \in 1..a \/ calls[i] \in Complaints
    BY <2>1, <2>3, <2>4
  <2> QED BY <2>2, <2>3, <2>5, <2>6
<1>4. \A i \in 1..a : m.calls[i] \in Callbacks
  OBVIOUS
<1> HIDE DEF calls, len, ahead, a
<1>5. CallsMade(f, calls, c, ahead, len)
  BY <1>3, CallsExist
<1> HIDE DEF f
<1>6. "open" \notin Complaints /\ "close" \notin Complaints /\ Complaints \subseteq Callbacks
  BY DEF Complaints, Callbacks
<1>7. /\ \A i \in 1..len : calls[i] \in Callbacks
      /\ c.waiting => \A i \in 1..len : calls[i] \in Complaints \cup {"open"}
  BY <1>3, <1>4, <1>6 DEF a
<1>8. /\ CtlOk(f[len]) /\ f[len].gen = c.gen /\ (f[len].waiting => c.waiting)
      /\ f[len].stream = c.stream /\ f[len].inits = c.inits
      /\ InTurn(c, w) => InTurn(f[len], w)
      /\ (\A i \in 1..len : calls[i] # "close") /\ Speaks(c, w) => Speaks(f[len], w)
      /\ (\A i \in 1..len : calls[i] # "open") /\ c.waiting => f[len].waiting
      /\ (\E i \in 1..len : calls[i] = "open") => ~f[len].waiting
  BY <1>3, <1>5, <1>7, CallsReact
<1> QED BY <1>2, <1>3, <1>6, <1>8 DEF a

\* A controller changed in what its commands do not depend on.
LEMMA LikeReacts ==
  ASSUME NEW c, CtlOk(c), NEW d, DOMAIN d = CtlFields, Inits(d.inits), NEW w,
         d.gen = c.gen, d.out = c.out, d.stream = c.stream, d.waiting = c.waiting,
         d.watermark = c.watermark, d.bufferFull = c.bufferFull, d.waiting => ~d.throttle
  PROVE  Reacts(c, d, w)
<1>1. Held(d) = Held(c)
  BY DEF Held
<1>2. Outbox(d.out, d)
  BY DEF CtlOk, Outbox, Under
<1>3. InTurn(c, w) => InTurn(d, w)
  BY DEF InTurn, Under
<1> QED BY <1>1, <1>2, <1>3 DEF Reacts, CtlOk, Speaks

WorkerFields == {"up", "gen", "stream", "next", "paused"}

WorkerOk(w, c) ==
  DOMAIN w = WorkerFields /\ Under(w.gen, c) /\ StreamOk(w.stream) /\ w.next \in Nat /\ w.next > 0

\* The messages s under way to the controller c.
Delivered(s, c) ==
  /\ \E S : s \in Seq(S)
  /\ \A i \in 1..Len(s) : Under(s[i].gen, c) /\ MessageOk(s[i].msg)

\* What makes it inductive.
FlagsIInv ==
  /\ MediaKept(mse) /\ mse.calls = <<>>
  /\ CtlOk(ctl) /\ WorkerOk(worker, ctl) /\ Delivered(inbox, ctl)
  /\ ctl.waiting => Fresh(mse)
  /\ ~mse.dead => (mse.ready = "closed" <=> ctl.waiting) /\ Speaks(ctl, worker)

\* Asked for once, asked for later.
LEMMA UnderStill ==
  ASSUME NEW c, NEW d, d.gen = c.gen, d.waiting => c.waiting
  PROVE  /\ \A g : Under(g, c) => Under(g, d)
         /\ WorkerOk(worker, c) => WorkerOk(worker, d)
         /\ \A s : Delivered(s, c) => Delivered(s, d)
<1>1. \A g : Under(g, c) => Under(g, d)
  BY DEF Under
<1> QED BY <1>1 DEF WorkerOk, Delivered

\* An operation on the attached MediaSource.
LEMMA GrowsFlags ==
  ASSUME FlagsIInv, NEW m, Grows(mse, m), ctl.waiting => m.calls = <<>> /\ Fresh(m),
         NEW c, Reacts(ctl, c, worker), (c.waiting <=> ctl.waiting),
         NEW cur, Leaves(m, c, cur),
         UNCHANGED worker, Delivered(inbox', ctl)
  PROVE  FlagsIInv'
<1>1. /\ m.calls \in Seq(Callbacks)
      /\ \A i \in 1..Len(m.calls) : m.calls[i] # "open" /\ m.calls[i] # "close"
      /\ c.waiting => Len(m.calls) = 0
  <2>1. m.calls \in Seq(Answers)
    BY DEF Grows, MediaKept
  <2>2. \A i \in 1..Len(m.calls) : m.calls[i] \in Answers
    BY <2>1
  <2>3. "open" \notin Answers /\ "close" \notin Answers /\ Answers \subseteq Callbacks
    BY DEF Answers, Callbacks
  <2>4. m.calls \in Seq(Callbacks)
    BY <2>1, <2>3
  <2>5. Len(<<>>) = 0
    OBVIOUS
  <2> QED BY <2>2, <2>3, <2>4, <2>5
<1>2. /\ mse' = [m EXCEPT !.calls = <<>>]
      /\ CtlOk(ctl') /\ ctl'.gen = c.gen /\ (ctl'.waiting <=> c.waiting)
      /\ Speaks(c, worker) => Speaks(ctl', worker)
  <2>1. CtlOk(c) /\ \A i \in 1..0 : FALSE
    BY DEF Reacts
  <2>2. c.waiting => \A i \in 1..Len(m.calls) : m.calls[i] = "open"
    BY <1>1, <2>1
  <2> QED BY <1>1, <2>1, <2>2, LeavesReact
<1>3. MediaKept(mse') /\ mse'.calls = <<>> /\ mse'.dead = m.dead /\ mse'.ready = m.ready
      /\ (Fresh(m) => Fresh(mse'))
  BY <1>2 DEF Grows, MediaKept, MediaFields, Fresh
<1>4. ctl'.gen = ctl.gen /\ (ctl'.waiting <=> ctl.waiting)
  BY <1>2 DEF Reacts
<1>5. WorkerOk(worker', ctl') /\ Delivered(inbox', ctl')
  BY <1>4, UnderStill DEF FlagsIInv
<1>6. ~m.dead => Speaks(ctl', worker')
  BY <1>2 DEF FlagsIInv, Reacts, Grows
<1> QED BY <1>2, <1>3, <1>4, <1>5, <1>6 DEF FlagsIInv, Grows

\* Nothing has changed the MediaSource.
LEMMA CtlFlags ==
  ASSUME FlagsIInv, NEW c, Reacts(ctl, c, worker), (c.waiting <=> ctl.waiting), NEW cur, Leaves(mse, c, cur),
         UNCHANGED <<worker, inbox>>
  PROVE  FlagsIInv'
<1>1. Grows(mse, mse)
  BY DEF FlagsIInv, Grows
<1> QED BY <1>1, GrowsFlags DEF FlagsIInv

LEMMA OpenFlags ==
  ASSUME FlagsIInv, SourceOpen, Leaves(onSourceOpen(mse, video.cur), ctl, video.cur)
  PROVE  FlagsIInv'
<1> DEFINE m == onSourceOpen(mse, video.cur)
<1>1. Fresh(mse) /\ ctl.waiting /\ UNCHANGED <<worker, inbox>>
  BY DEF FlagsIInv, SourceOpen
<1>2. MediaKept([m EXCEPT !.calls = <<>>]) /\ ~m.dead /\ m.ready = "open" /\ m.calls = <<"open">>
  BY <1>1, OpenKept DEF FlagsIInv
<1>3. Leaves(m, ctl, video.cur)
  OBVIOUS
<1> HIDE DEF m
<1>4. /\ m.calls \in Seq(Callbacks) /\ Len(m.calls) = 1 /\ m.calls[1] = "open"
      /\ \A i \in 1..1 : i = 1
  <2>1. "open" \in Callbacks
    BY DEF Callbacks
  <2> QED BY <1>2, <2>1
<1>5. /\ mse' = [m EXCEPT !.calls = <<>>]
      /\ CtlOk(ctl') /\ ctl'.gen = ctl.gen /\ ~ctl'.waiting
      /\ Speaks(ctl, worker) => Speaks(ctl', worker)
  <2>1. CtlOk(ctl) /\ 1 \in 1..1
    BY DEF FlagsIInv
  <2>2. \A i \in 1..Len(m.calls) : m.calls[i] = "open" /\ m.calls[i] # "close"
    BY <1>4
  <2> QED BY <1>3, <1>4, <2>1, <2>2, LeavesReact
<1>6. /\ DOMAIN mse' = MediaFields => mse'.dead = m.dead /\ mse'.ready = m.ready
      /\ mse'.calls = <<>>
  <2>1. DOMAIN mse' = DOMAIN m /\ DOMAIN m = MediaFields
    BY <1>2, <1>5 DEF MediaKept
  <2> QED BY <1>5, <2>1 DEF MediaFields
<1>7. MediaKept(mse') /\ ~mse'.dead /\ mse'.ready = "open"
  BY <1>2, <1>5, <1>6 DEF MediaKept
<1>8. WorkerOk(worker', ctl') /\ Delivered(inbox', ctl')
  BY <1>1, <1>5, UnderStill DEF FlagsIInv
<1>9. Speaks(ctl', worker')
  BY <1>1, <1>5 DEF FlagsIInv, Speaks
<1> QED BY <1>5, <1>6, <1>7, <1>8, <1>9 DEF FlagsIInv

LEMMA CloseFlags ==
  ASSUME FlagsIInv, SourceClose, Leaves(onSourceClose(mse), ctl, video.cur)
  PROVE  FlagsIInv'
<1> DEFINE m == onSourceClose(mse)
<1>1. ~ctl.waiting /\ UNCHANGED <<worker, inbox>>
  BY DEF FlagsIInv, SourceClose, Fresh
<1>2. MediaKept([m EXCEPT !.calls = <<>>]) /\ m.dead /\ m.calls = <<"close">>
  BY CloseKept DEF FlagsIInv
<1>3. Leaves(m, ctl, video.cur)
  OBVIOUS
<1> HIDE DEF m
<1>4. m.calls \in Seq(Callbacks)
  <2>1. "close" \in Callbacks
    BY DEF Callbacks
  <2> QED BY <1>2, <2>1
<1>5. mse' = [m EXCEPT !.calls = <<>>] /\ CtlOk(ctl') /\ ctl'.gen = ctl.gen /\ ~ctl'.waiting
  BY <1>1, <1>3, <1>4, LeavesReact DEF FlagsIInv
<1>6. mse'.dead /\ mse'.calls = <<>>
  <2>1. DOMAIN m = MediaFields
    BY <1>2 DEF MediaKept
  <2> QED BY <1>2, <1>5, <2>1 DEF MediaFields
<1>7. WorkerOk(worker', ctl') /\ Delivered(inbox', ctl')
  BY <1>1, <1>5, UnderStill DEF FlagsIInv
<1> QED BY <1>2, <1>5, <1>6, <1>7 DEF FlagsIInv
\* The buffers with the first k of some init segments appended.
Appends(f, m, inits, cur, k) ==
  f = [n \in 0..k |-> IF n = 0 THEN m ELSE appendInit(f[n - 1], inits[n].track, inits[n].codec, cur)]

LEMMA AppendsExist ==
  ASSUME NEW m, NEW inits, NEW cur, NEW len \in Nat
  PROVE  \E f : Appends(f, m, inits, cur, len)
<1> DEFINE Step(q, n) == appendInit(q, inits[n].track, inits[n].codec, cur)
           base == m
           G == {k \in Nat : \E f : Appends(f, m, inits, cur, k)}
<1>1. \A f, k : Appends(f, m, inits, cur, k) <=> f = [n \in 0..k |-> IF n = 0 THEN base ELSE Step(f[n - 1], n)]
  BY DEF Appends
<1> HIDE DEF Step, base
<1>2. 0 \in G
  <2> DEFINE f == [n \in 0..0 |-> base]
  <2>1. f = [n \in 0..0 |-> IF n = 0 THEN base ELSE Step(f[n - 1], n)]
    OBVIOUS
  <2> HIDE DEF f
  <2> QED BY <1>1, <2>1
<1>3. ASSUME NEW k \in Nat, k \in G PROVE k + 1 \in G
  <2>1. PICK f : f = [n \in 0..k |-> IF n = 0 THEN base ELSE Step(f[n - 1], n)]
    BY <1>1, <1>3
  <2>2. \A n \in 0..k : f[n] = IF n = 0 THEN base ELSE Step(f[n - 1], n)
    BY <2>1
  <2> DEFINE x == Step(f[k], k + 1)
  <2> HIDE DEF x
  <2> DEFINE g == [n \in 0..k+1 |-> IF n = k + 1 THEN x ELSE f[n]]
  <2>3. g = [n \in 0..k+1 |-> g[n]] /\ g[k+1] = x /\ \A n \in 0..k : g[n] = f[n]
    OBVIOUS
  <2> HIDE DEF g
  <2>4. ASSUME NEW n \in 0..k+1 PROVE g[n] = IF n = 0 THEN base ELSE Step(g[n - 1], n)
    <3>1. CASE n = k + 1
      <4>1. n - 1 = k /\ n # 0 /\ k \in 0..k
        BY <3>1
      <4> QED BY <2>3, <3>1, <4>1 DEF x
    <3>2. CASE n # k + 1 /\ n # 0
      <4>1. n \in 0..k /\ n - 1 \in 0..k
        BY <3>2
      <4> QED BY <2>2, <2>3, <3>2, <4>1
    <3>3. CASE n = 0
      <4>1. n \in 0..k
        BY <3>3
      <4> QED BY <2>2, <2>3, <3>3, <4>1
    <3> QED BY <3>1, <3>2, <3>3
  <2>5. g = [n \in 0..k+1 |-> IF n = 0 THEN base ELSE Step(g[n - 1], n)]
    BY <2>3, <2>4
  <2>6. Appends(g, m, inits, cur, k + 1)
    BY <1>1, <2>5
  <2> QED BY <2>6
<1> HIDE DEF G
<1>4. len \in G
  BY <1>2, <1>3, Reaches
<1> QED BY <1>4 DEF G

LEMMA FlushedGrows ==
  ASSUME NEW m, MediaKept(m), NEW inits, Inits(inits)
  PROVE  Grows(m, flushPendingInits(m, inits))
<1> DEFINE len == Len(inits)
           f == CHOOSE g : Appends(g, m, inits, video.cur, len)
<1>1. flushPendingInits(m, inits) = f[len]
  BY DEF flushPendingInits, Appends
<1>2. len \in Nat /\ \A i \in 1..len : inits[i].track \in Tracks
  BY DEF Inits
<1> HIDE DEF len
<1>3. Appends(f, m, inits, video.cur, len)
  BY <1>2, AppendsExist
<1> HIDE DEF f
<1>4. \A n \in 0..len :
        f[n] = IF n = 0 THEN m ELSE appendInit(f[n - 1], inits[n].track, inits[n].codec, video.cur)
  BY <1>3 DEF Appends
<1> DEFINE G == {n \in 0..len : Grows(m, f[n])}
<1>5. 0 \in G
  <2>1. f[0] = m
    BY <1>2, <1>4
  <2> QED BY <1>2, <2>1 DEF Grows
<1>6. ASSUME NEW n \in 0..len-1, n \in G PROVE n + 1 \in G
  <2>1. n + 1 \in 0..len /\ n + 1 \in 1..len /\ (n + 1) - 1 = n /\ n + 1 # 0
    BY <1>2
  <2>2. f[n + 1] = appendInit(f[n], inits[n + 1].track, inits[n + 1].codec, video.cur)
    BY <1>4, <2>1
  <2>3. inits[n + 1].track \in Tracks
    BY <1>2, <2>1
  <2>4. Grows(f[n], f[n + 1]) /\ Grows(m, f[n])
    BY <1>6, <2>2, <2>3, InitGrows DEF Grows
  <2> QED BY <2>1, <2>4 DEF Grows
<1>7. Grows(m, f[len])
  <2>1. len \in G
    <3> HIDE DEF G
    <3> QED BY <1>2, <1>5, <1>6, Reaches
  <2> QED BY <2>1
<1> QED BY <1>1, <1>7

LEMMA TailDelivered ==
  ASSUME NEW c, Delivered(inbox, c), inbox # <<>>
  PROVE  /\ Delivered(Tail(inbox), c)
         /\ Under(Head(inbox).gen, c) /\ MessageOk(Head(inbox).msg)
<1>1. PICK S : inbox \in Seq(S)
  BY DEF Delivered
<1>2. /\ Len(inbox) \in Nat /\ 1 \in 1..Len(inbox) /\ Head(inbox) = inbox[1]
      /\ Tail(inbox) \in Seq(S) /\ Len(Tail(inbox)) = Len(inbox) - 1
      /\ \A i \in 1..Len(inbox) - 1 : Tail(inbox)[i] = inbox[i + 1] /\ i + 1 \in 1..Len(inbox)
  BY <1>1
<1> QED BY <1>2 DEF Delivered

\* The buffers once what waits for the message has been appended, what a message may have
\* done to them after that, and whether the controller d holds the init segments that then wait.
Flushed(msg) == IF Holds(msg) THEN mse ELSE flushPendingInits(mse, ctl.inits)
Operated(m, n, msg) ==
  \/ n = m \/ n = endOfStream(m) \/ n = setDuration(m)
  \/ msg.kind = "media" /\ n = appendMedia(m, msg.track, msg.codec, video.cur)
Waits(d, msg) ==
  \/ IsInit(msg) /\ d.inits = Append(ctl.inits, msg)
  \/ ~IsInit(msg) /\ d.inits = IF Holds(msg) THEN ctl.inits ELSE <<>>

LEMMA MessageLeaves ==
  ASSUME SlowIInv, FlagsIInv, handleWorkerMessage
  PROVE  LET gen == Head(inbox).gen
             msg == Head(inbox).msg IN
         /\ inbox # <<>> /\ inbox' = Tail(inbox) /\ UNCHANGED worker /\ Delivered(inbox', ctl)
         /\ \/ UNCHANGED <<mse, ctl>> /\ gen # ctl.gen
            \/ /\ gen = ctl.gen /\ ~ctl.waiting
               /\ \E n, d : /\ Operated(Flushed(msg), n, msg) /\ Grows(mse, n)
                            /\ Reacts(ctl, d, worker) /\ ~d.waiting /\ Waits(d, msg)
                            /\ Leaves(n, d, video.cur)
<1> DEFINE gen == Head(inbox).gen
           msg == Head(inbox).msg
           m == IF Holds(msg) THEN mse ELSE flushPendingInits(mse, ctl.inits)
           c == IF Holds(msg) THEN ctl ELSE [ctl EXCEPT !.inits = <<>>]
           ci == [c EXCEPT !.inits = Append(@, msg)]
           ce == [c EXCEPT !.failed = TRUE]
           cl == [c EXCEPT !.mode = "hls"]
           cv == [c EXCEPT !.mode = "vod", !.throttle = TRUE]
           cu == updateFetchBackpressure(cv, Ahead(m, video.cur))
           cur == video.cur
<1>1. /\ Delivered(inbox', ctl) /\ Under(gen, ctl) /\ MessageOk(msg)
      /\ inbox # <<>> /\ inbox' = Tail(inbox) /\ UNCHANGED worker
  <2>1. inbox # <<>> /\ inbox' = Tail(inbox) /\ UNCHANGED worker
    BY DEF handleWorkerMessage
  <2> QED BY <2>1, TailDelivered DEF FlagsIInv
<1>2. c.inits = IF Holds(msg) THEN ctl.inits ELSE <<>>
  BY DEF FlagsIInv, CtlOk, CtlFields
<1>3. ASSUME gen = ctl.gen
      PROVE  ~ctl.waiting /\ CtlOk(ctl) /\ Grows(mse, m)
  <2>1. Grows(mse, flushPendingInits(mse, ctl.inits)) /\ Grows(mse, mse)
    BY FlushedGrows DEF FlagsIInv, CtlOk, Grows
  <2> QED BY <1>1, <1>3, <2>1 DEF Under, FlagsIInv
<1>4. ASSUME gen = ctl.gen PROVE Reacts(ctl, c, worker) /\ ~c.waiting
  <2>1. CASE Holds(msg)
    BY <1>3, <1>4, <2>1, SameReacts
  <2>2. CASE ~Holds(msg)
    <3> DEFINE none == <<>>
               d == [ctl EXCEPT !.inits = none]
    <3>1. c = d /\ Inits(none)
      BY <2>2, NoInits
    <3> HIDE DEF c, none
    <3>2. /\ DOMAIN d = CtlFields /\ d.inits = none /\ d.gen = ctl.gen /\ d.out = ctl.out
          /\ d.stream = ctl.stream /\ d.waiting = ctl.waiting
          /\ d.watermark = ctl.watermark /\ d.bufferFull = ctl.bufferFull
      BY <1>3, <1>4 DEF CtlOk, CtlFields
    <3> HIDE DEF d
    <3> QED BY <1>3, <1>4, <3>1, <3>2, LikeReacts
  <2> QED BY <2>1, <2>2
<1>5. ASSUME gen = ctl.gen
      PROVE  /\ IsInit(msg) => Waits(ci, msg)
             /\ ~IsInit(msg) => Waits(c, msg) /\ Waits(ce, msg) /\ Waits(cl, msg) /\ Waits(cu, msg)
  <2>1. DOMAIN c = CtlFields
    BY <1>4, <1>5 DEF Reacts, CtlOk
  <2> HIDE DEF c, msg, m
  <2> DEFINE i == Append(c.inits, msg)
  <2> HIDE DEF i
  <2>2. /\ [c EXCEPT !.inits = i].inits = i /\ ce.inits = c.inits /\ cl.inits = c.inits
        /\ cv.inits = c.inits /\ DOMAIN cv = CtlFields
    BY <2>1 DEF CtlFields
  <2>3. ci.inits = Append(c.inits, msg)
    BY <2>2 DEF i
  <2>4. cu.inits = c.inits
    <3> HIDE DEF cv
    <3> QED BY <2>2, UpdateInits
  <2>5. IsInit(msg) => Holds(msg)
    BY DEF IsInit, Holds
  <2> HIDE DEF ci, ce, cl, cv, cu
  <2> QED BY <1>2, <2>2, <2>3, <2>4, <2>5 DEF Waits
<1>6. ASSUME NEW n, NEW d, Becomes(n, pcm, d, cur) PROVE Leaves(n, d, cur)
  BY <1>6 DEF SlowIInv, SlowKept, Leaves
<1>7. ASSUME NEW n, NEW d, NEW at, Becomes(n, Fed1(at), d, cur) PROVE Leaves(n, d, cur)
  BY <1>7, FedKept, LeavesIs
<1>8. ASSUME gen = ctl.gen
      PROVE  /\ msg.kind = "init" => Reacts(ctl, ci, worker) /\ ~ci.waiting
             /\ Reacts(ctl, ce, worker) /\ ~ce.waiting
             /\ Reacts(ctl, cl, worker) /\ ~cl.waiting
             /\ Reacts(c, cv, worker) /\ ~cv.waiting
  <2>1. CtlOk(c) /\ ~c.waiting /\ Inits(c.inits)
    BY <1>4, <1>8 DEF Reacts, CtlOk
  <2>2. msg.kind = "init" => Inits(Append(c.inits, msg))
    BY <1>1, <2>1, InitsMore DEF MessageOk
  <2> HIDE DEF c, msg
  <2> DEFINE i == Append(c.inits, msg)
  <2> HIDE DEF i
  <2>3. \A d \in {[c EXCEPT !.inits = i], ce, cl, cv} :
          /\ DOMAIN d = CtlFields /\ d.gen = c.gen /\ d.out = c.out
          /\ d.stream = c.stream /\ d.waiting = c.waiting
          /\ d.watermark = c.watermark /\ d.bufferFull = c.bufferFull
    BY <2>1 DEF CtlOk, CtlFields
  <2>4. [c EXCEPT !.inits = i].inits = i /\ ce.inits = c.inits /\ cl.inits = c.inits /\ cv.inits = c.inits
    BY <2>1 DEF CtlOk, CtlFields
  <2>5. ci = [c EXCEPT !.inits = i]
    BY DEF i
  <2> HIDE DEF ci, ce, cl, cv
  <2>6. msg.kind = "init" => Reacts(c, ci, worker) /\ ~ci.waiting
    BY <2>1, <2>2, <2>3, <2>4, <2>5, LikeReacts DEF i
  <2>7. /\ Reacts(c, ce, worker) /\ ~ce.waiting
        /\ Reacts(c, cl, worker) /\ ~cl.waiting
        /\ Reacts(c, cv, worker) /\ ~cv.waiting
    BY <2>1, <2>3, <2>4, LikeReacts
  <2> QED BY <1>4, <1>8, <2>6, <2>7 DEF Reacts
<1>9. ASSUME gen = ctl.gen PROVE Reacts(ctl, cu, worker) /\ ~cu.waiting
  <2>1. CtlOk(cv) /\ ~cv.waiting
    BY <1>8, <1>9 DEF Reacts
  <2>2. Reacts(cv, cu, worker)
    <3> HIDE DEF cv, m
    <3> QED BY <2>1, UpdateReacts
  <2> HIDE DEF cu, cv, c
  <2> QED BY <1>4, <1>8, <1>9, <2>1, <2>2 DEF Reacts
<1>10. \/ UNCHANGED <<mse, ctl>> /\ gen # ctl.gen
       \/ /\ gen = ctl.gen
          /\ \/ msg.kind = "init" /\ Leaves(m, ci, cur)
             \/ /\ ~IsInit(msg)
                /\ \/ Leaves(m, c, cur)
                   \/ msg.kind = "media" /\ Leaves(appendMedia(m, msg.track, msg.codec, cur), c, cur)
                   \/ Leaves(m, ce, cur)
                   \/ Leaves(endOfStream(m), c, cur)
                   \/ Leaves(setDuration(m), cl, cur)
                   \/ Leaves(setDuration(m), cu, cur)
  <2>1. \/ UNCHANGED <<mse, ctl>> /\ gen # ctl.gen
        \/ /\ gen = ctl.gen
           /\ \/ msg.kind = "init" /\ Becomes(m, pcm, ci, cur)
              \/ msg.kind = "info" /\ Becomes(m, pcm, c, cur)
              \/ msg.kind = "media" /\ Becomes(appendMedia(m, msg.track, msg.codec, cur), pcm, c, cur)
              \/ msg.kind = "error" /\ Becomes(m, pcm, ce, cur)
              \/ msg.kind = "complete" /\ Becomes(endOfStream(m), pcm, c, cur)
              \/ msg.kind = "hls-live" /\ Becomes(setDuration(m), pcm, cl, cur)
              \/ msg.kind = "hls-vod" /\ Becomes(setDuration(m), pcm, cu, cur)
              \/ msg.kind = "pcm" /\ Becomes(m, Fed1(msg.at), c, cur)
    BY Zenon DEF handleWorkerMessage, Fed1
  <2> HIDE DEF gen, msg, m, ci, c, ce, cl, cu, cur
  <2>2. \A k \in {"info", "media", "error", "complete", "hls-live", "hls-vod", "pcm"} :
          msg.kind = k => ~IsInit(msg)
    BY DEF IsInit
  <2> QED BY <1>6, <1>7, <2>1, <2>2
<1>11. ASSUME gen = ctl.gen
       PROVE  /\ msg.kind = "media" => Grows(mse, appendMedia(m, msg.track, msg.codec, cur))
              /\ Grows(mse, endOfStream(m)) /\ Grows(mse, setDuration(m))
  <2>1. MediaKept(m) /\ Grows(mse, m)
    BY <1>3, <1>11 DEF Grows
  <2>2. msg.kind = "media" => msg.track \in Tracks
    BY <1>1 DEF MessageOk
  <2> HIDE DEF m, msg, cur
  <2>3. Grows(m, endOfStream(m)) /\ Grows(m, setDuration(m))
    BY <2>1, EndGrows, DurationGrows
  <2>4. msg.kind = "media" => Grows(m, appendMedia(m, msg.track, msg.codec, cur))
    BY <2>1, <2>2, MediaGrows
  <2> QED BY <2>1, <2>3, <2>4 DEF Grows
<1>12. /\ m = Flushed(msg) /\ Operated(m, m, msg) /\ Operated(m, endOfStream(m), msg)
       /\ Operated(m, setDuration(m), msg)
       /\ msg.kind = "media" => Operated(m, appendMedia(m, msg.track, msg.codec, cur), msg)
  BY DEF Flushed, Operated
<1> DEFINE Right(n, d) == /\ Operated(m, n, msg) /\ Grows(mse, n)
                          /\ Reacts(ctl, d, worker) /\ ~d.waiting /\ Waits(d, msg)
<1> HIDE DEF gen, msg, m, ci, c, ce, cl, cv, cu
<1>13. ASSUME gen = ctl.gen
       PROVE  /\ ~ctl.waiting
              /\ msg.kind = "init" => Right(m, ci)
              /\ ~IsInit(msg) =>
                   /\ Right(m, c) /\ Right(m, ce)
                   /\ msg.kind = "media" => Right(appendMedia(m, msg.track, msg.codec, cur), c)
                   /\ Right(endOfStream(m), c) /\ Right(setDuration(m), cl) /\ Right(setDuration(m), cu)
  <2>1. /\ ~ctl.waiting /\ Grows(mse, m) /\ Reacts(ctl, c, worker) /\ ~c.waiting
        /\ Reacts(ctl, cu, worker) /\ ~cu.waiting
    BY <1>3, <1>4, <1>9, <1>13
  <2> QED BY <1>5, <1>8, <1>11, <1>12, <1>13, <2>1 DEF IsInit
<1>14. ASSUME gen = ctl.gen
       PROVE  ~ctl.waiting /\ \E n, d : Right(n, d) /\ Leaves(n, d, cur)
  <2> HIDE DEF Right
  <2> QED BY <1>10, <1>13, <1>14
<1> QED BY <1>1, <1>10, <1>12, <1>14 DEF gen, msg

LEMMA MessageFlags ==
  ASSUME SlowIInv, FlagsIInv, handleWorkerMessage
  PROVE  FlagsIInv'
<1>1. UNCHANGED worker /\ Delivered(inbox', ctl)
  BY MessageLeaves
<1>2. CASE UNCHANGED <<mse, ctl>>
  BY <1>1, <1>2 DEF FlagsIInv
<1>3. CASE ~ctl.waiting /\ \E n, d, cur : /\ Grows(mse, n) /\ Reacts(ctl, d, worker) /\ ~d.waiting
                                          /\ Leaves(n, d, cur)
  BY <1>1, <1>3, GrowsFlags
<1> QED BY <1>2, <1>3, MessageLeaves

LEMMA SourceFlags ==
  ASSUME SlowIInv, FlagsIInv,
         SourceOpen \/ SourceClose \/ StartStreaming \/ EndStreaming \/ \E t \in Tracks : UpdateEnd(t)
  PROVE  FlagsIInv'
<1>1. ASSUME NEW m, NEW cur, Becomes(m, pcm, ctl, cur) PROVE Leaves(m, ctl, cur)
  BY <1>1 DEF SlowIInv, SlowKept, Leaves
<1>2. Reacts(ctl, ctl, worker)
  BY SameReacts DEF FlagsIInv
<1>3. CASE SourceOpen
  BY <1>1, <1>3, OpenFlags DEF SourceOpen
<1>4. CASE SourceClose
  BY <1>1, <1>4, CloseFlags DEF SourceClose
<1>5. CASE StartStreaming
  <2> DEFINE m == onStartStreaming(mse, video.cur)
  <2>1. ~ctl.waiting /\ UNCHANGED <<worker, inbox>> /\ Becomes(m, pcm, ctl, video.cur)
    BY <1>5 DEF FlagsIInv, StartStreaming, Fresh
  <2>2. Grows(mse, m)
    BY StreamingGrows DEF FlagsIInv
  <2>3. Delivered(inbox', ctl)
    BY <2>1 DEF FlagsIInv
  <2> HIDE DEF m
  <2> QED BY <1>1, <1>2, <2>1, <2>2, <2>3, GrowsFlags
<1>6. CASE \E t \in Tracks : UpdateEnd(t)
  <2> PICK t \in Tracks : UpdateEnd(t)
    BY <1>6
  <2> DEFINE m == onSourceBufferUpdateEnd(mse, t, video.cur)
  <2>1. ~ctl.waiting /\ UNCHANGED <<worker, inbox>> /\ Becomes(m, pcm, ctl, video.cur)
    BY DEF FlagsIInv, UpdateEnd, Fresh
  <2>2. Grows(mse, m)
    BY UpdateEndGrows DEF FlagsIInv
  <2>3. Delivered(inbox', ctl)
    BY <2>1 DEF FlagsIInv
  <2> HIDE DEF m
  <2> QED BY <1>1, <1>2, <2>1, <2>2, <2>3, GrowsFlags
<1>7. CASE EndStreaming
  <2>1. ~ctl.waiting /\ UNCHANGED <<worker, inbox, ctl>> /\ mse' = onEndStreaming(mse)
    BY <1>7 DEF FlagsIInv, EndStreaming, Fresh
  <2>2. Grows(mse, mse') /\ mse'.calls = <<>>
    BY <2>1, EndStreamingGrows DEF FlagsIInv, onEndStreaming, MediaKept, MediaFields
  <2> QED BY <2>1, <2>2 DEF FlagsIInv, Grows
<1> QED BY <1>3, <1>4, <1>5, <1>6, <1>7

LEMMA FinishFlags ==
  ASSUME FlagsIInv, NEW t \in Tracks, Finish(t)
  PROVE  FlagsIInv'
<1>1. MediaKept(mse) /\ mse' = Finished(mse, t) /\ UNCHANGED <<worker, inbox>> /\ Updating(mse, t)
  BY DEF FlagsIInv, Finish
<1>2. Grows(mse, mse')
  BY <1>1, FinishedGrows
<1>3. mse'.calls = <<>>
  <2> DEFINE d == mse.due \cup {t}
             n == [mse EXCEPT !.doing[t] = Idle, !.due = d]
  <2>1. n.calls = <<>> /\ DOMAIN n = MediaFields
    BY DEF FlagsIInv, MediaKept, MediaFields
  <2>2. mse.doing[t] \in {"init", "media", "remove"}
    BY <1>1 DEF MediaKept, Updating, Idle
  <2>3. \E r, h : \/ Finished(mse, t) = [n EXCEPT !.parsed = TRUE, !.ready = r]
                  \/ Finished(mse, t) = [n EXCEPT !.hi[t] = h, !.ready = r]
                  \/ Finished(mse, t) = [n EXCEPT !.lo[t] = h]
    BY <2>2 DEF Finished
  <2> HIDE DEF n
  <2> QED BY <1>1, <2>1, <2>3 DEF MediaFields
<1>4. ~ctl.waiting
  BY <1>1 DEF FlagsIInv, Fresh, MediaKept, Updating
<1> DEFINE f == ctl.failed \/ (mse'.ready = "ended" /\ mse.garbled)
<1>5. ctl' = [ctl EXCEPT !.failed = f]
  BY DEF Finish
<1> HIDE DEF f
<1>6. Reacts(ctl, ctl', worker) /\ ~ctl'.waiting
  <2>1. /\ DOMAIN ctl' = CtlFields /\ ctl'.gen = ctl.gen /\ ctl'.out = ctl.out
        /\ ctl'.stream = ctl.stream /\ ctl'.waiting = ctl.waiting /\ ctl'.inits = ctl.inits
        /\ ctl'.watermark = ctl.watermark /\ ctl'.bufferFull = ctl.bufferFull
    BY <1>5 DEF FlagsIInv, CtlOk, CtlFields
  <2>2. CtlOk(ctl) /\ Inits(ctl'.inits)
    BY <2>1 DEF FlagsIInv, CtlOk
  <2>3. ~ctl'.waiting
    BY <1>4, <2>1
  <2> QED BY <2>1, <2>2, <2>3, LikeReacts
<1>7. WorkerOk(worker', ctl') /\ Delivered(inbox', ctl')
  BY <1>1, <1>6, UnderStill DEF FlagsIInv, Reacts
<1> QED BY <1>1, <1>2, <1>3, <1>4, <1>6, <1>7 DEF FlagsIInv, Grows, Reacts

\* The live sync changes only how much latency it allows.
LEMMA ExtraReacts ==
  ASSUME NEW c, CtlOk(c), NEW w, NEW e
  PROVE  Reacts(c, [c EXCEPT !.extra = e], w) /\ ([c EXCEPT !.extra = e].waiting <=> c.waiting)
<1> DEFINE d == [c EXCEPT !.extra = e]
<1>1. /\ DOMAIN d = CtlFields /\ d.gen = c.gen /\ d.out = c.out /\ d.stream = c.stream
      /\ d.waiting = c.waiting /\ d.inits = c.inits /\ d.throttle = c.throttle
      /\ d.watermark = c.watermark /\ d.bufferFull = c.bufferFull
  BY DEF CtlOk, CtlFields
<1> HIDE DEF d
<1>2. Inits(d.inits) /\ (d.waiting => ~d.throttle)
  BY <1>1 DEF CtlOk
<1>3. Reacts(c, d, w) /\ (d.waiting <=> c.waiting)
  BY <1>1, <1>2, LikeReacts
<1> QED BY <1>3 DEF d

\* What the element and the audio player do leaves the buffers alone.
LEMMA ElementReacts ==
  ASSUME SlowIInv, FlagsIInv,
         \/ Seeked \/ PlayOrPause \/ HideOrShow \/ TimeUpdate \/ Waiting \/ Playing
         \/ \E n : bufferSeek(n)
         \/ ControlTimer \/ ContextSettles \/ Interrupt \/ StretcherLoads \/ StartupTimeout
         \/ RecoveryTimeout \/ AudioGoesOn
  PROVE  /\ UNCHANGED <<worker, inbox>>
         /\ \E c, cur : /\ Reacts(ctl, c, worker) /\ (c.waiting <=> ctl.waiting) /\ c.inits = ctl.inits
                       /\ Leaves(mse, c, cur)
<1> DEFINE u(ahead) == updateFetchBackpressure(ctl, ahead)
           x(c, e) == [c EXCEPT !.extra = e]
<1>1. UNCHANGED <<worker, inbox>>
  <2>1. CASE \/ Seeked \/ PlayOrPause \/ HideOrShow \/ TimeUpdate \/ Waiting \/ Playing
             \/ \E n : bufferSeek(n)
    BY <2>1 DEF Seeked, PlayOrPause, HideOrShow, TimeUpdate, Waiting, Playing, bufferSeek
  <2>2. CASE \/ ControlTimer \/ ContextSettles \/ Interrupt \/ StretcherLoads \/ StartupTimeout
             \/ RecoveryTimeout \/ AudioGoesOn
    BY <2>2, AudioSlow
  <2> QED BY <2>1, <2>2
<1>2. \E cur : \/ Leaves(mse, ctl, cur) \/ \E e : Leaves(mse, x(ctl, e), cur)
               \/ \E ahead : Leaves(mse, u(ahead), cur) \/ \E e : Leaves(mse, x(u(ahead), e), cur)
  <2>1. CASE Seeked \/ PlayOrPause \/ HideOrShow \/ Playing
    BY <2>1, SeekedSlow, PlaySlow, HideSlow, PlayingSlow
  <2>2. CASE TimeUpdate
    BY <2>2, TimeSlow
  <2>3. CASE Waiting
    BY <2>3, WaitingSlow
  <2>4. CASE \E n : bufferSeek(n)
    BY <2>4, SeekSlow
  <2>5. CASE \/ ControlTimer \/ ContextSettles \/ Interrupt \/ StretcherLoads \/ StartupTimeout
             \/ RecoveryTimeout \/ AudioGoesOn
    BY <2>5, AudioSlow
  <2> QED BY <2>1, <2>2, <2>3, <2>4, <2>5
<1>3. CtlOk(ctl)
  BY DEF FlagsIInv
<1>4. ASSUME NEW ahead
      PROVE  Reacts(ctl, u(ahead), worker) /\ (u(ahead).waiting <=> ctl.waiting) /\ u(ahead).inits = ctl.inits
  <2>1. Reacts(ctl, u(ahead), worker) /\ (u(ahead).waiting <=> ctl.waiting)
    BY <1>3, UpdateReacts DEF Reacts
  <2>2. u(ahead).inits = ctl.inits
    BY <1>3, UpdateInits DEF CtlOk
  <2> QED BY <2>1, <2>2
<1> HIDE DEF u
<1>5. ASSUME NEW c, Reacts(ctl, c, worker), (c.waiting <=> ctl.waiting), c.inits = ctl.inits, NEW e
      PROVE  Reacts(ctl, x(c, e), worker) /\ (x(c, e).waiting <=> ctl.waiting) /\ x(c, e).inits = ctl.inits
  <2>1. Reacts(c, x(c, e), worker) /\ (x(c, e).waiting <=> c.waiting)
    BY <1>5, ExtraReacts DEF Reacts
  <2>2. x(c, e).inits = c.inits
    BY <1>5 DEF Reacts, CtlOk, CtlFields
  <2> HIDE DEF x
  <2> QED BY <1>5, <2>1, <2>2 DEF Reacts
<1>6. Reacts(ctl, ctl, worker)
  BY <1>3, SameReacts
<1> HIDE DEF x
<1> QED BY <1>1, <1>2, <1>4, <1>5, <1>6

LEMMA ElementFlags ==
  ASSUME SlowIInv, FlagsIInv,
         \/ Seeked \/ PlayOrPause \/ HideOrShow \/ TimeUpdate \/ Waiting \/ Playing
         \/ \E n : bufferSeek(n)
         \/ ControlTimer \/ ContextSettles \/ Interrupt \/ StretcherLoads \/ StartupTimeout
         \/ RecoveryTimeout \/ AudioGoesOn
  PROVE  FlagsIInv'
BY ElementReacts, CtlFlags

LEMMA SyncFlags == ASSUME FlagsIInv, SetLiveSync PROVE FlagsIInv'
<1>1. UNCHANGED <<mse, worker, inbox>> /\ CtlOk(ctl)
  BY DEF SetLiveSync, FlagsIInv
<1>2. /\ DOMAIN ctl' = CtlFields /\ ctl'.gen = ctl.gen /\ ctl'.out = ctl.out
      /\ ctl'.stream = ctl.stream /\ ctl'.waiting = ctl.waiting /\ ctl'.inits = ctl.inits
      /\ ctl'.throttle = ctl.throttle
      /\ ctl'.watermark = ctl.watermark /\ ctl'.bufferFull = ctl.bufferFull
  BY DEF FlagsIInv, CtlOk, CtlFields, SetLiveSync
<1>3. Inits(ctl'.inits) /\ (ctl'.waiting => ~ctl'.throttle)
  BY <1>1, <1>2 DEF CtlOk
<1>4. Reacts(ctl, ctl', worker)
  BY <1>1, <1>2, <1>3, LikeReacts
<1>5. WorkerOk(worker', ctl') /\ Delivered(inbox', ctl')
  BY <1>1, <1>2, UnderStill DEF FlagsIInv
<1> QED BY <1>1, <1>2, <1>4, <1>5 DEF FlagsIInv, Reacts

LEMMA TakesFlags == ASSUME FlagsIInv, WorkerTakes PROVE FlagsIInv'
<1> DEFINE x == Head(ctl.out)
           o == Tail(ctl.out)
<1>1. PICK S : ctl.out \in Seq(S)
  BY DEF FlagsIInv, CtlOk, Outbox
<1>2. /\ ctl.out # <<>> /\ Len(ctl.out) \in Nat /\ 1 \in 1..Len(ctl.out) /\ x = ctl.out[1]
      /\ o \in Seq(S) /\ Len(o) = Len(ctl.out) - 1
      /\ \A i \in 1..Len(ctl.out) - 1 : o[i] = ctl.out[i + 1] /\ i + 1 \in 1..Len(ctl.out)
  BY <1>1 DEF WorkerTakes
<1>3. Outbox(o, ctl) /\ (x.kind = "load" => Under(x.gen, ctl) /\ StreamOk(x.stream))
  BY <1>2 DEF FlagsIInv, CtlOk, Outbox
<1>4. ctl' = [ctl EXCEPT !.out = o] /\ UNCHANGED <<mse, inbox>>
  BY DEF WorkerTakes
<1>5. worker' = CASE x.kind = "load"  -> [up |-> TRUE, gen |-> x.gen, stream |-> x.stream,
                                          next |-> 1, paused |-> FALSE]
                  [] x.kind = "reset" -> [worker EXCEPT !.up = FALSE, !.paused = FALSE]
                  [] OTHER -> [worker EXCEPT !.paused = worker.up /\ x.kind = "pause"]
  BY DEF WorkerTakes
<1> HIDE DEF x, o
<1>6. \/ o = <<>> /\ ctl.out[Len(ctl.out)] = x
      \/ o # <<>> /\ ctl.out[Len(ctl.out)] = o[Len(o)]
  <2> DEFINE a == Len(ctl.out)
             b == Len(o)
  <2>1. /\ a \in Nat /\ a >= 1 /\ b = a - 1 /\ b \in Nat /\ x = ctl.out[1]
        /\ \A i \in 1..b : o[i] = ctl.out[i + 1]
    BY <1>2
  <2>2. o = <<>> <=> b = 0
    <3>1. o \in Seq(S)
      BY <1>2
    <3> QED BY <3>1
  <2> HIDE DEF a, b
  <2>3. CASE b = 0
    <3>1. a = 1
      BY <2>1, <2>3
    <3> QED BY <2>1, <2>2, <2>3, <3>1 DEF a
  <2>4. CASE b # 0
    <3>1. b \in 1..b /\ b + 1 = a
      BY <2>1, <2>4
    <3> QED BY <2>1, <2>2, <2>4, <3>1 DEF a, b
  <2> QED BY <2>3, <2>4
<1>7. /\ DOMAIN ctl' = CtlFields /\ ctl'.gen = ctl.gen /\ ctl'.out = o
      /\ ctl'.stream = ctl.stream /\ ctl'.waiting = ctl.waiting /\ ctl'.inits = ctl.inits
      /\ ctl'.throttle = ctl.throttle /\ Held(ctl') = Held(ctl)
  BY <1>4 DEF FlagsIInv, CtlOk, CtlFields, Held
<1>8. CtlOk(ctl')
  <2>1. Outbox(o, ctl')
    BY <1>3, <1>7 DEF Outbox, Under
  <2> QED BY <1>7, <2>1 DEF FlagsIInv, CtlOk
<1>9. WorkerOk(worker', ctl) /\ (o = <<>> /\ worker'.up => (worker'.paused <=> x.kind = "pause"))
  <2>1. CASE x.kind = "load"
    <3> DEFINE w == [up |-> TRUE, gen |-> x.gen, stream |-> x.stream, next |-> 1, paused |-> FALSE]
    <3>1. worker' = w
      BY <1>5, <2>1
    <3>2. WorkerOk(w, ctl) /\ ~w.paused
      BY <1>3, <2>1 DEF WorkerOk, WorkerFields
    <3> QED BY <2>1, <3>1, <3>2
  <2>2. CASE x.kind = "reset"
    <3>1. worker' = [worker EXCEPT !.up = FALSE, !.paused = FALSE]
      BY <1>5, <2>2
    <3> QED BY <2>2, <3>1 DEF WorkerOk, WorkerFields, FlagsIInv
  <2>3. CASE x.kind # "load" /\ x.kind # "reset"
    <3> DEFINE p == worker.up /\ x.kind = "pause"
    <3>1. worker' = [worker EXCEPT !.paused = p]
      BY <1>5, <2>3
    <3>2. WorkerOk(worker', ctl) /\ worker'.up = worker.up /\ (worker'.paused <=> p)
      BY <3>1 DEF WorkerOk, WorkerFields, FlagsIInv
    <3> QED BY <3>2
  <2> QED BY <2>1, <2>2, <2>3
<1>10. WorkerOk(worker', ctl') /\ Delivered(inbox', ctl')
  BY <1>4, <1>7, <1>9 DEF FlagsIInv, WorkerOk, Delivered, Under
<1>11. Speaks(ctl, worker) => Speaks(ctl', worker')
  BY <1>2, <1>6, <1>7, <1>9 DEF Speaks
<1> QED BY <1>4, <1>7, <1>8, <1>10, <1>11 DEF FlagsIInv

LEMMA PostsFlags == ASSUME FlagsIInv, WorkerPosts PROVE FlagsIInv'
<1> DEFINE x == [gen |-> worker.gen, msg |-> worker.stream.messages[worker.next]]
           n == worker.next + 1
<1>1. /\ inbox' = Append(inbox, x) /\ worker' = [worker EXCEPT !.next = n]
      /\ UNCHANGED <<mse, ctl>> /\ worker.next <= Len(worker.stream.messages)
  BY DEF WorkerPosts, CanPost, More
<1>2. WorkerOk(worker, ctl)
  BY DEF FlagsIInv
<1>3. Under(x.gen, ctl) /\ MessageOk(x.msg)
  <2>1. worker.next \in DOMAIN worker.stream.messages
    BY <1>1, <1>2 DEF WorkerOk, StreamOk
  <2> QED BY <1>2, <2>1 DEF WorkerOk, StreamOk
<1>4. n \in Nat /\ n > 0
  BY <1>2 DEF WorkerOk
<1> HIDE DEF x, n
<1>5. WorkerOk(worker', ctl) /\ worker'.up = worker.up /\ worker'.gen = worker.gen
      /\ worker'.paused = worker.paused
  BY <1>1, <1>2, <1>4 DEF WorkerOk, WorkerFields
<1>6. Delivered(inbox', ctl)
  <2>1. PICK S : inbox \in Seq(S)
    BY DEF FlagsIInv, Delivered
  <2>2. /\ inbox' \in Seq(S \cup {x}) /\ Len(inbox) \in Nat /\ Len(inbox') = Len(inbox) + 1
        /\ \A i \in 1..Len(inbox)+1 : inbox'[i] = IF i = Len(inbox) + 1 THEN x ELSE inbox[i]
    <3>1. inbox \in Seq(S \cup {x})
      BY <2>1
    <3> QED BY <1>1, <3>1
  <2>3. \A i \in 1..Len(inbox)+1 : i = Len(inbox) + 1 \/ i \in 1..Len(inbox)
    BY <2>2
  <2> QED BY <1>3, <2>2, <2>3 DEF FlagsIInv, Delivered
<1> QED BY <1>1, <1>5, <1>6 DEF FlagsIInv, Speaks

\* The page's own operations on the load: a new one, and its end.
LEMMA LoadSets ==
  ASSUME FlagsIInv, NEW s, Load(s)
  PROVE  /\ DOMAIN ctl' = CtlFields /\ ctl'.gen = ctl.gen + 1 /\ ctl'.out = ctl.out
         /\ ctl'.stream = s
         /\ ctl'.waiting = TRUE /\ ctl'.inits = <<>> /\ ctl'.throttle = FALSE
         /\ ctl'.watermark = FALSE /\ ctl'.bufferFull = FALSE
<1> DEFINE sync == ctl.sync \/ ctl.syncEnabled
<1>1. ctl' = [FreshLoad(ctl) EXCEPT !.on = TRUE, !.stream = s, !.mode = s.mode, !.sync = sync,
                !.waiting = TRUE]
  BY DEF Load
<1> HIDE DEF sync
<1>2. DOMAIN ctl = CtlFields
  BY DEF FlagsIInv, CtlOk
<1> QED BY <1>1, <1>2 DEF FreshLoad, CtlFields

LEMMA SuspendSets ==
  ASSUME FlagsIInv, Suspend
  PROVE  /\ DOMAIN ctl' = CtlFields /\ ctl'.gen = ctl.gen + 1
         /\ ctl'.out = Append(ctl.out, Command("reset")) /\ ctl'.stream = ctl.stream
         /\ ctl'.waiting = FALSE /\ ctl'.inits = <<>> /\ ctl'.throttle = FALSE
         /\ ctl'.watermark = FALSE /\ ctl'.bufferFull = FALSE
<1> DEFINE o == Append(ctl.out, Command("reset"))
<1>1. ctl' = [FreshLoad(ctl) EXCEPT !.on = FALSE, !.mode = "static", !.sync = FALSE,
                !.extra = 0, !.out = o]
  BY DEF Suspend, FreshLoad, FlagsIInv, CtlOk, CtlFields
<1>2. DOMAIN ctl = CtlFields
  BY DEF FlagsIInv, CtlOk
<1> HIDE DEF o
<1>3. /\ DOMAIN ctl' = CtlFields /\ ctl'.gen = ctl.gen + 1
      /\ ctl'.out = o /\ ctl'.stream = ctl.stream
      /\ ctl'.waiting = FALSE /\ ctl'.inits = <<>> /\ ctl'.throttle = FALSE
      /\ ctl'.watermark = FALSE /\ ctl'.bufferFull = FALSE
  BY <1>1, <1>2 DEF FreshLoad, CtlFields
<1> QED BY <1>3 DEF o

LEMMA LoadFlags ==
  ASSUME FlagsIInv, ctl.gen < Len(Loads), NEW s \in Loads[ctl.gen + 1], Load(s)
  PROVE  FlagsIInv'
<1>1. StreamOk(s)
  <2>1. CtlOk(ctl) /\ ctl.gen + 1 \in DOMAIN Loads
    BY LoadsAssumption DEF FlagsIInv, CtlOk
  <2> QED BY <2>1, LoadsAssumption DEF StreamOk, MessageOk
<1> DEFINE none == <<>>
<1>2. /\ DOMAIN ctl' = CtlFields /\ ctl'.gen = ctl.gen + 1 /\ ctl'.out = ctl.out
      /\ ctl'.stream = s
      /\ ctl'.waiting = TRUE /\ ctl'.inits = none /\ ctl'.throttle = FALSE
      /\ ctl'.watermark = FALSE /\ ctl'.bufferFull = FALSE
  BY LoadSets
<1>3. mse' = setDuration(NewMedia(ctl.managed)) \/ mse' = NewMedia(ctl.managed)
  BY DEF Load
<1>4. MediaKept(mse') /\ Fresh(mse') /\ mse'.calls = <<>>
  BY <1>3, NewFresh
<1>5. \A g : Under(g, ctl) => Under(g, ctl')
  BY <1>2 DEF Under, FlagsIInv, CtlOk
<1>6. CtlOk(ctl')
  <2>1. CtlOk(ctl) /\ Inits(none)
    BY NoInits DEF FlagsIInv
  <2>2. Outbox(ctl'.out, ctl')
    BY <1>2, <1>5, <2>1 DEF CtlOk, Outbox
  <2> HIDE DEF none
  <2> QED BY <1>1, <1>2, <2>1, <2>2 DEF CtlOk, Held
<1>7. WorkerOk(worker', ctl') /\ Delivered(inbox', ctl')
  <2>1. UNCHANGED <<worker, inbox>>
    BY DEF Load
  <2> QED BY <1>5, <2>1 DEF FlagsIInv, WorkerOk, Delivered
<1> QED BY <1>2, <1>4, <1>6, <1>7 DEF FlagsIInv, Fresh, Speaks

LEMMA SuspendFlags ==
  ASSUME FlagsIInv, Suspend
  PROVE  FlagsIInv'
<1> DEFINE none == <<>>
           o == Append(ctl.out, Command("reset"))
<1>1. /\ DOMAIN ctl' = CtlFields /\ ctl'.gen = ctl.gen + 1 /\ ctl'.out = o
      /\ ctl'.stream = ctl.stream
      /\ ctl'.waiting = FALSE /\ ctl'.inits = none /\ ctl'.throttle = FALSE
      /\ ctl'.watermark = FALSE /\ ctl'.bufferFull = FALSE
  BY SuspendSets
<1>2. MediaKept(mse') /\ mse'.calls = <<>> /\ mse'.dead
  <2>1. mse' = [NewMedia(FALSE) EXCEPT !.dead = TRUE]
    BY DEF Suspend, NoMedia
  <2>2. MediaKept(mse')
    BY <2>1, NewFresh
  <2> QED BY <2>1, <2>2 DEF NewMedia
<1>3. \A g : Under(g, ctl) => Under(g, ctl')
  BY <1>1 DEF Under, FlagsIInv, CtlOk
<1>4. CtlOk(ctl')
  <2>1. CtlOk(ctl) /\ Inits(none)
    BY NoInits DEF FlagsIInv
  <2>2. Outbox(o, ctl)
    <3>1. Command("reset").kind = "reset"
      BY DEF Command
    <3> DEFINE x == Command("reset")
    <3> HIDE DEF x
    <3> QED BY <2>1, <3>1, OutboxMore DEF CtlOk, x
  <2> HIDE DEF o, none
  <2>3. Outbox(ctl'.out, ctl')
    BY <1>1, <1>3, <2>2 DEF Outbox
  <2> QED BY <1>1, <2>1, <2>3 DEF CtlOk, Held
<1>5. WorkerOk(worker', ctl') /\ Delivered(inbox', ctl')
  <2>1. UNCHANGED <<worker, inbox>>
    BY DEF Suspend
  <2> QED BY <1>3, <2>1 DEF FlagsIInv, WorkerOk, Delivered
<1> QED BY <1>1, <1>2, <1>4, <1>5 DEF FlagsIInv

LEMMA FlagsInit == ASSUME Init PROVE FlagsIInv
<1> DEFINE none == <<>>
<1>1. MediaKept(mse) /\ mse.calls = <<>> /\ mse.dead
  <2>1. mse = [NewMedia(FALSE) EXCEPT !.dead = TRUE]
    BY DEF Init, NoMedia
  <2>2. MediaKept(mse)
    BY <2>1, NewFresh
  <2> QED BY <2>1, <2>2 DEF NewMedia
<1>2. StreamOk(NoStream)
  BY DEF StreamOk, NoStream
<1>3. /\ DOMAIN ctl = CtlFields /\ ctl.gen = 0 /\ ctl.out = none /\ ctl.stream = NoStream
      /\ ctl.waiting = FALSE /\ ctl.inits = none
  <2>1. PICK managed \in Managed :
          ctl = [gen |-> 0, on |-> FALSE, managed |-> managed, stream |-> NoStream, mode |-> "static",
                 sync |-> FALSE, syncEnabled |-> TRUE, extra |-> 0, out |-> none, waiting |-> FALSE,
                 inits |-> none, throttle |-> FALSE, watermark |-> FALSE, bufferFull |-> FALSE,
                 failed |-> FALSE]
    BY DEF Init
  <2> QED BY <2>1 DEF FreshLoad, CtlFields
<1>4. none \in Seq({}) /\ Len(none) = 0
  OBVIOUS
<1>5. CtlOk(ctl)
  BY <1>2, <1>3, <1>4, NoInits DEF CtlOk, Outbox
<1>6. WorkerOk(worker, ctl)
  BY <1>2, <1>3 DEF WorkerOk, WorkerFields, Init, Under
<1>7. Delivered(inbox, ctl)
  BY <1>4 DEF Init, Delivered
<1> QED BY <1>1, <1>3, <1>5, <1>6, <1>7 DEF FlagsIInv

LEMMA FlagsStep == ASSUME SlowIInv, FlagsIInv, [Next]_vars PROVE FlagsIInv'
<1>1. ASSUME UNCHANGED vars PROVE FlagsIInv'
  BY <1>1 DEF vars, FlagsIInv
<1>2. ASSUME Progress PROVE FlagsIInv'
  <2>1. ASSUME NEW t \in Tracks, Finish(t) \/ UpdateEnd(t) PROVE FlagsIInv'
    BY <2>1, FinishFlags, SourceFlags
  <2> QED BY <1>2, <2>1, TakesFlags, PostsFlags, MessageFlags, SourceFlags, ElementFlags DEF Progress
<1>3. ASSUME Next, ~Progress PROVE FlagsIInv'
  <2>1. ASSUME ctl.gen < Len(Loads), NEW s \in Loads[ctl.gen + 1], Load(s) PROVE FlagsIInv'
    BY <2>1, LoadFlags
  <2>2. ASSUME NEW n, bufferSeek(n) PROVE FlagsIInv'
    BY <2>2, ElementFlags
  <2> QED BY <1>3, <2>1, <2>2, SuspendFlags, SyncFlags, SourceFlags, ElementFlags DEF Next
<1> QED BY <1>1, <1>2, <1>3

\* Once its commands have arrived, the worker is paused exactly when the controller
\* believes it is, whatever order buffers fill and drain, the MediaSource opens, streams and
\* closes, and loads supersede one another in (mse/playback-controller.ts, the two flags
\* of the fetch backpressure).
THEOREM FlagsTrue == Spec => []FlagsAgree
<1>1. Init => SlowIInv /\ FlagsIInv
  BY SlowInit, FlagsInit
<1>2. SlowIInv /\ FlagsIInv /\ [Next]_vars => SlowIInv' /\ FlagsIInv'
  BY SlowStep, FlagsStep
<1>3. FlagsIInv => FlagsAgree
  BY DEF FlagsIInv, WorkerOk, Under, Speaks, FlagsAgree, Held
<1> QED BY <1>1, <1>2, <1>3, PTL DEF Spec

\* What the current load has delivered for a track is appended once and in order: nothing
\* is lost or repeated when an append is refused, a buffer is closed or another load
\* comes in between (mse/media-source.ts, pendingSegments).
THEOREM AppendsInOrder == Spec => []InOrderOnce
<1>1. Init => SlowIInv /\ FlagsIInv
  BY SlowInit, FlagsInit
<1>2. SlowIInv /\ FlagsIInv /\ [Next]_vars => SlowIInv' /\ FlagsIInv'
  BY SlowStep, FlagsStep
<1>3. FlagsIInv => InOrderOnce
  <2>1. ASSUME FlagsIInv, NEW t \in Tracks, t \notin mse.disabled
        PROVE  /\ mse.done[t] + Len(mse.segments[t]) = mse.told[t]
               /\ \A i \in DOMAIN mse.segments[t] : mse.segments[t][i].id = mse.done[t] + i
    <3>1. Queue(mse.segments[t]) /\ Line(mse.segments[t], mse.done[t], mse.told[t])
      BY <2>1 DEF FlagsIInv, MediaKept
    <3>2. PICK S : mse.segments[t] \in Seq(S)
      BY <3>1 DEF Queue
    <3>3. DOMAIN mse.segments[t] = 1..Len(mse.segments[t])
      BY <3>2
    <3> QED BY <3>1, <3>3 DEF Line
  <2> QED BY <2>1 DEF InOrderOnce
<1> QED BY <1>1, <1>2, <1>3, PTL DEF Spec

-----------------------------------------------------------------------------
(* Init segments                                                           *)

\* The tracks of some init segments, and that these name codecs.
Tracked(s) == {s[i].track : i \in 1..Len(s)}
Coded(s)   == \A i \in 1..Len(s) : s[i].codec # NoType

\* The tracks with a buffer and those that have none for good; and with those whose init
\* segments wait.
Settled(m) == {t \in Tracks : m.type[t] # NoType \/ t \in m.disabled}
Known(m)   == Settled(m) \cup Tracked(m.inits)

\* Only a buffer that exists is busy.
Apart(m) == \A t \in Tracks : m.doing[t] # Idle => m.type[t] # NoType

\* What leaves the buffers' number and the init segments alone.
Still(m, n) ==
  /\ n.type = m.type /\ n.disabled = m.disabled /\ n.inits = m.inits /\ n.parsed = m.parsed
  /\ n.refused = m.refused /\ n.streaming = m.streaming
  /\ Apart(m) => Apart(n)
  /\ Open(n) => Open(m) \/ Attached(m) # {}

LEMMA StillStill ==
  /\ \A m : Still(m, m)
  /\ \A m, n, o : Still(m, n) /\ Still(n, o) => Still(m, o)
BY DEF Still, Attached

LEMMA CallStill ==
  ASSUME NEW m, MediaKept(m), NEW c
  PROVE  Still(m, Call(m, c)) /\ Call(m, c).ready = m.ready
BY DEF MediaKept, MediaFields, Still, Call, Apart, Open

LEMMA QueuedStill ==
  ASSUME NEW m, MediaKept(m), NEW t \in Tracks, NEW kind, NEW codec
  PROVE  Still(m, Queued(m, t, kind, codec)) /\ Queued(m, t, kind, codec).ready = m.ready
<1> DEFINE q == Append(m.segments[t], [kind |-> kind, codec |-> codec, id |-> m.told[t] + 1])
           k == m.told[t] + 1
           n == [m EXCEPT !.told[t] = k, !.segments[t] = q]
<1>1. Queued(m, t, kind, codec) = n
  BY DEF Queued
<1> HIDE DEF q, k
<1> QED BY <1>1 DEF MediaKept, MediaFields, Still, Apart, Open

LEMMA AppendStill ==
  ASSUME NEW m, MediaKept(m), NEW t \in Tracks, NEW cur
  PROVE  Still(m, AppendHead(m, t, cur)) /\ AppendHead(m, t, cur).ready = m.ready
<1> DEFINE e == Head(m.segments[t])
           lo == IF m.hi[t] - m.lo[t] >= Quota THEN cur ELSE m.lo[t]
           d == IF e.id = m.done[t] + 1 THEN e.id ELSE -1
           q == Tail(m.segments[t])
           g == m.garbled \/ e.codec # m.type[t]
           n == [m EXCEPT !.segments[t] = q, !.doing[t] = e.kind, !.full = FALSE,
                          !.lo[t] = lo, !.done[t] = d, !.garbled = g]
           r == Refused(m, t)
<1>1. Still(m, r) /\ r.ready = m.ready /\ MediaKept(r)
  BY DEF Refused, Still, MediaKept, MediaFields, Apart, Open
<1>2. ASSUME m.segments[t] # <<>>, Callable(m, t)
      PROVE  /\ Still(m, n) /\ n.ready = m.ready
             /\ Still(m, Call(n, "available")) /\ Call(n, "available").ready = m.ready
  <2>1. m.type[t] # NoType
    BY <1>2 DEF Callable
  <2> HIDE DEF q, e, d, lo, g
  <2>2. Still(m, n) /\ n.ready = m.ready /\ DOMAIN n = MediaFields
    BY <2>1 DEF MediaKept, MediaFields, Still, Apart, Open
  <2> HIDE DEF n
  <2>3. Still(n, Call(n, "available")) /\ Call(n, "available").ready = n.ready
    BY <2>2 DEF MediaFields, Still, Call, Apart, Open
  <2> QED BY <2>2, <2>3, StillStill
<1>3. \/ AppendHead(m, t, cur) = m
      \/ /\ m.segments[t] # <<>> /\ Callable(m, t)
         /\ AppendHead(m, t, cur) \in {n, Call(n, "available"), r, Call(r, "full")}
  BY Zenon DEF AppendHead
<1> HIDE DEF n, r
<1>4. Still(m, Call(r, "full")) /\ Call(r, "full").ready = m.ready
  BY <1>1, CallStill, StillStill
<1> QED BY <1>1, <1>2, <1>3, <1>4, StillStill

\* A removal opens a MediaSource that has ended.
LEMMA RemoveStill ==
  ASSUME NEW m, MediaKept(m), NEW t \in Tracks
  PROVE  Still(m, RemoveHead(m, t)) /\ (Open(m) => Open(RemoveHead(m, t)))
<1> DEFINE q == Tail(m.removals[t])
           u == Head(m.removals[t])
           n == [m EXCEPT !.removals[t] = q, !.doing[t] = "remove", !.upto[t] = u, !.ready = "open"]
<1>1. RemoveHead(m, t) = m \/ (Callable(m, t) /\ RemoveHead(m, t) = n)
  BY Zenon DEF RemoveHead
<1>2. ASSUME Callable(m, t) PROVE Still(m, n) /\ Open(n)
  <2>1. m.type[t] # NoType /\ t \in Attached(m)
    BY <1>2 DEF Callable, Attached
  <2> HIDE DEF q, u
  <2> QED BY <2>1 DEF MediaKept, MediaFields, Still, Apart, Open
<1> QED BY <1>1, <1>2, StillStill

LEMMA PendingStill ==
  ASSUME NEW m, MediaKept(m), NEW cur
  PROVE  /\ Still(m, doRemoveRanges(m)) /\ Still(m, tryAppendPending(m, cur))
         /\ Open(m) <=> Open(tryAppendPending(m, cur))
<1>1. "video" \in Tracks /\ "audio" \in Tracks
  BY DEF Tracks
<1>2. Still(m, doRemoveRanges(m)) /\ (Open(m) => Open(doRemoveRanges(m)))
  <2> DEFINE n == RemoveHead(m, "video")
  <2>1. Still(m, n) /\ (Open(m) => Open(n)) /\ MediaKept(n)
    BY <1>1, RemoveStill, RemoveGrows DEF Grows
  <2> HIDE DEF n
  <2>2. Still(n, RemoveHead(n, "audio")) /\ (Open(n) => Open(RemoveHead(n, "audio")))
    BY <1>1, <2>1, RemoveStill
  <2>3. Still(m, RemoveHead(n, "audio")) /\ (Open(m) => Open(RemoveHead(n, "audio")))
    BY <2>1, <2>2, StillStill
  <2> QED BY <2>3 DEF n, doRemoveRanges
<1>3. Still(m, doAppendSegments(m, cur)) /\ doAppendSegments(m, cur).ready = m.ready
  <2> DEFINE n == AppendHead(m, "video", cur)
  <2>1. Still(m, n) /\ n.ready = m.ready /\ MediaKept(n)
    BY <1>1, AppendStill, AppendGrows DEF Grows
  <2> HIDE DEF n
  <2>2. Still(n, AppendHead(n, "audio", cur)) /\ AppendHead(n, "audio", cur).ready = n.ready
    BY <1>1, <2>1, AppendStill
  <2>3. Still(m, AppendHead(n, "audio", cur)) /\ AppendHead(n, "audio", cur).ready = m.ready
    BY <2>1, <2>2, StillStill
  <2> QED BY <2>3 DEF n, doAppendSegments
<1>4. tryAppendPending(m, cur) \in {m} \cup (IF Open(m) THEN {doRemoveRanges(m), doAppendSegments(m, cur)}
                                             ELSE {})
  BY DEF tryAppendPending
<1> QED BY <1>2, <1>3, <1>4, StillStill DEF Open

LEMMA CleanedStill ==
  ASSUME NEW m, MediaKept(m), NEW cur
  PROVE  Still(m, Cleaned(m, cur))
<1> DEFINE far(t)  == t \in Attached(m) /\ m.hi[t] > m.lo[t] /\ cur - m.lo[t] >= MaxBackward
           more(n, t) == [n EXCEPT !.removals[t] = Append(@, cur - MinBackward)]
           mark(n, t) == IF ~far(t) THEN n ELSE more(n, t)
           one(n, t) == IF far(t) /\ ~Updating(n, t) THEN doRemoveRanges(mark(n, t)) ELSE mark(n, t)
<1>1. ASSUME NEW n, MediaKept(n), NEW t PROVE MediaKept(one(n, t)) /\ Still(n, one(n, t))
  <2>1. MediaKept(more(n, t)) /\ Still(n, more(n, t))
    <3> DEFINE q == Append(n.removals[t], cur - MinBackward)
               o == [n EXCEPT !.removals[t] = q]
    <3> HIDE DEF q
    <3>1. MediaKept(o) /\ Still(n, o)
      BY <1>1 DEF MediaKept, MediaFields, Still, Apart, Open
    <3> QED BY <3>1 DEF q
  <2> HIDE DEF more, far
  <2>2. MediaKept(mark(n, t)) /\ Still(n, mark(n, t))
    BY <1>1, <2>1, StillStill
  <2> HIDE DEF mark
  <2>3. /\ MediaKept(doRemoveRanges(mark(n, t)))
        /\ Still(mark(n, t), doRemoveRanges(mark(n, t)))
    BY <2>2, PendingGrows, PendingStill DEF Grows
  <2>4. Still(n, doRemoveRanges(mark(n, t)))
    BY <2>2, <2>3, StillStill
  <2> QED BY <2>2, <2>3, <2>4
<1>2. Cleaned(m, cur) = one(one(m, "video"), "audio")
  BY DEF Cleaned
<1> HIDE DEF one
<1> QED BY <1>1, <1>2, StillStill

LEMMA DurationStill ==
  ASSUME NEW m, MediaKept(m)
  PROVE  Still(m, tryApplyDuration(m)) /\ Still(m, setDuration(m))
<1>1. ASSUME NEW n, MediaKept(n), NEW d
      PROVE  MediaKept([n EXCEPT !.duration = d]) /\ Still(n, [n EXCEPT !.duration = d])
  BY <1>1 DEF MediaKept, MediaFields, Still, Apart, Open
<1>2. ASSUME NEW n, MediaKept(n) PROVE Still(n, tryApplyDuration(n))
  BY <1>1, <1>2, StillStill DEF tryApplyDuration
<1> QED BY <1>1, <1>2, StillStill DEF setDuration

LEMMA EndStill ==
  ASSUME NEW m, MediaKept(m)
  PROVE  Still(m, endOfStream(m))
<1>1. ASSUME NEW e PROVE Still(m, [m EXCEPT !.eos = e])
  BY DEF MediaKept, MediaFields, Still, Apart, Open
<1>2. Still(m, [m EXCEPT !.eos = FALSE, !.ready = "ended"])
  BY DEF MediaKept, MediaFields, Still, Apart, Open
<1> QED BY <1>1, <1>2 DEF endOfStream

LEMMA MediaStill ==
  ASSUME NEW m, MediaKept(m), NEW t \in Tracks, NEW codec, NEW cur
  PROVE  Still(m, appendMedia(m, t, codec, cur))
<1> DEFINE n == Queued(m, t, "media", codec)
           o == Cleaned(n, cur)
<1>1. Still(m, n) /\ MediaKept(n)
  BY QueuedStill, QueuedGrows DEF Grows
<1> HIDE DEF n
<1>2. Still(m, o) /\ MediaKept(o)
  BY <1>1, CleanedStill, CleanedGrows, StillStill DEF Grows
<1> HIDE DEF o
<1>3. Still(m, tryAppendPending(o, cur))
  BY <1>2, PendingStill, StillStill
<1>4. appendMedia(m, t, codec, cur) \in {m, n, tryAppendPending(o, cur)}
  BY DEF appendMedia, n, o
<1> QED BY <1>1, <1>3, <1>4, StillStill

LEMMA UpdateEndStill ==
  ASSUME NEW m, MediaKept(m), NEW t \in Tracks, NEW cur
  PROVE  Still(m, onSourceBufferUpdateEnd(m, t, cur))
<1> DEFINE d == m.due \ {t}
           o == [m EXCEPT !.due = d]
           p == Call(o, "updated")
           n == tryApplyDuration(p)
           e == [n EXCEPT !.full = FALSE]
<1>1. Still(m, o) /\ MediaKept(o)
  <2> HIDE DEF d
  <2> QED BY DEF MediaKept, MediaFields, Still, Apart, Open
<1> HIDE DEF o
<1>2. Still(m, p) /\ MediaKept(p)
  BY <1>1, CallStill, CallGrows, StillStill DEF Grows, Answers
<1> HIDE DEF p
<1>3. Still(m, n) /\ MediaKept(n)
  BY <1>2, DurationStill, DurationGrows, StillStill DEF Grows
<1> HIDE DEF n
<1>4. Still(n, e) /\ MediaKept(e)
  BY <1>3 DEF MediaKept, MediaFields, Still, Apart, Open
<1> HIDE DEF e
<1>5. Still(m, Call(e, "available"))
  BY <1>3, <1>4, CallStill, StillStill
<1>6. /\ Still(m, doRemoveRanges(n)) /\ Still(m, tryAppendPending(n, cur))
      /\ Still(m, endOfStream(n))
  BY <1>3, PendingStill, EndStill, StillStill
<1>7. onSourceBufferUpdateEnd(m, t, cur) \in
        {doRemoveRanges(n), tryAppendPending(n, cur), endOfStream(n), Call(e, "available"), n}
  BY Zenon DEF onSourceBufferUpdateEnd, d, o, p, n, e
<1> QED BY <1>3, <1>5, <1>6, <1>7

LEMMA TrackedMore ==
  ASSUME NEW s, Inits(s), NEW e
  PROVE  /\ Tracked(Append(s, e)) = Tracked(s) \cup {e.track}
         /\ Coded(s) /\ e.codec # NoType => Coded(Append(s, e))
<1>1. PICK S : s \in Seq(S)
  BY DEF Inits
<1>2. /\ Len(s) \in Nat /\ Len(Append(s, e)) = Len(s) + 1
      /\ \A i \in 1..Len(s)+1 : Append(s, e)[i] = IF i = Len(s) + 1 THEN e ELSE s[i]
  <2>1. s \in Seq(S \cup {e})
    BY <1>1
  <2> QED BY <2>1
<1>3. /\ \A i \in 1..Len(s)+1 : i = Len(s) + 1 \/ i \in 1..Len(s)
      /\ \A i \in 1..Len(s) : i \in 1..Len(s)+1 /\ i # Len(s) + 1
      /\ Len(s) + 1 \in 1..Len(s)+1
  BY <1>2
<1> DEFINE q == Append(s, e)
           n == Len(s)
<1>4. Len(q) = n + 1 /\ \A i \in 1..n+1 : q[i] = IF i = n + 1 THEN e ELSE s[i]
  BY <1>2
<1> HIDE DEF q
<1>5. Tracked(q) = Tracked(s) \cup {e.track}
  BY <1>3, <1>4 DEF Tracked
<1>6. Coded(s) /\ e.codec # NoType => Coded(q)
  BY <1>3, <1>4 DEF Coded
<1> QED BY <1>5, <1>6 DEF q

LEMMA AmongTracks ==
  ASSUME NEW q, NEW s, Among(q, s)
  PROVE  Tracked(q) \subseteq Tracked(s) /\ (Coded(s) => Coded(q))
BY DEF Among, Tracked, Coded

LEMMA NoTracks == Tracked(<<>>) = {} /\ Coded(<<>>)
<1>1. Len(<<>>) = 0
  OBVIOUS
<1> QED BY <1>1 DEF Tracked, Coded

-----------------------------------------------------------------------------
(* Making buffers                                                          *)

\* What making buffers for the tracks of a set does to m.
Made(m, n, Y) ==
  /\ n.ready = m.ready /\ n.parsed = m.parsed /\ n.streaming = m.streaming
  /\ Apart(m) => Apart(n)
  /\ Coded(m.inits) => Coded(n.inits)
  /\ Tracked(n.inits) \subseteq Tracked(m.inits)
  /\ Settled(m) \subseteq Settled(n) /\ Settled(n) \subseteq Settled(m) \cup Y
  /\ Attached(m) \subseteq Attached(n)
  /\ m.refused => n.refused
  /\ (m.parsed => Y \subseteq Settled(m)) /\ n.refused => m.refused
  /\ Open(m) => n.refused \/ Y \subseteq Settled(n)

LEMMA MadeMade ==
  /\ \A m : Made(m, m, {})
  /\ \A m, n, o, X, Y : Made(m, n, X) /\ Made(n, o, Y) => Made(m, o, X \cup Y)
<1>1. \A m : Made(m, m, {})
  BY DEF Made
<1>2. ASSUME NEW m, NEW n, NEW o, NEW X, NEW Y, Made(m, n, X), Made(n, o, Y)
      PROVE  Made(m, o, X \cup Y)
  BY <1>2 DEF Made, Open
<1> QED BY <1>1, <1>2

LEMMA CreateMade ==
  ASSUME NEW m, MediaKept(m), NEW t \in Tracks, NEW codec, codec # NoType
  PROVE  Made(m, createSourceBuffer(m, t, codec), {t})
<1> DEFINE d == disableTrack(m, t)
           r == [m EXCEPT !.refused = TRUE]
           n == [m EXCEPT !.type[t] = codec]
           e(o) == Call(o, "error")
<1>1. /\ DOMAIN m = MediaFields /\ DOMAIN m.type = Tracks
      /\ Inits(m.inits)
  BY DEF MediaKept
<1>2. \/ (t \in m.disabled \/ ~Open(m) \/ codec = m.type[t]) /\ createSourceBuffer(m, t, codec) = m
      \/ m.type[t] # NoType /\ createSourceBuffer(m, t, codec) = e(m)
      \/ createSourceBuffer(m, t, codec) = e(d)
      \/ m.type[t] = NoType /\ m.parsed /\ t \notin m.disabled /\ createSourceBuffer(m, t, codec) = e(r)
      \/ t \notin m.disabled /\ codec # m.type[t] /\ (m.type[t] # NoType \/ ~m.parsed)
           /\ createSourceBuffer(m, t, codec) = n
  BY Zenon DEF createSourceBuffer
<1>3. ASSUME NEW o, DOMAIN o = MediaFields, Made(m, o, {t}) PROVE Made(m, e(o), {t})
  <2>1. DOMAIN e(o) = MediaFields /\ \A x \in MediaFields \ {"calls"} : e(o)[x] = o[x]
    BY <1>3 DEF Call, MediaFields
  <2>2. /\ e(o).ready = o.ready /\ e(o).parsed = o.parsed /\ e(o).streaming = o.streaming
        /\ e(o).inits = o.inits /\ e(o).type = o.type /\ e(o).doing = o.doing
        /\ e(o).disabled = o.disabled /\ e(o).refused = o.refused
    BY <2>1 DEF MediaFields
  <2> HIDE DEF e
  <2> QED BY <1>3, <2>2 DEF Made, Settled, Attached, Apart
<1>4. (t \in m.disabled \/ ~Open(m) \/ m.type[t] # NoType) => Made(m, m, {t})
  BY DEF Made, Settled
<1>5. DOMAIN d = MediaFields /\ Made(m, d, {t})
  <2> DEFINE i == Without(m.inits, t)
             x == m.disabled \cup {t}
             none == <<>>
             k == [m EXCEPT !.disabled = x, !.segments[t] = none, !.removals[t] = none, !.inits = i]
  <2>1. d = k
    BY DEF disableTrack
  <2>2. Tracked(i) \subseteq Tracked(m.inits) /\ (Coded(m.inits) => Coded(i))
    BY <1>1, WithoutInits, AmongTracks
  <2> HIDE DEF i, none
  <2>3. /\ DOMAIN k = MediaFields
        /\ k.ready = m.ready /\ k.parsed = m.parsed /\ k.streaming = m.streaming
        /\ k.inits = i /\ k.type = m.type /\ k.doing = m.doing
        /\ k.disabled = x /\ k.refused = m.refused
    BY <1>1 DEF MediaFields
  <2>4. t \in x /\ m.disabled \subseteq x /\ x \subseteq m.disabled \cup {t}
    OBVIOUS
  <2> HIDE DEF k, d, x
  <2>5. Made(m, k, {t})
    BY <2>2, <2>3, <2>4 DEF Made, Settled, Attached, Apart
  <2> QED BY <2>1, <2>3, <2>5
<1>6. m.type[t] = NoType /\ m.parsed /\ t \notin m.disabled => DOMAIN r = MediaFields /\ Made(m, r, {t})
  BY <1>1 DEF MediaFields, Made, Settled, Attached, Apart
<1>7. t \notin m.disabled /\ (m.type[t] # NoType \/ ~m.parsed) => Made(m, n, {t})
  <2>1. /\ DOMAIN n = MediaFields
        /\ n.ready = m.ready /\ n.parsed = m.parsed /\ n.streaming = m.streaming
        /\ n.inits = m.inits /\ n.doing = m.doing
        /\ n.disabled = m.disabled /\ n.refused = m.refused
        /\ \A s \in Tracks : n.type[s] = IF s = t THEN codec ELSE m.type[s]
    BY <1>1 DEF MediaFields
  <2> HIDE DEF n
  <2> QED BY <2>1 DEF Made, Settled, Attached, Apart
<1> HIDE DEF d, r, n, e
<1> QED BY <1>1, <1>2, <1>3, <1>4, <1>5, <1>6, <1>7

\* What the init segments that wait come to once the MediaSource takes them.
LEMMA FlushMade ==
  ASSUME NEW m, MediaKept(m), Coded(m.inits), Open(m)
  PROVE  LET o == [m EXCEPT !.inits = <<>>] IN
         /\ Made(o, flushPendingSourceBufferInit(m), Tracked(m.inits))
         /\ MediaKept(o)
<1> DEFINE len == Len(m.inits)
           f == CHOOSE g : Creates(g, m, len)
           o == [m EXCEPT !.inits = <<>>]
           X(n) == {m.inits[i].track : i \in 1..n}
<1>1. flushPendingSourceBufferInit(m) = f[len] /\ Tracked(m.inits) = X(len)
  BY DEF flushPendingSourceBufferInit, Creates, Tracked
<1>2. len \in Nat /\ \A i \in 1..len : m.inits[i].track \in Tracks /\ m.inits[i].codec # NoType
  BY DEF MediaKept, Inits, Coded
<1> HIDE DEF len
<1>3. Creates(f, m, len)
  BY <1>2, CreatesExist
<1> HIDE DEF f
<1>4. \A n \in 0..len : f[n] = IF n = 0 THEN o
                               ELSE createSourceBuffer(f[n - 1], m.inits[n].track, m.inits[n].codec)
  BY <1>3 DEF Creates
<1> DEFINE G == {n \in 0..len : MediaKept(f[n]) /\ Made(o, f[n], X(n))}
<1>a. MediaKept(o)
  BY NoInits DEF MediaKept, MediaFields
<1> HIDE DEF o
<1>5. 0 \in G
  <2>1. f[0] = o
    BY <1>2, <1>4
  <2>2. X(0) = {}
    OBVIOUS
  <2> HIDE DEF X
  <2> QED BY <1>2, <1>a, <2>1, <2>2, MadeMade
<1>6. ASSUME NEW n \in 0..len-1, n \in G PROVE n + 1 \in G
  <2>1. n + 1 \in 0..len /\ n + 1 \in 1..len /\ (n + 1) - 1 = n /\ n + 1 # 0
    BY <1>2
  <2> DEFINE t == m.inits[n + 1].track
  <2>2. f[n + 1] = createSourceBuffer(f[n], t, m.inits[n + 1].codec)
    BY <1>4, <2>1
  <2>3. t \in Tracks /\ m.inits[n + 1].codec # NoType
    BY <1>2, <2>1
  <2>4. X(n + 1) = X(n) \cup {t}
    <3>1. \A i \in 1..n+1 : i = n + 1 \/ i \in 1..n
      OBVIOUS
    <3>2. n + 1 \in 1..n+1 /\ \A i \in 1..n : i \in 1..n+1
      OBVIOUS
    <3> QED BY <3>1, <3>2
  <2>5. MediaKept(f[n]) /\ Made(o, f[n], X(n))
    BY <1>6
  <2> HIDE DEF t, X
  <2>6. MediaKept(f[n + 1]) /\ Made(f[n], f[n + 1], {t})
    BY <2>2, <2>3, <2>5, CreateGrows, CreateMade DEF Grows
  <2>7. Made(o, f[n + 1], X(n + 1))
    BY <2>4, <2>5, <2>6, MadeMade
  <2> QED BY <2>1, <2>6, <2>7
<1>7. len \in G
  <2> HIDE DEF G
  <2> QED BY <1>2, <1>5, <1>6, Reaches
<1>8. Made(o, f[len], X(len))
  BY <1>7
<1> HIDE DEF X
<1> QED BY <1>1, <1>8, <1>a DEF o

-----------------------------------------------------------------------------
(* The buffers of a load                                                   *)

\* The buffers m of a load with init segments of the tracks F: none was refused, and none
\* will be, for the first init segment is not parsed before all of F are settled.
Begun(m, F) ==
  /\ ~m.refused /\ Coded(m.inits) /\ Apart(m)
  /\ m.dead => m.ready = "closed"
  /\ ~m.dead =>
       /\ m.parsed => Attached(m) # {}
       /\ Attached(m) # {} => Tracked(m.inits) \cup F \subseteq Settled(m)
       /\ Known(m) # {} => F \subseteq Known(m)

\* And no init segment waits for a MediaSource that takes it.
Ready(m, F) ==
  /\ Begun(m, F)
  /\ ~m.dead /\ Open(m) /\ m.streaming /\ Tracked(m.inits) # {} => Attached(m) # {}

LEMMA StillReady ==
  ASSUME NEW m, NEW n, NEW F, Still(m, n), n.dead = m.dead, n.ready = "closed" <=> m.ready = "closed"
  PROVE  Ready(m, F) => Ready(n, F)
<1>1. Settled(n) = Settled(m) /\ Attached(n) = Attached(m) /\ Known(n) = Known(m)
  BY DEF Still, Settled, Attached, Known
<1> QED BY <1>1 DEF Still, Ready, Begun

\* A MediaSource that opens, or takes data again.
LEMMA FlushReady ==
  ASSUME NEW m, MediaKept(m), NEW F, Begun(m, F), ~m.dead, Open(m)
  PROVE  LET n == flushPendingSourceBufferInit(m) IN Ready(n, F) /\ Known(n) = Known(m)
<1> DEFINE o == [m EXCEPT !.inits = <<>>]
           n == flushPendingSourceBufferInit(m)
           Y == Tracked(m.inits)
<1>1. Made(o, n, Y) /\ n.dead = m.dead /\ n.ready = m.ready
  <2>1. Made(o, n, Y)
    BY FlushMade DEF Begun
  <2>2. o.ready = m.ready
    BY DEF MediaKept, MediaFields
  <2>3. n.dead = m.dead
    BY FlushGrows DEF Grows
  <2> QED BY <2>1, <2>2, <2>3 DEF Made
<1>2. /\ Settled(o) = Settled(m) /\ Attached(o) = Attached(m) /\ o.refused = m.refused
      /\ o.parsed = m.parsed /\ o.ready = m.ready /\ Tracked(o.inits) = {} /\ Coded(o.inits)
      /\ Apart(o) <=> Apart(m)
  BY NoTracks DEF MediaKept, MediaFields, Settled, Attached, Apart
<1> HIDE DEF o, n, Y
<1>3. ~n.refused /\ Coded(n.inits) /\ Apart(n)
  BY <1>1, <1>2 DEF Made, Begun, Y
<1>4. Tracked(n.inits) = {} /\ Settled(n) = Known(m) /\ Known(n) = Settled(n)
  BY <1>1, <1>2, <1>3 DEF Made, Open, Known, Y
<1>5. Attached(n) # {} => Settled(n) # {}
  BY DEF Attached, Settled
<1>6. n.parsed => Attached(n) # {}
  BY <1>1, <1>2 DEF Made, Begun
<1> QED BY <1>1, <1>3, <1>4, <1>5, <1>6 DEF Begun, Ready, n, Open

\* What appending init segments of a set of tracks does to m.
Taking(m) == Open(m) /\ m.streaming

Took(m, n, Y) ==
  /\ n.parsed = m.parsed /\ n.streaming = m.streaming /\ (Open(n) <=> Open(m))
  /\ Apart(m) => Apart(n)
  /\ Coded(m.inits) => Coded(n.inits)
  /\ Settled(m) \subseteq Settled(n) /\ Attached(m) \subseteq Attached(n)
  /\ m.refused => n.refused
  /\ (m.parsed => Y \subseteq Settled(m)) /\ n.refused => m.refused
  /\ Taking(m) =>
       Tracked(n.inits) \subseteq Tracked(m.inits) /\ (n.refused \/ Y \subseteq Settled(n))
  /\ ~Taking(m) =>
       /\ Settled(n) = Settled(m) /\ Attached(n) = Attached(m) /\ n.refused = m.refused
       /\ Tracked(n.inits) \subseteq Tracked(m.inits) \cup Y
       /\ Known(m) \cup Y \subseteq Known(n)

LEMMA TookTook ==
  /\ \A m : Took(m, m, {})
  /\ \A m, n, o, X, Y : Took(m, n, X) /\ Took(n, o, Y) => Took(m, o, X \cup Y)
<1>1. \A m : Took(m, m, {})
  BY DEF Took
<1>2. ASSUME NEW m, NEW n, NEW o, NEW X, NEW Y, Took(m, n, X), Took(n, o, Y)
      PROVE  Took(m, o, X \cup Y)
  <2>1. CASE Taking(m)
    <3>1. Taking(n)
      BY <1>2, <2>1 DEF Took, Taking
    <3> QED BY <1>2, <2>1, <3>1 DEF Took
  <2>2. CASE ~Taking(m)
    <3>1. ~Taking(n)
      BY <1>2, <2>2 DEF Took, Taking
    <3> QED BY <1>2, <2>2, <3>1 DEF Took
  <2> QED BY <2>1, <2>2
<1> QED BY <1>1, <1>2

LEMMA InitTook ==
  ASSUME NEW m, MediaKept(m), NEW t \in Tracks, NEW codec, codec # NoType, NEW cur
  PROVE  Took(m, appendInit(m, t, codec, cur), {t})
<1> DEFINE e == [track |-> t, codec |-> codec]
           i == Append(m.inits, e)
           w == [m EXCEPT !.inits = i]
           q == Queued(w, t, "init", codec)
           n == createSourceBuffer(m, t, codec)
           k == Queued(n, t, "init", codec)
<1>1. \/ t \in m.disabled /\ appendInit(m, t, codec, cur) = m
      \/ ~Taking(m) /\ appendInit(m, t, codec, cur) = q
      \/ Taking(m) /\ appendInit(m, t, codec, cur) \in {n, tryAppendPending(k, cur)}
  BY Zenon DEF appendInit, Taking
<1>2. t \in m.disabled => Took(m, m, {t})
  <2>1. t \in m.disabled => t \in Settled(m) /\ t \in Known(m)
    BY DEF Settled, Known
  <2> QED BY <2>1 DEF Took
<1>3. ~Taking(m) => Took(m, q, {t})
  <2>1. /\ e.track = t /\ e.codec = codec
    OBVIOUS
  <2> HIDE DEF e
  <2>2. Tracked(i) = Tracked(m.inits) \cup {t} /\ (Coded(m.inits) => Coded(i)) /\ Inits(i)
    BY <2>1, TrackedMore, InitsMore DEF MediaKept
  <2> HIDE DEF i
  <2>3. MediaKept(w) /\ w.inits = i /\ w.ready = m.ready /\ w.parsed = m.parsed
        /\ w.streaming = m.streaming /\ w.type = m.type /\ w.doing = m.doing
        /\ w.disabled = m.disabled /\ w.refused = m.refused
    BY <2>2 DEF MediaKept, MediaFields
  <2> HIDE DEF w
  <2>4. Still(w, q) /\ q.ready = w.ready
    BY <2>3, QueuedStill
  <2> HIDE DEF q
  <2> QED BY <2>2, <2>3, <2>4 DEF Still, Took, Apart, Settled, Attached, Open, Known
<1>4. Taking(m) => Made(m, n, {t}) /\ Took(m, n, {t}) /\ Taking(n) /\ MediaKept(n)
  <2>1. Made(m, n, {t}) /\ MediaKept(n)
    BY CreateMade, CreateGrows DEF Grows
  <2> HIDE DEF n
  <2> QED BY <2>1 DEF Made, Took, Open, Taking
<1>5. Taking(m) => Took(m, tryAppendPending(k, cur), {t})
  <2> SUFFICES ASSUME Taking(m) PROVE Took(m, tryAppendPending(k, cur), {t})
    OBVIOUS
  <2> HIDE DEF n
  <2>1. Still(n, k) /\ k.ready = n.ready /\ MediaKept(k)
    BY <1>4, QueuedStill, QueuedGrows DEF Grows
  <2> HIDE DEF k
  <2>2. Still(k, tryAppendPending(k, cur)) /\ (Open(k) <=> Open(tryAppendPending(k, cur)))
    BY <2>1, PendingStill
  <2> DEFINE z == tryAppendPending(k, cur)
  <2> HIDE DEF z
  <2>3. Still(n, z) /\ (Open(n) <=> Open(z))
    BY <2>1, <2>2, StillStill DEF Open, z
  <2>4. Took(n, z, {})
    BY <2>3 DEF Still, Took, Settled, Attached, Known
  <2>5. Took(m, z, {t} \cup {})
    BY <1>4, <2>4, TookTook
  <2> QED BY <2>5 DEF z
<1> HIDE DEF q, n, k
<1> QED BY <1>1, <1>2, <1>3, <1>4, <1>5

LEMMA FlushedTook ==
  ASSUME NEW m, MediaKept(m), NEW inits, Inits(inits), Coded(inits)
  PROVE  Took(m, flushPendingInits(m, inits), Tracked(inits))
<1> DEFINE len == Len(inits)
           f == CHOOSE g : Appends(g, m, inits, video.cur, len)
           X(n) == {inits[i].track : i \in 1..n}
<1>1. flushPendingInits(m, inits) = f[len] /\ Tracked(inits) = X(len)
  BY DEF flushPendingInits, Appends, Tracked
<1>2. len \in Nat /\ \A i \in 1..len : inits[i].track \in Tracks /\ inits[i].codec # NoType
  BY DEF Inits, Coded
<1> HIDE DEF len
<1>3. Appends(f, m, inits, video.cur, len)
  BY <1>2, AppendsExist
<1> HIDE DEF f
<1>4. \A n \in 0..len :
        f[n] = IF n = 0 THEN m ELSE appendInit(f[n - 1], inits[n].track, inits[n].codec, video.cur)
  BY <1>3 DEF Appends
<1> DEFINE G == {n \in 0..len : MediaKept(f[n]) /\ Took(m, f[n], X(n))}
<1>5. 0 \in G
  <2>1. f[0] = m
    BY <1>2, <1>4
  <2>2. X(0) = {}
    OBVIOUS
  <2> HIDE DEF X
  <2> QED BY <1>2, <2>1, <2>2, TookTook
<1>6. ASSUME NEW n \in 0..len-1, n \in G PROVE n + 1 \in G
  <2>1. n + 1 \in 0..len /\ n + 1 \in 1..len /\ (n + 1) - 1 = n /\ n + 1 # 0
    BY <1>2
  <2> DEFINE t == inits[n + 1].track
  <2>2. f[n + 1] = appendInit(f[n], t, inits[n + 1].codec, video.cur)
    BY <1>4, <2>1
  <2>3. t \in Tracks /\ inits[n + 1].codec # NoType
    BY <1>2, <2>1
  <2>4. X(n + 1) = X(n) \cup {t}
    <3>1. \A i \in 1..n+1 : i = n + 1 \/ i \in 1..n
      OBVIOUS
    <3>2. n + 1 \in 1..n+1 /\ \A i \in 1..n : i \in 1..n+1
      OBVIOUS
    <3> QED BY <3>1, <3>2
  <2>5. MediaKept(f[n]) /\ Took(m, f[n], X(n))
    BY <1>6
  <2> HIDE DEF t, X
  <2>6. MediaKept(f[n + 1]) /\ Took(f[n], f[n + 1], {t})
    BY <2>2, <2>3, <2>5, InitGrows, InitTook DEF Grows
  <2>7. Took(m, f[n + 1], X(n + 1))
    BY <2>4, <2>5, <2>6, TookTook
  <2> QED BY <2>1, <2>6, <2>7
<1>7. len \in G
  <2> HIDE DEF G
  <2> QED BY <1>2, <1>5, <1>6, Reaches
<1>8. Took(m, f[len], X(len))
  BY <1>7
<1> QED BY <1>1, <1>8

\* The init segments that wait are appended: if they are the first, of every track.
LEMMA FlushedReady ==
  ASSUME NEW m, MediaKept(m), NEW F, Ready(m, F), NEW inits, Inits(inits), Coded(inits),
         Tracked(inits) \subseteq F, ~m.dead /\ Known(m) = {} => F \subseteq Tracked(inits)
  PROVE  /\ Ready(flushPendingInits(m, inits), F)
         /\ Known(m) \cup Tracked(inits) \subseteq Known(flushPendingInits(m, inits))
<1> DEFINE n == flushPendingInits(m, inits)
           X == Tracked(inits)
<1>1. Took(m, n, X) /\ n.dead = m.dead /\ (n.ready = "closed" <=> m.ready = "closed")
  BY FlushedTook, FlushedGrows DEF Grows
<1> HIDE DEF n, X
<1>2. CASE m.dead
  <2>1. ~Open(m) /\ n.ready = "closed"
    BY <1>1, <1>2 DEF Ready, Begun, Open
  <2> QED BY <1>1, <1>2, <2>1 DEF Ready, Begun, Took, Taking, n, X
<1>3. CASE ~m.dead /\ Taking(m)
  <2>1. Attached(m) = {} => Tracked(m.inits) = {} /\ ~m.parsed
    BY <1>3 DEF Ready, Begun, Taking
  <2>2. Attached(m) # {} => Tracked(m.inits) \cup F \subseteq Settled(m)
    BY <1>3 DEF Ready, Begun
  <2>3. Known(m) # {} => F \subseteq Known(m)
    BY <1>3 DEF Ready, Begun
  <2>4. m.parsed => X \subseteq Settled(m)
    BY <2>1, <2>2 DEF X
  <2>5. ~n.refused
    BY <1>1, <2>4 DEF Took, Ready, Begun
  <2>6. X \subseteq Settled(n) /\ Tracked(n.inits) \subseteq Tracked(m.inits)
    BY <1>1, <1>3, <2>5 DEF Took
  <2>7. F \subseteq Settled(n)
    <3>1. CASE Known(m) = {}
      BY <1>3, <2>6, <3>1 DEF X
    <3>2. CASE Known(m) # {} /\ Attached(m) = {}
      BY <1>1, <2>1, <2>3, <3>2 DEF Known, Took
    <3>3. CASE Attached(m) # {}
      BY <1>1, <2>2, <3>3 DEF Took
    <3> QED BY <3>1, <3>2, <3>3
  <2>8. Tracked(n.inits) \subseteq Settled(n)
    BY <1>1, <2>1, <2>2, <2>6 DEF Took
  <2>9. n.parsed => Attached(n) # {}
    BY <1>1, <2>1 DEF Took
  <2>10. Tracked(n.inits) # {} => Attached(n) # {}
    BY <1>1, <2>1, <2>6 DEF Took
  <2>11. Coded(n.inits) /\ Apart(n)
    BY <1>1 DEF Took, Ready, Begun
  <2>12. Known(m) \cup X \subseteq Known(n)
    BY <1>1, <2>1, <2>2, <2>6 DEF Took, Known
  <2> QED BY <1>1, <1>3, <2>5, <2>7, <2>8, <2>9, <2>10, <2>11, <2>12 DEF Ready, Begun, Known, n, X
<1>4. CASE ~m.dead /\ ~Taking(m)
  <2>1. /\ Settled(n) = Settled(m) /\ Attached(n) = Attached(m) /\ ~n.refused /\ n.parsed = m.parsed
        /\ Tracked(n.inits) \subseteq Tracked(m.inits) \cup X /\ Known(m) \cup X \subseteq Known(n)
        /\ Coded(n.inits) /\ Apart(n) /\ ~(Open(n) /\ n.streaming)
    BY <1>1, <1>4 DEF Took, Ready, Begun, Taking
  <2>2. F \subseteq Known(n)
    <3>1. CASE Known(m) = {}
      BY <1>4, <2>1, <3>1 DEF X
    <3>2. CASE Known(m) # {}
      BY <1>4, <2>1, <3>2 DEF Ready, Begun
    <3> QED BY <3>1, <3>2
  <2>3. Attached(n) # {} => Tracked(n.inits) \cup F \subseteq Settled(n)
    BY <1>4, <2>1 DEF Ready, Begun, X
  <2>4. n.parsed => Attached(n) # {}
    BY <1>4, <2>1 DEF Ready, Begun
  <2> QED BY <1>1, <1>4, <2>1, <2>2, <2>3, <2>4 DEF Ready, Begun, n, X
<1> QED BY <1>2, <1>3, <1>4

LEMMA FinishedReady ==
  ASSUME NEW m, MediaKept(m), NEW t \in Tracks, Updating(m, t), NEW F, Ready(m, F)
  PROVE  Ready(Finished(m, t), F) /\ Known(Finished(m, t)) = Known(m)
<1> DEFINE d == m.due \cup {t}
           n == [m EXCEPT !.doing[t] = Idle, !.due = d]
           r == IF m.garbled THEN "ended" ELSE n.ready
           h == IF m.garbled THEN n.hi[t] ELSE n.hi[t] + 1
           l == Max({n.lo[t], n.upto[t]})
<1>1. /\ DOMAIN n = MediaFields /\ n.ready = m.ready /\ n.parsed = m.parsed /\ n.dead = m.dead
      /\ n.streaming = m.streaming /\ n.type = m.type /\ n.disabled = m.disabled
      /\ n.inits = m.inits /\ n.refused = m.refused /\ n.upto = m.upto
      /\ \A s \in Tracks : n.doing[s] = IF s = t THEN Idle ELSE m.doing[s]
  BY DEF MediaKept, MediaFields
<1>2. m.doing[t] \in {"init", "media", "remove"} /\ m.ready # "closed"
  BY DEF MediaKept, Updating, Idle
<1>3. Finished(m, t) \in {[n EXCEPT !.parsed = TRUE, !.ready = r], [n EXCEPT !.hi[t] = h, !.ready = r],
                          [n EXCEPT !.lo[t] = l]}
  <2> HIDE DEF l, n
  <2>1. Finished(m, t) =
          CASE m.doing[t] = "init" -> [n EXCEPT !.parsed = TRUE, !.ready = r]
            [] m.doing[t] = "media" -> [n EXCEPT !.hi[t] = h, !.ready = r]
            [] m.doing[t] = "remove" -> [n EXCEPT !.lo[t] = l]
    BY <1>1, Zenon DEF Finished, n, d, l
  <2> HIDE DEF r, h
  <2> QED BY <1>2, <2>1
<1>4. r \in {"ended", m.ready}
  <2> HIDE DEF n
  <2> QED BY <1>1
<1> HIDE DEF n, r, h, l
<1>5. Attached(m) # {} /\ ~m.dead
  <2>1. m.type[t] # NoType
    BY DEF Ready, Begun, Apart, Updating
  <2> QED BY <1>2, <2>1 DEF Attached, Ready, Begun
<1>6. ASSUME NEW o, DOMAIN o = MediaFields, o.ready \in {"ended", m.ready}, o.dead = m.dead,
             o.streaming = m.streaming, o.type = m.type, o.disabled = m.disabled, o.inits = m.inits,
             o.refused = m.refused, o.doing = n.doing
      PROVE  Ready(o, F) /\ Known(o) = Known(m)
  <2>1. Settled(o) = Settled(m) /\ Attached(o) = Attached(m) /\ Known(o) = Known(m)
    BY <1>6 DEF Settled, Attached, Known
  <2>2. Apart(o)
    BY <1>1, <1>6 DEF Ready, Begun, Apart
  <2> QED BY <1>5, <1>6, <2>1, <2>2 DEF Ready, Begun
<1>7. Ready([n EXCEPT !.parsed = TRUE, !.ready = r], F) /\ Known([n EXCEPT !.parsed = TRUE, !.ready = r]) = Known(m)
  <2> DEFINE o == [n EXCEPT !.parsed = TRUE, !.ready = r]
  <2>1. DOMAIN o = MediaFields /\ o.ready \in {"ended", m.ready} /\ o.dead = m.dead /\
        o.streaming = m.streaming /\ o.type = m.type /\ o.disabled = m.disabled /\ o.inits = m.inits /\
        o.refused = m.refused /\ o.doing = n.doing
    BY <1>1, <1>4 DEF MediaFields
  <2> HIDE DEF o
  <2>2. Ready(o, F) /\ Known(o) = Known(m)
    BY <1>6, <2>1
  <2> QED BY <2>2 DEF o
<1>8. Ready([n EXCEPT !.hi[t] = h, !.ready = r], F) /\ Known([n EXCEPT !.hi[t] = h, !.ready = r]) = Known(m)
  <2> DEFINE o == [n EXCEPT !.hi[t] = h, !.ready = r]
  <2>1. DOMAIN o = MediaFields /\ o.ready \in {"ended", m.ready} /\ o.dead = m.dead /\
        o.streaming = m.streaming /\ o.type = m.type /\ o.disabled = m.disabled /\ o.inits = m.inits /\
        o.refused = m.refused /\ o.doing = n.doing
    BY <1>1, <1>4 DEF MediaFields
  <2> HIDE DEF o
  <2>2. Ready(o, F) /\ Known(o) = Known(m)
    BY <1>6, <2>1
  <2> QED BY <2>2 DEF o
<1>9. Ready([n EXCEPT !.lo[t] = l], F) /\ Known([n EXCEPT !.lo[t] = l]) = Known(m)
  <2> DEFINE o == [n EXCEPT !.lo[t] = l]
  <2>1. DOMAIN o = MediaFields /\ o.ready \in {"ended", m.ready} /\ o.dead = m.dead /\
        o.streaming = m.streaming /\ o.type = m.type /\ o.disabled = m.disabled /\ o.inits = m.inits /\
        o.refused = m.refused /\ o.doing = n.doing
    BY <1>1, <1>4 DEF MediaFields
  <2> HIDE DEF o
  <2>2. Ready(o, F) /\ Known(o) = Known(m)
    BY <1>6, <2>1
  <2> QED BY <2>2 DEF o
<1> QED BY <1>3, <1>7, <1>8, <1>9

LEMMA SourceReady ==
  ASSUME NEW m, MediaKept(m), NEW F, Ready(m, F), ~m.dead, NEW cur
  PROVE  /\ Ready(onSourceOpen(m, cur), F) /\ Known(onSourceOpen(m, cur)) = Known(m)
         /\ Open(m) => Ready(onStartStreaming(m, cur), F) /\ Known(onStartStreaming(m, cur)) = Known(m)
         /\ Ready(onEndStreaming(m), F) /\ Known(onEndStreaming(m)) = Known(m)
<1>1. ASSUME NEW o, MediaKept(o), Begun(o, F), ~o.dead, Open(o), NEW c
      PROVE  LET n == Call(tryAppendPending(flushPendingSourceBufferInit(o), cur), c) IN
             Ready(n, F) /\ Known(n) = Known(o)
  <2> DEFINE p == flushPendingSourceBufferInit(o)
             q == tryAppendPending(p, cur)
  <2>1. MediaKept(p) /\ Ready(p, F) /\ Known(p) = Known(o)
    BY <1>1, FlushGrows, FlushReady DEF Grows
  <2> HIDE DEF p
  <2>2. MediaKept(q) /\ Ready(q, F) /\ Known(q) = Known(o)
    <3>1. Grows(p, q) /\ Still(p, q)
      BY <2>1, PendingGrows, PendingStill
    <3> HIDE DEF q
    <3>2. Known(q) = Known(p)
      BY <3>1 DEF Still, Known, Settled
    <3> QED BY <2>1, <3>1, <3>2, StillReady DEF Grows
  <2> HIDE DEF q
  <2>3. Still(q, Call(q, c)) /\ Call(q, c).ready = q.ready /\ Call(q, c).dead = q.dead
    <3>1. Still(q, Call(q, c)) /\ Call(q, c).ready = q.ready
      BY <2>2, CallStill
    <3>2. Call(q, c).dead = q.dead
      BY <2>2 DEF MediaKept, MediaFields, Call
    <3> QED BY <3>1, <3>2
  <2>4. Ready(Call(q, c), F) /\ Known(Call(q, c)) = Known(o)
    <3> DEFINE k == Call(q, c)
    <3> HIDE DEF k
    <3>1. Ready(k, F) /\ Known(k) = Known(q)
      BY <2>2, <2>3, StillReady DEF Still, Known, Settled, k
    <3> QED BY <2>2, <3>1 DEF k
  <2> QED BY <2>4 DEF q, p
<1>2. ASSUME NEW o, DOMAIN o = MediaFields, o.parsed = m.parsed, ~o.dead,
             o.type = m.type, o.disabled = m.disabled, o.inits = m.inits,
             o.refused = m.refused, o.doing = m.doing
      PROVE  Begun(o, F) /\ Known(o) = Known(m)
  <2>1. Settled(o) = Settled(m) /\ Attached(o) = Attached(m) /\ Known(o) = Known(m)
    BY <1>2 DEF Settled, Attached, Known
  <2> QED BY <1>2, <2>1 DEF Ready, Begun, Apart
<1>3. Ready(onSourceOpen(m, cur), F) /\ Known(onSourceOpen(m, cur)) = Known(m)
  <2> DEFINE o == [m EXCEPT !.ready = "open"]
  <2>1. /\ MediaKept(o) /\ ~o.dead /\ Open(o) /\ o.parsed = m.parsed
        /\ o.type = m.type /\ o.disabled = m.disabled /\ o.inits = m.inits
        /\ o.refused = m.refused /\ o.doing = m.doing
    BY DEF MediaKept, MediaFields, Open
  <2> HIDE DEF o
  <2>2. Begun(o, F) /\ Known(o) = Known(m)
    BY <1>2, <2>1 DEF MediaKept
  <2> QED BY <1>1, <2>1, <2>2 DEF onSourceOpen, o
<1>4. Open(m) => Ready(onStartStreaming(m, cur), F) /\ Known(onStartStreaming(m, cur)) = Known(m)
  <2> DEFINE o == [m EXCEPT !.streaming = TRUE]
  <2>1. /\ MediaKept(o) /\ ~o.dead /\ (Open(m) => Open(o)) /\ o.parsed = m.parsed
        /\ o.type = m.type /\ o.disabled = m.disabled /\ o.inits = m.inits
        /\ o.refused = m.refused /\ o.doing = m.doing
    BY DEF MediaKept, MediaFields, Open
  <2> HIDE DEF o
  <2>2. Begun(o, F) /\ Known(o) = Known(m)
    BY <1>2, <2>1 DEF MediaKept
  <2> QED BY <1>1, <2>1, <2>2 DEF onStartStreaming, o
<1>5. Ready(onEndStreaming(m), F) /\ Known(onEndStreaming(m)) = Known(m)
  <2> DEFINE o == [m EXCEPT !.streaming = FALSE]
  <2>1. /\ DOMAIN o = MediaFields /\ ~o.dead /\ ~o.streaming /\ o.parsed = m.parsed
        /\ o.type = m.type /\ o.disabled = m.disabled /\ o.inits = m.inits
        /\ o.refused = m.refused /\ o.doing = m.doing
    BY DEF MediaKept, MediaFields
  <2> HIDE DEF o
  <2>2. Begun(o, F) /\ Known(o) = Known(m)
    BY <1>2, <2>1
  <2> QED BY <2>1, <2>2 DEF Ready, onEndStreaming, o
<1> QED BY <1>3, <1>4, <1>5

\* A MediaSource that was taken away gets no more buffers; a new one has none.
LEMMA EndsReady ==
  ASSUME NEW F, NEW G
  PROVE  /\ \A m : MediaKept(m) /\ Ready(m, F) => Ready(onSourceClose(m), G)
         /\ \A managed : LET m == NewMedia(managed) IN
              /\ Ready(m, G) /\ Ready(setDuration(m), G) /\ Ready([m EXCEPT !.dead = TRUE], G)
              /\ Known(m) = {} /\ Known(setDuration(m)) = {}
<1>1. ASSUME NEW m, MediaKept(m), Ready(m, F) PROVE Ready(onSourceClose(m), G)
  <2> DEFINE p0 == PerTrack(0)
             pn == PerTrack(NoType)
             pi == PerTrack(Idle)
             n == [m EXCEPT !.ready = "closed", !.dead = TRUE, !.type = pn, !.doing = pi, !.due = {},
                            !.lo = p0, !.hi = p0]
  <2>1. onSourceClose(m) = Call(n, "close")
    BY DEF onSourceClose
  <2>2. \A t \in Tracks : pi[t] = Idle
    BY DEF PerTrack
  <2> HIDE DEF p0, pn, pi
  <2>3. /\ Call(n, "close").ready = "closed" /\ Call(n, "close").dead
        /\ Call(n, "close").refused = m.refused /\ Call(n, "close").inits = m.inits
        /\ Call(n, "close").doing = pi
    BY <1>1 DEF MediaKept, MediaFields, Call
  <2> QED BY <1>1, <2>1, <2>2, <2>3 DEF Ready, Begun, Apart
<1>2. ASSUME NEW managed
      PROVE  LET m == NewMedia(managed) IN
             /\ Ready(m, G) /\ Ready(setDuration(m), G) /\ Ready([m EXCEPT !.dead = TRUE], G)
             /\ Known(m) = {} /\ Known(setDuration(m)) = {}
  <2> DEFINE m == NewMedia(managed)
  <2>1. /\ MediaKept(m) /\ m.ready = "closed" /\ ~m.dead /\ ~m.refused /\ ~m.parsed
        /\ m.inits = <<>> /\ m.disabled = {} /\ \A t \in Tracks : m.type[t] = NoType /\ m.doing[t] = Idle
    <3>1. MediaKept(m)
      BY NewFresh
    <3>2. m.ready = "closed" /\ ~m.dead /\ ~m.refused /\ ~m.parsed /\ m.inits = <<>> /\ m.disabled = {}
      BY DEF NewMedia
    <3>3. m.type = PerTrack(NoType) /\ m.doing = PerTrack(Idle)
      BY DEF NewMedia
    <3> QED BY <3>1, <3>2, <3>3 DEF PerTrack
  <2> HIDE DEF m
  <2>2. Tracked(m.inits) = {} /\ Coded(m.inits) /\ Attached(m) = {} /\ Settled(m) = {} /\ Known(m) = {}
        /\ Apart(m)
    BY <2>1, NoTracks DEF Attached, Settled, Known, Apart
  <2>3. Ready(m, G)
    BY <2>1, <2>2 DEF Ready, Begun
  <2>4. Still(m, setDuration(m)) /\ Grows(m, setDuration(m))
    BY <2>1, DurationStill, DurationGrows
  <2>5. Ready(setDuration(m), G) /\ Known(setDuration(m)) = {}
    <3> DEFINE n == setDuration(m)
    <3> HIDE DEF n
    <3>1. Ready(n, G) /\ Known(n) = Known(m)
      BY <2>3, <2>4, StillReady DEF Grows, Still, Known, Settled, n
    <3> QED BY <2>2, <3>1 DEF n
  <2>6. Ready([m EXCEPT !.dead = TRUE], G)
    <3> DEFINE n == [m EXCEPT !.dead = TRUE]
    <3>1. n.ready = "closed" /\ n.dead /\ n.refused = m.refused /\ n.inits = m.inits
          /\ n.doing = m.doing /\ n.type = m.type
      BY <2>1 DEF MediaKept, MediaFields
    <3> HIDE DEF n
    <3>2. Ready(n, G)
      BY <2>1, <2>2, <3>1 DEF Ready, Begun, Apart
    <3> QED BY <3>2 DEF n
  <2> QED BY <2>2, <2>3, <2>5, <2>6 DEF m
<1> QED BY <1>1, <1>2

-----------------------------------------------------------------------------
(* Init segments on their way                                              *)

\* The message of the stream of the worker w that the i-th of the messages s under way is.
Place(w, s, i) == w.next - 1 - (Len(s) - i)

\* The messages s under way from the worker w to the controller c, and the init segments that
\* wait there, are those of its stream; when none of its tracks has got a buffer, all of
\* them so far.
InPlace(c, w, s, none) ==
  /\ w.gen = c.gen => w.stream = c.stream /\ w.next <= Len(c.stream.messages) + 1
  /\ \A i \in 1..Len(s) : s[i].gen = c.gen =>
       /\ w.gen = c.gen /\ Place(w, s, i) \in 1..Len(c.stream.messages)
       /\ s[i].msg = c.stream.messages[Place(w, s, i)]
  /\ \A i \in 1..Len(c.inits) :
       /\ w.gen = c.gen
       /\ \E j \in 1..w.next-1 :
            /\ IsInit(c.stream.messages[j]) /\ c.inits[i] = c.stream.messages[j]
            /\ \A k \in 1..Len(s) : s[k].gen = c.gen => j < Place(w, s, k)
  /\ none /\ w.gen = c.gen =>
       \A j \in 1..w.next-1 : IsInit(c.stream.messages[j]) =>
         \/ c.stream.messages[j].track \in Tracked(c.inits)
         \/ \E i \in 1..Len(s) : s[i].gen = c.gen /\ Place(w, s, i) = j

LEMMA SamePlace ==
  ASSUME NEW c, NEW d, NEW w, NEW s, NEW x, NEW y, InPlace(c, w, s, x), y => x,
         d.gen = c.gen, d.stream = c.stream, d.inits = c.inits
  PROVE  InPlace(d, w, s, y)
BY DEF InPlace

\* The controller has taken a message: one of an older load, an init segment that waits
\* with the others, or one that has them appended.
LEMMA TailPlace ==
  ASSUME NEW c, Inits(c.inits), NEW w, w.next \in Nat, NEW s, s # <<>>, \E S : s \in Seq(S),
         NEW x, InPlace(c, w, s, x), NEW d, d.gen = c.gen, d.stream = c.stream, NEW y, y => x,
         Head(s).gen # c.gen => d.inits = c.inits,
         Head(s).gen = c.gen =>
           \/ d.inits = c.inits /\ ~IsInit(Head(s).msg)
           \/ d.inits = Append(c.inits, Head(s).msg) /\ IsInit(Head(s).msg)
           \/ d.inits = <<>> /\ ~IsInit(Head(s).msg) /\ (y => Tracked(c.inits) = {})
  PROVE  InPlace(d, w, Tail(s), y)
<1> DEFINE r == Tail(s)
           h == Head(s)
           ms == c.stream.messages
<1>1. /\ Len(s) \in Nat /\ 1 \in 1..Len(s) /\ h = s[1] /\ Len(r) = Len(s) - 1
      /\ \A i \in 1..Len(s) - 1 : r[i] = s[i + 1] /\ i + 1 \in 1..Len(s)
  OBVIOUS
<1>2. /\ \A i \in 1..Len(r) : i + 1 \in 1..Len(s) /\ r[i] = s[i + 1] /\ Place(w, r, i) = Place(w, s, i + 1)
      /\ Place(w, s, 1) <= w.next - 1 /\ Place(w, s, 1) \in Int
      /\ \A i \in 1..Len(r) : Place(w, s, 1) < Place(w, r, i)
      /\ \A i \in 1..Len(s) : i = 1 \/ (i - 1 \in 1..Len(r) /\ Place(w, r, i - 1) = Place(w, s, i)
                                          /\ r[i - 1] = s[i])
  <2> HIDE DEF r, h
  <2> DEFINE n == Len(s)
             m == Len(r)
  <2>1. n \in Nat /\ n >= 1 /\ m = n - 1 /\ \A i \in 1..n - 1 : r[i] = s[i + 1]
    BY <1>1
  <2>2. \A i \in 1..n : Place(w, s, i) = w.next - 1 - (n - i)
    BY DEF Place
  <2>3. \A i \in 1..m : Place(w, r, i) = w.next - 1 - (m - i)
    BY DEF Place
  <2>4. 1 \in 1..n
    BY <2>1
  <2>7. Place(w, s, 1) = w.next - n
    BY <2>1, <2>2, <2>4
  <2> HIDE DEF n, m
  <2>5. \A i \in 1..m : i + 1 \in 1..n /\ r[i] = s[i + 1] /\ w.next - 1 - (m - i) = w.next - 1 - (n - (i + 1))
                        /\ w.next - n < w.next - 1 - (m - i)
    BY <2>1
  <2>6. \A i \in 1..n : i = 1 \/ (i - 1 \in 1..m /\ w.next - 1 - (m - (i - 1)) = w.next - 1 - (n - i)
                                   /\ r[i - 1] = s[i])
    BY <2>1
  <2>8. w.next - n <= w.next - 1 /\ w.next - n \in Int
    BY <2>1
  <2>9. \A i \in 1..m : i + 1 \in 1..n /\ r[i] = s[i + 1] /\ Place(w, r, i) = Place(w, s, i + 1)
                        /\ Place(w, s, 1) < Place(w, r, i)
    BY <2>2, <2>3, <2>5, <2>7
  <2>10. \A i \in 1..n : i = 1 \/ (i - 1 \in 1..m /\ Place(w, r, i - 1) = Place(w, s, i)
                                     /\ r[i - 1] = s[i])
    BY <2>2, <2>3, <2>6
  <2> QED BY <2>7, <2>8, <2>9, <2>10 DEF n, m
<1> HIDE DEF r, h
<1>3. w.gen = d.gen => w.stream = d.stream /\ w.next <= Len(d.stream.messages) + 1
  BY DEF InPlace
<1>4. \A i \in 1..Len(r) : r[i].gen = d.gen =>
        /\ w.gen = d.gen /\ Place(w, r, i) \in 1..Len(d.stream.messages)
        /\ r[i].msg = d.stream.messages[Place(w, r, i)]
  BY <1>2 DEF InPlace
<1> DEFINE From(e) == /\ w.gen = c.gen
                      /\ \E j \in 1..w.next-1 :
                           /\ IsInit(ms[j]) /\ e = ms[j]
                           /\ \A k \in 1..Len(r) : r[k].gen = c.gen => j < Place(w, r, k)
<1>5. ASSUME NEW i \in 1..Len(c.inits) PROVE From(c.inits[i])
  <2>1. PICK j \in 1..w.next-1 : /\ IsInit(ms[j]) /\ c.inits[i] = ms[j]
                                 /\ \A k \in 1..Len(s) : s[k].gen = c.gen => j < Place(w, s, k)
    BY DEF InPlace
  <2>2. \A k \in 1..Len(r) : r[k].gen = c.gen => j < Place(w, r, k)
    BY <1>2, <2>1
  <2>3. w.gen = c.gen
    BY DEF InPlace
  <2> QED BY <2>1, <2>2, <2>3
<1>6. h.gen = c.gen /\ IsInit(h.msg) => From(h.msg)
  <2> SUFFICES ASSUME h.gen = c.gen, IsInit(h.msg) PROVE From(h.msg)
    OBVIOUS
  <2>1. w.gen = c.gen /\ Place(w, s, 1) \in 1..Len(ms) /\ h.msg = ms[Place(w, s, 1)]
    BY <1>1 DEF InPlace
  <2>2. Place(w, s, 1) \in 1..w.next-1
    BY <1>2, <2>1
  <2> QED BY <1>2, <2>1, <2>2
<1>7. PICK Q : c.inits \in Seq(Q)
  BY DEF Inits
<1>8. /\ Tracked(Append(c.inits, h.msg)) = Tracked(c.inits) \cup {h.msg.track}
      /\ \A i \in 1..Len(Append(c.inits, h.msg)) :
           Append(c.inits, h.msg)[i] = h.msg \/ (i \in 1..Len(c.inits) /\ Append(c.inits, h.msg)[i] = c.inits[i])
  <2>1. Tracked(Append(c.inits, h.msg)) = Tracked(c.inits) \cup {h.msg.track}
    BY TrackedMore
  <2> DEFINE e == h.msg
  <2> HIDE DEF e
  <2>2. c.inits \in Seq(Q \cup {e})
    BY <1>7
  <2>3. \A i \in 1..Len(Append(c.inits, e)) :
           Append(c.inits, e)[i] = e \/ (i \in 1..Len(c.inits) /\ Append(c.inits, e)[i] = c.inits[i])
    BY <2>2
  <2> QED BY <2>1, <2>3 DEF e
<1>9. \A i \in 1..Len(d.inits) : From(d.inits[i])
  <2>1. CASE d.inits = c.inits
    BY <1>5, <2>1
  <2>2. CASE h.gen = c.gen /\ IsInit(h.msg) /\ d.inits = Append(c.inits, h.msg)
    <3> HIDE DEF From
    <3> QED BY <1>5, <1>6, <1>8, <2>2
  <2>3. CASE d.inits = <<>>
    <3>1. Len(d.inits) = 0
      BY <2>3
    <3> QED BY <3>1
  <2> QED BY <2>1, <2>2, <2>3 DEF h
<1>10. ASSUME y, w.gen = c.gen, NEW j \in 1..w.next-1, IsInit(ms[j])
       PROVE  \/ ms[j].track \in Tracked(d.inits)
              \/ \E i \in 1..Len(r) : r[i].gen = c.gen /\ Place(w, r, i) = j
  <2>1. ms[j].track \in Tracked(c.inits) \/ \E i \in 1..Len(s) : s[i].gen = c.gen /\ Place(w, s, i) = j
    BY <1>10 DEF InPlace
  <2>2. CASE ms[j].track \in Tracked(c.inits)
    BY <1>8, <1>10, <2>2 DEF h
  <2>3. CASE \E i \in 1..Len(s) : s[i].gen = c.gen /\ Place(w, s, i) = j
    <3>1. PICK i \in 1..Len(s) : s[i].gen = c.gen /\ Place(w, s, i) = j
      BY <2>3
    <3>2. CASE i = 1
      <4>1. h.gen = c.gen /\ h.msg = ms[j]
        BY <1>1, <3>1, <3>2 DEF InPlace
      <4>2. d.inits = Append(c.inits, h.msg)
        BY <1>10, <4>1 DEF h
      <4> QED BY <1>8, <4>1, <4>2
    <3>3. CASE i # 1
      BY <1>2, <3>1, <3>3
    <3> QED BY <3>2, <3>3
  <2> QED BY <2>1, <2>2, <2>3
<1> QED BY <1>3, <1>4, <1>9, <1>10 DEF InPlace, r

\* The worker has posted the next message of its stream.
LEMMA PostPlace ==
  ASSUME NEW c, NEW w, DOMAIN w = WorkerFields, w.next \in Nat, w.next > 0, NEW s, \E S : s \in Seq(S),
         w.next <= Len(w.stream.messages), StreamOk(c.stream), NEW x, InPlace(c, w, s, x)
  PROVE  InPlace(c, [w EXCEPT !.next = @ + 1],
                 Append(s, [gen |-> w.gen, msg |-> w.stream.messages[w.next]]), x)
<1> DEFINE e == [gen |-> w.gen, msg |-> w.stream.messages[w.next]]
           r == Append(s, e)
           n == w.next + 1
           v == [w EXCEPT !.next = n]
           ms == c.stream.messages
<1>0. e.gen = w.gen /\ e.msg = w.stream.messages[w.next]
  OBVIOUS
<1>1. v.gen = w.gen /\ v.stream = w.stream /\ v.next = n /\ n = w.next + 1
  BY DEF WorkerFields
<1> HIDE DEF e, v
<1>2. PICK S : s \in Seq(S)
  OBVIOUS
<1>3. /\ Len(s) \in Nat /\ Len(r) = Len(s) + 1
      /\ \A i \in 1..Len(s)+1 : r[i] = IF i = Len(s) + 1 THEN e ELSE s[i]
  <2>1. s \in Seq(S \cup {e})
    BY <1>2
  <2> QED BY <2>1
<1> HIDE DEF r, n
<1>4. /\ \A i \in 1..Len(r) : (i = Len(r) /\ r[i] = e /\ Place(v, r, i) = w.next)
                              \/ (i \in 1..Len(s) /\ r[i] = s[i] /\ Place(v, r, i) = Place(w, s, i))
      /\ \A i \in 1..Len(s) : i \in 1..Len(r) /\ r[i] = s[i] /\ Place(v, r, i) = Place(w, s, i)
      /\ Len(r) \in 1..Len(r) /\ r[Len(r)] = e /\ Place(v, r, Len(r)) = w.next
  <2> DEFINE a == Len(s)
             b == Len(r)
  <2>1. a \in Nat /\ b = a + 1 /\ \A i \in 1..a+1 : r[i] = IF i = a + 1 THEN e ELSE s[i]
    BY <1>3
  <2>2. \A i \in 1..b : Place(v, r, i) = v.next - 1 - (b - i)
    BY DEF Place
  <2>3. \A i \in 1..a : Place(w, s, i) = w.next - 1 - (a - i)
    BY DEF Place
  <2> HIDE DEF a, b
  <2>4. \A i \in 1..a : i \in 1..b /\ r[i] = s[i] /\ v.next - 1 - (b - i) = w.next - 1 - (a - i)
    <3>1. v.next - 1 = w.next /\ w.next \in Int
      BY <1>1
    <3>2. \A i \in 1..a : i \in 1..b /\ r[i] = s[i]
      BY <2>1
    <3>3. \A i \in 1..a : w.next - (b - i) = w.next - 1 - (a - i)
      BY <2>1
    <3> QED BY <3>1, <3>2, <3>3
  <2>5. b \in 1..b /\ r[b] = e /\ v.next - 1 - (b - b) = w.next
    BY <1>1, <2>1
  <2>6. \A i \in 1..b : i = b \/ i \in 1..a
    BY <2>1
  <2>7. /\ \A i \in 1..a : i \in 1..b /\ r[i] = s[i] /\ Place(v, r, i) = Place(w, s, i)
        /\ b \in 1..b /\ r[b] = e /\ Place(v, r, b) = w.next
    BY <2>2, <2>3, <2>4, <2>5
  <2> QED BY <2>6, <2>7 DEF a, b
<1>5. /\ \A j \in 1..w.next-1 : j \in 1..v.next-1 /\ j < w.next
      /\ \A j \in 1..v.next-1 : j = w.next \/ j \in 1..w.next-1
  BY <1>1
<1>6. v.gen = c.gen => /\ v.stream = c.stream /\ v.next <= Len(c.stream.messages) + 1
                       /\ w.next \in 1..Len(ms) /\ e.msg = ms[w.next]
  <2>1. w.gen = c.gen => w.stream = c.stream
    BY DEF InPlace
  <2>2. Len(ms) \in Nat
    BY DEF StreamOk
  <2> QED BY <1>0, <1>1, <2>1, <2>2
<1>7. \A i \in 1..Len(r) : r[i].gen = c.gen =>
        v.gen = c.gen /\ Place(v, r, i) \in 1..Len(ms) /\ r[i].msg = ms[Place(v, r, i)]
  BY <1>0, <1>1, <1>4, <1>6 DEF InPlace
<1>8. ASSUME NEW i \in 1..Len(c.inits)
      PROVE  /\ v.gen = c.gen
             /\ \E j \in 1..v.next-1 :
                  /\ IsInit(ms[j]) /\ c.inits[i] = ms[j]
                  /\ \A k \in 1..Len(r) : r[k].gen = c.gen => j < Place(v, r, k)
  <2>1. PICK j \in 1..w.next-1 : /\ IsInit(ms[j]) /\ c.inits[i] = ms[j]
                                 /\ \A k \in 1..Len(s) : s[k].gen = c.gen => j < Place(w, s, k)
    BY DEF InPlace
  <2>2. \A k \in 1..Len(r) : r[k].gen = c.gen => j < Place(v, r, k)
    BY <1>4, <1>5, <2>1
  <2>3. v.gen = c.gen
    BY <1>1 DEF InPlace
  <2> QED BY <1>5, <2>1, <2>2, <2>3
<1>9. ASSUME x, v.gen = c.gen, NEW j \in 1..v.next-1, IsInit(ms[j])
      PROVE  \/ ms[j].track \in Tracked(c.inits)
             \/ \E i \in 1..Len(r) : r[i].gen = c.gen /\ Place(v, r, i) = j
  <2>1. CASE j = w.next
    BY <1>0, <1>1, <1>4, <1>9, <2>1
  <2>2. CASE j \in 1..w.next-1
    <3>1. ms[j].track \in Tracked(c.inits) \/ \E i \in 1..Len(s) : s[i].gen = c.gen /\ Place(w, s, i) = j
      BY <1>1, <1>9, <2>2 DEF InPlace
    <3> QED BY <1>4, <3>1
  <2> QED BY <1>5, <2>1, <2>2
<1>10. InPlace(c, v, r, x)
  BY <1>6, <1>7, <1>8, <1>9 DEF InPlace
<1> QED BY <1>10 DEF v, r, e, n

\* The init segments that wait when others' data arrives are the first, of every track.
LEMMA FirstInits ==
  ASSUME NEW c, Inits(c.inits), Led(c.stream), StreamOk(c.stream), NEW w, w.next \in Nat,
         NEW s, \E S : s \in Seq(S), NEW x, InPlace(c, w, s, x)
  PROVE  /\ Coded(c.inits) /\ Tracked(c.inits) \subseteq Named(c.stream)
         /\ x /\ s # <<>> /\ Head(s).gen = c.gen /\ ~Holds(Head(s).msg) =>
              Len(c.inits) = 0 \/ Named(c.stream) \subseteq Tracked(c.inits)
<1> DEFINE ms == c.stream.messages
<1>1. ASSUME NEW i \in 1..Len(c.inits)
      PROVE  /\ w.gen = c.gen
             /\ \E j \in 1..w.next-1 :
                  /\ j \in 1..Len(ms) /\ IsInit(ms[j]) /\ c.inits[i] = ms[j]
                  /\ \A k \in 1..Len(s) : s[k].gen = c.gen => j < Place(w, s, k)
  <2>1. w.gen = c.gen /\ w.next <= Len(ms) + 1
    BY DEF InPlace
  <2>2. PICK j \in 1..w.next-1 : /\ IsInit(ms[j]) /\ c.inits[i] = ms[j]
                                 /\ \A k \in 1..Len(s) : s[k].gen = c.gen => j < Place(w, s, k)
    BY DEF InPlace
  <2>3. j \in 1..Len(ms)
    BY <2>1 DEF StreamOk
  <2> QED BY <2>1, <2>2, <2>3
<1>2. Coded(c.inits) /\ Tracked(c.inits) \subseteq Named(c.stream)
  <2>1. \A i \in 1..Len(c.inits) : c.inits[i].codec # NoType /\ c.inits[i].track \in Named(c.stream)
    BY <1>1 DEF Led, Named
  <2> QED BY <2>1 DEF Coded, Tracked
<1>3. ASSUME x, s # <<>>, Head(s).gen = c.gen, ~Holds(Head(s).msg)
      PROVE  Len(c.inits) = 0 \/ Named(c.stream) \subseteq Tracked(c.inits)
  <2> DEFINE p == Place(w, s, 1)
  <2>1. Len(s) \in Nat /\ Len(s) >= 1 /\ 1 \in 1..Len(s) /\ s[1] = Head(s)
    BY <1>3
  <2>2. w.gen = c.gen /\ p \in 1..Len(ms) /\ ~Holds(ms[p])
    BY <1>3, <2>1 DEF InPlace
  <2>3. \A i \in 1..Len(s) : p <= Place(w, s, i) /\ Place(w, s, i) \in Int
    BY <2>1 DEF Place
  <2>4. p <= w.next - 1
    BY <2>1 DEF Place
  <2> HIDE DEF p
  <2>5. CASE \A i \in 1..p-1 : ~IsInit(ms[i])
    <3>1. \A i \in 1..Len(c.inits) : FALSE
      <4> SUFFICES ASSUME NEW i \in 1..Len(c.inits) PROVE FALSE
        OBVIOUS
      <4>1. PICK j \in 1..w.next-1 : IsInit(ms[j]) /\ j < p
        BY <1>1, <1>3, <2>1 DEF p
      <4>2. j \in 1..p-1
        BY <2>2, <4>1
      <4> QED BY <2>5, <4>1, <4>2
    <3>2. Len(c.inits) \in Nat
      BY DEF Inits
    <3> QED BY <3>1, <3>2
  <2>6. CASE \A t \in Named(c.stream) : \E i \in 1..p-1 : IsInit(ms[i]) /\ ms[i].track = t
    <3> SUFFICES ASSUME NEW t \in Named(c.stream) PROVE t \in Tracked(c.inits)
      OBVIOUS
    <3>1. PICK j \in 1..p-1 : IsInit(ms[j]) /\ ms[j].track = t
      BY <2>6
    <3>2. j \in 1..w.next-1 /\ j < p
      BY <2>2, <2>4
    <3>3. \A i \in 1..Len(s) : Place(w, s, i) # j
      BY <2>2, <2>3, <3>2
    <3> QED BY <1>3, <2>2, <3>1, <3>2, <3>3 DEF InPlace
  <2> QED BY <2>2, <2>5, <2>6 DEF Led
<1> QED BY <1>2, <1>3

\* None that waits.
LEMMA FlushedNone ==
  ASSUME NEW m, NEW inits, Len(inits) = 0
  PROVE  flushPendingInits(m, inits) = m
<1> DEFINE f == CHOOSE g : Appends(g, m, inits, video.cur, 0)
<1>1. flushPendingInits(m, inits) = f[0]
  BY DEF flushPendingInits, Appends
<1>2. Appends(f, m, inits, video.cur, 0)
  BY AppendsExist
<1> HIDE DEF f
<1> QED BY <1>1, <1>2 DEF Appends

LEMMA ReadyCalls ==
  ASSUME NEW m, DOMAIN m = MediaFields, NEW x, NEW F, Ready(m, F)
  PROVE  LET n == [m EXCEPT !.calls = x] IN
         /\ Ready(n, F) /\ Known(n) = Known(m) /\ n.dead = m.dead
<1> DEFINE n == [m EXCEPT !.calls = x]
<1>1. /\ n.ready = m.ready /\ n.parsed = m.parsed /\ n.dead = m.dead
      /\ n.streaming = m.streaming /\ n.type = m.type /\ n.disabled = m.disabled
      /\ n.inits = m.inits /\ n.refused = m.refused /\ n.doing = m.doing
  BY DEF MediaFields
<1> HIDE DEF n
<1>2. Settled(n) = Settled(m) /\ Attached(n) = Attached(m) /\ Known(n) = Known(m) /\ (Open(n) <=> Open(m))
  BY <1>1 DEF Settled, Attached, Known, Open
<1>3. Ready(n, F)
  BY <1>1, <1>2 DEF Ready, Begun, Apart
<1> QED BY <1>1, <1>2, <1>3 DEF n

-----------------------------------------------------------------------------
(* The load                                                                *)

NoneYet == ~mse.dead /\ Known(mse) = {}

\* What makes it inductive, along with FlagsIInv.
TogetherIInv ==
  /\ Ready(mse, Named(ctl.stream)) /\ Led(ctl.stream)
  /\ InTurn(ctl, worker)
  /\ InPlace(ctl, worker, inbox, NoneYet)

\* What a handler leaves, when it has made n of the buffers and c of the controller.
LEMMA LeavesTogether ==
  ASSUME NEW m, DOMAIN m = MediaFields, m.calls \in Seq(Callbacks), Ready(m, Named(ctl.stream)),
         NEW c, CtlOk(c), c.gen = ctl.gen, c.stream = ctl.stream, InTurn(c, worker),
         c.waiting => \A i \in 1..Len(m.calls) : m.calls[i] = "open",
         NEW cur, Leaves(m, c, cur), UNCHANGED worker, Led(ctl.stream),
         InPlace(c, worker, inbox', ~m.dead /\ Known(m) = {})
  PROVE  TogetherIInv'
<1>1. /\ mse' = [m EXCEPT !.calls = <<>>] /\ ctl'.gen = c.gen
      /\ ctl'.stream = c.stream /\ ctl'.inits = c.inits /\ InTurn(ctl', worker)
  BY LeavesReact
<1>2. Ready(mse', Named(ctl.stream)) /\ Known(mse') = Known(m) /\ mse'.dead = m.dead
  BY <1>1, ReadyCalls
<1>3. InPlace(ctl', worker, inbox', ~mse'.dead /\ Known(mse') = {})
  <2> DEFINE x == ~m.dead /\ Known(m) = {}
             y == ~mse'.dead /\ Known(mse') = {}
  <2>1. y => x
    BY <1>2
  <2> HIDE DEF x, y
  <2>2. InPlace(c, worker, inbox', x)
    BY DEF x
  <2>3. InPlace(ctl', worker, inbox', y)
    BY <1>1, <2>1, <2>2, SamePlace
  <2> QED BY <2>3 DEF y
<1> QED BY <1>1, <1>2, <1>3 DEF TogetherIInv, NoneYet

\* An operation on the attached MediaSource.
LEMMA GrowsTogether ==
  ASSUME FlagsIInv, TogetherIInv, NEW m, Grows(mse, m), ctl.waiting => m.calls = <<>>,
         Ready(m, Named(ctl.stream)), Known(mse) \subseteq Known(m),
         NEW c, Reacts(ctl, c, worker), c.inits = ctl.inits, NEW cur, Leaves(m, c, cur),
         UNCHANGED <<worker, inbox>>
  PROVE  TogetherIInv'
<1>1. /\ DOMAIN m = MediaFields /\ m.calls \in Seq(Callbacks)
      /\ c.waiting => \A i \in 1..Len(m.calls) : m.calls[i] = "open"
  <2>1. m.calls \in Seq(Answers) /\ Answers \subseteq Callbacks /\ DOMAIN m = MediaFields
    BY DEF Grows, MediaKept, Callbacks
  <2>2. c.waiting => Len(m.calls) = 0
    BY DEF Reacts
  <2> QED BY <2>1, <2>2
<1>2. CtlOk(c) /\ c.gen = ctl.gen /\ c.stream = ctl.stream /\ InTurn(c, worker)
  BY DEF Reacts, TogetherIInv
<1>3. InPlace(c, worker, inbox', ~m.dead /\ Known(m) = {})
  <2> DEFINE x == ~m.dead /\ Known(m) = {}
  <2>1. x => NoneYet
    BY DEF NoneYet, Grows
  <2> HIDE DEF x
  <2>2. InPlace(ctl, worker, inbox, NoneYet)
    BY DEF TogetherIInv
  <2>3. InPlace(c, worker, inbox, x)
    BY <1>2, <2>1, <2>2, SamePlace
  <2> QED BY <2>3 DEF x
<1> QED BY <1>1, <1>2, <1>3, LeavesTogether DEF TogetherIInv

\* An operation that leaves their number alone.
LEMMA StillTogether ==
  ASSUME FlagsIInv, TogetherIInv, NEW m, Grows(mse, m), ctl.waiting => m.calls = <<>>, Still(mse, m),
         NEW c, Reacts(ctl, c, worker), c.inits = ctl.inits, NEW cur, Leaves(m, c, cur),
         UNCHANGED <<worker, inbox>>
  PROVE  TogetherIInv'
<1>1. Ready(m, Named(ctl.stream))
  BY StillReady DEF Grows, TogetherIInv
<1>2. Known(mse) \subseteq Known(m)
  BY DEF Still, Known, Settled
<1> QED BY <1>1, <1>2, GrowsTogether

\* Nothing has changed the MediaSource.
LEMMA CtlTogether ==
  ASSUME FlagsIInv, TogetherIInv, NEW c, Reacts(ctl, c, worker), c.inits = ctl.inits,
         NEW cur, Leaves(mse, c, cur), UNCHANGED <<worker, inbox>>
  PROVE  TogetherIInv'
<1>1. Grows(mse, mse) /\ Still(mse, mse)
  BY StillStill DEF FlagsIInv, Grows
<1> QED BY <1>1, StillTogether DEF FlagsIInv

LEMMA ElementTogether ==
  ASSUME SlowIInv, FlagsIInv, TogetherIInv,
         \/ Seeked \/ PlayOrPause \/ HideOrShow \/ TimeUpdate \/ Waiting \/ Playing
         \/ \E n : bufferSeek(n)
         \/ ControlTimer \/ ContextSettles \/ Interrupt \/ StretcherLoads \/ StartupTimeout
         \/ RecoveryTimeout \/ AudioGoesOn
  PROVE  TogetherIInv'
<1>1. UNCHANGED <<worker, inbox>> /\ \E c, cur : Reacts(ctl, c, worker) /\ c.inits = ctl.inits /\ Leaves(mse, c, cur)
  BY ElementReacts
<1> QED BY <1>1, CtlTogether

LEMMA SourceTogether ==
  ASSUME SlowIInv, FlagsIInv, TogetherIInv,
         SourceOpen \/ SourceClose \/ StartStreaming \/ EndStreaming \/ \E t \in Tracks : UpdateEnd(t)
  PROVE  TogetherIInv'
<1> DEFINE F == Named(ctl.stream)
<1>1. ASSUME NEW m, NEW cur, Becomes(m, pcm, ctl, cur) PROVE Leaves(m, ctl, cur)
  BY <1>1 DEF SlowIInv, SlowKept, Leaves
<1>2. Reacts(ctl, ctl, worker) /\ MediaKept(mse) /\ Ready(mse, F) /\ CtlOk(ctl) /\ InTurn(ctl, worker)
      /\ Led(ctl.stream) /\ InPlace(ctl, worker, inbox, NoneYet)
  BY SameReacts DEF FlagsIInv, TogetherIInv
<1>3. CASE SourceOpen
  <2> DEFINE m == onSourceOpen(mse, video.cur)
  <2>1. UNCHANGED <<worker, inbox>> /\ Becomes(m, pcm, ctl, video.cur) /\ ~mse.dead /\ Fresh(mse)
        /\ mse.calls = <<>>
    BY <1>3 DEF SourceOpen, FlagsIInv
  <2>2. MediaKept([m EXCEPT !.calls = <<>>]) /\ m.calls = <<"open">>
    BY <1>2, <2>1, OpenKept
  <2>3. Ready(m, F) /\ Known(m) = Known(mse)
    BY <1>2, <2>1, SourceReady
  <2> HIDE DEF m, F
  <2>4. DOMAIN m = MediaFields /\ m.calls \in Seq(Callbacks) /\ \A i \in 1..Len(m.calls) : m.calls[i] = "open"
    <3>1. "open" \in Callbacks
      BY DEF Callbacks
    <3>2. DOMAIN m = MediaFields
      BY <2>2 DEF MediaKept
    <3> QED BY <2>2, <3>1, <3>2
  <2>5. InPlace(ctl, worker, inbox', ~m.dead /\ Known(m) = {})
    <3> DEFINE x == ~m.dead /\ Known(m) = {}
    <3>1. x => NoneYet
      BY <2>1, <2>3 DEF NoneYet
    <3> HIDE DEF x
    <3>2. InPlace(ctl, worker, inbox, x)
      BY <1>2, <3>1, SamePlace
    <3> QED BY <2>1, <3>2 DEF x
  <2> QED BY <1>1, <1>2, <2>1, <2>3, <2>4, <2>5, LeavesTogether DEF F
<1>4. CASE SourceClose
  <2> DEFINE m == onSourceClose(mse)
  <2>1. UNCHANGED <<worker, inbox>> /\ Becomes(m, pcm, ctl, video.cur) /\ ~ctl.waiting /\ mse.calls = <<>>
    BY <1>4 DEF SourceClose, FlagsIInv, Fresh
  <2>2. MediaKept([m EXCEPT !.calls = <<>>]) /\ m.dead /\ m.calls = <<"close">>
    BY <1>2, <2>1, CloseKept
  <2>3. Ready(m, F)
    BY <1>2, EndsReady
  <2> HIDE DEF m, F
  <2>4. DOMAIN m = MediaFields /\ m.calls \in Seq(Callbacks)
    <3>1. "close" \in Callbacks
      BY DEF Callbacks
    <3>2. DOMAIN m = MediaFields
      BY <2>2 DEF MediaKept
    <3> QED BY <2>2, <3>1, <3>2
  <2>5. InPlace(ctl, worker, inbox', ~m.dead /\ Known(m) = {})
    <3> DEFINE x == ~m.dead /\ Known(m) = {}
    <3>1. x => NoneYet
      BY <2>2
    <3> HIDE DEF x
    <3>2. InPlace(ctl, worker, inbox, x)
      BY <1>2, <3>1, SamePlace
    <3> QED BY <2>1, <3>2 DEF x
  <2> QED BY <1>1, <1>2, <2>1, <2>3, <2>4, <2>5, LeavesTogether DEF F
<1>5. CASE StartStreaming
  <2> DEFINE m == onStartStreaming(mse, video.cur)
  <2>1. ~ctl.waiting /\ UNCHANGED <<worker, inbox>> /\ Becomes(m, pcm, ctl, video.cur) /\ Open(mse)
    BY <1>5 DEF FlagsIInv, StartStreaming, Fresh, Open
  <2>2. Grows(mse, m)
    BY StreamingGrows DEF FlagsIInv
  <2>3. ~mse.dead
    BY <1>2, <2>1 DEF Ready, Begun, Open
  <2>4. Ready(m, F) /\ Known(m) = Known(mse)
    BY <1>2, <2>1, <2>3, SourceReady
  <2> HIDE DEF m
  <2> QED BY <1>1, <1>2, <2>1, <2>2, <2>4, GrowsTogether
<1>6. CASE \E t \in Tracks : UpdateEnd(t)
  <2> PICK t \in Tracks : UpdateEnd(t)
    BY <1>6
  <2> DEFINE m == onSourceBufferUpdateEnd(mse, t, video.cur)
  <2>1. ~ctl.waiting /\ UNCHANGED <<worker, inbox>> /\ Becomes(m, pcm, ctl, video.cur)
    BY DEF FlagsIInv, UpdateEnd, Fresh
  <2>2. Grows(mse, m) /\ Still(mse, m)
    BY UpdateEndGrows, UpdateEndStill DEF FlagsIInv
  <2> HIDE DEF m
  <2> QED BY <1>1, <1>2, <2>1, <2>2, StillTogether
<1>7. CASE EndStreaming
  <2>1. UNCHANGED <<worker, inbox, ctl>> /\ mse' = onEndStreaming(mse) /\ Open(mse)
    BY <1>7 DEF EndStreaming, Open
  <2>2. ~mse.dead
    BY <1>2, <2>1 DEF Ready, Begun, Open
  <2>3. Ready(mse', F) /\ Known(mse') = Known(mse) /\ mse'.dead = mse.dead
    BY <1>2, <2>1, <2>2, SourceReady, EndStreamingGrows DEF Grows
  <2>4. NoneYet' => NoneYet
    BY <2>3 DEF NoneYet
  <2>5. InPlace(ctl', worker', inbox', NoneYet')
    BY <1>2, <2>1, <2>4, SamePlace
  <2> QED BY <1>2, <2>1, <2>3, <2>5 DEF TogetherIInv
<1> QED BY <1>3, <1>4, <1>5, <1>6, <1>7

LEMMA FinishTogether ==
  ASSUME FlagsIInv, TogetherIInv, NEW t \in Tracks, Finish(t)
  PROVE  TogetherIInv'
<1>1. /\ MediaKept(mse) /\ mse' = Finished(mse, t) /\ UNCHANGED <<worker, inbox>> /\ Updating(mse, t)
      /\ Ready(mse, Named(ctl.stream)) /\ Led(ctl.stream) /\ InTurn(ctl, worker)
      /\ InPlace(ctl, worker, inbox, NoneYet)
  BY DEF FlagsIInv, TogetherIInv, Finish
<1>2. Ready(mse', Named(ctl.stream)) /\ Known(mse') = Known(mse) /\ mse'.dead = mse.dead
  BY <1>1, FinishedReady, FinishedGrows DEF Grows
<1> DEFINE f == ctl.failed \/ (mse'.ready = "ended" /\ mse.garbled)
<1>3. ctl' = [ctl EXCEPT !.failed = f]
  BY DEF Finish
<1> HIDE DEF f
<1>4. /\ ctl'.gen = ctl.gen /\ ctl'.out = ctl.out /\ ctl'.stream = ctl.stream
      /\ ctl'.waiting = ctl.waiting /\ ctl'.inits = ctl.inits
  BY <1>3 DEF FlagsIInv, CtlOk, CtlFields
<1>5. InTurn(ctl', worker')
  BY <1>1, <1>4 DEF InTurn, Under
<1>6. NoneYet' => NoneYet
  BY <1>2 DEF NoneYet
<1>7. InPlace(ctl', worker', inbox', NoneYet')
  BY <1>1, <1>4, <1>6, SamePlace
<1> QED BY <1>1, <1>2, <1>4, <1>5, <1>7 DEF TogetherIInv

LEMMA SyncTogether == ASSUME FlagsIInv, TogetherIInv, SetLiveSync PROVE TogetherIInv'
<1>1. UNCHANGED <<mse, worker, inbox>>
  BY DEF SetLiveSync
<1>2. /\ ctl'.gen = ctl.gen /\ ctl'.out = ctl.out /\ ctl'.stream = ctl.stream
      /\ ctl'.waiting = ctl.waiting /\ ctl'.inits = ctl.inits
  BY DEF FlagsIInv, CtlOk, CtlFields, SetLiveSync
<1>3. InTurn(ctl', worker')
  BY <1>1, <1>2 DEF TogetherIInv, InTurn, Under
<1>4. NoneYet' => NoneYet
  BY <1>1 DEF NoneYet
<1>5. InPlace(ctl', worker', inbox', NoneYet')
  BY <1>1, <1>2, <1>4, SamePlace DEF TogetherIInv
<1> QED BY <1>1, <1>2, <1>3, <1>5 DEF TogetherIInv

LEMMA PostsTogether == ASSUME FlagsIInv, TogetherIInv, WorkerPosts PROVE TogetherIInv'
<1> DEFINE e == [gen |-> worker.gen, msg |-> worker.stream.messages[worker.next]]
<1>1. /\ inbox' = Append(inbox, e) /\ worker' = [worker EXCEPT !.next = @ + 1]
      /\ UNCHANGED <<mse, ctl>> /\ worker.next <= Len(worker.stream.messages)
  BY DEF WorkerPosts, CanPost, More
<1>2. /\ DOMAIN worker = WorkerFields /\ worker.next \in Nat /\ worker.next > 0 /\ StreamOk(ctl.stream)
      /\ \E S : inbox \in Seq(S)
  BY DEF FlagsIInv, WorkerOk, CtlOk, Delivered
<1>3. InPlace(ctl, worker', inbox', NoneYet)
  BY <1>1, <1>2, PostPlace DEF TogetherIInv
<1> HIDE DEF e
<1>4. worker'.gen = worker.gen
  BY <1>1, <1>2 DEF WorkerFields
<1>5. InTurn(ctl', worker')
  BY <1>1, <1>4 DEF TogetherIInv, InTurn
<1>6. NoneYet' => NoneYet
  BY <1>1 DEF NoneYet
<1>7. InPlace(ctl', worker', inbox', NoneYet')
  BY <1>1, <1>3, <1>6, SamePlace
<1> QED BY <1>1, <1>5, <1>7 DEF TogetherIInv

LEMMA TakesTogether == ASSUME FlagsIInv, TogetherIInv, WorkerTakes PROVE TogetherIInv'
<1> DEFINE x == Head(ctl.out)
           o == Tail(ctl.out)
<1>1. PICK S : ctl.out \in Seq(S)
  BY DEF FlagsIInv, CtlOk, Outbox
<1>2. /\ ctl.out # <<>> /\ Len(ctl.out) \in Nat /\ 1 \in 1..Len(ctl.out) /\ x = ctl.out[1]
      /\ Len(o) = Len(ctl.out) - 1
      /\ \A i \in 1..Len(ctl.out) - 1 : o[i] = ctl.out[i + 1] /\ i + 1 \in 1..Len(ctl.out)
  BY <1>1 DEF WorkerTakes
<1>3. ctl' = [ctl EXCEPT !.out = o] /\ UNCHANGED <<mse, inbox>>
  BY DEF WorkerTakes
<1>4. worker' = CASE x.kind = "load"  -> [up |-> TRUE, gen |-> x.gen, stream |-> x.stream,
                                          next |-> 1, paused |-> FALSE]
                  [] x.kind = "reset" -> [worker EXCEPT !.up = FALSE, !.paused = FALSE]
                  [] OTHER -> [worker EXCEPT !.paused = worker.up /\ x.kind = "pause"]
  BY DEF WorkerTakes
<1> HIDE DEF x, o
<1>5. /\ ctl'.gen = ctl.gen /\ ctl'.out = o /\ ctl'.stream = ctl.stream
      /\ ctl'.waiting = ctl.waiting /\ ctl'.inits = ctl.inits
  BY <1>3 DEF FlagsIInv, CtlOk, CtlFields
<1>6. Ready(mse', Named(ctl'.stream)) /\ Led(ctl'.stream) /\ (NoneYet' => NoneYet)
  BY <1>3, <1>5 DEF TogetherIInv, NoneYet
<1>7. /\ \A i \in 1..Len(o) : o[i].kind = "load" =>
           /\ worker.gen < o[i].gen /\ (x.kind = "load" => x.gen < o[i].gen)
           /\ o[i].gen = ctl.gen => o[i].stream = ctl.stream
           /\ \A j \in 1..i-1 : o[j].kind = "load" => o[j].gen < o[i].gen
      /\ x.kind = "load" => worker.gen < x.gen /\ (x.gen = ctl.gen => x.stream = ctl.stream)
  <2>1. InTurn(ctl, worker)
    BY DEF TogetherIInv
  <2>2. \A i \in 1..Len(o) : o[i] = ctl.out[i + 1] /\ i + 1 \in 1..Len(ctl.out) /\ 1 \in 1..(i + 1) - 1
                             /\ \A j \in 1..i-1 : j \in 1..Len(o) /\ j + 1 \in 1..(i + 1) - 1
    BY <1>2
  <2>3. \A i \in 1..Len(ctl.out) : ctl.out[i].kind = "load" =>
          /\ worker.gen < ctl.out[i].gen
          /\ ctl.out[i].gen = ctl.gen => ctl.out[i].stream = ctl.stream
          /\ \A j \in 1..i-1 : ctl.out[j].kind = "load" => ctl.out[j].gen < ctl.out[i].gen
    BY <2>1 DEF InTurn
  <2>4. ASSUME NEW i \in 1..Len(o), o[i].kind = "load"
        PROVE  /\ worker.gen < o[i].gen /\ (x.kind = "load" => x.gen < o[i].gen)
               /\ o[i].gen = ctl.gen => o[i].stream = ctl.stream
               /\ \A j \in 1..i-1 : o[j].kind = "load" => o[j].gen < o[i].gen
    <3>1. /\ worker.gen < ctl.out[i + 1].gen
          /\ ctl.out[i + 1].gen = ctl.gen => ctl.out[i + 1].stream = ctl.stream
          /\ \A j \in 1..(i + 1)-1 : ctl.out[j].kind = "load" => ctl.out[j].gen < ctl.out[i + 1].gen
      BY <2>2, <2>3, <2>4
    <3> QED BY <1>2, <2>2, <3>1
  <2> QED BY <1>2, <2>3, <2>4
<1>8. CASE x.kind = "load"
  <2> DEFINE w == [up |-> TRUE, gen |-> x.gen, stream |-> x.stream, next |-> 1, paused |-> FALSE]
  <2>1. worker' = w
    BY <1>4, <1>8
  <2>2. w.gen = x.gen /\ w.stream = x.stream /\ w.next = 1
    OBVIOUS
  <2> HIDE DEF w
  <2>3. Under(x.gen, ctl) /\ worker.gen \in Nat /\ ctl.gen \in Nat /\ StreamOk(ctl.stream)
    BY <1>2, <1>8 DEF FlagsIInv, CtlOk, Outbox, WorkerOk, Under
  <2>4. worker.gen # ctl.gen
    BY <1>7, <1>8, <2>3 DEF Under
  <2>5. InTurn(ctl', worker')
    BY <1>5, <1>7, <1>8, <2>1, <2>2, <2>3 DEF InTurn, Under
  <2>6. /\ \A i \in 1..Len(inbox) : inbox[i].gen # ctl.gen
        /\ \A i \in 1..Len(ctl.inits) : FALSE
    BY <2>4 DEF TogetherIInv, InPlace
  <2>7. w.gen = ctl.gen => w.stream = ctl.stream /\ w.next <= Len(ctl.stream.messages) + 1
    BY <1>7, <1>8, <2>2, <2>3 DEF StreamOk
  <2>8. \A j \in 1..w.next-1 : FALSE
    BY <2>2
  <2>9. InPlace(ctl, w, inbox, NoneYet)
    BY <2>6, <2>7, <2>8 DEF InPlace
  <2>10. InPlace(ctl', worker', inbox', NoneYet')
    BY <1>3, <1>5, <1>6, <2>1, <2>9, SamePlace
  <2> QED BY <1>6, <2>5, <2>10 DEF TogetherIInv
<1>9. CASE x.kind # "load"
  <2>1. worker'.gen = worker.gen /\ worker'.stream = worker.stream /\ worker'.next = worker.next
    <3>1. DOMAIN worker = WorkerFields
      BY DEF FlagsIInv, WorkerOk
    <3> DEFINE p == worker.up /\ x.kind = "pause"
    <3> HIDE DEF p
    <3>2. worker' = [worker EXCEPT !.up = FALSE, !.paused = FALSE] \/ worker' = [worker EXCEPT !.paused = p]
      BY <1>4, <1>9 DEF p
    <3> QED BY <3>1, <3>2 DEF WorkerFields
  <2>2. InTurn(ctl', worker')
    BY <1>5, <1>7, <2>1 DEF TogetherIInv, InTurn, Under
  <2>3. InPlace(ctl, worker', inbox, NoneYet)
    BY <2>1 DEF TogetherIInv, InPlace, Place
  <2>4. InPlace(ctl', worker', inbox', NoneYet')
    BY <1>3, <1>5, <1>6, <2>3, SamePlace
  <2> QED BY <1>6, <2>2, <2>4 DEF TogetherIInv
<1> QED BY <1>8, <1>9

\* A load's streams and those before it: nothing of an older one is of the new one.
LEMMA NewPlace ==
  ASSUME FlagsIInv, NEW c, c.gen = ctl.gen + 1, c.inits = <<>>, NEW x
  PROVE  InPlace(c, worker, inbox, x)
<1>1. /\ \A g : Under(g, ctl) => g # c.gen
      /\ Under(worker.gen, ctl) /\ \A i \in 1..Len(inbox) : Under(inbox[i].gen, ctl)
  BY DEF FlagsIInv, WorkerOk, Delivered, Under, CtlOk
<1>2. Len(c.inits) = 0
  OBVIOUS
<1> QED BY <1>1, <1>2 DEF InPlace

LEMMA LoadTogether ==
  ASSUME TracksFirst, FlagsIInv, TogetherIInv, ctl.gen < Len(Loads), NEW s \in Loads[ctl.gen + 1], Load(s)
  PROVE  TogetherIInv'
<1>1. /\ DOMAIN ctl' = CtlFields /\ ctl'.gen = ctl.gen + 1 /\ ctl'.out = ctl.out
      /\ ctl'.stream = s /\ ctl'.waiting = TRUE /\ ctl'.inits = <<>>
  BY LoadSets
<1>2. Led(ctl'.stream)
  <2>1. CtlOk(ctl) /\ ctl.gen + 1 \in DOMAIN Loads
    BY LoadsAssumption DEF FlagsIInv, CtlOk
  <2> QED BY <1>1, <2>1 DEF TracksFirst
<1>3. UNCHANGED <<worker, inbox>>
      /\ (mse' = setDuration(NewMedia(ctl.managed)) \/ mse' = NewMedia(ctl.managed))
  BY DEF Load
<1>4. Ready(mse', Named(ctl'.stream))
  <2> DEFINE G == Named(ctl'.stream)
             m == NewMedia(ctl.managed)
  <2>1. ASSUME NEW H PROVE Ready(m, H) /\ Ready(setDuration(m), H)
    BY EndsReady
  <2>2. mse' = setDuration(m) \/ mse' = m
    BY <1>3
  <2> HIDE DEF m, G
  <2>3. Ready(m, G) /\ Ready(setDuration(m), G)
    BY <2>1
  <2>4. Ready(mse', G)
    BY <2>2, <2>3
  <2> QED BY <2>4 DEF G
<1>5. InTurn(ctl', worker')
  <2>1. InTurn(ctl, worker) /\ CtlOk(ctl)
    BY DEF TogetherIInv, FlagsIInv
  <2>2. \A i \in 1..Len(ctl.out) : ctl.out[i].kind = "load" => ctl.out[i].gen \in Nat /\ ctl.out[i].gen <= ctl.gen
    BY <2>1 DEF CtlOk, Outbox, Under
  <2>3. Under(worker.gen, ctl') /\ ctl.gen \in Nat
    BY <1>1, <2>1 DEF InTurn, Under, CtlOk
  <2> QED BY <1>1, <1>3, <2>1, <2>2, <2>3 DEF InTurn
<1>6. InPlace(ctl', worker', inbox', NoneYet')
  BY <1>1, <1>3, NewPlace
<1> QED BY <1>2, <1>4, <1>5, <1>6 DEF TogetherIInv

LEMMA SuspendTogether ==
  ASSUME FlagsIInv, TogetherIInv, Suspend
  PROVE  TogetherIInv'
<1> DEFINE x == Command("reset")
           n == Len(ctl.out)
<1>1. /\ DOMAIN ctl' = CtlFields /\ ctl'.gen = ctl.gen + 1 /\ ctl'.out = Append(ctl.out, x)
      /\ ctl'.stream = ctl.stream /\ ctl'.waiting = FALSE /\ ctl'.inits = <<>>
  BY SuspendSets
<1>2. UNCHANGED <<worker, inbox>> /\ mse' = [NewMedia(FALSE) EXCEPT !.dead = TRUE]
  BY DEF Suspend, NoMedia
<1>3. Ready(mse', Named(ctl'.stream))
  BY <1>2, EndsReady
<1>4. InTurn(ctl', worker')
  <2>1. InTurn(ctl, worker) /\ CtlOk(ctl)
    BY DEF TogetherIInv, FlagsIInv
  <2>2. PICK S : ctl.out \in Seq(S)
    BY <2>1 DEF CtlOk, Outbox
  <2>3. /\ n \in Nat /\ Len(ctl'.out) = n + 1
        /\ \A i \in 1..n+1 : ctl'.out[i] = IF i = n + 1 THEN x ELSE ctl.out[i]
    <3> HIDE DEF x
    <3>1. ctl.out \in Seq(S \cup {x})
      BY <2>2
    <3> QED BY <1>1, <3>1
  <2>4. \A i \in 1..n : ctl.out[i].kind = "load" => ctl.out[i].gen \in Nat /\ ctl.out[i].gen <= ctl.gen
    BY <2>1 DEF CtlOk, Outbox, Under
  <2>5. Under(worker.gen, ctl') /\ ctl.gen \in Nat
    BY <1>1, <2>1 DEF InTurn, Under, CtlOk
  <2>6. x.kind # "load"
    BY DEF Command
  <2>7. \A i \in 1..n : ctl.out[i].kind = "load" =>
          worker.gen < ctl.out[i].gen /\ \A j \in 1..i-1 : ctl.out[j].kind = "load" => ctl.out[j].gen < ctl.out[i].gen
    BY <2>1 DEF InTurn
  <2> HIDE DEF x, n
  <2>8. \A i \in 1..n+1 : (i = n + 1 \/ i \in 1..n) /\ \A j \in 1..i-1 : j \in 1..n
    BY <2>3
  <2>9. \A i \in 1..n+1 : ctl'.out[i].kind = "load" =>
          /\ worker.gen < ctl'.out[i].gen
          /\ ctl'.out[i].gen # ctl'.gen
          /\ \A j \in 1..i-1 : ctl'.out[j].kind = "load" => ctl'.out[j].gen < ctl'.out[i].gen
    <3> SUFFICES ASSUME NEW i \in 1..n+1, ctl'.out[i].kind = "load"
                 PROVE  /\ worker.gen < ctl'.out[i].gen
                        /\ ctl'.out[i].gen # ctl'.gen
                        /\ \A j \in 1..i-1 : ctl'.out[j].kind = "load" => ctl'.out[j].gen < ctl'.out[i].gen
      OBVIOUS
    <3>1. i \in 1..n /\ ctl'.out[i] = ctl.out[i] /\ \A j \in 1..i-1 : ctl'.out[j] = ctl.out[j]
      BY <2>3, <2>6, <2>8
    <3>2. ctl.out[i].kind = "load"
      BY <3>1
    <3>3. worker.gen < ctl.out[i].gen /\ \A j \in 1..i-1 : ctl.out[j].kind = "load" => ctl.out[j].gen < ctl.out[i].gen
      BY <2>7, <3>1, <3>2
    <3>4. ctl.out[i].gen \in Nat /\ ctl.out[i].gen <= ctl.gen
      BY <2>4, <3>1, <3>2
    <3> DEFINE e == ctl.out[i]
    <3>5. e.gen # ctl'.gen
      BY <1>1, <2>5, <3>4
    <3>6. ctl'.out[i] = e
      BY <3>1
    <3> HIDE DEF e
    <3>7. worker.gen < ctl'.out[i].gen /\ ctl'.out[i].gen # ctl'.gen
      BY <3>3, <3>5, <3>6 DEF e
    <3>8. ASSUME NEW j \in 1..i-1, ctl'.out[j].kind = "load" PROVE ctl'.out[j].gen < ctl'.out[i].gen
      BY <3>1, <3>3, <3>8
    <3> QED BY <3>7, <3>8
  <2> QED BY <1>2, <2>3, <2>5, <2>9 DEF InTurn
<1>5. InPlace(ctl', worker', inbox', NoneYet')
  BY <1>1, <1>2, NewPlace
<1> QED BY <1>1, <1>3, <1>4, <1>5 DEF TogetherIInv

LEMMA TogetherInit == ASSUME Init PROVE TogetherIInv
<1>1. mse = [NewMedia(FALSE) EXCEPT !.dead = TRUE] /\ inbox = <<>> /\ worker.gen = 0 /\ worker.next = 1
      /\ worker.stream = NoStream
  BY DEF Init, NoMedia
<1>2. ctl.gen = 0 /\ ctl.out = <<>> /\ ctl.stream = NoStream /\ ctl.waiting = FALSE /\ ctl.inits = <<>>
  BY DEF Init
<1>3. Len(<<>>) = 0 /\ NoStream.messages = <<>>
  BY DEF NoStream
<1>4. Ready(mse, Named(ctl.stream))
  BY <1>1, EndsReady
<1>5. Led(ctl.stream)
  BY <1>2, <1>3 DEF Led
<1>6. InTurn(ctl, worker)
  BY <1>1, <1>2, <1>3 DEF InTurn, Under
<1>7. InPlace(ctl, worker, inbox, NoneYet)
  <2>1. \A j \in 1..worker.next-1 : FALSE
    BY <1>1
  <2> QED BY <1>1, <1>2, <1>3, <2>1 DEF InPlace
<1> QED BY <1>4, <1>5, <1>6, <1>7 DEF TogetherIInv

\* The init segments that wait are appended before the message that ends their wait.
LEMMA FlushedTogether ==
  ASSUME FlagsIInv, TogetherIInv, inbox # <<>>, Head(inbox).gen = ctl.gen
  PROVE  LET msg == Head(inbox).msg
             m == Flushed(msg) IN
         /\ MediaKept(m) /\ Ready(m, Named(ctl.stream)) /\ Known(mse) \subseteq Known(m)
         /\ m.dead = mse.dead
         /\ ~Holds(msg) => Tracked(ctl.inits) \subseteq Known(m)
<1> DEFINE msg == Head(inbox).msg
           F == Named(ctl.stream)
           n == flushPendingInits(mse, ctl.inits)
<1>1. /\ MediaKept(mse) /\ Ready(mse, F) /\ Inits(ctl.inits) /\ Led(ctl.stream) /\ StreamOk(ctl.stream)
      /\ worker.next \in Nat /\ \E S : inbox \in Seq(S)
  BY DEF FlagsIInv, TogetherIInv, CtlOk, WorkerOk, Delivered
<1>2. InPlace(ctl, worker, inbox, NoneYet)
  BY DEF TogetherIInv
<1>3. CASE Holds(msg)
  BY <1>1, <1>3 DEF Flushed
<1>4. CASE ~Holds(msg)
  <2>1. /\ Coded(ctl.inits) /\ Tracked(ctl.inits) \subseteq F
        /\ NoneYet => Len(ctl.inits) = 0 \/ F \subseteq Tracked(ctl.inits)
    BY <1>1, <1>2, <1>4, FirstInits
  <2>2. CASE Len(ctl.inits) = 0
    <3>1. Tracked(ctl.inits) = {}
      BY <2>2 DEF Tracked
    <3>2. n = mse
      BY <2>2, FlushedNone
    <3> QED BY <1>1, <1>4, <3>1, <3>2 DEF Flushed
  <2>3. CASE Len(ctl.inits) # 0
    <3>1. ~mse.dead /\ Known(mse) = {} => F \subseteq Tracked(ctl.inits)
      BY <2>1, <2>3 DEF NoneYet
    <3> HIDE DEF F
    <3>2. Grows(mse, n)
      BY <1>1, FlushedGrows
    <3>3. Ready(n, F) /\ Known(mse) \cup Tracked(ctl.inits) \subseteq Known(n)
      BY <1>1, <2>1, <3>1, FlushedReady
    <3> HIDE DEF n
    <3>4. MediaKept(n) /\ n.dead = mse.dead
      BY <3>2 DEF Grows
    <3> QED BY <1>4, <3>3, <3>4 DEF Flushed, n, F
  <2> QED BY <2>2, <2>3
<1> QED BY <1>3, <1>4

LEMMA MessageTogether ==
  ASSUME SlowIInv, FlagsIInv, TogetherIInv, handleWorkerMessage
  PROVE  TogetherIInv'
<1> DEFINE gen == Head(inbox).gen
           msg == Head(inbox).msg
           m == Flushed(msg)
           F == Named(ctl.stream)
<1>1. /\ inbox # <<>> /\ inbox' = Tail(inbox) /\ UNCHANGED worker /\ \E S : inbox \in Seq(S)
      /\ worker.next \in Nat /\ Inits(ctl.inits) /\ Led(ctl.stream) /\ InTurn(ctl, worker)
      /\ Ready(mse, F) /\ InPlace(ctl, worker, inbox, NoneYet)
  BY MessageLeaves DEF FlagsIInv, TogetherIInv, CtlOk, WorkerOk, Delivered
<1>2. CASE UNCHANGED <<mse, ctl>> /\ gen # ctl.gen
  <2>1. InPlace(ctl, worker, Tail(inbox), NoneYet)
    BY <1>1, <1>2, TailPlace
  <2>2. InPlace(ctl', worker', inbox', NoneYet')
    <3>1. ctl' = ctl /\ worker' = worker /\ inbox' = Tail(inbox) /\ mse' = mse
      BY <1>1, <1>2
    <3> QED BY <2>1, <3>1 DEF NoneYet
  <2> QED BY <1>1, <1>2, <2>2 DEF TogetherIInv
<1>3. ASSUME gen = ctl.gen, NEW n, NEW d,
             Operated(m, n, msg), Grows(mse, n), Reacts(ctl, d, worker), ~d.waiting, Waits(d, msg),
             Leaves(n, d, video.cur)
      PROVE  TogetherIInv'
  <2>1. /\ MediaKept(m) /\ Ready(m, F) /\ Known(mse) \subseteq Known(m) /\ m.dead = mse.dead
        /\ ~Holds(msg) => Tracked(ctl.inits) \subseteq Known(m)
    BY <1>1, <1>3, FlushedTogether
  <2>2. (m.ready = "closed" <=> mse.ready = "closed") /\ (n.ready = "closed" <=> mse.ready = "closed")
        /\ n.dead = mse.dead /\ MediaKept(n) /\ n.calls \in Seq(Answers)
    <3>1. Grows(mse, flushPendingInits(mse, ctl.inits)) /\ Grows(mse, mse)
      BY FlushedGrows DEF FlagsIInv, CtlOk, Grows
    <3> QED BY <1>3, <3>1 DEF Grows, MediaKept, Flushed
  <2>3. msg.kind = "media" => msg.track \in Tracks
    BY <1>1, TailDelivered DEF FlagsIInv, MessageOk
  <2> HIDE DEF m, F
  <2>4. Still(m, n)
    <3> HIDE DEF msg
    <3> QED BY <1>3, <2>1, <2>3, StillStill, EndStill, DurationStill, MediaStill DEF Operated
  <2>5. Ready(n, F) /\ Known(n) = Known(m)
    BY <2>1, <2>2, <2>4, StillReady DEF Still, Known, Settled
  <2> DEFINE y == ~n.dead /\ Known(n) = {}
  <2>6. (y => NoneYet) /\ (y /\ ~Holds(msg) => Tracked(ctl.inits) = {})
    BY <2>1, <2>2, <2>5 DEF NoneYet
  <2>7. CtlOk(d) /\ d.gen = ctl.gen /\ d.stream = ctl.stream /\ InTurn(d, worker)
    BY <1>1, <1>3 DEF Reacts
  <2>8. \/ d.inits = ctl.inits /\ ~IsInit(msg)
        \/ d.inits = Append(ctl.inits, msg) /\ IsInit(msg)
        \/ d.inits = <<>> /\ ~IsInit(msg) /\ ~Holds(msg)
    BY <1>3 DEF Waits
  <2> HIDE DEF y
  <2>9. InPlace(d, worker, Tail(inbox), y)
    BY <1>1, <1>3, <2>6, <2>7, <2>8, TailPlace
  <2>10. DOMAIN n = MediaFields /\ n.calls \in Seq(Callbacks)
    <3>1. Answers \subseteq Callbacks
      BY DEF Callbacks
    <3> QED BY <2>2, <3>1 DEF MediaKept
  <2>11. InPlace(d, worker, inbox', ~n.dead /\ Known(n) = {})
    BY <1>1, <2>9 DEF y
  <2> QED BY <1>1, <1>3, <2>5, <2>7, <2>10, <2>11, LeavesTogether DEF F
<1> QED BY <1>2, <1>3, MessageLeaves

LEMMA TogetherStep ==
  ASSUME TracksFirst, SlowIInv, FlagsIInv, TogetherIInv, [Next]_vars
  PROVE  TogetherIInv'
<1>1. ASSUME UNCHANGED vars PROVE TogetherIInv'
  <2>1. ctl' = ctl /\ worker' = worker /\ inbox' = inbox /\ mse' = mse
    BY <1>1 DEF vars
  <2> QED BY <2>1 DEF TogetherIInv, NoneYet
<1>2. ASSUME Progress PROVE TogetherIInv'
  <2>1. ASSUME NEW t \in Tracks, Finish(t) \/ UpdateEnd(t) PROVE TogetherIInv'
    BY <2>1, FinishTogether, SourceTogether
  <2> QED BY <1>2, <2>1, TakesTogether, PostsTogether, MessageTogether, SourceTogether, ElementTogether
          DEF Progress
<1>3. ASSUME Next, ~Progress PROVE TogetherIInv'
  <2>1. ASSUME ctl.gen < Len(Loads), NEW s \in Loads[ctl.gen + 1], Load(s) PROVE TogetherIInv'
    BY <2>1, LoadTogether
  <2>2. ASSUME NEW n, bufferSeek(n) PROVE TogetherIInv'
    BY <2>2, ElementTogether
  <2> QED BY <1>3, <2>1, <2>2, SuspendTogether, SyncTogether, SourceTogether, ElementTogether DEF Next
<1> QED BY <1>1, <1>2, <1>3

\* What a load's stream delivers reaches the buffers whole and in order, and no init segment
\* is parsed before every buffer of the load exists, whatever order messages, operations of
\* the buffers, openings, closings and loads come in (mse/media-source.ts, appendInit and
\* flushPendingSourceBufferInit; mse/playback-controller.ts, flushPendingInits).
THEOREM BuffersAlwaysRight == ASSUME TracksFirst PROVE Spec => []BuffersRight
<1>1. Init => SlowIInv /\ FlagsIInv /\ TogetherIInv
  BY SlowInit, FlagsInit, TogetherInit
<1>2. SlowIInv /\ FlagsIInv /\ TogetherIInv /\ [Next]_vars => SlowIInv' /\ FlagsIInv' /\ TogetherIInv'
  BY SlowStep, FlagsStep, TogetherStep
<1>3. TogetherIInv => InitsTogether
  BY DEF TogetherIInv, Ready, Begun, InitsTogether
<1>4. InitsTogether /\ InOrderOnce <=> BuffersRight
  BY DEF BuffersRight
<1>5. Spec => []InOrderOnce
  BY AppendsInOrder
<1> QED BY <1>1, <1>2, <1>3, <1>4, <1>5, PTL DEF Spec
=============================================================================
