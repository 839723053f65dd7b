------------------------ MODULE TransmuxWorkerProofs ------------------------
(* Machine-checked: what the playlist source hands out is one timeline and   *)
(* loses nothing, alone and inside the worker, the fetch loader in it offers *)
(* every byte once, nothing of an older load goes out, and a load is played  *)
(* through in order to its end, whatever the page commands, however runs are *)
(* superseded and downloads and the decoder interleave with the playlist.    *)
EXTENDS TransmuxWorker, FiniteSetTheorems, SequenceTheorems, WellFoundedInduction, TLAPS

-----------------------------------------------------------------------------
(* The playlist source alone                                                 *)

\* Two sources that differ at most in what the queue does not depend on.
Alike(a, b) ==
  /\ a.segments = b.segments /\ a.nextIndex = b.nextIndex
  /\ a.nextMediaSequence = b.nextMediaSequence /\ a.timelinePos = b.timelinePos
  /\ a.resetPending = b.resetPending /\ a.initialized = b.initialized

\* a is h with another queue.
Moved(a, h, s, i, n, t) ==
  /\ a \in Source
  /\ a.segments = s /\ a.nextIndex = i /\ a.nextMediaSequence = n /\ a.timelinePos = t
  /\ a.resetPending = h.resetPending /\ a.initialized = h.initialized

\* a is h after the first playlist.
Started(a, h, s, i, t) ==
  /\ a \in Source
  /\ a.segments = s /\ a.nextIndex = i /\ a.nextMediaSequence = h.nextMediaSequence
  /\ a.timelinePos = t /\ a.resetPending = h.resetPending /\ a.initialized

-----------------------------------------------------------------------------
(* The fields of a source                                                  *)

\* Phases, failures and the variant are not part of the queue.
LEMMA SetAside ==
  ASSUME NEW h \in Source
  PROVE  /\ \A ph \in {"idle", "sleep", "fetch"} :
              [h EXCEPT !.phase = ph] \in Source /\ Alike([h EXCEPT !.phase = ph], h)
         /\ [h EXCEPT !.variant = TRUE] \in Source /\ Alike([h EXCEPT !.variant = TRUE], h)
         /\ \A n \in Nat, ph \in {"idle", "sleep", "fetch"} :
              LET a == [h EXCEPT !.refreshFailures = n, !.phase = ph] IN a \in Source /\ Alike(a, h)
         /\ LET a == [h EXCEPT !.refreshFailures = 0, !.variant = TRUE] IN a \in Source /\ Alike(a, h)
<1>1. \A x \in Source, ph \in {"idle", "sleep", "fetch"} :
        [x EXCEPT !.phase = ph] \in Source /\ Alike([x EXCEPT !.phase = ph], x)
  BY DEF Source, Alike
<1>2. \A x \in Source : [x EXCEPT !.variant = TRUE] \in Source /\ Alike([x EXCEPT !.variant = TRUE], x)
  BY DEF Source, Alike
<1>3. \A x \in Source, n \in Nat, ph \in {"idle", "sleep", "fetch"} :
        [x EXCEPT !.refreshFailures = n, !.phase = ph] \in Source
          /\ Alike([x EXCEPT !.refreshFailures = n, !.phase = ph], x)
  <2> SUFFICES ASSUME NEW x \in Source, NEW n \in Nat, NEW ph \in {"idle", "sleep", "fetch"}
               PROVE  /\ [x EXCEPT !.refreshFailures = n, !.phase = ph] \in Source
                      /\ Alike([x EXCEPT !.refreshFailures = n, !.phase = ph], x)
    OBVIOUS
  <2>1. [x EXCEPT !.refreshFailures = n, !.phase = ph] \in Source
    BY DEF Source
  <2>2. Alike([x EXCEPT !.refreshFailures = n, !.phase = ph], x)
    BY DEF Source, Alike
  <2> QED BY <2>1, <2>2
<1>4. \A x \in Source :
        [x EXCEPT !.refreshFailures = 0, !.variant = TRUE] \in Source
          /\ Alike([x EXCEPT !.refreshFailures = 0, !.variant = TRUE], x)
  BY DEF Source, Alike
<1> QED BY <1>1, <1>2, <1>3, <1>4, Zenon

\* One segment is handed out.
LEMMA SetServed ==
  ASSUME NEW h \in Source
  PROVE  LET a == [h EXCEPT !.nextIndex = @ + 1, !.resetPending = FALSE, !.phase = "idle"] IN
         /\ a \in Source
         /\ a.segments = h.segments /\ a.nextIndex = h.nextIndex + 1
         /\ a.nextMediaSequence = h.nextMediaSequence /\ a.timelinePos = h.timelinePos
         /\ a.resetPending = FALSE /\ a.initialized = h.initialized
<1> DEFINE a == [h EXCEPT !.nextIndex = @ + 1, !.resetPending = FALSE, !.phase = "idle"]
<1>1. h.nextIndex + 1 \in Nat
  BY DEF Source
<1>2. a \in Source
  BY <1>1 DEF Source
<1>3. /\ a.segments = h.segments /\ a.nextIndex = h.nextIndex + 1
      /\ a.nextMediaSequence = h.nextMediaSequence /\ a.timelinePos = h.timelinePos
      /\ a.resetPending = FALSE /\ a.initialized = h.initialized
  BY DEF Source
<1> QED BY <1>2, <1>3

\* The history is cut.
LEMMA SetTrimmed ==
  ASSUME NEW h \in Source, NEW s \in Seq(Segment)
  PROVE  Moved([h EXCEPT !.segments = s, !.nextIndex = KEEP], h, s, KEEP,
               h.nextMediaSequence, h.timelinePos)
BY HlsAssumption DEF Source, Moved

\* A playlist is appended.
LEMMA SetAppended ==
  ASSUME NEW h \in Source, NEW live \in BOOLEAN, NEW s \in Seq(Segment), NEW t \in Int,
         NEW n \in Int, NEW b \in BOOLEAN
  PROVE  Moved([h EXCEPT !.live = live, !.ended = ~live, !.segments = s, !.timelinePos = t,
                         !.nextMediaSequence = n, !.news = b], h, s, h.nextIndex, n, t)
BY DEF Source, Moved

\* Playback starts near the end.
LEMMA SetStart ==
  ASSUME NEW h \in Source, NEW s \in Seq(Segment), NEW t \in Int, NEW n \in Nat
  PROVE  Started([h EXCEPT !.nextIndex = n, !.segments = s, !.timelinePos = t,
                           !.initialized = TRUE], h, s, n, t)
BY DEF Source, Started

\* What the queue is told from is the same for sources that are alike.
LEMMA AlikeKeeps ==
  ASSUME NEW a, NEW b, Alike(a, b)
  PROVE  /\ Queue(b) => Queue(a)
         /\ \A g : Handed(b, g) => Handed(a, g)
         /\ \A g, L : Kept(b, g, L) => Kept(a, g, L)
<1>1. Queue(b) => Queue(a)
  BY DEF Alike, Queue
<1>2. \A g : Handed(b, g) => Handed(a, g)
  BY DEF Alike, Handed
<1>3. \A g, L : Kept(b, g, L) => Kept(a, g, L)
  BY DEF Alike, Kept
<1> QED BY <1>1, <1>2, <1>3

-----------------------------------------------------------------------------
(* Serving                                                                 *)

\* The segment handed out goes on where the one before it ended.
LEMMA Extends ==
  ASSUME NEW h \in Source, Queue(h), given \in Seq(Segment), Handed(h, given),
         Contiguous, JumpsReset, h.nextIndex < Len(h.segments),
         NEW e \in Segment,
         e.seq = h.segments[h.nextIndex + 1].seq,
         e.start = h.segments[h.nextIndex + 1].start,
         e.duration = h.segments[h.nextIndex + 1].duration,
         e.reset <=> h.segments[h.nextIndex + 1].reset \/ h.resetPending,
         given' = Append(given, e)
  PROVE  given' \in Seq(Segment) /\ Contiguous' /\ JumpsReset'
<1> DEFINE n == Len(given)
<1>1. n \in Nat /\ Len(given') = n + 1 /\ given' \in Seq(Segment)
  BY DEF Segment
<1>2. given'[n + 1] = e /\ \A i \in 1..n : given'[i] = given[i]
  BY <1>1
<1>3. DOMAIN given' = 1..n + 1 /\ DOMAIN given = 1..n
  BY <1>1
<1>4. given = <<>> <=> n = 0
  OBVIOUS
<1>5. h.nextIndex \in Nat /\ h.segments \in Seq(Segment)
  BY DEF Source
<1>6. n # 0 => Follows(e, given[n])
  <2> SUFFICES ASSUME n # 0
               PROVE  Follows(e, given[n])
    OBVIOUS
  <2>1. h.nextIndex \in 1..Len(h.segments) - 1
    BY <1>4, <1>5 DEF Handed
  <2>2. Follows(h.segments[h.nextIndex + 1], h.segments[h.nextIndex])
    BY <2>1 DEF Queue
  <2>3. /\ given[n].seq = h.segments[h.nextIndex].seq
        /\ given[n].start = h.segments[h.nextIndex].start
        /\ given[n].duration = h.segments[h.nextIndex].duration
    BY <1>4 DEF Handed
  <2> QED BY <2>2, <2>3 DEF Follows
<1>7. n = 0 => e.start = 0 /\ e.reset
  <2> SUFFICES ASSUME n = 0
               PROVE  e.start = 0 /\ e.reset
    OBVIOUS
  <2>1. h.segments # <<>>
    BY <1>5
  <2> QED BY <2>1, <1>4 DEF Handed
<1>8. e.seq \in Marked => e.reset
  BY <1>5 DEF Queue
<1>9. Contiguous'
  <2> SUFFICES ASSUME NEW i \in 1..n + 1
               PROVE  IF i = 1 THEN given'[1].start = 0 /\ given'[1].reset
                      ELSE given'[i].start = given'[i - 1].start + given'[i - 1].duration
    BY <1>3 DEF Contiguous
  <2>1. CASE i \in 1..n
    <3>1. IF i = 1 THEN given[1].start = 0 /\ given[1].reset
          ELSE given[i].start = given[i - 1].start + given[i - 1].duration
      BY <2>1, <1>3 DEF Contiguous
    <3>2. i # 1 => i - 1 \in 1..n
      BY <2>1, <1>1
    <3> QED BY <2>1, <3>1, <3>2, <1>2
  <2>2. CASE i = n + 1 /\ n = 0
    BY <2>2, <1>2, <1>7
  <2>3. CASE i = n + 1 /\ n # 0
    <3>1. n \in 1..n /\ i # 1 /\ i - 1 = n
      BY <2>3, <1>1
    <3>2. given'[i] = e /\ given'[i - 1] = given[n]
      BY <2>3, <3>1, <1>2
    <3>3. e.start = given[n].start + given[n].duration
      BY <2>3, <1>6 DEF Follows
    <3> QED BY <3>1, <3>2, <3>3
  <2> QED BY <2>1, <2>2, <2>3, <1>1
<1>10. JumpsReset'
  <2> SUFFICES ASSUME NEW i \in 1..n + 1
               PROVE  /\ i > 1 => given'[i].seq > given'[i - 1].seq
                      /\ i > 1 /\ given'[i].seq # given'[i - 1].seq + 1 => given'[i].reset
                      /\ given'[i].seq \in Marked => given'[i].reset
    BY <1>3 DEF JumpsReset
  <2>1. CASE i \in 1..n
    BY <2>1, <1>1, <1>2, <1>3 DEF JumpsReset
  <2>2. CASE i = n + 1
    BY <2>2, <1>1, <1>2, <1>6, <1>8 DEF Follows
  <2> QED BY <2>1, <2>2, <1>1
<1> QED BY <1>1, <1>9, <1>10

\* One turn of next() keeps the queue, what was handed out and every segment of the
\* two; it announces the end, and starts with nothing, only of an empty queue.
LEMMA Serving ==
  ASSUME NEW h \in Source, Queue(h), given \in Seq(Segment), Handed(h, given),
         Contiguous, JumpsReset, Serve(h)
  PROVE  /\ hls' \in Source /\ Queue(hls')
         /\ given' \in Seq(Segment) /\ Handed(hls', given')
         /\ Contiguous' /\ JumpsReset'
         /\ hls'.initialized = h.initialized
         /\ given' = <<>> => given = <<>> /\ hls'.segments = <<>> /\ hls'.nextIndex = 0
         /\ \A L : Kept(h, given, L) => Kept(hls', given', L)
         /\ outcome' = "end" => hls'.nextIndex = Len(hls'.segments)
         /\ given = <<>> /\ h.segments # <<>> =>
              given' # <<>> /\ given'[1].seq = h.segments[h.nextIndex + 1].seq
<1>1. h.nextIndex \in Nat /\ h.segments \in Seq(Segment) /\ Len(h.segments) \in Nat
  BY DEF Source
<1>2. CASE h.nextIndex < Len(h.segments) /\ outcome' = "meta"
  <2> DEFINE m == h.segments[h.nextIndex + 1]
             e == [m EXCEPT !.reset = @ \/ h.resetPending]
             n == Len(given)
  <2>1. m \in Segment
    BY <1>1, <1>2
  <2>2. h.resetPending \in BOOLEAN
    BY DEF Source
  <2>3. \A x \in Segment, b \in BOOLEAN :
          LET y == [x EXCEPT !.reset = @ \/ b] IN
          /\ y \in Segment /\ y.seq = x.seq /\ y.start = x.start /\ y.duration = x.duration
          /\ y.reset <=> x.reset \/ b
    BY DEF Segment
  <2>4. /\ e \in Segment /\ e.seq = m.seq /\ e.start = m.start /\ e.duration = m.duration
        /\ e.reset <=> m.reset \/ h.resetPending
    BY <2>1, <2>2, <2>3, Zenon
  <2>5. given' = Append(given, e)
        /\ hls' = [h EXCEPT !.nextIndex = @ + 1, !.resetPending = FALSE, !.phase = "idle"]
    BY <1>2 DEF Serve
  <2>6. /\ hls' \in Source /\ hls'.segments = h.segments /\ hls'.nextIndex = h.nextIndex + 1
        /\ hls'.nextMediaSequence = h.nextMediaSequence /\ hls'.timelinePos = h.timelinePos
        /\ hls'.resetPending = FALSE /\ hls'.initialized = h.initialized
    BY <2>5, SetServed, Zenon
  <2> HIDE DEF m, e
  <2>7. given' \in Seq(Segment) /\ Contiguous' /\ JumpsReset'
    BY <1>2, <2>4, <2>5, Extends DEF m
  <2>8. n \in Nat /\ Len(given') = n + 1 /\ given'[n + 1] = e /\ \A i \in 1..n : given'[i] = given[i]
    BY <2>4, <2>5
  <2>9. DOMAIN given' = 1..n + 1 /\ DOMAIN given = 1..n /\ given' # <<>>
    BY <2>4, <2>5, <2>8
  <2>10. Queue(hls')
    BY <1>1, <1>2, <2>6 DEF Queue
  <2>11. Handed(hls', given')
    BY <1>1, <2>4, <2>6, <2>8, <2>9 DEF Handed, m
  <2>12. \A L : Kept(h, given, L) => Kept(hls', given', L)
    <3> SUFFICES ASSUME NEW L, Kept(h, given, L), NEW k \in L
                 PROVE  \/ \E i \in DOMAIN given' : given'[i].seq = k
                        \/ \E i \in hls'.nextIndex + 1 .. Len(hls'.segments) :
                             hls'.segments[i].seq = k
      BY Zenon DEF Kept
    <3>1. CASE \E i \in DOMAIN given : given[i].seq = k
      BY <3>1, <2>8, <2>9
    <3>2. CASE \E i \in h.nextIndex + 1 .. Len(h.segments) : h.segments[i].seq = k
      <4>1. PICK i \in h.nextIndex + 1 .. Len(h.segments) : h.segments[i].seq = k
        BY <3>2
      <4>2. CASE i = h.nextIndex + 1
        BY <4>1, <4>2, <2>4, <2>8, <2>9 DEF m
      <4>3. CASE i # h.nextIndex + 1
        BY <4>1, <4>3, <1>1, <2>6
      <4> QED BY <4>2, <4>3
    <3> QED BY <3>1, <3>2 DEF Kept
  <2>13. given = <<>> => given'[1].seq = h.segments[h.nextIndex + 1].seq
    BY <2>4, <2>8 DEF m
  <2> QED BY <1>2, <2>6, <2>7, <2>9, <2>10, <2>11, <2>12, <2>13
<1>3. CASE /\ h.nextIndex = Len(h.segments)
           /\ \E ph \in {"idle", "sleep", "fetch"} : hls' = [h EXCEPT !.phase = ph]
           /\ given' = given
  <2>1. hls' \in Source /\ Alike(hls', h)
    BY <1>3, SetAside, Zenon
  <2>2. /\ Queue(hls') /\ Handed(hls', given')
        /\ \A L : Kept(h, given, L) => Kept(hls', given', L)
    BY <1>3, <2>1, AlikeKeeps, Zenon
  <2>3. given = <<>> => h.segments = <<>> /\ h.nextIndex = 0
    BY <1>1, <1>3 DEF Handed
  <2>4. Contiguous' /\ JumpsReset'
    BY <1>3 DEF Contiguous, JumpsReset
  <2> QED BY <1>3, <2>1, <2>2, <2>3, <2>4 DEF Alike
<1> QED BY <1>2, <1>3 DEF Serve

-----------------------------------------------------------------------------
(* Ingesting a playlist                                                    *)

Listing == [first : Nat, last : -1..LastSequence, live : BOOLEAN]

\* Whatever answers, a cache included, lists segments of the stream.
LEMMA AnswersAreListings ==
  ASSUME server \in [last : -1..LastSequence, live : BOOLEAN, sliding : BOOLEAN]
  PROVE  Answers \subseteq Listing
<1>1. \A n \in -1..LastSequence, b \in BOOLEAN : Playlist(n, b) \in Listing
  BY HlsAssumption DEF Playlist, Listing
<1> QED BY <1>1 DEF Answers

\* The first segment the source has not seen.
From(h, p) == IF h.nextMediaSequence > p.first THEN h.nextMediaSequence ELSE p.first

\* The new segments are consecutive, go on where the timeline stands, and begin with
\* a reset when some were missed.
LEMMA NewOnes ==
  ASSUME NEW h \in Source, NEW p \in Listing
  PROVE  LET new == NewSegments(h, p)
             n   == From(h, p)
         IN  /\ n \in Nat /\ new \in Seq(Segment)
             /\ Len(new) = IF p.last >= n THEN p.last - n + 1 ELSE 0
             /\ \A i \in 1..Len(new) : new[i].seq = n + i - 1
             /\ \A i \in 1..Len(new) : new[i].seq \in Marked => new[i].reset
             /\ \A i \in 1..Len(new) - 1 : Follows(new[i + 1], new[i])
             /\ new # <<>> => /\ new[1].start = h.timelinePos
                              /\ h.nextMediaSequence # -1 /\ n > h.nextMediaSequence => new[1].reset
<1> DEFINE new == NewSegments(h, p)
           n   == From(h, p)
           len == IF p.last >= n THEN p.last - n + 1 ELSE 0
           s(k, i) == [seq      |-> k,
                       start    |-> h.timelinePos + Begins[k] - Begins[n],
                       duration |-> Begins[k + 1] - Begins[k],
                       reset    |-> k \in Marked
                                      \/ (h.nextMediaSequence # -1 /\ i = 1 /\ n > h.nextMediaSequence),
                       init     |-> InitUrl[k]]
<1>1. n \in Nat /\ h.nextMediaSequence \in Int /\ h.timelinePos \in Int
  BY DEF From, Source, Listing
<1>2. p.last \in -1..LastSequence /\ len \in Nat
  BY <1>1, HlsAssumption DEF Listing
<1>3. new = [i \in 1..len |-> s(n + i - 1, i)]
  BY DEF NewSegments, From
<1>4. \A i \in 1..len : n + i - 1 \in Sequence
  <2>1. \A x \in Nat, y \in -1..LastSequence : y >= x =>
          \A i \in 1..y - x + 1 : x + i - 1 \in 0..LastSequence
    BY HlsAssumption
  <2> SUFFICES ASSUME NEW i \in 1..len
               PROVE  n + i - 1 \in 0..LastSequence
    BY DEF Sequence
  <2>2. p.last >= n /\ i \in 1..p.last - n + 1
    BY <1>1, <1>2
  <2> HIDE DEF n
  <2> QED BY <2>1, <2>2, <1>1, <1>2
<1>5. len # 0 => n \in Sequence
  BY <1>1, <1>2, HlsAssumption DEF Sequence
<1>6. \A k \in Sequence : Begins[k] \in Nat /\ Begins[k + 1] \in Nat /\ Begins[k + 1] - Begins[k] \in Nat
  BY HlsAssumption DEF Sequence
<1>7. \A k \in Sequence, i \in Nat : n \in Sequence => s(k, i) \in Segment
  BY <1>1, <1>6 DEF Segment
<1>8. \A i \in 1..len : s(n + i - 1, i) \in Segment
  BY <1>1, <1>4, <1>5, <1>7
<1> HIDE DEF s
<1>9. new \in Seq(Segment) /\ Len(new) = len
  BY <1>2, <1>3, <1>8
<1>10. \A i \in 1..len : new[i] = s(n + i - 1, i)
  BY <1>3
<1>11. \A k, i : /\ s(k, i).seq = k
                 /\ s(k, i).start = h.timelinePos + Begins[k] - Begins[n]
                 /\ s(k, i).duration = Begins[k + 1] - Begins[k]
                 /\ k \in Marked => s(k, i).reset
                 /\ h.nextMediaSequence # -1 /\ i = 1 /\ n > h.nextMediaSequence => s(k, i).reset
  BY DEF s
<1> HIDE DEF new, n, len
<1>12. \A i \in 1..len : new[i].seq = n + i - 1 /\ (new[i].seq \in Marked => new[i].reset)
  BY <1>10, <1>11
<1>13. \A i \in 1..len - 1 : Follows(new[i + 1], new[i])
  <2> SUFFICES ASSUME NEW i \in 1..len - 1
               PROVE  Follows(new[i + 1], new[i])
    OBVIOUS
  <2>1. i \in 1..len /\ i + 1 \in 1..len /\ n + (i + 1) - 1 = (n + i - 1) + 1
    BY <1>1, <1>2
  <2>2. n + i - 1 \in Sequence /\ n + (i + 1) - 1 \in Sequence /\ n \in Sequence
    BY <2>1, <1>2, <1>4, <1>5
  <2>3. new[i] = s(n + i - 1, i) /\ new[i + 1] = s(n + (i + 1) - 1, i + 1)
    BY <2>1, <1>10
  <2>4. new[i + 1].start = new[i].start + new[i].duration
    BY <2>1, <2>2, <2>3, <1>1, <1>6, <1>11
  <2>5. new[i + 1].seq = new[i].seq + 1 /\ new[i].seq \in Int
    BY <2>1, <2>3, <1>1, <1>11
  <2> QED BY <2>4, <2>5 DEF Follows
<1>14. new # <<>> => /\ new[1].start = h.timelinePos
                     /\ h.nextMediaSequence # -1 /\ n > h.nextMediaSequence => new[1].reset
  <2> SUFFICES ASSUME new # <<>>
               PROVE  /\ new[1].start = h.timelinePos
                      /\ h.nextMediaSequence # -1 /\ n > h.nextMediaSequence => new[1].reset
    OBVIOUS
  <2>1. len # 0 /\ 1 \in 1..len
    BY <1>2, <1>9
  <2>2. new[1] = s(n, 1) /\ n \in Sequence
    BY <2>1, <1>1, <1>5, <1>10
  <2> QED BY <2>2, <1>1, <1>6, <1>11
<1> QED BY <1>1, <1>9, <1>12, <1>13, <1>14 DEF new, n, len

\* The queue goes on with what a playlist adds, which is all it lists from nms on.
LEMMA Appending ==
  ASSUME NEW h \in Source, Queue(h), NEW p \in Listing
  PROVE  LET a == Appended(h, p)
             d == Len(h.segments)
         IN  /\ a \in Source /\ Queue(a)
             /\ a.nextIndex = h.nextIndex /\ a.resetPending = h.resetPending
             /\ a.initialized = h.initialized
             /\ Len(a.segments) >= d
             /\ \A i \in 1..d : a.segments[i] = h.segments[i]
             /\ h.segments = <<>> /\ a.segments # <<>> => a.segments[1].start = 0
             /\ \A i \in d + 1..Len(a.segments) : a.segments[i].seq = From(h, p) + (i - d) - 1
             /\ \A k \in p.first..p.last : k >= h.nextMediaSequence =>
                  \E i \in d + 1..Len(a.segments) : a.segments[i].seq = k
<1> DEFINE new == NewSegments(h, p)
           n   == From(h, p)
           d   == Len(h.segments)
           l   == Len(new)
           t   == IF new = <<>> THEN h.timelinePos ELSE new[Len(new)].start + new[Len(new)].duration
           q   == IF new = <<>> THEN h.nextMediaSequence ELSE p.last + 1
           a   == Appended(h, p)
           s   == h.segments \o new
<1>1. /\ n \in Nat /\ new \in Seq(Segment)
      /\ l = IF p.last >= n THEN p.last - n + 1 ELSE 0
      /\ \A i \in 1..l : new[i].seq = n + i - 1
      /\ \A i \in 1..l : new[i].seq \in Marked => new[i].reset
      /\ \A i \in 1..l - 1 : Follows(new[i + 1], new[i])
      /\ new # <<>> => /\ new[1].start = h.timelinePos
                       /\ h.nextMediaSequence # -1 /\ n > h.nextMediaSequence => new[1].reset
  BY NewOnes
<1>2. /\ h.nextMediaSequence \in Int /\ h.timelinePos \in Int /\ h.nextIndex \in Nat
      /\ h.segments \in Seq(Segment) /\ d \in Nat /\ p.live \in BOOLEAN
      /\ p.first \in Nat /\ p.last \in -1..LastSequence
  BY DEF Source, Listing
<1>3. n >= p.first /\ n >= h.nextMediaSequence /\ (n = p.first \/ n = h.nextMediaSequence)
  BY <1>2 DEF From
<1> HIDE DEF new, n
<1>4. l \in Nat /\ (new = <<>> <=> l = 0)
  BY <1>1
<1>5. l # 0 => new[l] \in Segment /\ new[l].start + new[l].duration \in Int
  <2>1. l # 0 => new[l] \in Segment
    BY <1>1, <1>4
  <2> QED BY <2>1 DEF Segment
<1>6. t \in Int /\ q \in Int
  <2>1. LastSequence \in Nat
    BY HlsAssumption
  <2>2. p.last + 1 \in Int
    BY <1>2, <2>1
  <2>3. t \in Int
    BY <1>2, <1>4, <1>5
  <2>4. q \in Int
    BY <1>2, <2>2
  <2> QED BY <2>3, <2>4
<1>7. s \in Seq(Segment) /\ Len(s) = d + l
      /\ \A i \in 1..d + l : s[i] = IF i <= d THEN h.segments[i] ELSE new[i - d]
  <2>1. new \in Seq(Segment) /\ h.segments \in Seq(Segment)
    BY <1>1, <1>2
  <2> HIDE DEF d, l
  <2>2. d = Len(h.segments) /\ l = Len(new)
    BY DEF d, l
  <2> QED BY <2>1, <2>2, ConcatProperties
<1>8. a = [h EXCEPT !.live = p.live, !.ended = ~p.live, !.segments = s, !.timelinePos = t,
                    !.nextMediaSequence = q, !.news = (new # <<>>)]
  BY DEF Appended, new
<1> HIDE DEF s, t, q, a, d, l
<1>9. Moved(a, h, s, h.nextIndex, q, t)
  <2>1. \A b \in BOOLEAN :
          Moved([h EXCEPT !.live = p.live, !.ended = ~p.live, !.segments = s, !.timelinePos = t,
                          !.nextMediaSequence = q, !.news = b], h, s, h.nextIndex, q, t)
    BY <1>2, <1>6, <1>7, SetAppended, Zenon
  <2>2. (new # <<>>) \in BOOLEAN
    OBVIOUS
  <2> QED BY <2>1, <2>2, <1>8, Zenon
<1>10. \A i \in 1..d : s[i] = h.segments[i]
  BY <1>2, <1>4, <1>7
<1>11. \A i \in 1..l : s[d + i] = new[i]
  BY <1>2, <1>4, <1>7
<1>12. \A i \in d + 1..d + l : i - d \in 1..l /\ s[i] = new[i - d]
  BY <1>2, <1>4, <1>7
<1>13. Queue(a)
  <2>1. a.nextIndex <= Len(a.segments)
    BY <1>2, <1>4, <1>7, <1>9 DEF Moved, Queue, d
  <2>2. \A i \in 1..Len(s) - 1 : Follows(s[i + 1], s[i])
    <3> SUFFICES ASSUME NEW i \in 1..d + l - 1
                 PROVE  Follows(s[i + 1], s[i])
      <4>1. 1..Len(s) - 1 = 1..d + l - 1
        BY <1>2, <1>4, <1>7
      <4> QED BY <4>1, Zenon
    <3>1. CASE i \in 1..d - 1
      BY <3>1, <1>2, <1>10 DEF Queue, d
    <3>2. CASE i = d /\ l # 0 /\ d # 0
      <4>1. s[i + 1] = new[1] /\ s[i] = h.segments[d]
        <5>1. 1 \in 1..l /\ d \in 1..d
          BY <3>2, <1>2, <1>4
        <5> QED BY <3>2, <5>1, <1>10, <1>11
      <4>2. /\ h.timelinePos = h.segments[d].start + h.segments[d].duration
            /\ h.nextMediaSequence = h.segments[d].seq + 1
        BY <3>2, <1>2 DEF Queue, d
      <4>3. h.segments[d].seq \in Nat
        <5>1. h.segments[d] \in Segment
          BY <3>2, <1>2 DEF d
        <5> QED BY <5>1 DEF Segment, Sequence
      <4>4. new[1].seq = n /\ new[1].start = h.timelinePos
            /\ (h.nextMediaSequence # -1 /\ n > h.nextMediaSequence => new[1].reset)
        BY <3>2, <1>1, <1>4
      <4> QED BY <4>1, <4>2, <4>3, <4>4, <1>1, <1>3 DEF Follows
    <3>3. CASE i \in d + 1..d + l - 1
      <4>1. i - d \in 1..l - 1 /\ s[i] = new[i - d] /\ s[i + 1] = new[(i - d) + 1]
        <5>1. /\ i \in d + 1..d + l /\ i + 1 \in d + 1..d + l
              /\ i - d \in 1..l - 1 /\ (i + 1) - d = (i - d) + 1
          BY <3>3, <1>2, <1>4
        <5> QED BY <5>1, <1>12
      <4> QED BY <4>1, <1>1 DEF l
    <3> QED BY <3>1, <3>2, <3>3, <1>2, <1>4
  <2>3. \A i \in DOMAIN s : s[i].seq \in Marked => s[i].reset
    <3>1. DOMAIN s = 1..d + l /\ DOMAIN h.segments = 1..d
      BY <1>2, <1>7 DEF d
    <3>2. \A i \in 1..d : s[i].seq \in Marked => s[i].reset
      BY <3>1, <1>10 DEF Queue
    <3>3. \A i \in d + 1..d + l : s[i].seq \in Marked => s[i].reset
      BY <1>12, <1>1
    <3> QED BY <3>1, <3>2, <3>3, <1>2, <1>4
  <2>4. s = <<>> => t = 0 /\ q = -1
    <3> SUFFICES ASSUME s = <<>>
                 PROVE  t = 0 /\ q = -1
      OBVIOUS
    <3>1. d = 0 /\ l = 0
      BY <1>2, <1>4, <1>7
    <3>2. h.segments = <<>> /\ new = <<>>
      BY <3>1, <1>2, <1>4 DEF d
    <3> QED BY <3>2 DEF Queue, t, q
  <2>5. s # <<>> => t = s[Len(s)].start + s[Len(s)].duration /\ q = s[Len(s)].seq + 1
    <3>1. CASE l = 0
      <4>1. s # <<>> => h.segments # <<>> /\ Len(s) = d /\ s[d] = h.segments[d]
        BY <3>1, <1>2, <1>7, <1>10 DEF d
      <4>2. t = h.timelinePos /\ q = h.nextMediaSequence
        BY <3>1, <1>4 DEF t, q
      <4> QED BY <4>1, <4>2 DEF Queue, d
    <3>2. CASE l # 0
      <4>1. Len(s) = d + l /\ s[d + l] = new[l] /\ l \in 1..l
        BY <3>2, <1>2, <1>4, <1>7, <1>11
      <4>2. t = new[l].start + new[l].duration /\ q = p.last + 1
        BY <3>2, <1>4 DEF t, q, l
      <4>3. new[l].seq = p.last
        <5>1. new[l].seq = n + l - 1
          BY <4>1, <1>1
        <5>2. l = p.last - n + 1
          BY <3>2, <1>1
        <5> QED BY <5>1, <5>2, <1>1, <1>2
      <4> QED BY <4>1, <4>2, <4>3
    <3> QED BY <3>1, <3>2
  <2> QED BY <2>1, <2>2, <2>3, <2>4, <2>5, <1>9 DEF Moved, Queue
<1>14. h.segments = <<>> /\ s # <<>> => s[1].start = 0
  <2> SUFFICES ASSUME h.segments = <<>>, s # <<>>
               PROVE  s[1].start = 0
    OBVIOUS
  <2>1. d = 0 /\ l # 0
    BY <1>4, <1>7 DEF d
  <2>2. s[1] = new[1] /\ h.timelinePos = 0
    BY <2>1, <1>4, <1>11 DEF Queue
  <2> QED BY <2>1, <2>2, <1>1, <1>4
<1>15. \A i \in d + 1..Len(s) : s[i].seq = n + (i - d) - 1
  BY <1>1, <1>7, <1>12
<1>16. \A k \in p.first..p.last : k >= h.nextMediaSequence =>
         \E i \in d + 1..Len(s) : s[i].seq = k
  <2> SUFFICES ASSUME NEW k \in p.first..p.last, k >= h.nextMediaSequence
               PROVE  \E i \in d + 1..Len(s) : s[i].seq = k
    OBVIOUS
  <2>1. k >= n /\ p.last >= n /\ k \in Int
    BY <1>2, <1>3
  <2> DEFINE j == d + (k - n + 1)
  <2>2. j \in d + 1..Len(s) /\ n + (j - d) - 1 = k
    BY <2>1, <1>1, <1>2, <1>7
  <2> HIDE DEF j
  <2>3. s[j].seq = n + (j - d) - 1
    BY <2>2, <1>15
  <2> QED BY <2>2, <2>3
<1> QED BY <1>2, <1>4, <1>7, <1>9, <1>10, <1>13, <1>14, <1>15, <1>16 DEF Moved, a, n, d

\* Trimming cuts off only what was handed out long ago.
LEMMA Trimming ==
  ASSUME NEW h \in Source, Queue(h)
  PROVE  LET a == Trimmed(h) IN
         /\ a \in Source /\ Queue(a) /\ a.initialized = h.initialized
         /\ h.nextIndex = 0 => a = h
         /\ \A g : Handed(h, g) => Handed(a, g)
         /\ \A g, L : Kept(h, g, L) => Kept(a, g, L)
<1> DEFINE a == Trimmed(h)
           x == h.nextIndex
           d == Len(h.segments)
           s == SubSeq(h.segments, x - KEEP + 1, d)
<1>1. x \in Nat /\ d \in Nat /\ h.segments \in Seq(Segment) /\ x <= d
  BY DEF Source, Queue
<1>2. KEEP \in Nat \ {0} /\ TRIM_ABOVE \in Nat /\ KEEP <= TRIM_ABOVE
  BY HlsAssumption
<1>3. CASE h.live /\ h.news /\ x > TRIM_ABOVE
  <2>1. a = [h EXCEPT !.segments = s, !.nextIndex = KEEP]
    BY <1>3 DEF Trimmed
  <2>2. x - KEEP \in Nat /\ x - KEEP + 1 <= d /\ x - KEEP + 1 \in Int
    BY <1>1, <1>2, <1>3
  <2>3. \A i \in x - KEEP + 1 .. d : h.segments[i] \in Segment
    BY <1>1, <2>2
  <2>4. /\ s \in Seq(Segment)
        /\ Len(s) = d - (x - KEEP + 1) + 1
        /\ \A i \in 1 .. d - (x - KEEP + 1) + 1 : s[i] = h.segments[(x - KEEP + 1) + i - 1]
    BY <1>1, <2>2, <2>3, SubSeqProperties
  <2> HIDE DEF s, a
  <2>5. Moved(a, h, s, KEEP, h.nextMediaSequence, h.timelinePos)
    BY <2>1, <2>4, SetTrimmed, Zenon
  <2> DEFINE c == x - KEEP
  <2>6. c \in Nat /\ c + KEEP = x /\ Len(s) = d - c /\ KEEP <= d - c
    <3>1. Len(s) = d - (x - KEEP + 1) + 1
      BY <2>4
    <3> HIDE DEF x, d
    <3> QED BY <3>1, <1>1, <1>2, <2>2
  <2>7. \A i \in 1..d - c : c + i \in 1..d /\ s[i] = h.segments[c + i]
    <3> SUFFICES ASSUME NEW i \in 1..d - c
                 PROVE  c + i \in 1..d /\ s[i] = h.segments[c + i]
      OBVIOUS
    <3>1. i \in 1 .. d - (x - KEEP + 1) + 1 /\ (x - KEEP + 1) + i - 1 = c + i
      BY <1>1, <1>2, <2>6
    <3>2. s[i] = h.segments[(x - KEEP + 1) + i - 1]
      BY <3>1, <2>4
    <3>3. c + i \in 1..d
      BY <1>1, <2>6
    <3> QED BY <3>1, <3>2, <3>3
  <2> HIDE DEF c
  <2>8. Queue(a)
    <3>1. \A i \in 1..Len(s) - 1 : Follows(s[i + 1], s[i])
      <4> SUFFICES ASSUME NEW i \in 1..d - c - 1
                   PROVE  Follows(s[i + 1], s[i])
        BY <2>6
      <4>1. /\ c + i \in 1..d - 1 /\ i \in 1..d - c /\ i + 1 \in 1..d - c
            /\ c + (i + 1) = (c + i) + 1
        BY <1>1, <2>6
      <4>2. s[i] = h.segments[c + i] /\ s[i + 1] = h.segments[(c + i) + 1]
        BY <4>1, <2>7
      <4> QED BY <4>1, <4>2 DEF Queue
    <3>2. \A i \in DOMAIN s : s[i].seq \in Marked => s[i].reset
      <4>1. DOMAIN s = 1..d - c /\ DOMAIN h.segments = 1..d
        BY <1>1, <2>4, <2>6
      <4> QED BY <4>1, <2>7 DEF Queue
    <3>3. h.segments # <<>> /\ s # <<>> /\ s[Len(s)] = h.segments[d]
      <4>1. d - c \in 1..d - c /\ c + (d - c) = d
        BY <1>1, <1>2, <2>6
      <4>2. s[d - c] = h.segments[c + (d - c)]
        BY <4>1, <2>7
      <4> QED BY <4>1, <4>2, <1>1, <1>2, <2>6
    <3>4. h.timelinePos = h.segments[d].start + h.segments[d].duration
          /\ h.nextMediaSequence = h.segments[d].seq + 1
      BY <3>3 DEF Queue
    <3> QED BY <3>1, <3>2, <3>3, <3>4, <2>5, <2>6 DEF Queue, Moved
  <2>9. \A g : Handed(h, g) => Handed(a, g)
    <3>1. s[KEEP] = h.segments[x]
      BY <1>2, <2>6, <2>7
    <3>2. KEEP < d - c => s[KEEP + 1] = h.segments[x + 1]
      <4>1. KEEP < d - c => KEEP + 1 \in 1..d - c /\ c + (KEEP + 1) = x + 1
        BY <1>1, <1>2, <2>6
      <4> QED BY <4>1, <2>7
    <3>3. h.segments # <<>> /\ KEEP >= 1 /\ (x < d <=> KEEP < d - c)
      BY <1>1, <1>2, <1>3, <2>6
    <3> QED BY <3>1, <3>2, <3>3, <2>5, <2>6 DEF Handed, Moved
  <2>10. \A g, L : Kept(h, g, L) => Kept(a, g, L)
    <3> SUFFICES ASSUME NEW g, NEW L, Kept(h, g, L), NEW k \in L,
                        NEW i \in x + 1..d, h.segments[i].seq = k
                 PROVE  \E j \in a.nextIndex + 1 .. Len(a.segments) : a.segments[j].seq = k
      BY Zenon DEF Kept
    <3>1. i - c \in KEEP + 1..Len(s) /\ i - c \in 1..d - c /\ c + (i - c) = i
      BY <1>1, <1>2, <2>6
    <3>2. s[i - c] = h.segments[c + (i - c)]
      BY <3>1, <2>7
    <3> QED BY <3>1, <3>2, <2>5 DEF Moved
  <2>11. h.nextIndex # 0
    BY <1>3, <1>2
  <2> QED BY <2>5, <2>8, <2>9, <2>10, <2>11 DEF Moved, a
<1>4. CASE ~(h.live /\ h.news /\ x > TRIM_ABOVE)
  <2>1. a = h
    BY <1>4 DEF Trimmed
  <2> QED BY <2>1
<1> QED BY <1>3, <1>4

\* Playback starts at time 0 near the end of a first playlist.
LEMMA Starting ==
  ASSUME NEW h \in Source, Queue(h), h.nextIndex = 0, h.resetPending
  PROVE  LET a == AtLiveEdge(h) IN
         /\ a \in Source /\ Queue(a) /\ Handed(a, <<>>) /\ a.initialized
         /\ Len(a.segments) = Len(h.segments)
         /\ \A i \in 1..Len(h.segments) : a.segments[i].seq = h.segments[i].seq
<1> DEFINE d    == Len(h.segments)
           idx  == IF h.live /\ d > LIVE_EDGE_SEGMENTS THEN d - LIVE_EDGE_SEGMENTS ELSE 0
           base == IF idx < d THEN h.segments[idx + 1].start ELSE 0
           e(x) == [x EXCEPT !.start = @ - base]
           s    == [i \in 1..d |-> e(h.segments[i])]
           t    == h.timelinePos - base
           a    == AtLiveEdge(h)
<1>1. h.segments \in Seq(Segment) /\ d \in Nat /\ h.timelinePos \in Int
  BY DEF Source
<1>2. idx \in Nat /\ (idx < d \/ (idx = d /\ d = 0)) /\ idx <= d
  BY <1>1, HlsAssumption
<1> HIDE DEF idx
<1>3. base \in Int
  <2>1. idx < d => h.segments[idx + 1] \in Segment
    BY <1>1, <1>2
  <2> QED BY <2>1 DEF Segment
<1>4. t \in Int
  BY <1>1, <1>3
<1>5. \A x \in Segment : /\ e(x) \in Segment /\ e(x).seq = x.seq /\ e(x).start = x.start - base
                         /\ e(x).duration = x.duration /\ e(x).reset = x.reset
  <2> HIDE DEF base
  <2> QED BY <1>3 DEF Segment
<1>6. a = [h EXCEPT !.nextIndex = idx, !.segments = s, !.timelinePos = t, !.initialized = TRUE]
  BY DEF AtLiveEdge, idx
<1>7. d = 0 => base = 0
  BY <1>2
<1>8. \A i \in 1..d : h.segments[i] \in Segment
  BY <1>1
<1>9. idx < d => base = h.segments[idx + 1].start
  OBVIOUS
<1> HIDE DEF base, e, t, a
<1>10. s \in Seq(Segment) /\ Len(s) = d /\ \A i \in 1..d : s[i] = e(h.segments[i])
  BY <1>1, <1>5, <1>8
<1> HIDE DEF s
<1>11. Started(a, h, s, idx, t)
  BY <1>2, <1>4, <1>6, <1>10, SetStart, Zenon
<1>12. \A i \in 1..d : /\ s[i].seq = h.segments[i].seq /\ s[i].start = h.segments[i].start - base
                       /\ s[i].duration = h.segments[i].duration /\ s[i].reset = h.segments[i].reset
  BY <1>5, <1>8, <1>10
<1>13. Queue(a)
  <2>1. \A i \in 1..Len(s) - 1 : Follows(s[i + 1], s[i])
    <3> SUFFICES ASSUME NEW i \in 1..d - 1
                 PROVE  Follows(s[i + 1], s[i])
      BY <1>10
    <3>1. i \in 1..d /\ i + 1 \in 1..d
      BY <1>1
    <3>2. Follows(h.segments[i + 1], h.segments[i])
      BY DEF Queue
    <3>3. /\ h.segments[i].start \in Int /\ h.segments[i + 1].start \in Int
          /\ h.segments[i].duration \in Int
      <4>1. h.segments[i] \in Segment /\ h.segments[i + 1] \in Segment
        BY <3>1, <1>8
      <4> QED BY <4>1 DEF Segment
    <3>4. /\ s[i].seq = h.segments[i].seq /\ s[i].start = h.segments[i].start - base
          /\ s[i].duration = h.segments[i].duration
          /\ s[i + 1].seq = h.segments[i + 1].seq /\ s[i + 1].reset = h.segments[i + 1].reset
          /\ s[i + 1].start = h.segments[i + 1].start - base
      BY <3>1, <1>12
    <3> QED BY <3>2, <3>3, <3>4, <1>3 DEF Follows
  <2>2. \A i \in DOMAIN s : s[i].seq \in Marked => s[i].reset
    <3>1. DOMAIN s = 1..d /\ DOMAIN h.segments = 1..d
      BY <1>1, <1>10
    <3> QED BY <3>1, <1>12 DEF Queue
  <2>3. s = <<>> => t = 0 /\ h.nextMediaSequence = -1
    <3> SUFFICES ASSUME s = <<>>
                 PROVE  t = 0 /\ h.nextMediaSequence = -1
      OBVIOUS
    <3>1. d = 0
      BY <1>10
    <3>2. h.segments = <<>>
      BY <3>1, <1>1
    <3> QED BY <3>1, <3>2, <1>7 DEF Queue, t
  <2>4. s # <<>> => t = s[Len(s)].start + s[Len(s)].duration /\ h.nextMediaSequence = s[Len(s)].seq + 1
    <3> SUFFICES ASSUME s # <<>>
                 PROVE  t = s[d].start + s[d].duration /\ h.nextMediaSequence = s[d].seq + 1
      BY <1>10
    <3>1. d \in 1..d /\ h.segments # <<>>
      BY <1>1, <1>10
    <3>2. h.timelinePos = h.segments[d].start + h.segments[d].duration
          /\ h.nextMediaSequence = h.segments[d].seq + 1
      BY <3>1 DEF Queue
    <3>3. h.segments[d].start \in Int /\ h.segments[d].duration \in Int
      <4>1. h.segments[d] \in Segment
        BY <3>1, <1>8
      <4> QED BY <4>1 DEF Segment
    <3>4. /\ s[d].seq = h.segments[d].seq /\ s[d].start = h.segments[d].start - base
          /\ s[d].duration = h.segments[d].duration
      BY <3>1, <1>12
    <3> QED BY <3>2, <3>3, <3>4, <1>3 DEF t
  <2> QED BY <2>1, <2>2, <2>3, <2>4, <1>2, <1>10, <1>11 DEF Queue, Started
<1>14. Handed(a, <<>>)
  <2> SUFFICES ASSUME s # <<>>
               PROVE  idx < Len(s) /\ s[idx + 1].start = 0
    BY <1>11 DEF Handed, Started
  <2>1. d # 0
    BY <1>10
  <2>2. idx < d /\ idx + 1 \in 1..d
    BY <2>1, <1>1, <1>2
  <2>3. h.segments[idx + 1].start \in Int
    BY <2>2, <1>3, <1>9
  <2> QED BY <2>2, <2>3, <1>9, <1>10, <1>12
<1> QED BY <1>10, <1>11, <1>12, <1>13, <1>14 DEF Started, a

\* After a playlist was ingested, and playback was started where it had not been, what
\* a playlist lists is queued, unless it is before the segment playback starts with.
LEMMA Ingesting ==
  ASSUME HlsInv, NEW p \in Listing, NEW g,
         LET h == Ingest([hls EXCEPT !.refreshFailures = 0, !.variant = TRUE], p)
         IN  g = IF h.initialized THEN h ELSE AtLiveEdge(h)
  PROVE  /\ g \in Source /\ Queue(g) /\ Handed(g, given) /\ g.initialized
         /\ Kept(g, given, listed)
         /\ \A k \in p.first..p.last : k >= hls.nextMediaSequence =>
              /\ given = <<>> => g.segments # <<>>
              /\ given = <<>> /\ k >= g.segments[g.nextIndex + 1].seq => Kept(g, given, {k})
              /\ given # <<>> => Kept(g, given, {k})
<1> DEFINE b == [hls EXCEPT !.refreshFailures = 0, !.variant = TRUE]
           a == Appended(b, p)
           t == Trimmed(a)
           d == Len(hls.segments)
<1>1. hls \in Source /\ Queue(hls) /\ Handed(hls, given) /\ Kept(hls, given, listed)
  BY DEF HlsInv, HlsTypeOK, NothingListedLost
<1>2. b \in Source /\ Alike(b, hls)
  BY <1>1, SetAside, Zenon
<1>3. g = IF t.initialized THEN t ELSE AtLiveEdge(t)
  BY DEF Ingest
<1> HIDE DEF b
<1>4. Queue(b) /\ Handed(b, given) /\ Kept(b, given, listed)
  BY <1>1, <1>2, AlikeKeeps, Zenon
<1>5. /\ b.segments = hls.segments /\ b.nextIndex = hls.nextIndex
      /\ b.nextMediaSequence = hls.nextMediaSequence
      /\ b.resetPending = hls.resetPending /\ b.initialized = hls.initialized
  BY <1>2 DEF Alike
<1>6. /\ a \in Source /\ Queue(a)
      /\ a.nextIndex = hls.nextIndex /\ a.resetPending = hls.resetPending
      /\ a.initialized = hls.initialized
      /\ Len(a.segments) >= d
      /\ \A i \in 1..d : a.segments[i] = hls.segments[i]
      /\ hls.segments = <<>> /\ a.segments # <<>> => a.segments[1].start = 0
      /\ \A i \in d + 1..Len(a.segments) : a.segments[i].seq = From(b, p) + (i - d) - 1
      /\ \A k \in p.first..p.last : k >= hls.nextMediaSequence =>
           \E i \in d + 1..Len(a.segments) : a.segments[i].seq = k
  BY <1>2, <1>4, <1>5, Appending
<1> HIDE DEF a
<1>7. /\ hls.nextIndex \in Nat /\ d \in Nat /\ hls.nextIndex <= d
      /\ a.segments \in Seq(Segment) /\ Len(a.segments) \in Nat
  BY <1>1, <1>6 DEF Source, Queue
<1>8. given = <<>> => hls.segments = <<>> /\ hls.nextIndex = 0
  BY DEF HlsInv
<1>9. Handed(a, given)
  <2>1. CASE given = <<>>
    <3>1. a.segments # <<>> => 0 < Len(a.segments) /\ a.segments[1].start = 0
      BY <2>1, <1>6, <1>7, <1>8
    <3> QED BY <2>1, <3>1, <1>1, <1>6, <1>8 DEF Handed
  <2>2. CASE given # <<>>
    <3>1. hls.nextIndex \in 1..d
      BY <2>2, <1>1, <1>7 DEF Handed
    <3> QED BY <2>2, <3>1, <1>1, <1>6 DEF Handed
  <2> QED BY <2>1, <2>2
<1>10. Kept(a, given, listed)
  <2>1. \A i \in hls.nextIndex + 1 .. d :
          i \in a.nextIndex + 1 .. Len(a.segments) /\ a.segments[i] = hls.segments[i]
    BY <1>6, <1>7
  <2> QED BY <2>1, <1>1 DEF Kept
<1>11. \A k \in p.first..p.last : k >= hls.nextMediaSequence =>
         a.segments # <<>> /\ Kept(a, given, {k})
  <2> SUFFICES ASSUME NEW k \in p.first..p.last, k >= hls.nextMediaSequence
               PROVE  a.segments # <<>> /\ Kept(a, given, {k})
    OBVIOUS
  <2>1. PICK i \in d + 1..Len(a.segments) : a.segments[i].seq = k
    BY <1>6
  <2>2. i \in a.nextIndex + 1 .. Len(a.segments)
    BY <2>1, <1>6, <1>7
  <2> QED BY <2>1, <2>2, <1>7 DEF Kept
<1>12. /\ t \in Source /\ Queue(t) /\ t.initialized = a.initialized
       /\ hls.nextIndex = 0 => t = a
       /\ Handed(t, given) /\ \A L : Kept(a, given, L) => Kept(t, given, L)
  BY <1>6, <1>9, Trimming
<1> HIDE DEF t
<1>13. CASE hls.initialized
  <2>1. g = t
    BY <1>3, <1>6, <1>12, <1>13
  <2>2. \A k \in p.first..p.last : k >= hls.nextMediaSequence => Kept(g, given, {k})
    BY <2>1, <1>11, <1>12
  <2>3. given = <<>> => g = a
    BY <2>1, <1>8, <1>12
  <2> QED BY <2>1, <2>2, <2>3, <1>6, <1>10, <1>11, <1>12, <1>13
<1>14. CASE ~hls.initialized
  <2>1. given = <<>>
    BY <1>14 DEF HlsInv
  <2>2. /\ hls.segments = <<>> /\ hls.nextIndex = 0 /\ d = 0
        /\ hls.resetPending /\ a.resetPending
    BY <2>1, <1>1, <1>6, <1>8 DEF Handed
  <2>3. g = AtLiveEdge(a)
    BY <2>2, <1>3, <1>6, <1>12, <1>14
  <2>4. /\ g \in Source /\ Queue(g) /\ Handed(g, <<>>) /\ g.initialized
        /\ Len(g.segments) = Len(a.segments)
        /\ \A i \in 1..Len(a.segments) : g.segments[i].seq = a.segments[i].seq
    BY <2>2, <2>3, <1>6, Starting
  <2>5. Kept(g, given, listed)
    <3>1. listed = {}
      BY <2>1, <2>2, <1>1 DEF Kept
    <3> QED BY <3>1 DEF Kept
  <2>6. ASSUME NEW k \in p.first..p.last, k >= hls.nextMediaSequence
        PROVE  /\ g.segments # <<>>
               /\ k >= g.segments[g.nextIndex + 1].seq => Kept(g, given, {k})
    <3> DEFINE n == Len(a.segments)
    <3>1. PICK i \in 1..n : a.segments[i].seq = k
      BY <2>2, <2>6, <1>6
    <3>2. \A j \in 1..n : g.segments[j].seq = From(b, p) + j - 1
      BY <2>2, <2>4, <1>6, <1>7
    <3>3. g.segments # <<>> /\ g.nextIndex < n /\ g.nextIndex \in Nat
      BY <3>1, <2>4, <1>7 DEF Handed, Source
    <3>4. g.nextIndex + 1 \in 1..n
      BY <3>3, <1>7
    <3>5. From(b, p) \in Int
      BY <1>2 DEF From, Source, Listing
    <3>6. g.segments[i].seq = k /\ k = From(b, p) + i - 1
          /\ g.segments[g.nextIndex + 1].seq = From(b, p) + (g.nextIndex + 1) - 1
      BY <3>1, <3>2, <3>4, <2>4
    <3>7. k >= g.segments[g.nextIndex + 1].seq => i \in g.nextIndex + 1 .. Len(g.segments)
      BY <3>1, <3>3, <3>5, <3>6, <2>4, <1>7
    <3> QED BY <3>3, <3>6, <3>7 DEF Kept
  <2> QED BY <2>1, <2>4, <2>5, <2>6
<1> QED BY <1>13, <1>14, <1>1 DEF Source

-----------------------------------------------------------------------------
(* The invariant                                                           *)

\* A source starts with nothing.
LEMMA StartsEmpty ==
  /\ NewSource \in Source /\ Queue(NewSource) /\ Handed(NewSource, <<>>)
  /\ NewSource.segments = <<>> /\ NewSource.nextIndex = 0
<1>1. <<>> \in Seq(Segment) /\ Len(<<>>) = 0 /\ DOMAIN <<>> = {}
  OBVIOUS
<1>2. NewSource \in Source
  BY <1>1 DEF NewSource, Source
<1>3. Queue(NewSource)
  BY <1>1 DEF NewSource, Queue
<1>4. Handed(NewSource, <<>>)
  BY DEF NewSource, Handed
<1> QED BY <1>2, <1>3, <1>4 DEF NewSource

\* With nothing handed out and nothing listed there is nothing to be wrong.
LEMMA EmptyInv ==
  ASSUME server' \in [last : -1..LastSequence, live : BOOLEAN, sliding : BOOLEAN],
         hls' = NewSource, given' = <<>>, listed' = {}
  PROVE  HlsInv'
<1>1. given' \in Seq(Segment) /\ DOMAIN given' = {}
  OBVIOUS
<1>2. HlsTypeOK'
  BY <1>1, StartsEmpty DEF HlsTypeOK
<1>3. Timeline' /\ NothingListedLost'
  BY <1>1 DEF Timeline, Contiguous, JumpsReset, EndIsAll, NothingListedLost, Kept
<1>4. Queue(hls') /\ Handed(hls', given') /\ hls'.segments = <<>> /\ hls'.nextIndex = 0
  BY StartsEmpty
<1> QED BY <1>2, <1>3, <1>4 DEF HlsInv

\* Steps beside the queue.
LEMMA AsideInv ==
  ASSUME HlsInv, hls' \in Source, Alike(hls', hls),
         server' \in [last : -1..LastSequence, live : BOOLEAN, sliding : BOOLEAN],
         given' = given, listed' = listed, outcome' = "end" => outcome = "end"
  PROVE  HlsInv'
<1>1. HlsTypeOK'
  BY DEF HlsInv, HlsTypeOK
<1>2. Queue(hls') /\ Handed(hls', given') /\ Kept(hls', given', listed')
  BY AlikeKeeps, Zenon DEF HlsInv, NothingListedLost
<1>3. Timeline'
  BY DEF HlsInv, Timeline, Contiguous, JumpsReset, EndIsAll
<1>4. /\ given' = <<>> => hls'.segments = <<>> /\ hls'.nextIndex = 0
      /\ ~hls'.initialized => given' = <<>>
  BY DEF HlsInv, Alike
<1> QED BY <1>1, <1>2, <1>3, <1>4 DEF HlsInv, NothingListedLost

\* One turn of next() with what is listed by then kept.
LEMMA ServeInv ==
  ASSUME HlsInv, NEW h \in Source, Queue(h), Handed(h, given), Serve(h), h.initialized,
         Kept(h, given, listed'), listed' \subseteq Sequence, server' = server
  PROVE  HlsInv'
<1>1. given \in Seq(Segment) /\ Contiguous /\ JumpsReset
  BY DEF HlsInv, HlsTypeOK, Timeline
<1>2. /\ hls' \in Source /\ Queue(hls')
      /\ given' \in Seq(Segment) /\ Handed(hls', given')
      /\ Contiguous' /\ JumpsReset'
      /\ hls'.initialized
      /\ given' = <<>> => given = <<>> /\ hls'.segments = <<>> /\ hls'.nextIndex = 0
      /\ Kept(hls', given', listed')
      /\ outcome' = "end" => hls'.nextIndex = Len(hls'.segments)
  BY <1>1, Serving
<1>3. HlsTypeOK'
  BY <1>2 DEF HlsInv, HlsTypeOK
<1>4. EndIsAll'
  <2>1. hls'.nextIndex \in Nat
    BY <1>2 DEF Source
  <2> QED BY <2>1, <1>2 DEF EndIsAll, Kept
<1> QED BY <1>2, <1>3, <1>4 DEF HlsInv, Timeline, NothingListedLost

\* What the steps of a source keep.
LEMMA HlsSteps ==
  ASSUME HlsInv,
         \/ Publish \/ Wake \/ FetchMultivariant \/ FetchFails \/ Ask
         \/ \E p \in Answers : FetchMedia(p)
         \/ Renew \/ UNCHANGED hlsVars
  PROVE  HlsInv'
<1>1. /\ hls \in Source /\ given \in Seq(Segment) /\ listed \subseteq Sequence
      /\ server \in [last : -1..LastSequence, live : BOOLEAN, sliding : BOOLEAN]
      /\ Queue(hls) /\ Handed(hls, given) /\ Kept(hls, given, listed)
  BY DEF HlsInv, HlsTypeOK, NothingListedLost
<1>2. Alike(hls, hls)
  BY DEF Alike
<1>3. CASE Publish
  <2>1. \A x \in [last : -1..LastSequence, live : BOOLEAN, sliding : BOOLEAN] :
          /\ x.last < LastSequence =>
               [x EXCEPT !.last = @ + 1] \in [last : -1..LastSequence, live : BOOLEAN, sliding : BOOLEAN]
          /\ [x EXCEPT !.live = FALSE] \in [last : -1..LastSequence, live : BOOLEAN, sliding : BOOLEAN]
    <3>1. LastSequence \in Nat
      BY HlsAssumption
    <3>2. \A n \in -1..LastSequence : n < LastSequence => n + 1 \in -1..LastSequence
      BY <3>1
    <3> QED BY <3>2
  <2>2. server' \in [last : -1..LastSequence, live : BOOLEAN, sliding : BOOLEAN]
    BY <2>1, <1>1, <1>3, Zenon DEF Publish
  <2> QED BY <2>2, <1>1, <1>2, <1>3, AsideInv DEF Publish
<1>4. CASE Wake
  <2>1. hls' \in Source /\ Alike(hls', hls)
    BY <1>1, <1>4, SetAside, Zenon DEF Wake
  <2> QED BY <2>1, <1>1, <1>4, AsideInv DEF Wake
<1>5. CASE FetchMultivariant
  <2>1. hls' \in Source /\ Alike(hls', hls)
    BY <1>1, <1>5, SetAside, Zenon DEF FetchMultivariant
  <2> QED BY <2>1, <1>1, <1>5, AsideInv DEF FetchMultivariant
<1>6. CASE FetchFails
  <2> DEFINE n == hls.refreshFailures + 1
             ph == IF n >= MAX_REFRESH_FAILURES THEN "idle" ELSE "sleep"
  <2>1. n \in Nat /\ ph \in {"idle", "sleep", "fetch"}
    BY <1>1 DEF Source
  <2>2. hls' = [hls EXCEPT !.refreshFailures = n, !.phase = ph]
    BY <1>6 DEF FetchFails
  <2> HIDE DEF n, ph
  <2>3. hls' \in Source /\ Alike(hls', hls)
    BY <2>1, <2>2, <1>1, SetAside, Zenon
  <2> QED BY <2>3, <1>1, <1>6, AsideInv DEF FetchFails
<1>7. CASE Ask
  <2>1. CASE hls.initialized
    BY <2>1, <1>1, <1>7, ServeInv DEF Ask
  <2>2. CASE ~hls.initialized
    <3>1. hls' \in Source /\ Alike(hls', hls)
      BY <2>2, <1>1, <1>7, SetAside, Zenon DEF Ask
    <3> QED BY <3>1, <2>2, <1>1, <1>7, AsideInv DEF Ask
  <2> QED BY <2>1, <2>2
<1>8. CASE \E p \in Answers : FetchMedia(p)
  <2>1. PICK p \in Answers : FetchMedia(p)
    BY <1>8
  <2>2. p \in Listing
    BY <1>1, AnswersAreListings
  <2> DEFINE h == Ingest([hls EXCEPT !.refreshFailures = 0, !.variant = TRUE], p)
             g == IF h.initialized THEN h ELSE AtLiveEdge(h)
  <2>3. /\ Serve(g) /\ server' = server
        /\ listed' = listed \cup {k \in p.first..p.last : k >= given'[1].seq
                                                     /\ k >= hls.nextMediaSequence}
    BY <2>1 DEF FetchMedia
  <2>4. /\ g \in Source /\ Queue(g) /\ Handed(g, given) /\ g.initialized
        /\ Kept(g, given, listed)
        /\ \A k \in p.first..p.last : k >= hls.nextMediaSequence =>
             /\ given = <<>> => g.segments # <<>>
             /\ given = <<>> /\ k >= g.segments[g.nextIndex + 1].seq => Kept(g, given, {k})
             /\ given # <<>> => Kept(g, given, {k})
    BY <2>2, Ingesting, Zenon
  <2> HIDE DEF g
  <2>5. given = <<>> /\ g.segments # <<>> => given'[1].seq = g.segments[g.nextIndex + 1].seq
    BY <2>3, <2>4, <1>1, Serving DEF HlsInv, Timeline
  <2>6. Kept(g, given, listed')
    <3>1. ASSUME NEW k \in listed'
          PROVE  Kept(g, given, {k})
      <4>1. CASE k \in listed
        BY <4>1, <2>4 DEF Kept
      <4>2. CASE k \notin listed
        BY <4>2, <3>1, <2>3, <2>4, <2>5
      <4> QED BY <4>1, <4>2
    <3> QED BY <3>1 DEF Kept
  <2>7. listed' \subseteq Sequence
    <3>1. p.first \in Nat /\ p.last \in -1..LastSequence /\ LastSequence \in Nat
      BY <2>2, HlsAssumption DEF Listing
    <3>2. \A k \in p.first..p.last : k \in Sequence
      BY <3>1 DEF Sequence
    <3> QED BY <3>2, <2>3, <1>1
  <2> QED BY <2>3, <2>4, <2>6, <2>7, ServeInv
<1>9. CASE Renew
  BY <1>1, <1>9, EmptyInv DEF Renew
<1>10. CASE UNCHANGED hlsVars
  BY <1>1, <1>2, <1>10, AsideInv DEF hlsVars
<1> QED BY <1>3, <1>4, <1>5, <1>6, <1>7, <1>8, <1>9, <1>10

\* A source starts right.
LEMMA HlsStarts ==
  ASSUME HlsInit
  PROVE  HlsInv
<1>1. server \in [last : -1..LastSequence, live : BOOLEAN, sliding : BOOLEAN]
  BY HlsAssumption DEF HlsInit
<1>2. given \in Seq(Segment) /\ DOMAIN given = {}
  BY DEF HlsInit
<1>3. HlsTypeOK
  BY <1>1, <1>2, StartsEmpty DEF HlsTypeOK, HlsInit
<1>4. Timeline /\ NothingListedLost
  BY <1>2 DEF HlsInit, Timeline, Contiguous, JumpsReset, EndIsAll, NothingListedLost, Kept
<1>5. Queue(hls) /\ Handed(hls, given) /\ hls.segments = <<>> /\ hls.nextIndex = 0
  BY StartsEmpty DEF HlsInit
<1> QED BY <1>3, <1>4, <1>5 DEF HlsInv, HlsInit

\* What a source relies on between two answers holds always.
THEOREM HlsInvariant == HlsSpec => []HlsInv
<1>1. HlsInit => HlsInv
  BY HlsStarts
<1>2. HlsInv /\ [HlsNext]_hlsVars => HlsInv'
  BY HlsSteps DEF HlsNext
<1> QED BY <1>1, <1>2, PTL DEF HlsSpec

\* What a source hands out is one timeline, in order, with a reset at every jump, and
\* ends only after everything a playlist listed.
THEOREM HlsTimeline == HlsSpec => []Timeline
<1>1. HlsInv => Timeline
  BY DEF HlsInv
<1> QED BY <1>1, HlsInvariant, PTL

\* A segment that a playlist listed after playback began is handed out or queued.
THEOREM HlsLosesNothing == HlsSpec => []NothingListedLost
<1>1. HlsInv => NothingListedLost
  BY DEF HlsInv
<1> QED BY <1>1, HlsInvariant, PTL

-----------------------------------------------------------------------------
(* The source inside the worker                                              *)

\* Of the source the worker only asks; a new load and a playlist found in a response
\* renew it.
LEMMA RunLeavesSource ==
  ASSUME NEW r, RunStep(r)
  PROVE  Ask \/ UNCHANGED hlsVars
<1>1. AskSource(r) => Ask \/ UNCHANGED hlsVars
  BY Zenon DEF AskSource
<1>2. Leave(r) \/ Hold(r) \/ Answered(r) \/ SourceOver(r) \/ Prepare(r) => UNCHANGED hlsVars
  BY Zenon DEF Leave, Hold, Answered, SourceOver, Prepare
<1>3. StartInit(r) \/ StartLoad(r) => UNCHANGED hlsVars
  BY Zenon DEF StartInit, StartLoad
<1> QED BY <1>1, <1>2, <1>3, Zenon DEF RunStep

LEMMA NetworkLeavesSource ==
  ASSUME NEW r, Network(r)
  PROVE  Renew \/ UNCHANGED hlsVars
<1>1. InitResponse(r) \/ InitBody(r) \/ InitFails(r) => UNCHANGED hlsVars
  BY Zenon DEF InitResponse, InitBody, InitFails
<1>2. ASSUME NEW q
      PROVE  /\ ResponseArrives(r, q) \/ LoadDone(r, q) \/ LoadFails(r, q) => UNCHANGED hlsVars
             /\ DetectHls(r, q) => Renew
  BY Zenon DEF ResponseArrives, LoadDone, LoadFails, DetectHls
<1>3. ASSUME NEW q, NEW n
      PROVE  ChunkArrives(r, q, n) \/ Unsupported(r, q, n) => UNCHANGED hlsVars
  BY Zenon DEF ChunkArrives, Unsupported
<1> QED BY <1>1, <1>2, <1>3, Zenon DEF Network

LEMMA CommandsLeaveSource ==
  ASSUME \/ \E l \in Loads : Load(l)
         \/ Pause \/ Resume \/ Reset \/ DecoderReady
  PROVE  Renew \/ UNCHANGED hlsVars
<1>1. ASSUME NEW l
      PROVE  Load(l) => Renew
  BY Zenon DEF Load
<1>2. Pause \/ Resume \/ Reset \/ DecoderReady => UNCHANGED hlsVars
  BY Zenon DEF Pause, Resume, Reset, DecoderReady
<1> QED BY <1>1, <1>2, Zenon

\* Whatever the page commands and the network does, what the worker's source hands out
\* is one timeline, and nothing a playlist listed is lost.
THEOREM WorkerTimeline == Spec => [](Timeline /\ NothingListedLost)
<1>1. Init => HlsInv
  BY HlsStarts DEF Init
<1>2. HlsInv /\ [Next]_vars => HlsInv'
  <2> SUFFICES ASSUME HlsInv, [Next]_vars
               PROVE  HlsInv'
    OBVIOUS
  <2>1. CASE PlaylistStep
    BY <2>1, HlsSteps, Zenon DEF PlaylistStep
  <2>2. CASE (\E l \in Loads : Load(l)) \/ Pause \/ Resume \/ Reset \/ DecoderReady
    BY <2>2, CommandsLeaveSource, HlsSteps, Zenon
  <2>3. CASE \E r \in DOMAIN runs : RunStep(r) \/ Network(r)
    BY <2>3, RunLeavesSource, NetworkLeavesSource, HlsSteps, Zenon
  <2>4. CASE UNCHANGED vars
    <3>1. UNCHANGED hlsVars
      BY <2>4 DEF vars
    <3> QED BY <3>1, HlsSteps, Zenon
  <2> QED BY <2>1, <2>2, <2>3, <2>4, Zenon DEF Next
<1>3. HlsInv => Timeline /\ NothingListedLost
  BY DEF HlsInv
<1> QED BY <1>1, <1>2, <1>3, PTL DEF Spec

-----------------------------------------------------------------------------
(* The download                                                            *)

\* LoaderInv of given values.
LoaderOf(l, S, f) ==
  /\ l \in Loader /\ f \in Nat
  /\ \A r \in S : r \in [id : {q.id : q \in S}, aborted : BOOLEAN,
                         stage : {"connecting", "text", "reading"}, got : Nat]
  /\ l.used > 0 => l.start = f
  /\ \A r \in S : ~r.aborted =>
       /\ ~l.paused /\ r.got = f + l.used
       /\ r.stage # "reading" => r.got = 0
       /\ r.stage # "text" => l.status \in {"connecting", "buffering"}
       /\ \A q \in S : ~q.aborted => q = r

LEMMA LoaderIs == (LoaderInv <=> LoaderOf(ldr, reqs, fed)) /\ (LoaderInv' <=> LoaderOf(ldr', reqs', fed'))
  BY DEF LoaderInv, LoaderOf, Request

LEMMA NoLoaderIs == NoLoader \in Loader
  BY DEF NoLoader, Loader

LEMMA DestroyKeeps == ASSUME Destroy PROVE LoaderInv'
<1>1. LoaderOf(NoLoader, {}, 0)
  BY NoLoaderIs DEF LoaderOf, NoLoader
<1> QED BY <1>1, LoaderIs DEF Destroy

LEMMA OpenKeeps == ASSUME Open PROVE LoaderInv'
<1> DEFINE q == NewRequest({})
           l == [NoLoader EXCEPT !.up = TRUE, !.status = "connecting"]
<1>1. q.id = q.id /\ q.aborted = FALSE /\ q.stage = "connecting" /\ q.got = 0
  BY DEF NewRequest
<1>2. q \in [id : {q.id}, aborted : BOOLEAN, stage : {"connecting", "text", "reading"}, got : Nat]
  BY DEF NewRequest
<1>3. l \in Loader /\ l.used = 0 /\ ~l.paused /\ l.status = "connecting"
  BY DEF NoLoader, Loader
<1> HIDE DEF q, l
<1>4. {z.id : z \in {q}} = {q.id}
  OBVIOUS
<1>5. LoaderOf(l, {q}, 0)
  BY <1>1, <1>2, <1>3, <1>4 DEF LoaderOf
<1> QED BY <1>5, LoaderIs DEF Open, l, q

\* Aborting what is under way keeps the requests, none of which has effect any more.
LEMMA AbortedIs ==
  ASSUME LoaderInv
  PROVE  /\ {q.id : q \in Aborted} = {q.id : q \in reqs}
         /\ \A q \in Aborted : q.aborted /\ q \in Request
<1>1. \A r \in reqs : /\ [r EXCEPT !.aborted = TRUE].id = r.id
                      /\ [r EXCEPT !.aborted = TRUE].aborted = TRUE
                      /\ [r EXCEPT !.aborted = TRUE] \in Request
  BY DEF LoaderInv, Request
<1> QED BY <1>1 DEF Aborted

LEMMA PauseKeeps == ASSUME LoaderInv, PauseLoader PROVE LoaderInv'
<1>1. CASE IsWorking
  <2>1. ldr' = [ldr EXCEPT !.paused = TRUE, !.used = 0, !.start = 0] /\ reqs' = Aborted /\ fed' = fed
    BY <1>1 DEF PauseLoader
  <2>2. ldr' \in Loader /\ ldr'.used = 0 /\ fed' \in Nat
    BY <2>1 DEF LoaderInv, Loader
  <2>3. \A r \in reqs' : r.aborted /\ r \in [id : {q.id : q \in reqs'}, aborted : BOOLEAN,
                         stage : {"connecting", "text", "reading"}, got : Nat]
    BY <2>1, AbortedIs DEF Request
  <2> QED BY <2>2, <2>3, LoaderIs DEF LoaderOf
<1>2. CASE ~IsWorking
  BY <1>2, LoaderIs DEF PauseLoader, ldrVars
<1> QED BY <1>1, <1>2

LEMMA ResumeKeeps == ASSUME LoaderInv, ResumeLoader PROVE LoaderInv'
<1>1. CASE Restarts
  <2> DEFINE old == IF ldr.status \in {"connecting", "buffering"} THEN Aborted ELSE reqs
             q == NewRequest(old)
  <2>1. reqs' = old \cup {q} /\ fed' = 0
        /\ ldr' = [ldr EXCEPT !.paused = FALSE, !.status = "connecting", !.used = 0, !.start = 0]
    BY <1>1 DEF ResumeLoader
  <2>2. ldr' \in Loader /\ ldr'.used = 0 /\ ~ldr'.paused /\ ldr'.status = "connecting"
    BY <2>1 DEF LoaderInv, Loader
  <2>3. {z.id : z \in old} = {z.id : z \in reqs} /\ \A z \in old : z.aborted /\ z \in Request
    <3>1. CASE ldr.status \in {"connecting", "buffering"}
      BY <3>1, AbortedIs
    <3>2. CASE ldr.status \notin {"connecting", "buffering"}
      <4>1. \A z \in reqs : z.aborted \in BOOLEAN /\ z \in Request /\ (~z.aborted => ~ldr.paused)
        BY DEF LoaderInv, Request
      <4> QED BY <1>1, <3>2, <4>1 DEF Restarts
    <3> QED BY <3>1, <3>2
  <2>4. q.aborted = FALSE /\ q.stage = "connecting" /\ q.got = 0
        /\ q \in [id : {q.id}, aborted : BOOLEAN, stage : {"connecting", "text", "reading"}, got : Nat]
    BY DEF NewRequest
  <2> HIDE DEF old, q
  <2>5. ASSUME NEW z \in reqs'
        PROVE  z \in [id : {y.id : y \in reqs'}, aborted : BOOLEAN,
                      stage : {"connecting", "text", "reading"}, got : Nat]
    <3>1. {y.id : y \in reqs} \cup {q.id} \subseteq {y.id : y \in reqs'}
      BY <2>1, <2>3
    <3>2. CASE z = q
      BY <2>4, <3>1, <3>2
    <3>3. CASE z \in old
      BY <2>3, <3>1, <3>3 DEF Request
    <3> QED BY <2>1, <3>2, <3>3
  <2>6. \A z \in reqs' : ~z.aborted => z = q
    BY <2>1, <2>3
  <2>7. LoaderOf(ldr', reqs', fed')
    BY <2>1, <2>2, <2>4, <2>5, <2>6 DEF LoaderOf
  <2> QED BY <2>7, LoaderIs
<1>2. CASE ~Restarts
  BY <1>2, LoaderIs DEF ResumeLoader, ldrVars
<1> QED BY <1>1, <1>2

\* The request that has effect is the only one.
LEMMA CurrentIs ==
  ASSUME LoaderInv, NEW r, Current(r)
  PROVE  /\ r \in reqs /\ r \in Request /\ ~r.aborted /\ ~ldr.paused /\ r.got = fed + ldr.used
         /\ r.stage # "reading" => r.got = 0
         /\ r.stage # "text" => ldr.status \in {"connecting", "buffering"}
         /\ \A q \in reqs \ {r} : q.aborted = TRUE /\ q \in Request
  BY DEF LoaderInv, Current, Request

\* A step of the request that has effect: only its stage and the bytes read change.
LEMMA MovedOn ==
  ASSUME LoaderInv, NEW r, Current(r), NEW q,
         q.id = r.id, q.aborted = FALSE, q.stage \in {"connecting", "text", "reading"}, q.got \in Nat,
         q \in [id : {r.id}, aborted : BOOLEAN, stage : {"connecting", "text", "reading"}, got : Nat],
         reqs' = (reqs \ {r}) \cup {q}, ldr' \in Loader, fed' \in Nat, ~ldr'.paused,
         ldr'.used > 0 => ldr'.start = fed', q.got = fed' + ldr'.used,
         q.stage # "reading" => q.got = 0,
         q.stage # "text" => ldr'.status \in {"connecting", "buffering"}
  PROVE  LoaderInv'
<1>1. {z.id : z \in reqs} \subseteq {z.id : z \in reqs'}
  BY CurrentIs
<1>2. q \in [id : {z.id : z \in reqs'}, aborted : BOOLEAN, stage : {"connecting", "text", "reading"},
             got : Nat]
  BY <1>1, CurrentIs
<1>3. ASSUME NEW z \in reqs \ {r}
      PROVE  z \in [id : {y.id : y \in reqs'}, aborted : BOOLEAN,
                    stage : {"connecting", "text", "reading"}, got : Nat]
  <2>1. z \in Request /\ z.id \in {y.id : y \in reqs'}
    BY CurrentIs
  <2> QED BY <2>1 DEF Request
<1>4. \A z \in reqs' : ~z.aborted => z = q
  BY CurrentIs
<1>5. LoaderOf(ldr', reqs', fed')
  BY <1>2, <1>3, <1>4 DEF LoaderOf
<1> QED BY <1>5, LoaderIs

LEMMA RespondKeeps ==
  ASSUME LoaderInv, NEW r, NEW stage \in {"text", "reading"}, Respond(r, stage)
  PROVE  LoaderInv'
<1> DEFINE q == [r EXCEPT !.stage = stage]
<1>1. Current(r) /\ r.stage = "connecting" /\ reqs' = (reqs \ {r}) \cup {q} /\ fed' = fed
      /\ ldr' = [ldr EXCEPT !.status = IF stage = "text" THEN "idle" ELSE @]
  BY DEF Respond
<1>2. ldr \in Loader /\ fed \in Nat /\ (ldr.used > 0 => ldr.start = fed)
  BY DEF LoaderInv
<1>3. ldr' \in Loader /\ ldr'.paused = ldr.paused /\ ldr'.used = ldr.used /\ ldr'.start = ldr.start
      /\ ldr'.status = IF stage = "text" THEN "idle" ELSE ldr.status
  BY <1>1, <1>2 DEF Loader
<1>4. r \in Request /\ ~r.aborted /\ ~ldr.paused /\ r.got = fed + ldr.used /\ r.got = 0
      /\ ldr.status \in {"connecting", "buffering"}
  BY <1>1, CurrentIs
<1>5. q.id = r.id /\ q.aborted = FALSE /\ q.stage = stage /\ q.got = r.got /\ r.got \in Nat
      /\ q \in [id : {r.id}, aborted : BOOLEAN, stage : {"connecting", "text", "reading"}, got : Nat]
  BY <1>4 DEF Request
<1> HIDE DEF q
<1> QED BY <1>1, <1>2, <1>3, <1>4, <1>5, MovedOn

LEMMA ChunkKeeps ==
  ASSUME LoaderInv, NEW r, NEW n \in Nat, NEW taken \in 0..Offered(n), Chunk(r, n, taken)
  PROVE  LoaderInv'
<1> DEFINE q == [r EXCEPT !.got = @ + n]
           begin  == IF ldr.used = 0 THEN r.got ELSE ldr.start
           remain == Offered(n) - taken
<1>1. Current(r) /\ r.stage = "reading" /\ ~ldr.paused /\ reqs' = (reqs \ {r}) \cup {q}
      /\ fed' = fed + taken
      /\ ldr' = [ldr EXCEPT !.status = "buffering", !.used = remain,
                            !.start = IF remain = 0 THEN 0 ELSE begin + taken]
  BY DEF Chunk
<1>2. ldr \in Loader /\ fed \in Nat /\ (ldr.used > 0 => ldr.start = fed) /\ ldr.used \in Nat
      /\ ldr.start \in Nat
  BY DEF LoaderInv, Loader
<1>3. r \in Request /\ ~r.aborted /\ r.got = fed + ldr.used /\ r.got \in Nat
  <2>1. r \in Request /\ ~r.aborted /\ r.got = fed + ldr.used
    BY <1>1, CurrentIs
  <2> QED BY <2>1 DEF Request
<1>4. Offered(n) = ldr.used + n /\ taken \in Nat /\ remain \in Nat /\ begin \in Nat
  BY <1>2, <1>3 DEF Offered
<1>5. q.id = r.id /\ q.aborted = FALSE /\ q.stage = "reading" /\ q.got = r.got + n
      /\ q \in [id : {r.id}, aborted : BOOLEAN, stage : {"connecting", "text", "reading"}, got : Nat]
  BY <1>1, <1>3 DEF Request
<1>6. begin = fed
  BY <1>2, <1>3
<1>7. remain = (ldr.used + n) - taken
  BY <1>4
<1> HIDE DEF q, begin, remain
<1>8. /\ ldr' \in Loader /\ ldr'.paused = ldr.paused /\ ldr'.used = remain
      /\ ldr'.start = (IF remain = 0 THEN 0 ELSE begin + taken) /\ ldr'.status = "buffering"
  <2> DEFINE x == IF remain = 0 THEN 0 ELSE begin + taken
  <2>1. x \in Nat
    BY <1>4
  <2>2. ldr' = [ldr EXCEPT !.status = "buffering", !.used = remain, !.start = x]
    BY <1>1
  <2> HIDE DEF x
  <2>3. ldr' \in Loader
    BY <1>2, <1>4, <2>1, <2>2 DEF Loader
  <2>4. ldr'.paused = ldr.paused /\ ldr'.used = remain /\ ldr'.start = x /\ ldr'.status = "buffering"
    BY <1>2, <2>2 DEF Loader
  <2> QED BY <2>3, <2>4 DEF x
<1>9. q.got = fed' + ldr'.used /\ q.got \in Nat /\ fed' \in Nat
  BY <1>1, <1>2, <1>3, <1>4, <1>5, <1>7, <1>8
<1>10. ldr'.used > 0 => ldr'.start = fed'
  BY <1>1, <1>4, <1>6, <1>8
<1> QED BY <1>1, <1>5, <1>8, <1>9, <1>10, MovedOn

\* The demuxer takes no more than it is offered.
LEMMA TakesIs == ASSUME NEW kind, NEW n \in Nat PROVE Takes(kind, n) \in 0..n
<1>1. (n % Packet) \in 0..n
  <2>1. Packet \in Nat \ {0}
    BY WorkerAssumption
  <2>2. CASE n < Packet
    <3>1. (n % Packet) = n
      BY <2>1, <2>2
    <3> QED BY <3>1
  <2>3. CASE n >= Packet
    <3>1. (n % Packet) \in 0..Packet-1
      BY <2>1
    <3> QED BY <2>1, <2>3, <3>1
  <2> QED BY <2>1, <2>2, <2>3
<1> DEFINE m == n % Packet
<1>2. Takes(kind, n) = n \/ Takes(kind, n) = n - m \/ Takes(kind, n) = 0
  BY DEF Takes
<1>3. m \in 0..n
  BY <1>1
<1> HIDE DEF m
<1> QED BY <1>2, <1>3

\* What each step of the worker is to its loader.
LEMMA RunAndLoader ==
  ASSUME NEW r, RunStep(r)
  PROVE  Open \/ UNCHANGED ldrVars
<1>1. StartLoad(r) => Open
  BY Zenon DEF StartLoad
<1>2. Leave(r) \/ Hold(r) \/ Answered(r) => UNCHANGED ldrVars
  BY Zenon DEF Leave, Hold, Answered
<1>3. AskSource(r) \/ SourceOver(r) \/ Prepare(r) \/ StartInit(r) => UNCHANGED ldrVars
  BY Zenon DEF AskSource, SourceOver, Prepare, StartInit
<1> QED BY <1>1, <1>2, <1>3, Zenon DEF RunStep

LEMMA NetworkAndLoader ==
  ASSUME LoaderInv, NEW r, Network(r)
  PROVE  LoaderInv'
<1>1. CASE InitResponse(r) \/ InitBody(r) \/ InitFails(r)
  <2>1. UNCHANGED ldrVars
    BY <1>1, Zenon DEF InitResponse, InitBody, InitFails
  <2> QED BY <2>1, LoaderIs DEF ldrVars
<1>2. ASSUME NEW q, ResponseArrives(r, q) PROVE LoaderInv'
  BY <1>2, RespondKeeps DEF ResponseArrives
<1>3. ASSUME NEW q, LoadDone(r, q) \/ LoadFails(r, q) \/ DetectHls(r, q)
      PROVE  LoaderInv'
  <2>1. Complete(q) \/ Fail(q) \/ Destroy
    BY <1>3, Zenon DEF LoadDone, LoadFails, DetectHls
  <2>2. Destroy
    BY <2>1 DEF Complete, Fail, Destroy
  <2> QED BY <2>2, DestroyKeeps
<1>4. ASSUME NEW q, NEW n \in 1..Packet, ChunkArrives(r, q, n) PROVE LoaderInv'
  <2> DEFINE taken == Takes(Kind(runs[r].meta), Offered(n))
  <2>1. Chunk(q, n, taken)
    BY <1>4, Zenon DEF ChunkArrives
  <2>2. n \in Nat /\ Offered(n) \in Nat
    BY WorkerAssumption DEF LoaderInv, Loader, Offered
  <2>3. taken \in 0..Offered(n)
    BY <2>2, TakesIs
  <2> HIDE DEF taken
  <2> QED BY <2>1, <2>2, <2>3, ChunkKeeps
<1>5. ASSUME NEW q, NEW n, Unsupported(r, q, n) PROVE LoaderInv'
  <2>1. Destroy
    BY <1>5 DEF Unsupported, Fail, Destroy
  <2> QED BY <2>1, DestroyKeeps
<1> QED BY <1>1, <1>2, <1>3, <1>4, <1>5, Zenon DEF Network

LEMMA LoaderStays == ASSUME LoaderInv, [Next]_vars PROVE LoaderInv'
<1>1. ASSUME UNCHANGED ldrVars PROVE LoaderInv'
  BY <1>1, LoaderIs DEF ldrVars
<1>2. ASSUME NEW l, Load(l) PROVE LoaderInv'
  BY <1>2, DestroyKeeps, Zenon DEF Load
<1>3. CASE Pause
  <2>1. PauseLoader \/ UNCHANGED ldrVars
    BY <1>3, Zenon DEF Pause
  <2> QED BY <1>1, <2>1, PauseKeeps
<1>4. CASE Resume
  <2>1. ResumeLoader \/ UNCHANGED ldrVars
    BY <1>4 DEF Resume, ldrVars
  <2> QED BY <1>1, <2>1, ResumeKeeps
<1>5. CASE Reset
  BY <1>5, DestroyKeeps, Zenon DEF Reset
<1>6. CASE DecoderReady \/ PlaylistStep
  BY <1>1, <1>6, Zenon DEF DecoderReady, PlaylistStep
<1>7. ASSUME NEW r, RunStep(r) PROVE LoaderInv'
  BY <1>1, <1>7, RunAndLoader, OpenKeeps
<1>8. ASSUME NEW r, Network(r) PROVE LoaderInv'
  BY <1>8, NetworkAndLoader
<1>9. CASE UNCHANGED vars
  <2>1. UNCHANGED ldrVars
    BY <1>9, Zenon DEF vars
  <2> QED BY <1>1, <2>1
<1> QED BY <1>2, <1>3, <1>4, <1>5, <1>6, <1>7, <1>8, <1>9, Zenon DEF Next

LEMMA LoaderStarts == Init => LoaderInv
<1>1. LoaderOf(NoLoader, {}, 0)
  BY NoLoaderIs DEF LoaderOf, NoLoader
<1> QED BY <1>1, LoaderIs DEF Init

\* The demuxer gets the bytes of one request, each once and in order, over every
\* chunk boundary, pause, restart and load the page and the network come up with.
THEOREM WorkerReadsOnce == Spec => []EachByteOnce
<1>1. LoaderInv => EachByteOnce
  <2> SUFFICES ASSUME LoaderInv PROVE EachByteOnce
    OBVIOUS
  <2> DEFINE S == {r \in reqs : ~r.aborted}
  <2>1. Cardinality(S) <= 1
    <3>1. CASE S = {}
      BY <3>1, FS_EmptySet
    <3>2. CASE S # {}
      <4>1. PICK x : x \in S
        BY <3>2
      <4>2. S = {x}
        BY <4>1 DEF LoaderInv
      <4> QED BY <4>2, FS_Singleton
    <3> QED BY <3>1, <3>2
  <2> QED BY <2>1 DEF EachByteOnce, LoaderInv
<1> QED BY <1>1, LoaderStarts, LoaderStays, PTL DEF Spec

-----------------------------------------------------------------------------
(* The runs                                                                *)

\* rs are the runs, run r at pc with segment m.
MovedTo(rs, r, pc, m) ==
  /\ rs \in Seq(Run) /\ Len(rs) = Len(runs)
  /\ \A k \in DOMAIN runs : rs[k].load = runs[k].load
  /\ \A k \in DOMAIN runs \ {r} : rs[k] = runs[k]
  /\ rs[r].pc = pc /\ rs[r].meta = m

LEMMA KindOfSegment ==
  ASSUME NEW m \in Segment PROVE Kind(m) = IF m.init = NoInit THEN "ts" ELSE "mp4"
<1>1. "kind" \notin DOMAIN m
  BY DEF Segment
<1> QED BY <1>1 DEF Kind

LEMMA KindOfGiven == ASSUME NEW m \in Given PROVE Kind(m) = m.kind
<1>1. "kind" \in DOMAIN m
  BY DEF Given
<1> QED BY <1>1 DEF Kind

LEMMA ItemIs ==
  ASSUME NEW kind \in Kinds \cup {"none", "end", "error"}, NEW n \in Nat
  PROVE  /\ Item(kind, n) \in Given /\ Item(kind, n).kind = kind /\ Item(kind, n).seq = n
         /\ Item(kind, n).init = NoInit /\ ~Item(kind, n).reset
  BY DEF Item, Given

LEMMA GoneIs ==
  ASSUME NEW x \in Run
  PROVE  Gone(x) \in Run /\ Gone(x).pc = "done" /\ Gone(x).load = x.load
<1>1. "ts" \in Kinds \cup {"none", "end", "error"} /\ 0 \in Nat
  BY DEF Kinds
<1>2. Item("ts", 0) \in Segment \cup Given
  BY <1>1, ItemIs
<1> DEFINE m == Item("ts", 0)
<1>3. m \in Segment \cup Given
  BY <1>2
<1>4. Gone(x) = [x EXCEPT !.pc = "done", !.held = FALSE, !.meta = m, !.cycles = 0]
  BY DEF Gone
<1> HIDE DEF m
<1> DEFINE S == Segment \cup Given
<1>5. Gone(x) \in Run
  <2>1. x \in [pc : Point, held : BOOLEAN, load : Nat, meta : S, cycles : Nat]
    BY DEF Run
  <2>2. m \in S /\ "done" \in Point
    BY <1>3 DEF Point
  <2> DEFINE y == [x EXCEPT !.pc = "done", !.held = FALSE]
             z == [y EXCEPT !.meta = m]
  <2>3. Gone(x) = [z EXCEPT !.cycles = 0]
    BY <1>4
  <2> HIDE DEF S
  <2>4. y \in [pc : Point, held : BOOLEAN, load : Nat, meta : S, cycles : Nat]
    BY <2>1, <2>2
  <2> HIDE DEF y
  <2>5. z \in [pc : Point, held : BOOLEAN, load : Nat, meta : S, cycles : Nat]
    BY <2>2, <2>4
  <2> HIDE DEF z
  <2>6. Gone(x) \in [pc : Point, held : BOOLEAN, load : Nat, meta : S, cycles : Nat]
    BY <2>3, <2>5
  <2> QED BY <2>6 DEF Run, S
<1>6. Gone(x).pc = "done" /\ Gone(x).load = x.load
  BY <1>4 DEF Run
<1> QED BY <1>5, <1>6

LEMMA NewRunIs ==
  ASSUME NEW g \in Nat PROVE NewRun(g) \in Run /\ NewRun(g).pc = "top" /\ NewRun(g).load = g
<1>1. Item("ts", 0) \in Segment \cup Given
  BY ItemIs DEF Kinds
<1> QED BY <1>1 DEF NewRun, Run, Point

LEMMA ToIs ==
  ASSUME runs \in Seq(Run), NEW r \in DOMAIN runs, NEW pc \in Point \ {"done"}
  PROVE  MovedTo(To(r, pc), r, pc, runs[r].meta)
<1> DEFINE x == [runs[r] EXCEPT !.pc = pc]
<1>1. To(r, pc) = [runs EXCEPT ![r] = x]
  BY DEF To
<1>2. runs[r] \in Run
  OBVIOUS
<1>3. x \in Run /\ x.pc = pc /\ x.meta = runs[r].meta /\ x.load = runs[r].load
  BY <1>2 DEF Run
<1> HIDE DEF x
<1>4. To(r, pc) \in Seq(Run) /\ Len(To(r, pc)) = Len(runs) /\ To(r, pc)[r] = x
      /\ \A k \in DOMAIN runs \ {r} : To(r, pc)[k] = runs[k]
  BY <1>1, <1>3
<1> QED BY <1>3, <1>4 DEF MovedTo

LEMMA ToDone ==
  ASSUME runs \in Seq(Run), NEW r \in DOMAIN runs
  PROVE  \E m : MovedTo(To(r, "done"), r, "done", m)
<1> DEFINE x == Gone(runs[r])
<1>1. To(r, "done") = [runs EXCEPT ![r] = x]
  BY DEF To
<1>2. runs[r] \in Run
  OBVIOUS
<1>3. x \in Run /\ x.pc = "done" /\ x.load = runs[r].load
  BY <1>2, GoneIs
<1> HIDE DEF x
<1>4. To(r, "done") \in Seq(Run) /\ Len(To(r, "done")) = Len(runs) /\ To(r, "done")[r] = x
      /\ \A k \in DOMAIN runs \ {r} : To(r, "done")[k] = runs[k]
  BY <1>1, <1>3
<1> QED BY <1>3, <1>4 DEF MovedTo

\* Runs of which some were let go or cancelled.
SameLoads(rs) ==
  /\ rs \in Seq(Run) /\ Len(rs) = Len(runs)
  /\ \A k \in DOMAIN runs : rs[k].load = runs[k].load

LEMMA ReleasedIs ==
  ASSUME runs \in Seq(Run)
  PROVE  /\ SameLoads(Released)
         /\ \A k \in DOMAIN runs : Released[k].pc = runs[k].pc /\ Released[k].meta = runs[k].meta
<1>1. CASE Released = runs
  BY <1>1 DEF SameLoads
<1>2. CASE Released # runs
  <2>1. Released = [runs EXCEPT ![pipe.gate] = [runs[pipe.gate] EXCEPT !.held = FALSE]]
    BY <1>2 DEF Released
  <2>2. pipe.gate \in DOMAIN runs
    BY <1>2, <2>1
  <2> DEFINE x == [runs[pipe.gate] EXCEPT !.held = FALSE]
  <2>3. runs[pipe.gate] \in Run
    BY <2>2
  <2>4. x \in Run /\ x.pc = runs[pipe.gate].pc /\ x.meta = runs[pipe.gate].meta
        /\ x.load = runs[pipe.gate].load
    BY <2>3 DEF Run
  <2>5. Released = [runs EXCEPT ![pipe.gate] = x]
    BY <2>1
  <2> HIDE DEF x
  <2>6. Released \in Seq(Run) /\ Len(Released) = Len(runs) /\ Released[pipe.gate] = x
        /\ \A k \in DOMAIN runs \ {pipe.gate} : Released[k] = runs[k]
    BY <2>2, <2>4, <2>5
  <2> QED BY <2>4, <2>6 DEF SameLoads
<1> QED BY <1>1, <1>2

LEMMA CancelledIs ==
  ASSUME NEW rs, SameLoads(rs) PROVE SameLoads(Cancelled(rs))
<1>1. \A k \in 1..Len(rs) : rs[k] \in Run /\ Gone(rs[k]) \in Run /\ Gone(rs[k]).load = rs[k].load
  BY GoneIs DEF SameLoads
<1>2. Cancelled(rs) = [k \in 1..Len(rs) |-> IF rs[k].pc = "load" THEN Gone(rs[k]) ELSE rs[k]]
  BY DEF Cancelled, SameLoads
<1>3. \A k \in 1..Len(rs) : Cancelled(rs)[k] \in Run /\ Cancelled(rs)[k].load = rs[k].load
  BY <1>1, <1>2
<1>4. Cancelled(rs) \in Seq(Run) /\ Len(Cancelled(rs)) = Len(rs)
  <2>1. Len(rs) \in Nat
    BY DEF SameLoads
  <2> HIDE DEF Cancelled
  <2> QED BY <1>2, <1>3, <2>1, IsASeq
<1> QED BY <1>3, <1>4 DEF SameLoads

-----------------------------------------------------------------------------
(* The messages                                                            *)

\* q are messages of generation g, each media segment under its init segment.
Fits(q, g) ==
  /\ q \in Seq(Message)
  /\ \A i \in DOMAIN q : q[i].gen = g /\ q[i].load = g
  /\ \A i \in DOMAIN q : q[i].kind = "media" =>
       \E j \in 1..i - 1 : /\ q[j].kind = "init" /\ q[j].init = q[i].init
                           /\ \A k \in j + 1..i - 1 : q[k].kind # "init"

LEMMA FitsOut ==
  ASSUME WorkerTypeOK, Generations, MessagesBelong PROVE Fits(out, gen)
<1>1. \A i \in DOMAIN out : \A k \in 1..i : k \in DOMAIN out
  BY DEF WorkerTypeOK
<1>2. ASSUME NEW i \in DOMAIN out, out[i].kind = "media"
      PROVE  \E j \in 1..i - 1 : /\ out[j].kind = "init" /\ out[j].init = out[i].init
                                 /\ \A k \in j + 1..i - 1 : out[k].kind # "init"
  <2>1. PICK j \in 1..i - 1 :
          /\ out[j].kind = "init" /\ out[j].load = out[i].load /\ out[j].init = out[i].init
          /\ \A k \in j + 1..i - 1 : ~(out[k].kind = "init" /\ out[k].load = out[i].load)
    BY <1>2 DEF MessagesBelong, UnderItsInit
  <2>2. \A k \in j + 1..i - 1 : k \in DOMAIN out
    BY <1>1 DEF WorkerTypeOK
  <2>3. \A k \in j + 1..i - 1 : out[k].load = out[i].load
    BY <2>2 DEF Generations
  <2> QED BY <2>1, <2>3
<1> QED BY <1>2 DEF Fits, WorkerTypeOK, Generations

LEMMA FitsBelong ==
  ASSUME Fits(out', gen')
  PROVE  MessagesBelong' /\ \A i \in DOMAIN out' : out'[i].gen = gen' /\ out'[i].load = gen'
<1>1. OwnGeneration'
  BY DEF Fits, OwnGeneration
<1>2. UnderItsInit'
  <2> SUFFICES ASSUME NEW i \in DOMAIN out', out'[i].kind = "media"
               PROVE  \E j \in 1..i - 1 :
                        /\ out'[j].kind = "init" /\ out'[j].load = out'[i].load
                        /\ out'[j].init = out'[i].init
                        /\ \A k \in j + 1..i - 1 : ~(out'[k].kind = "init" /\ out'[k].load = out'[i].load)
    BY DEF UnderItsInit
  <2>1. PICK j \in 1..i - 1 : /\ out'[j].kind = "init" /\ out'[j].init = out'[i].init
                              /\ \A k \in j + 1..i - 1 : out'[k].kind # "init"
    BY DEF Fits
  <2>2. j \in DOMAIN out'
    BY DEF Fits
  <2>3. out'[j].load = out'[i].load
    BY <2>2 DEF Fits
  <2> QED BY <2>1, <2>3
<1> QED BY <1>1, <1>2 DEF MessagesBelong, Fits

LEMMA EmptyFits == ASSUME NEW g PROVE Fits(<<>>, g)
  BY DEF Fits

LEMMA UnderAppend ==
  ASSUME NEW q \in Seq(Message), NEW e \in Message
  PROVE  /\ e.kind = "init" => Under(Append(q, e), e.init)
         /\ e.kind # "init" => \A x : Under(q, x) => Under(Append(q, e), x)
<1> DEFINE p == Append(q, e)
<1>1. /\ DOMAIN q = 1..Len(q) /\ DOMAIN p = 1..Len(q) + 1 /\ Len(p) = Len(q) + 1 /\ Len(q) \in Nat
      /\ p[Len(q) + 1] = e /\ \A i \in 1..Len(q) : p[i] = q[i]
  OBVIOUS
<1> HIDE DEF p
<1>2. ASSUME e.kind = "init" PROVE Under(p, e.init)
  BY <1>1, <1>2 DEF Under
<1>3. ASSUME e.kind # "init", NEW x, Under(q, x) PROVE Under(p, x)
  <2>1. PICK j \in DOMAIN q : /\ q[j].kind = "init" /\ q[j].init = x
                              /\ \A k \in j + 1..Len(q) : q[k].kind # "init"
    BY <1>3 DEF Under
  <2>2. j \in DOMAIN p /\ p[j] = q[j] /\ j \in Nat /\ j >= 1 /\ j <= Len(q)
    BY <1>1
  <2>3. ASSUME NEW k \in j + 1..Len(p) PROVE p[k].kind # "init"
    <3>1. (k \in 1..Len(q) /\ k \in j + 1..Len(q)) \/ k = Len(q) + 1
      BY <1>1, <2>2
    <3> QED BY <1>1, <1>3, <2>1, <3>1
  <2> QED BY <2>1, <2>2, <2>3 DEF Under
<1> QED BY <1>2, <1>3 DEF p

LEMMA FitsAppend ==
  ASSUME NEW g, NEW q, Fits(q, g), NEW e \in Message, e.gen = g, e.load = g,
         e.kind = "media" => Under(q, e.init)
  PROVE  Fits(Append(q, e), g)
<1> DEFINE p == Append(q, e)
<1>1. q \in Seq(Message)
  BY DEF Fits
<1>2. /\ DOMAIN q = 1..Len(q) /\ DOMAIN p = 1..Len(q) + 1 /\ Len(q) \in Nat
      /\ p[Len(q) + 1] = e /\ (\A i \in 1..Len(q) : p[i] = q[i]) /\ p \in Seq(Message)
  BY <1>1
<1> HIDE DEF p
<1>3. \A i \in DOMAIN p : i \in 1..Len(q) \/ i = Len(q) + 1
  BY <1>2
<1>4. \A i \in DOMAIN p : p[i].gen = g /\ p[i].load = g
  BY <1>2, <1>3 DEF Fits
<1>5. ASSUME NEW i \in DOMAIN p, p[i].kind = "media"
      PROVE  \E j \in 1..i - 1 : /\ p[j].kind = "init" /\ p[j].init = p[i].init
                                 /\ \A k \in j + 1..i - 1 : p[k].kind # "init"
  <2>1. CASE i \in 1..Len(q)
    <3>1. q[i].kind = "media" /\ i \in DOMAIN q
      BY <1>2, <1>5, <2>1
    <3>2. PICK j \in 1..i - 1 : /\ q[j].kind = "init" /\ q[j].init = q[i].init
                                /\ \A k \in j + 1..i - 1 : q[k].kind # "init"
      BY <3>1 DEF Fits
    <3>3. \A k \in 1..i - 1 : k \in 1..Len(q)
      BY <1>2, <2>1
    <3>4. \A k \in j + 1..i - 1 : k \in 1..i - 1
      BY <1>2, <2>1
    <3> QED BY <1>2, <2>1, <3>2, <3>3, <3>4
  <2>2. CASE i = Len(q) + 1
    <3>1. p[i] = e /\ Under(q, e.init)
      BY <1>2, <1>5, <2>2
    <3>2. PICK j \in DOMAIN q : /\ q[j].kind = "init" /\ q[j].init = e.init
                                /\ \A k \in j + 1..Len(q) : q[k].kind # "init"
      BY <3>1 DEF Under
    <3>3. i - 1 = Len(q) /\ j \in 1..Len(q)
      BY <1>2, <2>2
    <3>4. \A k \in j + 1..i - 1 : k \in 1..Len(q) /\ k \in j + 1..Len(q)
      BY <1>2, <3>3
    <3> QED BY <1>2, <3>1, <3>2, <3>3, <3>4
  <2> QED BY <1>3, <2>1, <2>2
<1> QED BY <1>2, <1>4, <1>5 DEF Fits, p

\* Two messages appended are one and then the other.
LEMMA ConcatTwo ==
  ASSUME NEW q \in Seq(Message), NEW a \in Message, NEW b \in Message
  PROVE  /\ q \o <<a>> = Append(q, a) /\ q \o <<a, b>> = Append(Append(q, a), b)
         /\ q \o <<>> = q /\ Append(q, a) \in Seq(Message)
<1>1. Append(Append(q, a), b) = q \o <<a, b>>
  <2> DEFINE u == Append(Append(q, a), b)
             v == q \o <<a, b>>
  <2>1. u \in Seq(Message) /\ v \in Seq(Message) /\ Len(u) = Len(q) + 2 /\ Len(v) = Len(q) + 2
    OBVIOUS
  <2>2. \A i \in 1..Len(q) + 2 : u[i] = v[i]
    <3> TAKE i \in 1..Len(q) + 2
    <3>1. CASE i \in 1..Len(q)
      BY <3>1
    <3>2. CASE i = Len(q) + 1
      BY <3>2
    <3>3. CASE i = Len(q) + 2
      BY <3>3
    <3>4. Len(q) \in Nat
      OBVIOUS
    <3> QED BY <3>1, <3>2, <3>3, <3>4
  <2> HIDE DEF u, v
  <2>3. u = v
    BY <2>1, <2>2
  <2> QED BY <2>3 DEF u, v
<1>2. q \o <<a>> = Append(q, a)
  OBVIOUS
<1>3. q \o <<>> = q
  OBVIOUS
<1> QED BY <1>1, <1>2, <1>3

-----------------------------------------------------------------------------
(* Steps of the current run                                                *)

Rest ==
  WorkerTypeOK /\ Download /\ Generations /\ AtWork /\ Announced /\ MessagesBelong

IInv == WorkerInv /\ HlsInv

LEMMA RestIs == IInv <=> Rest /\ LoaderInv /\ Outcome /\ HlsInv
  BY DEF IInv, WorkerInv, Rest

AnnouncedIn(p, q) ==
  /\ p.told /\ ~p.fmp4 => Under(q, "ts")
  /\ p.initSent => Under(q, IF p.lastInit = NoInit THEN "own" ELSE p.lastInit)

\* The frames a decoder will accept are of runs of the last load.
FramesFit(a) ==
  \A i \in DOMAIN a.frames : a.frames[i].current =>
    a.frames[i].run \in DOMAIN runs /\ runs[a.frames[i].run].load = gen

LEMMA StepOfRun ==
  ASSUME Rest, NEW r \in DOMAIN runs, r = pipe.run, NEW pc, NEW m, MovedTo(runs', r, pc, m),
         gen' = gen, pipe' \in Pipe, pipe'.run = r, Works(pipe', m, pc),
         audio' \in Audio, FramesFit(audio'), Fits(out', gen), AnnouncedIn(pipe', out'), Download'
  PROVE  Rest'
<1>1. gen \in Nat /\ runs \in Seq(Run) /\ runs[r].load = gen /\ r # 0
  BY DEF Rest, WorkerTypeOK, Generations
<1>2. runs' \in Seq(Run) /\ DOMAIN runs' = DOMAIN runs /\ runs'[r].load = gen
      /\ runs'[r].pc = pc /\ runs'[r].meta = m /\ \A k \in DOMAIN runs : runs'[k].load = runs[k].load
  BY <1>1 DEF MovedTo
<1>3. out' \in Seq(Message)
  BY DEF Fits
<1>4. WorkerTypeOK'
  BY <1>1, <1>2, <1>3 DEF WorkerTypeOK
<1>5. Generations'
  BY <1>1, <1>2 DEF Generations, FramesFit, Fits
<1>6. AtWork'
  BY <1>2 DEF AtWork
<1>7. Announced'
  BY DEF Announced, AnnouncedIn
<1>8. MessagesBelong'
  BY <1>3, FitsBelong
<1> QED BY <1>4, <1>5, <1>6, <1>7, <1>8 DEF Rest

\* What holds of the current run.
LEMMA CurrentRun ==
  ASSUME Rest, NEW r \in DOMAIN runs, r = pipe.run
  PROVE  /\ r # 0 /\ r \in Nat /\ runs[r] \in Run /\ runs[r].load = gen /\ gen \in Nat
         /\ runs \in Seq(Run) /\ pipe \in Pipe /\ audio \in Audio /\ FramesFit(audio)
         /\ Works(pipe, runs[r].meta, runs[r].pc) /\ AnnouncedIn(pipe, out) /\ Fits(out, gen)
<1>1. runs \in Seq(Run) /\ gen \in Nat /\ pipe \in Pipe /\ audio \in Audio
  BY DEF Rest, WorkerTypeOK
<1>2. r # 0 /\ r \in Nat /\ runs[r] \in Run
  BY <1>1
<1>3. runs[r].load = gen /\ FramesFit(audio)
  BY <1>2 DEF Rest, Generations, FramesFit
<1>4. Works(pipe, runs[r].meta, runs[r].pc) /\ AnnouncedIn(pipe, out)
  BY <1>2 DEF Rest, AtWork, Announced, AnnouncedIn
<1> QED BY <1>1, <1>2, <1>3, <1>4, FitsOut DEF Rest

\* A run that is not loading has no loader.
LEMMA NotLoading ==
  ASSUME Rest, NEW r \in DOMAIN runs, r = pipe.run, runs[r].pc # "load", UNCHANGED ldrVars
  PROVE  Download'
<1>1. reqs = {} /\ ~ldr.up
  BY DEF Rest, Download
<1> QED BY <1>1 DEF Download, ldrVars

LEMMA NoRequests == ASSUME Destroy PROVE Download'
  BY DEF Destroy, Download, NoLoader

LEMMA ResetAudioIs ==
  ASSUME audio \in Audio, ResetAudio PROVE audio' \in Audio /\ FramesFit(audio')
<1> DEFINE f == audio.frames
           g == [i \in DOMAIN f |-> [f[i] EXCEPT !.current = FALSE]]
           F == [current : BOOLEAN, run : Nat]
<1>1. f \in Seq(F) /\ audio.decoder \in {"none", "loading", "ready"}
  BY DEF Audio
<1>2. audio' = [audio EXCEPT !.frames = g]
  BY DEF ResetAudio
<1>3. \A i \in 1..Len(f) : [f[i] EXCEPT !.current = FALSE] \in F
                           /\ ~[f[i] EXCEPT !.current = FALSE].current
  <2> HIDE DEF f
  <2>1. \A i \in 1..Len(f) : f[i] \in F
    <3> HIDE DEF F
    <3> QED BY <1>1
  <2> QED BY <2>1
<1>4. g = [i \in 1..Len(f) |-> [f[i] EXCEPT !.current = FALSE]] /\ Len(f) \in Nat
  BY <1>1
<1> HIDE DEF f, F
<1>5. \A i \in 1..Len(f) : g[i] \in F /\ ~g[i].current
  BY <1>3, <1>4
<1> HIDE DEF g
<1>6. g \in Seq(F) /\ DOMAIN g = 1..Len(f)
  BY <1>3, <1>4, IsASeq
<1>7. audio' \in Audio /\ audio'.frames = g
  BY <1>2, <1>6 DEF Audio, F
<1> QED BY <1>5, <1>6, <1>7 DEF FramesFit

LEMMA GotIs ==
  ASSUME runs \in Seq(Run), NEW r \in DOMAIN runs, NEW m \in Segment \cup Given, NEW n \in Nat
  PROVE  /\ MovedTo([runs EXCEPT ![r].pc = "got", ![r].meta = m], r, "got", m)
         /\ MovedTo([runs EXCEPT ![r].pc = "got", ![r].cycles = n, ![r].meta = m], r, "got", m)
<1>0. runs[r] \in Run
  OBVIOUS
<1>1. ASSUME NEW x \in Run, x.pc = "got", x.meta = m, x.load = runs[r].load
      PROVE  MovedTo([runs EXCEPT ![r] = x], r, "got", m)
  <2> DEFINE rs == [runs EXCEPT ![r] = x]
  <2>1. rs \in Seq(Run) /\ Len(rs) = Len(runs) /\ rs[r] = x /\ \A k \in DOMAIN runs \ {r} : rs[k] = runs[k]
    BY <1>1
  <2> HIDE DEF rs
  <2>2. MovedTo(rs, r, "got", m)
    BY <1>1, <2>1 DEF MovedTo
  <2> QED BY <2>2 DEF rs
<1> DEFINE S == Segment \cup Given
           R == [pc : Point, held : BOOLEAN, load : Nat, meta : S, cycles : Nat]
           x == [runs[r] EXCEPT !.pc = "got", !.meta = m]
           y == [runs[r] EXCEPT !.pc = "got", !.cycles = n]
           z == [y EXCEPT !.meta = m]
<1>2. R = Run
  BY DEF Run
<1>3. "got" \in Point /\ m \in S
  BY DEF Point
<1> HIDE DEF S
<1>4. x \in R /\ x.pc = "got" /\ x.meta = m /\ x.load = runs[r].load
  BY <1>0, <1>2, <1>3
<1>5. y \in R /\ y.pc = "got" /\ y.load = runs[r].load
  BY <1>0, <1>2, <1>3
<1>6. [runs EXCEPT ![r].pc = "got", ![r].cycles = n, ![r].meta = m] = [runs EXCEPT ![r] = z]
  OBVIOUS
<1>7. [runs EXCEPT ![r].pc = "got", ![r].meta = m] = [runs EXCEPT ![r] = x]
  OBVIOUS
<1> HIDE DEF x, y
<1>8. z \in R /\ z.pc = "got" /\ z.load = runs[r].load /\ z.meta = m
  BY <1>3, <1>5
<1> HIDE DEF z, R
<1> QED BY <1>1, <1>2, <1>4, <1>6, <1>7, <1>8

LEMMA LeaveKeeps ==
  ASSUME Rest, NEW r \in DOMAIN runs, Leave(r) PROVE Rest'
<1>1. runs \in Seq(Run) /\ r # pipe.run /\ pipe.run \in Nat
  BY DEF Rest, WorkerTypeOK, Leave, Stale, Pipe
<1>2. PICK m : MovedTo(runs', r, "done", m)
  BY <1>1, ToDone DEF Leave
<1>3. UNCHANGED <<gen, pipe, audio, out, ldr, reqs, fed>>
  BY DEF Leave, Silent, ldrVars
<1>4. runs' \in Seq(Run) /\ DOMAIN runs' = DOMAIN runs
      /\ \A k \in DOMAIN runs : runs'[k].load = runs[k].load
  BY <1>1, <1>2 DEF MovedTo
<1>5. pipe.run \in DOMAIN runs => runs'[pipe.run] = runs[pipe.run]
  BY <1>1, <1>2 DEF MovedTo
<1>6. pipe.run # 0 => pipe.run \in DOMAIN runs
  BY DEF Rest, Generations
<1>7. WorkerTypeOK' /\ Generations' /\ Announced' /\ MessagesBelong'
  <2>1. WorkerTypeOK'
    BY <1>3, <1>4 DEF Rest, WorkerTypeOK
  <2>2. Generations'
    BY <1>3, <1>4 DEF Rest, Generations
  <2>3. Announced' /\ MessagesBelong'
    BY <1>3 DEF Rest, Announced, MessagesBelong, OwnGeneration, UnderItsInit
  <2> QED BY <2>1, <2>2, <2>3
<1>8. AtWork' /\ Download'
  BY <1>3, <1>5, <1>6 DEF Rest, AtWork, Download
<1> QED BY <1>7, <1>8 DEF Rest

LEMMA HoldKeeps ==
  ASSUME Rest, NEW r \in DOMAIN runs, Hold(r) PROVE Rest'
<1>1. r = pipe.run /\ runs[r].pc \in Gates
  BY DEF Hold, Stale
<1>2. UNCHANGED <<gen, audio, out, ldr, reqs, fed>> /\ pipe' = [pipe EXCEPT !.gate = r]
      /\ runs' = [runs EXCEPT ![r].held = TRUE]
  BY DEF Hold, Silent, ldrVars
<1>3. pipe' \in Pipe /\ pipe'.run = r /\ pipe'.told = pipe.told /\ pipe'.fmp4 = pipe.fmp4
      /\ pipe'.initSent = pipe.initSent /\ pipe'.lastInit = pipe.lastInit /\ pipe'.mode = pipe.mode
      /\ pipe'.items = pipe.items /\ pipe'.chunks = pipe.chunks
  BY <1>1, <1>2, CurrentRun DEF Pipe
<1>4. Works(pipe', runs[r].meta, runs[r].pc)
  BY <1>1, <1>3, CurrentRun DEF Works
<1>5. AnnouncedIn(pipe', out')
  BY <1>1, <1>2, <1>3, CurrentRun DEF AnnouncedIn
<1>6. MovedTo(runs', r, runs[r].pc, runs[r].meta)
  <2> DEFINE x == [runs[r] EXCEPT !.held = TRUE]
  <2>1. x \in Run /\ x.pc = runs[r].pc /\ x.meta = runs[r].meta /\ x.load = runs[r].load
    BY <1>1, CurrentRun DEF Run
  <2>2. runs' = [runs EXCEPT ![r] = x] /\ runs \in Seq(Run)
    BY <1>1, <1>2, CurrentRun
  <2> HIDE DEF x
  <2>3. runs' \in Seq(Run) /\ Len(runs') = Len(runs) /\ runs'[r] = x
        /\ \A k \in DOMAIN runs \ {r} : runs'[k] = runs[k]
    BY <2>1, <2>2
  <2> QED BY <2>1, <2>3 DEF MovedTo
<1>7. Download'
  <2>1. runs[r].pc # "load"
    BY <1>1 DEF Gates
  <2> QED BY <1>1, <1>2, <2>1, NotLoading DEF ldrVars
<1>8. audio' \in Audio /\ FramesFit(audio') /\ Fits(out', gen)
  BY <1>1, <1>2, CurrentRun
<1> QED BY <1>1, <1>2, <1>3, <1>4, <1>5, <1>6, <1>7, <1>8, StepOfRun

LEMMA AskKeeps ==
  ASSUME Rest, NEW r \in DOMAIN runs, AskSource(r) PROVE Rest'
<1>1. r = pipe.run /\ runs[r].pc = "top"
  BY DEF AskSource, Passes, Stale, At
<1>2. UNCHANGED <<gen, audio, out, ldr, reqs, fed>>
  BY DEF AskSource, Silent, ldrVars
<1>3. Download'
  BY <1>1, <1>2, NotLoading DEF ldrVars
<1>4. audio' \in Audio /\ FramesFit(audio') /\ Fits(out', gen)
  BY <1>1, <1>2, CurrentRun
<1>5. pipe \in Pipe /\ runs \in Seq(Run) /\ runs[r] \in Run /\ Works(pipe, runs[r].meta, "top")
      /\ AnnouncedIn(pipe, out)
  BY <1>1, CurrentRun
<1>6. ~pipe.chunks
  BY <1>5 DEF Works
<1>7. CASE pipe.mode = "hls"
  <2>1. runs' = To(r, "ask") /\ pipe' = pipe
    BY <1>7, Zenon DEF AskSource
  <2>2. MovedTo(runs', r, "ask", runs[r].meta)
    BY <1>5, <2>1, ToIs DEF Point
  <2>3. Works(pipe', runs[r].meta, "ask")
    BY <1>5, <1>6, <1>7, <2>1 DEF Works
  <2> QED BY <1>1, <1>2, <1>3, <1>4, <1>5, <2>1, <2>2, <2>3, StepOfRun
<1>8. CASE pipe.mode = "static"
  <2> DEFINE m == IF pipe.index < Len(pipe.items) THEN Item(pipe.items[pipe.index + 1], pipe.index)
                  ELSE Item("none", pipe.index)
  <2>1. runs' = [runs EXCEPT ![r].pc = "got", ![r].meta = m]
        /\ pipe' = [pipe EXCEPT !.index = @ + 1]
    BY <1>8 DEF AskSource
  <2>2. m \in Given
    <3>1. pipe.items \in Seq(Kinds) /\ pipe.index \in Nat
      BY <1>5 DEF Pipe
    <3>2. CASE pipe.index < Len(pipe.items)
      <4>1. pipe.items[pipe.index + 1] \in Kinds
        BY <3>1, <3>2
      <4> QED BY <3>1, <3>2, <4>1, ItemIs
    <3>3. CASE ~(pipe.index < Len(pipe.items))
      BY <3>1, <3>3, ItemIs
    <3> QED BY <3>2, <3>3
  <2> HIDE DEF m
  <2>3. MovedTo(runs', r, "got", m)
    BY <1>5, <2>1, <2>2, GotIs
  <2>4. pipe' \in Pipe /\ pipe'.run = r /\ pipe'.told = pipe.told /\ pipe'.fmp4 = pipe.fmp4
        /\ pipe'.initSent = pipe.initSent /\ pipe'.lastInit = pipe.lastInit /\ pipe'.mode = pipe.mode
        /\ pipe'.items = pipe.items /\ pipe'.chunks = pipe.chunks
    <3> DEFINE n == pipe.index + 1
    <3>1. n \in Nat /\ pipe' = [pipe EXCEPT !.index = n]
      BY <1>5, <2>1 DEF Pipe
    <3> HIDE DEF n
    <3> QED BY <1>1, <1>5, <3>1 DEF Pipe
  <2>5. Works(pipe', m, "got")
    BY <1>5, <1>6, <1>8, <2>2, <2>4 DEF Works
  <2>6. AnnouncedIn(pipe', out')
    BY <1>2, <1>5, <2>4 DEF AnnouncedIn
  <2> QED BY <1>1, <1>2, <1>3, <1>4, <2>3, <2>4, <2>5, <2>6, StepOfRun
<1>9. CASE pipe.mode = "live"
  <2> DEFINE m == Item(pipe.items[1], runs[r].cycles)
             n == runs[r].cycles + 1
  <2>1. runs' = [runs EXCEPT ![r].pc = "got", ![r].cycles = n, ![r].meta = m] /\ pipe' = pipe
    BY <1>9 DEF AskSource
  <2>2. n \in Nat /\ m \in Given /\ m.kind = pipe.items[1]
    <3>1. runs[r].cycles \in Nat /\ pipe.items \in Seq(Kinds) /\ pipe.items # <<>>
      BY <1>5, <1>9 DEF Works, Pipe, Run
    <3>2. pipe.items[1] \in Kinds
      BY <3>1
    <3> QED BY <3>1, <3>2, ItemIs
  <2> HIDE DEF m, n
  <2>3. MovedTo(runs', r, "got", m)
    BY <1>5, <2>1, <2>2, GotIs
  <2>4. Works(pipe', m, "got")
    BY <1>5, <1>6, <1>9, <2>1, <2>2 DEF Works
  <2> QED BY <1>1, <1>2, <1>3, <1>4, <1>5, <2>1, <2>3, <2>4, StepOfRun
<1> QED BY <1>7, <1>8, <1>9 DEF AskSource

LEMMA AnsweredKeeps ==
  ASSUME Rest, Outcome, HlsInv, NEW r \in DOMAIN runs, Answered(r) PROVE Rest'
<1>1. r = pipe.run /\ runs[r].pc = "ask"
  BY DEF Answered, Stale, At
<1> DEFINE m == IF outcome = "meta" THEN Last(given) ELSE Item(outcome, 0)
<1>2. UNCHANGED <<gen, pipe, audio, out, ldr, reqs, fed>>
      /\ runs' = [runs EXCEPT ![r].pc = "got", ![r].meta = m]
  BY DEF Answered, Silent, ldrVars
<1>3. m \in Segment \/ (m \in Given /\ m.kind \in {"end", "error"})
  <2>1. given \in Seq(Segment)
    BY DEF HlsInv, HlsTypeOK
  <2>2. CASE outcome = "meta"
    BY <2>1, <2>2 DEF Outcome, Last
  <2>3. CASE outcome # "meta"
    <3>1. outcome \in {"end", "error"}
      BY <2>3 DEF Outcome, Answered
    <3> QED BY <2>3, <3>1, ItemIs
  <2> QED BY <2>2, <2>3
<1> HIDE DEF m
<1>4. Download'
  BY <1>1, <1>2, NotLoading DEF ldrVars
<1>5. pipe \in Pipe /\ runs \in Seq(Run) /\ Works(pipe, runs[r].meta, "ask") /\ AnnouncedIn(pipe, out)
      /\ audio' \in Audio /\ FramesFit(audio') /\ Fits(out', gen)
  BY <1>1, <1>2, CurrentRun
<1>6. MovedTo(runs', r, "got", m)
  BY <1>2, <1>3, <1>5, GotIs
<1>7. Works(pipe', m, "got")
  BY <1>2, <1>3, <1>5 DEF Works
<1> QED BY <1>1, <1>2, <1>4, <1>5, <1>6, <1>7, StepOfRun

LEMMA MetaIs ==
  ASSUME NEW m \in Segment \cup Given PROVE m.seq \in Nat /\ m.init \in Inits
<1>1. CASE m \in Segment
  <2>1. m.seq \in Sequence /\ m.init \in {InitUrl[k] : k \in Sequence}
    BY <1>1 DEF Segment
  <2> QED BY <2>1, HlsAssumption DEF Sequence, Inits
<1>2. CASE m \in Given
  BY <1>2 DEF Given, Inits
<1> QED BY <1>1, <1>2

LEMMA PostIs ==
  ASSUME Rest, NEW r \in DOMAIN runs, r = pipe.run, NEW kind \in {"error", "complete"},
         NEW seq \in Nat, NEW init \in Inits
  PROVE  Fits(Post(r, kind, seq, init), gen) /\ AnnouncedIn(pipe, Post(r, kind, seq, init))
<1> DEFINE e == [gen |-> gen, load |-> runs[r].load, kind |-> kind, seq |-> seq, init |-> init]
<1>1. Fits(out, gen) /\ AnnouncedIn(pipe, out) /\ runs[r].load = gen /\ gen \in Nat
  BY CurrentRun
<1>2. e \in Message /\ e.gen = gen /\ e.load = gen /\ e.kind = kind
  BY <1>1 DEF Message
<1>3. Post(r, kind, seq, init) = Append(out, e)
  BY DEF Post
<1> HIDE DEF e
<1>4. out \in Seq(Message) /\ e.kind # "media" /\ e.kind # "init"
  BY <1>1, <1>2 DEF Fits
<1>5. Fits(Append(out, e), gen)
  BY <1>1, <1>2, <1>4, FitsAppend
<1>6. AnnouncedIn(pipe, Append(out, e))
  BY <1>1, <1>2, <1>4, UnderAppend DEF AnnouncedIn
<1> QED BY <1>3, <1>5, <1>6

\* The current run ends with an error or the end of the stream.
LEMMA EndsKeep ==
  ASSUME Rest, NEW r \in DOMAIN runs, r = pipe.run, runs' = To(r, "done"),
         UNCHANGED <<gen, pipe, audio>>, NEW kind \in {"error", "complete"}, NEW seq \in Nat,
         out' = Post(r, kind, seq, NoInit), Download'
  PROVE  Rest'
<1>1. PICK m : MovedTo(runs', r, "done", m)
  <2>1. runs \in Seq(Run)
    BY CurrentRun
  <2> QED BY <2>1, ToDone
<1>2. pipe' \in Pipe /\ pipe'.run = r /\ audio' \in Audio /\ FramesFit(audio') /\ gen' = gen
      /\ Works(pipe, runs[r].meta, runs[r].pc)
  BY CurrentRun
<1>3. Works(pipe', m, "done")
  BY <1>2 DEF Works
<1>4. Fits(out', gen) /\ AnnouncedIn(pipe', out')
  <2>1. NoInit \in Inits
    BY DEF Inits
  <2>2. Fits(Post(r, kind, seq, NoInit), gen) /\ AnnouncedIn(pipe, Post(r, kind, seq, NoInit))
    BY <2>1, PostIs
  <2> QED BY <2>2
<1> QED BY <1>1, <1>2, <1>3, <1>4, StepOfRun

LEMMA SourceOverKeeps ==
  ASSUME Rest, NEW r \in DOMAIN runs, SourceOver(r) PROVE Rest'
<1>1. r = pipe.run /\ runs[r].pc = "got" /\ UNCHANGED <<gen, pipe, audio, ldrVars>>
      /\ runs' = To(r, "done")
  BY DEF SourceOver, Stale, At
<1>2. Download'
  BY <1>1, NotLoading
<1>3. PICK kind \in {"error", "complete"} : out' = Post(r, kind, 0, NoInit)
  BY DEF SourceOver
<1> QED BY <1>1, <1>2, <1>3, EndsKeep

\* The current run goes on with its segment, nothing is posted.
LEMMA GoesOn ==
  ASSUME Rest, NEW r \in DOMAIN runs, r = pipe.run, NEW pc \in Point \ {"done"}, runs' = To(r, pc),
         UNCHANGED <<gen, out>>, pipe' \in Pipe, pipe'.run = r,
         pipe'.told => pipe.told, pipe.fmp4 => pipe'.fmp4, pipe'.initSent = pipe.initSent,
         pipe'.lastInit = pipe.lastInit,
         Works(pipe', runs[r].meta, pc), audio' = audio \/ ResetAudio, Download'
  PROVE  Rest'
<1>1. runs \in Seq(Run) /\ audio \in Audio /\ FramesFit(audio) /\ AnnouncedIn(pipe, out)
      /\ Fits(out', gen) /\ gen' = gen
  BY CurrentRun
<1>2. MovedTo(runs', r, pc, runs[r].meta)
  BY <1>1, ToIs
<1>3. audio' \in Audio /\ FramesFit(audio')
  BY <1>1, ResetAudioIs
<1>4. AnnouncedIn(pipe', out')
  BY <1>1 DEF AnnouncedIn
<1> QED BY <1>1, <1>2, <1>3, <1>4, StepOfRun

LEMMA PrepareKeeps ==
  ASSUME Rest, NEW r \in DOMAIN runs, Prepare(r) PROVE Rest'
<1> DEFINE m == runs[r].meta
           pc == IF m.init # NoInit /\ m.init # pipe.lastInit THEN "gateInit" ELSE "gateLoad"
<1>1. r = pipe.run /\ runs[r].pc = "got" /\ UNCHANGED <<gen, out, ldrVars>>
      /\ runs' = To(r, pc) /\ Kind(m) \notin {"none", "end", "error"}
  BY DEF Prepare, Stale, At, Silent
<1>2. Download'
  BY <1>1, NotLoading
<1>3. pipe \in Pipe /\ runs[r] \in Run /\ Works(pipe, m, "got")
  BY <1>1, CurrentRun
<1>4. audio' = audio \/ ResetAudio
  BY DEF Prepare
<1>5. pipe' = pipe \/ pipe' = [pipe EXCEPT !.told = FALSE]
  BY DEF Prepare
<1>6. /\ pipe' \in Pipe /\ pipe'.run = r /\ (pipe'.told => pipe.told) /\ pipe'.fmp4 = pipe.fmp4
      /\ pipe'.initSent = pipe.initSent /\ pipe'.lastInit = pipe.lastInit /\ pipe'.mode = pipe.mode
      /\ pipe'.items = pipe.items /\ pipe'.chunks = pipe.chunks
  BY <1>1, <1>3, <1>5 DEF Pipe
<1>7. m \in Segment \cup Given
  BY <1>3 DEF Run
<1>8. pipe.mode = "hls" => m \in Segment
  BY <1>1, <1>3, <1>7, KindOfGiven DEF Works
<1>9. pipe.mode # "hls" => m.init = NoInit
  BY <1>3 DEF Works, Given
<1>10. pc \in Point \ {"done"} /\ (pc = "gateInit" \/ pc = "gateLoad")
       /\ (pc = "gateInit" => m.init # NoInit)
       /\ (pc = "gateLoad" => m.init = NoInit \/ m.init = pipe.lastInit)
  BY DEF Point
<1> HIDE DEF pc, m
<1>11. Works(pipe', m, pc)
  BY <1>3, <1>6, <1>8, <1>9, <1>10 DEF Works
<1> QED BY <1>1, <1>2, <1>4, <1>6, <1>10, <1>11, GoesOn DEF m

LEMMA StartInitKeeps ==
  ASSUME Rest, NEW r \in DOMAIN runs, StartInit(r) PROVE Rest'
<1>1. r = pipe.run /\ runs[r].pc = "gateInit" /\ UNCHANGED <<gen, out, audio, ldrVars>>
      /\ runs' = To(r, "init") /\ pipe' = [pipe EXCEPT !.fmp4 = TRUE]
  BY DEF StartInit, Passes, Stale, At, Silent
<1>2. Download'
  BY <1>1, NotLoading
<1>3. pipe \in Pipe /\ Works(pipe, runs[r].meta, "gateInit")
  BY <1>1, CurrentRun
<1>4. /\ pipe' \in Pipe /\ pipe'.run = r /\ pipe'.told = pipe.told /\ pipe'.fmp4
      /\ pipe'.initSent = pipe.initSent /\ pipe'.lastInit = pipe.lastInit /\ pipe'.mode = pipe.mode
      /\ pipe'.items = pipe.items /\ pipe'.chunks = pipe.chunks
  BY <1>1, <1>3 DEF Pipe
<1>5. Works(pipe', runs[r].meta, "init") /\ "init" \in Point \ {"done"}
  BY <1>3, <1>4 DEF Works, Point
<1> QED BY <1>1, <1>2, <1>4, <1>5, GoesOn

LEMMA InitResponseKeeps ==
  ASSUME Rest, NEW r \in DOMAIN runs, InitResponse(r) PROVE Rest'
<1>1. r = pipe.run /\ runs[r].pc = "init" /\ UNCHANGED <<gen, out, audio, pipe, ldrVars>>
      /\ runs' = To(r, "body")
  BY DEF InitResponse, Stale, At, Silent
<1>2. Download'
  BY <1>1, NotLoading
<1>3. pipe \in Pipe /\ Works(pipe, runs[r].meta, "init")
  BY <1>1, CurrentRun
<1>4. Works(pipe', runs[r].meta, "body") /\ "body" \in Point \ {"done"}
  BY <1>1, <1>3 DEF Works, Point
<1> QED BY <1>1, <1>2, <1>3, <1>4, GoesOn

LEMMA InitFailsKeeps ==
  ASSUME Rest, NEW r \in DOMAIN runs, InitFails(r) PROVE Rest'
<1>1. r = pipe.run /\ runs[r].pc \in {"init", "body"} /\ UNCHANGED <<gen, pipe, audio, ldrVars>>
      /\ runs' = To(r, "done") /\ out' = Post(r, "error", runs[r].meta.seq, NoInit)
  BY DEF InitFails, Stale
<1>2. Download'
  BY <1>1, NotLoading
<1>3. runs[r].meta.seq \in Nat
  BY <1>1, CurrentRun, MetaIs DEF Run
<1> QED BY <1>1, <1>2, <1>3, EndsKeep

LEMMA InitBodyKeeps ==
  ASSUME Rest, NEW r \in DOMAIN runs, InitBody(r) PROVE Rest'
<1> DEFINE m == runs[r].meta
           e == [gen |-> gen, load |-> runs[r].load, kind |-> "init", seq |-> m.seq, init |-> m.init]
<1>1. r = pipe.run /\ runs[r].pc = "body" /\ UNCHANGED <<gen, audio, ldrVars>>
      /\ runs' = To(r, "gateLoad") /\ out' = Append(out, e)
      /\ pipe' = [pipe EXCEPT !.initSent = TRUE, !.lastInit = m.init]
  BY DEF InitBody, Stale, At, Post
<1>2. Download'
  BY <1>1, NotLoading
<1>3. pipe \in Pipe /\ runs[r] \in Run /\ Works(pipe, m, "body") /\ runs \in Seq(Run)
      /\ audio' \in Audio /\ FramesFit(audio') /\ Fits(out, gen) /\ AnnouncedIn(pipe, out)
      /\ runs[r].load = gen /\ gen \in Nat
  BY <1>1, CurrentRun
<1>4. m \in Segment \cup Given
  BY <1>3 DEF Run
<1>5. m.seq \in Nat /\ m.init \in Inits
  BY <1>4, MetaIs
<1>6. e \in Message /\ e.kind = "init" /\ e.init = m.init /\ e.gen = gen /\ e.load = gen
  BY <1>3, <1>5 DEF Message
<1>7. /\ pipe' \in Pipe /\ pipe'.run = r /\ pipe'.told = pipe.told /\ pipe'.fmp4 = pipe.fmp4
      /\ pipe'.initSent /\ pipe'.lastInit = m.init /\ pipe'.mode = pipe.mode
      /\ pipe'.items = pipe.items /\ pipe'.chunks = pipe.chunks
  BY <1>1, <1>3, <1>5 DEF Pipe
<1>8. MovedTo(runs', r, "gateLoad", m)
  BY <1>1, <1>3, ToIs DEF Point
<1> HIDE DEF m, e
<1>9. Works(pipe', m, "gateLoad") /\ pipe.fmp4 /\ m.init # NoInit
  BY <1>3, <1>7 DEF Works
<1>10. Fits(out', gen)
  BY <1>1, <1>3, <1>6, FitsAppend
<1>11. AnnouncedIn(pipe', out')
  <2>1. out \in Seq(Message)
    BY <1>3 DEF Fits
  <2>2. Under(out', m.init)
    BY <1>1, <1>6, <2>1, UnderAppend
  <2> QED BY <1>7, <1>9, <2>2 DEF AnnouncedIn
<1> QED BY <1>1, <1>2, <1>3, <1>7, <1>8, <1>9, <1>10, <1>11, StepOfRun

LEMMA StartLoadKeeps ==
  ASSUME Rest, NEW r \in DOMAIN runs, StartLoad(r) PROVE Rest'
<1>1. r = pipe.run /\ runs[r].pc = "gateLoad" /\ UNCHANGED <<gen, out, audio, pipe>>
      /\ runs' = To(r, "load") /\ Open /\ ~pipe.paused
  BY DEF StartLoad, Passes, Stale, At, Silent
<1>2. pipe \in Pipe /\ Works(pipe, runs[r].meta, "gateLoad") /\ r # 0 /\ runs \in Seq(Run)
  BY <1>1, CurrentRun
<1>3. Works(pipe', runs[r].meta, "load") /\ "load" \in Point \ {"done"}
  BY <1>1, <1>2 DEF Works, Point
<1>4. Download'
  <2>1. reqs' = {NewRequest({})} /\ NewRequest({}).stage = "connecting"
    BY <1>1 DEF Open, NewRequest
  <2>2. runs'[r].pc = "load"
    BY <1>1, <1>2, <1>3, ToIs DEF MovedTo
  <2> QED BY <1>1, <1>2, <2>1, <2>2 DEF Download
<1> QED BY <1>1, <1>2, <1>3, <1>4, GoesOn

-----------------------------------------------------------------------------
(* The download of the current run                                         *)

\* The step of a request in effect leaves the loader the current run's.
LEMMA StillDownloads ==
  ASSUME Rest, LoaderInv, NEW r \in DOMAIN runs, r = pipe.run, runs[r].pc = "load",
         NEW q, Current(q), NEW x, ~x.aborted, reqs' = (reqs \ {q}) \cup {x},
         pipe' \in Pipe, pipe'.run = r, pipe'.paused = pipe.paused, pipe'.mode = pipe.mode,
         runs' = runs, q.stage # "text",
         x.stage = "text" => Kind(runs[r].meta) = "list"
  PROVE  Download'
<1>1. \A z \in reqs \ {q} : z.aborted
  BY CurrentIs
<1>2. ~(pipe.paused /\ pipe.mode = "live")
  BY CurrentIs DEF Rest, Download
<1>3. r # 0
  BY CurrentRun
<1> QED BY <1>1, <1>2, <1>3 DEF Download

LEMMA StaysMoved ==
  ASSUME runs \in Seq(Run), NEW r \in DOMAIN runs, runs' = runs
  PROVE  MovedTo(runs', r, runs[r].pc, runs[r].meta)
  BY DEF MovedTo

LEMMA ResponseKeeps ==
  ASSUME Rest, LoaderInv, NEW r \in DOMAIN runs, NEW q, ResponseArrives(r, q) PROVE Rest'
<1> DEFINE stage == IF Kind(runs[r].meta) = "list" THEN "text" ELSE "reading"
           x == [q EXCEPT !.stage = stage]
<1>1. /\ r = pipe.run /\ runs[r].pc = "load" /\ UNCHANGED <<gen, out, cmds, pipe, runs, audio>>
      /\ Current(q) /\ q.stage = "connecting" /\ reqs' = (reqs \ {q}) \cup {x}
  BY DEF ResponseArrives, Loading, Respond, Silent
<1>2. q \in Request /\ ~q.aborted
  BY <1>1, CurrentIs
<1>3. ~x.aborted /\ x.stage = stage
  BY <1>2 DEF Request
<1> HIDE DEF x
<1>4. /\ runs \in Seq(Run) /\ pipe \in Pipe /\ audio' \in Audio /\ FramesFit(audio')
      /\ Fits(out', gen) /\ AnnouncedIn(pipe', out') /\ Works(pipe', runs[r].meta, "load")
  BY <1>1, CurrentRun
<1>5. Download'
  BY <1>1, <1>3, <1>4, StillDownloads
<1>6. MovedTo(runs', r, "load", runs[r].meta)
  BY <1>1, <1>4, StaysMoved
<1> QED BY <1>1, <1>4, <1>5, <1>6, StepOfRun

LEMMA FrameIs ==
  ASSUME audio \in Audio, FramesFit(audio), NEW r \in DOMAIN runs, r \in Nat, runs[r].load = gen,
         Frame(r)
  PROVE  audio' \in Audio /\ FramesFit(audio')
<1> DEFINE F == [current : BOOLEAN, run : Nat]
           f == audio.frames
           e == [current |-> TRUE, run |-> r]
           g == Append(f, e)
<1>1. f \in Seq(F) /\ e \in F /\ e.run = r
  BY DEF Audio
<1>2. audio' = [audio EXCEPT !.decoder = "loading", !.frames = g]
  BY DEF Frame
<1>3. \A i \in DOMAIN f : f[i].current => f[i].run \in DOMAIN runs /\ runs[f[i].run].load = gen
  BY DEF FramesFit
<1> HIDE DEF F, f, e
<1>4. g \in Seq(F) /\ DOMAIN g = 1..Len(f) + 1 /\ DOMAIN f = 1..Len(f) /\ Len(f) \in Nat
      /\ g[Len(f) + 1] = e /\ \A i \in 1..Len(f) : g[i] = f[i]
  BY <1>1
<1> HIDE DEF g
<1>5. audio' \in Audio /\ audio'.frames = g
  BY <1>2, <1>4 DEF Audio, F
<1>6. \A i \in DOMAIN g : i \in 1..Len(f) \/ i = Len(f) + 1
  BY <1>4
<1>7. \A i \in DOMAIN g : g[i].current => g[i].run \in DOMAIN runs /\ runs[g[i].run].load = gen
  BY <1>1, <1>3, <1>4, <1>6
<1> QED BY <1>5, <1>7 DEF FramesFit

\* TS media is under the remuxer's own init segment.
LEMMA MediaIs ==
  ASSUME Rest, NEW r \in DOMAIN runs, r = pipe.run, NEW m \in Segment \cup Given, ~pipe.fmp4
  PROVE  Fits(Media(r, m), gen) /\ Under(Media(r, m), "ts")
<1> DEFINE a == [gen |-> gen, load |-> runs[r].load, kind |-> "init", seq |-> m.seq, init |-> "ts"]
           b == [gen |-> gen, load |-> runs[r].load, kind |-> "media", seq |-> m.seq, init |-> "ts"]
<1>1. Media(r, m) = IF ~pipe.told THEN out \o <<a, b>>
                    ELSE IF out # <<>> /\ Last(out) = b THEN out ELSE Append(out, b)
  BY DEF Media
<1>2. Fits(out, gen) /\ AnnouncedIn(pipe, out) /\ runs[r].load = gen /\ gen \in Nat /\ out \in Seq(Message)
  BY CurrentRun DEF Fits
<1>3. m.seq \in Nat
  BY MetaIs
<1>4. /\ a \in Message /\ a.gen = gen /\ a.load = gen /\ a.kind = "init" /\ a.init = "ts"
      /\ b \in Message /\ b.gen = gen /\ b.load = gen /\ b.kind = "media" /\ b.init = "ts"
  BY <1>2, <1>3 DEF Message, Inits
<1> HIDE DEF a, b
<1>5. CASE ~pipe.told
  <2>1. Media(r, m) = Append(Append(out, a), b) /\ Append(out, a) \in Seq(Message)
    BY <1>1, <1>2, <1>4, <1>5, ConcatTwo
  <2>2. Fits(Append(out, a), gen) /\ Under(Append(out, a), "ts")
    BY <1>2, <1>4, FitsAppend, UnderAppend
  <2> QED BY <1>4, <2>1, <2>2, FitsAppend, UnderAppend
<1>6. CASE pipe.told
  <2>1. Under(out, "ts")
    BY <1>2, <1>6 DEF AnnouncedIn
  <2>2. Fits(Append(out, b), gen) /\ Under(Append(out, b), "ts")
    BY <1>2, <1>4, <2>1, FitsAppend, UnderAppend
  <2> QED BY <1>1, <1>2, <1>6, <2>1, <2>2
<1> QED BY <1>5, <1>6

LEMMA ChunkArrivesKeeps ==
  ASSUME Rest, LoaderInv, NEW r \in DOMAIN runs, NEW q, NEW n, ChunkArrives(r, q, n) PROVE Rest'
<1> DEFINE m == runs[r].meta
           x == [q EXCEPT !.got = @ + n]
           ts == Kind(m) = "ts" /\ ~pipe.fmp4 /\ Takes(Kind(m), Offered(n)) > 0
<1>1. /\ r = pipe.run /\ runs[r].pc = "load" /\ UNCHANGED <<gen, cmds, runs>>
      /\ Current(q) /\ q.stage = "reading" /\ reqs' = (reqs \ {q}) \cup {x}
  BY DEF ChunkArrives, Loading, Chunk
<1>2. q \in Request /\ ~q.aborted
  BY <1>1, CurrentIs
<1>3. ~x.aborted /\ x.stage = "reading"
  BY <1>1, <1>2 DEF Request
<1>4. /\ runs \in Seq(Run) /\ pipe \in Pipe /\ audio \in Audio /\ FramesFit(audio) /\ r \in Nat
      /\ Fits(out, gen) /\ AnnouncedIn(pipe, out) /\ Works(pipe, m, "load") /\ runs[r] \in Run
      /\ runs[r].load = gen
  BY <1>1, CurrentRun
<1>5. MovedTo(runs', r, "load", m)
  BY <1>1, <1>4, StaysMoved
<1>6. m \in Segment \cup Given
  BY <1>4 DEF Run
<1>7. pipe.mode = "live" => Kind(m) = pipe.items[1]
  BY <1>4, <1>6, KindOfGiven DEF Works
<1>8. CASE ts
  <2>1. pipe' = [pipe EXCEPT !.told = TRUE] /\ out' = Media(r, m) /\ (Frame(r) \/ UNCHANGED audio)
    BY <1>8 DEF ChunkArrives
  <2>2. /\ pipe' \in Pipe /\ pipe'.run = r /\ pipe'.told /\ pipe'.fmp4 = pipe.fmp4
        /\ pipe'.initSent = pipe.initSent /\ pipe'.lastInit = pipe.lastInit /\ pipe'.mode = pipe.mode
        /\ pipe'.items = pipe.items /\ pipe'.chunks = pipe.chunks /\ pipe'.paused = pipe.paused
    BY <1>1, <1>4, <2>1 DEF Pipe
  <2>3. Fits(out', gen) /\ Under(out', "ts")
    BY <1>1, <1>6, <1>8, <2>1, MediaIs
  <2>4. audio' \in Audio /\ FramesFit(audio')
    BY <1>4, <2>1, FrameIs
  <2>5. Download'
    BY <1>1, <1>3, <2>2, StillDownloads
  <2> HIDE DEF m
  <2>6. Works(pipe', m, "load") /\ ~pipe.initSent
    BY <1>4, <1>7, <1>8, <2>2 DEF Works
  <2>7. AnnouncedIn(pipe', out')
    BY <2>2, <2>3, <2>6 DEF AnnouncedIn
  <2> QED BY <1>1, <1>5, <2>2, <2>3, <2>4, <2>5, <2>6, <2>7, StepOfRun
<1>9. CASE ~ts
  <2>1. UNCHANGED <<out, audio>>
        /\ pipe' = IF Kind(m) = "mp4" THEN [pipe EXCEPT !.fmp4 = TRUE, !.chunks = TRUE] ELSE pipe
    BY <1>9 DEF ChunkArrives
  <2>2. /\ pipe' \in Pipe /\ pipe'.run = r /\ pipe'.told = pipe.told
        /\ pipe'.fmp4 = (pipe.fmp4 \/ Kind(m) = "mp4")
        /\ pipe'.initSent = pipe.initSent /\ pipe'.lastInit = pipe.lastInit /\ pipe'.mode = pipe.mode
        /\ pipe'.items = pipe.items /\ pipe'.chunks = (pipe.chunks \/ Kind(m) = "mp4")
        /\ pipe'.paused = pipe.paused
    <3>1. CASE Kind(m) = "mp4"
      <4> HIDE DEF m
      <4> QED BY <1>1, <1>4, <2>1, <3>1 DEF Pipe
    <3>2. CASE Kind(m) # "mp4"
      <4> HIDE DEF m
      <4> QED BY <1>1, <1>4, <2>1, <3>2 DEF Pipe
    <3> QED BY <3>1, <3>2
  <2>3. Download'
    BY <1>1, <1>3, <2>2, StillDownloads
  <2> HIDE DEF m
  <2>4. Works(pipe', m, "load")
    BY <1>4, <1>7, <2>2 DEF Works
  <2>5. AnnouncedIn(pipe', out')
    BY <1>4, <2>1, <2>2 DEF AnnouncedIn
  <2> QED BY <1>1, <1>4, <1>5, <2>1, <2>2, <2>3, <2>4, <2>5, StepOfRun
<1> QED BY <1>8, <1>9

LEMMA FailureKeeps ==
  ASSUME Rest, NEW r \in DOMAIN runs, NEW q, LoadFails(r, q) \/ \E n : Unsupported(r, q, n) PROVE Rest'
<1>1. /\ r = pipe.run /\ UNCHANGED <<gen, pipe, audio>> /\ Fail(q)
      /\ runs' = To(r, "done") /\ out' = Post(r, "error", runs[r].meta.seq, NoInit)
  BY DEF LoadFails, Unsupported, Loading
<1>2. Download'
  BY <1>1, NoRequests DEF Fail, Destroy
<1>3. runs[r].meta.seq \in Nat
  BY <1>1, CurrentRun, MetaIs DEF Run
<1> QED BY <1>1, <1>2, <1>3, EndsKeep

\* An fMP4 segment is under the init segment its playlist gives it or it carries.
LEMMA LoadDoneKeeps ==
  ASSUME Rest, NEW r \in DOMAIN runs, NEW q, LoadDone(r, q) PROVE Rest'
<1> DEFINE m     == runs[r].meta
           init  == IF m.init = NoInit THEN "own" ELSE m.init
           fmp4  == pipe.fmp4 /\ pipe.chunks
           known == pipe.initSent \/ m.init = NoInit
           a == [gen |-> gen, load |-> runs[r].load, kind |-> "init", seq |-> m.seq, init |-> init]
           b == [gen |-> gen, load |-> runs[r].load, kind |-> "media", seq |-> m.seq, init |-> init]
           c == [gen |-> gen, load |-> runs[r].load, kind |-> "error", seq |-> m.seq, init |-> NoInit]
           sent == pipe.initSent \/ (fmp4 /\ known)
<1>1. /\ r = pipe.run /\ runs[r].pc = "load" /\ UNCHANGED gen /\ Complete(q)
      /\ runs' = To(r, "top") /\ (audio' = audio \/ ResetAudio)
  BY DEF LoadDone, Loading
<1>2. /\ out' = out \o (IF ~fmp4 THEN <<>> ELSE IF pipe.initSent THEN <<b>>
                        ELSE IF known THEN <<a, b>> ELSE <<c>>)
      /\ pipe' = [pipe EXCEPT !.chunks = FALSE, !.initSent = sent]
  BY DEF LoadDone
<1>3. Download'
  BY <1>1, NoRequests DEF Complete, Destroy
<1>4. /\ runs \in Seq(Run) /\ pipe \in Pipe /\ audio \in Audio /\ FramesFit(audio)
      /\ Fits(out, gen) /\ AnnouncedIn(pipe, out) /\ Works(pipe, m, "load") /\ runs[r] \in Run
      /\ runs[r].load = gen /\ gen \in Nat /\ out \in Seq(Message)
  BY <1>1, CurrentRun DEF Fits
<1>5. m \in Segment \cup Given
  BY <1>4 DEF Run
<1>6. m.seq \in Nat /\ m.init \in Inits /\ init \in Inits /\ NoInit \in Inits
  BY <1>5, MetaIs DEF Inits
<1>7. /\ a \in Message /\ a.gen = gen /\ a.load = gen /\ a.kind = "init" /\ a.init = init
      /\ b \in Message /\ b.gen = gen /\ b.load = gen /\ b.kind = "media" /\ b.init = init
  BY <1>4, <1>6 DEF Message
<1>8. audio' \in Audio /\ FramesFit(audio')
  BY <1>1, <1>4, ResetAudioIs
<1>9. MovedTo(runs', r, "top", m)
  BY <1>1, <1>4, ToIs DEF Point
<1>10. sent \in BOOLEAN
  BY <1>4 DEF Pipe
<1> HIDE DEF a, b, c, sent
<1>11. /\ pipe' \in Pipe /\ pipe'.run = r /\ pipe'.told = pipe.told /\ pipe'.fmp4 = pipe.fmp4
       /\ pipe'.initSent = sent /\ pipe'.lastInit = pipe.lastInit /\ pipe'.mode = pipe.mode
       /\ pipe'.items = pipe.items /\ ~pipe'.chunks
  BY <1>1, <1>2, <1>4, <1>10 DEF Pipe
<1>12. pipe.mode # "hls" => m \in Given
  BY <1>4 DEF Works
<1>13. fmp4 => /\ Kind(m) = "mp4"
               /\ m.init # NoInit => pipe.lastInit = m.init /\ pipe.initSent
               /\ m.init = NoInit => pipe.lastInit = NoInit
  <2> SUFFICES ASSUME fmp4
               PROVE  /\ Kind(m) = "mp4"
                      /\ m.init # NoInit => pipe.lastInit = m.init /\ pipe.initSent
                      /\ m.init = NoInit => pipe.lastInit = NoInit
    OBVIOUS
  <2>1. Kind(m) = "mp4"
    BY <1>4 DEF Works
  <2>2. m.init = NoInit => pipe.mode # "hls"
    <3>1. pipe.mode = "hls" => m \in Segment
      BY <1>4 DEF Works
    <3> QED BY <2>1, <3>1, KindOfSegment
  <2> QED BY <1>4, <2>1, <2>2 DEF Works
<1>14. pipe.mode = "live" => Kind(m) = pipe.items[1]
  BY <1>4, <1>5, KindOfGiven DEF Works
<1> HIDE DEF m
<1>15. Works(pipe', m, "top")
  BY <1>4, <1>11, <1>13, <1>14 DEF Works, sent
<1>16. Fits(out', gen) /\ AnnouncedIn(pipe', out')
  <2>1. CASE ~fmp4
    <3>1. out' = out
      BY <1>2, <1>4, <2>1
    <3>2. sent = pipe.initSent
      BY <1>4, <2>1 DEF sent, Pipe
    <3> QED BY <1>4, <1>11, <3>1, <3>2 DEF AnnouncedIn
  <2>2. CASE fmp4 /\ pipe.initSent
    <3>1. out' = Append(out, b)
      BY <1>2, <1>4, <2>2
    <3>2. Under(out, init) /\ init = IF pipe.lastInit = NoInit THEN "own" ELSE pipe.lastInit
      BY <1>4, <1>13, <2>2 DEF AnnouncedIn
    <3>3. Fits(Append(out, b), gen) /\ Under(Append(out, b), init)
      <4> HIDE DEF init
      <4> QED BY <1>4, <1>7, <3>2, FitsAppend, UnderAppend
    <3> QED BY <1>11, <2>2, <3>1, <3>2, <3>3 DEF AnnouncedIn
  <2>3. CASE fmp4 /\ ~pipe.initSent
    <3>1. m.init = NoInit /\ pipe.lastInit = NoInit /\ known /\ init = "own"
      BY <1>13, <2>3
    <3>2. out' = out \o <<a, b>>
      BY <1>2, <2>3, <3>1
    <3> HIDE DEF init, known
    <3>3. out' = Append(Append(out, a), b) /\ Append(out, a) \in Seq(Message)
      BY <1>4, <1>7, <3>2, ConcatTwo
    <3>4. Fits(Append(out, a), gen) /\ Under(Append(out, a), init)
      BY <1>4, <1>7, FitsAppend, UnderAppend
    <3>5. Fits(out', gen) /\ Under(out', init)
      BY <1>4, <1>7, <3>3, <3>4, FitsAppend, UnderAppend
    <3> QED BY <1>11, <2>3, <3>1, <3>5 DEF AnnouncedIn
  <2> QED BY <2>1, <2>2, <2>3
<1> QED BY <1>1, <1>3, <1>8, <1>9, <1>11, <1>15, <1>16, StepOfRun

\* A new run takes over: it is of the last load, and nothing is downloaded.
LEMMA TakesOver ==
  ASSUME Rest, NEW g \in Nat, gen' = g, NEW rs, SameLoads(rs), runs' = Append(rs, NewRun(g)),
         pipe' \in Pipe, pipe'.run = Len(runs) + 1, Works(pipe', Item("ts", 0), "top"),
         audio' \in Audio,
         \A i \in DOMAIN audio'.frames : audio'.frames[i].current =>
           audio'.frames[i].run \in DOMAIN runs /\ runs[audio'.frames[i].run].load = g,
         Fits(out', g), AnnouncedIn(pipe', out'), Destroy
  PROVE  Rest'
<1>1. NewRun(g) \in Run /\ NewRun(g).load = g /\ NewRun(g).pc = "top" /\ NewRun(g).meta = Item("ts", 0)
  BY NewRunIs DEF NewRun
<1>2. rs \in Seq(Run) /\ Len(rs) = Len(runs) /\ runs \in Seq(Run)
      /\ \A k \in DOMAIN runs : rs[k].load = runs[k].load
  BY DEF SameLoads, Rest, WorkerTypeOK
<1>3. /\ runs' \in Seq(Run) /\ Len(runs') = Len(runs) + 1 /\ DOMAIN runs' = 1..Len(runs) + 1
      /\ runs'[Len(runs) + 1] = NewRun(g) /\ Len(runs) \in Nat /\ DOMAIN runs = 1..Len(runs)
      /\ \A k \in 1..Len(runs) : runs'[k] = rs[k]
  BY <1>1, <1>2
<1>4. WorkerTypeOK'
  BY <1>3 DEF WorkerTypeOK, Fits
<1>5. Generations'
  <2>1. \A i \in DOMAIN audio'.frames : audio'.frames[i].current =>
          audio'.frames[i].run \in DOMAIN runs' /\ runs'[audio'.frames[i].run].load = g
    BY <1>2, <1>3
  <2>2. pipe'.run \in DOMAIN runs' /\ runs'[pipe'.run].load = g
    BY <1>1, <1>3
  <2> QED BY <2>1, <2>2 DEF Generations, Fits
<1>6. AtWork'
  BY <1>1, <1>3 DEF AtWork
<1>7. Announced' /\ MessagesBelong'
  BY FitsBelong DEF Announced, AnnouncedIn
<1> QED BY <1>4, <1>5, <1>6, <1>7, NoRequests DEF Rest

LEMMA DetectHlsKeeps ==
  ASSUME Rest, LoaderInv, NEW r \in DOMAIN runs, NEW q, DetectHls(r, q) PROVE Rest'
<1> DEFINE m == runs[r].meta
<1>1. /\ r = pipe.run /\ runs[r].pc = "load" /\ Current(q) /\ q.stage = "text" /\ Destroy
      /\ runs' = Append(To(r, "done"), NewRun(runs[r].load)) /\ UNCHANGED <<gen, out, audio>>
      /\ pipe' = [pipe EXCEPT !.run = Len(runs) + 1, !.mode = "hls"]
  BY DEF DetectHls, Loading, Silent
<1>2. /\ runs \in Seq(Run) /\ pipe \in Pipe /\ audio \in Audio /\ FramesFit(audio)
      /\ Fits(out, gen) /\ AnnouncedIn(pipe, out) /\ Works(pipe, m, "load") /\ runs[r] \in Run
      /\ runs[r].load = gen /\ gen \in Nat
  BY <1>1, CurrentRun
<1>3. m \in Segment \cup Given /\ Kind(m) = "list"
  BY <1>1, <1>2 DEF Current, Rest, Download, Run
<1>4. pipe.mode = "live" => pipe.items[1] = "list"
  BY <1>2, <1>3, KindOfGiven DEF Works
<1>5. SameLoads(To(r, "done"))
  BY <1>2, ToDone DEF MovedTo, SameLoads
<1>6. /\ pipe' \in Pipe /\ pipe'.run = Len(runs) + 1 /\ pipe'.told = pipe.told
      /\ pipe'.fmp4 = pipe.fmp4 /\ pipe'.initSent = pipe.initSent
      /\ pipe'.lastInit = pipe.lastInit /\ pipe'.mode = "hls" /\ pipe'.chunks = pipe.chunks
  <2>1. Len(runs) + 1 \in Nat
    BY <1>2
  <2> DEFINE n == Len(runs) + 1
  <2>2. n \in Nat /\ pipe' = [pipe EXCEPT !.run = n, !.mode = "hls"]
    BY <1>1, <2>1
  <2> HIDE DEF n
  <2>3. pipe'.run = n
    BY <1>2, <2>2 DEF Pipe
  <2>4. /\ pipe' \in Pipe /\ pipe'.told = pipe.told
        /\ pipe'.fmp4 = pipe.fmp4 /\ pipe'.initSent = pipe.initSent
        /\ pipe'.lastInit = pipe.lastInit /\ pipe'.mode = "hls" /\ pipe'.chunks = pipe.chunks
    BY <1>2, <2>2 DEF Pipe
  <2> QED BY <2>3, <2>4 DEF n
<1> HIDE DEF m
<1>7. Works(pipe', Item("ts", 0), "top")
  BY <1>2, <1>3, <1>4, <1>6 DEF Works
<1>8. AnnouncedIn(pipe', out')
  BY <1>1, <1>2, <1>6 DEF AnnouncedIn
<1>9. audio' \in Audio /\ Fits(out', gen)
  BY <1>1, <1>2
<1>10. \A i \in DOMAIN audio'.frames : audio'.frames[i].current =>
         audio'.frames[i].run \in DOMAIN runs /\ runs[audio'.frames[i].run].load = gen
  BY <1>1, <1>2 DEF FramesFit
<1> QED BY <1>1, <1>2, <1>5, <1>6, <1>7, <1>8, <1>9, <1>10, TakesOver

-----------------------------------------------------------------------------
(* The decoder                                                             *)

\* The least element of a set of natural numbers.
LEMMA LeastIs ==
  ASSUME NEW S \in SUBSET Nat, S # {}
  PROVE  Min(S) \in S /\ \A y \in S : Min(S) <= y
<1>1. PICK x \in S : \A y \in S : ~(<<y, x>> \in OpToRel(<, Nat))
  BY NatLessThanWellFounded, WFMin
<1>2. ASSUME NEW y \in S PROVE x <= y
  <2>1. ~(y < x)
    BY <1>1 DEF OpToRel
  <2> QED BY <2>1
<1> QED BY <1>2 DEF Min

\* Induction for a set of natural numbers.
LEMMA AllOfNat ==
  ASSUME NEW S \in SUBSET Nat, 0 \in S, \A n \in S : n + 1 \in S
  PROVE  S = Nat
<1> SUFFICES ASSUME Nat \ S # {} PROVE FALSE
  OBVIOUS
<1> DEFINE x == Min(Nat \ S)
<1>1. x \in Nat \ S /\ \A y \in Nat \ S : x <= y
  BY LeastIs
<1> HIDE DEF x
<1>2. x # 0 /\ x - 1 \in Nat
  BY <1>1
<1>3. x - 1 \in S
  BY <1>1, <1>2
<1> QED BY <1>1, <1>2, <1>3

\* The message of the n-th frame, and what is posted after it.
Pcm(n)     == [gen |-> gen, load |-> runs[audio.frames[n].run].load,
               kind |-> "pcm", seq |-> 0, init |-> NoInit]
After(q, n) == IF ~audio.frames[n].current THEN q ELSE Append(q, Pcm(n))
Posts(f, m) == f = [n \in 0..m |-> IF n = 0 THEN out ELSE After(f[n - 1], n)]

LEMMA PostsExist == ASSUME NEW n \in Nat PROVE \E f : Posts(f, n)
<1> DEFINE Good == {m \in Nat : \E f : Posts(f, m)}
           Then(q, k) == After(q, k)
<1>1. \A f, m : Posts(f, m) <=> f = [k \in 0..m |-> IF k = 0 THEN out ELSE Then(f[k-1], k)]
  BY DEF Posts
<1> HIDE DEF Then
<1>2. 0 \in Good
  <2> DEFINE f == [k \in 0..0 |-> out]
  <2>1. f = [k \in 0..0 |-> IF k = 0 THEN out ELSE Then(f[k-1], k)]
    OBVIOUS
  <2> HIDE DEF f
  <2> QED BY <1>1, <2>1
<1>3. ASSUME NEW m \in Good PROVE m + 1 \in Good
  <2>1. PICK f : f = [k \in 0..m |-> IF k = 0 THEN out ELSE Then(f[k-1], k)]
    BY <1>1
  <2>2. m \in Nat
    OBVIOUS
  <2> DEFINE g == [k \in 0..m+1 |-> IF k = m + 1 THEN Then(f[m], m + 1) ELSE f[k]]
  <2>3. (\A k \in 0..m : g[k] = f[k]) /\ g[m+1] = Then(f[m], m + 1)
    BY <2>2
  <2>4. \A k \in 0..m : f[k] = IF k = 0 THEN out ELSE Then(f[k-1], k)
    BY <2>1
  <2>5. ASSUME NEW k \in 0..m+1 PROVE g[k] = IF k = 0 THEN out ELSE Then(g[k-1], k)
    <3> HIDE DEF g
    <3>1. CASE k = m + 1
      <4>1. k - 1 = m /\ k # 0 /\ m \in 0..m
        BY <2>2, <3>1
      <4> QED BY <2>3, <3>1, <4>1
    <3>2. CASE k # m + 1 /\ k # 0
      <4>1. k \in 0..m /\ k - 1 \in 0..m
        BY <2>2, <3>2
      <4> QED BY <2>3, <2>4, <3>2, <4>1
    <3>3. CASE k = 0
      <4>1. k \in 0..m
        BY <2>2, <3>3
      <4> QED BY <2>3, <2>4, <3>3, <4>1
    <3> QED BY <3>1, <3>2, <3>3
  <2>6. g = [k \in 0..m+1 |-> g[k]]
    OBVIOUS
  <2> HIDE DEF g
  <2>7. g = [k \in 0..m+1 |-> IF k = 0 THEN out ELSE Then(g[k-1], k)]
    BY <2>5, <2>6
  <2>8. Posts(g, m + 1)
    BY <1>1, <2>7
  <2> QED BY <2>2, <2>8
<1>4. Good \in SUBSET Nat
  OBVIOUS
<1>5. Good = Nat
  <2> HIDE DEF Good
  <2> QED BY <1>2, <1>3, <1>4, AllOfNat
<1> QED BY <1>5

\* What holds of the messages, and is kept by one more frame, holds of what is posted.
LEMMA DecodedIs ==
  ASSUME audio \in Audio, NEW Q, out \in Q,
         \A q \in Q : \A n \in DOMAIN audio.frames : After(q, n) \in Q
  PROVE  Decoded \in Q
<1> DEFINE len == Len(audio.frames)
           f == CHOOSE g : Posts(g, len)
<1>1. Decoded = f[len]
  BY DEF Decoded, Posts, After, Pcm
<1>2. len \in Nat /\ DOMAIN audio.frames = 1..len
  BY DEF Audio
<1> HIDE DEF len
<1>3. Posts(f, len)
  BY <1>2, PostsExist
<1> HIDE DEF f
<1>4. f = [n \in 0..len |-> IF n = 0 THEN out ELSE After(f[n - 1], n)]
  BY <1>3 DEF Posts
<1> DEFINE Good == {n \in Nat : n <= len => f[n] \in Q}
<1>5. 0 \in Good
  BY <1>2, <1>4
<1>6. ASSUME NEW n \in Good PROVE n + 1 \in Good
  <2>1. ASSUME n + 1 <= len PROVE f[n + 1] \in Q
    <3>1. n \in Nat /\ n + 1 \in 0..len /\ n + 1 \in 1..len /\ n + 1 # 0 /\ (n + 1) - 1 = n /\ n <= len
      BY <1>2, <2>1
    <3>2. f[n + 1] = After(f[(n + 1) - 1], n + 1)
      BY <1>4, <3>1
    <3>3. f[n + 1] = After(f[n], n + 1)
      BY <3>1, <3>2
    <3>4. f[n] \in Q
      BY <3>1
    <3> QED BY <1>2, <3>1, <3>3, <3>4
  <2> QED BY <2>1
<1>7. Good = Nat
  <2>1. Good \in SUBSET Nat
    OBVIOUS
  <2> HIDE DEF Good
  <2> QED BY <1>5, <1>6, <2>1, AllOfNat
<1> QED BY <1>1, <1>2, <1>7

LEMMA DecoderKeeps == ASSUME Rest, DecoderReady PROVE Rest'
<1>1. /\ gen \in Nat /\ pipe \in Pipe /\ runs \in Seq(Run) /\ audio \in Audio
      /\ FramesFit(audio) /\ Fits(out, gen) /\ AnnouncedIn(pipe, out) /\ out \in Seq(Message)
  BY FitsOut DEF Rest, WorkerTypeOK, Generations, FramesFit, Announced, AnnouncedIn
<1>2. UNCHANGED <<gen, pipe, runs, ldr, reqs, fed>> /\ out' = Decoded
      /\ audio' = [audio EXCEPT !.decoder = "ready", !.frames = <<>>]
  BY DEF DecoderReady, ldrVars
<1>3. audio' \in Audio /\ audio'.frames = <<>>
  <2> DEFINE none == <<>>
             F == Seq([current : BOOLEAN, run : Nat])
  <2>1. none \in F
    OBVIOUS
  <2>2. audio' = [audio EXCEPT !.decoder = "ready", !.frames = none]
    BY <1>2
  <2> HIDE DEF none, F
  <2>3. audio' \in [decoder : {"none", "loading", "ready"}, frames : F] /\ audio'.frames = none
    <3>1. audio \in [decoder : {"none", "loading", "ready"}, frames : F]
      BY <1>1 DEF Audio, F
    <3> QED BY <2>1, <2>2, <3>1
  <2> QED BY <2>3 DEF Audio, F, none
<1> DEFINE Q == {q \in Seq(Message) : Fits(q, gen) /\ AnnouncedIn(pipe, q)}
<1>4. ASSUME NEW q \in Q, NEW n \in DOMAIN audio.frames PROVE After(q, n) \in Q
  <2>1. q \in Seq(Message) /\ Fits(q, gen) /\ AnnouncedIn(pipe, q)
    OBVIOUS
  <2>2. CASE ~audio.frames[n].current
    BY <2>2 DEF After
  <2>3. CASE audio.frames[n].current
    <3> DEFINE e == Pcm(n)
    <3>1. runs[audio.frames[n].run].load = gen
      BY <1>1, <2>3 DEF FramesFit
    <3>2. e \in Message /\ e.gen = gen /\ e.load = gen /\ e.kind = "pcm"
      BY <1>1, <3>1 DEF Pcm, Message, Inits
    <3>3. After(q, n) = Append(q, e)
      BY <2>3 DEF After
    <3> HIDE DEF e
    <3>4. Append(q, e) \in Seq(Message)
      BY <2>1, <3>2
    <3>5. Fits(Append(q, e), gen)
      BY <1>1, <2>1, <3>2, FitsAppend
    <3>6. AnnouncedIn(pipe, Append(q, e))
      BY <2>1, <3>2, UnderAppend DEF AnnouncedIn
    <3> QED BY <3>3, <3>4, <3>5, <3>6
  <2> QED BY <2>2, <2>3
<1>5. Decoded \in Q
  <2>1. out \in Q
    BY <1>1
  <2> HIDE DEF Q
  <2> QED BY <1>1, <1>4, <2>1, DecodedIs
<1>6. Fits(out', gen') /\ AnnouncedIn(pipe, out') /\ out' \in Seq(Message)
  BY <1>2, <1>5
<1>7. WorkerTypeOK'
  BY <1>1, <1>2, <1>3, <1>6 DEF WorkerTypeOK
<1>8. Generations' /\ Announced' /\ MessagesBelong'
  <2>1. MessagesBelong' /\ \A i \in DOMAIN out' : out'[i].gen = gen' /\ out'[i].load = gen'
    BY <1>6, FitsBelong
  <2>2. Generations'
    BY <1>2, <1>3, <2>1 DEF Rest, Generations
  <2>3. Announced'
    BY <1>2, <1>6 DEF Announced, AnnouncedIn
  <2> QED BY <2>1, <2>2, <2>3
<1>9. AtWork' /\ Download'
  BY <1>2 DEF Rest, AtWork, Download
<1> QED BY <1>7, <1>8, <1>9 DEF Rest

-----------------------------------------------------------------------------
(* Commands                                                                *)

LEMMA LoadKeeps == ASSUME Rest, NEW l \in Loads, Load(l) PROVE Rest'
<1>1. /\ gen \in Nat /\ pipe \in Pipe /\ runs \in Seq(Run) /\ audio \in Audio
  BY DEF Rest, WorkerTypeOK
<1>2. /\ gen' = gen + 1 /\ out' = <<>> /\ runs' = Append(Cancelled(Released), NewRun(gen + 1))
      /\ Destroy /\ ResetAudio
      /\ pipe' = [Fresh EXCEPT !.run = Len(runs) + 1, !.mode = l.mode,
                               !.mp2 = l.mp2, !.items = l.items]
  BY DEF Load
<1>3. /\ l.mode \in {"live", "static"} /\ l.mp2 \in BOOLEAN /\ l.items \in Seq(Kinds)
      /\ (l.mode = "live" => l.items # <<>>)
  BY WorkerAssumption
<1>4. /\ pipe' \in Pipe /\ pipe'.run = Len(runs) + 1 /\ ~pipe'.told /\ ~pipe'.fmp4 /\ ~pipe'.initSent
      /\ pipe'.lastInit = NoInit /\ pipe'.mode = l.mode /\ ~pipe'.chunks /\ pipe'.items = l.items
  <2> DEFINE n == Len(runs) + 1
  <2>1. n \in Nat /\ NoInit \in Inits
    BY <1>1 DEF Inits
  <2>2. pipe' = [Fresh EXCEPT !.run = n, !.mode = l.mode, !.mp2 = l.mp2, !.items = l.items]
    BY <1>2
  <2> HIDE DEF n
  <2>3. pipe' \in Pipe
    BY <1>3, <2>1, <2>2 DEF Fresh, Pipe
  <2>4. /\ pipe'.run = n /\ ~pipe'.told /\ ~pipe'.fmp4 /\ ~pipe'.initSent
        /\ pipe'.lastInit = NoInit /\ pipe'.mode = l.mode /\ ~pipe'.chunks /\ pipe'.items = l.items
    BY <2>2 DEF Fresh
  <2> QED BY <2>3, <2>4 DEF n
<1>5. SameLoads(Cancelled(Released))
  BY <1>1, ReleasedIs, CancelledIs
<1>6. Works(pipe', Item("ts", 0), "top")
  BY <1>3, <1>4 DEF Works
<1>7. audio' \in Audio /\ \A i \in DOMAIN audio'.frames : ~audio'.frames[i].current
  <2> DEFINE f == audio.frames
             F == [current : BOOLEAN, run : Nat]
             g == [i \in DOMAIN f |-> [f[i] EXCEPT !.current = FALSE]]
  <2>1. audio' = [audio EXCEPT !.frames = g] /\ f \in Seq(F)
    BY <1>1, <1>2 DEF ResetAudio, Audio
  <2>2. \A i \in DOMAIN f : f[i] \in F
    <3> HIDE DEF f, F
    <3> QED BY <2>1
  <2>3. \A i \in DOMAIN g : ~g[i].current
    <3> HIDE DEF f
    <3> QED BY <2>2
  <2> HIDE DEF g
  <2>4. audio'.frames = g
    BY <1>1, <2>1 DEF Audio
  <2> QED BY <1>1, <1>2, <2>3, <2>4, ResetAudioIs
<1>8. Fits(out', gen + 1) /\ AnnouncedIn(pipe', out') /\ gen + 1 \in Nat
  BY <1>1, <1>2, <1>4, EmptyFits DEF AnnouncedIn
<1> QED BY <1>2, <1>4, <1>5, <1>6, <1>7, <1>8, TakesOver

\* A command that leaves the current run where it is.
LEMMA CommandKeeps ==
  ASSUME Rest, UNCHANGED <<gen, out>>, SameLoads(runs'),
         pipe' \in Pipe, audio' \in Audio, FramesFit(audio'), AnnouncedIn(pipe', out), Download',
         pipe'.run # 0 => /\ pipe'.run = pipe.run
                          /\ Works(pipe', runs[pipe.run].meta, runs[pipe.run].pc)
                          /\ runs'[pipe.run].meta = runs[pipe.run].meta
                          /\ runs'[pipe.run].pc = runs[pipe.run].pc
  PROVE  Rest'
<1>1. /\ gen \in Nat /\ runs \in Seq(Run) /\ out \in Seq(Message) /\ Fits(out', gen')
      /\ (pipe.run # 0 => pipe.run \in DOMAIN runs /\ runs[pipe.run].load = gen)
  BY FitsOut DEF Rest, WorkerTypeOK, Generations
<1>2. runs' \in Seq(Run) /\ DOMAIN runs' = DOMAIN runs
      /\ \A k \in DOMAIN runs : runs'[k].load = runs[k].load
  BY <1>1 DEF SameLoads
<1>3. WorkerTypeOK'
  BY <1>1, <1>2 DEF WorkerTypeOK
<1>4. Generations' /\ MessagesBelong'
  <2>1. MessagesBelong' /\ \A i \in DOMAIN out' : out'[i].gen = gen' /\ out'[i].load = gen'
    BY <1>1, FitsBelong
  <2> QED BY <1>1, <1>2, <2>1 DEF Generations, FramesFit
<1>5. AtWork' /\ Announced'
  BY DEF AtWork, Announced, AnnouncedIn
<1> QED BY <1>3, <1>4, <1>5 DEF Rest

LEMMA PausesKeep == ASSUME Rest, LoaderInv, Pause PROVE Rest'
<1>1. /\ gen \in Nat /\ pipe \in Pipe /\ runs \in Seq(Run) /\ audio \in Audio
      /\ FramesFit(audio) /\ AnnouncedIn(pipe, out)
      /\ (pipe.run # 0 => Works(pipe, runs[pipe.run].meta, runs[pipe.run].pc))
  BY DEF Rest, WorkerTypeOK, Generations, FramesFit, Announced, AnnouncedIn, AtWork
<1>2. /\ UNCHANGED <<gen, runs, audio, out>> /\ pipe' = [pipe EXCEPT !.paused = TRUE]
      /\ IF pipe.mode = "live" THEN PauseLoader ELSE UNCHANGED ldrVars
  BY DEF Pause
<1>3. /\ pipe' \in Pipe /\ pipe'.run = pipe.run /\ pipe'.told = pipe.told /\ pipe'.fmp4 = pipe.fmp4
      /\ pipe'.initSent = pipe.initSent /\ pipe'.lastInit = pipe.lastInit /\ pipe'.mode = pipe.mode
      /\ pipe'.items = pipe.items /\ pipe'.chunks = pipe.chunks
  BY <1>1, <1>2 DEF Pipe
<1>4. pipe.run # 0 => Works(pipe', runs[pipe.run].meta, runs[pipe.run].pc)
  BY <1>1, <1>3 DEF Works
<1>5. AnnouncedIn(pipe', out)
  BY <1>1, <1>3 DEF AnnouncedIn
<1>6. SameLoads(runs') /\ FramesFit(audio')
  BY <1>1, <1>2 DEF SameLoads, FramesFit
<1>7. Download'
  <2>1. CASE pipe.mode = "live" /\ IsWorking
    <3>1. reqs' = Aborted /\ ldr' = [ldr EXCEPT !.paused = TRUE, !.used = 0, !.start = 0]
      BY <1>2, <2>1 DEF PauseLoader
    <3>2. \A q \in reqs' : q.aborted
      BY <3>1, AbortedIs
    <3>3. ldr'.up = ldr.up
      BY <3>1 DEF LoaderInv, Loader
    <3>4. reqs' # {} => reqs # {}
      BY <3>1 DEF Aborted
    <3> QED BY <1>2, <1>3, <3>2, <3>3, <3>4 DEF Rest, Download
  <2>2. CASE pipe.mode = "live" /\ ~IsWorking
    <3>1. UNCHANGED ldrVars
      BY <1>2, <2>2 DEF PauseLoader
    <3>2. \A q \in reqs : ~q.aborted => q.stage = "text"
      BY <2>2 DEF LoaderInv, IsWorking
    <3> QED BY <1>2, <1>3, <3>1, <3>2 DEF Rest, Download, ldrVars
  <2>3. CASE pipe.mode # "live"
    BY <1>2, <1>3, <2>3 DEF Rest, Download, ldrVars
  <2> QED BY <2>1, <2>2, <2>3
<1> QED BY <1>1, <1>2, <1>3, <1>4, <1>5, <1>6, <1>7, CommandKeeps

LEMMA ResumesKeep == ASSUME Rest, LoaderInv, Resume PROVE Rest'
<1>1. /\ gen \in Nat /\ pipe \in Pipe /\ runs \in Seq(Run) /\ audio \in Audio
      /\ FramesFit(audio) /\ AnnouncedIn(pipe, out)
      /\ (pipe.run # 0 => Works(pipe, runs[pipe.run].meta, runs[pipe.run].pc))
      /\ (pipe.run # 0 => pipe.run \in DOMAIN runs)
  BY DEF Rest, WorkerTypeOK, Generations, FramesFit, Announced, AnnouncedIn, AtWork
<1>2. UNCHANGED <<gen, out>> /\ runs' = Released
  BY DEF Resume
<1>3. SameLoads(runs') /\ \A k \in DOMAIN runs : runs'[k].pc = runs[k].pc /\ runs'[k].meta = runs[k].meta
  BY <1>1, <1>2, ReleasedIs
<1>4. CASE pipe.mode = "live" /\ Restarts
  <2>1. /\ pipe' = [pipe EXCEPT !.paused = FALSE, !.gate = 0, !.fmp4 = FALSE, !.chunks = FALSE]
        /\ ResumeLoader /\ ResetAudio
    BY <1>4 DEF Resume
  <2>2. /\ pipe' \in Pipe /\ pipe'.run = pipe.run /\ pipe'.told = pipe.told /\ ~pipe'.fmp4
        /\ pipe'.initSent = pipe.initSent /\ pipe'.lastInit = pipe.lastInit /\ pipe'.mode = pipe.mode
        /\ pipe'.items = pipe.items /\ ~pipe'.chunks /\ ~pipe'.paused
    <3> DEFINE y == [pipe EXCEPT !.paused = FALSE, !.gate = 0]
               z == [y EXCEPT !.fmp4 = FALSE, !.chunks = FALSE]
    <3>1. pipe' = z
      BY <2>1
    <3>2. /\ y \in Pipe /\ y.run = pipe.run /\ y.told = pipe.told
          /\ y.initSent = pipe.initSent /\ y.lastInit = pipe.lastInit /\ y.mode = pipe.mode
          /\ y.items = pipe.items /\ ~y.paused
      BY <1>1 DEF Pipe
    <3> HIDE DEF y
    <3>3. /\ z \in Pipe /\ z.run = y.run /\ z.told = y.told /\ ~z.fmp4 /\ ~z.chunks
          /\ z.initSent = y.initSent /\ z.lastInit = y.lastInit /\ z.mode = y.mode
          /\ z.items = y.items /\ ~z.paused
      BY <3>2 DEF Pipe
    <3> HIDE DEF z
    <3> QED BY <3>1, <3>2, <3>3
  <2>3. pipe.run # 0 /\ runs[pipe.run].pc = "load"
    BY <1>4 DEF Restarts, Rest, Download
  <2>4. Works(pipe', runs[pipe.run].meta, runs[pipe.run].pc)
    BY <1>1, <1>4, <2>2, <2>3 DEF Works
  <2>5. AnnouncedIn(pipe', out)
    <3>1. pipe'.told => pipe.told /\ ~pipe.fmp4
      BY <1>1, <1>4, <2>2, <2>3 DEF Works
    <3> QED BY <1>1, <2>2, <3>1 DEF AnnouncedIn
  <2>6. Download'
    <3> DEFINE old == IF ldr.status \in {"connecting", "buffering"} THEN Aborted ELSE reqs
               q == NewRequest(old)
    <3>1. reqs' = old \cup {q} /\ q.stage = "connecting"
      <4>1. reqs' = old \cup {q}
        BY <1>4, <2>1, Zenon DEF ResumeLoader
      <4>2. q.stage = "connecting"
        BY DEF NewRequest
      <4> QED BY <4>1, <4>2
    <3> HIDE DEF q
    <3>2. \A z \in reqs : z.aborted
      BY <1>4 DEF Restarts, LoaderInv
    <3>3. \A z \in reqs' : ~z.aborted => z = q
      BY <3>1, <3>2, AbortedIs
    <3> QED BY <1>1, <1>3, <2>2, <2>3, <3>1, <3>3 DEF Download
  <2>7. audio' \in Audio /\ FramesFit(audio')
    BY <1>1, <2>1, ResetAudioIs
  <2> QED BY <1>1, <1>2, <1>3, <2>2, <2>4, <2>5, <2>6, <2>7, CommandKeeps
<1>5. CASE ~(pipe.mode = "live" /\ Restarts)
  <2>1. pipe' = [pipe EXCEPT !.paused = FALSE, !.gate = 0] /\ UNCHANGED <<ldr, reqs, fed, audio>>
    BY <1>5 DEF Resume, ldrVars
  <2>2. /\ pipe' \in Pipe /\ pipe'.run = pipe.run /\ pipe'.told = pipe.told /\ pipe'.fmp4 = pipe.fmp4
        /\ pipe'.initSent = pipe.initSent /\ pipe'.lastInit = pipe.lastInit /\ pipe'.mode = pipe.mode
        /\ pipe'.items = pipe.items /\ pipe'.chunks = pipe.chunks /\ ~pipe'.paused
    BY <1>1, <2>1 DEF Pipe
  <2>3. pipe.run # 0 => Works(pipe', runs[pipe.run].meta, runs[pipe.run].pc)
    BY <1>1, <2>2 DEF Works
  <2>4. AnnouncedIn(pipe', out)
    BY <1>1, <2>2 DEF AnnouncedIn
  <2>5. Download'
    BY <1>1, <1>3, <2>1, <2>2 DEF Rest, Download
  <2>6. audio' \in Audio /\ FramesFit(audio')
    BY <1>1, <2>1
  <2> QED BY <1>1, <1>2, <1>3, <2>2, <2>3, <2>4, <2>5, <2>6, CommandKeeps
<1> QED BY <1>4, <1>5

LEMMA ResetsKeep == ASSUME Rest, Reset PROVE Rest'
<1>1. runs \in Seq(Run)
  BY DEF Rest, WorkerTypeOK
<1>2. /\ UNCHANGED <<gen, out>> /\ pipe' = NoPipe /\ runs' = Cancelled(Released)
      /\ audio' = NoAudio /\ Destroy
  BY DEF Reset
<1>3. pipe' \in Pipe /\ pipe'.run = 0 /\ ~pipe'.told /\ ~pipe'.initSent
  <2>1. NoInit \in Inits /\ <<>> \in Seq(Kinds)
    BY DEF Inits
  <2> QED BY <1>2, <2>1 DEF NoPipe, Fresh, Pipe
<1>4. SameLoads(runs')
  BY <1>1, <1>2, ReleasedIs, CancelledIs
<1>5. audio' \in Audio /\ FramesFit(audio')
  BY <1>2 DEF NoAudio, Audio, FramesFit
<1>6. AnnouncedIn(pipe', out)
  BY <1>3 DEF AnnouncedIn
<1> QED BY <1>2, <1>3, <1>4, <1>5, <1>6, NoRequests, CommandKeeps

-----------------------------------------------------------------------------
(* All steps                                                               *)

\* What the last next() of the source came to.
LEMMA OutcomeStays ==
  ASSUME Outcome,
         \/ Publish \/ Wake \/ FetchMultivariant \/ FetchFails \/ Ask
         \/ \E p \in Answers : FetchMedia(p)
         \/ Renew \/ UNCHANGED hlsVars,
         HlsInv
  PROVE  Outcome'
<1>0. given \in Seq(Segment)
  BY DEF HlsInv, HlsTypeOK
<1>1. ASSUME NEW h, Serve(h) PROVE Outcome'
  <2>1. outcome' = "meta" => \E m : given' = Append(given, m)
    BY <1>1 DEF Serve
  <2>2. \A m : Append(given, m) # <<>>
    BY <1>0
  <2>3. outcome' \in {"meta", "end", "wait"}
    BY <1>1 DEF Serve
  <2> QED BY <2>1, <2>2, <2>3 DEF Outcome
<1>2. CASE Ask
  <2>1. Serve(hls) \/ outcome' = "wait"
    BY <1>2 DEF Ask
  <2> QED BY <1>1, <2>1 DEF Outcome
<1>3. ASSUME NEW p, FetchMedia(p) PROVE Outcome'
  <2>1. \E h : Serve(h)
    BY <1>3 DEF FetchMedia
  <2> QED BY <1>1, <2>1
<1>4. CASE FetchFails \/ Renew
  BY <1>4 DEF FetchFails, Renew, Outcome
<1>5. CASE Publish \/ Wake \/ FetchMultivariant \/ UNCHANGED hlsVars
  BY <1>5 DEF Publish, Wake, FetchMultivariant, hlsVars, Outcome
<1> QED BY <1>2, <1>3, <1>4, <1>5

LEMMA RestStarts == Init => Rest
<1> SUFFICES ASSUME Init PROVE Rest
  OBVIOUS
<1>1. /\ reqs = {} /\ ldr = NoLoader /\ gen = 0 /\ pipe = NoPipe /\ runs = <<>>
      /\ audio = NoAudio /\ out = <<>>
  BY DEF Init
<1>2. pipe \in Pipe /\ pipe.run = 0 /\ ~pipe.told /\ ~pipe.initSent
  <2>1. NoInit \in Inits /\ <<>> \in Seq(Kinds)
    BY DEF Inits
  <2> QED BY <1>1, <2>1 DEF NoPipe, Fresh, Pipe
<1>3. audio \in Audio /\ audio.frames = <<>>
  BY <1>1 DEF NoAudio, Audio
<1>4. WorkerTypeOK
  BY <1>1, <1>2, <1>3 DEF WorkerTypeOK
<1>5. Generations /\ MessagesBelong
  BY <1>1, <1>2, <1>3 DEF Generations, MessagesBelong, OwnGeneration, UnderItsInit
<1>6. AtWork /\ Announced /\ Download
  BY <1>1, <1>2 DEF AtWork, Announced, Download, NoLoader
<1> QED BY <1>4, <1>5, <1>6 DEF Rest

LEMMA RestUnchanged ==
  ASSUME Rest, UNCHANGED wvars, UNCHANGED ldrVars PROVE Rest'
<1>1. UNCHANGED <<gen, pipe, runs, audio, out, ldr, reqs, fed>>
  BY DEF wvars, ldrVars
<1>2. WorkerTypeOK' /\ Generations' /\ AtWork'
  BY <1>1 DEF Rest, WorkerTypeOK, Generations, AtWork
<1>3. Announced' /\ MessagesBelong' /\ Download'
  BY <1>1 DEF Rest, Announced, MessagesBelong, OwnGeneration, UnderItsInit, Download
<1> QED BY <1>2, <1>3 DEF Rest

LEMMA RunKeeps ==
  ASSUME IInv, NEW r \in DOMAIN runs, RunStep(r) \/ Network(r) PROVE Rest'
<1>1. Rest /\ LoaderInv /\ Outcome /\ HlsInv
  BY RestIs
<1>2. CASE RunStep(r)
  BY <1>1, <1>2, LeaveKeeps, HoldKeeps, AskKeeps, AnsweredKeeps, SourceOverKeeps, PrepareKeeps,
     StartInitKeeps, StartLoadKeeps, Zenon DEF RunStep
<1>3. CASE Network(r)
  <2>1. CASE InitResponse(r) \/ InitBody(r) \/ InitFails(r)
    BY <1>1, <2>1, InitResponseKeeps, InitBodyKeeps, InitFailsKeeps
  <2>2. ASSUME NEW q, ResponseArrives(r, q) \/ LoadDone(r, q) \/ LoadFails(r, q) \/ DetectHls(r, q)
        PROVE  Rest'
    BY <1>1, <2>2, ResponseKeeps, LoadDoneKeeps, FailureKeeps, DetectHlsKeeps, Zenon
  <2>3. ASSUME NEW q, NEW n, ChunkArrives(r, q, n) \/ Unsupported(r, q, n)
        PROVE  Rest'
    BY <1>1, <2>3, ChunkArrivesKeeps, FailureKeeps, Zenon
  <2> QED BY <1>3, <2>1, <2>2, <2>3, Zenon DEF Network
<1> QED BY <1>2, <1>3

LEMMA SourceStep ==
  ASSUME [Next]_vars
  PROVE  \/ Publish \/ Wake \/ FetchMultivariant \/ FetchFails \/ Ask
         \/ \E p \in Answers : FetchMedia(p)
         \/ Renew \/ UNCHANGED hlsVars
<1>1. CASE PlaylistStep
  BY <1>1, Zenon DEF PlaylistStep
<1>2. CASE (\E l \in Loads : Load(l)) \/ Pause \/ Resume \/ Reset \/ DecoderReady
  BY <1>2, CommandsLeaveSource, Zenon
<1>3. CASE \E r \in DOMAIN runs : RunStep(r) \/ Network(r)
  BY <1>3, RunLeavesSource, NetworkLeavesSource, Zenon
<1>4. CASE UNCHANGED vars
  BY <1>4, Zenon DEF vars
<1> QED BY <1>1, <1>2, <1>3, <1>4, Zenon DEF Next

LEMMA WorkerInvStarts == Init => IInv
<1>1. Init => Outcome
  BY DEF Init, HlsInit, Outcome
<1> QED BY <1>1, RestStarts, LoaderStarts, HlsStarts, RestIs DEF Init

LEMMA WorkerInvStays == ASSUME IInv, [Next]_vars PROVE IInv'
<1>1. Rest /\ LoaderInv /\ Outcome /\ HlsInv
  BY RestIs
<1>2. HlsInv' /\ Outcome' /\ LoaderInv'
  BY <1>1, SourceStep, HlsSteps, OutcomeStays, LoaderStays
<1>3. Rest'
  <2>1. CASE PlaylistStep \/ UNCHANGED vars
    <3>1. UNCHANGED wvars /\ UNCHANGED ldrVars
      BY <2>1, Zenon DEF PlaylistStep, vars
    <3> QED BY <1>1, <3>1, RestUnchanged
  <2>2. CASE \E l \in Loads : Load(l)
    BY <1>1, <2>2, LoadKeeps
  <2>3. CASE Pause \/ Resume \/ Reset \/ DecoderReady
    BY <1>1, <2>3, PausesKeep, ResumesKeep, ResetsKeep, DecoderKeeps
  <2>4. CASE \E r \in DOMAIN runs : RunStep(r) \/ Network(r)
    BY <2>4, RunKeeps
  <2> QED BY <2>1, <2>2, <2>3, <2>4, Zenon DEF Next
<1> QED BY <1>2, <1>3, RestIs DEF IInv, WorkerInv, Rest

\* Whatever the page commands, however runs are superseded and downloads, the decoder
\* and the playlist interleave: every message is of the last load, and every media
\* segment is under its own init segment.
THEOREM WorkerMessages == Spec => []WorkerInv
<1>1. IInv => WorkerInv
  BY DEF IInv
<1> QED BY <1>1, WorkerInvStarts, WorkerInvStays, PTL DEF Spec

-----------------------------------------------------------------------------
(* The worker while it is paused                                           *)

NoNewRequest == \A q \in reqs' : \E p \in reqs : p.id = q.id
NoNewInit    == \A r \in DOMAIN runs : runs'[r].pc = "init" => runs[r].pc = "init"
NotRead      == pipe.mode = "live" => fed' = fed

LEMMA QuietTo ==
  ASSUME runs \in Seq(Run), NEW r \in DOMAIN runs, NEW pc \in Point \ {"init"}, runs' = To(r, pc)
  PROVE  NoNewInit
<1>1. PICK m : MovedTo(runs', r, pc, m)
  BY ToIs, ToDone
<1> QED BY <1>1 DEF MovedTo, NoNewInit

LEMMA QuietRun ==
  ASSUME IInv, NEW r \in DOMAIN runs, RunStep(r), pipe.paused
  PROVE  NoNewRequest /\ NoNewInit /\ NotRead
<1>0. runs \in Seq(Run) /\ runs[r] \in Run
  BY DEF IInv, WorkerInv, WorkerTypeOK
<1>1. ~(AskSource(r) \/ StartInit(r) \/ StartLoad(r))
  BY DEF AskSource, StartInit, StartLoad, Passes
<1>2. UNCHANGED ldrVars
  BY <1>1, Zenon DEF RunStep, Leave, Hold, Answered, SourceOver, Prepare
<1>3. NoNewInit
  <2>1. CASE Leave(r) \/ SourceOver(r) \/ Prepare(r)
    <3>1. \E pc \in {"done", "gateInit", "gateLoad"} : runs' = To(r, pc)
      BY <2>1 DEF Leave, SourceOver, Prepare
    <3> QED BY <1>0, <3>1, QuietTo DEF Point
  <2>2. CASE Hold(r)
    <3> DEFINE x == [runs[r] EXCEPT !.held = TRUE]
    <3>1. x.pc = runs[r].pc /\ runs' = [runs EXCEPT ![r] = x]
      BY <1>0, <2>2 DEF Hold, Run
    <3> HIDE DEF x
    <3> QED BY <1>0, <3>1 DEF NoNewInit
  <2>3. CASE Answered(r)
    <3> DEFINE m == IF outcome = "meta" THEN Last(given) ELSE Item(outcome, 0)
               x == [runs[r] EXCEPT !.pc = "got", !.meta = m]
    <3>1. runs' = [runs EXCEPT ![r] = x]
      BY <2>3 DEF Answered
    <3> HIDE DEF m
    <3>2. x.pc = "got"
      BY <1>0 DEF Run
    <3> HIDE DEF x
    <3> QED BY <1>0, <3>1, <3>2 DEF NoNewInit
  <2> QED BY <1>1, <2>1, <2>2, <2>3, Zenon DEF RunStep
<1> QED BY <1>2, <1>3 DEF NoNewRequest, NotRead, ldrVars

LEMMA QuietNetwork ==
  ASSUME IInv, NEW r \in DOMAIN runs, Network(r), pipe.paused
  PROVE  NoNewRequest /\ NoNewInit /\ NotRead
<1>0. runs \in Seq(Run) /\ LoaderInv /\ Download /\ Rest
  BY RestIs DEF IInv, WorkerInv, WorkerTypeOK
\* Of a paused continuous stream only a playlist is left to come, and of that no byte was fed.
<1>1. ASSUME NEW q, Current(q), pipe.mode = "live" PROVE q.stage = "text" /\ fed = 0
  <2>1. q.stage = "text" /\ q.got = 0 /\ q.got = fed + ldr.used
    BY <1>0, <1>1, CurrentIs DEF Download
  <2>2. fed \in Nat /\ ldr.used \in Nat
    BY <1>0 DEF LoaderInv, Loader
  <2> QED BY <2>1, <2>2
<1>2. CASE InitResponse(r) \/ InitBody(r) \/ InitFails(r)
  <2>1. UNCHANGED ldrVars /\ \E pc \in {"body", "gateLoad", "done"} : runs' = To(r, pc)
    BY <1>2 DEF InitResponse, InitBody, InitFails
  <2> QED BY <1>0, <2>1, QuietTo DEF NoNewRequest, NotRead, ldrVars, Point
<1>3. ASSUME NEW q, ResponseArrives(r, q) PROVE NoNewRequest /\ NoNewInit /\ NotRead
  <2> DEFINE x == [q EXCEPT !.stage = IF Kind(runs[r].meta) = "list" THEN "text" ELSE "reading"]
  <2>1. Current(q) /\ reqs' = (reqs \ {q}) \cup {x} /\ fed' = fed /\ runs' = runs
    BY <1>3 DEF ResponseArrives, Respond
  <2>2. q \in reqs /\ q \in Request
    BY <1>0, <2>1, CurrentIs
  <2>3. x.id = q.id
    BY <2>2 DEF Request
  <2> HIDE DEF x
  <2> QED BY <2>1, <2>2, <2>3 DEF NoNewRequest, NoNewInit, NotRead
<1>4. ASSUME NEW q, NEW n, ChunkArrives(r, q, n) PROVE NoNewRequest /\ NoNewInit /\ NotRead
  <2> DEFINE x == [q EXCEPT !.got = @ + n]
  <2>1. Current(q) /\ reqs' = (reqs \ {q}) \cup {x} /\ q.stage = "reading" /\ runs' = runs
    BY <1>4 DEF ChunkArrives, Chunk
  <2>2. q \in reqs /\ q \in Request
    BY <1>0, <2>1, CurrentIs
  <2>3. x.id = q.id
    BY <2>2 DEF Request
  <2>4. pipe.mode # "live"
    BY <1>1, <2>1
  <2> HIDE DEF x
  <2> QED BY <2>1, <2>2, <2>3, <2>4 DEF NoNewRequest, NoNewInit, NotRead
<1>5. ASSUME NEW q, LoadDone(r, q) \/ LoadFails(r, q) \/ (\E n : Unsupported(r, q, n))
      PROVE  NoNewRequest /\ NoNewInit /\ NotRead
  <2>1. Current(q) /\ reqs' = {} /\ fed' = 0 /\ \E pc \in {"top", "done"} : runs' = To(r, pc)
    BY <1>5 DEF LoadDone, LoadFails, Unsupported, Complete, Fail
  <2> QED BY <1>0, <1>1, <2>1, QuietTo DEF NoNewRequest, NotRead, Point
<1>6. ASSUME NEW q, DetectHls(r, q) PROVE NoNewRequest /\ NoNewInit /\ NotRead
  <2>1. Current(q) /\ reqs' = {} /\ fed' = 0 /\ runs' = Append(To(r, "done"), NewRun(runs[r].load))
    BY <1>6 DEF DetectHls, Destroy
  <2>2. NoNewInit
    <3>1. PICK m : MovedTo(To(r, "done"), r, "done", m)
      BY <1>0, ToDone
    <3> DEFINE rs == To(r, "done")
    <3>2. rs \in Seq(Run) /\ Len(rs) = Len(runs) /\ rs[r].pc = "done"
          /\ \A k \in DOMAIN runs \ {r} : rs[k] = runs[k]
      BY <3>1 DEF MovedTo
    <3>3. \A k \in DOMAIN runs : runs'[k] = rs[k]
      <4> HIDE DEF rs
      <4> QED BY <1>0, <2>1, <3>2 DEF rs
    <3> HIDE DEF rs
    <3> QED BY <3>2, <3>3 DEF NoNewInit
  <2> QED BY <1>1, <2>1, <2>2 DEF NoNewRequest, NotRead
<1> QED BY <1>2, <1>3, <1>4, <1>5, <1>6, Zenon DEF Network

\* While the worker is paused it starts no request, and of a continuous stream nothing
\* reaches the demuxer: whatever was under way when the pause came.
THEOREM WorkerPauses == Spec => PausedIsQuiet
<1>1. ASSUME IInv, [Next]_vars, pipe.paused, pipe'.paused
      PROVE  NoNewRequest /\ NoNewInit /\ NotRead
  <2>1. ASSUME UNCHANGED runs, UNCHANGED ldrVars PROVE NoNewRequest /\ NoNewInit /\ NotRead
    BY <2>1 DEF NoNewRequest, NoNewInit, NotRead, ldrVars
  <2>2. ASSUME NEW l, Load(l) PROVE FALSE
    BY <1>1, <2>2 DEF Load, Fresh
  <2>3. CASE Pause \/ Resume \/ Reset
    <3>1. pipe \in Pipe
      BY <1>1 DEF IInv, WorkerInv, WorkerTypeOK
    <3>2. ~Pause
      BY <1>1 DEF Pause
    <3>3. Resume => ~pipe'.paused
      <4>1. pipe.paused \in BOOLEAN
        BY <3>1 DEF Pipe
      <4>2. ASSUME pipe' = [pipe EXCEPT !.paused = FALSE, !.gate = 0] PROVE ~pipe'.paused
        BY <3>1, <4>2 DEF Pipe
      <4>3. ASSUME pipe' = [pipe EXCEPT !.paused = FALSE, !.gate = 0, !.fmp4 = FALSE, !.chunks = FALSE]
            PROVE  ~pipe'.paused
        BY <3>1, <4>3 DEF Pipe
      <4> QED BY <4>2, <4>3 DEF Resume
    <3>4. Reset => ~pipe'.paused
      BY DEF Reset, NoPipe, Fresh
    <3> QED BY <1>1, <2>3, <3>2, <3>3, <3>4
  <2>4. CASE DecoderReady \/ PlaylistStep \/ UNCHANGED vars
    <3>1. UNCHANGED runs /\ UNCHANGED ldrVars
      BY <2>4 DEF DecoderReady, PlaylistStep, vars, wvars
    <3> QED BY <2>1, <3>1
  <2>5. CASE \E r \in DOMAIN runs : RunStep(r) \/ Network(r)
    BY <1>1, <2>5, QuietRun, QuietNetwork
  <2> QED BY <1>1, <2>2, <2>3, <2>4, <2>5, Zenon DEF Next
<1>2. IInv /\ [Next]_vars =>
        [pipe.paused /\ pipe'.paused =>
           /\ \A q \in reqs' : \E p \in reqs : p.id = q.id
           /\ \A r \in DOMAIN runs : runs'[r].pc = "init" => runs[r].pc = "init"
           /\ pipe.mode = "live" => fed' = fed]_vars
  BY <1>1 DEF NoNewRequest, NoNewInit, NotRead
<1>3. Spec => []IInv
  BY WorkerInvStarts, WorkerInvStays, PTL DEF Spec
<1> QED BY <1>2, <1>3, PTL DEF Spec, PausedIsQuiet

-----------------------------------------------------------------------------
(* The segments of a load, one after the other                             *)

\* A media segment with number n is among the messages q.
Posted(q, n) == \E i \in DOMAIN q : q[i].kind = "media" /\ q[i].seq = n

\* The messages q neither end the load nor fail it.
Unended(q) == \A i \in DOMAIN q : q[i].kind \notin {"complete", "error"}

\* The media in q are of segments before n; of a TS segment n some may be posted.
AllBefore(q, n) == \A i \in DOMAIN q : q[i].kind = "media" => q[i].seq < n
AllUpTo(q, n) ==
  \A i \in DOMAIN q : q[i].kind = "media" => q[i].seq < n \/ (q[i].seq = n /\ q[i].init = "ts")

\* The first part of PlayedThrough, of messages q of one load.
InOrder(q) ==
  \A i, j \in DOMAIN q : i < j =>
    /\ q[i].kind = "media" /\ q[j].kind = "media" =>
         q[i].seq < q[j].seq \/ (q[i].seq = q[j].seq /\ q[i].init = "ts")
    /\ q[i].kind \in {"complete", "error"} => q[j].kind = "pcm"

\* Between the segment's arrival from the source and the end of its download.
Busy == {"gateInit", "init", "body", "gateLoad", "load"}

\* The run has been given a segment that it has not loaded to its end.
HasOne(p, pc, oc) ==
  IF p.mode = "hls" THEN oc = "meta" /\ pc \in Busy \cup {"ask", "got"}
                    ELSE pc \in Busy \cup {"got"}

\* How many segments the source has given, or the number after the last of a playlist.
Count(p, run, g) ==
  IF p.mode = "static" THEN p.index
  ELSE IF p.mode = "live" THEN run.cycles
  ELSE IF g = <<>> THEN 0 ELSE g[Len(g)].seq + 1

\* The number of the segment the run is at.
Place(p, run, g, oc) == IF HasOne(p, run.pc, oc) THEN Count(p, run, g) - 1 ELSE Count(p, run, g)

\* What is posted is what comes before the segment the run is at.
Standing(p, run, q, g, oc) ==
  /\ Unended(q)
  /\ Place(p, run, g, oc) \in Nat
  /\ IF run.pc = "load" /\ Kind(run.meta) = "ts" THEN AllUpTo(q, Place(p, run, g, oc))
                                               ELSE AllBefore(q, Place(p, run, g, oc))
  /\ p.mode = "static" => \A n \in 0..Place(p, run, g, oc) - 1 : Posted(q, n)
  /\ p.mode = "hls" =>
       \A i \in DOMAIN g : i < Len(g) \/ ~HasOne(p, run.pc, oc) => Posted(q, g[i].seq)

\* The segment in hand is the last one the source gave.
InHand(p, run, g, oc) ==
  /\ run.pc \in Busy => Kind(run.meta) \in Kinds
  /\ p.mode = "hls" /\ run.pc \in Busy \cup {"got"} =>
       IF oc = "meta" THEN g # <<>> /\ run.meta = g[Len(g)]
                      ELSE run.pc = "got" /\ oc # "wait" /\ run.meta = Item(oc, 0)
  /\ p.mode = "static" /\ run.pc \in Busy \cup {"got"} =>
       /\ p.index >= 1
       /\ run.meta = Item(IF p.index <= Len(p.items) THEN p.items[p.index] ELSE "none", p.index - 1)
  /\ p.mode = "live" /\ run.pc \in Busy \cup {"got"} =>
       run.cycles >= 1 /\ run.meta = Item(p.items[1], run.cycles - 1)

\* One container per load: once it is fMP4, it stays so; and a list that turns out to
\* be of playlists has posted no media.
Contained(p, q, g) ==
  /\ \A i, j \in DOMAIN p.items : p.items[i] = p.items[j]
  /\ p.mode # "hls" /\ p.items # <<>> /\ p.items[1] = "list" => AllBefore(q, 0)
  /\ p.mode = "static" /\ p.fmp4 => p.items # <<>> /\ p.items[1] = "mp4"
  /\ p.mode = "hls" /\ p.fmp4 => g # <<>> /\ g[Len(g)].init # NoInit

\* What was read of segment m is posted or collected, but for less than a packet.
Read(p, m, q, l, rq, f) ==
  \A r \in rq : ~r.aborted /\ r.stage = "reading" =>
    /\ Kind(m) # "list"
    /\ Kind(m) = "ts" => l.used < Packet /\ (f > 0 => Posted(q, m.seq))
    /\ Kind(m) = "mp4" /\ r.got > 0 => p.fmp4 /\ p.chunks
    /\ Kind(m) = "junk" => f = 0 /\ l.used < Packet

\* The source works only while the run asks it.
Asked(p, run, oc, ph) == p.mode = "hls" => (ph # "idle" <=> run.pc = "ask" /\ oc = "wait")

\* Everything about the current run.
Along(p, run, q, g, oc, ph, l, rq, f) ==
  /\ Asked(p, run, oc, ph)
  /\ run.pc # "done" =>
       /\ Standing(p, run, q, g, oc) /\ InHand(p, run, g, oc) /\ Contained(p, q, g)
       /\ run.pc = "load" /\ p.mode # "live" => Read(p, run.meta, q, l, rq, f)

\* Of a segment the source has queued or given the init segment is its own.
Mapped(s) == \A i \in DOMAIN s : s[i].init = InitUrl[s[i].seq]

Finished == pipe.alive /\ out # <<>> /\ Last(out).kind = "complete" =>
  \A n \in Wanted : Posted(out, n)

PlayInv ==
  /\ Mapped(given) /\ Mapped(hls.segments)
  /\ InOrder(out) /\ Finished
  /\ pipe.alive => pipe.run # 0
  /\ pipe.run # 0 => Along(pipe, runs[pipe.run], out, given, outcome, hls.phase, ldr, reqs, fed)

\* What one more message does to what was said of those before it.
LEMMA Grown ==
  ASSUME NEW q \in Seq(Message), NEW e \in Message
  PROVE  LET p == Append(q, e) IN
         /\ p \in Seq(Message) /\ p # <<>> /\ Last(p) = e
         /\ \A n : Posted(q, n) => Posted(p, n)
         /\ e.kind = "media" => Posted(p, e.seq)
         /\ e.kind \notin {"complete", "error"} /\ Unended(q) => Unended(p)
         /\ \A n : AllBefore(q, n) /\ (e.kind = "media" => e.seq < n) => AllBefore(p, n)
         /\ \A n : AllUpTo(q, n) /\ (e.kind = "media" => e.seq < n \/ (e.seq = n /\ e.init = "ts"))
                     => AllUpTo(p, n)
         /\ InOrder(q) /\ (Unended(q) \/ e.kind = "pcm") /\ (e.kind = "media" => AllUpTo(q, e.seq))
              => InOrder(p)
<1> DEFINE p == Append(q, e)
<1>1. /\ p \in Seq(Message) /\ p # <<>> /\ DOMAIN q = 1..Len(q) /\ DOMAIN p = 1..Len(q) + 1
      /\ Len(p) = Len(q) + 1 /\ Len(q) \in Nat /\ p[Len(q) + 1] = e /\ \A i \in 1..Len(q) : p[i] = q[i]
  OBVIOUS
<1> HIDE DEF p
<1>2. Last(p) = e
  BY <1>1 DEF Last
<1>3. \A i \in DOMAIN p : (i \in DOMAIN q /\ p[i] = q[i]) \/ (i = Len(q) + 1 /\ p[i] = e)
  BY <1>1
<1>4. \A i \in DOMAIN q : i \in DOMAIN p /\ p[i] = q[i]
  BY <1>1
<1>5. (\A n : Posted(q, n) => Posted(p, n)) /\ (e.kind = "media" => Posted(p, e.seq))
  <2>1. Len(q) + 1 \in DOMAIN p
    BY <1>1
  <2> QED BY <1>1, <1>4, <2>1 DEF Posted
<1>6. e.kind \notin {"complete", "error"} /\ Unended(q) => Unended(p)
  BY <1>3 DEF Unended
<1>7. \A n : AllBefore(q, n) /\ (e.kind = "media" => e.seq < n) => AllBefore(p, n)
  BY <1>3 DEF AllBefore
<1>8. \A n : AllUpTo(q, n) /\ (e.kind = "media" => e.seq < n \/ (e.seq = n /\ e.init = "ts"))
               => AllUpTo(p, n)
  BY <1>3 DEF AllUpTo
<1>9. ASSUME InOrder(q), Unended(q) \/ e.kind = "pcm", e.kind = "media" => AllUpTo(q, e.seq)
      PROVE  InOrder(p)
  <2> SUFFICES ASSUME NEW i \in DOMAIN p, NEW j \in DOMAIN p, i < j
               PROVE  /\ p[i].kind = "media" /\ p[j].kind = "media" =>
                           p[i].seq < p[j].seq \/ (p[i].seq = p[j].seq /\ p[i].init = "ts")
                      /\ p[i].kind \in {"complete", "error"} => p[j].kind = "pcm"
    BY DEF InOrder
  <2>1. i \in DOMAIN q /\ p[i] = q[i]
    BY <1>1
  <2>2. CASE j \in DOMAIN q
    BY <1>4, <1>9, <2>1, <2>2 DEF InOrder
  <2>3. CASE j \notin DOMAIN q
    <3>1. p[j] = e
      BY <1>3, <2>3
    <3> QED BY <1>9, <2>1, <3>1 DEF Unended, AllUpTo
  <2> QED BY <2>2, <2>3
<1> QED BY <1>1, <1>2, <1>5, <1>6, <1>7, <1>8, <1>9 DEF p

LEMMA SeqsOf == ASSUME NEW q \in Seq(Message) PROVE \A i \in DOMAIN q : q[i].seq \in Nat
<1>1. \A i \in DOMAIN q : q[i] \in Message
  OBVIOUS
<1> QED BY <1>1 DEF Message

\* Before is more than up to.
LEMMA BeforeUpTo ==
  /\ \A q, n : AllBefore(q, n) => AllUpTo(q, n)
  /\ \A q \in Seq(Message) : \A n \in Nat : AllUpTo(q, n) => AllBefore(q, n + 1)
<1>1. \A q, n : AllBefore(q, n) => AllUpTo(q, n)
  BY DEF AllBefore, AllUpTo
<1>2. ASSUME NEW q \in Seq(Message), NEW n \in Nat, AllUpTo(q, n) PROVE AllBefore(q, n + 1)
  <2>1. \A i \in DOMAIN q : q[i].seq \in Nat
    BY SeqsOf
  <2> QED BY <1>2, <2>1 DEF AllBefore, AllUpTo
<1> QED BY <1>1, <1>2

LEMMA BeforeMore ==
  ASSUME NEW q \in Seq(Message), NEW m \in Nat, NEW n \in Nat, m <= n, AllBefore(q, m)
  PROVE  AllBefore(q, n)
<1>1. \A i \in DOMAIN q : q[i].seq \in Nat
  BY SeqsOf
<1> QED BY <1>1 DEF AllBefore

\* After a message that does not end it, a load is not finished.
LEMMA UnendedIsOpen ==
  ASSUME NEW q \in Seq(Message), q # <<>>, Unended(q) PROVE Last(q).kind # "complete"
<1>1. Len(q) \in DOMAIN q
  OBVIOUS
<1> QED BY <1>1 DEF Last, Unended

-----------------------------------------------------------------------------
(* Each segment of a playlist with its init segment                        *)

LEMMA ServeMaps ==
  ASSUME given \in Seq(Segment), NEW h \in Source, Serve(h), Mapped(given), Mapped(h.segments)
  PROVE  Mapped(given') /\ Mapped(hls'.segments)
<1>1. hls'.segments = h.segments
  <2>1. \/ hls' = [h EXCEPT !.nextIndex = @ + 1, !.resetPending = FALSE, !.phase = "idle"]
        \/ \E ph : hls' = [h EXCEPT !.phase = ph]
    BY DEF Serve
  <2> QED BY <2>1 DEF Source
<1>2. CASE given' = given
  BY <1>1, <1>2
<1>3. CASE given' # given
  <2> DEFINE m == h.segments[h.nextIndex + 1]
             e == [m EXCEPT !.reset = @ \/ h.resetPending]
  <2>1. h.nextIndex < Len(h.segments) /\ given' = Append(given, e)
    BY <1>3 DEF Serve
  <2>2. h.segments \in Seq(Segment) /\ h.nextIndex \in Nat /\ h.resetPending \in BOOLEAN
    BY DEF Source
  <2>3. m \in Segment /\ h.nextIndex + 1 \in DOMAIN h.segments
    BY <2>1, <2>2
  <2>4. m.init = InitUrl[m.seq]
    BY <2>3 DEF Mapped
  <2> HIDE DEF m
  <2>5. e.init = m.init /\ e.seq = m.seq /\ e \in Segment
    BY <2>2, <2>3 DEF Segment
  <2> HIDE DEF e
  <2>6. \A i \in DOMAIN given' : (i \in DOMAIN given /\ given'[i] = given[i]) \/ given'[i] = e
    BY <2>1, <2>5
  <2> QED BY <1>1, <2>4, <2>5, <2>6 DEF Mapped
<1> QED BY <1>2, <1>3

LEMMA IngestMaps ==
  ASSUME NEW h \in Source, Queue(h), Mapped(h.segments), NEW p \in Listing
  PROVE  /\ Mapped(Ingest(h, p).segments)
         /\ Ingest(h, p) \in Source => Mapped(AtLiveEdge(Ingest(h, p)).segments)
<1> DEFINE a == Appended(h, p)
           new == NewSegments(h, p)
           t == Trimmed(a)
<1>1. a \in Source /\ Queue(a) /\ new \in Seq(Segment) /\ h.segments \in Seq(Segment)
  BY Appending, NewOnes DEF Source
<1>2. \A i \in DOMAIN new : new[i].init = InitUrl[new[i].seq]
  BY DEF NewSegments
<1>3. a.segments = h.segments \o new
  BY DEF Appended, Source
<1>4. Mapped(a.segments)
  <2> HIDE DEF new, a
  <2>1. \A i \in DOMAIN a.segments : \/ i \in DOMAIN h.segments /\ a.segments[i] = h.segments[i]
                                     \/ \E j \in DOMAIN new : a.segments[i] = new[j]
    <3> TAKE i \in DOMAIN a.segments
    <3>1. CASE i <= Len(h.segments)
      BY <1>1, <1>3, <3>1
    <3>2. CASE i > Len(h.segments)
      <4>1. i - Len(h.segments) \in DOMAIN new /\ a.segments[i] = new[i - Len(h.segments)]
        BY <1>1, <1>3, <3>2
      <4> QED BY <4>1
    <3>3. i \in Nat /\ Len(h.segments) \in Nat
      BY <1>1, <1>3
    <3> QED BY <3>1, <3>2, <3>3
  <2> QED BY <1>2, <2>1 DEF Mapped
<1> HIDE DEF a
<1>5. Mapped(t.segments) /\ t \in Source
  <2>0. t \in Source
    BY <1>1, Trimming
  <2>1. CASE t = a
    BY <1>4, <2>0, <2>1
  <2>2. CASE t # a
    <3> DEFINE s == SubSeq(a.segments, a.nextIndex - KEEP + 1, Len(a.segments))
    <3>1. t.segments = s /\ a.nextIndex > TRIM_ABOVE
      BY <1>1, <2>2 DEF Trimmed, Source
    <3>2. a.segments \in Seq(Segment) /\ a.nextIndex \in Nat /\ a.nextIndex - KEEP + 1 \in Nat
          /\ a.nextIndex - KEEP + 1 >= 1 /\ KEEP \in Nat
      BY <1>1, <3>1, HlsAssumption DEF Source
    <3>3. \A i \in DOMAIN s : \E j \in DOMAIN a.segments : s[i] = a.segments[j]
      <4> DEFINE k == a.nextIndex - KEEP
                 z == a.segments
      <4>1. k \in Nat /\ s = SubSeq(z, k + 1, Len(z)) /\ z \in Seq(Segment)
        BY <3>2
      <4> HIDE DEF k, z, s
      <4>2. TAKE i \in DOMAIN s
      <4>3. i + k \in DOMAIN z /\ s[i] = z[i + k]
        BY <4>1
      <4> QED BY <4>3 DEF z
    <3> HIDE DEF s
    <3>4. Mapped(s)
      BY <1>4, <3>3 DEF Mapped
    <3> QED BY <2>0, <3>1, <3>4
  <2> QED BY <2>1, <2>2
<1> HIDE DEF t
<1>6. Mapped(AtLiveEdge(t).segments)
  <2> DEFINE n    == Len(t.segments)
             idx  == IF t.live /\ n > LIVE_EDGE_SEGMENTS THEN n - LIVE_EDGE_SEGMENTS ELSE 0
             base == IF idx < n THEN t.segments[idx + 1].start ELSE 0
             s    == [i \in 1..n |-> [t.segments[i] EXCEPT !.start = @ - base]]
  <2>1. AtLiveEdge(t).segments = s
    BY <1>5 DEF AtLiveEdge, Source
  <2>2. t.segments \in Seq(Segment)
    BY <1>5 DEF Source
  <2> HIDE DEF base
  <2>3. \A i \in 1..n : t.segments[i] \in Segment
    BY <2>2
  <2>4. \A i \in 1..n : s[i].init = t.segments[i].init /\ s[i].seq = t.segments[i].seq
    BY <2>3 DEF Segment
  <2>5. DOMAIN s = 1..n /\ DOMAIN t.segments = 1..n
    BY <2>2
  <2> HIDE DEF s
  <2> QED BY <1>5, <2>1, <2>4, <2>5 DEF Mapped
<1> QED BY <1>5, <1>6 DEF Ingest, t, a

LEMMA MapsStay ==
  ASSUME HlsInv, Mapped(given), Mapped(hls.segments),
         \/ Publish \/ Wake \/ FetchMultivariant \/ FetchFails \/ Ask
         \/ \E p \in Answers : FetchMedia(p)
         \/ Renew \/ UNCHANGED hlsVars
  PROVE  Mapped(given') /\ Mapped(hls'.segments)
<1>1. /\ hls \in Source /\ given \in Seq(Segment) /\ Queue(hls)
      /\ server \in [last : -1..LastSequence, live : BOOLEAN, sliding : BOOLEAN]
  BY DEF HlsInv, HlsTypeOK
<1>2. CASE Publish \/ Wake \/ FetchMultivariant \/ FetchFails \/ UNCHANGED hlsVars
  <2>1. given' = given /\ hls'.segments = hls.segments
    BY <1>1, <1>2 DEF Publish, Wake, FetchMultivariant, FetchFails, hlsVars, Source
  <2> QED BY <2>1
<1>3. CASE Ask
  <2>1. CASE hls.initialized
    BY <1>1, <1>3, <2>1, ServeMaps DEF Ask
  <2>2. CASE ~hls.initialized
    <3>1. given' = given /\ hls'.segments = hls.segments
      BY <1>1, <1>3, <2>2 DEF Ask, Source
    <3> QED BY <3>1
  <2> QED BY <2>1, <2>2
<1>4. ASSUME NEW p \in Answers, FetchMedia(p) PROVE Mapped(given') /\ Mapped(hls'.segments)
  <2> DEFINE b == [hls EXCEPT !.refreshFailures = 0, !.variant = TRUE]
             h == Ingest(b, p)
             g == IF h.initialized THEN h ELSE AtLiveEdge(h)
  <2>1. Serve(g)
    BY <1>4 DEF FetchMedia
  <2>2. p \in Listing
    BY <1>1, AnswersAreListings
  <2>3. g \in Source
    BY <2>2, Ingesting
  <2>4. b \in Source /\ b.segments = hls.segments /\ Queue(b)
    <3>1. b \in Source /\ Alike(b, hls)
      BY <1>1, SetAside
    <3> QED BY <1>1, <3>1, AlikeKeeps DEF Alike
  <2> HIDE DEF b
  <2>5. Mapped(h.segments) /\ h \in Source
    <3>1. Appended(b, p) \in Source /\ Queue(Appended(b, p))
      BY <2>2, <2>4, Appending
    <3>2. h \in Source
      BY <3>1, Trimming DEF Ingest
    <3> QED BY <2>2, <2>4, <3>2, IngestMaps
  <2>6. Mapped(g.segments)
    BY <2>2, <2>4, <2>5, IngestMaps
  <2> HIDE DEF g
  <2> QED BY <1>1, <2>1, <2>3, <2>6, ServeMaps
<1>5. CASE Renew
  BY <1>5 DEF Renew, NewSource, Mapped
<1> QED BY <1>2, <1>3, <1>4, <1>5

-----------------------------------------------------------------------------
(* The current run, step by step                                           *)

\* rs are the runs, and the current one is at pc with segment m.
AtPoint(rs, r, pc, m, c) == rs[r].pc = pc /\ rs[r].meta = m /\ rs[r].cycles = c

LEMMA ToGives ==
  ASSUME runs \in Seq(Run), NEW r \in DOMAIN runs
  PROVE  /\ \A pc : pc # "done" => AtPoint(To(r, pc), r, pc, runs[r].meta, runs[r].cycles)
         /\ To(r, "done")[r].pc = "done"
<1>1. runs[r] \in Run
  OBVIOUS
<1>2. ASSUME NEW pc, pc # "done" PROVE AtPoint(To(r, pc), r, pc, runs[r].meta, runs[r].cycles)
  <2> DEFINE x == [runs[r] EXCEPT !.pc = pc]
  <2>1. To(r, pc)[r] = x
    BY <1>2 DEF To
  <2>2. x.pc = pc /\ x.meta = runs[r].meta /\ x.cycles = runs[r].cycles
    BY <1>1 DEF Run
  <2> QED BY <2>1, <2>2 DEF AtPoint
<1>3. To(r, "done")[r].pc = "done"
  <2>1. To(r, "done")[r] = Gone(runs[r])
    BY DEF To
  <2> QED BY <1>1, <2>1, GoneIs
<1> QED BY <1>2, <1>3

\* What is said of a run depends on no more than this.
LEMMA SameAlong ==
  ASSUME NEW p, NEW x, NEW a, NEW b, NEW q, NEW g, NEW oc, NEW ph, NEW l, NEW rq, NEW f,
         x.mode = p.mode, x.index = p.index, x.items = p.items, x.fmp4 = p.fmp4,
         x.chunks = p.chunks, b.pc = a.pc, b.meta = a.meta, b.cycles = a.cycles,
         Along(p, a, q, g, oc, ph, l, rq, f)
  PROVE  Along(x, b, q, g, oc, ph, l, rq, f)
<1>1. Asked(x, b, oc, ph)
  BY DEF Along, Asked
<1>2. HasOne(x, b.pc, oc) = HasOne(p, a.pc, oc)
  BY DEF HasOne
<1>3. Place(x, b, g, oc) = Place(p, a, g, oc)
  BY <1>2 DEF Place, Count
<1>4. ASSUME b.pc # "done" PROVE Standing(x, b, q, g, oc)
  BY <1>2, <1>3, <1>4 DEF Along, Standing
<1>5. ASSUME b.pc # "done" PROVE InHand(x, b, g, oc) /\ Contained(x, q, g)
  BY <1>5 DEF Along, InHand, Contained
<1>6. ASSUME b.pc = "load", x.mode # "live" PROVE Read(x, b.meta, q, l, rq, f)
  BY <1>6 DEF Along, Read
<1> QED BY <1>1, <1>4, <1>5, <1>6 DEF Along

\* What holds besides of the current run, its segment and the messages.
Now == pipe.run # 0 => Along(pipe, runs[pipe.run], out, given, outcome, hls.phase, ldr, reqs, fed)

Playing == InOrder(out) /\ Finished /\ (pipe.alive => pipe.run # 0) /\ Now

\* A load whose end is not yet posted is unfinished; one that stays is as finished as before.
LEMMA FinishedStays ==
  ASSUME Playing, out' \in Seq(Message),
         \/ out' = <<>> \/ Unended(out') \/ ~pipe'.alive \/ Last(out').kind # "complete"
         \/ /\ UNCHANGED <<out, given>>
            /\ pipe'.mode = pipe.mode /\ pipe'.items = pipe.items /\ pipe'.alive = pipe.alive
  PROVE  Finished'
<1>1. CASE out' = <<>> \/ ~pipe'.alive \/ Last(out').kind # "complete"
  BY <1>1 DEF Finished
<1>2. CASE Unended(out') /\ out' # <<>>
  BY <1>2, UnendedIsOpen DEF Finished
<1>3. CASE /\ UNCHANGED <<out, given>>
           /\ pipe'.mode = pipe.mode /\ pipe'.items = pipe.items /\ pipe'.alive = pipe.alive
  BY <1>3 DEF Playing, Finished, Wanted
<1> QED BY <1>1, <1>2, <1>3

\* A step of the current run, after which it is at pc with segment m.
LEMMA StepPlays ==
  ASSUME Playing, out' \in Seq(Message), pipe'.run # 0, InOrder(out'),
         Along(pipe', runs'[pipe'.run], out', given', outcome', hls'.phase, ldr', reqs', fed'),
         Unended(out')
  PROVE  Playing'
  BY FinishedStays DEF Playing, Now

\* A step that leaves the current run and its messages as they are.
LEMMA IdlePlays ==
  ASSUME Playing, UNCHANGED <<out, given, outcome, hls>>, out \in Seq(Message),
         pipe'.run = pipe.run, pipe'.mode = pipe.mode, pipe'.index = pipe.index,
         pipe'.items = pipe.items, pipe'.alive = pipe.alive, pipe'.fmp4 = pipe.fmp4,
         pipe'.chunks = pipe.chunks,
         pipe.run # 0 => AtPoint(runs', pipe.run, runs[pipe.run].pc, runs[pipe.run].meta,
                                 runs[pipe.run].cycles),
         UNCHANGED ldrVars
  PROVE  Playing'
<1>1. Finished'
  BY FinishedStays
<1>2. Now'
  BY SameAlong DEF Playing, Now, AtPoint, ldrVars
<1> QED BY <1>1, <1>2 DEF Playing

\* The facts at hand in a step of the current run.
LEMMA RunFacts ==
  ASSUME Rest, Playing, NEW r \in DOMAIN runs, r = pipe.run
  PROVE  /\ r # 0 /\ runs \in Seq(Run) /\ runs[r] \in Run /\ pipe \in Pipe /\ out \in Seq(Message)
         /\ runs[r].meta \in Segment \cup Given /\ runs[r].cycles \in Nat
         /\ Works(pipe, runs[r].meta, runs[r].pc)
         /\ Along(pipe, runs[r], out, given, outcome, hls.phase, ldr, reqs, fed)
         /\ InOrder(out)
<1>1. /\ r # 0 /\ runs \in Seq(Run) /\ runs[r] \in Run /\ pipe \in Pipe
      /\ Works(pipe, runs[r].meta, runs[r].pc)
  BY CurrentRun
<1>2. out \in Seq(Message)
  BY DEF Rest, WorkerTypeOK
<1>3. runs[r].meta \in Segment \cup Given /\ runs[r].cycles \in Nat
  BY <1>1 DEF Run
<1> QED BY <1>1, <1>2, <1>3 DEF Playing, Now

\* The run goes on with its segment, or asks on; nothing is posted.
LEMMA NextPoint ==
  ASSUME NEW p, NEW a, NEW b, NEW q, NEW g, NEW oc, NEW ph, NEW l, NEW rq, NEW f,
         Along(p, a, q, g, oc, ph, l, rq, f), b.meta = a.meta, b.cycles = a.cycles,
         a.pc \in {"got", "gateInit", "init", "body"},
         b.pc \in {"gateInit", "init", "body", "gateLoad"},
         Kind(a.meta) \in Kinds, p.mode = "hls" => oc = "meta"
  PROVE  Along(p, b, q, g, oc, ph, l, rq, f)
<1>1. a.pc \in Busy \cup {"got"} /\ b.pc \in Busy /\ a.pc # "done" /\ a.pc # "load"
      /\ b.pc # "load" /\ b.pc # "done" /\ a.pc # "ask" /\ b.pc # "ask" /\ b.pc # "got"
  BY DEF Busy
<1>2. HasOne(p, b.pc, oc) /\ HasOne(p, a.pc, oc)
  BY <1>1 DEF HasOne
<1>3. Place(p, b, g, oc) = Place(p, a, g, oc)
  BY <1>2 DEF Place, Count
<1>4. Standing(p, b, q, g, oc)
  BY <1>1, <1>2, <1>3 DEF Along, Standing
<1>5. InHand(p, b, g, oc)
  BY <1>1 DEF Along, InHand
<1>6. Asked(p, b, oc, ph)
  BY <1>1 DEF Along, Asked
<1> QED BY <1>1, <1>4, <1>5, <1>6 DEF Along

\* The current run ends, with an error.
LEMMA EndPlays ==
  ASSUME Rest, Playing, NEW r \in DOMAIN runs, r = pipe.run, runs[r].pc \notin {"done", "ask"},
         runs' = To(r, "done"), pipe' = pipe, UNCHANGED hlsVars,
         NEW seq, out' = Post(r, "error", seq, NoInit), seq \in Nat
  PROVE  Playing'
<1>1. /\ r # 0 /\ runs \in Seq(Run) /\ out \in Seq(Message)
      /\ Along(pipe, runs[r], out, given, outcome, hls.phase, ldr, reqs, fed) /\ InOrder(out)
  BY RunFacts
<1> DEFINE e == [gen |-> gen, load |-> runs[r].load, kind |-> "error", seq |-> seq, init |-> NoInit]
<1>2. out' = Append(out, e)
  BY DEF Post
<1>3. e \in Message /\ e.kind = "error"
  BY CurrentRun DEF Message, Inits
<1> HIDE DEF e
<1>4. Unended(out)
  BY <1>1 DEF Along, Standing
<1>5. out' \in Seq(Message) /\ Last(out').kind = "error" /\ InOrder(out')
  BY <1>1, <1>2, <1>3, <1>4, Grown
<1>6. Finished'
  BY <1>5, FinishedStays
<1>7. runs'[r].pc = "done"
  BY <1>1, ToGives
<1>8. Asked(pipe', runs'[r], outcome', hls'.phase)
  BY <1>1, <1>7 DEF Along, Asked, hlsVars
<1>9. Now'
  BY <1>7, <1>8 DEF Now, Along
<1> QED BY <1>5, <1>6, <1>9 DEF Playing

LEMMA LeavePlays == ASSUME Rest, Playing, NEW r \in DOMAIN runs, Leave(r) PROVE Playing'
<1>1. /\ r # pipe.run /\ pipe' = pipe /\ out' = out /\ UNCHANGED hlsVars /\ UNCHANGED ldrVars
      /\ runs' = To(r, "done")
  BY DEF Leave, Stale, Silent
<1>2. runs \in Seq(Run) /\ out \in Seq(Message) /\ (pipe.run # 0 => pipe.run \in DOMAIN runs)
  BY DEF Rest, WorkerTypeOK, Generations
<1>3. pipe.run # 0 => runs'[pipe.run] = runs[pipe.run]
  BY <1>1, <1>2 DEF To
<1> QED BY <1>1, <1>2, <1>3, IdlePlays DEF AtPoint, hlsVars

LEMMA HoldPlays == ASSUME Rest, Playing, NEW r \in DOMAIN runs, Hold(r) PROVE Playing'
<1>1. /\ r = pipe.run /\ pipe' = [pipe EXCEPT !.gate = r] /\ out' = out /\ UNCHANGED hlsVars
      /\ UNCHANGED ldrVars /\ runs' = [runs EXCEPT ![r].held = TRUE]
  BY DEF Hold, Stale, Silent
<1>2. runs \in Seq(Run) /\ runs[r] \in Run /\ pipe \in Pipe /\ out \in Seq(Message)
  BY <1>1, RunFacts
<1>3. /\ pipe'.run = pipe.run /\ pipe'.mode = pipe.mode /\ pipe'.index = pipe.index
      /\ pipe'.items = pipe.items /\ pipe'.alive = pipe.alive /\ pipe'.fmp4 = pipe.fmp4
      /\ pipe'.chunks = pipe.chunks
  BY <1>1, <1>2 DEF Pipe
<1> DEFINE x == [runs[r] EXCEPT !.held = TRUE]
<1>4. runs'[r] = x
  BY <1>1, <1>2
<1>5. x.pc = runs[r].pc /\ x.meta = runs[r].meta /\ x.cycles = runs[r].cycles
  BY <1>2 DEF Run
<1>6. AtPoint(runs', pipe.run, runs[pipe.run].pc, runs[pipe.run].meta, runs[pipe.run].cycles)
  BY <1>1, <1>4, <1>5 DEF AtPoint
<1> QED BY <1>1, <1>2, <1>3, <1>6, IdlePlays DEF hlsVars

\* The segment a playlist source gives next comes after those before it, and is fMP4 when
\* one before it was.
LEMMA GivenGrows ==
  ASSUME HlsInv, HlsInv', Mapped(given), Mapped(given'), NEW m, given' = Append(given, m)
  PROVE  /\ given' # <<>> /\ Len(given') = Len(given) + 1 /\ given'[Len(given')].seq \in Nat
         /\ \A i \in DOMAIN given : given'[i] = given[i] /\ i \in DOMAIN given'
         /\ \A i \in DOMAIN given' : i \in DOMAIN given \/ i = Len(given')
         /\ given # <<>> =>
              /\ given'[Len(given')].seq >= given[Len(given)].seq + 1
              /\ given[Len(given)].init # NoInit => given'[Len(given')].init # NoInit
<1> DEFINE n == Len(given)
<1>1. given \in Seq(Segment) /\ given' \in Seq(Segment) /\ JumpsReset' /\ n \in Nat
  BY DEF HlsInv, HlsTypeOK, Timeline
<1>2. /\ Len(given') = n + 1 /\ given' # <<>> /\ DOMAIN given' = 1..n + 1 /\ DOMAIN given = 1..n
      /\ \A i \in 1..n : given'[i] = given[i]
  BY <1>1
<1>3. given'[n + 1] \in Segment
  BY <1>1, <1>2
<1>4. given'[n + 1].seq \in Sequence
  BY <1>3 DEF Segment
<1>5. ASSUME given # <<>>
      PROVE  /\ given'[n + 1].seq >= given[n].seq + 1
             /\ given[n].init # NoInit => given'[n + 1].init # NoInit
  <2>1. n >= 1 /\ n \in DOMAIN given /\ given[n] \in Segment
    BY <1>1, <1>5
  <2>2. given[n].seq \in Sequence /\ given'[n] = given[n]
    BY <1>2, <2>1 DEF Segment
  <2>3. given'[n + 1].seq > given[n].seq
    <3>1. n + 1 \in DOMAIN given' /\ n + 1 > 1 /\ (n + 1) - 1 = n
      BY <1>1, <1>2, <2>1
    <3> HIDE DEF n
    <3>2. given'[n + 1].seq > given'[(n + 1) - 1].seq
      BY <1>1, <3>1 DEF JumpsReset
    <3> QED BY <2>2, <3>1, <3>2
  <2>4. given'[n + 1].init = InitUrl[given'[n + 1].seq] /\ given[n].init = InitUrl[given[n].seq]
    BY <1>2, <2>1 DEF Mapped
  <2>5. given'[n + 1].seq \in Nat /\ given[n].seq \in Nat
    BY <1>4, <2>2 DEF Sequence
  <2> QED BY <1>4, <2>2, <2>3, <2>4, <2>5, OneContainer
<1> QED BY <1>2, <1>4, <1>5 DEF Sequence

\* The source of the current run, which has no segment in hand, gives one, ends or waits.
LEMMA SourceGives ==
  ASSUME HlsInv, HlsInv', Mapped(given), Mapped(given'), out \in Seq(Message),
         NEW p, p.mode = "hls", NEW a, NEW b, Standing(p, a, out, given, outcome),
         Contained(p, out, given), ~HasOne(p, a.pc, outcome), a.pc # "load", b.pc = "ask",
         \/ given' = given /\ outcome' # "meta"
         \/ outcome' = "meta" /\ \E m : given' = Append(given, m)
  PROVE  /\ Standing(p, b, out, given', outcome') /\ InHand(p, b, given', outcome')
         /\ Contained(p, out, given')
<1>1. InHand(p, b, given', outcome')
  BY DEF InHand, Busy
<1>2. /\ Unended(out) /\ Place(p, a, given, outcome) \in Nat
      /\ AllBefore(out, Place(p, a, given, outcome))
      /\ \A i \in DOMAIN given : Posted(out, given[i].seq)
  BY DEF Standing
<1>3. CASE given' = given /\ outcome' # "meta"
  <2>1. ~HasOne(p, b.pc, outcome')
    BY <1>3 DEF HasOne
  <2>2. Place(p, b, given', outcome') = Place(p, a, given, outcome)
    BY <1>3, <2>1 DEF Place, Count
  <2>3. Standing(p, b, out, given', outcome')
    BY <1>2, <1>3, <2>2 DEF Standing
  <2> QED BY <1>1, <1>3, <2>3
<1>4. ASSUME outcome' = "meta", NEW m, given' = Append(given, m)
      PROVE  Standing(p, b, out, given', outcome') /\ Contained(p, out, given')
  <2> DEFINE n == Len(given')
  <2>1. /\ given' # <<>> /\ n = Len(given) + 1 /\ given'[n].seq \in Nat
        /\ \A i \in DOMAIN given : given'[i] = given[i] /\ i \in DOMAIN given'
        /\ \A i \in DOMAIN given' : i \in DOMAIN given \/ i = n
        /\ given # <<>> => /\ given'[n].seq >= given[Len(given)].seq + 1
                           /\ given[Len(given)].init # NoInit => given'[n].init # NoInit
    BY <1>4, GivenGrows
  <2>2. HasOne(p, b.pc, outcome')
    BY <1>4 DEF HasOne
  <2>3. Place(p, b, given', outcome') = given'[n].seq
    BY <2>1, <2>2 DEF Place, Count
  <2>4. Place(p, a, given, outcome) <= given'[n].seq
    BY <1>2, <2>1 DEF Place, Count
  <2>5. AllBefore(out, given'[n].seq)
    BY <1>2, <2>1, <2>4, BeforeMore
  <2>6. \A i \in DOMAIN given' : i < n => Posted(out, given'[i].seq)
    BY <1>2, <2>1
  <2>7. Standing(p, b, out, given', outcome')
    BY <1>2, <2>1, <2>2, <2>3, <2>5, <2>6 DEF Standing
  <2>8. Contained(p, out, given')
    BY <2>1 DEF Contained
  <2> QED BY <2>7, <2>8
<1> QED BY <1>1, <1>3, <1>4

\* What a turn of next() comes to.
LEMMA ServeGives ==
  ASSUME NEW h \in Source, Serve(h)
  PROVE  /\ \/ given' = given /\ outcome' # "meta"
            \/ outcome' = "meta" /\ \E m : given' = Append(given, m)
         /\ hls'.phase # "idle" <=> outcome' = "wait"
<1>1. CASE h.nextIndex < Len(h.segments)
  <2>1. /\ \E m : given' = Append(given, m)
        /\ outcome' = "meta"
        /\ hls' = [h EXCEPT !.nextIndex = @ + 1, !.resetPending = FALSE, !.phase = "idle"]
    BY <1>1 DEF Serve, Source
  <2>2. hls'.phase = "idle"
    BY <2>1 DEF Source
  <2> QED BY <2>1, <2>2
<1>2. CASE ~(h.nextIndex < Len(h.segments))
  BY <1>2 DEF Serve, Source
<1> QED BY <1>1, <1>2

LEMMA AskPlays ==
  ASSUME Rest, HlsInv, HlsInv', Mapped(given), Mapped(given'), Playing,
         NEW r \in DOMAIN runs, AskSource(r)
  PROVE  Playing'
<1>1. r = pipe.run /\ runs[r].pc = "top" /\ out' = out /\ UNCHANGED ldrVars
  BY DEF AskSource, Passes, Stale, At, Silent
<1>2. /\ r # 0 /\ runs \in Seq(Run) /\ runs[r] \in Run /\ pipe \in Pipe /\ out \in Seq(Message)
      /\ runs[r].cycles \in Nat /\ InOrder(out)
      /\ Along(pipe, runs[r], out, given, outcome, hls.phase, ldr, reqs, fed)
  BY <1>1, RunFacts
<1>3. /\ Standing(pipe, runs[r], out, given, outcome) /\ Contained(pipe, out, given)
      /\ Unended(out)
  BY <1>1, <1>2 DEF Along, Standing
<1>4. ~HasOne(pipe, runs[r].pc, outcome)
  BY <1>1 DEF HasOne, Busy
<1>5. CASE pipe.mode = "hls"
  <2>1. Ask /\ runs' = To(r, "ask") /\ pipe' = pipe
    BY <1>5 DEF AskSource
  <2>2. runs'[r].pc = "ask"
    BY <1>2, <2>1, ToGives DEF AtPoint
  <2>3. /\ \/ given' = given /\ outcome' # "meta"
           \/ outcome' = "meta" /\ \E m : given' = Append(given, m)
        /\ hls'.phase # "idle" <=> outcome' = "wait"
    <3>1. hls \in Source
      BY DEF HlsInv, HlsTypeOK
    <3>2. CASE hls.initialized
      BY <2>1, <3>1, <3>2, ServeGives DEF Ask
    <3>3. CASE ~hls.initialized
      BY <2>1, <3>1, <3>3 DEF Ask, Source
    <3> QED BY <3>2, <3>3
  <2>4. /\ Standing(pipe, runs'[r], out, given', outcome') /\ InHand(pipe, runs'[r], given', outcome')
        /\ Contained(pipe, out, given')
    <3>1. out \in Seq(Message) /\ runs[r].pc # "load"
      BY <1>1, <1>2
    <3> HIDE DEF HasOne, Standing
    <3> QED BY <1>3, <1>4, <1>5, <2>2, <2>3, <3>1, SourceGives
  <2>5. Along(pipe', runs'[r], out', given', outcome', hls'.phase, ldr', reqs', fed')
    BY <1>1, <2>1, <2>2, <2>3, <2>4 DEF Along, Asked
  <2> QED BY <1>1, <1>2, <1>3, <2>1, <2>5, StepPlays
<1>6. CASE pipe.mode = "static"
  <2> DEFINE m == IF pipe.index < Len(pipe.items) THEN Item(pipe.items[pipe.index + 1], pipe.index)
                  ELSE Item("none", pipe.index)
             x == [runs[r] EXCEPT !.pc = "got", !.meta = m]
  <2>1. /\ runs' = [runs EXCEPT ![r].pc = "got", ![r].meta = m] /\ UNCHANGED hlsVars
        /\ pipe' = [pipe EXCEPT !.index = @ + 1]
    BY <1>6 DEF AskSource
  <2>2. runs'[r] = x
    BY <1>2, <2>1
  <2> HIDE DEF m
  <2>3. x.pc = "got" /\ x.meta = m
    BY <1>2 DEF Run
  <2> HIDE DEF x
  <2>4. /\ pipe'.index = pipe.index + 1 /\ pipe'.mode = "static" /\ pipe'.items = pipe.items
        /\ pipe'.fmp4 = pipe.fmp4 /\ pipe'.run = pipe.run /\ pipe.index \in Nat
        /\ pipe.items \in Seq(Kinds)
    BY <1>2, <1>6, <2>1 DEF Pipe
  <2>5. InHand(pipe', x, given, outcome)
    BY <2>3, <2>4 DEF InHand, m, Busy
  <2>6. Place(pipe, runs[r], given, outcome) = pipe.index
        /\ Place(pipe', x, given, outcome) = pipe.index
    BY <1>4, <1>6, <2>3, <2>4 DEF Place, Count, HasOne
  <2>7. Standing(pipe', x, out, given, outcome)
    BY <1>1, <1>3, <1>6, <2>3, <2>4, <2>6 DEF Standing
  <2>8. Contained(pipe', out, given)
    BY <1>3, <1>6, <2>4 DEF Contained
  <2>9. Along(pipe', runs'[r], out', given', outcome', hls'.phase, ldr', reqs', fed')
    BY <1>1, <2>1, <2>2, <2>3, <2>4, <2>5, <2>7, <2>8 DEF Along, Asked, hlsVars
  <2> QED BY <1>1, <1>2, <1>3, <2>4, <2>9, StepPlays
<1>7. CASE pipe.mode = "live"
  <2> DEFINE m == Item(pipe.items[1], runs[r].cycles)
             c == runs[r].cycles + 1
             y == [runs[r] EXCEPT !.pc = "got", !.cycles = c]
             x == [y EXCEPT !.meta = m]
  <2>1. /\ runs' = [runs EXCEPT ![r].pc = "got", ![r].cycles = c, ![r].meta = m] /\ UNCHANGED hlsVars
        /\ pipe' = pipe
    BY <1>7 DEF AskSource
  <2>2. runs'[r] = x
    BY <1>2, <2>1
  <2> HIDE DEF m, c
  <2>3. y.pc = "got" /\ y.cycles = c /\ DOMAIN y = {"pc", "held", "load", "meta", "cycles"}
    BY <1>2 DEF Run
  <2> HIDE DEF y
  <2>4. x.pc = "got" /\ x.meta = m /\ x.cycles = c
    BY <2>3
  <2> HIDE DEF x
  <2>5. c = runs[r].cycles + 1 /\ runs[r].cycles \in Nat
    BY <1>2 DEF c
  <2>6. InHand(pipe, x, given, outcome)
    BY <1>7, <2>4, <2>5 DEF InHand, m, Busy
  <2>7. Place(pipe, runs[r], given, outcome) = runs[r].cycles
        /\ Place(pipe, x, given, outcome) = runs[r].cycles
    BY <1>4, <1>7, <2>4, <2>5 DEF Place, Count, HasOne
  <2>8. Standing(pipe, x, out, given, outcome)
    BY <1>1, <1>3, <1>7, <2>4, <2>7 DEF Standing
  <2>9. Along(pipe', runs'[r], out', given', outcome', hls'.phase, ldr', reqs', fed')
    BY <1>1, <1>3, <1>7, <2>1, <2>2, <2>4, <2>6, <2>8 DEF Along, Asked, hlsVars
  <2> QED BY <1>1, <1>2, <1>3, <2>1, <2>9, StepPlays
<1> QED BY <1>5, <1>6, <1>7 DEF AskSource

\* The playlist source moves only for the current run, which waits for it.
LEMMA PlaylistPlays ==
  ASSUME Rest, HlsInv, HlsInv', Mapped(given), Mapped(given'), Playing, PlaylistStep
  PROVE  Playing'
<1>1. pipe.mode = "hls" /\ pipe.alive /\ UNCHANGED wvars /\ UNCHANGED ldrVars
      /\ (Publish \/ Wake \/ FetchMultivariant \/ FetchFails \/ \E p \in Answers : FetchMedia(p))
  BY DEF PlaylistStep
<1>2. hls.phase # "idle" /\ hls \in Source
      /\ server \in [last : -1..LastSequence, live : BOOLEAN, sliding : BOOLEAN]
  BY <1>1 DEF Publish, Wake, FetchMultivariant, FetchFails, FetchMedia, HlsInv, HlsTypeOK
<1> DEFINE r == pipe.run
<1>3. r # 0 /\ r \in DOMAIN runs
  BY <1>1 DEF Playing, Rest, Generations
<1>4. /\ out \in Seq(Message) /\ InOrder(out)
      /\ Along(pipe, runs[r], out, given, outcome, hls.phase, ldr, reqs, fed)
  BY <1>3, RunFacts
<1>5. runs[r].pc = "ask" /\ outcome = "wait"
  BY <1>1, <1>2, <1>4 DEF Along, Asked
<1>6. ~HasOne(pipe, runs[r].pc, outcome)
  BY <1>1, <1>5 DEF HasOne
<1>7. /\ \/ given' = given /\ outcome' # "meta"
         \/ outcome' = "meta" /\ \E m : given' = Append(given, m)
      /\ hls'.phase # "idle" <=> outcome' = "wait"
  <2>1. CASE Publish \/ Wake \/ FetchMultivariant
    BY <1>2, <1>5, <2>1 DEF Publish, Wake, FetchMultivariant, Source
  <2>2. CASE FetchFails
    BY <1>2, <1>5, <2>2 DEF FetchFails, Source
  <2>3. ASSUME NEW p \in Answers, FetchMedia(p)
        PROVE  \E h \in Source : Serve(h)
    <3> DEFINE h == Ingest([hls EXCEPT !.refreshFailures = 0, !.variant = TRUE], p)
               g == IF h.initialized THEN h ELSE AtLiveEdge(h)
    <3>1. Serve(g)
      BY <2>3 DEF FetchMedia
    <3>2. p \in Listing
      BY <1>2, AnswersAreListings
    <3>3. g \in Source
      BY <3>2, Ingesting
    <3> HIDE DEF g
    <3> QED BY <3>1, <3>3
  <2> QED BY <1>1, <2>1, <2>2, <2>3, ServeGives
<1>8. /\ Standing(pipe, runs[r], out, given', outcome') /\ InHand(pipe, runs[r], given', outcome')
      /\ Contained(pipe, out, given')
  <2>1. Standing(pipe, runs[r], out, given, outcome) /\ Contained(pipe, out, given)
    BY <1>4, <1>5 DEF Along
  <2>2. runs[r].pc # "load"
    BY <1>5
  <2> QED BY <1>1, <1>4, <1>5, <1>6, <1>7, <2>1, <2>2, SourceGives
<1>9. UNCHANGED <<pipe, runs, out>>
  BY <1>1 DEF wvars
<1>10. Along(pipe', runs'[r], out', given', outcome', hls'.phase, ldr', reqs', fed')
  BY <1>5, <1>7, <1>8, <1>9 DEF Along, Asked
<1>11. Unended(out)
  BY <1>8 DEF Standing
<1> QED BY <1>3, <1>4, <1>9, <1>10, <1>11, StepPlays

LEMMA AnsweredPlays ==
  ASSUME Rest, Outcome, HlsInv, Playing, NEW r \in DOMAIN runs, Answered(r) PROVE Playing'
<1> DEFINE m == IF outcome = "meta" THEN Last(given) ELSE Item(outcome, 0)
<1>1. /\ r = pipe.run /\ runs[r].pc = "ask" /\ outcome # "wait" /\ UNCHANGED <<pipe, out>>
      /\ UNCHANGED hlsVars /\ UNCHANGED ldrVars /\ runs' = [runs EXCEPT ![r].pc = "got", ![r].meta = m]
  BY DEF Answered, Stale, At, Silent
<1>2. /\ r # 0 /\ runs \in Seq(Run) /\ runs[r] \in Run /\ out \in Seq(Message) /\ InOrder(out)
      /\ Along(pipe, runs[r], out, given, outcome, hls.phase, ldr, reqs, fed)
      /\ Works(pipe, runs[r].meta, runs[r].pc)
  BY <1>1, RunFacts
<1>3. pipe.mode = "hls" /\ Unended(out)
  BY <1>1, <1>2 DEF Works, Along, Standing
<1>4. runs'[r].pc = "got" /\ runs'[r].meta = m
  <2> DEFINE x == [runs[r] EXCEPT !.pc = "got", !.meta = m]
  <2>1. runs'[r] = x
    BY <1>1, <1>2
  <2> HIDE DEF m
  <2>2. x.pc = "got" /\ x.meta = m
    BY <1>2 DEF Run
  <2> QED BY <2>1, <2>2
<1>5. InHand(pipe, runs'[r], given, outcome)
  <2>1. outcome = "meta" => given # <<>> /\ m = given[Len(given)]
    BY DEF Outcome, Last
  <2>2. outcome # "meta" => m = Item(outcome, 0)
    OBVIOUS
  <2> HIDE DEF m
  <2> QED BY <1>1, <1>3, <1>4, <2>1, <2>2 DEF InHand, Busy
<1> HIDE DEF m
<1>6. HasOne(pipe, runs'[r].pc, outcome) = HasOne(pipe, runs[r].pc, outcome)
  BY <1>1, <1>3, <1>4 DEF HasOne
<1>7. Place(pipe, runs'[r], given, outcome) = Place(pipe, runs[r], given, outcome)
  BY <1>3, <1>6 DEF Place, Count
<1>8. Standing(pipe, runs'[r], out, given, outcome)
  BY <1>1, <1>2, <1>4, <1>6, <1>7 DEF Along, Standing
<1>9. Along(pipe', runs'[r], out', given', outcome', hls'.phase, ldr', reqs', fed')
  BY <1>1, <1>2, <1>4, <1>5, <1>8 DEF Along, Asked, hlsVars
<1> QED BY <1>1, <1>2, <1>3, <1>9, StepPlays

\* What the current run was given to load is a segment, and of a playlist its last one.
LEMMA SegmentInHand ==
  ASSUME Rest, Outcome, Playing, NEW r \in DOMAIN runs, r = pipe.run, runs[r].pc = "got",
         Kind(runs[r].meta) \notin {"none", "end", "error"}
  PROVE  Kind(runs[r].meta) \in Kinds /\ (pipe.mode = "hls" => outcome = "meta")
<1> DEFINE m == runs[r].meta
<1>1. /\ m \in Segment \cup Given /\ Works(pipe, m, "got")
      /\ Along(pipe, runs[r], out, given, outcome, hls.phase, ldr, reqs, fed)
  BY RunFacts
<1>2. InHand(pipe, runs[r], given, outcome)
  BY <1>1 DEF Along
<1>3. ASSUME pipe.mode = "hls" PROVE outcome = "meta"
  <2> SUFFICES ASSUME outcome # "meta" PROVE FALSE
    OBVIOUS
  <2>1. m = Item(outcome, 0) /\ outcome # "wait"
    BY <1>2, <1>3 DEF InHand
  <2>2. outcome \in {"end", "error"}
    BY <2>1 DEF Outcome
  <2>3. Kind(m) = outcome
    BY <2>1 DEF Kind, Item
  <2> QED BY <2>2, <2>3
<1>4. Kind(m) \in Kinds
  <2>1. CASE m \in Segment
    BY <2>1, KindOfSegment DEF Kinds
  <2>2. CASE m \in Given
    <3>1. Kind(m) = m.kind /\ m.kind \in Kinds \cup {"none", "end", "error"}
      BY <2>2, KindOfGiven DEF Given
    <3> QED BY <3>1
  <2> QED BY <1>1, <2>1, <2>2
<1> QED BY <1>3, <1>4

LEMMA PreparePlays ==
  ASSUME Rest, Outcome, Playing, NEW r \in DOMAIN runs, Prepare(r) PROVE Playing'
<1> DEFINE m == runs[r].meta
<1>1. PICK pc \in {"gateInit", "gateLoad"} : runs' = To(r, pc)
  BY DEF Prepare
<1>2. /\ r = pipe.run /\ runs[r].pc = "got" /\ out' = out /\ UNCHANGED hlsVars /\ UNCHANGED ldrVars
      /\ Kind(m) \notin {"none", "end", "error"}
      /\ (pipe' = [pipe EXCEPT !.told = FALSE] \/ pipe' = pipe)
  BY DEF Prepare, Stale, At, Silent
<1>3. /\ r # 0 /\ runs \in Seq(Run) /\ pipe \in Pipe /\ out \in Seq(Message) /\ InOrder(out)
      /\ Along(pipe, runs[r], out, given, outcome, hls.phase, ldr, reqs, fed)
  BY <1>2, RunFacts
<1>4. Kind(m) \in Kinds /\ (pipe.mode = "hls" => outcome = "meta")
  BY <1>2, SegmentInHand
<1>5. runs'[r].pc = pc /\ runs'[r].meta = m /\ runs'[r].cycles = runs[r].cycles
  BY <1>1, <1>3, ToGives DEF AtPoint
<1>6. Along(pipe, runs'[r], out, given, outcome, hls.phase, ldr, reqs, fed)
  BY <1>2, <1>3, <1>4, <1>5, NextPoint
<1>7. /\ pipe'.run = r /\ pipe'.mode = pipe.mode /\ pipe'.index = pipe.index
      /\ pipe'.items = pipe.items /\ pipe'.fmp4 = pipe.fmp4 /\ pipe'.chunks = pipe.chunks
  BY <1>2, <1>3 DEF Pipe
<1>8. Along(pipe', runs'[r], out, given, outcome, hls.phase, ldr, reqs, fed)
  BY <1>6, <1>7, SameAlong
<1>9. Along(pipe', runs'[r], out', given', outcome', hls'.phase, ldr', reqs', fed')
  BY <1>2, <1>8 DEF hlsVars, ldrVars
<1>10. Unended(out)
  BY <1>2, <1>3 DEF Along, Standing
<1> QED BY <1>2, <1>3, <1>7, <1>9, <1>10, StepPlays

\* In the steps of an init segment: nothing but the point of the run changes.
LEMMA PointPlays ==
  ASSUME Rest, Playing, NEW r \in DOMAIN runs, r = pipe.run,
         NEW pc \in {"gateInit", "init", "body"},
         runs[r].pc = pc, NEW next \in {"init", "body", "gateLoad"}, runs' = To(r, next)
  PROVE  /\ Along(pipe, runs'[r], out, given, outcome, hls.phase, ldr, reqs, fed)
         /\ runs'[r].pc = next /\ Unended(out)
         /\ pipe.mode = "hls" /\ given # <<>> /\ given[Len(given)].init # NoInit
<1>1. /\ runs \in Seq(Run) /\ Along(pipe, runs[r], out, given, outcome, hls.phase, ldr, reqs, fed)
      /\ Works(pipe, runs[r].meta, runs[r].pc)
  BY RunFacts
<1>2. pipe.mode = "hls" /\ runs[r].meta.init # NoInit
  BY <1>1 DEF Works
<1>3. InHand(pipe, runs[r], given, outcome) /\ Standing(pipe, runs[r], out, given, outcome)
  BY <1>1 DEF Along
<1>4. /\ Kind(runs[r].meta) \in Kinds /\ outcome = "meta" /\ given # <<>>
      /\ runs[r].meta = given[Len(given)]
  BY <1>2, <1>3 DEF InHand, Busy
<1>5. runs'[r].pc = next /\ runs'[r].meta = runs[r].meta /\ runs'[r].cycles = runs[r].cycles
  BY <1>1, ToGives DEF AtPoint
<1>6. Along(pipe, runs'[r], out, given, outcome, hls.phase, ldr, reqs, fed)
  BY <1>1, <1>4, <1>5, NextPoint
<1> QED BY <1>2, <1>3, <1>4, <1>5, <1>6 DEF Standing

LEMMA StartInitPlays ==
  ASSUME Rest, Playing, NEW r \in DOMAIN runs, StartInit(r) PROVE Playing'
<1>1. /\ r = pipe.run /\ runs[r].pc = "gateInit" /\ out' = out /\ UNCHANGED hlsVars
      /\ UNCHANGED ldrVars /\ runs' = To(r, "init") /\ pipe' = [pipe EXCEPT !.fmp4 = TRUE]
  BY DEF StartInit, Passes, Stale, At, Silent
<1>2. r # 0 /\ pipe \in Pipe /\ out \in Seq(Message) /\ InOrder(out)
  BY <1>1, RunFacts
<1>3. /\ Along(pipe, runs'[r], out, given, outcome, hls.phase, ldr, reqs, fed)
      /\ runs'[r].pc = "init" /\ Unended(out)
      /\ pipe.mode = "hls" /\ given # <<>> /\ given[Len(given)].init # NoInit
  BY <1>1, PointPlays
<1>4. /\ pipe'.run = r /\ pipe'.mode = pipe.mode /\ pipe'.index = pipe.index
      /\ pipe'.items = pipe.items /\ pipe'.chunks = pipe.chunks
  BY <1>1, <1>2 DEF Pipe
<1>5. HasOne(pipe', runs'[r].pc, outcome) = HasOne(pipe, runs'[r].pc, outcome)
  BY <1>4 DEF HasOne
<1>6. Place(pipe', runs'[r], given, outcome) = Place(pipe, runs'[r], given, outcome)
  BY <1>4, <1>5 DEF Place, Count
<1>7. Standing(pipe', runs'[r], out, given, outcome)
  BY <1>3, <1>4, <1>5, <1>6 DEF Along, Standing
<1>8. InHand(pipe', runs'[r], given, outcome) /\ Contained(pipe', out, given)
  BY <1>3, <1>4 DEF Along, InHand, Contained
<1>9. Along(pipe', runs'[r], out', given', outcome', hls'.phase, ldr', reqs', fed')
  BY <1>1, <1>3, <1>4, <1>7, <1>8 DEF Along, Asked, hlsVars
<1> QED BY <1>1, <1>2, <1>3, <1>4, <1>9, StepPlays

LEMMA InitResponsePlays ==
  ASSUME Rest, Playing, NEW r \in DOMAIN runs, InitResponse(r) PROVE Playing'
<1>1. /\ r = pipe.run /\ runs[r].pc = "init" /\ UNCHANGED <<out, pipe>> /\ UNCHANGED hlsVars
      /\ UNCHANGED ldrVars /\ runs' = To(r, "body")
  BY DEF InitResponse, Stale, At, Silent
<1>2. r # 0 /\ out \in Seq(Message) /\ InOrder(out)
  BY <1>1, RunFacts
<1>3. Along(pipe, runs'[r], out, given, outcome, hls.phase, ldr, reqs, fed) /\ Unended(out)
  BY <1>1, PointPlays
<1>4. Along(pipe', runs'[r], out', given', outcome', hls'.phase, ldr', reqs', fed')
  BY <1>1, <1>3 DEF hlsVars, ldrVars
<1> QED BY <1>1, <1>2, <1>3, <1>4, StepPlays

\* An init segment is no media.
LEMMA InitPosted ==
  ASSUME NEW q \in Seq(Message), NEW e \in Message, e.kind = "init", NEW p, NEW run, NEW g, NEW oc,
         Standing(p, run, q, g, oc), Contained(p, q, g)
  PROVE  Standing(p, run, Append(q, e), g, oc) /\ Contained(p, Append(q, e), g)
<1> DEFINE z == Append(q, e)
<1>1. /\ \A n : Posted(q, n) => Posted(z, n)
      /\ Unended(q) => Unended(z)
      /\ \A n : AllBefore(q, n) => AllBefore(z, n)
      /\ \A n : AllUpTo(q, n) => AllUpTo(z, n)
  BY Grown
<1> HIDE DEF z
<1>2. Standing(p, run, z, g, oc) /\ Contained(p, z, g)
  BY <1>1 DEF Standing, Contained
<1> QED BY <1>2 DEF z

LEMMA InitBodyPlays ==
  ASSUME Rest, Playing, NEW r \in DOMAIN runs, InitBody(r) PROVE Playing'
<1> DEFINE m == runs[r].meta
           e == [gen |-> gen, load |-> runs[r].load, kind |-> "init", seq |-> m.seq, init |-> m.init]
<1>1. /\ r = pipe.run /\ runs[r].pc = "body" /\ out' = Append(out, e) /\ UNCHANGED hlsVars
      /\ UNCHANGED ldrVars /\ runs' = To(r, "gateLoad")
      /\ pipe' = [pipe EXCEPT !.initSent = TRUE, !.lastInit = m.init]
  BY DEF InitBody, Stale, At, Post
<1>2. r # 0 /\ pipe \in Pipe /\ out \in Seq(Message) /\ InOrder(out) /\ m \in Segment \cup Given
  BY <1>1, RunFacts
<1>3. /\ Along(pipe, runs'[r], out, given, outcome, hls.phase, ldr, reqs, fed)
      /\ runs'[r].pc = "gateLoad" /\ Unended(out)
  BY <1>1, PointPlays
<1>4. /\ pipe'.run = r /\ pipe'.mode = pipe.mode /\ pipe'.index = pipe.index
      /\ pipe'.items = pipe.items /\ pipe'.chunks = pipe.chunks /\ pipe'.fmp4 = pipe.fmp4
  BY <1>1, <1>2 DEF Pipe
<1>5. e \in Message /\ e.kind = "init"
  <2>1. m.seq \in Nat /\ m.init \in Inits /\ runs[r].load = gen /\ gen \in Nat
    BY <1>1, <1>2, MetaIs, CurrentRun
  <2> QED BY <2>1 DEF Message
<1> HIDE DEF e
<1>6. out' \in Seq(Message) /\ Unended(out') /\ InOrder(out')
  BY <1>1, <1>2, <1>3, <1>5, Grown
<1>7. Along(pipe', runs'[r], out, given, outcome, hls.phase, ldr, reqs, fed)
  BY <1>3, <1>4, SameAlong
<1>8. /\ Standing(pipe', runs'[r], out, given, outcome) /\ Contained(pipe', out, given)
      /\ InHand(pipe', runs'[r], given, outcome) /\ Asked(pipe', runs'[r], outcome, hls.phase)
  BY <1>3, <1>7 DEF Along
<1>9. Standing(pipe', runs'[r], out', given, outcome) /\ Contained(pipe', out', given)
  BY <1>1, <1>2, <1>5, <1>8, InitPosted
<1>10. Along(pipe', runs'[r], out', given', outcome', hls'.phase, ldr', reqs', fed')
  BY <1>1, <1>3, <1>8, <1>9 DEF Along, hlsVars
<1> QED BY <1>2, <1>4, <1>6, <1>10, StepPlays

LEMMA InitFailsPlays ==
  ASSUME Rest, Playing, NEW r \in DOMAIN runs, InitFails(r) PROVE Playing'
<1>1. /\ r = pipe.run /\ runs[r].pc \in {"init", "body"} /\ pipe' = pipe /\ UNCHANGED hlsVars
      /\ runs' = To(r, "done") /\ out' = Post(r, "error", runs[r].meta.seq, NoInit)
  BY DEF InitFails, Stale
<1>2. runs[r].meta.seq \in Nat
  BY <1>1, RunFacts, MetaIs
<1> QED BY <1>1, <1>2, EndPlays

LEMMA FailurePlays ==
  ASSUME Rest, Playing, NEW r \in DOMAIN runs, NEW q, LoadFails(r, q) \/ \E n : Unsupported(r, q, n)
  PROVE  Playing'
<1>1. /\ r = pipe.run /\ runs[r].pc = "load" /\ pipe' = pipe /\ UNCHANGED hlsVars
      /\ runs' = To(r, "done") /\ out' = Post(r, "error", runs[r].meta.seq, NoInit)
  BY DEF LoadFails, Unsupported, Loading
<1>2. runs[r].meta.seq \in Nat
  BY <1>1, RunFacts, MetaIs
<1> QED BY <1>1, <1>2, EndPlays

LEMMA SourceOverPlays ==
  ASSUME Rest, Outcome, HlsInv, Playing, NEW r \in DOMAIN runs, SourceOver(r) PROVE Playing'
<1> DEFINE m == runs[r].meta
<1>1. /\ r = pipe.run /\ runs[r].pc = "got" /\ pipe' = pipe /\ UNCHANGED hlsVars
      /\ runs' = To(r, "done") /\ Kind(m) \in {"none", "end", "error"}
      /\ out' = Post(r, IF Kind(m) = "error" THEN "error" ELSE "complete", 0, NoInit)
  BY DEF SourceOver, Stale, At
<1>2. /\ r # 0 /\ runs \in Seq(Run) /\ pipe \in Pipe /\ out \in Seq(Message) /\ InOrder(out)
      /\ Along(pipe, runs[r], out, given, outcome, hls.phase, ldr, reqs, fed)
      /\ Works(pipe, m, "got") /\ runs[r].load = gen /\ gen \in Nat /\ m \in Segment \cup Given
  BY <1>1, RunFacts, CurrentRun
<1>3. CASE Kind(m) = "error"
  BY <1>1, <1>3, EndPlays
<1>4. CASE Kind(m) # "error"
  <2> DEFINE e == [gen |-> gen, load |-> runs[r].load, kind |-> "complete", seq |-> 0, init |-> NoInit]
  <2>1. out' = Append(out, e)
    BY <1>1, <1>4 DEF Post
  <2>2. e \in Message /\ e.kind = "complete"
    BY <1>2 DEF Message, Inits
  <2> HIDE DEF e
  <2>3. /\ Standing(pipe, runs[r], out, given, outcome) /\ InHand(pipe, runs[r], given, outcome)
        /\ Unended(out)
    BY <1>1, <1>2 DEF Along, Standing
  <2>4. /\ out' \in Seq(Message) /\ InOrder(out') /\ \A n : Posted(out, n) => Posted(out', n)
    BY <1>2, <2>1, <2>2, <2>3, Grown
  <2>5. \A n \in Wanted : Posted(out, n)
    <3>1. CASE pipe.mode = "hls"
      <4>1. outcome # "meta"
        <5> SUFFICES ASSUME outcome = "meta" PROVE FALSE
          OBVIOUS
        <5>1. given # <<>> /\ m = given[Len(given)] /\ given \in Seq(Segment)
          BY <1>1, <2>3, <3>1 DEF InHand, HlsInv, HlsTypeOK
        <5>2. m \in Segment
          BY <5>1
        <5> QED BY <1>1, <5>2, KindOfSegment
      <4>2. ~HasOne(pipe, runs[r].pc, outcome)
        BY <3>1, <4>1 DEF HasOne
      <4>3. \A i \in DOMAIN given : Posted(out, given[i].seq)
        BY <2>3, <3>1, <4>2 DEF Standing
      <4> QED BY <3>1, <4>3 DEF Wanted
    <3>2. CASE pipe.mode = "live"
      <4>1. pipe.items # <<>> /\ m \in Given /\ m.kind = pipe.items[1] /\ pipe.items \in Seq(Kinds)
        BY <1>2, <3>2 DEF Works, Pipe
      <4>2. Kind(m) \in Kinds
        <5>1. pipe.items[1] \in Kinds
          BY <4>1
        <5> QED BY <4>1, <5>1, KindOfGiven
      <4> QED BY <1>1, <4>2 DEF Kinds
    <3>3. CASE pipe.mode = "static"
      <4>1. /\ pipe.index >= 1 /\ pipe.index \in Nat /\ pipe.items \in Seq(Kinds)
            /\ m = Item(IF pipe.index <= Len(pipe.items) THEN pipe.items[pipe.index] ELSE "none",
                        pipe.index - 1)
        BY <1>1, <1>2, <2>3, <3>3 DEF InHand, Pipe
      <4>2. pipe.index > Len(pipe.items)
        <5> SUFFICES ASSUME pipe.index <= Len(pipe.items) PROVE FALSE
          BY <4>1
        <5>1. pipe.items[pipe.index] \in Kinds
          BY <4>1
        <5>2. Kind(m) = pipe.items[pipe.index]
          BY <4>1 DEF Kind, Item
        <5> QED BY <1>1, <5>1, <5>2 DEF Kinds
      <4>3. Place(pipe, runs[r], given, outcome) = pipe.index - 1
        BY <1>1, <3>3 DEF Place, Count, HasOne
      <4>4. \A n \in 0..pipe.index - 2 : Posted(out, n)
        BY <2>3, <3>3, <4>1, <4>3 DEF Standing
      <4>5. Wanted = 0..Len(pipe.items) - 1 /\ Len(pipe.items) \in Nat
        BY <3>3, <4>1 DEF Wanted
      <4> QED BY <4>1, <4>2, <4>4, <4>5
    <3> QED BY <1>2, <3>1, <3>2, <3>3 DEF Pipe
  <2>6. Finished'
    BY <1>1, <2>4, <2>5 DEF Finished, Wanted, hlsVars
  <2>7. runs'[r].pc = "done"
    BY <1>1, <1>2, ToGives
  <2>8. Asked(pipe', runs'[r], outcome', hls'.phase)
    BY <1>1, <1>2, <2>7 DEF Along, Asked, hlsVars
  <2>9. Now'
    BY <1>1, <2>7, <2>8 DEF Now, Along
  <2> QED BY <1>1, <2>4, <2>6, <2>9 DEF Playing
<1> QED BY <1>3, <1>4

-----------------------------------------------------------------------------
(* A segment while it is loaded                                            *)

\* What is posted is of the segments before it, or of this one.
LEMMA SegmentLoads ==
  ASSUME Rest, Playing, NEW r \in DOMAIN runs, r = pipe.run, runs[r].pc \in {"gateLoad", "load"}
  PROVE  LET m == runs[r].meta IN
         /\ m.seq \in Nat /\ HasOne(pipe, runs[r].pc, outcome) /\ Kind(m) \in Kinds
         /\ Place(pipe, runs[r], given, outcome) = m.seq
         /\ Unended(out) /\ AllUpTo(out, m.seq)
         /\ runs[r].pc # "load" \/ Kind(m) # "ts" => AllBefore(out, m.seq)
         /\ pipe.mode = "hls" => /\ outcome = "meta" /\ m \in Segment
                                 /\ given # <<>> /\ m = given[Len(given)]
         /\ pipe.mode # "hls" => m \in Given /\ pipe.items # <<>> /\ Kind(m) = pipe.items[1]
         /\ pipe.mode # "live" /\ pipe.fmp4 => Kind(m) = "mp4"
<1> DEFINE m == runs[r].meta
<1>1. /\ m \in Segment \cup Given /\ Works(pipe, m, runs[r].pc) /\ pipe \in Pipe
      /\ runs[r].cycles \in Nat
      /\ Along(pipe, runs[r], out, given, outcome, hls.phase, ldr, reqs, fed)
  BY RunFacts
<1>2. /\ Standing(pipe, runs[r], out, given, outcome) /\ InHand(pipe, runs[r], given, outcome)
      /\ Contained(pipe, out, given)
  BY <1>1 DEF Along
<1>3. m.seq \in Nat /\ Kind(m) \in Kinds
  BY <1>1, <1>2, MetaIs DEF InHand, Busy
<1>4. pipe.mode = "hls" => outcome = "meta" /\ given # <<>> /\ m = given[Len(given)] /\ m \in Segment
  BY <1>1, <1>2 DEF InHand, Busy, Works
<1>5. HasOne(pipe, runs[r].pc, outcome)
  BY <1>4 DEF HasOne, Busy
<1>6. pipe.mode = "static" =>
        /\ m.seq = pipe.index - 1 /\ pipe.items # <<>> /\ Kind(m) = pipe.items[1]
  <2> SUFFICES ASSUME pipe.mode = "static"
               PROVE  m.seq = pipe.index - 1 /\ pipe.items # <<>> /\ Kind(m) = pipe.items[1]
    OBVIOUS
  <2>1. /\ pipe.index >= 1 /\ pipe.index \in Nat /\ pipe.items \in Seq(Kinds)
        /\ m = Item(IF pipe.index <= Len(pipe.items) THEN pipe.items[pipe.index] ELSE "none",
                    pipe.index - 1)
    BY <1>1, <1>2 DEF InHand, Busy, Pipe
  <2>2. pipe.index <= Len(pipe.items)
    <3> SUFFICES ASSUME ~(pipe.index <= Len(pipe.items)) PROVE FALSE
      OBVIOUS
    <3>1. Kind(m) = "none"
      BY <2>1 DEF Kind, Item
    <3> QED BY <1>3, <3>1 DEF Kinds
  <2>3. Kind(m) = pipe.items[pipe.index] /\ m.seq = pipe.index - 1
    BY <2>1, <2>2 DEF Kind, Item
  <2>4. pipe.index \in DOMAIN pipe.items /\ 1 \in DOMAIN pipe.items /\ pipe.items # <<>>
    BY <2>1, <2>2
  <2> QED BY <1>2, <2>3, <2>4 DEF Contained
<1>7. pipe.mode = "live" => /\ m.seq = runs[r].cycles - 1 /\ pipe.items # <<>>
                            /\ Kind(m) = pipe.items[1]
  <2>1. ASSUME pipe.mode = "live" PROVE m = Item(pipe.items[1], runs[r].cycles - 1)
    BY <1>2, <2>1 DEF InHand, Busy
  <2>2. ASSUME pipe.mode = "live" PROVE m.seq = runs[r].cycles - 1 /\ Kind(m) = pipe.items[1]
    BY <2>1, <2>2 DEF Item, Kind
  <2> QED BY <1>1, <2>2 DEF Works
<1>8. Place(pipe, runs[r], given, outcome) = m.seq
  <2> HIDE DEF m
  <2>1. CASE pipe.mode = "hls"
    BY <1>3, <1>4, <1>5, <2>1 DEF Place, Count
  <2>2. CASE pipe.mode = "static"
    BY <1>5, <1>6, <2>2 DEF Place, Count
  <2>3. CASE pipe.mode = "live"
    BY <1>5, <1>7, <2>3 DEF Place, Count
  <2> QED BY <1>1, <2>1, <2>2, <2>3 DEF Pipe
<1>9. /\ Unended(out) /\ AllUpTo(out, m.seq)
      /\ runs[r].pc # "load" \/ Kind(m) # "ts" => AllBefore(out, m.seq)
  BY <1>2, <1>8, BeforeUpTo DEF Standing
<1>10. pipe.mode # "hls" => m \in Given /\ pipe.items # <<>> /\ Kind(m) = pipe.items[1]
  <2>1. pipe.mode # "hls" => m \in Given
    BY <1>1 DEF Works
  <2>2. pipe.mode \in {"static", "live", "hls"}
    BY <1>1 DEF Pipe
  <2> QED BY <1>6, <1>7, <2>1, <2>2
<1>11. ASSUME pipe.mode # "live", pipe.fmp4 PROVE Kind(m) = "mp4"
  <2>1. CASE pipe.mode = "hls"
    <3>1. m.init # NoInit
      BY <1>2, <1>4, <1>11, <2>1 DEF Contained
    <3> QED BY <1>4, <2>1, <3>1, KindOfSegment
  <2>2. CASE pipe.mode = "static"
    BY <1>2, <1>6, <1>11, <2>2 DEF Contained
  <2> QED BY <1>1, <1>11, <2>1, <2>2 DEF Pipe
<1> QED BY <1>3, <1>4, <1>5, <1>8, <1>9, <1>10, <1>11

LEMMA StartLoadPlays ==
  ASSUME Rest, Playing, NEW r \in DOMAIN runs, StartLoad(r) PROVE Playing'
<1> DEFINE m == runs[r].meta
<1>1. /\ r = pipe.run /\ runs[r].pc = "gateLoad" /\ UNCHANGED <<pipe, out>> /\ UNCHANGED hlsVars
      /\ runs' = To(r, "load") /\ Open
  BY DEF StartLoad, Passes, Stale, At, Silent
<1>2. /\ r # 0 /\ runs \in Seq(Run) /\ out \in Seq(Message) /\ InOrder(out)
      /\ Along(pipe, runs[r], out, given, outcome, hls.phase, ldr, reqs, fed)
  BY <1>1, RunFacts
<1>3. /\ Standing(pipe, runs[r], out, given, outcome) /\ InHand(pipe, runs[r], given, outcome)
      /\ Contained(pipe, out, given) /\ Asked(pipe, runs[r], outcome, hls.phase)
  BY <1>1, <1>2 DEF Along
<1>4. /\ HasOne(pipe, runs[r].pc, outcome) /\ Place(pipe, runs[r], given, outcome) = m.seq
      /\ AllUpTo(out, m.seq) /\ AllBefore(out, m.seq) /\ m.seq \in Nat /\ Unended(out)
  BY <1>1, SegmentLoads
<1>5. runs'[r].pc = "load" /\ runs'[r].meta = m /\ runs'[r].cycles = runs[r].cycles
  BY <1>1, <1>2, ToGives DEF AtPoint
<1>6. HasOne(pipe, runs'[r].pc, outcome)
  BY <1>1, <1>4, <1>5 DEF HasOne, Busy
<1>7. Place(pipe, runs'[r], given, outcome) = m.seq
  BY <1>4, <1>5, <1>6 DEF Place, Count
<1> HIDE DEF m
<1>8. Standing(pipe, runs'[r], out, given, outcome)
  BY <1>3, <1>4, <1>6, <1>7 DEF Standing
<1>9. InHand(pipe, runs'[r], given, outcome) /\ Asked(pipe, runs'[r], outcome, hls.phase)
  BY <1>1, <1>3, <1>5 DEF InHand, Busy, Asked, m
<1>10. Read(pipe, m, out, ldr', reqs', fed')
  <2>1. reqs' = {NewRequest({})} /\ NewRequest({}).stage = "connecting"
    BY <1>1 DEF Open, NewRequest
  <2> QED BY <2>1 DEF Read
<1>11. Along(pipe', runs'[r], out', given', outcome', hls'.phase, ldr', reqs', fed')
  BY <1>1, <1>3, <1>5, <1>8, <1>9, <1>10 DEF Along, hlsVars
<1> QED BY <1>1, <1>2, <1>4, <1>11, StepPlays

LEMMA ResponsePlays ==
  ASSUME Rest, LoaderInv, Playing, NEW r \in DOMAIN runs, NEW q, ResponseArrives(r, q) PROVE Playing'
<1> DEFINE m == runs[r].meta
           stage == IF Kind(m) = "list" THEN "text" ELSE "reading"
           x == [q EXCEPT !.stage = stage]
           l == [ldr EXCEPT !.status = IF stage = "text" THEN "idle" ELSE @]
<1>1. /\ r = pipe.run /\ runs[r].pc = "load" /\ UNCHANGED <<pipe, out, runs>> /\ UNCHANGED hlsVars
      /\ Current(q) /\ q.stage = "connecting" /\ reqs' = (reqs \ {q}) \cup {x} /\ fed' = fed
      /\ ldr' = l
  BY DEF ResponseArrives, Loading, Respond, Silent
<1>2. /\ r # 0 /\ out \in Seq(Message) /\ InOrder(out)
      /\ Along(pipe, runs[r], out, given, outcome, hls.phase, ldr, reqs, fed)
  BY <1>1, RunFacts
<1>3. /\ q \in Request /\ ~q.aborted /\ q.got = 0 /\ q.got = fed + ldr.used
      /\ ldr \in Loader /\ fed \in Nat /\ \A z \in reqs \ {q} : z.aborted
  <2>1. q \in reqs /\ ~q.aborted /\ q \in Request /\ \A z \in reqs \ {q} : z.aborted
    BY <1>1, CurrentIs DEF Current
  <2> QED BY <1>1, <2>1 DEF LoaderInv
<1>4. fed = 0 /\ ldr.used = 0 /\ l.used = 0
  BY <1>3 DEF Loader
<1>5. x.stage = stage /\ x.got = 0
  BY <1>3 DEF Request
<1> HIDE DEF x, l
<1>6. Read(pipe', m, out', ldr', reqs', fed')
  <2> SUFFICES ASSUME NEW z \in reqs', ~z.aborted, z.stage = "reading"
               PROVE  /\ Kind(m) # "list"
                      /\ Kind(m) = "ts" => ldr'.used < Packet /\ (fed' > 0 => Posted(out', m.seq))
                      /\ Kind(m) = "mp4" /\ z.got > 0 => pipe'.fmp4 /\ pipe'.chunks
                      /\ Kind(m) = "junk" => fed' = 0 /\ ldr'.used < Packet
    BY DEF Read
  <2>1. z = x
    BY <1>1, <1>3
  <2>2. 0 < Packet
    BY WorkerAssumption
  <2> QED BY <1>1, <1>4, <1>5, <2>1, <2>2
<1>7. Along(pipe', runs'[r], out', given', outcome', hls'.phase, ldr', reqs', fed')
  BY <1>1, <1>2, <1>6 DEF Along, hlsVars
<1>8. Unended(out)
  BY <1>1, SegmentLoads
<1> QED BY <1>1, <1>2, <1>7, <1>8, StepPlays

\* p is q with more of segment n.
Further(q, n, p) ==
  /\ p \in Seq(Message) /\ InOrder(p) /\ Unended(p) /\ AllUpTo(p, n)
  /\ \A k : Posted(q, k) => Posted(p, k)

LEMMA MediaGives ==
  ASSUME Rest, Playing, NEW r \in DOMAIN runs, r = pipe.run, runs[r].pc = "load"
  PROVE  LET m == runs[r].meta IN
         Further(out, m.seq, Media(r, m)) /\ Posted(Media(r, m), m.seq)
<1> DEFINE m == runs[r].meta
           a == [gen |-> gen, load |-> runs[r].load, kind |-> "init", seq |-> m.seq, init |-> "ts"]
           b == [gen |-> gen, load |-> runs[r].load, kind |-> "media", seq |-> m.seq, init |-> "ts"]
<1>1. Media(r, m) = IF ~pipe.told THEN out \o <<a, b>>
                    ELSE IF out # <<>> /\ Last(out) = b THEN out ELSE Append(out, b)
  BY DEF Media
<1>2. /\ runs[r].load = gen /\ gen \in Nat /\ out \in Seq(Message) /\ InOrder(out)
      /\ m.seq \in Nat /\ Unended(out) /\ AllUpTo(out, m.seq)
  BY RunFacts, CurrentRun, SegmentLoads
<1>3. /\ a \in Message /\ a.kind = "init"
      /\ b \in Message /\ b.kind = "media" /\ b.init = "ts" /\ b.seq = m.seq
  BY <1>2 DEF Message, Inits
<1> HIDE DEF a, b
<1>4. ASSUME NEW q \in Seq(Message), Further(out, m.seq, q)
      PROVE  Further(out, m.seq, Append(q, b)) /\ Posted(Append(q, b), m.seq)
  BY <1>3, <1>4, Grown DEF Further
<1>5. Further(out, m.seq, out)
  BY <1>2 DEF Further
<1>6. CASE ~pipe.told
  <2>1. Media(r, m) = Append(Append(out, a), b) /\ Append(out, a) \in Seq(Message)
    BY <1>1, <1>2, <1>3, <1>6, ConcatTwo
  <2>2. Further(out, m.seq, Append(out, a))
    BY <1>2, <1>3, Grown DEF Further
  <2> QED BY <1>4, <2>1, <2>2
<1>7. CASE pipe.told /\ out # <<>> /\ Last(out) = b
  <2>1. Len(out) \in DOMAIN out /\ out[Len(out)] = b
    BY <1>2, <1>7 DEF Last
  <2>2. Posted(out, m.seq)
    BY <1>3, <2>1 DEF Posted
  <2> QED BY <1>1, <1>5, <1>7, <2>2
<1>8. CASE pipe.told /\ ~(out # <<>> /\ Last(out) = b)
  BY <1>1, <1>2, <1>4, <1>5, <1>8
<1> QED BY <1>6, <1>7, <1>8

\* What the demuxer leaves of the bytes of a segment.
LEMMA TakesOf ==
  ASSUME NEW kind, NEW n \in Nat
  PROVE  /\ Takes(kind, n) \in Nat
         /\ kind = "ts" /\ ~pipe.fmp4 => n - Takes(kind, n) < Packet
         /\ kind = "junk" /\ ~pipe.fmp4 => Takes(kind, n) = 0
<1>1. Takes(kind, n) \in Nat
  BY TakesIs
<1>2. ASSUME kind = "ts", ~pipe.fmp4 PROVE n - Takes(kind, n) < Packet
  <2> DEFINE k == n % Packet
  <2>1. k \in 0..Packet - 1
    BY WorkerAssumption
  <2>2. Takes(kind, n) = n - k
    BY <1>2 DEF Takes
  <2> HIDE DEF k
  <2> QED BY <2>1, <2>2, WorkerAssumption
<1>3. kind = "junk" /\ ~pipe.fmp4 => Takes(kind, n) = 0
  BY DEF Takes
<1> QED BY <1>1, <1>2, <1>3

LEMMA ChunkArrivesPlays ==
  ASSUME Rest, LoaderInv, Playing, NEW r \in DOMAIN runs, NEW q, NEW n \in 1..Packet,
         ChunkArrives(r, q, n)
  PROVE  Playing'
<1> DEFINE m == runs[r].meta
           taken == Takes(Kind(m), Offered(n))
           x == [q EXCEPT !.got = @ + n]
           ts == Kind(m) = "ts" /\ ~pipe.fmp4 /\ taken > 0
<1>1. /\ r = pipe.run /\ runs[r].pc = "load" /\ UNCHANGED <<gen, runs>> /\ UNCHANGED hlsVars
      /\ Current(q) /\ q.stage = "reading" /\ reqs' = (reqs \ {q}) \cup {x}
      /\ fed' = fed + taken /\ (Kind(m) = "junk" => Offered(n) < Packet)
  BY DEF ChunkArrives, Loading, Chunk
<1>2. /\ r # 0 /\ out \in Seq(Message) /\ InOrder(out) /\ pipe \in Pipe
      /\ Along(pipe, runs[r], out, given, outcome, hls.phase, ldr, reqs, fed)
  BY <1>1, RunFacts
<1>3. /\ q \in reqs /\ ~q.aborted /\ q \in Request /\ ldr \in Loader /\ fed \in Nat
      /\ \A z \in reqs \ {q} : z.aborted
  BY <1>1, CurrentIs DEF LoaderInv
<1>4. Offered(n) = ldr.used + n /\ Offered(n) \in Nat /\ taken \in Nat
  <2>1. Packet \in Nat /\ n \in Nat /\ ldr.used \in Nat
    BY <1>3, WorkerAssumption DEF Loader
  <2>2. Offered(n) = ldr.used + n /\ Offered(n) \in Nat
    BY <2>1 DEF Offered
  <2> QED BY <2>2, TakesOf
<1>5. ldr'.used = Offered(n) - taken
  <2> DEFINE left == Offered(n) - taken
             start == IF left = 0 THEN 0 ELSE (IF ldr.used = 0 THEN q.got ELSE ldr.start) + taken
  <2>1. ldr' = [ldr EXCEPT !.status = "buffering", !.used = left, !.start = start]
    BY DEF ChunkArrives, Chunk
  <2> HIDE DEF left, start
  <2>2. ldr'.used = left
    BY <1>3, <2>1 DEF Loader
  <2> QED BY <2>2 DEF left
<1>6. /\ m.seq \in Nat /\ HasOne(pipe, runs[r].pc, outcome) /\ Kind(m) \in Kinds
      /\ Place(pipe, runs[r], given, outcome) = m.seq
      /\ Unended(out) /\ AllUpTo(out, m.seq)
      /\ Kind(m) # "ts" => AllBefore(out, m.seq)
      /\ pipe.mode = "hls" => outcome = "meta" /\ m \in Segment /\ given # <<>> /\ m = given[Len(given)]
      /\ pipe.mode # "hls" => m \in Given /\ pipe.items # <<>> /\ Kind(m) = pipe.items[1]
      /\ pipe.mode # "live" /\ pipe.fmp4 => Kind(m) = "mp4"
  BY <1>1, SegmentLoads
<1>7. /\ pipe' \in Pipe /\ pipe'.run = r /\ pipe'.mode = pipe.mode /\ pipe'.items = pipe.items
      /\ pipe'.index = pipe.index
      /\ pipe'.fmp4 = (pipe.fmp4 \/ Kind(m) = "mp4")
      /\ pipe'.chunks = (pipe.chunks \/ Kind(m) = "mp4")
  <2> HIDE DEF taken
  <2>1. \/ Kind(m) # "mp4" /\ (pipe' = [pipe EXCEPT !.told = TRUE] \/ pipe' = pipe)
        \/ Kind(m) = "mp4" /\ pipe' = [pipe EXCEPT !.fmp4 = TRUE, !.chunks = TRUE]
    BY DEF ChunkArrives
  <2> HIDE DEF m
  <2> QED BY <1>1, <1>2, <2>1 DEF Pipe
<1>8. out' = IF ts THEN Media(r, m) ELSE out
  BY DEF ChunkArrives
<1>9. Further(out, m.seq, out') /\ (ts => Posted(out', m.seq)) /\ (~ts => out' = out)
  BY <1>1, <1>2, <1>6, <1>8, MediaGives DEF Further
<1> HIDE DEF x
<1>10. Standing(pipe', runs[r], out', given, outcome)
  <2>1. HasOne(pipe', runs[r].pc, outcome) /\ HasOne(pipe, runs[r].pc, outcome)
    BY <1>6, <1>7 DEF HasOne
  <2>2. Place(pipe', runs[r], given, outcome) = m.seq
    BY <1>6, <1>7, <2>1 DEF Place, Count
  <2>3. IF Kind(m) = "ts" THEN AllUpTo(out', m.seq) ELSE AllBefore(out', m.seq)
    BY <1>6, <1>9 DEF Further
  <2>4. Standing(pipe, runs[r], out, given, outcome)
    BY <1>1, <1>2 DEF Along
  <2> HIDE DEF m
  <2>5. pipe'.mode = "static" => \A k \in 0..m.seq - 1 : Posted(out', k)
    BY <1>6, <1>7, <1>9, <2>4 DEF Standing, Further
  <2>6. pipe'.mode = "hls" =>
          \A i \in DOMAIN given : i < Len(given) \/ ~HasOne(pipe', runs[r].pc, outcome)
                                    => Posted(out', given[i].seq)
    BY <1>7, <1>9, <2>1, <2>4 DEF Standing, Further
  <2> QED BY <1>1, <1>6, <1>9, <2>2, <2>3, <2>5, <2>6 DEF Standing, Further, m
<1>11. InHand(pipe', runs[r], given, outcome) /\ Asked(pipe', runs[r], outcome, hls.phase)
  BY <1>1, <1>2, <1>7 DEF Along, InHand, Asked
<1>12. Contained(pipe', out', given)
  <2>1. Contained(pipe, out, given)
    BY <1>1, <1>2 DEF Along
  <2>2. pipe'.mode # "hls" /\ pipe'.items # <<>> /\ pipe'.items[1] = "list" => AllBefore(out', 0)
    <3>1. CASE pipe.mode # "hls" /\ Kind(m) = "list"
      BY <1>6, <1>7, <1>9, <2>1, <3>1 DEF Contained
    <3>2. CASE ~(pipe.mode # "hls" /\ Kind(m) = "list")
      BY <1>6, <1>7, <3>2
    <3> QED BY <3>1, <3>2
  <2>3. pipe'.mode = "static" /\ pipe'.fmp4 => pipe'.items # <<>> /\ pipe'.items[1] = "mp4"
    BY <1>6, <1>7
  <2>4. pipe'.mode = "hls" /\ pipe'.fmp4 => given # <<>> /\ given[Len(given)].init # NoInit
    <3> SUFFICES ASSUME pipe.mode = "hls", pipe'.fmp4
                 PROVE  given # <<>> /\ given[Len(given)].init # NoInit
      BY <1>7
    <3>1. Kind(m) = "mp4"
      BY <1>6, <1>7
    <3> QED BY <1>6, <3>1, KindOfSegment
  <2> QED BY <1>7, <2>1, <2>2, <2>3, <2>4 DEF Contained
<1>13. ASSUME pipe'.mode # "live" PROVE Read(pipe', m, out', ldr', reqs', fed')
  <2>1. /\ Kind(m) # "list"
        /\ Kind(m) = "ts" => ldr.used < Packet /\ (fed > 0 => Posted(out, m.seq))
        /\ Kind(m) = "junk" => fed = 0 /\ ldr.used < Packet
    BY <1>1, <1>2, <1>3, <1>7, <1>13 DEF Along, Read
  <2>2. Kind(m) # "mp4" => ~pipe.fmp4
    BY <1>6, <1>7, <1>13
  <2>3. Kind(m) = "ts" => ldr'.used < Packet /\ (fed' > 0 => Posted(out', m.seq))
    <3> SUFFICES ASSUME Kind(m) = "ts" PROVE ldr'.used < Packet /\ (fed' > 0 => Posted(out', m.seq))
      OBVIOUS
    <3>1. ldr'.used < Packet
      BY <1>4, <1>5, <2>2, TakesOf
    <3>2. CASE taken > 0
      BY <1>9, <2>2, <3>1, <3>2
    <3>3. CASE ~(taken > 0)
      <4> HIDE DEF taken
      <4>1. fed' = fed
        BY <1>1, <1>3, <1>4, <3>3
      <4> QED BY <1>9, <2>1, <3>1, <4>1 DEF Further
    <3> QED BY <3>2, <3>3
  <2>4. Kind(m) = "junk" => fed' = 0 /\ ldr'.used < Packet
    <3> SUFFICES ASSUME Kind(m) = "junk" PROVE fed' = 0 /\ ldr'.used < Packet
      OBVIOUS
    <3>1. taken = 0
      BY <1>4, <2>2, TakesOf
    <3> HIDE DEF taken
    <3> QED BY <1>1, <1>4, <1>5, <2>1, <3>1
  <2> QED BY <1>7, <2>1, <2>3, <2>4 DEF Read
<1>14. Along(pipe', runs'[r], out', given', outcome', hls'.phase, ldr', reqs', fed')
  BY <1>1, <1>10, <1>11, <1>12, <1>13 DEF Along, hlsVars
<1> QED BY <1>2, <1>7, <1>9, <1>14, StepPlays DEF Further

-----------------------------------------------------------------------------
(* The end of a segment                                                    *)

\* A segment that ends is posted, unless a continuous stream is of no known kind.
LEMMA LoadDonePosts ==
  ASSUME Rest, LoaderInv, Playing, NEW r \in DOMAIN runs, NEW q, LoadDone(r, q)
  PROVE  LET m == runs[r].meta IN
         /\ out' \in Seq(Message) /\ InOrder(out') /\ Unended(out') /\ AllBefore(out', m.seq + 1)
         /\ \A k : Posted(out, k) => Posted(out', k)
         /\ pipe.mode # "live" => Posted(out', m.seq)
         /\ out' = out \/ Kind(m) = "mp4"
<1> DEFINE m     == runs[r].meta
           init  == IF m.init = NoInit THEN "own" ELSE m.init
           fmp4  == pipe.fmp4 /\ pipe.chunks
           known == pipe.initSent \/ m.init = NoInit
           a == [gen |-> gen, load |-> runs[r].load, kind |-> "init", seq |-> m.seq, init |-> init]
           b == [gen |-> gen, load |-> runs[r].load, kind |-> "media", seq |-> m.seq, init |-> init]
           c == [gen |-> gen, load |-> runs[r].load, kind |-> "error", seq |-> m.seq, init |-> NoInit]
<1>1. /\ r = pipe.run /\ runs[r].pc = "load" /\ Current(q) /\ q.stage = "reading" /\ q.got >= Packet
      /\ out' = out \o (IF ~fmp4 THEN <<>> ELSE IF pipe.initSent THEN <<b>>
                        ELSE IF known THEN <<a, b>> ELSE <<c>>)
  BY DEF LoadDone, Loading, Complete
<1>2. /\ out \in Seq(Message) /\ InOrder(out) /\ m \in Segment \cup Given
      /\ Works(pipe, m, "load") /\ runs[r].load = gen /\ gen \in Nat
      /\ Along(pipe, runs[r], out, given, outcome, hls.phase, ldr, reqs, fed)
  BY <1>1, RunFacts, CurrentRun
<1>3. m.seq \in Nat /\ Unended(out) /\ AllUpTo(out, m.seq) /\ Kind(m) \in Kinds
  BY <1>1, SegmentLoads
<1>4. /\ a \in Message /\ a.kind = "init"
      /\ b \in Message /\ b.kind = "media" /\ b.seq = m.seq
  BY <1>2, <1>3, MetaIs DEF Message, Inits
<1>5. fmp4 => Kind(m) = "mp4" /\ known
  BY <1>2 DEF Works
<1>6. \/ ~fmp4 /\ out' = out
      \/ fmp4 /\ (out' = Append(out, b) \/ out' = Append(Append(out, a), b))
  <2> HIDE DEF a, b, c, fmp4, known
  <2>1. /\ out \o <<>> = out /\ out \o <<b>> = Append(out, b)
        /\ out \o <<a, b>> = Append(Append(out, a), b)
    BY <1>2, <1>4, ConcatTwo
  <2> QED BY <1>1, <1>5, <2>1
<1> HIDE DEF a, b, c, known
<1>7. Further(out, m.seq, out) /\ AllBefore(out, m.seq + 1)
  BY <1>2, <1>3, BeforeUpTo DEF Further
<1>8. Further(out, m.seq, Append(out, a)) /\ AllBefore(Append(out, a), m.seq + 1)
  BY <1>4, <1>7, Grown DEF Further
<1>9. ASSUME NEW p, Further(out, m.seq, p), AllBefore(p, m.seq + 1)
      PROVE  /\ Append(p, b) \in Seq(Message) /\ InOrder(Append(p, b)) /\ Unended(Append(p, b))
             /\ AllBefore(Append(p, b), m.seq + 1)
             /\ \A k : Posted(out, k) => Posted(Append(p, b), k)
             /\ Posted(Append(p, b), m.seq)
  <2>1. b.seq < m.seq + 1
    BY <1>3, <1>4
  <2> QED BY <1>4, <1>9, <2>1, Grown DEF Further
<1>10. CASE fmp4
  <2>1. out' = Append(out, b) \/ out' = Append(Append(out, a), b)
    BY <1>6, <1>10
  <2> QED BY <1>5, <1>7, <1>8, <1>9, <1>10, <2>1
<1>11. CASE ~fmp4
  <2>1. out' = out
    BY <1>6, <1>11
  <2>2. ASSUME pipe.mode # "live" PROVE Posted(out, m.seq)
    <3>1. /\ q \in reqs /\ ~q.aborted /\ q.got = fed + ldr.used /\ fed \in Nat /\ ldr.used \in Nat
      BY <1>1, CurrentIs DEF LoaderInv, Loader
    <3>2. /\ Kind(m) # "list"
          /\ Kind(m) = "ts" => ldr.used < Packet /\ (fed > 0 => Posted(out, m.seq))
          /\ Kind(m) = "mp4" /\ q.got > 0 => fmp4
          /\ Kind(m) = "junk" => fed = 0 /\ ldr.used < Packet
      BY <1>1, <1>2, <2>2, <3>1 DEF Along, Read
    <3>3. Packet > 0 /\ Packet \in Nat
      BY WorkerAssumption
    <3>4. q.got > 0
      BY <1>1, <3>1, <3>3
    <3> HIDE DEF fmp4
    <3>5. Kind(m) = "ts"
      BY <1>1, <1>3, <1>11, <3>1, <3>2, <3>3, <3>4 DEF Kinds
    <3> QED BY <1>1, <3>1, <3>2, <3>3, <3>5
  <2> QED BY <1>7, <2>1, <2>2 DEF Further
<1> QED BY <1>10, <1>11

LEMMA LoadDonePlays ==
  ASSUME Rest, LoaderInv, HlsInv, Playing, NEW r \in DOMAIN runs, NEW q, LoadDone(r, q) PROVE Playing'
<1> DEFINE m == runs[r].meta
<1>1. /\ r = pipe.run /\ runs[r].pc = "load" /\ UNCHANGED hlsVars /\ runs' = To(r, "top")
      /\ \E sent : pipe' = [pipe EXCEPT !.chunks = FALSE, !.initSent = sent]
  BY DEF LoadDone, Loading
<1>2. /\ r # 0 /\ runs \in Seq(Run) /\ pipe \in Pipe
      /\ Along(pipe, runs[r], out, given, outcome, hls.phase, ldr, reqs, fed)
  BY <1>1, RunFacts
<1>3. /\ m.seq \in Nat /\ HasOne(pipe, runs[r].pc, outcome)
      /\ Place(pipe, runs[r], given, outcome) = m.seq
      /\ pipe.mode = "hls" => given # <<>> /\ m = given[Len(given)]
      /\ pipe.mode # "hls" => pipe.items # <<>> /\ Kind(m) = pipe.items[1]
  BY <1>1, SegmentLoads
<1>4. /\ out' \in Seq(Message) /\ InOrder(out') /\ Unended(out') /\ AllBefore(out', m.seq + 1)
      /\ \A k : Posted(out, k) => Posted(out', k)
      /\ pipe.mode # "live" => Posted(out', m.seq)
      /\ out' = out \/ Kind(m) = "mp4"
  BY LoadDonePosts
<1>5. /\ Standing(pipe, runs[r], out, given, outcome) /\ Contained(pipe, out, given)
      /\ Asked(pipe, runs[r], outcome, hls.phase)
  BY <1>1, <1>2 DEF Along
<1>6. runs'[r].pc = "top" /\ runs'[r].meta = m /\ runs'[r].cycles = runs[r].cycles
  BY <1>1, <1>2, ToGives DEF AtPoint
<1>7. /\ pipe'.run = r /\ pipe'.mode = pipe.mode /\ pipe'.items = pipe.items
      /\ pipe'.index = pipe.index /\ pipe'.fmp4 = pipe.fmp4
  BY <1>1, <1>2 DEF Pipe
<1> HIDE DEF m
<1>8. ~HasOne(pipe', runs'[r].pc, outcome)
  BY <1>6 DEF HasOne, Busy
<1>9. Place(pipe', runs'[r], given, outcome) = m.seq + 1
  <2>1. Place(pipe, runs[r], given, outcome) = Count(pipe, runs[r], given) - 1
    BY <1>3 DEF Place
  <2>2. Place(pipe', runs'[r], given, outcome) = Count(pipe, runs[r], given)
    BY <1>6, <1>7, <1>8 DEF Place, Count
  <2>3. Count(pipe, runs[r], given) \in Int
    <3>1. CASE pipe.mode = "hls"
      BY <1>3, <3>1 DEF Count
    <3>2. CASE pipe.mode # "hls"
      <4>1. runs[r] \in Run
        BY <1>2
      <4> QED BY <1>2, <3>2, <4>1 DEF Count, Pipe, Run
    <3> QED BY <3>1, <3>2
  <2> QED BY <1>3, <2>1, <2>2, <2>3
<1>10. Standing(pipe', runs'[r], out', given, outcome)
  <2>1. pipe'.mode = "static" => \A n \in 0..m.seq : Posted(out', n)
    <3> SUFFICES ASSUME pipe.mode = "static", NEW n \in 0..m.seq PROVE Posted(out', n)
      BY <1>7
    <3>1. CASE n = m.seq
      BY <1>4, <3>1
    <3>2. CASE n # m.seq
      BY <1>3, <1>4, <1>5, <3>2 DEF Standing
    <3> QED BY <3>1, <3>2
  <2>2. pipe'.mode = "hls" => \A i \in DOMAIN given : Posted(out', given[i].seq)
    <3> SUFFICES ASSUME pipe.mode = "hls", NEW i \in DOMAIN given PROVE Posted(out', given[i].seq)
      BY <1>7
    <3>1. CASE i < Len(given)
      BY <1>4, <1>5, <3>1 DEF Standing
    <3>2. CASE ~(i < Len(given))
      <4>1. given \in Seq(Segment)
        BY DEF HlsInv, HlsTypeOK
      <4>2. i = Len(given)
        BY <3>2, <4>1
      <4> QED BY <1>3, <1>4, <4>2
    <3> QED BY <3>1, <3>2
  <2> QED BY <1>3, <1>4, <1>6, <1>9, <2>1, <2>2 DEF Standing
<1>11. InHand(pipe', runs'[r], given, outcome) /\ Asked(pipe', runs'[r], outcome, hls.phase)
  BY <1>1, <1>5, <1>6, <1>7 DEF InHand, Busy, Asked
<1>12. Contained(pipe', out', given)
  BY <1>3, <1>4, <1>5, <1>7 DEF Contained
<1>13. Along(pipe', runs'[r], out', given', outcome', hls'.phase, ldr', reqs', fed')
  BY <1>1, <1>6, <1>10, <1>11, <1>12 DEF Along, hlsVars
<1> QED BY <1>2, <1>4, <1>7, <1>13, StepPlays

-----------------------------------------------------------------------------
(* Commands, a new run and the decoder                                     *)

\* A run begins with nothing given, and no media of its load posted.
LEMMA RunBegins ==
  ASSUME NEW p, NEW run, NEW q, NEW oc, NEW ph, NEW l, NEW rq, NEW f,
         p.mode \in {"static", "live", "hls"}, p.mode = "static" => p.index = 0,
         run.pc = "top", run.cycles = 0, ph = "idle",
         Unended(q), AllBefore(q, 0), Contained(p, q, <<>>)
  PROVE  Along(p, run, q, <<>>, oc, ph, l, rq, f)
<1>1. ~HasOne(p, run.pc, oc)
  BY DEF HasOne, Busy
<1>2. Place(p, run, <<>>, oc) = 0
  BY <1>1 DEF Place, Count
<1>3. Standing(p, run, q, <<>>, oc)
  BY <1>2 DEF Standing
<1>4. InHand(p, run, <<>>, oc)
  BY DEF InHand, Busy
<1>5. Asked(p, run, oc, ph)
  BY DEF Asked
<1> QED BY <1>3, <1>4, <1>5 DEF Along

LEMMA NewRunBegins ==
  ASSUME NEW rs \in Seq(Run), Len(rs) = Len(runs), runs \in Seq(Run), NEW g \in Nat,
         runs' = Append(rs, NewRun(g))
  PROVE  /\ Len(runs) + 1 # 0
         /\ runs'[Len(runs) + 1].pc = "top" /\ runs'[Len(runs) + 1].cycles = 0
<1>1. runs'[Len(runs) + 1] = NewRun(g) /\ Len(runs) \in Nat
  BY NewRunIs
<1> QED BY <1>1 DEF NewRun

LEMMA DetectHlsPlays ==
  ASSUME Rest, LoaderInv, Playing, NEW r \in DOMAIN runs, NEW q, DetectHls(r, q) PROVE Playing'
<1> DEFINE m == runs[r].meta
<1>1. /\ r = pipe.run /\ runs[r].pc = "load" /\ Current(q) /\ q.stage = "text" /\ Renew
      /\ runs' = Append(To(r, "done"), NewRun(runs[r].load)) /\ out' = out
      /\ pipe' = [pipe EXCEPT !.run = Len(runs) + 1, !.mode = "hls"]
  BY DEF DetectHls, Loading, Silent
<1>2. /\ runs \in Seq(Run) /\ pipe \in Pipe /\ out \in Seq(Message) /\ InOrder(out)
      /\ Works(pipe, m, "load") /\ runs[r].load = gen /\ gen \in Nat
      /\ Along(pipe, runs[r], out, given, outcome, hls.phase, ldr, reqs, fed)
  BY <1>1, RunFacts, CurrentRun
<1>3. Kind(m) = "list"
  BY <1>1 DEF Current, Rest, Download
<1>4. /\ pipe.mode # "hls" /\ pipe.items # <<>> /\ pipe.items[1] = "list" /\ Unended(out)
      /\ ~pipe.fmp4
  <2>1. /\ pipe.mode = "hls" => m \in Segment
        /\ pipe.mode # "hls" => pipe.items # <<>> /\ Kind(m) = pipe.items[1]
        /\ pipe.mode # "live" /\ pipe.fmp4 => Kind(m) = "mp4"
        /\ Unended(out)
    BY <1>1, SegmentLoads
  <2>2. pipe.mode # "hls"
    BY <1>3, <2>1, KindOfSegment
  <2>3. pipe.mode = "live" => ~pipe.fmp4
    BY <1>2, <1>3, <2>1, <2>2 DEF Works
  <2> QED BY <1>3, <2>1, <2>2, <2>3
<1>5. Contained(pipe, out, given)
  BY <1>1, <1>2 DEF Along
<1>6. AllBefore(out, 0)
  BY <1>4, <1>5 DEF Contained
<1>7. pipe'.run = Len(runs) + 1 /\ pipe'.mode = "hls" /\ pipe'.fmp4 = pipe.fmp4 /\ pipe'.items = pipe.items
  <2> DEFINE n == Len(runs) + 1
  <2>1. pipe' = [pipe EXCEPT !.run = n, !.mode = "hls"]
    BY <1>1
  <2> HIDE DEF n
  <2>2. pipe'.run = n /\ pipe'.mode = "hls" /\ pipe'.fmp4 = pipe.fmp4 /\ pipe'.items = pipe.items
    BY <1>2, <2>1 DEF Pipe
  <2> QED BY <2>2 DEF n
<1>8. Contained(pipe', out, <<>>)
  BY <1>4, <1>5, <1>7 DEF Contained
<1>9. To(r, "done") \in Seq(Run) /\ Len(To(r, "done")) = Len(runs)
  BY <1>2, ToDone DEF MovedTo
<1>10. /\ Len(runs) + 1 # 0
       /\ runs'[Len(runs) + 1].pc = "top" /\ runs'[Len(runs) + 1].cycles = 0
  BY <1>1, <1>2, <1>9, NewRunBegins
<1>11. hls'.phase = "idle" /\ given' = <<>>
  BY <1>1 DEF Renew, NewSource
<1>12. Along(pipe', runs'[pipe'.run], out', given', outcome', hls'.phase, ldr', reqs', fed')
  <2>1. Along(pipe', runs'[Len(runs) + 1], out, <<>>, outcome', hls'.phase, ldr', reqs', fed')
    BY <1>4, <1>6, <1>7, <1>8, <1>10, <1>11, RunBegins
  <2> QED BY <1>1, <1>7, <1>11, <2>1
<1> QED BY <1>1, <1>2, <1>4, <1>7, <1>10, <1>12, StepPlays

LEMMA LoadPlays == ASSUME Rest, Playing, NEW l \in Loads, Load(l) PROVE Playing'
<1>1. /\ gen \in Nat /\ runs \in Seq(Run)
  BY DEF Rest, WorkerTypeOK
<1>2. /\ out' = <<>> /\ runs' = Append(Cancelled(Released), NewRun(gen + 1)) /\ Renew
      /\ pipe' = [Fresh EXCEPT !.run = Len(runs) + 1, !.mode = l.mode,
                               !.mp2 = l.mp2, !.items = l.items]
  BY DEF Load
<1>3. l.mode \in {"live", "static"} /\ \A i, j \in DOMAIN l.items : l.items[i] = l.items[j]
  BY WorkerAssumption, OneContainer
<1>4. /\ pipe'.run = Len(runs) + 1 /\ pipe'.mode = l.mode /\ ~pipe'.fmp4 /\ pipe'.items = l.items
      /\ pipe'.index = 0
  <2> DEFINE n == Len(runs) + 1
  <2>1. pipe' = [Fresh EXCEPT !.run = n, !.mode = l.mode, !.mp2 = l.mp2, !.items = l.items]
    BY <1>2
  <2> HIDE DEF n
  <2>2. /\ pipe'.run = n /\ pipe'.mode = l.mode /\ ~pipe'.fmp4 /\ pipe'.items = l.items
        /\ pipe'.index = 0
    BY <2>1 DEF Fresh
  <2> QED BY <2>2 DEF n
<1>5. Cancelled(Released) \in Seq(Run) /\ Len(Cancelled(Released)) = Len(runs)
  BY <1>1, ReleasedIs, CancelledIs DEF SameLoads
<1>6. gen + 1 \in Nat
  BY <1>1
<1>7. /\ Len(runs) + 1 # 0
      /\ runs'[Len(runs) + 1].pc = "top" /\ runs'[Len(runs) + 1].cycles = 0
  <2> DEFINE rs == Cancelled(Released)
             g == gen + 1
  <2>1. rs \in Seq(Run) /\ Len(rs) = Len(runs) /\ g \in Nat /\ runs' = Append(rs, NewRun(g))
    BY <1>2, <1>5, <1>6
  <2> HIDE DEF rs, g
  <2> QED BY <1>1, <2>1, NewRunBegins
<1>8. out' \in Seq(Message) /\ Unended(out') /\ AllBefore(out', 0) /\ InOrder(out')
  BY <1>2 DEF Unended, AllBefore, InOrder
<1>9. Contained(pipe', out', <<>>)
  BY <1>3, <1>4, <1>8 DEF Contained
<1>10. hls'.phase = "idle" /\ given' = <<>>
  BY <1>2 DEF Renew, NewSource
<1>11. Along(pipe', runs'[pipe'.run], out', given', outcome', hls'.phase, ldr', reqs', fed')
  BY <1>3, <1>4, <1>7, <1>8, <1>9, <1>10, RunBegins
<1> QED BY <1>4, <1>7, <1>8, <1>11, StepPlays

\* Of a continuous stream nothing depends on what was read.
LEMMA LiveAlong ==
  ASSUME NEW p, NEW x, NEW a, NEW b, NEW q, NEW g, NEW oc, NEW ph, NEW l, NEW rq, NEW f,
         NEW l2, NEW rq2, NEW f2,
         p.mode = "live", x.mode = p.mode, x.items = p.items,
         b.pc = a.pc, b.meta = a.meta, b.cycles = a.cycles,
         Along(p, a, q, g, oc, ph, l, rq, f)
  PROVE  Along(x, b, q, g, oc, ph, l2, rq2, f2)
<1>1. Asked(x, b, oc, ph)
  BY DEF Asked
<1>2. HasOne(x, b.pc, oc) = HasOne(p, a.pc, oc)
  BY DEF HasOne
<1>3. Place(x, b, g, oc) = Place(p, a, g, oc)
  BY <1>2 DEF Place, Count
<1>4. ASSUME b.pc # "done" PROVE Standing(x, b, q, g, oc)
  BY <1>2, <1>3, <1>4 DEF Along, Standing
<1>5. ASSUME b.pc # "done" PROVE InHand(x, b, g, oc) /\ Contained(x, q, g)
  BY <1>5 DEF Along, InHand, Contained
<1> QED BY <1>1, <1>4, <1>5 DEF Along

\* A command leaves the current run where it is, and what is read of a segment.
LEMMA CommandPlays ==
  ASSUME Rest, Playing, UNCHANGED out, UNCHANGED hlsVars,
         pipe'.run = pipe.run, pipe'.mode = pipe.mode, pipe'.items = pipe.items,
         pipe'.index = pipe.index, pipe'.alive = pipe.alive,
         pipe.run # 0 => AtPoint(runs', pipe.run, runs[pipe.run].pc, runs[pipe.run].meta,
                                 runs[pipe.run].cycles),
         pipe.mode # "live" =>
           /\ UNCHANGED ldrVars /\ pipe'.fmp4 = pipe.fmp4 /\ pipe'.chunks = pipe.chunks
  PROVE  Playing'
<1>1. out \in Seq(Message)
  BY DEF Rest, WorkerTypeOK
<1>2. CASE pipe.mode # "live"
  BY <1>1, <1>2, IdlePlays DEF hlsVars
<1>3. CASE pipe.mode = "live"
  <2>1. Finished'
    BY <1>1, FinishedStays DEF hlsVars
  <2>2. Now'
    BY <1>3, LiveAlong DEF Playing, Now, AtPoint, hlsVars
  <2> QED BY <2>1, <2>2 DEF Playing
<1> QED BY <1>2, <1>3

LEMMA PausePlays == ASSUME Rest, Playing, Pause PROVE Playing'
<1>1. /\ UNCHANGED <<runs, out>> /\ UNCHANGED hlsVars /\ pipe' = [pipe EXCEPT !.paused = TRUE]
      /\ (pipe.mode # "live" => UNCHANGED ldrVars)
  BY DEF Pause
<1>2. pipe \in Pipe
  BY DEF Rest, WorkerTypeOK
<1>3. /\ pipe'.run = pipe.run /\ pipe'.mode = pipe.mode /\ pipe'.items = pipe.items
      /\ pipe'.index = pipe.index /\ pipe'.alive = pipe.alive /\ pipe'.fmp4 = pipe.fmp4
      /\ pipe'.chunks = pipe.chunks
  BY <1>1, <1>2 DEF Pipe
<1> QED BY <1>1, <1>3, CommandPlays DEF AtPoint

\* A run let go is where it was.
LEMMA ReleasedStays ==
  ASSUME runs \in Seq(Run), NEW k \in DOMAIN runs
  PROVE  AtPoint(Released, k, runs[k].pc, runs[k].meta, runs[k].cycles)
<1> DEFINE x == [runs[k] EXCEPT !.held = FALSE]
<1>1. Released[k] = runs[k] \/ Released[k] = x
  BY DEF Released
<1>2. runs[k] \in Run
  OBVIOUS
<1>3. x.pc = runs[k].pc /\ x.meta = runs[k].meta /\ x.cycles = runs[k].cycles
  BY <1>2 DEF Run
<1> QED BY <1>1, <1>3 DEF AtPoint

LEMMA ResumePlays == ASSUME Rest, Playing, Resume PROVE Playing'
<1>1. /\ pipe \in Pipe /\ runs \in Seq(Run) /\ (pipe.run # 0 => pipe.run \in DOMAIN runs)
  BY DEF Rest, WorkerTypeOK, Generations
<1>2. UNCHANGED out /\ UNCHANGED hlsVars /\ runs' = Released
  BY DEF Resume
<1>3. pipe.run # 0 => AtPoint(runs', pipe.run, runs[pipe.run].pc, runs[pipe.run].meta,
                              runs[pipe.run].cycles)
  BY <1>1, <1>2, ReleasedStays
<1>4. /\ pipe'.run = pipe.run /\ pipe'.mode = pipe.mode /\ pipe'.items = pipe.items
      /\ pipe'.index = pipe.index /\ pipe'.alive = pipe.alive
      /\ pipe.mode # "live" =>
           /\ UNCHANGED ldrVars /\ pipe'.fmp4 = pipe.fmp4 /\ pipe'.chunks = pipe.chunks
  <2> DEFINE y == [pipe EXCEPT !.paused = FALSE, !.gate = 0]
             z == [y EXCEPT !.fmp4 = FALSE, !.chunks = FALSE]
  <2>1. \/ pipe.mode = "live" /\ pipe' = z
        \/ pipe' = y /\ UNCHANGED ldrVars
    BY DEF Resume
  <2>2. /\ y \in Pipe /\ y.run = pipe.run /\ y.mode = pipe.mode /\ y.items = pipe.items
        /\ y.index = pipe.index /\ y.alive = pipe.alive /\ y.fmp4 = pipe.fmp4
        /\ y.chunks = pipe.chunks
    BY <1>1 DEF Pipe
  <2> HIDE DEF y
  <2>3. /\ z.run = y.run /\ z.mode = y.mode /\ z.items = y.items
        /\ z.index = y.index /\ z.alive = y.alive
    BY <2>2 DEF Pipe
  <2> HIDE DEF z
  <2> QED BY <2>1, <2>2, <2>3
<1> QED BY <1>2, <1>3, <1>4, CommandPlays

LEMMA ResetPlays == ASSUME Playing, Reset PROVE Playing'
<1>1. out' = out /\ pipe' = NoPipe
  BY DEF Reset
<1>2. pipe'.run = 0 /\ ~pipe'.alive
  BY <1>1 DEF NoPipe, Fresh
<1> QED BY <1>1, <1>2 DEF Playing, Now, Finished

\* q is what was posted with sound behind it.
WithSound(q) ==
  /\ InOrder(out) => InOrder(q)
  /\ Unended(out) => Unended(q)
  /\ \A n : Posted(out, n) => Posted(q, n)
  /\ \A n : AllBefore(out, n) => AllBefore(q, n)
  /\ \A n : AllUpTo(out, n) => AllUpTo(q, n)
  /\ q = out \/ Last(q).kind # "complete"

LEMMA SoundPlays ==
  ASSUME Rest, Playing, UNCHANGED <<pipe, runs>>, UNCHANGED hlsVars, UNCHANGED ldrVars,
         out' \in Seq(Message), WithSound(out')
  PROVE  Playing'
<1>1. InOrder(out')
  BY DEF Playing, WithSound
<1>2. Finished'
  <2>1. CASE out' = out
    BY <2>1, FinishedStays DEF hlsVars
  <2>2. CASE out' # out
    BY <2>2, FinishedStays DEF WithSound
  <2> QED BY <2>1, <2>2
<1>3. ASSUME pipe.run # 0
      PROVE  Along(pipe, runs[pipe.run], out', given, outcome, hls.phase, ldr, reqs, fed)
  <2> DEFINE a == runs[pipe.run]
  <2>1. Along(pipe, a, out, given, outcome, hls.phase, ldr, reqs, fed)
    BY <1>3 DEF Playing, Now
  <2> HIDE DEF a
  <2>2. ASSUME a.pc # "done" PROVE Standing(pipe, a, out', given, outcome) /\ Contained(pipe, out', given)
    BY <2>1, <2>2 DEF Along, Standing, Contained, WithSound
  <2>3. ASSUME a.pc = "load", pipe.mode # "live" PROVE Read(pipe, a.meta, out', ldr, reqs, fed)
    BY <2>1, <2>3 DEF Along, Read, WithSound
  <2>4. Along(pipe, a, out', given, outcome, hls.phase, ldr, reqs, fed)
    BY <2>1, <2>2, <2>3 DEF Along
  <2> QED BY <2>4 DEF a
<1>4. Now'
  BY <1>3 DEF Now, hlsVars, ldrVars
<1> QED BY <1>1, <1>2, <1>4 DEF Playing

LEMMA DecoderPlays == ASSUME Rest, Playing, DecoderReady PROVE Playing'
<1>1. /\ gen \in Nat /\ audio \in Audio /\ FramesFit(audio) /\ out \in Seq(Message) /\ InOrder(out)
  BY DEF Rest, WorkerTypeOK, Generations, FramesFit, Playing
<1>2. UNCHANGED <<pipe, runs>> /\ UNCHANGED hlsVars /\ UNCHANGED ldrVars /\ out' = Decoded
  BY DEF DecoderReady
<1> DEFINE Q == {q \in Seq(Message) : WithSound(q)}
<1>3. ASSUME NEW q \in Q, NEW n \in DOMAIN audio.frames PROVE After(q, n) \in Q
  <2>1. q \in Seq(Message) /\ WithSound(q)
    OBVIOUS
  <2>2. CASE ~audio.frames[n].current
    BY <2>2 DEF After
  <2>3. CASE audio.frames[n].current
    <3> DEFINE e == Pcm(n)
    <3>1. runs[audio.frames[n].run].load = gen
      BY <1>1, <2>3 DEF FramesFit
    <3>2. e \in Message /\ e.kind = "pcm"
      BY <1>1, <3>1 DEF Pcm, Message, Inits
    <3>3. After(q, n) = Append(q, e)
      BY <2>3 DEF After
    <3> HIDE DEF e
    <3>4. Append(q, e) \in Seq(Message) /\ WithSound(Append(q, e))
      <4> DEFINE z == Append(q, e)
      <4>1. /\ z \in Seq(Message) /\ Last(z) = e
            /\ \A k : Posted(q, k) => Posted(z, k)
            /\ Unended(q) => Unended(z)
            /\ \A k : AllBefore(q, k) => AllBefore(z, k)
            /\ \A k : AllUpTo(q, k) => AllUpTo(z, k)
            /\ InOrder(q) => InOrder(z)
        BY <2>1, <3>2, Grown
      <4> HIDE DEF z
      <4>2. WithSound(z)
        BY <2>1, <3>2, <4>1 DEF WithSound
      <4> QED BY <4>1, <4>2 DEF z
    <3> QED BY <3>3, <3>4
  <2> QED BY <2>2, <2>3
<1>4. Decoded \in Q
  <2>1. out \in Q
    BY <1>1 DEF WithSound
  <2> HIDE DEF Q
  <2> QED BY <1>1, <1>3, <2>1, DecodedIs
<1>5. out' \in Seq(Message) /\ WithSound(out')
  BY <1>2, <1>4
<1> QED BY <1>2, <1>5, SoundPlays

-----------------------------------------------------------------------------
(* All steps                                                               *)

LEMMA RunPlays ==
  ASSUME IInv, IInv', Mapped(given), Mapped(given'), Playing, NEW r \in DOMAIN runs,
         RunStep(r) \/ Network(r)
  PROVE  Playing'
<1>1. Rest /\ LoaderInv /\ Outcome /\ HlsInv
  BY RestIs
<1>2. HlsInv'
  BY DEF IInv
<1>3. CASE RunStep(r)
  BY <1>1, <1>2, <1>3, LeavePlays, HoldPlays, AskPlays, AnsweredPlays, SourceOverPlays,
     PreparePlays, StartInitPlays, StartLoadPlays, Zenon DEF RunStep
<1>4. CASE Network(r)
  <2>1. CASE InitResponse(r) \/ InitBody(r) \/ InitFails(r)
    BY <1>1, <2>1, InitResponsePlays, InitBodyPlays, InitFailsPlays, Zenon
  <2>2. ASSUME NEW q, ResponseArrives(r, q) \/ LoadDone(r, q) \/ LoadFails(r, q) \/ DetectHls(r, q)
        PROVE  Playing'
    BY <1>1, <2>2, ResponsePlays, LoadDonePlays, FailurePlays, DetectHlsPlays, Zenon
  <2>3. ASSUME NEW q, NEW n \in 1..Packet, ChunkArrives(r, q, n) \/ Unsupported(r, q, n)
        PROVE  Playing'
    BY <1>1, <2>3, ChunkArrivesPlays, FailurePlays, Zenon
  <2> QED BY <1>4, <2>1, <2>2, <2>3, Zenon DEF Network
<1> QED BY <1>3, <1>4

LEMMA PlayIs == PlayInv <=> Mapped(given) /\ Mapped(hls.segments) /\ Playing
  BY DEF PlayInv, Playing, Now

LEMMA PlayInvStarts == Init => PlayInv
<1> SUFFICES ASSUME Init PROVE PlayInv
  OBVIOUS
<1>1. pipe = NoPipe /\ out = <<>> /\ given = <<>> /\ hls = NewSource
  BY DEF Init, HlsInit
<1>2. pipe.run = 0 /\ ~pipe.alive /\ hls.segments = <<>>
  BY <1>1 DEF NoPipe, Fresh, NewSource
<1> QED BY <1>1, <1>2 DEF PlayInv, Mapped, InOrder, Finished

LEMMA PlayInvStays == ASSUME IInv, PlayInv, [Next]_vars PROVE PlayInv'
<1>1. Rest /\ LoaderInv /\ Outcome /\ HlsInv /\ IInv'
  BY RestIs, WorkerInvStays
<1>2. Playing /\ Mapped(given) /\ Mapped(hls.segments)
  BY PlayIs
<1>3. Mapped(given') /\ Mapped(hls'.segments)
  BY <1>1, <1>2, SourceStep, MapsStay
<1>4. Playing'
  <2>1. CASE UNCHANGED vars
    <3>1. UNCHANGED <<pipe, runs, out>> /\ UNCHANGED hlsVars /\ UNCHANGED ldrVars
      BY <2>1 DEF vars, wvars
    <3> QED BY <1>1, <1>2, <3>1, CommandPlays DEF AtPoint
  <2>2. CASE PlaylistStep
    BY <1>1, <1>2, <1>3, <2>2, PlaylistPlays DEF IInv
  <2>3. CASE \E l \in Loads : Load(l)
    BY <1>1, <1>2, <2>3, LoadPlays
  <2>4. CASE Pause \/ Resume \/ Reset \/ DecoderReady
    BY <1>1, <1>2, <2>4, PausePlays, ResumePlays, ResetPlays, DecoderPlays, Zenon
  <2>5. CASE \E r \in DOMAIN runs : RunStep(r) \/ Network(r)
    BY <1>1, <1>2, <1>3, <2>5, RunPlays
  <2> QED BY <2>1, <2>2, <2>3, <2>4, <2>5, Zenon DEF Next
<1>5. (Mapped(given) /\ Mapped(hls.segments) /\ Playing)' => PlayInv'
  BY PlayIs DEF PlayInv, Playing, Now
<1> QED BY <1>3, <1>4, <1>5

\* Whatever the page commands and however the network, the playlist, the runs and the
\* decoder interleave: the segments of a load are posted in order, each once, nothing
\* but sound follows its end or its error, and the end comes after every segment.
THEOREM WorkerPlaysThrough == Spec => []PlayedThrough
<1>1. ASSUME IInv, PlayInv PROVE PlayedThrough
  <2>1. \A i \in DOMAIN out : out[i].load = gen
    BY <1>1 DEF IInv, WorkerInv, Generations
  <2>2. ASSUME pipe.alive, out # <<>>, Last(out).kind = "complete"
        PROVE  \A n \in Wanted : \E i \in DOMAIN out :
                 out[i].kind = "media" /\ out[i].load = gen /\ out[i].seq = n
    BY <1>1, <2>1, <2>2 DEF PlayInv, Finished, Posted
  <2>3. InOrder(out)
    BY <1>1 DEF PlayInv
  <2> QED BY <2>2, <2>3 DEF PlayedThrough, InOrder
<1>2. Init => IInv /\ PlayInv
  BY WorkerInvStarts, PlayInvStarts
<1>3. IInv /\ PlayInv /\ [Next]_vars => IInv' /\ PlayInv'
  BY WorkerInvStays, PlayInvStays
<1>4. IInv /\ PlayInv => PlayedThrough
  BY <1>1
<1> QED BY <1>2, <1>3, <1>4, PTL DEF Spec
=============================================================================
