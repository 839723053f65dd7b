----------------------------- MODULE HlsSource -----------------------------
(***************************************************************************)
(* The playlist-driven segment source of the web player                    *)
(* (playback-engine/hls/hls-source.ts).  A consumer asks for one segment   *)
(* at a time; the source fetches the playlist, hands out what it has       *)
(* ingested and refreshes when it runs out.  A segment is its media        *)
(* sequence number; the server's playlist is a sliding window of them.     *)
(***************************************************************************)
EXTENDS Integers, Sequences, FiniteSets

CONSTANTS
  LastSequence,        \* bound: the last segment the server publishes
  WindowLen,           \* segments in a live playlist of the server
  Lag,                 \* bound: how old an answer of a cache may be, in segments
  LIVE_EDGE_SEGMENTS,  \* live playback starts this far from the end
  TRIM_ABOVE, KEEP,    \* history is cut to KEEP segments above TRIM_ABOVE
  MAX_REFRESH_FAILURES,
  Begins,              \* where each segment begins, by the durations before it
  Marked,              \* segments after an EXT-X-DISCONTINUITY
  InitUrl, NoInit      \* the EXT-X-MAP of each segment, or NoInit

Sequence == 0..LastSequence

ASSUME HlsAssumption ==
  /\ LastSequence \in Nat /\ WindowLen \in Nat \ {0} /\ Lag \in Nat
  /\ LIVE_EDGE_SEGMENTS \in Nat \ {0}
  /\ KEEP \in Nat \ {0} /\ TRIM_ABOVE \in Nat /\ KEEP <= TRIM_ABOVE
  /\ MAX_REFRESH_FAILURES \in Nat \ {0}
  /\ Begins \in [0..LastSequence+1 -> Nat] /\ \A k \in Sequence : Begins[k] <= Begins[k + 1]
  /\ Marked \subseteq Sequence
  /\ Sequence \subseteq DOMAIN InitUrl

VARIABLES
  server,    \* the newest segment published, and whether more will follow
  hls,       \* the source
  outcome,   \* what the last next() came to: wait, meta, end or error
  given,     \* history: the segments handed out
  listed     \* history: the segments a playlist listed before the source was past
             \* them, from the one playback started with

hlsVars == <<server, hls, outcome, given, listed>>

-----------------------------------------------------------------------------
(* The server (external): a live playlist holds the last WindowLen segments,
   a finished one that never was live holds all of them.                   *)

Playlist(last, live) ==
  [first |-> IF last >= WindowLen /\ server.sliding THEN last - WindowLen + 1 ELSE 0,
   last  |-> last,
   live  |-> live]

\* An answer may come out of a cache and be Lag segments old.
Answers ==
  {Playlist(server.last, server.live)}
    \cup {Playlist(n, TRUE) : n \in {k \in -1..LastSequence : k < server.last /\ k + Lag >= server.last
                                                      /\ server.sliding}}

\* What it publishes shows when the playlist is fetched.
Publish ==
  /\ server.live /\ hls.phase = "fetch"
  /\ \/ /\ server.last < LastSequence
        /\ server' = [server EXCEPT !.last = @ + 1]
     \/ server' = [server EXCEPT !.live = FALSE]
  /\ UNCHANGED <<hls, outcome, given, listed>>

-----------------------------------------------------------------------------
\* A new HlsSource.
NewSource ==
  [phase |-> "idle", initialized |-> FALSE, live |-> TRUE, ended |-> FALSE,
   segments |-> <<>>, nextIndex |-> 0, nextMediaSequence |-> -1, timelinePos |-> 0,
   resetPending |-> TRUE, refreshFailures |-> 0, news |-> TRUE,
   variant |-> FALSE]

\* The segments of playlist p the source has not seen, ready to be appended.
NewSegments(h, p) ==
  LET n == IF h.nextMediaSequence > p.first THEN h.nextMediaSequence ELSE p.first
  IN  [i \in 1..(IF p.last >= n THEN p.last - n + 1 ELSE 0) |->
        LET k == n + i - 1 IN
        [seq      |-> k,
         start    |-> h.timelinePos + Begins[k] - Begins[n],
         duration |-> Begins[k + 1] - Begins[k],
         reset    |-> k \in Marked
                        \/ (h.nextMediaSequence # -1 /\ i = 1 /\ n > h.nextMediaSequence),
         init     |-> InitUrl[k]]]

\* mutant: the position is not moved with the segments
TrimmedInPlace(h) ==
  IF h.live /\ h.news /\ h.nextIndex > TRIM_ABOVE
    THEN [h EXCEPT !.segments = SubSeq(@, h.nextIndex - KEEP + 1, Len(@))]
    ELSE h

\* Trim consumed history to bound memory on a long live stream.
Trimmed(h) ==
  IF h.live /\ h.news /\ h.nextIndex > TRIM_ABOVE
    THEN [h EXCEPT !.segments = SubSeq(@, h.nextIndex - KEEP + 1, Len(@)),
                   !.nextIndex = KEEP]
    ELSE h

Appended(h, p) ==
  LET new == NewSegments(h, p) IN
  [h EXCEPT
    !.live = p.live, !.ended = ~p.live,
    !.segments = @ \o new,
    !.timelinePos = IF new = <<>> THEN @ ELSE new[Len(new)].start + new[Len(new)].duration,
    !.nextMediaSequence = IF new = <<>> THEN @ ELSE p.last + 1,
    !.news = new # <<>>]

Ingest(h, p) == Trimmed(Appended(h, p))

\* mutant: segments to come are not shifted
AtLiveEdgeHalfShifted(h) ==
  LET n    == Len(h.segments)
      idx  == IF h.live /\ n > LIVE_EDGE_SEGMENTS THEN n - LIVE_EDGE_SEGMENTS ELSE 0
      base == IF idx < n THEN h.segments[idx + 1].start ELSE 0
  IN  [h EXCEPT !.nextIndex = idx, !.initialized = TRUE,
                !.segments = [i \in 1..n |-> [h.segments[i] EXCEPT !.start = @ - base]]]

\* The first playlist: a live stream starts near its end, at time 0.
AtLiveEdge(h) ==
  LET n    == Len(h.segments)
      idx  == IF h.live /\ n > LIVE_EDGE_SEGMENTS THEN n - LIVE_EDGE_SEGMENTS ELSE 0
      base == IF idx < n THEN h.segments[idx + 1].start ELSE 0
  IN  [h EXCEPT !.nextIndex = idx,
                !.segments = [i \in 1..n |-> [h.segments[i] EXCEPT !.start = @ - base]],
                !.timelinePos = @ - base,
                !.initialized = TRUE]

\* One turn of next()'s loop.
Serve(h) ==
  \/ /\ h.nextIndex < Len(h.segments)
     /\ LET m == h.segments[h.nextIndex + 1] IN
        given' = Append(given, [m EXCEPT !.reset = @ \/ h.resetPending])
     /\ hls' = [h EXCEPT !.nextIndex = @ + 1, !.resetPending = FALSE, !.phase = "idle"]
     /\ outcome' = "meta"
  \/ /\ h.nextIndex = Len(h.segments)
     /\ h.ended
     /\ hls' = [h EXCEPT !.phase = "idle"]
     /\ outcome' = "end"
     /\ UNCHANGED given
  \/ /\ h.nextIndex = Len(h.segments)
     /\ ~h.ended
     /\ hls' = [h EXCEPT !.phase = "sleep"]
     /\ outcome' = "wait"
     /\ UNCHANGED given

\* next(): the first one loads the playlist.
Ask ==
  /\ hls.phase = "idle"
  /\ IF hls.initialized
       THEN Serve(hls)
       ELSE /\ hls' = [hls EXCEPT !.phase = "fetch"]
            /\ outcome' = "wait"
            /\ UNCHANGED given
  /\ UNCHANGED <<server, listed>>

\* refresh() slept for the target duration, fetchPlaylist() before a retry.
Wake ==
  /\ hls.phase = "sleep"
  /\ hls' = [hls EXCEPT !.phase = "fetch"]
  /\ UNCHANGED <<server, outcome, given, listed>>

\* The answer is a multivariant playlist: its best variant is fetched next.
FetchMultivariant ==
  /\ hls.phase = "fetch" /\ ~hls.variant
  /\ hls' = [hls EXCEPT !.variant = TRUE]
  /\ UNCHANGED <<server, outcome, given, listed>>

\* A media playlist arrives and is ingested; next() goes on.
FetchMedia(p) ==
  /\ hls.phase = "fetch"
  /\ LET h == Ingest([hls EXCEPT !.refreshFailures = 0, !.variant = TRUE], p)
         g == IF h.initialized THEN h ELSE AtLiveEdge(h)
     IN  /\ Serve(g)
         /\ listed' = listed \cup
              {k \in p.first..p.last : k >= given'[1].seq /\ k >= hls.nextMediaSequence}
  /\ UNCHANGED server

\* The request or the playlist was bad; the fifth time in a row next() fails.
FetchFails ==
  /\ hls.phase = "fetch"
  /\ LET n == hls.refreshFailures + 1 IN
     hls' = [hls EXCEPT !.refreshFailures = n,
                        !.phase = IF n >= MAX_REFRESH_FAILURES THEN "idle" ELSE "sleep"]
  /\ outcome' = IF hls.refreshFailures + 1 >= MAX_REFRESH_FAILURES THEN "error" ELSE "wait"
  /\ UNCHANGED <<server, given, listed>>

-----------------------------------------------------------------------------
\* The source of a new load.
Renew ==
  /\ hls' = NewSource /\ outcome' = "wait" /\ given' = <<>> /\ listed' = {}
  /\ UNCHANGED server

HlsInit ==
  /\ server \in {[last |-> -1, live |-> TRUE, sliding |-> TRUE],
                 [last |-> LastSequence, live |-> FALSE, sliding |-> FALSE]}
  /\ hls = NewSource
  /\ outcome = "wait"
  /\ given = <<>>
  /\ listed = {}

HlsNext ==
  \/ Publish \/ Wake \/ FetchMultivariant \/ FetchFails
  \/ (outcome \in {"wait", "meta"} /\ Ask)
  \/ \E p \in Answers : FetchMedia(p)

HlsSpec == HlsInit /\ [][HlsNext]_hlsVars

-----------------------------------------------------------------------------
(* What comes out of the source, the hazards being refreshes that overlap, fall
   behind the window, come out of a cache, or coincide with trimming.        *)

\* The output timeline has no hole and no overlap: playback starts at 0 with a
\* reset, and every segment starts where the one before it ended.
Contiguous ==
  \A i \in DOMAIN given :
    IF i = 1 THEN given[1].start = 0 /\ given[1].reset
             ELSE given[i].start = given[i - 1].start + given[i - 1].duration

\* No segment comes twice or late, and where one is missing, or the server marks
\* a discontinuity, the segment after it asks for a reset of the remuxer.
JumpsReset ==
  \A i \in DOMAIN given :
    /\ i > 1 => given[i].seq > given[i - 1].seq
    /\ i > 1 /\ given[i].seq # given[i - 1].seq + 1 => given[i].reset
    /\ given[i].seq \in Marked => given[i].reset

\* The segments of L are handed out or queued.
Kept(h, g, L) ==
  \A k \in L : \/ \E i \in DOMAIN g : g[i].seq = k
               \/ \E i \in h.nextIndex + 1 .. Len(h.segments) : h.segments[i].seq = k

\* A segment that any playlist listed since the start is handed out or still
\* queued, in particular it is not lost to trimming.
NothingListedLost == Kept(hls, given, listed)

\* The end of the stream is announced only after every segment listed.
EndIsAll == outcome = "end" => \A k \in listed : \E i \in DOMAIN given : given[i].seq = k

\* What is handed out is one timeline, in order, with a reset at every jump, up to
\* the end the server announced.
Timeline == Contiguous /\ JumpsReset /\ EndIsAll

(* What the source relies on between two answers. *)

Segment == [seq : Sequence, start : Int, duration : Nat, reset : BOOLEAN,
            init : {InitUrl[k] : k \in Sequence}]
Source  == [phase : {"idle", "sleep", "fetch"}, initialized : BOOLEAN, live : BOOLEAN,
            ended : BOOLEAN, segments : Seq(Segment), nextIndex : Nat, nextMediaSequence : Int,
            timelinePos : Int, resetPending : BOOLEAN, refreshFailures : Nat, news : BOOLEAN,
            variant : BOOLEAN]

HlsTypeOK ==
  /\ server \in [last : -1..LastSequence, live : BOOLEAN, sliding : BOOLEAN]
  /\ hls \in Source
  /\ given \in Seq(Segment)
  /\ listed \subseteq Sequence

\* Segment b of a list follows a.
Follows(b, a) ==
  /\ b.start = a.start + a.duration
  /\ b.seq > a.seq
  /\ b.seq # a.seq + 1 => b.reset

\* The queue is one timeline that goes on where the next playlist will.
Queue(h) ==
  /\ h.nextIndex <= Len(h.segments)
  /\ \A i \in 1..Len(h.segments) - 1 : Follows(h.segments[i + 1], h.segments[i])
  /\ \A i \in DOMAIN h.segments : h.segments[i].seq \in Marked => h.segments[i].reset
  /\ h.segments = <<>> => h.timelinePos = 0 /\ h.nextMediaSequence = -1
  /\ h.segments # <<>> =>
       LET z == h.segments[Len(h.segments)]
       IN  h.timelinePos = z.start + z.duration /\ h.nextMediaSequence = z.seq + 1

\* What was handed out last is the segment before nextIndex; the first starts at 0.
Handed(h, g) ==
  /\ h.resetPending <=> g = <<>>
  /\ g # <<>> => /\ h.nextIndex >= 1
                 /\ g[Len(g)].seq = h.segments[h.nextIndex].seq
                 /\ g[Len(g)].start = h.segments[h.nextIndex].start
                 /\ g[Len(g)].duration = h.segments[h.nextIndex].duration
  /\ g = <<>> /\ h.segments # <<>> => /\ h.nextIndex < Len(h.segments)
                                      /\ h.segments[h.nextIndex + 1].start = 0

HlsInv ==
  /\ HlsTypeOK
  /\ Queue(hls) /\ Handed(hls, given)
  /\ given = <<>> => hls.segments = <<>> /\ hls.nextIndex = 0
  /\ ~hls.initialized => given = <<>>
  /\ Timeline /\ NothingListedLost
=============================================================================
