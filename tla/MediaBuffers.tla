---------------------------- MODULE MediaBuffers ----------------------------
(***************************************************************************)
(* The MediaSource of the web player (playback-engine/mse/media-source.ts) *)
(* as a record and the operators of its controller on it: what is queued   *)
(* for each SourceBuffer, what the browser is appending or removing, and   *)
(* the callbacks an operation makes (calls, in order).  The browser's part *)
(* follows the Media Source Extensions: an append or a removal is          *)
(* asynchronous, and its updateend is an event of its own.  Stream time    *)
(* is counted in segments; the output timeline has no gaps.                *)
(***************************************************************************)
EXTENDS Integers, Sequences, FiniteSets, FiniteSetsExt

CONSTANTS
  Unsupported,   \* codecs the browser does not play
  Quota,         \* segments ahead of the playhead a SourceBuffer can hold
  MaxBackward, MinBackward  \* what is kept behind the playhead, in segments

Tracks == {"video", "audio"}
NoType == "none"
Idle   == "idle"

PerTrack(x) == [t \in Tracks |-> x]

\* A controller whose MediaSource was just attached: a ManagedMediaSource where the
\* browser has no other, which asks for data before it takes any.  Type to due are
\* the SourceBuffers'; told and done count what was delivered and what was appended.
NewMedia(managed) ==
  [ready |-> "closed", dead |-> FALSE, managed |-> managed, streaming |-> ~managed,
   parsed |-> FALSE,
   type |-> PerTrack(NoType), doing |-> PerTrack(Idle), upto |-> PerTrack(0),
   lo |-> PerTrack(0), hi |-> PerTrack(0), due |-> {},
   segments |-> PerTrack(<<>>), removals |-> PerTrack(<<>>), inits |-> <<>>,
   disabled |-> {}, full |-> FALSE, eos |-> FALSE, duration |-> "none",
   told |-> PerTrack(0), done |-> PerTrack(0), refused |-> FALSE, garbled |-> FALSE,
   calls |-> <<>>]

Attached(m)   == {t \in Tracks : m.type[t] # NoType}
Updating(m, t) == m.doing[t] # Idle
Open(m)       == m.ready = "open"
Call(m, c)    == [m EXCEPT !.calls = Append(@, c)]

HasSegments(m) == \E t \in Tracks : m.segments[t] # <<>>
HasRemovals(m) == \E t \in Tracks : m.removals[t] # <<>>

\* video.buffered: what every SourceBuffer has.
Ahead(m, cur) ==
  IF Attached(m) = {} THEN 0
  ELSE LET end == Min({m.hi[t] : t \in Attached(m)}) IN IF end > cur THEN end - cur ELSE 0

-----------------------------------------------------------------------------
(* Appending and removing                                                  *)

\* The browser drops what was played to make room; QuotaExceededError if that
\* does not do.
Room(m, t, cur) == m.hi[t] - cur < Quota

\* mutant: the segment that was refused is not put back
RefusedDropped(m, t) == [m EXCEPT !.full = TRUE, !.segments[t] = Tail(@)]

\* A source buffer takes one call at a time.
Callable(m, t) == m.type[t] # NoType /\ ~Updating(m, t)

Refused(m, t) == [m EXCEPT !.full = TRUE]

AppendHead(m, t, cur) ==
  LET e == Head(m.segments[t])
      n == [m EXCEPT !.segments[t] = Tail(@), !.doing[t] = e.kind, !.full = FALSE,
                     !.lo[t] = IF m.hi[t] - @ >= Quota THEN cur ELSE @,
                     !.done[t] = IF e.id = @ + 1 THEN e.id ELSE -1,
                     !.garbled = @ \/ e.codec # m.type[t]]
  IN
  IF m.segments[t] = <<>> \/ ~Callable(m, t) THEN m
  ELSE IF Room(m, t, cur) THEN IF m.full THEN Call(n, "available") ELSE n
  ELSE IF m.full THEN Refused(m, t) ELSE Call(Refused(m, t), "full")

\* Both go over the tracks, video first.
doAppendSegments(m, cur) == AppendHead(AppendHead(m, "video", cur), "audio", cur)

RemoveHead(m, t) ==
  IF m.removals[t] = <<>> \/ ~Callable(m, t) THEN m
  ELSE [m EXCEPT !.removals[t] = Tail(@), !.doing[t] = "remove",
                 !.upto[t] = Head(m.removals[t]), !.ready = "open"]

doRemoveRanges(m) == RemoveHead(RemoveHead(m, "video"), "audio")

tryAppendPending(m, cur) ==
  IF ~Open(m) \/ ~m.streaming THEN m
  ELSE IF HasRemovals(m) THEN doRemoveRanges(m)
  ELSE doAppendSegments(m, cur)

\* Ranges far behind the playhead, when one of the buffers has such a range.
Cleaned(m, cur) ==
  LET far(t)  == t \in Attached(m) /\ m.hi[t] > m.lo[t] /\ cur - m.lo[t] >= MaxBackward
      mark(n, t) == IF ~far(t) THEN n
                    ELSE [n EXCEPT !.removals[t] = Append(@, cur - MinBackward)]
      one(n, t) == IF far(t) /\ ~Updating(n, t) THEN doRemoveRanges(mark(n, t)) ELSE mark(n, t)
  IN  one(one(m, "video"), "audio")

\* The duration of a playlist, or that of a live stream.
tryApplyDuration(m) ==
  IF m.duration = "pending" /\ Open(m) /\ \A t \in Tracks : ~Updating(m, t)
    THEN [m EXCEPT !.duration = "set"] ELSE m

setDuration(m) == tryApplyDuration([m EXCEPT !.duration = "pending"])

-----------------------------------------------------------------------------
(* SourceBuffers                                                           *)

\* Those of some init segments that are not of track t.
Without(inits, t) ==
  LET kept[n \in 0..Len(inits)] ==
        IF n = 0 THEN <<>>
        ELSE IF inits[n].track = t THEN kept[n - 1] ELSE Append(kept[n - 1], inits[n])
  IN  kept[Len(inits)]

disableTrack(m, t) ==
  [m EXCEPT !.disabled = @ \cup {t}, !.segments[t] = <<>>, !.removals[t] = <<>>,
            !.inits = Without(@, t)]

\* addSourceBuffer is refused once the browser has parsed an init segment;
\* changeType while the buffer is updating.
createSourceBuffer(m, t, codec) ==
  IF t \in m.disabled \/ ~Open(m) \/ codec = m.type[t] THEN m
  ELSE IF m.type[t] # NoType /\ Updating(m, t) THEN Call(m, "error")
  ELSE IF codec \in Unsupported THEN Call(disableTrack(m, t), "error")
  ELSE IF m.type[t] = NoType /\ m.parsed THEN Call([m EXCEPT !.refused = TRUE], "error")
  ELSE [m EXCEPT !.type[t] = codec]

flushPendingSourceBufferInit(m) ==
  LET after[n \in 0..Len(m.inits)] ==
        IF n = 0 THEN [m EXCEPT !.inits = <<>>]
        ELSE createSourceBuffer(after[n - 1], m.inits[n].track, m.inits[n].codec)
  IN  IF Open(m) THEN after[Len(m.inits)] ELSE m

Queued(m, t, kind, codec) ==
  [m EXCEPT !.told[t] = @ + 1,
            !.segments[t] = Append(@, [kind |-> kind, codec |-> codec, id |-> m.told[t] + 1])]

appendInit(m, t, codec, cur) ==
  IF t \in m.disabled THEN m
  ELSE IF ~Open(m) \/ ~m.streaming
    THEN Queued([m EXCEPT !.inits = Append(@, [track |-> t, codec |-> codec])], t, "init", codec)
  ELSE LET n == createSourceBuffer(m, t, codec) IN
       IF t \in n.disabled THEN n ELSE tryAppendPending(Queued(n, t, "init", codec), cur)

appendMedia(m, t, codec, cur) ==
  IF t \in m.disabled THEN m
  ELSE LET n == Queued(m, t, "media", codec) IN
       IF Open(n) THEN tryAppendPending(Cleaned(n, cur), cur) ELSE n

endOfStream(m) ==
  IF ~Open(m) THEN [m EXCEPT !.eos = @ \/ (m.ready = "closed" /\ HasSegments(m))]
  ELSE IF \E t \in Tracks : Updating(m, t) THEN [m EXCEPT !.eos = TRUE]
  ELSE [m EXCEPT !.eos = FALSE, !.ready = "ended"]

-----------------------------------------------------------------------------
(* Events of the browser                                                   *)

onSourceOpen(m, cur) ==
  Call(tryAppendPending(flushPendingSourceBufferInit([m EXCEPT !.ready = "open"]), cur), "open")

\* The browser has done what a buffer was updating for; the event is queued.
\* Data under another codec than the buffer's cannot be decoded, which ends the
\* MediaSource.
Finished(m, t) ==
  LET n == [m EXCEPT !.doing[t] = Idle, !.due = @ \cup {t}] IN
  CASE m.doing[t] = "init"   -> [n EXCEPT !.parsed = TRUE, !.ready = IF m.garbled THEN "ended" ELSE @]
    [] m.doing[t] = "media"  -> [n EXCEPT !.hi[t] = IF m.garbled THEN @ ELSE @ + 1,
                                          !.ready = IF m.garbled THEN "ended" ELSE @]
    [] m.doing[t] = "remove" -> [n EXCEPT !.lo[t] = Max({@, m.upto[t]})]

onSourceBufferUpdateEnd(m, t, cur) ==
  LET n == tryApplyDuration(Call([m EXCEPT !.due = @ \ {t}], "updated")) IN
  IF HasRemovals(n) THEN doRemoveRanges(n)
  ELSE IF HasSegments(n) THEN tryAppendPending(n, cur)
  ELSE IF n.eos THEN endOfStream(n)
  ELSE IF n.full THEN Call([n EXCEPT !.full = FALSE], "available")
  ELSE n

\* The browser took the MediaSource away.  Its buffers are gone, the queues stay.
onSourceClose(m) ==
  Call([m EXCEPT !.ready = "closed", !.dead = TRUE, !.type = PerTrack(NoType),
                 !.doing = PerTrack(Idle), !.due = {},
                 !.lo = PerTrack(0), !.hi = PerTrack(0)], "close")

onStartStreaming(m, cur) ==
  Call(tryAppendPending(flushPendingSourceBufferInit([m EXCEPT !.streaming = TRUE]), cur),
       "startstreaming")

onEndStreaming(m) == [m EXCEPT !.streaming = FALSE]
=============================================================================
