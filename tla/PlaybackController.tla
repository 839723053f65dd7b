------------------------- MODULE PlaybackController -------------------------
(***************************************************************************)
(* The page's side of the web player (mse/playback-controller.ts, with     *)
(* mse/live-sync.ts): it takes the worker's messages one task at a time,   *)
(* feeds the MediaSource and the software audio player, keeps the worker   *)
(* from fetching too far ahead, and starts over on every load.  Messages   *)
(* and commands cross in two queues; the browser's events, the user and    *)
(* the system come in between.  The worker is the one of TransmuxWorker,   *)
(* seen from outside: it posts the messages of what it was told to load.   *)
(***************************************************************************)
EXTENDS PcmPlayer

CONSTANTS
  Managed,       \* whether the browser has only ManagedMediaSource: the cases
  Loads,         \* bound: what each load by the page may be of: [mode, messages]
  VOD_FORWARD_BUFFER_PAUSE, BACKPRESSURE_RESUME_BUFFER_AHEAD,
  TargetLatency, MaxLatency, UNDERRUN_BACKOFF_MAX,
  MaxUnits,      \* bound: the units of a stream
  Inbox,         \* bound: messages of the worker on their way
  MaxDisturbances \* bound: what the user, the system and the network do besides

\* The streams are sequences of messages; a media or an init segment is of a track.
ASSUME LoadsAssumption ==
  /\ DOMAIN Loads = 1..Len(Loads) /\ Len(Loads) \in Nat
  /\ \A i \in DOMAIN Loads : \A s \in Loads[i] :
       /\ DOMAIN s.messages = 1..Len(s.messages) /\ Len(s.messages) \in Nat
       /\ \A j \in DOMAIN s.messages :
            s.messages[j].kind \in {"init", "media"} => s.messages[j].track \in Tracks

VARIABLES
  video,   \* the element: paused, seeking, cur, stalled; and whether the page is hidden
  mse,     \* the MediaSource and its controller, if up
  pcm,     \* the software audio player, and the element's playbackRate
  ctl,     \* the fields of the controller, and out: its commands under way
  worker,  \* the worker: the generation and stream it loads, and how far it is
  inbox,   \* messages under way to the page
  disturbed \* how often something got in the way

vars == <<video, mse, pcm, ctl, worker, inbox, disturbed>>

NoStream == [mode |-> "static", messages |-> <<>>]
NoMedia  == [NewMedia(FALSE) EXCEPT !.dead = TRUE]

\* What loadSegments sets anew.
FreshLoad(c) ==
  [c EXCEPT !.gen = @ + 1, !.waiting = FALSE, !.inits = <<>>, !.throttle = FALSE,
            !.watermark = FALSE, !.bufferFull = FALSE, !.failed = FALSE]

V == [paused |-> video.paused, seeking |-> video.seeking, cur |-> video.cur,
      hidden |-> video.hidden, future |-> Ahead(mse, video.cur) > 0]
Loaded == ctl.gen > 0 /\ ctl.on

-----------------------------------------------------------------------------
(* Backpressure                                                            *)

post(c, command) == [c EXCEPT !.out = Append(@, command)]
Command(kind)    == [kind |-> kind, gen |-> 0, stream |-> NoStream]

pauseWorkerForBackpressure(c, kind) ==
  post(IF kind = "watermark" THEN [c EXCEPT !.watermark = TRUE]
                             ELSE [c EXCEPT !.bufferFull = TRUE], Command("pause"))

\* mutant: only one of the two reasons is forgotten
resumeKeepsFull(c) == post([c EXCEPT !.watermark = FALSE], Command("resume"))

resumeWorkerFromBackpressure(c) ==
  post([c EXCEPT !.watermark = FALSE, !.bufferFull = FALSE], Command("resume"))

\* mutant: a pause for a full buffer is left to the callback that ends it
updateLeavesFull(c, ahead) ==
  IF c.bufferFull THEN c
  ELSE IF c.watermark
    THEN IF ahead < BACKPRESSURE_RESUME_BUFFER_AHEAD THEN resumeWorkerFromBackpressure(c) ELSE c
  ELSE IF c.throttle /\ ahead > VOD_FORWARD_BUFFER_PAUSE
    THEN pauseWorkerForBackpressure(c, "watermark")
  ELSE c

updateFetchBackpressure(c, ahead) ==
  IF c.watermark \/ c.bufferFull
    THEN IF ahead < BACKPRESSURE_RESUME_BUFFER_AHEAD THEN resumeWorkerFromBackpressure(c) ELSE c
  ELSE IF c.throttle /\ ahead > VOD_FORWARD_BUFFER_PAUSE
    THEN pauseWorkerForBackpressure(c, "watermark")
  ELSE c

loadInWorker(c) ==
  post([c EXCEPT !.waiting = FALSE], [kind |-> "load", gen |-> c.gen, stream |-> c.stream])

\* The callbacks of the MediaSource and of the audio player.
Called(c, call, ahead) ==
  CASE call = "full"                     -> pauseWorkerForBackpressure(c, "buffer-full")
    [] call \in {"available", "updated"} -> updateFetchBackpressure(c, ahead)
    [] call = "startstreaming" -> IF c.watermark \/ c.bufferFull
                                    THEN updateFetchBackpressure(c, ahead)
                                    ELSE post(c, Command("resume"))
    [] call = "open"  -> IF c.waiting THEN loadInWorker(c) ELSE c
    [] call = "close" -> [post(c, Command("pause")) EXCEPT !.failed = @ \/ ~video.hidden]
    [] OTHER          -> [c EXCEPT !.failed = TRUE]

\* An operation has left m, p and c, with callbacks to be made.
Becomes(m, p, c, cur) ==
  LET calls == m.calls \o p.calls
      after[n \in 0..Len(calls)] ==
        IF n = 0 THEN c ELSE Called(after[n - 1], calls[n], Ahead(m, cur))
  IN
  /\ mse' = [m EXCEPT !.calls = <<>>]
  /\ pcm' = [p EXCEPT !.calls = <<>>]
  /\ ctl' = after[Len(calls)]

-----------------------------------------------------------------------------
(* What the page does                                                      *)

\* loadSegments, and the play() that follows: a new MediaSource, whose src puts
\* the element back to its start and to its normal rate.
Load(s) ==
  /\ ctl' = [FreshLoad(ctl) EXCEPT !.on = TRUE, !.stream = s, !.mode = s.mode,
                !.sync = ctl.sync \/ ctl.syncEnabled, !.waiting = TRUE]
  /\ mse' = IF s.mode = "live" THEN setDuration(NewMedia(ctl.managed)) ELSE NewMedia(ctl.managed)
  /\ pcm' = NoPlayer("one")
  /\ video' = [video EXCEPT !.paused = FALSE, !.seeking = FALSE, !.cur = 0, !.stalled = TRUE]
  /\ UNCHANGED <<worker, inbox, disturbed>>

\* suspend(): the live sync goes last and leaves the normal rate.
Suspend ==
  /\ Loaded /\ disturbed < MaxDisturbances
  /\ ctl' = [FreshLoad(ctl) EXCEPT !.on = FALSE, !.mode = "static", !.sync = FALSE,
                !.extra = 0, !.out = Append(@, Command("reset"))]
  /\ mse' = NoMedia
  /\ pcm' = NoPlayer(IF ctl.sync THEN "one" ELSE stop(pcm).rate)
  /\ video' = [video EXCEPT !.cur = 0, !.seeking = FALSE, !.stalled = TRUE]
  /\ disturbed' = disturbed + 1
  /\ UNCHANGED <<worker, inbox>>

\* setLiveSync: turning it off leaves the normal rate.
SetLiveSync ==
  /\ Loaded /\ disturbed < MaxDisturbances
  /\ ctl' = [ctl EXCEPT !.sync = ~@, !.syncEnabled = ~ctl.sync, !.extra = 0]
  /\ pcm' = IF ctl.sync THEN [pcm EXCEPT !.rate = "one"] ELSE pcm
  /\ disturbed' = disturbed + 1
  /\ UNCHANGED <<video, mse, worker, inbox>>

\* seek and goLive within the buffer; elsewhere the page loads anew.
Buffered(n) == n <= video.cur + Ahead(mse, video.cur) /\ \A t \in Attached(mse) : n >= mse.lo[t]

bufferSeek(n) ==
  /\ Loaded /\ Attached(mse) # {} /\ Buffered(n) /\ n # video.cur /\ ~video.seeking
  /\ disturbed < MaxDisturbances
  /\ video' = [video EXCEPT !.cur = n, !.seeking = TRUE]
  /\ Becomes(mse, IF pcm.up THEN onVideoSeeking(pcm) ELSE pcm,
             updateFetchBackpressure(ctl, Ahead(mse, n)), n)
  /\ disturbed' = disturbed + 1
  /\ UNCHANGED <<worker, inbox>>

Seeked ==
  /\ video.seeking
  /\ video' = [video EXCEPT !.seeking = FALSE]
  /\ Becomes(mse, IF pcm.up THEN onVideoSeeked(pcm, [V EXCEPT !.seeking = FALSE]) ELSE pcm,
             ctl, video.cur)
  /\ UNCHANGED <<worker, inbox, disturbed>>

PlayOrPause ==
  /\ Loaded /\ disturbed < MaxDisturbances
  /\ video' = [video EXCEPT !.paused = ~@]
  /\ Becomes(mse, IF ~pcm.up THEN pcm
                  ELSE IF video.paused THEN play(pcm, [V EXCEPT !.paused = FALSE])
                  ELSE pause(pcm), ctl, video.cur)
  /\ disturbed' = disturbed + (IF video.paused THEN 0 ELSE 1)
  /\ UNCHANGED <<worker, inbox>>

HideOrShow ==
  /\ Loaded /\ (video.hidden \/ disturbed < MaxDisturbances)
  /\ video' = [video EXCEPT !.hidden = ~@]
  /\ Becomes(mse, IF pcm.up THEN onVisibilityChange(pcm, [V EXCEPT !.hidden = ~@]) ELSE pcm,
             ctl, video.cur)
  /\ disturbed' = disturbed + (IF video.hidden THEN 0 ELSE 1)
  /\ UNCHANGED <<worker, inbox>>

-----------------------------------------------------------------------------
(* The worker, and its messages                                            *)

WorkerTakes ==
  /\ ctl.out # <<>>
  /\ LET c == Head(ctl.out) IN
     worker' = CASE c.kind = "load"  -> [up |-> TRUE, gen |-> c.gen, stream |-> c.stream,
                                         next |-> 1, paused |-> FALSE]
                 [] c.kind = "reset" -> [worker EXCEPT !.up = FALSE, !.paused = FALSE]
                 [] OTHER -> [worker EXCEPT !.paused = worker.up /\ c.kind = "pause"]
  /\ ctl' = [ctl EXCEPT !.out = Tail(@)]
  /\ UNCHANGED <<video, mse, pcm, inbox, disturbed>>

More    == worker.next <= Len(worker.stream.messages)
CanPost == worker.up /\ ~worker.paused /\ More /\ Len(inbox) < Inbox

WorkerPosts ==
  /\ CanPost
  /\ inbox' = Append(inbox, [gen |-> worker.gen, msg |-> worker.stream.messages[worker.next]])
  /\ worker' = [worker EXCEPT !.next = @ + 1]
  /\ UNCHANGED <<video, mse, pcm, ctl, disturbed>>

\* Messages that may come between the init segments of one start: everything else
\* appends those that wait, in one task.
Holds(msg) == msg.kind \in {"init", "info"}

flushPendingInits(m, inits) ==
  LET after[n \in 0..Len(inits)] ==
        IF n = 0 THEN m ELSE appendInit(after[n - 1], inits[n].track, inits[n].codec, video.cur)
  IN  after[Len(inits)]

handleWorkerMessage ==
  LET gen  == Head(inbox).gen
      msg  == Head(inbox).msg
      m    == IF Holds(msg) THEN mse ELSE flushPendingInits(mse, ctl.inits)
      c    == IF Holds(msg) THEN ctl ELSE [ctl EXCEPT !.inits = <<>>]
      player == IF pcm.up THEN pcm ELSE NewPlayer(pcm, V)
  IN
  /\ inbox # <<>>
  /\ inbox' = Tail(inbox)
  /\ \/ gen # ctl.gen /\ UNCHANGED <<mse, pcm, ctl>>
     \/ /\ gen = ctl.gen
        /\ \/ msg.kind = "init"  /\ Becomes(m, pcm, [c EXCEPT !.inits = Append(@, msg)], video.cur)
           \/ msg.kind = "info"  /\ Becomes(m, pcm, c, video.cur)
           \/ msg.kind = "media" /\ Becomes(appendMedia(m, msg.track, msg.codec, video.cur),
                                            pcm, c, video.cur)
           \/ msg.kind = "error" /\ Becomes(m, pcm, [c EXCEPT !.failed = TRUE], video.cur)
           \/ msg.kind = "complete" /\ Becomes(endOfStream(m), pcm, c, video.cur)
           \/ msg.kind = "hls-live" /\ Becomes(setDuration(m), pcm, [c EXCEPT !.mode = "hls"],
                                               video.cur)
           \/ msg.kind = "hls-vod" /\
                Becomes(setDuration(m), pcm,
                        updateFetchBackpressure([c EXCEPT !.mode = "vod", !.throttle = TRUE],
                                                Ahead(m, video.cur)), video.cur)
           \/ msg.kind = "pcm" /\ Becomes(m, feed(player, msg.at, V), c, video.cur)
  /\ UNCHANGED <<video, worker, disturbed>>

-----------------------------------------------------------------------------
(* Events of the element and of the MediaSource                            *)

SourceOpen ==
  /\ ctl.on /\ mse.ready = "closed" /\ ~mse.dead
  /\ Becomes(onSourceOpen(mse, video.cur), pcm, ctl, video.cur)
  /\ UNCHANGED <<video, worker, inbox, disturbed>>

\* One updateend is dispatched before the next operation of the buffer ends.
Finish(t) ==
  /\ Updating(mse, t) /\ t \notin mse.due
  /\ mse' = Finished(mse, t)
  /\ ctl' = [ctl EXCEPT !.failed = @ \/ (mse'.ready = "ended" /\ mse.garbled)]
  /\ UNCHANGED <<video, pcm, worker, inbox, disturbed>>

UpdateEnd(t) ==
  /\ t \in mse.due
  /\ Becomes(onSourceBufferUpdateEnd(mse, t, video.cur), pcm, ctl, video.cur)
  /\ UNCHANGED <<video, worker, inbox, disturbed>>

\* The browser takes the MediaSource away, mostly in the background.
SourceClose ==
  /\ mse.ready # "closed" /\ disturbed < MaxDisturbances
  /\ Becomes(onSourceClose(mse), pcm, ctl, video.cur)
  /\ disturbed' = disturbed + 1
  /\ UNCHANGED <<video, worker, inbox>>

StartStreaming ==
  /\ mse.managed /\ mse.ready = "open" /\ ~mse.streaming
  /\ Becomes(onStartStreaming(mse, video.cur), pcm, ctl, video.cur)
  /\ UNCHANGED <<video, worker, inbox, disturbed>>

EndStreaming ==
  /\ mse.managed /\ mse.ready = "open" /\ mse.streaming /\ Ahead(mse, video.cur) > 0
  /\ disturbed < MaxDisturbances
  /\ mse' = onEndStreaming(mse)
  /\ disturbed' = disturbed + 1
  /\ UNCHANGED <<video, pcm, ctl, worker, inbox>>

\* Live sync: how far playback is behind the live edge of its source; unknown when
\* there is none, any for a live playlist, whose edge moves with the wall clock.
Latencies(cur) ==
  IF ctl.mode = "live" /\ Attached(mse) # {} THEN {Ahead(mse, cur)}
  ELSE IF ctl.mode = "hls" THEN {0, TargetLatency + 1, MaxLatency + UNDERRUN_BACKOFF_MAX + 1}
  ELSE {}
Adjusts == ctl.sync /\ pcm.original = ""

LiveSyncRate(lag) ==
  IF lag > MaxLatency + ctl.extra THEN "fast"
  ELSE IF lag <= TargetLatency + ctl.extra THEN "one" ELSE pcm.rate

\* The playhead has moved by a unit: the controller, the live sync and the audio
\* player hear of it in that order.  The audio clock goes along.
TimeUpdate ==
  LET cur == video.cur + 1
      v   == [V EXCEPT !.cur = cur, !.future = Ahead(mse, cur) > 0]
      c   == updateFetchBackpressure(ctl, Ahead(mse, cur))
      moved(p) == IF p.at # None /\ p.ctx = "running" THEN Played(p) ELSE p
      heard(p) == IF p.up THEN onTimeUpdate(moved(p), v) ELSE p
  IN
  /\ V.future /\ ~video.paused /\ ~video.seeking /\ ~video.stalled
  /\ video' = [video EXCEPT !.cur = cur]
  /\ IF Adjusts /\ Latencies(cur) # {}
       THEN \E lag \in Latencies(cur) :
              Becomes(mse, heard([pcm EXCEPT !.rate = LiveSyncRate(lag)]),
                      [c EXCEPT !.extra = IF lag <= TargetLatency THEN 0 ELSE @], cur)
       ELSE Becomes(mse, heard(pcm), c, cur)
  /\ UNCHANGED <<worker, inbox, disturbed>>

RunsOut == /\ Loaded /\ ~video.stalled /\ ~video.seeking /\ ~video.paused /\ ~V.future
           /\ mse.ready # "ended"

NearEdge(lags) == IF lags = {} THEN {FALSE} ELSE {lag = 0 : lag \in lags}

\* The element has run out of data.  At the live edge the latency allowed is raised;
\* how far that of a playlist is does not follow from the buffer.
Waiting ==
  /\ RunsOut
  /\ video' = [video EXCEPT !.stalled = TRUE]
  /\ \E near \in NearEdge(Latencies(video.cur)) :
       LET edge == Adjusts /\ near
           p    == IF edge THEN [pcm EXCEPT !.rate = "one"] ELSE pcm
       IN
       Becomes(mse, IF pcm.up THEN enterBuffering(p, V) ELSE p,
               IF edge /\ ctl.extra < UNDERRUN_BACKOFF_MAX THEN [ctl EXCEPT !.extra = @ + 1]
                                                           ELSE ctl,
               video.cur)
  /\ UNCHANGED <<worker, inbox, disturbed>>

\* canplay and playing.
Playing ==
  /\ video.stalled /\ V.future
  /\ video' = [video EXCEPT !.stalled = FALSE]
  /\ Becomes(mse, IF pcm.up THEN maybeExitBuffering(pcm, V) ELSE pcm, ctl, video.cur)
  /\ UNCHANGED <<worker, inbox, disturbed>>

-----------------------------------------------------------------------------
(* Events of the audio player                                              *)

Audio(p) == Becomes(mse, p, ctl, video.cur) /\ UNCHANGED <<video, worker, inbox>>

ControlTimer == pcm.up /\ Audio(controlAndPump(pcm, V)) /\ UNCHANGED disturbed

ContextSettles ==
  /\ pcm.up /\ pcm.asked # ""
  /\ Audio(onstatechange(pcm, IF pcm.asked = "resume" THEN "running" ELSE "suspended", V))
  /\ UNCHANGED disturbed

\* The system takes the audio session away.
Interrupt ==
  /\ pcm.up /\ pcm.ctx = "running" /\ disturbed < MaxDisturbances
  /\ Audio(onstatechange(pcm, "interrupted", V))
  /\ disturbed' = disturbed + 1

StretcherLoads ==
  /\ pcm.up /\ pcm.stretcher = "loading"
  /\ \/ Audio(StretcherReady(pcm, V)) /\ UNCHANGED disturbed
     \/ /\ disturbed < MaxDisturbances
        /\ Audio(StretcherFails(pcm)) /\ disturbed' = disturbed + 1

StartupTimeout ==
  /\ pcm.up /\ pcm.waited = "yes"
  /\ Audio([pcm EXCEPT !.waited = "over"]) /\ UNCHANGED disturbed

RecoveryTimeout ==
  /\ pcm.up /\ pcm.timer
  /\ Audio(onRecoveryTimeout(pcm, V)) /\ UNCHANGED disturbed

\* In the background the audio may go on while the video does not.
AudioGoesOn ==
  /\ pcm.up /\ pcm.at # None /\ pcm.ctx = "running" /\ video.hidden
  /\ Audio(Played(pcm)) /\ UNCHANGED disturbed

-----------------------------------------------------------------------------
Init ==
  /\ video = [paused |-> TRUE, seeking |-> FALSE, cur |-> 0, stalled |-> TRUE, hidden |-> FALSE]
  /\ mse = NoMedia /\ pcm = NoPlayer("one")
  /\ \E managed \in Managed :
     ctl = [gen |-> 0, on |-> FALSE, managed |-> managed, stream |-> NoStream, mode |-> "static",
            sync |-> FALSE, syncEnabled |-> TRUE, extra |-> 0, out |-> <<>>, waiting |-> FALSE,
            inits |-> <<>>, throttle |-> FALSE, watermark |-> FALSE, bufferFull |-> FALSE,
            failed |-> FALSE]
  /\ worker = [up |-> FALSE, gen |-> 0, stream |-> NoStream, next |-> 1, paused |-> FALSE]
  /\ inbox = <<>> /\ disturbed = 0

\* What goes on by itself.
Progress ==
  \/ WorkerTakes \/ WorkerPosts \/ handleWorkerMessage \/ SourceOpen \/ StartStreaming
  \/ \E t \in Tracks : Finish(t) \/ UpdateEnd(t)
  \/ Seeked \/ Waiting \/ Playing
  \/ ControlTimer \/ ContextSettles \/ StretcherLoads \/ StartupTimeout

Next ==
  \/ Progress
  \/ ctl.gen < Len(Loads) /\ \E s \in Loads[ctl.gen + 1] : Load(s)
  \/ Suspend \/ SetLiveSync \/ PlayOrPause \/ HideOrShow
  \/ \E n \in 0..MaxUnits : bufferSeek(n)
  \/ SourceClose \/ EndStreaming \/ TimeUpdate
  \/ Interrupt \/ RecoveryTimeout \/ AudioGoesOn

Spec == Init /\ [][Next]_vars
-----------------------------------------------------------------------------
(* Fairness: tasks that are due are run, and the browser, the system and the
   worker get on with what they were asked for.  Nothing obliges the video to
   play on, or the user to do anything.                                      *)

AudioIsDue ==
  pcm.up /\ (pcm.asked # "" \/ pcm.stretcher = "loading" \/ pcm.waited = "yes"
               \/ controlAndPump(pcm, V) # pcm)
Due ==
  \/ ctl.out # <<>> \/ inbox # <<>> \/ CanPost
  \/ ctl.on /\ mse.ready = "closed" /\ ~mse.dead
  \/ mse.managed /\ mse.ready = "open" /\ ~mse.streaming
  \/ mse.due # {} \/ \E t \in Tracks : Updating(mse, t)
  \/ video.seeking \/ RunsOut \/ (video.stalled /\ V.future) \/ AudioIsDue

FairSpec == Spec /\ ([]<>~Due \/ []<><<Progress>>_vars)
-----------------------------------------------------------------------------
(* The hazards                                                             *)

\* What the current load has delivered for a track is appended once and in order:
\* nothing is lost or repeated when an append is refused, and nothing of an older
\* load gets in.
InOrderOnce ==
  \A t \in Tracks : t \notin mse.disabled =>
    /\ mse.done[t] + Len(mse.segments[t]) = mse.told[t]
    /\ \A i \in DOMAIN mse.segments[t] : mse.segments[t][i].id = mse.done[t] + i

\* What the demuxer sees to (demux/ts-demuxer.ts, isInitSegmentDispatched): init segments
\* name their codecs, and no track has its first one after another's data.
IsInit(msg) == msg.kind = "init"
Named(s)    == {s.messages[j].track : j \in {i \in 1..Len(s.messages) : IsInit(s.messages[i])}}
Led(s) ==
  /\ \A j \in 1..Len(s.messages) : IsInit(s.messages[j]) => s.messages[j].codec # NoType
  /\ \A k \in 1..Len(s.messages) : ~Holds(s.messages[k]) =>
       \/ \A i \in 1..k-1 : ~IsInit(s.messages[i])
       \/ \A t \in Named(s) : \E i \in 1..k-1 : IsInit(s.messages[i]) /\ s.messages[i].track = t
TracksFirst == \A n \in DOMAIN Loads : \A s \in Loads[n] : Led(s)

\* The browser parses no init segment before every buffer of the load exists: it
\* would refuse the second one, and the stream play without sound.
InitsTogether == ~mse.refused

\* Both: the buffers get the load whole, in order and with their init segments.
BuffersRight == InOrderOnce /\ InitsTogether

\* Once its commands have arrived, the worker is paused exactly when the
\* controller believes it is.
FlagsAgree ==
  ctl.out = <<>> /\ worker.up /\ worker.gen = ctl.gen /\ ~mse.dead =>
    (worker.paused <=> ctl.watermark \/ ctl.bufferFull)

\* Startup's near-stop of the video never outlives the startup that asked for it.
SlowOnlyAtStartup ==
  pcm.rate = "slow" => pcm.up /\ pcm.startup = "slowing" /\ ~video.paused /\ ~video.seeking

\* While the element's clock is not trusted, no chain is anchored at it.
TrustedClock ==
  [][pcm.up /\ pcm.sync = "recovering" /\ pcm'.sync = "recovering" /\ pcm.cursor = None
       /\ pcm.pending = None => pcm'.cursor = None]_vars

\* Playback does not starve: while the stream has more and nothing has failed, the
\* buffer does not stay empty, however appends, refusals and pauses interleave.
Wants == ctl.on /\ ~ctl.failed /\ ~mse.dead /\ worker.up /\ worker.gen = ctl.gen /\ More
Fed == []<>(~Wants \/ Ahead(mse, video.cur) > 0)

\* A chain that has come to its end leaves its spans behind, so that the control loop
\* does not rebuild it: it goes on only with what a refill finds past its cursor.  That
\* is nothing when all that was decoded has been played, and when PCM stayed away until
\* the history went past the cursor.
RanDry == pcm.spans /\ pcm.at = None /\ Refilled(pcm, pcm.cursor) = None

\* Decoded audio under a playing video is heard, or the page is told: no order of
\* loading, stalling, pausing, hiding and interruptions leaves it silent, unless the
\* chain has run dry.
Audible ==
  /\ pcm.up /\ ~video.paused /\ ~video.seeking /\ ~video.hidden /\ ~video.stalled /\ V.future
  /\ pcm.sync = "active" /\ pcm.from <= video.cur /\ video.cur < pcm.to
  /\ pcm.stretcher # "failed"
Heard == []<>(~Audible \/ ctl.failed \/ pcm.at # None \/ RanDry)

\* The browser is not told of the end while data waits to be appended.
TailAppended == mse.ready = "ended" /\ ~ctl.failed => ~HasSegments(mse)
=============================================================================
