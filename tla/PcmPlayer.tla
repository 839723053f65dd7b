------------------------------ MODULE PcmPlayer ------------------------------
(***************************************************************************)
(* The player of software-decoded audio (audio/pcm-audio-player.ts) as a   *)
(* record p and the operators of its class.  Stream time is counted in     *)
(* whole units, as in MediaBuffers; what has been decoded is the range     *)
(* from..to, since insertToBuffer closes gaps.  v is the video element as  *)
(* an operation sees it: paused, seeking, cur, future (whether it has data *)
(* to go on with) and hidden (the page).  The AudioContext settles a       *)
(* resume() and a suspend() later, and loading the stretcher takes time.   *)
(* MaxBackward and MinBackward are those of the MediaSource's config.      *)
(***************************************************************************)
EXTENDS MediaBuffers

CONSTANTS
  SCHEDULE_AHEAD, BACKGROUND_SCHEDULE_AHEAD,  \* units scheduled ahead of the audio clock
  HARD_RESYNC_THRESHOLD,                      \* a drift from here on rebuilds the chain
  PENDING_REFILL_WINDOW,                      \* how far a refill looks for data
  MAX_START_DELAY                             \* the longest a chain waits for the video

None == -1

\* No player.  Output is scheduled from the stream position at up to cursor, and sounds
\* after delay units; spans says that scheduledSpans is not empty.  rate is the element's playbackRate, which outlives one.
NoPlayer(rate) ==
  [up |-> FALSE, startup |-> "waiting", original |-> "", waited |-> "no", sync |-> "active",
   timer |-> FALSE, buffering |-> FALSE, seeking |-> FALSE, from |-> 0, to |-> 0,
   pending |-> None, cursor |-> None, at |-> None, delay |-> 0, spans |-> FALSE, stretcher |-> "none",
   ctx |-> "suspended", asked |-> "", rate |-> rate, calls |-> <<>>]

NewPlayer(p, v) ==
  [NoPlayer(p.rate) EXCEPT !.up = TRUE,
     !.sync = IF v.hidden THEN "background" ELSE "active"]

Tell(p, c) == [p EXCEPT !.calls = Append(@, c)]

hasPlayableVideoData(p, v) == ~v.paused /\ ~v.seeking /\ ~p.seeking /\ v.future
canScheduleAudio(p, v)     == ~p.buffering /\ hasPlayableVideoData(p, v)
Starting(p)  == p.startup \in {"waiting", "slowing"}
Started(p)   == p.startup \in {"complete", "disabled"}

\* cancelChain, the pending chunks dropped and the input not anchored.
NoChain(p)   == [p EXCEPT !.at = None, !.delay = 0, !.spans = FALSE, !.pending = None]
Unanchored(p) == [NoChain(p) EXCEPT !.cursor = None]

restoreStartupPlaybackRate(p) ==
  IF p.original = "" THEN p ELSE [p EXCEPT !.rate = p.original, !.original = ""]

\* mutant: the rate is left as startup had it
resetKeepsRate(p) ==
  IF Started(p) \/ p.startup = "failed" THEN p
  ELSE [p EXCEPT !.startup = "waiting", !.waited = "no"]

resetStartupSyncWait(p) ==
  IF Started(p) \/ p.startup = "failed" THEN p
  ELSE [restoreStartupPlaybackRate(p) EXCEPT !.startup = "waiting", !.waited = "no"]

failStartupSync(p) ==
  IF p.startup = "failed" THEN p
  ELSE Tell([restoreStartupPlaybackRate(p) EXCEPT !.startup = "failed", !.waited = "no"],
            "startup failed")

\* The recovery timer runs exactly while recovering.
setSyncState(p, s) == IF p.sync = s THEN p ELSE [p EXCEPT !.sync = s, !.timer = s = "recovering"]

-----------------------------------------------------------------------------
(* Scheduling                                                              *)

\* Where refillPendingFromBuffer(pos) finds its first chunk.
Refilled(p, pos) ==
  IF pos < p.to /\ p.from < p.to /\ p.from < pos + PENDING_REFILL_WINDOW
    THEN IF pos > p.from THEN pos ELSE p.from
    ELSE None

\* audioStreamTimeNow: none before the chain sounds and after it has drained.
audioStreamTimeNow(p) == IF p.delay > 0 THEN None ELSE p.at

\* How long a chain that starts at a position waits for a video whose clock is trusted.
StartDelay(p, v, begin) ==
  LET lead == IF p.sync = "active" /\ begin > v.cur THEN begin - v.cur ELSE 0
  IN  IF lead > MAX_START_DELAY THEN MAX_START_DELAY ELSE lead

\* pump() once nothing stands against it: the chain goes on where the input is, or
\* is anchored at the first pending chunk.
Schedule(p, v) ==
  LET first == IF p.pending # None THEN p.pending
               ELSE IF p.sync = "recovering" /\ p.cursor = None THEN None
               ELSE Refilled(p, IF p.cursor # None THEN p.cursor ELSE v.cur)
      begin == IF p.cursor # None THEN p.cursor ELSE first
      new   == p.at = None
      at    == IF new THEN begin ELSE p.at
      delay == IF new THEN StartDelay(p, v, begin) ELSE p.delay
      ahead == IF p.sync = "background" THEN BACKGROUND_SCHEDULE_AHEAD ELSE SCHEDULE_AHEAD
      full  == at + ahead - delay
      limit == IF new /\ full <= begin THEN begin + 1 ELSE full
      end   == IF p.to < limit THEN p.to ELSE limit
      n     == [p EXCEPT !.cursor = end, !.at = at, !.delay = delay, !.spans = TRUE,
                         !.pending = None]
  IN
  IF first = None \/ begin >= limit THEN p
  ELSE IF p.stretcher # "ready"
    THEN [p EXCEPT !.pending = first,
                   !.stretcher = IF @ = "none" THEN "loading" ELSE @]
  ELSE IF begin >= end THEN p
  ELSE IF p.startup = "anchoring"
    THEN restoreStartupPlaybackRate([n EXCEPT !.startup = "complete", !.waited = "no"])
  ELSE n

\* pump() past startup.
Pumped(p, v) ==
  IF ~canScheduleAudio(p, v) \/ p.startup = "failed" THEN p
  ELSE IF p.ctx # "running" THEN [p EXCEPT !.asked = "resume"]
  ELSE Schedule(p, v)

\* What resyncFromBuffer(target) leaves pending, if the buffer covers the target.
Covered(p, target) == Refilled(p, target) # None
Rebuilt(p, target) == [Unanchored(p) EXCEPT !.pending = Refilled(p, target)]

\* The first anchor shared with the video, which is slowed while its audio trails.
tryStartInitialSync(p, v) ==
  LET after == p.from > v.cur
      lead  == p.from <= v.cur /\ v.cur + 1 <= p.to
      w     == [p EXCEPT !.waited = IF @ = "no" THEN "yes" ELSE @]
      target == IF after THEN p.from ELSE v.cur
      anchored == [restoreStartupPlaybackRate(w) EXCEPT !.startup = "anchoring"]
      slowed == IF p.startup = "waiting"
                  THEN [w EXCEPT !.original = w.rate, !.startup = "slowing", !.rate = "slow"]
                  ELSE [w EXCEPT !.rate = "slow"]
  IN
  IF ~Starting(p) \/ p.sync # "active" \/ v.hidden \/ ~canScheduleAudio(p, v) \/ p.from = p.to
    THEN p
  ELSE IF after \/ lead THEN Pumped(Rebuilt(anchored, target), v)
  ELSE IF p.waited = "over" THEN failStartupSync(slowed) ELSE slowed

pump(p, v) ==
  IF canScheduleAudio(p, v) /\ Starting(p) THEN tryStartInitialSync(p, v) ELSE Pumped(p, v)

\* Rebuild the chain at a position; audio that is not there yet is waited for.
resyncFromBuffer(p, target, v) ==
  IF Covered(p, target) THEN pump(Rebuilt(p, target), v) ELSE Unanchored(p)

\* One more unit, at n if it is the first; old ones go, by a clock that moves.
feed(p, n, v) ==
  LET q == IF p.from = p.to THEN [p EXCEPT !.from = n, !.to = n + 1] ELSE [p EXCEPT !.to = @ + 1]
      now   == audioStreamTimeNow(q)
      clock == IF q.sync = "active" THEN v.cur ELSE IF now # None THEN now ELSE q.to
      kept  == IF clock - MinBackward < q.to THEN clock - MinBackward ELSE q.to
      c == IF clock - q.from < MaxBackward THEN q ELSE [q EXCEPT !.from = kept]
  IN
  IF canScheduleAudio(c, v) THEN pump(c, v) ELSE c

\* The control loop: where there is no chain it is built, and one that has drifted too
\* far is rebuilt.  One that came to its end, with its spans, is not.
controlAndPump(p, v) ==
  LET now   == audioStreamTimeNow(p)
      drift == IF now > v.cur THEN now - v.cur ELSE v.cur - now
      trusted == p.ctx = "running" /\ p.stretcher = "ready" /\ p.sync = "active"
                   /\ canScheduleAudio(p, v)
      idle  == now = None /\ ~p.spans /\ p.pending = None /\ p.from < p.to /\ p.to > v.cur
      rebuild == trusted /\ (idle \/ (now # None /\ drift >= HARD_RESYNC_THRESHOLD))
      q == resyncFromBuffer(p, v.cur, v)
  IN
  IF rebuild /\ Covered(p, v.cur) THEN q ELSE pump(IF rebuild THEN q ELSE p, v)

-----------------------------------------------------------------------------
(* Events of the page and of the element                                   *)

onVisibilityChange(p, v) ==
  IF v.hidden THEN setSyncState(resetStartupSyncWait(p), "background")
  ELSE setSyncState(p, "recovering")

\* The element's clock has moved while visible: it is to be trusted again.
completeRecovery(p, v) ==
  LET q == setSyncState(p, "active")
      w == [q EXCEPT !.startup = "waiting", !.waited = "no"]
      now   == audioStreamTimeNow(p)
      drift == IF now > v.cur THEN now - v.cur ELSE v.cur - now
      r == resyncFromBuffer(q, v.cur, v)
  IN
  IF ~Started(q) THEN IF q.startup = "failed" THEN q ELSE tryStartInitialSync(w, v)
  ELSE IF now # None /\ drift < HARD_RESYNC_THRESHOLD THEN q
  ELSE IF ~Covered(q, v.cur) /\ q.from < q.to THEN Tell(r, "resync failed")
  ELSE r

onTimeUpdate(p, v) ==
  IF p.sync = "recovering" /\ ~v.hidden THEN completeRecovery(p, v) ELSE controlAndPump(p, v)

onRecoveryTimeout(p, v) ==
  LET q == [p EXCEPT !.timer = FALSE] IN
  IF v.paused \/ v.seeking \/ p.seeking \/ v.hidden THEN q ELSE Tell(q, "resync failed")

enterBuffering(p, v) ==
  IF v.paused \/ v.seeking \/ p.seeking THEN p
  ELSE resetStartupSyncWait([Unanchored(p) EXCEPT !.buffering = TRUE])

\* mutant: not left before the element's clock is trusted
exitBufferingActive(p, v) ==
  LET q == [p EXCEPT !.buffering = FALSE] IN
  IF ~hasPlayableVideoData(p, v) \/ ~p.buffering \/ p.sync # "active" THEN p
  ELSE IF p.startup = "waiting" THEN tryStartInitialSync(q, v)
  ELSE resyncFromBuffer(q, v.cur, v)

maybeExitBuffering(p, v) ==
  LET q == [p EXCEPT !.buffering = FALSE] IN
  IF ~hasPlayableVideoData(p, v) \/ ~p.buffering THEN p
  ELSE IF p.sync # "active" THEN pump(q, v)
  ELSE IF p.startup = "waiting" THEN tryStartInitialSync(q, v)
  ELSE resyncFromBuffer(q, v.cur, v)

onVideoSeeking(p) ==
  LET q == [NoChain(p) EXCEPT !.buffering = FALSE, !.seeking = TRUE] IN
  IF p.startup = "complete" THEN q
  ELSE [restoreStartupPlaybackRate(q) EXCEPT !.startup = "disabled", !.waited = "no"]

onVideoSeeked(p, v) ==
  LET q == [p EXCEPT !.seeking = FALSE]
      r == IF q.sync # "recovering" THEN q
           ELSE setSyncState(q, IF v.hidden THEN "background" ELSE "active")
  IN  resyncFromBuffer(r, v.cur, v)

\* The resume() of the context settles later.
play(p, v) ==
  IF p.ctx # "running" THEN [p EXCEPT !.asked = "resume"]
  ELSE IF p.sync = "active" /\ canScheduleAudio(p, v)
    THEN IF Starting(p) THEN tryStartInitialSync(p, v) ELSE resyncFromBuffer(p, v.cur, v)
  ELSE p

pause(p) ==
  LET q == resetStartupSyncWait([Unanchored(p) EXCEPT !.buffering = FALSE]) IN
  IF p.ctx = "running" THEN [q EXCEPT !.asked = "suspend"] ELSE q

stop(p) == NoPlayer(restoreStartupPlaybackRate(p).rate)

-----------------------------------------------------------------------------
(* Events of the AudioContext and of the stretcher                         *)

onstatechange(p, state, v) ==
  LET q == [p EXCEPT !.ctx = state, !.asked = ""]
      lost == resetStartupSyncWait(Unanchored(q))
  IN
  CASE state = "interrupted" -> setSyncState(lost, "background")
    [] state = "suspended"   -> lost
    [] OTHER ->
         IF q.sync = "background"
           THEN pump(setSyncState(q, IF v.hidden THEN "background" ELSE "recovering"), v)
         ELSE IF ~canScheduleAudio(q, v) THEN q
         ELSE IF Starting(q) THEN tryStartInitialSync(q, v)
         ELSE resyncFromBuffer(q, v.cur, v)

StretcherReady(p, v) == pump([p EXCEPT !.stretcher = "ready"], v)

StretcherFails(p) ==
  LET q == [p EXCEPT !.stretcher = "failed", !.pending = None] IN
  IF Started(q) THEN q ELSE failStartupSync(q)

\* The audio clock: the chain waits, plays on, or has come to its end.
Played(p) ==
  IF p.delay > 0 THEN [p EXCEPT !.delay = @ - 1]
  ELSE [p EXCEPT !.at = IF @ + 1 < p.cursor THEN @ + 1 ELSE None]
=============================================================================
