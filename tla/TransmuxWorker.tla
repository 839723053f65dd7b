--------------------------- MODULE TransmuxWorker ---------------------------
(***************************************************************************)
(* The worker of the web player (playback-engine/worker): commands of the  *)
(* page, one pipeline that loads segment after segment and posts init and  *)
(* media segments, tagged with the generation of the page's last load.     *)
(* Every call of _run is a coroutine; a superseded one stays suspended at  *)
(* its await and finds out when it wakes.  Commands and network events are *)
(* tasks of the event loop.                                                *)
(***************************************************************************)
EXTENDS HlsSource, FetchLoader, SequencesExt

CONSTANTS
  Loads,        \* what the page may load: [mode, mp2, items]: whether the audio needs
                \* the software decoder, the kinds of the items (ts, mp4, junk that
                \* is neither, list: a playlist)
  Body,         \* bytes of a segment
  Packet,       \* the demuxer takes whole packets, and its probe needs one
  MaxLoads, MaxCommands,  \* bounds: loads, and pauses and resets, by the page
  MaxCycles,    \* bound: requests of one continuous stream
  MaxFrames     \* bound: audio frames that wait for the decoder

Kinds == {"ts", "mp4", "junk", "list"}

ASSUME WorkerAssumption ==
  /\ Body \in Nat /\ Packet \in Nat \ {0}
  /\ \A l \in Loads : /\ l.mode \in {"live", "static"} /\ l.mp2 \in BOOLEAN
                      /\ l.items \in Seq(Kinds) /\ (l.mode = "live" => l.items # <<>>)

\* The segments of one load are in one container: a list is one recording cut by time,
\* and in a playlist a map is in force for all that follows it.
ASSUME OneContainer ==
  /\ \A l \in Loads : \A i, j \in DOMAIN l.items : l.items[i] = l.items[j]
  /\ \A j, k \in Sequence : j < k /\ InitUrl[j] # NoInit => InitUrl[k] # NoInit

VARIABLES
  gen,     \* the generation the worker tags its messages with
  pipe,    \* the pipeline: its current run and its fields
  runs,    \* the calls of _run so far: where each is suspended
  audio,   \* the software audio decoder, and frames queued for it
  out,     \* history: messages posted since the page's last load
  cmds     \* pauses and resets so far

wvars == <<gen, pipe, runs, audio, out, cmds>>
vars  == <<hlsVars, ldrVars, wvars>>

Fresh ==
  [alive |-> TRUE, run |-> 0, paused |-> FALSE, mode |-> "static", mp2 |-> FALSE, items |-> <<>>,
   index |-> 0, fmp4 |-> FALSE, initSent |-> FALSE, lastInit |-> NoInit,
   chunks |-> FALSE, told |-> FALSE, gate |-> 0]

NoPipe  == [Fresh EXCEPT !.alive = FALSE]
NoAudio == [decoder |-> "none", frames |-> <<>>]

\* A segment of a list or of a continuous stream; those of a playlist are given.
Item(kind, n) ==
  [seq |-> n, start |-> 0, duration |-> 0, reset |-> FALSE, init |-> NoInit, kind |-> kind]

Kind(m)  == IF "kind" \in DOMAIN m THEN m.kind ELSE IF m.init = NoInit THEN "ts" ELSE "mp4"
NewRun(g) == [pc |-> "top", held |-> FALSE, load |-> g, meta |-> Item("ts", 0), cycles |-> 0]
Stale(r) == r # pipe.run
At(r, pc) == runs[r].pc = pc
Gone(run) == [run EXCEPT !.pc = "done", !.held = FALSE, !.meta = Item("ts", 0), !.cycles = 0]
To(r, pc) == [runs EXCEPT ![r] = IF pc = "done" THEN Gone(@) ELSE [@ EXCEPT !.pc = pc]]

\* postMessage: tagged with the worker's generation; load is the one it is of.
Post(r, kind, seq, init) ==
  Append(out, [gen |-> gen, load |-> runs[r].load, kind |-> kind, seq |-> seq, init |-> init])

Silent == UNCHANGED <<gen, out, cmds>>

\* A superseded run finds out at its await and returns.
Leave(r) == /\ Stale(r) /\ ~runs[r].held /\ runs[r].pc # "done"
            /\ runs' = To(r, "done")
            /\ Silent /\ UNCHANGED <<pipe, audio, hlsVars, ldrVars>>

\* _resetAudioTiming: _audioGen moves on, so the frames queued for the decoder are
\* no longer of the current one.
ResetAudio == audio' = [audio EXCEPT !.frames = [i \in DOMAIN @ |-> [@[i] EXCEPT !.current = FALSE]]]

-----------------------------------------------------------------------------
(* Commands                                                                *)

\* mutant: the gate is opened but the promise is not resolved
ReleasedNobody == runs

\* The one run waiting at _resumeGate goes on.
Released == IF pipe.gate = 0 THEN runs ELSE [runs EXCEPT ![pipe.gate].held = FALSE]

\* _load and _teardown: the old run is superseded, its load cancelled.
Cancelled(rs) == [r \in DOMAIN rs |->
                    IF rs[r].pc = "load" THEN Gone(rs[r]) ELSE rs[r]]

LoadKeepsInit(l) ==
  /\ gen < MaxLoads
  /\ gen' = gen + 1
  /\ out' = <<>>
  /\ runs' = Append(Cancelled(Released), NewRun(gen + 1))
  /\ pipe' = [Fresh EXCEPT !.run = Len(runs) + 1, !.mode = l.mode, !.mp2 = l.mp2,
                           !.items = l.items,
                           !.initSent = pipe.initSent, !.lastInit = pipe.lastInit]
  /\ Destroy
  /\ ResetAudio
  /\ Renew
  /\ UNCHANGED cmds

Load(l) ==
  /\ gen < MaxLoads
  /\ gen' = gen + 1
  /\ out' = <<>>
  /\ runs' = Append(Cancelled(Released), NewRun(gen + 1))
  /\ pipe' = [Fresh EXCEPT !.run = Len(runs) + 1, !.mode = l.mode,
                           !.mp2 = l.mp2, !.items = l.items]
  /\ Destroy
  /\ ResetAudio
  /\ Renew
  /\ UNCHANGED cmds

PauseKeepsReading ==
  /\ pipe.alive /\ cmds < MaxCommands /\ ~pipe.paused
  /\ cmds' = cmds + 1
  /\ pipe' = [pipe EXCEPT !.paused = TRUE]
  /\ UNCHANGED <<gen, runs, audio, out, hlsVars, ldrVars>>

Pause ==
  /\ pipe.alive /\ cmds < MaxCommands /\ ~pipe.paused
  /\ cmds' = cmds + 1
  /\ pipe' = [pipe EXCEPT !.paused = TRUE]
  /\ IF pipe.mode = "live" THEN PauseLoader ELSE UNCHANGED ldrVars
  /\ UNCHANGED <<gen, runs, audio, out, hlsVars>>

\* resume: a paused live download restarts, with the next bytes a new boundary.
Resume ==
  /\ pipe.alive /\ pipe.paused
  /\ IF pipe.mode = "live" /\ Restarts
       THEN /\ pipe' = [pipe EXCEPT !.paused = FALSE, !.gate = 0, !.fmp4 = FALSE,
                                     !.chunks = FALSE]
            /\ ResumeLoader
            /\ ResetAudio
       ELSE /\ pipe' = [pipe EXCEPT !.paused = FALSE, !.gate = 0]
            /\ UNCHANGED <<ldrVars, audio>>
  /\ runs' = Released
  /\ UNCHANGED <<gen, out, cmds, hlsVars>>

Reset ==
  /\ pipe.alive /\ cmds < MaxCommands
  /\ cmds' = cmds + 1
  /\ pipe' = NoPipe
  /\ runs' = Cancelled(Released)
  /\ audio' = NoAudio
  /\ Destroy
  /\ UNCHANGED <<gen, out, hlsVars>>

-----------------------------------------------------------------------------
(* _run                                                                    *)

Gates == {"top", "gateInit", "gateLoad"}
Passes(r) == ~Stale(r) /\ ~runs[r].held /\ ~pipe.paused

\* _waitIfPaused: the run waits for the gate; there is room for one.
Hold(r) ==
  /\ runs[r].pc \in Gates /\ ~Stale(r) /\ ~runs[r].held /\ pipe.paused
  /\ runs' = [runs EXCEPT ![r].held = TRUE]
  /\ pipe' = [pipe EXCEPT !.gate = r]
  /\ Silent /\ UNCHANGED <<audio, hlsVars, ldrVars>>

\* The top of the loop: wait while paused, then ask the source.
AskSource(r) ==
  /\ At(r, "top") /\ Passes(r)
  /\ \/ /\ pipe.mode = "hls"
        /\ Ask
        /\ runs' = To(r, "ask")
        /\ UNCHANGED pipe
     \/ /\ pipe.mode = "static"
        /\ runs' = [runs EXCEPT ![r].pc = "got",
                                ![r].meta = IF pipe.index < Len(pipe.items)
                                              THEN Item(pipe.items[pipe.index + 1], pipe.index)
                                              ELSE Item("none", pipe.index)]
        /\ pipe' = [pipe EXCEPT !.index = @ + 1]
        /\ UNCHANGED hlsVars
     \/ /\ pipe.mode = "live"
        /\ runs[r].cycles < MaxCycles
        /\ runs' = [runs EXCEPT ![r].pc = "got", ![r].cycles = @ + 1,
                                ![r].meta = Item(pipe.items[1], runs[r].cycles)]
        /\ UNCHANGED <<pipe, hlsVars>>
  /\ Silent /\ UNCHANGED <<audio, ldrVars>>

\* next() of the playlist source has come to something.
Answered(r) ==
  /\ At(r, "ask") /\ ~Stale(r) /\ outcome # "wait"
  /\ runs' = [runs EXCEPT ![r].pc = "got",
                          ![r].meta = IF outcome = "meta" THEN Last(given)
                                      ELSE Item(outcome, 0)]
  /\ Silent /\ UNCHANGED <<pipe, audio, hlsVars, ldrVars>>

\* No more segments, or the source failed.
SourceOver(r) ==
  /\ At(r, "got") /\ ~Stale(r)
  /\ Kind(runs[r].meta) \in {"none", "end", "error"}
  /\ out' = Post(r, IF Kind(runs[r].meta) = "error" THEN "error" ELSE "complete", 0, NoInit)
  /\ runs' = To(r, "done")
  /\ UNCHANGED <<gen, pipe, audio, cmds, hlsVars, ldrVars>>

\* A segment: the remuxer is reset where the source asks for it, and a new
\* initialization segment is loaded first.
Prepare(r) ==
  LET m == runs[r].meta IN
  /\ At(r, "got") /\ ~Stale(r)
  /\ Kind(m) \notin {"none", "end", "error"}
  /\ runs' = To(r, IF m.init # NoInit /\ m.init # pipe.lastInit THEN "gateInit" ELSE "gateLoad")
  /\ IF m.reset THEN /\ pipe' = [pipe EXCEPT !.told = FALSE]
                     /\ ResetAudio
                ELSE UNCHANGED <<pipe, audio>>
  /\ Silent /\ UNCHANGED <<hlsVars, ldrVars>>

StartInit(r) ==
  /\ At(r, "gateInit") /\ Passes(r)
  /\ pipe' = [pipe EXCEPT !.fmp4 = TRUE]
  /\ runs' = To(r, "init")
  /\ Silent /\ UNCHANGED <<audio, hlsVars, ldrVars>>

\* The response of the init segment, then its body; the fetch is not aborted by
\* a new load.
InitResponse(r) ==
  /\ At(r, "init") /\ ~Stale(r)
  /\ runs' = To(r, "body")
  /\ Silent /\ UNCHANGED <<pipe, audio, hlsVars, ldrVars>>

InitBody(r) ==
  /\ At(r, "body") /\ ~Stale(r)
  /\ out' = Post(r, "init", runs[r].meta.seq, runs[r].meta.init)
  /\ pipe' = [pipe EXCEPT !.initSent = TRUE, !.lastInit = runs[r].meta.init]
  /\ runs' = To(r, "gateLoad")
  /\ UNCHANGED <<gen, audio, cmds, hlsVars, ldrVars>>

InitFails(r) ==
  /\ runs[r].pc \in {"init", "body"} /\ ~Stale(r)
  /\ out' = Post(r, "error", runs[r].meta.seq, NoInit)
  /\ runs' = To(r, "done")
  /\ UNCHANGED <<gen, pipe, audio, cmds, hlsVars, ldrVars>>

StartLoad(r) ==
  /\ At(r, "gateLoad") /\ Passes(r)
  /\ Open
  /\ runs' = To(r, "load")
  /\ Silent /\ UNCHANGED <<pipe, audio, hlsVars>>

-----------------------------------------------------------------------------
(* The download of the current run and the demuxer                         *)

Loading(r) == r = pipe.run /\ r # 0 /\ runs[r].pc = "load"

\* What the demuxer takes of n bytes: whole packets once it has recognized the
\* stream; fMP4 is only collected.
Takes(kind, n) ==
  IF pipe.fmp4 \/ kind = "mp4" THEN n
  ELSE IF kind = "ts" THEN n - (n % Packet)
  ELSE 0

\* A frame for the software decoder waits until that is ready.
Frame(r) ==
  /\ pipe.mp2 /\ Len(audio.frames) < MaxFrames /\ audio.decoder # "ready"
  /\ audio' = [audio EXCEPT !.decoder = "loading",
                 !.frames = Append(@, [current |-> TRUE, run |-> r])]

\* The remuxer posts its init segment before the first media of its own.
Media(r, m) ==
  LET ev(k) == [gen |-> gen, load |-> runs[r].load, kind |-> k, seq |-> m.seq, init |-> "ts"] IN
  IF ~pipe.told THEN out \o <<ev("init"), ev("media")>>
  ELSE IF out # <<>> /\ Last(out) = ev("media") THEN out
  ELSE Append(out, ev("media"))

ChunkArrives(r, q, n) ==
  LET m == runs[r].meta
      taken == Takes(Kind(m), Offered(n)) IN
  /\ Loading(r) /\ q.got + n <= Body
  /\ Kind(m) # "junk" \/ Offered(n) < Packet
  /\ Chunk(q, n, taken)
  /\ IF Kind(m) = "ts" /\ ~pipe.fmp4 /\ taken > 0
       THEN /\ pipe' = [pipe EXCEPT !.told = TRUE]
            /\ out' = Media(r, m)
            /\ Frame(r) \/ UNCHANGED audio
       ELSE /\ pipe' = IF Kind(m) = "mp4" THEN [pipe EXCEPT !.fmp4 = TRUE, !.chunks = TRUE]
                                          ELSE pipe
            /\ UNCHANGED <<out, audio>>
  /\ UNCHANGED <<gen, runs, cmds, hlsVars>>

\* Neither TS nor fMP4: an error, and the load is aborted.
Unsupported(r, q, n) ==
  /\ Loading(r) /\ q.got + n <= Body
  /\ Kind(runs[r].meta) = "junk" /\ Offered(n) >= Packet
  /\ Fail(q)
  /\ out' = Post(r, "error", runs[r].meta.seq, NoInit)
  /\ runs' = To(r, "done")
  /\ UNCHANGED <<gen, pipe, audio, cmds, hlsVars>>

\* The body has ended, perhaps short of Body: an fMP4 segment is posted as a whole,
\* behind the init segment it carries when none was posted (one with an EXT-X-MAP
\* carries none); TS input reaches a boundary.
LoadDone(r, q) ==
  LET m     == runs[r].meta
      init  == IF m.init = NoInit THEN "own" ELSE m.init
      fmp4  == pipe.fmp4 /\ pipe.chunks
      known == pipe.initSent \/ m.init = NoInit
      ev(k, x) == [gen |-> gen, load |-> runs[r].load, kind |-> k, seq |-> m.seq, init |-> x]
  IN
  /\ Loading(r) /\ q.got >= Packet
  /\ Complete(q)
  /\ out' = out \o (IF ~fmp4 THEN <<>>
                    ELSE IF pipe.initSent THEN <<ev("media", init)>>
                    ELSE IF known THEN <<ev("init", init), ev("media", init)>>
                    ELSE <<ev("error", NoInit)>>)
  /\ pipe' = [pipe EXCEPT !.chunks = FALSE, !.initSent = @ \/ (fmp4 /\ known)]
  /\ IF pipe.fmp4 \/ pipe.mode = "hls" THEN UNCHANGED audio ELSE ResetAudio
  /\ runs' = To(r, "top")
  /\ UNCHANGED <<gen, cmds, hlsVars>>

LoadFailsGoesOn(r, q) ==
  /\ Loading(r)
  /\ Fail(q)
  /\ out' = Post(r, "error", runs[r].meta.seq, NoInit)
  /\ runs' = To(r, "top")
  /\ UNCHANGED <<gen, pipe, audio, cmds, hlsVars>>

LoadFails(r, q) ==
  /\ Loading(r)
  /\ Fail(q)
  /\ out' = Post(r, "error", runs[r].meta.seq, NoInit)
  /\ runs' = To(r, "done")
  /\ UNCHANGED <<gen, pipe, audio, cmds, hlsVars>>

ResponseArrives(r, q) ==
  /\ Loading(r)
  /\ Respond(q, IF Kind(runs[r].meta) = "list" THEN "text" ELSE "reading")
  /\ Silent /\ UNCHANGED <<pipe, runs, audio, hlsVars>>

\* The response was a playlist: this run is superseded by one on a playlist source.
\* Its text stands for the answer to that source's first fetch.
DetectHls(r, q) ==
  /\ Loading(r) /\ Current(q) /\ q.stage = "text"
  /\ Destroy
  /\ runs' = Append(To(r, "done"), NewRun(runs[r].load))
  /\ pipe' = [pipe EXCEPT !.run = Len(runs) + 1, !.mode = "hls"]
  /\ Renew
  /\ Silent /\ UNCHANGED audio

\* The messages after the decoder has seen the frames queued for it: those queued
\* before a reset of the timing are dropped.
Decoded ==
  LET frame(n)  == audio.frames[n]
      posted[n \in 0..Len(audio.frames)] ==
        IF n = 0 THEN out
        ELSE IF ~frame(n).current THEN posted[n - 1]
        ELSE Append(posted[n - 1], [gen |-> gen, load |-> runs[frame(n).run].load,
                                    kind |-> "pcm", seq |-> 0, init |-> NoInit])
  IN posted[Len(audio.frames)]

DecoderReady ==
  /\ audio.decoder = "loading"
  /\ audio' = [audio EXCEPT !.decoder = "ready", !.frames = <<>>]
  /\ out' = Decoded
  /\ UNCHANGED <<gen, pipe, runs, cmds, hlsVars, ldrVars>>

-----------------------------------------------------------------------------
Init ==
  /\ HlsInit
  /\ ldr = NoLoader /\ reqs = {} /\ fed = 0
  /\ gen = 0 /\ pipe = NoPipe /\ runs = <<>> /\ audio = NoAudio /\ out = <<>>
  /\ cmds = 0

RunStep(r) ==
  \/ Leave(r) \/ Hold(r) \/ AskSource(r) \/ Answered(r) \/ SourceOver(r) \/ Prepare(r)
  \/ StartInit(r) \/ StartLoad(r)

Network(r) ==
  \/ InitResponse(r) \/ InitBody(r) \/ InitFails(r)
  \/ \E q \in reqs :
       \/ ResponseArrives(r, q) \/ LoadDone(r, q) \/ LoadFails(r, q) \/ DetectHls(r, q)
       \/ \E n \in 1..Packet : ChunkArrives(r, q, n) \/ Unsupported(r, q, n)

PlaylistStep ==
  /\ pipe.mode = "hls" /\ pipe.alive
  /\ (Publish \/ Wake \/ FetchMultivariant \/ FetchFails \/ \E p \in Answers : FetchMedia(p))
  /\ UNCHANGED <<wvars, ldrVars>>

Next ==
  \/ \E l \in Loads : Load(l)
  \/ Pause \/ Resume \/ Reset \/ DecoderReady \/ PlaylistStep
  \/ \E r \in DOMAIN runs : RunStep(r) \/ Network(r)

Spec == Init /\ [][Next]_vars
-----------------------------------------------------------------------------
(* The hazards: runs superseded at an await, fetches nobody aborts, callbacks
   queued across a load, pauses between any two steps.                       *)

\* A message carries the generation of the load it belongs to: the page drops
\* what is stale by comparing generations, so nothing of a superseded load may
\* go out under the new one.
OwnGeneration == \A i \in DOMAIN out : out[i].gen = out[i].load

\* Every media segment follows an init segment of its load, and the last one
\* before it is its own.
UnderItsInit ==
  \A i \in DOMAIN out : out[i].kind = "media" =>
    \E j \in 1..i - 1 :
      /\ out[j].kind = "init" /\ out[j].load = out[i].load /\ out[j].init = out[i].init
      /\ \A k \in j + 1..i - 1 : ~(out[k].kind = "init" /\ out[k].load = out[i].load)

\* Both of the messages: of which load they are, and under which init segment.
MessagesBelong == OwnGeneration /\ UnderItsInit

\* The segments of a load are posted in order, each once; nothing but audio
\* follows its end or its error; and the end is posted only after every segment
\* the source gave.
Wanted == IF pipe.mode = "hls" THEN {given[i].seq : i \in DOMAIN given}
          ELSE 0..Len(pipe.items) - 1
PlayedThrough ==
  /\ \A i, j \in DOMAIN out : i < j /\ out[i].load = out[j].load =>
       /\ out[i].kind = "media" /\ out[j].kind = "media" =>
            out[i].seq < out[j].seq \/ (out[i].seq = out[j].seq /\ out[i].init = "ts")
       /\ out[i].kind \in {"complete", "error"} => out[j].kind = "pcm"
  /\ pipe.alive /\ out # <<>> /\ Last(out).kind = "complete" /\ Last(out).load = gen =>
       \A n \in Wanted : \E i \in DOMAIN out :
         out[i].kind = "media" /\ out[i].load = gen /\ out[i].seq = n

\* While paused the worker starts no request, and a continuous stream is not read.
PausedIsQuiet ==
  [][pipe.paused /\ pipe'.paused =>
       /\ \A q \in reqs' : \E p \in reqs : p.id = q.id
       /\ \A r \in DOMAIN runs : runs'[r].pc = "init" => runs[r].pc = "init"
       /\ pipe.mode = "live" => fed' = fed]_vars

-----------------------------------------------------------------------------
(* What the worker relies on between two tasks.                              *)

Inits   == {"ts", "own", NoInit} \cup {InitUrl[k] : k \in Sequence}
Given   == [seq : Nat, start : {0}, duration : {0}, reset : {FALSE}, init : {NoInit},
            kind : Kinds \cup {"none", "end", "error"}]
Point   == {"top", "ask", "got", "gateInit", "init", "body", "gateLoad", "load", "done"}
Run     == [pc : Point, held : BOOLEAN, load : Nat, meta : Segment \cup Given, cycles : Nat]
Pipe    == [alive : BOOLEAN, run : Nat, paused : BOOLEAN, mode : {"static", "live", "hls"},
            mp2 : BOOLEAN, items : Seq(Kinds), index : Nat, fmp4 : BOOLEAN, initSent : BOOLEAN,
            lastInit : Inits, chunks : BOOLEAN, told : BOOLEAN, gate : Nat]
Audio   == [decoder : {"none", "loading", "ready"}, frames : Seq([current : BOOLEAN, run : Nat])]
Message == [gen : Nat, load : Nat, kind : {"init", "media", "error", "complete", "pcm"},
            seq : Nat, init : Inits]

WorkerTypeOK ==
  /\ gen \in Nat /\ pipe \in Pipe /\ runs \in Seq(Run) /\ audio \in Audio /\ out \in Seq(Message)

\* The current run, the frames the decoder will accept and every message posted
\* are of the last load.
Generations ==
  /\ pipe.run # 0 => pipe.run \in DOMAIN runs /\ runs[pipe.run].load = gen
  /\ \A i \in DOMAIN audio.frames : audio.frames[i].current =>
       audio.frames[i].run \in DOMAIN runs /\ runs[audio.frames[i].run].load = gen
  /\ \A i \in DOMAIN out : out[i].gen = gen /\ out[i].load = gen

\* Where a run stands with its segment, and what pipeline p remembers, go together.
Works(p, m, pc) ==
  /\ pc = "ask" => p.mode = "hls"
  /\ pc \in {"gateInit", "init", "body"} => p.mode = "hls" /\ m.init # NoInit
  /\ pc \in {"init", "body"} => p.fmp4
  /\ p.mode = "hls" =>
       /\ pc = "got" => m \in Segment \/ m.kind \in {"end", "error"}
       /\ pc \in {"gateInit", "init", "body", "gateLoad", "load"} => m \in Segment
  /\ p.mode # "hls" =>
       /\ p.lastInit = NoInit
       /\ pc \in {"got", "gateLoad", "load"} =>
            m \in Given /\ (p.mode = "live" => m.kind = p.items[1])
  /\ pc \in {"gateLoad", "load"} /\ m.init # NoInit => p.lastInit = m.init
  /\ p.chunks => pc = "done" \/ (pc = "load" /\ Kind(m) = "mp4")
  /\ p.lastInit # NoInit => p.initSent
  /\ p.initSent => p.fmp4 \/ p.mode = "live"
  /\ p.mode = "live" =>
       /\ p.items # <<>>
       /\ IF p.items[1] = "mp4" THEN ~p.told ELSE ~p.fmp4 /\ ~p.initSent

AtWork == pipe.run # 0 => Works(pipe, runs[pipe.run].meta, runs[pipe.run].pc)

\* The last init segment in q is x.
Under(q, x) ==
  \E j \in DOMAIN q : /\ q[j].kind = "init" /\ q[j].init = x
                      /\ \A k \in j + 1..Len(q) : q[k].kind # "init"

\* What the pipeline remembers to have announced is the last init segment posted.
Announced ==
  /\ pipe.told /\ ~pipe.fmp4 => Under(out, "ts")
  /\ pipe.initSent => Under(out, IF pipe.lastInit = NoInit THEN "own" ELSE pipe.lastInit)

\* The source has handed out what it says it has.
Outcome == outcome \in {"wait", "meta", "end", "error"} /\ (outcome = "meta" => given # <<>>)

\* The loader is that of the current run; a response read as text is of a list; and
\* a continuous stream that is paused is not being read.
Download ==
  /\ ldr.up \/ reqs # {} => pipe.run # 0 /\ runs[pipe.run].pc = "load"
  /\ \A q \in reqs : ~q.aborted =>
       /\ q.stage = "text" => Kind(runs[pipe.run].meta) = "list"
       /\ pipe.paused /\ pipe.mode = "live" => q.stage = "text"

WorkerInv ==
  /\ WorkerTypeOK /\ LoaderInv /\ Outcome /\ Download
  /\ Generations /\ AtWork /\ Announced /\ MessagesBelong

-----------------------------------------------------------------------------
(* Fairness: the event loop runs what is due, every request is answered or
   fails, timers fire, and a cache does not answer for the server for ever.  *)

Due(r) ==
  CASE runs[r].pc \in {"init", "body"} -> TRUE
    [] runs[r].pc = "load" -> ~ldr.paused
    [] runs[r].pc = "ask"  -> Stale(r) \/ outcome # "wait"
    [] runs[r].pc \in Gates -> ~runs[r].held
         /\ (Stale(r) \/ pipe.paused \/ pipe.mode # "live" \/ runs[r].pc # "top"
               \/ runs[r].cycles < MaxCycles)
    [] OTHER -> runs[r].pc # "done"

Waking   == pipe.mode = "hls" /\ pipe.alive /\ hls.phase = "sleep"
Fetching == pipe.mode = "hls" /\ pipe.alive /\ hls.phase = "fetch"

Fairness ==
  /\ []<>(~\E r \in DOMAIN runs : Due(r))
       \/ []<><<\E r \in DOMAIN runs : RunStep(r) \/ Network(r)>>_vars
  /\ []<>~Waking \/ []<><<Wake>>_vars
  /\ <>[]~Fetching \/ []<><<FetchMedia(Playlist(server.last, server.live))>>_vars

FairSpec == Spec /\ Fairness

\* A load of a list, or of a playlist the server has finished, comes to its end or
\* to an error unless the page pauses it and leaves it paused: no run is left
\* waiting at a gate, for a source or for a download that was cancelled.
LoadEnds ==
  <>[](\/ ~pipe.alive \/ pipe.paused \/ pipe.mode = "live"
       \/ (pipe.mode = "hls" /\ server.live)
       \/ runs[pipe.run].pc = "done")
=============================================================================
