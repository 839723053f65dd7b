# Verification of rtp2httpd

The repository is a collection of OpenWrt packages. Most of them are build recipes,
configuration pages and scripts around programs that live elsewhere. The program with
the most logic of its own is `src/opd/rtp2httpd`: a gateway that turns IPTV multicast
(RTP over UDP), RTSP and HTTP sources into HTTP streams. Its core is written in C, runs a
supervisor and several single-threaded worker processes, each around an edge-triggered
epoll loop, and shares a status area between the processes through shared memory. With it
comes a web player in TypeScript (`web-ui/src/playback-engine`): a web worker that
downloads segments and remuxes them, and a page that feeds a MediaSource and a player of
software-decoded audio. This directory holds TLA+ models of both, TLC configurations that
check them, and TLAPS proofs about the packet pool, the reorder window, the shared multicast
source, the fast channel change, the proxy relay, the RTSP client, the client slots, the path of
a disconnection with its block list and pipes, the supervisor, the worker of the player with its
playlist source and loader, and the page's playback controller. Paths of C files below are
relative to `src/opd/rtp2httpd/src/`, those of TypeScript files to
`src/opd/rtp2httpd/web-ui/src/playback-engine/`.

Contents: [inventory](#inventory), [modules](#modules-and-the-code), [runs](#runs-and-bounds),
[fairness](#fairness), [proofs](#proofs), [where the code departs from a wanted
property](#further-configurations-where-the-code-departs-from-a-wanted-property),
[what is left out](#what-is-not-modelled), [plan](#plan), [how to run](#how-to-run).

## Inventory

How the parts interact. The supervisor forks the workers and passes them signals. A
worker's loop takes events from the poller, then lets the multicast sources receive,
then ticks every stream, then writes out the connections on its write list. A stream
context ties one client connection to one source: a subscription of a shared multicast
source, an FCC session (burst, then multicast), an RTSP session, or an HTTP proxy
session. RTP payload passes a reorder window (with FEC groups beside it) into pool
buffers and from there to the send queue of one or many connections. Every worker
writes what its clients do into slots in shared memory; any worker may serve the status
page, which reads all slots, and ask another worker to disconnect a client through a
slot and a notification pipe.

In the browser, the page's playback controller sends the worker commands (load, pause,
resume, reset) and takes its messages (init and media segments, decoded audio, playlist
facts, ends and errors), each tagged with the generation of the load. The worker's pipeline
is a loop of coroutines over a segment source (a list, one continuous stream, or a
playlist), one fetch loader at a time and a demuxer with its remuxer. The controller owns
the queues in front of two SourceBuffers, the software audio player with its
AudioContext, and the element's playback rate.

| Component | State it keeps | Operations | What is hard | What makes it correct |
|---|---|---|---|---|
| RTP reorder window (`rtp_reorder.c`) | ring of held packets, next sequence number, count, phase | insert, flush, forced flush, recover, release | loss, duplicates, displacement, 16-bit wrap, buffers kept for FEC after delivery | sender's order, each packet once, nothing held lost, ring within the window |
| Forward error correction (`rtp_fec.c`, `rs_fec.c`) | array of groups, cached earliest end | parity packet, recovery, eviction, expiry | cache against array, groups that pin packets | the cache is the earliest end of all groups |
| Packet pool (`buffer_pool.c`) | segments, free list, reference counts, views, snapshots | alloc, get, put, view, snapshot, expand, shrink | order in which references end, shrinking under use, link field shared by free list and queue | free exactly when unused, memory in use never released, counters exact |
| Client slots (`status.c`) | owner, generation, payload, disconnect request of each slot; admission guard | register, update, copy, disconnect, unregister, reap | several processes without locks, kill between two steps, id reuse | never over capacity, admitted finds a slot, only the requested client closed, a dead worker's slots reclaimed |
| Block list (`status.c`) | table of addresses and end times, lock | block, look up | clocks read before the lock, expired and full entries, killed lock holder | every look-up agrees with the blocks in force |
| Notification pipes (`status.c`, `worker.c`) | bytes in each worker's pipe | trigger, drain, respawn | full pipes, dead readers | a disconnect byte is not lost; a trigger returns |
| Supervisor (`supervisor.c`) | worker records, flags, restart times | spawn, reap, limit, reload, restart, stop | signals at any moment, fork failing, death of the supervisor | one process per index, limited restarts, a reload reaches all, a stop ends all |
| Worker loop (`worker.c`, `poller_*.c`) | connection list, descriptor map, write list | events, ticks, writes, deferred frees | descriptors closed and reopened within a batch | no stale dispatch, everything closed |
| Shared multicast source (`multicast.c`) | subscribers, shared window, batch, descriptor owner | join, leave, receive, fan-out, change-over | private and shared windows, partial batches, pool exhausted half-way | every connection one unbroken run; the socket mapped to a subscriber |
| Fast channel change (`fcc*.c`) | session state, pending list, time stamps | request, redirect, burst, sync, hand-off, termination | datagrams lost or late, hand-off between two sources | unbroken run in one order; server told to stop, and not too early |
| HTTP proxy and connection output (`http_proxy.c`, `connection.c`, `send_queue.c`) | queue totals, pause flag, write state | read, queue, flush, pause, resume, drain | edge-triggered sockets on both sides, limits that change | exact totals, body complete, no stall |
| RTSP client (`rtsp.c`, `stun.c`) | protocol state, pending request, buffer, candidates, STUN | connect, request, answer, redirect, challenge, keep-alive, TEARDOWN, tick | TEARDOWN outliving its client, EOF with media, time-outs, events armed by hand | one request at a time, one endpoint named, ends of all kinds reached |
| Log ring, status events (`status.c`) | ring of entries, cursors of readers | add, build event | writer overtakes readers | each entry once, in order |
| HTTP fetch, M3U and EPG caches (`http_fetch.c`, `m3u.c`, `epg.c`) | child process, pipe, cache files | start, poll, finish, refresh | pipe and child end in either order | a cache is replaced only by a complete file |
| Configuration reload, listeners, PID file (`configuration.c`, `unix_socket.c`, `pid_file.c`) | snapshots of each part | prepare, commit, roll back | a later part fails | all or nothing |
| HTTP parsing and routing, services, URL templates, time zones, playlist rewriting, chunked decoder | parser positions | parse, format | fragments, text | result equals that of the whole input |
| Snapshots (`snapshot.c`) | key-frame buffer, converter process | collect, convert | limits, external program | one image or an error |
| Access log, web pages, utilities | none or a file | | | |
| Playlist source (`hls/hls-source.ts`) | segments known, next index, next sequence number, timeline position | next, fetch, ingest, trim, start at the live edge | answers out of a cache, a window that moved on, trimming under an index | one timeline without hole or overlap, nothing listed lost, the end announced last |
| Fetch loader (`io/fetch-loader.ts`) | status, stash, request | open, chunk, pause, restart, abort | promises of aborted requests, bytes not taken | every byte of one request once and in order |
| Worker pipeline (`worker/*.ts`) | generation, current run, pause gate, init flags, decoder queue | load, pause, resume, reset, each await of `_run` | superseded runs that wake late, gates, a playlist found in a response | nothing of an old load under a new generation, media under its own init, a load ends |
| MediaSource buffers (`mse/media-source.ts`) | queues, removals, busy buffers, duration, end of stream | append, remove, quota, type change, close, end | asynchronous buffers, refusals, buffers that must exist before the first init is parsed | segments appended once and in order |
| Playback controller, live sync (`mse/playback-controller.ts`, `mse/live-sync.ts`) | flags of two pauses, pending seek, latency, rate | load, seek, suspend, messages, backpressure | commands and messages that cross, a buffer nobody looks at again | the worker is paused exactly when the page believes so, the buffer does not stay empty |
| Software audio (`audio/pcm-audio-player.ts`) | decoded range, scheduling cursor, start-up, sync state | feed, schedule, seek, pause, hide, recover | a context that is interrupted, a start-up that slows the video, a stretcher still loading | the slow rate does not outlive start-up, decoded audio does not stay silent |
| Demuxing, remuxing, decoders, video filters, backends, pages | parser positions, buffers, GL state | parse, generate, render | container formats, signal processing | output equals that of a reference |

PROJECT.json lists every component with its source files and status, the packages of the
repository besides rtp2httpd included, and names each hazard at its line.

## Modules and the code

Every module starts from one C file (or the part of it that has one state) and has one
action per function or handler. Handlers that call each other within one event are
operators on a record of the state (`Here`, `Become`), so that a whole handler is one
step; a new step begins only where the process can be interleaved with another process
(shared memory, signals) or returns to the event loop. Payload is abstracted to positions
in a stream, units of length, or names.

* `RtpReorder` — `rtp_reorder.c` with the groups of `rtp_fec.c`. A packet is its position
  in the stream; the code sees it modulo `SeqMod`. The network loses, repeats and
  displaces packets within `Late` and `Skip`. `Insert` is `rtp_reorder_insert` with its
  five branches; `Fec` is `fec_process_packet`. What Reed-Solomon computes is replaced by
  its premise (as many packets as the group has media packets). Parity packets come on the
  FEC port; those that come in band, on the media socket (`stream.c:331-336`), would reach
  `fec_process_packet` in order with the media and are left out. `RtpReorderProofs` proves
  it without FEC.
* `OrderedStream` — the abstract promise of a window: a frontier that only advances, and
  packets emitted in order behind it. `RtpReorder` implements it under the mapping
  `frontier <- base` (once active) and `emitted <- out`.
* `BufferPool` — `buffer_pool.c`. A call is a step. Segments are sets of buffers with an
  explicit list order, because shrinking walks the list. `BufferPoolProofs` proves it.
* `ClientSlots` — the slots of `status.c`. A step is one atomic operation or the plain
  accesses between two; kills may come between any two steps. The generation counter,
  not the record, identifies a client. `maxclients` is constant during a behaviour, though a
  reload may change it (`configuration.c:534-541`): what a limit means that is lowered below
  the clients that are there is not modelled. `ClientSlotsProofs` proves its safety properties.
* `BlockList`, `NotifyPipes` — the other two shared structures of `status.c`.
* `Disconnects` — the whole of `handle_disconnect_client`, over the two above: admission
  looks an address up, the serving worker marks the client, blocks its address and writes to
  every pipe, and the worker of the client closes it. One thread of a worker goes through
  both structures, so a step of `BlockList` needs an idle `NotifyPipes` and the other way
  round, and a kill leaves what it was doing in either undone. `SupervisorProofs` proves
  the whole and the two structures.
* `Supervisor` — `supervisor.c`: the loop position is a variable, every child has a
  phase that says which signal handlers it has, and a signal does what that handler does.
  `restarts` is a history variable: the ages of the last restarts of an index, one more than
  the code remembers, which is what the limit is judged by; `unborn` is another: the indexes
  whose last `fork` failed. `SupervisorProofs` proves its safety.
* `McastSource` — a source and its subscribers. Its windows are those of `RtpReorder` without
  the wrap, which `RtpReorder` checks: slots modulo the window, an occupied slot and what
  becomes of it while packets are collected (`rtp_reorder.c:198-210`) and later
  (`rtp_reorder.c:232-285`), flush and forced flush. What may fail in a step is its argument
  `e`: connections the pool has no view or window for (`bad`), no memory for a batch (`full`),
  and packets that the queue of a connection is too full for (`refuse`,
  `connection.c:1291-1302`), in every flush, also those of the tick and of a newcomer. A packet
  on the FEC port or in band takes all connections out of the shared output and puts FEC to
  work in the windows of some (`ctx.fec`, `stream.c:369-370`); what such a connection gets from
  then on is `RtpReorder`'s matter and its history ends. A newcomer may come from the unicast
  part of an FCC session, with a window in use. `due` is a history variable: the packets a
  connection is to get, which are those that came less than a window behind the newest while
  it subscribed, and those that waited in the shared window when it joined, but not those its
  queue refused. One that arrives later than a window may or may not be delivered.
  Packets without an RTP header, which pass no window, are left out.
  `McastSourceProofs` proves it.
* `FccSession` — one session with server, group and network, and its own reorder window
  (an INSTANCE of `RtpReorder`). Both vendor dialects share the state machine.
  `FccSessionProofs` proves its invariant.
* `ProxyRelay` — the body of a proxied response from the upstream socket to the client's.
  Its queue holds buffers of the pool, of which it sees only whether any are left;
  `BufferPoolProofs` proves its invariant too.
* `RtspSession` — one RTSP stream from the connect to the release of the connection of
  its client. The whole state is one record `rtsp`; each C function is an operator from
  records to records (or to a set of them where a system call may fail). `udp` numbers the
  UDP sockets that were open, so that an endpoint that STUN mapped can be told from a later one;
  a control connection from another local address closes them
  (`rtsp_capture_control_endpoints`), which the field `moved` records.
  `ClientSlotsProofs` proves its invariant, behind that of the slots.

* `HlsSource` — `hls/hls-source.ts` against a server whose playlist slides, grows and ends,
  and may be answered out of a cache. A segment is its media sequence number, with the time
  it begins.
* `FetchLoader` — `io/fetch-loader.ts`: the loader, the requests it made (aborted ones stay,
  because their promises still settle) and its stash. Bytes are counted.
* `TransmuxWorker` — `worker/pipeline.ts` and `worker/transmux-worker.ts` over the two
  above. Each call of `_run` is a coroutine whose `pc` is the await it is suspended at; a
  superseded one finds out when it wakes. The demuxer is what it takes of the bytes offered
  and whether it posts media; `out` is the history of messages since the page's last load.
  `TransmuxWorkerProofs` proves its safety, and that of the loader and of the source inside
  it. `OneContainer` is an assumption on what is loaded: the items of a list are of one kind,
  and once a playlist has an init segment in force it has one for all that follows.
* `MediaBuffers`, `PcmPlayer` — the state of `mse/media-source.ts` and
  `audio/pcm-audio-player.ts` as records and their methods as operators on them; `calls`
  collects the callbacks an operation makes, which the controller then runs in that order.
  A chain of audio that leads the video starts after a `delay` of at most `MAX_START_DELAY`
  (`audio/pcm-audio-player.ts:931-936`), and a chain that has been played to its end leaves its
  spans behind (`spans`), so that the control loop does not rebuild it (line 1075).
* `PlaybackController` — `mse/playback-controller.ts` with `mse/live-sync.ts` over these two:
  one action per message, command, browser event and user action. The worker is seen from
  outside (the messages of a load in order, stopped while it is paused), commands and
  messages cross in two queues. Time is counted in segments. `PlaybackControllerProofs` proves
  part of its safety.

The MC modules only name symmetry sets, and for the player the streams that may be loaded
(`MCWorker`, `MCPlayback`); all other bounds are in the .cfg files. `McastSource` has its
symmetry (`Alike`) and a view (`Seen`) in itself. The view leaves out the window and flags of a
connection that is handed no more packets, and the history of one that closes or has FEC at
work: no step reads the former, and the latter stays as it was in the state where it was last
seen. Of the history of the others it keeps the last packet, what is due after it, and whether
the history is right up to there (`Kept`), so that a wrong one is never taken for a right one: a
packet that is missing before the last one and was not due can not become due any more, since
it came or is a window behind. So nothing left out can break a property later.

## Runs and bounds

| Run | Question | Bounds and why they suffice |
|---|---|---|
| `reorder` | Does the window deliver in order, once, losing nothing it holds, stay within the ring, and is the cached end of the FEC groups exact? | window 4 of 16 sequence numbers, 18 packets, up to 3 late or missing, with and without FEC in groups of 2 and one parity, 2 groups tracked: more than one wrap of numbers and several of the ring, forced flush and late drop, a third group that evicts |
| `pool` | Free list, counts, views, counters, and is `IInv` an invariant? | 5 buffers, 2 views, 1–4 pooled, growth by 2: growth cut by the maximum, several segments, shrink of some of them |
| `slots` | Capacity (in `Inv`), admission, right client, reclaim | 2 processes, 2 slots, limits 1 and 2, one kill, 2 registrations: two registrants meet a third party that reaps |
| `supervisor` | One process per index, limits, restarts, reload, stop | 2 indexes, 2 process ids (so ids are reused), one restart per window, all signals, failing forks |
| `disconnects` | Is a client that is to be disconnected ever forgotten, a byte lost, a block wrong? | 2 workers and supervisor, pipes of 1 byte (full pipes are frequent), 2 addresses for 1 or 2 entries (eviction), blocks of 2 ticks, waits of 1, one kill |
| `mcast` | One run per connection, owner subscribed, and is `Inv` an invariant? | 2 connections, 3 joins, window, collection and batch of 2, 3 packets up to 2 late or 1 missing (so a window is forced on, meets occupied slots and duplicates), one connection without a view or one refused packet in a step, newcomers with a window up to 1 behind the group: every change-over with a batch open. It was also checked with 2 joins and 4 packets, and for one connection with a window of 3, 5 packets up to 4 late or 3 missing, and two failures in a step; the proof is for all sizes |
| `fcc` | Seamless, in order, server told and not early, ends | burst from 1, group from 2, 5 packets, one displaced, one lost, one redirect, three control messages, ordered time-outs of 1, 2, 3 ticks, failing joins and sends |
| `relay` | Totals, never cut by backpressure, complete, no stall but the known one | 12 units in buffers of 2, limits 8 and 12, socket of 5, one exhausted pool, a reset |
| `relay_stall` | The stall (a violation, see findings) | 9 units, limit 8, socket of 3 |
| `rtsp` | One request, one endpoint, server told, handshake, TEARDOWN and ended streams come to an end | 2 addresses, one redirect of DESCRIBE or TEARDOWN, one challenge of any request, one STUN retry, time-outs of 1 tick, one waiting media packet; UDP and TCP; GET, HEAD and duration requests; a redirected connection may have another local address |
| `worker` | Does the timeline hold, does every byte arrive once, does nothing stale go out, does a load end? | 4 segments in a window of 2 with answers one segment old, durations 1 and 2, history cut to 1 (so trimming, a gap and a repeat all occur), two EXT-X-MAPs, bodies of 3 units in packets of 2 (a rest stays in the stash), 2 loads of five kinds (continuous, a playlist found in a response, TS list, fMP4 list, neither), one pause or reset, 2 requests of a continuous stream |
| `playback` | Are segments appended once and in order, do the flags agree, is the slow rate undone, does neither buffer nor audio stay empty? | three-segment streams (a finished playlist, a codec change, a continuous stream with late software audio) followed by a second load whose audio codec is refused, both kinds of MediaSource, room for 2 segments, one disturbance at any step (a seek, a pause, a suspension, live sync switched, the page hidden, the MediaSource closed or asking for no more data, the audio interrupted, the stretcher failing) |

What the properties say. A conjunction named `Inv` holds the type invariant of a module
and the properties that are checked with it:

* `Inv` of `RtpReorder`: `WithinWindow` (a packet in the ring is in the slot of its number
  and within the window), `MinEndExact` (the cached end is the earliest of all groups) and
  `Shaped` (see the proofs).
  `ImplementsStream`: out in order and once. `NothingLost`: a packet leaves the ring only
  by delivery or when its turn has passed.
* `IInv` of `BufferPool` (`FreeExactlyUnused` and the other parts: see the proofs) and
  `ViewsKeepBytes`.
* `Inv` of `ClientSlots`: `Capacity`, `AdmittedFindsSlot` and `ConnectionsOwned` with what the
  steps rely on; `RightClient`, `Reclaimed`: named after the hazards of slots shared without a
  lock. The model's names are unique. The code's are of an address, a worker and a counter of the
  worker; the counter is cleared when a dead worker is reaped (`status.c:703`), so that a name may
  come again for a client of the same address. Requests that outlive such a death are not modelled.
* `Inv` of `Supervisor`: `OneProcessPerIndex`, `RestartsLimited`, `NobodyLeft` and what
  makes them inductive; `RestartedUnlessForkFailed` (an index without a process is marked for a
  later restart, unless its own last `fork` failed), `ReloadReaches`, `AllEnd`.
* `AllInv` of `Disconnects`: `BlockLasts` of the table, `RequestKept` of the pipes, `Together`.
  `AnswersRight`: every look-up agrees with the blocks in force. `NotForgotten`: a client
  marked for disconnection is closed, or the worker that was asked is still on its way, or
  the byte is in the pipe of the client's worker, unless the asked worker died: one that is
  killed between mark and byte may leave the client connected, and nothing is promised then.
* `OneRun` of `McastSource`: what a connection gets is in order, each packet once, and between
  two of them nothing is missing that was due. `Inv`: `OwnerSubscribes`, and what makes `OneRun`
  inductive (see the proofs).
* `Inv` of `FccSession`: `Seamless` about the client, `StopCoversHandoff` and `ServerTold`
  about the FCC server; `OneOrder`; `TurnsToGroup` about progress.
* `Inv` of `ProxyRelay`: exact totals (`QueueExact` in `TypeOK`), `NeverCut`,
  `CompleteUnlessReset`; `DeliveredUnlessShort`.
* `SessionInv` of `RtspSession`: `OneRequest` (requests do not overlap and each answer is taken for
  the request it answers), `OneEndpoint` (DESCRIBE and SETUP name the same endpoint and the
  sockets are those, unless another local address has closed them: `moved`), `Told` (a server
  left in play was sent TEARDOWN); `HandshakeEnds` (unless the session is `Hung`),
  `TeardownEnds` (unless it is `Reborn`), `EndSeen`.
* `Timeline` of the playlist source: `Contiguous`, `JumpsReset`, `EndIsAll`.
  `NothingListedLost`. `EachByteOnce` of the loader. `WorkerInv` of the
  worker: `MessagesBelong` (`OwnGeneration`, `UnderItsInit`) with what makes it inductive (see
  the proofs); `PlayedThrough` (each segment once and in order, all of
  them before the end), `PausedIsQuiet`, `LoadEnds`.
* Of the page: `BuffersRight` (`InOrderOnce`, `InitsTogether`), `FlagsAgree`,
  `SlowOnlyAtStartup`, `Fed` and `Heard` (decoded audio under a playing video is heard or the
  page told, unless the chain has run dry: `RanDry`, nothing decoded lies past its cursor).

The properties with "unless" in their names, and `EndSeen`, `HandshakeEnds`, `TeardownEnds`,
`OneEndpoint` and `Heard`, state what remains true next to a departure described below; the full statement is in the further configuration.

Deadlock is not checked: each model stops where its bounds are used up or its session or
process is over.

Assumptions of `RtspSession`: a request fits the socket's buffer and is sent whole, an
answer arrives whole (media before, after and between answers in any order); the poller
reports again when something arrives or `poller_mod` is called, which is what EPOLLET
does; STUN may be unconfigured. A tick of the STUN clock may come with an event waiting,
a tick of the state's clock does not: the loop takes its events before it ticks.

Assumptions of `TransmuxWorker`: the demuxer takes whole packets and posts a segment's media
as one message; a playlist that the pipeline detects in a response stands for the first
answer to its source; a failed init segment ends the load. The range resume of
`io/fetch-loader.ts` is not reached: its only caller that pauses asks for a restart.

Assumptions of `PlaybackController`: a unit of time is a segment and the output timeline has
no gaps (that is `Timeline` of the worker), so stall jumps over gaps are left out; the
browser's part follows the Media Source Extensions (an append or a removal is asynchronous,
a full buffer refuses the next append, an unsupported codec is refused when a buffer is
added); the latency of a live playlist is any value, because the wall clock moves its edge.
A playback position moves as long as there is data, but nothing says how fast. Left out:
autoplay and its unlocking, the live indicator, decode errors other than a codec that is not
supported, and `destroy`, which suspends.

## Fairness

Only what the program's loops do is assumed; nothing is assumed of servers, of the group
or of clients that do not read, except in `ProxyRelay`, where delivery is promised only
for an upstream that sends and a client that reads.

* Worker loop: an event that stays due is taken (weak fairness of the event handlers),
  and the 100 ms tick comes again and again. The tick is asked for strongly in
  `RtspSession` and `Supervisor` only because it is modelled as enabled between events.
* Supervisor: its loop and the children's start-up go on; `waitpid` is polled.
* `SF` in the further configurations of `BlockList`, `ClientSlots` and `NotifyPipes` gives
  each worker its turn at a lock or pipe, so that the violations shown there do not come
  from starvation.
* Browser (`TransmuxWorker`): the event loop runs what is due; a request is answered or
  fails; the timer of a refresh fires; and of infinitely many fetches of a playlist some are
  answered by the server itself, not by a cache and not with an error. Nothing is assumed of
  the page's commands: a paused load need not end.
* Browser (`PlaybackController`): one of the events that are due is handled again and again
  (weak fairness of their disjunction); which one, and how often `timeupdate` comes, is left
  open. `Fed` and `Heard` therefore hold for any order of the events.

Fairness formulas are written out (`[]<>~guard \/ []<><<A>>_vars`) with the guard under
which `A` changes the state; this is weak fairness without ENABLED.

## Proofs

`BufferPoolProofs` proves, for any number of buffers and views and all watermarks that
satisfy `PoolAssumption` (finite disjoint names, `0 < MinBuffers <= MaxBuffers`,
`0 < ExpandSize`; nothing about the watermarks):

* `PoolInvariant`: `PoolSpec => []IInv`.
* `PoolSafety`: types, `FreeExactlyUnused`, `UsedIsPooled`, `RefsExact`, `CountersExact`,
  `PoolBounded`, `SnapshotInUse` always hold.
* `ViewsSafe`: the action property `ViewsKeepBytes`.

None of the wanted properties is inductive alone. That a put recycles exactly at the last
reference needs the counts to be exact (`RefsExact`); that shrinking keeps the minimum
needs the segments to be disjoint and the list to be an order, since the code walks the
list and subtracts segment sizes one by one (`SegmentsDisjoint`, `NewerIsOrder`,
`CountersExact`); that a view's buffer is in use needs a view to exist exactly while held
(`ViewsHeld`). `IInv` is their conjunction. The proof has one lemma per operation
(`AllocIInv`, `GetIInv`, `PutBufferIInv`, `PutViewIInv`, `MakeViewIInv`, `SnapshotIInv`,
`ShrinkIInv`), on lemmas about counting (`CountViewers`, `NewSegment`, `ReleaseCounts`,
`ReleaseKeepsMinimum`, the last by taking the oldest released segment of a finite list).
TLC checks `IInv` as an invariant in the run `pool`.

The same module proves, for `ProxyRelay` with any sizes of
buffers, batches, turns, body and client socket, any framing, resets and exhausted pools, and
any set of queue limits of at least four buffers (`RelayAssumption`; `connection.c:31` keeps
64), `RelayInvariant`: `Spec => []Inv`. `RelayFlow` is what makes it inductive:
what was sent, is queued, lies in the socket and is to come adds up to the body; a session is
complete, without a reset, only when nothing lies in the socket and nothing is to come; a
connection closes in order only behind a complete session, with an empty queue. The lemmas
follow the helpers: `SumIs`, `SumAppend`, `SumConcat` (the sum of a queue, by induction over
its length), `ConsumeIs` (a write that ends within a buffer keeps both totals exact),
`QueuesIs` and `ReceiveIs` (each buffer of a receive but the last is full; the pause at three
quarters of the limit comes before the queue would refuse a buffer, so a receive fails only
for want of a buffer), `OnDrainIs`, `WriteIs`.

`RtpReorderProofs` proves, for a stream without FEC, any sequence space, any window that
divides it and is at most half of it, and any collection (`WindowAssumption`), as long as
arrivals are displaced and gaps wide by less than half of the sequence space and the packets
collected at the start span at most a window (`Near`, which the run's bounds satisfy):

* `WindowInvariant`: `Spec /\ ~fecPort => []Inv`.
* `WindowImplementsStream`: `ImplementsStream`, the refinement of `OrderedStream`.
* `WindowLosesNothing`: the action property `NothingLost`.

The code sees numbers modulo 2^16 and slots modulo the window; the statements are about
positions. `DiffIs` and `NearestIs` say when a signed 16-bit difference and a number near the
newest packet are those of positions; `OffsetIs` that slot, offset from the base and packet
determine each other, which needs every packet held to be within one window of the base. That
is `WithinWindow`, inductive only with `Shaped`: the base is never more than one ahead of the
newest packet nor a window behind it, and while packets are collected the oldest and the newest
are held, so that the next one cannot widen the span. `MovesOn` says what a call does that moves
the base; `FlushIs` and `ForceFlushIs` show it (the sweep of the latter by induction over its
slots, `SweptIs`), then one lemma per branch of `rtp_reorder_insert` (`FirstRight` to
`AheadRight`). Both parts of `Near` are needed: with a wider start packets held leave the
window (`MCReorderCount.cfg` shows it).

`SupervisorProofs` proves of `Disconnects`, for any number of workers and addresses, any pipe size, table
sizes and number of deaths (`PipesAssumption`, `DisconnectsAssumption`: sizes
positive; `MaxWait < BlockTime`, a worker spins for the lock less than the 5000 ms a block
lasts, because times are counted down to a floor below which all are alike):

* `RequestsKept`: `PipesSpec => []PipesInv`, inductive as it stands: a byte is written
  only into a pipe with room for it, and only the worker itself empties its pipe, then owing
  nothing. It is what `TriggerReturns` (not true, see below) is given up for.
* `TableInvariant`: `Spec => []Inv` of `BlockList`. That a block lasts (`BlockLasts`) is not
  inductive: workers find expired entries of an address before or behind the one that
  blocks it, and free whichever is first. `FirstDecides` orders them: no entry outlives the
  address's last block, and behind the first all are over. `Locked` keeps workers apart.
* `WholeImplementsParts`: every behaviour of the whole is one of each part.
* `AllInvariant`: the two and `Together` hold of the whole.
* `Remembered`: `NotForgotten` always holds. It is not inductive: an address may be marked
  while the worker that is to serve it has looked it up but not yet served it, so `Together`
  says the same of a client that is still being admitted (`Looks`), and that only a live
  worker that writes to no pipe is at the table.
* `Answers`: the action property `AnswersRight`.

The entry found first is a least element; `LowestIs` gets it from the well-foundedness of
`<` on the naturals, which the library states of sets and not of operators.

`ClientSlotsProofs` proves, for any number of workers and slots, every limit on clients and
any number of deaths (`SlotsAssumption`: at least one slot, limits not above the number of
slots, `NoPid` not a worker):

* `SlotsInvariant`: `Spec => []Inv`.
* `SlotsSafe`: `Capacity`, `AdmittedFindsSlot` and `ConnectionsOwned` always hold; they are parts
  of `Inv`.
* `RightClientClosed`: the action property `RightClient`.
* `DeadReclaimed`: the action property `Reclaimed`.

`Inv`, which the run `slots` checks too, adds what each worker knows between two atomic
steps. `Registering`: the guard is held from `lock` to `unlock` by one worker, so the
slots it has counted can only have become free since (others reserve under the guard and
release without it); admitted, it knows fewer are reserved than `maxclients`, and a free
one lies ahead of the search, because the search has not passed a slot that has come
free. `Holding`: a slot that is being filled, updated or cleared is its worker's own.
`Living`: a worker that does not run has nothing. `Reaping`: the supervisor works for a
dead process, whose slots all lie ahead. For `RightClient` the copy that led to the
request matters: its two halves may be of different clients (see `SnapshotConsistent`
below), yet the name in it is empty or lies between the two generations that were read
(`CopyNames`, `SlotNames`, generations only grow), so that a matching name is the name of
the generation that goes into the request. The order of the comparisons is what the proof
rests on; the version is not needed.

The proof has one lemma per action. A step is one worker's, and `Bystander` says once what
the others need of it (`Spared`): their slots, registers and guard untouched. `Inside`,
`AtSlot`, `CopyStep` and `ReturnInv` do this for steps that change registers only, one own
slot, a copy's registers, or that end a call.

`SupervisorProofs` proves of `Supervisor`, for any number of indexes and process ids, any limit and window,
every set of signals, failing forks and a supervisor that dies at any step
(`SupervisorAssumption`):

* `SupervisorInvariant`: `Spec => []Inv`.
* `SupervisorSafe`: `OneProcessPerIndex`, `RestartsLimited` and `NobodyLeft` always hold.

`OneProcessPerIndex` follows from `Tracks`: every child is the recorded process of its index
and what is recorded is a child. At the start this needs `Unspawned` (indexes not yet reached
have no record). `RestartsLimited` looks at a restart the code has forgotten, so the invariant
says that the times the code keeps are those of the latest restarts, in order
(`Remembers`); then a restart that the limit allows has its predecessor of `MaxRestarts`
restarts ago outside the window, and time only moves it further. `NobodyLeft` holds because
the loop leaves `stopping` only with no index recorded, and `Tracks` turns that into no
process. The proof has one lemma per step of the loop; signals and the steps of a child are
all covered by `TracksSame`.

`TransmuxWorkerProofs` proves of `HlsSource` alone, for any playlist window, any age of a cached answer, any
durations, discontinuities and init segments, any number of segments kept and any limit above
which the history is cut (`HlsAssumption`: at least one segment in a live playlist, at the
live edge and kept; no more kept than the limit; segments begin one after another):

* `HlsInvariant`: `HlsSpec => []HlsInv`.
* `HlsTimeline`, `HlsLosesNothing`: `Timeline` and `NothingListedLost` always hold.

`Timeline` is about what was handed out, the code works on what it has queued. `HlsInv` ties
them: `Queue` (the queue is one timeline that ends where `timelinePos` and
`nextMediaSequence` say, so the next playlist continues it) and `Handed` (what was handed
out last is the segment before `nextIndex`; before the first, the next one begins at 0).
`EndIsAll` follows from `NothingListedLost` because the end is announced only of an empty
queue. The proof follows the code: `NewOnes` and `Appending` about the segments a playlist
adds, `Trimming`, `Starting` about the shift to time 0 at the live edge, `Ingesting` for the
whole of `ingest` with it, `Serving` for a turn of `next()`, and `HlsSteps` with a case per
action.

The same module proves of the worker, for any playlists, bodies and packets of any size, any number
of loads, commands, frames and refreshes, any sequence of items in a list (`HlsAssumption` and
`WorkerAssumption`: a load is a non-empty continuous stream or a list of known kinds):

* `WorkerTimeline`: `Timeline` and `NothingListedLost` always hold: every step of the worker is
  one of the source or leaves it alone.
* `WorkerReadsOnce`: `EachByteOnce` always holds of the fetch loader in it.
* `WorkerMessages`: `Spec => []WorkerInv`, and with it `MessagesBelong`.
* `WorkerPauses`: the action property `PausedIsQuiet`.
* `WorkerPlaysThrough`: `Spec => []PlayedThrough`.

`EachByteOnce` is about the bytes the demuxer was offered; `LoaderInv` adds where each request
stands: at most one request is not aborted, and the bytes it has received are those fed and
those in the stash. The lemmas `OpenKeeps` to
`ChunkKeeps` are one per operation of the loader, and `LoaderStays` applies them to every
action of the worker that calls one.

`MessagesBelong` is about what was posted. Why a late step cannot post for an older load takes
the rest of `WorkerInv`: a load cancels the run before it, so the current run and every frame
the decoder will still accept are of the last load (`Generations`), and whatever is being read
is read by the current run (`Download`). Why media is never without its init segment takes
`AtWork`, which says for each await of `_run` what the run's segment and the fields of the
pipeline have to do with each other, and `Announced`: the fields that say that an init segment
went out are right about the messages. The attempt showed that two of these relations are of
the mode of the load: a continuous stream never has an init segment of a playlist, and what
it was probed as is what it remains. The proof has a lemma per step of `_run` (`LeaveKeeps` to
`LoadDoneKeeps`), per command and for the decoder, on general ones about a run that moves on
(`StepOfRun`, `GoesOn`), one that ends (`EndsKeep`) and a load that takes over (`TakesOver`).
What the decoder makes of its queue is a recursive function of the frames; `PostsExist` and
`DecodedIs` show by induction that it posts only for the last load.

`WorkerPlaysThrough` relates the messages to the whole past of the run, so its invariant
`PlayInv`, which holds along with `WorkerInv` and `HlsInv`, counts. `Place` is the number of the
segment the run is at, as the source counts: the items a list has handed out, the requests of a
continuous stream, or the last segment of a playlist. `Standing` says that what is posted is what comes
before that place: media of earlier segments only (of a TS segment that is being read some may be
posted, `AllUpTo`), nothing that ends the load, and every segment before it. `InHand` says that
the segment at each await is the last one the source gave, `Asked` that the playlist source
works only while the run awaits it, so that nothing it gives is passed over. That a segment that ends
has been posted is a matter of bytes: `Read` says that what was read of it is posted (TS) or
collected (fMP4) but for less than a packet, and a response shorter than a packet is an error.
`Contained` carries the container of a load along: a list found to be of playlists has posted no
media before its new run begins, and a pipeline that is fMP4 is given no TS. There is one lemma
per action (`LeavePlays` to `DecoderPlays`), on what one more message does to what was said of
those before it (`Grown`), a segment that is being loaded (`SegmentLoads`) and a run that begins
(`RunBegins`).

It takes one more assumption, `OneContainer`, which TLC finds true of the run's loads. The pipeline
decides once per load whether it reads fMP4 and does not go back to TS (`_fmp4Mode`); it relies
on the page to cut a list from one recording (`buildCatchupSegments`, `lib/m3u-parser.ts` of the
web interface) and on playlists whose `EXT-X-MAP` stays in force (`currentInitUrl`,
`hls/m3u8.ts`). Of a list that went from fMP4 to TS the property would not hold.

`McastSourceProofs` proves, for any number of connections and joins, any window, collection
and batch, packets in any order, and whatever the pool denies and the queues refuse, in any step
and to any number of connections (`SourceAssumption`: window, collection and batch at least 1;
the packets collected at the start lie within a window, `StartSpan <= Window`, as `Near` asks of
`RtpReorder`; `Behind` is any set of integers):

* `SourceInvariant`: `Spec => []Inv`.
* `OneRunAlways`: `Spec => []OneRun`.

`OneRun` looks at what a connection got; its packets come through its own window, through the
shared one and the batch, and through both in turn. `Inv` says for each connection where the
run stands: what it got, followed by its share of the open batch, is a run up to the base of the
window that serves it, and what it is still to get waits in that window (`Fed`). A connection
that failed, closes or has FEC at work only has a run that ends somewhere (`Kept`). `Shaped`
keeps what a window holds within a window of its base, so that slots are as good as positions:
`ModSame` says that packets less than a window apart have different slots, `AtIs` that the slot
of a packet there holds that packet or nothing, `EmptiedIs` and `PutIs` what becomes of the
others. On these, `FlushIs`, `ForcedIs`, `InsertFirst`, `InsertCollecting` and `InsertStarted`
show that a window hands on the next part of a run (`Covers`), and `RunConcat` that two parts
are one.

A queue that is too full takes packets out of the middle of a run. They came and are no longer
due, so the rest is a run of what is due still: `CoversThins` and `RunThins` say so of any
packets left out, `ThinsDrop` of a batch that is refused whole and `ThinsPicked` of single
packets of a private window's delivery. `FanoutServes`, `FlushBatchServes`, `AppendPacketServes`
and, by induction along the delivery, `AppendAllServes` say what the shared output does: what a
batched connection got, the batch and what is left of the delivery together are one run up to
the base, before and after each packet, whether it is queued, refused, or the connection fails.
`FlushIsRun` is that for the flushes of a tick, a newcomer, a change-over and a FEC packet;
`ArrivalIs` says what a packet adds to what is due, `PrivateRuns` and `SharedRuns` what the
windows make of it. A change-over keeps the run because both windows stand at the same packet
and nothing waits in the private one (`ReadyFed`); the change back copies the window
(`CopyIs`), and connections with FEC at work have left (`FecSetIs`). `NewcomerIs` is about a
window that comes used. Induction over the packets of a delivery uses sets of natural numbers
(`AllOfNat`), since the library's rules take a predicate as a parameter. Two attempts corrected
the statement: a packet that the source received before a connection joined may be missing from
its run, and so may one that its queue refused; `due` says which packets count.

`FccSessionProofs` proves, for any window, burst, group, time-outs, losses, control messages
and ways of failing (`FccAssumption`) that are `Calm`:

* `SessionInvariant`: `Calm` implies `Spec => []Inv`.

`Calm` asks for four things, all of which hold in the run `fcc`. The collection is at least two
packets and fits into the window with those a packet may overtake (8 and 32 in the code):
without it the window may begin after a packet that is still to come. The change of channel
happens within half the sequence numbers of the burst's first packet, since the code compares
numbers (`Reached`). No termination message says 0, which servers take for "at once":
`MCFccWrap.cfg` shows what happens otherwise. The last termination message does not fail to be
sent, which nobody looks at.

`Inv` is about the client, `IInv` about the two sources. `Basic` holds whatever is lost:
types, and that the server is told to stop once, two packets after the first that waits.
`Clean` says of a stream from which nothing was dropped that what was sent is a run and the
window goes on behind it (`W!Settled`), and where the rest is: every packet of the source that
feeds the window is held, sent or still to come (`Fed`); those that wait of the group are all of
it from where the stream joined, `J` (`Waiting`, `OnBurst`), so that the stream may leave the
burst as soon as the window has reached the packet the termination message named, which is not
before `J` (`ReachedIs`, `OnGroup`). Packets already delivered by the burst come again from
the group then and are late. `FedFits` says that the next packet meets no other in its slot,
`FedOn` what is left to come after it; what an insertion does to the window is `InsertTook` of
`RtpReorderProofs`, in a section of lemmas about any window (`Settled`, `Took`) that asks
nothing about where its packets come from. The session has the window as an instance, and the
lemmas of the proof module are those of another instance of it: `HereSame` to `InsertSame` say
that they speak of one window. There is one lemma per action for `Basic` (`BasicStart` to
`BasicCleanup`) and for `Line` (`LineStart` to `LineProcess`).

`OneOrder` of `FccSession` is not proved: after a time-out turned the stream to the group while
the window still collects, packets of the two sources may be more than a window apart, as in
`MCReorderCount.cfg`, so it holds only of short channels like the run's.

`PlaybackControllerProofs` proves, for any streams, sizes of buffers, windows and thresholds,
and whatever the user, the system and the network do:

* `SlowEnds`: `Spec => []SlowOnlyAtStartup`.
* `FlagsTrue`: `Spec => []FlagsAgree`.
* `AppendsInOrder`: `Spec => []InOrderOnce`, which is half of `BuffersRight`.
* `BuffersAlwaysRight`: `TracksFirst` implies `Spec => []BuffersRight`. The other half is
  `InitsTogether`: the browser parses no init segment before every buffer of the load exists.

The assumption `LoadsAssumption` says of the streams only that they are sequences of messages
and that segments are of a track of the player.

The near-stop of the element (`playbackRate` 0.0625) is undone by whoever ends the startup, on
some twenty paths of `pcm-audio-player.ts`, and the live sync sets the same rate. `SlowKept`
says of a player that the rate to go back to is kept exactly while startup slows the video, is
never the near-stop itself, and, what makes it inductive, that startup slows the video only while
the element's clock is trusted, which it is not while the page is hidden. Without that,
`completeRecovery` (`audio/pcm-audio-player.ts`), which begins startup anew, would drop the rate to
go back to. There is one lemma per operation of the player (`RestoreKept` to `StretcherKept`)
and one per action (`LoadSlow` to `AudioSlow`).

`FlagsIInv` is the invariant of the other two. A method of the media buffers may call the
controller back several times, and a callback may post commands; so each method is described
by what it keeps of the buffers and what it may call (`MediaKept`, `Grows`, `CallGrows` to
`OpenKept`), each callback by what it does to the controller's beliefs (`Reacts`), and a run of
callbacks by induction over their number (`CallsReact`). `Speaks` is the point: the last command
under way, or the worker's state when none is, says what the two flags say. It holds only of a
load whose MediaSource has opened; until then the generation is not asked for yet, nothing under
way bears its number (`Under`), the flags are clear and the buffers as new (`Fresh`), which is
why the command posted when the source opens finds the flags right. `MediaKept` has the
queues: what waits of a track is what was told and not done, by number (`Line`), but for a track
that was disabled. The recursion in the model's methods over lists (`Without`,
`flushPendingSourceBufferInit`, `flushPendingInits`, `Becomes`) is over a number, so that the
lemma `Reaches` does for its induction.

`BuffersAlwaysRight` rests on what the demuxer sees to and the controller cannot: it hands out
no data before the init segments of all the tracks it knows of (`ts-demuxer.ts`,
`isInitSegmentDispatched`). `TracksFirst` says that of the streams; the module `MCPlayback` has
it as an assumption, so that TLC finds it true of the run's streams. It is not true of a stream
that gains a track at a discontinuity; then the browser may refuse the late buffer, as the
comment at `pendingInits` (`mse/playback-controller.ts:98`) says. `TogetherIInv` is its invariant, along with
`FlagsIInv`. `Ready` says of the buffers that once one exists or an init segment waits, every
track of the load is accounted for: it has a buffer, or is disabled, or its init segment waits with the
others, so that a MediaSource that opens or streams again makes all of them in one task. To keep that
when a message arrives, one has to know that the init segments that wait at the controller are
all of the load's first ones or none: `InPlace` ties what is under way and what waits to the place in the
stream that the worker has reached, and `InTurn` says that the worker takes loads in the order
of their generations, so that a newer load's stream cannot be mistaken for an older one's.
`Still` and `Took` say what each method of the buffers leaves alone or takes
(`CallStill` to `FlushedTook`); there is one lemma per action (`ElementTogether` to
`TogetherInit`).

`ClientSlotsProofs` also holds the proof about `RtspSession`: `SessionInvariant`,
`RtspSpec => []SessionInv`, for any number of addresses, redirects, challenges, tries of STUN and
ticks of the clocks, any client (`Kinds`), any transport and any answers, whatever the server
does or leaves undone (`SessionAssumption`: these are numbers, and the time-out is not 0). Its one
hypothesis, `EarlyRedirects`, is that only OPTIONS, DESCRIBE and SETUP are redirected: a redirected
PLAY names an old endpoint again, which `MCRtspNames` shows, and a redirected TEARDOWN begins a
new session for nobody (`Reborn`), of which the run `rtsp` checks the same and the proof says
nothing.

The inductive invariant is `Sound`. An operation is a chain of C functions, each an operator on
the record, so it has two halves. `Good` is what every function keeps, in the middle of an
operation too: `Outstanding`, the request that is asked, or its answer on the way, or its answer
in the buffer, is the only one, and then the session waits for it; `Stage`, what each state says
of the request prepared and of the one sent last; `Leaving`, that a session that is torn down
makes no early request again, which is where one request at a time ends; `Naming`, that the STUN
mapping is that of the open sockets as long as a request may still name it, unless a control
connection from another local address has closed these (`Placed`, `moved`), that DESCRIBE and
SETUP name one mapping even then, and that STUN is over once DESCRIBE has named it. `Settled` is what holds only between events: the states that are passed through
in one call are left, and a state that sends or waits has a connected socket. `Owed`, for `Told`:
a client that leaves while its stream plays either has TEARDOWN sent, or the server is lost, or
TEARDOWN is prepared, its event due and its clock at 0 (`Leaves`); the model takes a due event before
the clock, so no time-out comes between, and that event sends it (`Handles`).
There is a lemma for each C function (`Dials` to `Exchanges`) and one for each action (`EventStep`
to `StunStep`, with `FirstStep` for the connect). `Kept` says what a function may do to the client's
connection, and lets the lemmas be chained; `Failing` is the weaker form that holds when a function
gives up in the middle of an answer.

Only model-checked: the other modules; the window of `RtpReorder` with FEC; `OneOrder` of
`FccSession`; all liveness, since ENABLED and fairness are beyond the prover used here; what folds and recursive operators compute for every input
(induction over data; the proofs above use it only over sets of natural numbers).
`CountIsBuffered` of `RtpReorder` and its like are not true at all: see below.

## Further configurations: where the code departs from a wanted property

One disagreement is listed as a finding (`relay_stall`): reads are paused by the capacity
of queued buffers (`connection.c:1321`), writes are arranged by their payload, so partly
filled buffers reach the high-water mark before the flush threshold and the body stops.

The others are kept as configurations that are not among the runs. Each is expected to
end with a counterexample; they document why a property is stated with an exception. Where
two properties are named, `tlc -continue` shows both (of `MCReorderCount` the second only
without the first, which is violated in every state that violates it).

| Configuration | Property | What happens |
|---|---|---|
| `MCReorderCount` | `CountIsBuffered` | `rtp_reorder.c:244` counts a duplicate that replaces a packet held at the base after a forced flush |
| | `WithinWindow` | more than a window missing while the first packets are collected (`:203`): the base is set to the lowest, the others alias |
| `MCReorderFec` | `InOrder` | packets kept for FEC stay in their slots after delivery; the hole test (`:107`, `:118`) meets an old one |
| | `NotAhead` | the same lets the base pass the newest packet (`:288`) |
| `MCSlotsCopy` | `SnapshotConsistent` | between the reads of a copy the slot passes to the next client: the version restarts with each client and the generation is raised before the payload is filled, so neither comparison notices (`status.c:265`) |
| | `DisconnectHonoured` | a request for the slot's former client, stored late, overwrites one for its present client that is then confirmed as sent (`:1177`) |
| `MCBlockListCrash` | `Answered` | a worker killed with the lock held: only the other guard is released on reaping (`:697`) |
| `MCNotifyPipesFull` | `TriggerReturns` | the write ends block (`:751`): two workers may wait for each other's pipe |
| `MCSupervisorFork` | `WorkersRestarted` | a failed fork leaves an index without process or mark (`supervisor.c:367`) |
| `MCSupervisorExcess` | `ExcessEnds` | SIGTERM to a child between fork and its own handlers (`:488`) only sets the inherited flag; likewise `ReloadReaches` when a reload changes the listening addresses |
| `MCRelayReset` | `Complete` | data, end and a reset in one event while paused (`http_proxy.c:1399`) |
| | `UnreadIsCovered` | an exhausted pool ends a read before EAGAIN (`:180`) and no edge follows |
| `MCFccWrap` | `StopCoversHandoff` | the number in the termination wraps to the value that means "at once" (`fcc.c:706`) |
| | `SyncWaitBounded` | when the server's answer is lost the burst plays in state REQUESTED: `unicast_start_time` is never set, data keeps the signalling time-out away, and the sync time-out does not apply (`:370`) |
| `MCFccJoin` | `FedOrEnded` | the result of joining is ignored (`:354`): a stream whose join failed stays in MCAST_ACTIVE without a source, and that state has no time-out |
| `MCRtspChallenge` | `HandshakeEndsAlways` | after 401 to SETUP (also OPTIONS, PLAY) the next request is prepared, but POLLER_OUT is armed only for `ADVANCE` (`rtsp.c:1153`), which only DESCRIBE's path back through AWAITING_OPTIONS yields; the SENDING states have no time-out |
| `MCRtspRedirect` | `TeardownEndsAlways` | 302 answering TEARDOWN reconnects and starts the session anew for a connection nobody has; that connection may never be freed |
| `MCRtspEof` | `EndSeenAlways` | media and EOF in one event while a keep-alive's answer is outstanding: one receive is made (`:1150`), the end is not read, no edge follows |
| `MCRtspNames` | `OneEndpoint` | a TCP answer to SETUP closes the UDP sockets (`:3409`) but keeps the STUN mapping; a redirect then names it for new sockets |
| | `AnswersMatch` | TEARDOWN resets the wait for the keep-alive's answer (`:2369`), which is then taken for TEARDOWN's |
| `MCPlaybackRecovery` | `TrustedClock` | the page is hidden, the system interrupts the audio, the page is shown (`recovering`), the context runs again: the last branch of `onstatechange` (`audio/pcm-audio-player.ts:286`) anchors the chain at the video's clock, which the comments at lines 92 and 535 say is not to be trusted until it has settled |

Two more need no configuration of their own. Without the exception `moved`, `OneEndpoint` is
violated in `MCRtsp.cfg`: when a redirect leads to a control connection with another local
address, `rtsp_capture_control_endpoints` (`rtsp.c:786-790`) closes the UDP sockets but leaves
the STUN mapping (`rtsp.c:2922-2943`), which only a new address family resets (`rtsp.c:863-864`).
As STUN counts as completed (`rtsp.c:960`), the sockets opened next get no mapping of their own, and
SETUP names the endpoint of the closed ones. The comments want the sockets created again before
SETUP (`rtsp.c:786-787`) and one mapping for DESCRIBE and SETUP (`rtsp.c:1803-1809`); both hold,
of a mapping that is no longer theirs. And with
`Loads <- Gapped`, `MinBackward = 0` and `PENDING_REFILL_WINDOW = 1` in `MCPlayback.cfg`, the
invariant `NeverStranded` of `MCPlayback` is violated: PCM stays away until the decoded history has
gone past the cursor of a chain that ran dry; its spans stay (`audio/pcm-audio-player.ts:976`,
`:1075`), so it is not rebuilt, a refill finds nothing at the cursor, and the audio under the
playing video stays silent. `Heard` therefore has the exception `RanDry`.

`TailAppended` of `PlaybackController` is not true either: `endOfStream` goes through while
segments wait in a queue (`mse/playback-controller.ts:407`), for instance after a refusal for
lack of room. It is not the subject of a configuration of its own; put it in the place of an
invariant of `MCPlayback.cfg`.

Read in the code but not modelled, so neither shown nor refuted here:

* `worker.c:460`: events of one batch are looked up by descriptor. If the connection of a
  descriptor is closed early in a batch, the listener then accepts a client that gets the same
  number, and a hang-up of the old one follows in the batch, the new client is closed. The
  frees are deferred (`worker.c:262`) "to prevent fd reuse issues", the closing of the
  descriptor is not.
* A client of the same address that reconnects between the mark and the block stays
  connected while its address is blocked.
* In the player: the flag of a full buffer stays set after a resume, so a second refusal does
  not pause again; an end of stream that met a queue blocked by a refusal is not tried again;
  `changeType` may come while segments of the older codec are queued; `setLiveSync(false)`
  during a slow-down can leave the faster rate; recovery has one time-out only; the gap that
  `insertToBuffer` closes is not limited to the 5 ms its comment names.

## What is not modelled

* Text: parsing and formatting of HTTP, RTSP, SDP, M3U, EPG, URLs, time zones, JSON. The
  models take the result of a parse as a choice over its outcomes.
* Arithmetic over GF(256) in `rs_fec.c`.
* File and kernel effects: `sendfile` of snapshots, socket options, interface selection.
* RTSP requests and answers in fragments; ANNOUNCE; RTCP.
* The descriptor map and event batches of the worker loop, the log ring, the reload
  transaction, the budget of receives per event (`multicast.c:912`), the download helper
  (`http_fetch.c:457`), the ring read by status pages (`status.c:297`): planned.
* Of the player: container formats (demux, remux), audio decoding and stretching, WebGL
  filters, the React pages, the wall clock of the live indicator.
* The other packages: shell, Lua, LuCI pages and recipes; the OpenAppFilter kernel module
  is a separate program. Most of the JavaScript of the repository is in such pages
  (`luci-app-bandix`, `netwiz`, `OpenClash` and others, nine tenths of its lines): they draw
  tables and forms from answers of the router and keep no protocol state of their own. A
  share of the repository's JavaScript as a whole is therefore no measure of what is modelled
  here; of the stateful TypeScript of the player every class is.

## Plan

Done since the first plan: the path of a disconnection (`Disconnects`), the player's worker
and page, and the proofs about `Supervisor` and `HlsSource`. What remains, most important
first:

1. `WorkerLoop`: event batch, descriptor map, write list, deferred frees (`worker.c`,
   `connection.c`); property: no event is dispatched to a connection that did not own the
   descriptor when it was reported; every connection that is closing is freed.
2. `Reload`: the transaction of `supervisor.c` 402–474 over configuration, services,
   listeners and PID file; abstract specification "all or nothing" and a refinement.
3. `WebPlayer`: `TransmuxWorker` and `PlaybackController` composed, in place of the worker
   seen from outside.
4. `LogRing`: writer and readers with cursors (`status.c` 284–312, 913–1117), refining a
   log with a bounded window.
5. `McastReceive`: the budget of receives per event (`multicast.c` 842–1080) and its
   fairness between sources.
6. `HttpFetch` with the M3U and EPG caches: child, pipe, retry, replacement.
7. `ChunkedDecoder`: a pure function on fragments against a reference on the whole input;
   the same form for time zones, URL templates and range arithmetic.
8. `MediaPath`: `McastSource`, `BufferPool` and the send queue composed.

## How to run

    tlc -workers 2 -config MCRtsp.cfg RtspSession
    tlapm BufferPoolProofs.tla
    tlapm ClientSlotsProofs.tla
    tlapm FccSessionProofs.tla
    tlapm McastSourceProofs.tla
    tlapm PlaybackControllerProofs.tla
    tlapm RtpReorderProofs.tla
    tlapm SupervisorProofs.tla
    tlapm TransmuxWorkerProofs.tla

PROJECT.json names for each run its module and configuration, for each property a mutant
of the model (an operator next to the one it replaces) that the run must refute, and for
each definition the lines of C it stands for.
