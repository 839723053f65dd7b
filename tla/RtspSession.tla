---------------------------- MODULE RtspSession ----------------------------
(* The RTSP client of one stream (src/rtsp.c with src/stun.c), from the    *)
(* connect to the release of the client's connection: candidate addresses, *)
(* the requests, 3xx and 401 answers, STUN before DESCRIBE, keep-alives,   *)
(* time-outs, interleaved media, and the TEARDOWN that outlives its client.*)
(* The poller is edge-triggered: an event is reported when something       *)
(* arrives or the interest set is changed, with all that is ready then.    *)
(* A request fits the socket buffer, so it is sent whole.                  *)
EXTENDS Naturals, Sequences, FiniteSets

CONSTANTS
  NumAddrs,       \* addresses the host name resolves to, each of its own family
  MaxRedirects,   \* RTSP_MAX_REDIRECTS
  MaxAuth,        \* 401 answers that are retried
  Timeout,        \* ticks of the 3 s time-outs
  StunTimeout,    \* ticks of STUN_TIMEOUT_MS
  StunRetries,    \* STUN_MAX_RETRIES
  Kinds,          \* of {"play", "head", "duration"}: what the client asks for
  Redirects,      \* requests the server may answer with 302
  Challenges,     \* requests the server may answer with 401
  Transports,     \* of {"ok", "tcp"}: what it may select, "ok" is UDP
  KeepAlives,     \* may a keep-alive fall due?
  Backlog         \* media packets that may wait in the control socket

ASSUME SessionAssumption ==
  /\ NumAddrs \in Nat /\ MaxRedirects \in Nat /\ MaxAuth \in Nat
  /\ StunTimeout \in Nat /\ StunRetries \in Nat
  /\ Timeout \in Nat \ {0} /\ Backlog \in Nat /\ KeepAlives \in BOOLEAN
  /\ Kinds \subseteq {"play", "head", "duration"} /\ Transports \subseteq {"ok", "tcp"}

VARIABLE rtsp     \* the session, its sockets and its client's connection

None == "none"
Requests == {"OPTIONS", "DESCRIBE", "SETUP", "PLAY", "TEARDOWN", "ALIVE"}
Media == [to |-> None, code |-> "media"]
Codes == {"ok", "tcp", "302", "401", "501", "404"}
Connecting == {"CONNECTING", "RECONNECTING"}
Sending == {"SENDING_OPTIONS", "SENDING_DESCRIBE", "SENDING_SETUP", "SENDING_PLAY"}
Awaiting == {"AWAITING_OPTIONS", "AWAITING_DESCRIBE", "AWAITING_SETUP", "AWAITING_PLAY"}
Closing == {"SENDING_TEARDOWN", "AWAITING_TEARDOWN"}
States == Connecting \cup Sending \cup Awaiting \cup Closing
            \cup {"INIT", "CONNECTED", "DESCRIBED", "SETUP", "PLAYING", "TEARDOWN_COMPLETE", "ERROR"}

-----------------------------------------------------------------------------
(* Sockets                                                                 *)

SetState(y, st) == IF y.state = st THEN y ELSE [y EXCEPT !.state = st, !.age = 0]

\* poller_mod with or without POLLER_OUT; the poller looks again
Mod(y, out) == [y EXCEPT !.out = out, !.edge = TRUE]

CloseSocket(y) == [y EXCEPT !.sock = FALSE, !.peer = None, !.rx = <<>>, !.asked = <<>>,
                            !.out = FALSE, !.edge = FALSE, !.plays = @ /\ ~y.tcp]

Readable(y) == y.rx # <<>> \/ y.peer \notin {"open", "dialling"}
Hup(y) == y.peer \notin {"open", "dialling"}
Ready(y) == y.sock /\ y.edge /\ y.peer # "dialling" /\ (y.out \/ Readable(y))

\* rtsp_try_next_candidate: every outcome; no socket means failure
Dial(y, n) ==
  LET z == IF y.udp # 0 /\ y.family # n
           THEN [y EXCEPT !.udp = 0, !.stun = "off", !.tries = 0, !.mapped = 0, !.moved = FALSE]
           ELSE y
      w == [z EXCEPT !.sock = TRUE, !.peer = "dialling", !.family = n, !.cands = n, !.out = TRUE]
  IN  [(IF w.state = "RECONNECTING" THEN w ELSE SetState(w, "CONNECTING")) EXCEPT !.age = 0]
NextCandidate(y) == {[y EXCEPT !.cands = 0]} \cup {Dial(y, n) : n \in {m \in 0..NumAddrs : m < y.cands}}

ConnectFails(y) == NextCandidate(CloseSocket(y))

\* rtsp_setup_udp_sockets: sockets are numbered as they are opened
OpenUdp(y) == [y EXCEPT !.udp = y.opened + 1, !.opened = @ + 1]

\* rtsp_connect; STUN starts unless it has sockets or has run
Connect(y) ==
  LET z == [y EXCEPT !.closed = FALSE, !.cands = NumAddrs, !.family = NumAddrs - 1]
      asks == [OpenUdp(z) EXCEPT !.stun = "asked", !.stunAge = 0]
  IN  {[y EXCEPT !.closed = FALSE, !.cands = 0]} \cup
      UNION {NextCandidate(w) :
               w \in IF z.kind # "head" /\ z.udp = 0 /\ z.stun = "off" THEN {z, OpenUdp(z), asks} ELSE {z}}

-----------------------------------------------------------------------------
(* Requests                                                                *)

\* rtsp_prepare_request
Prepare(y, req) == [y EXCEPT !.pend = req]

\* stun_check_timeout; a retry is sent again, if there is a socket to send it on
StunCheck(y) ==
  IF y.stun # "asked" \/ y.stunAge < StunTimeout THEN y
  ELSE IF y.tries + 1 > StunRetries THEN [y EXCEPT !.tries = @ + 1, !.stun = "done"]
  ELSE [y EXCEPT !.tries = @ + 1, !.stunAge = IF y.udp = 0 THEN @ ELSE 0]

\* mutant: DESCRIBE does not wait for STUN
WaitsNever(y) == FALSE

\* DESCRIBE and SETUP have to name the same endpoint
Waits(y) == y.stun = "asked"

\* rtsp_state_machine_advance, but for TEARDOWN_COMPLETE (see Respond)
Advance(y) ==
  LET z == StunCheck(y)
  IN  CASE y.state = "CONNECTED" -> SetState(Prepare(y, "OPTIONS"), "SENDING_OPTIONS")
        [] y.state = "AWAITING_OPTIONS" ->
             IF Waits(z) THEN [z EXCEPT !.stunWait = TRUE]
             ELSE SetState(Prepare([z EXCEPT !.stunWait = FALSE, !.named = z.mapped], "DESCRIBE"),
                           "SENDING_DESCRIBE")
        [] y.state = "DESCRIBED" ->
             SetState(Prepare(IF y.udp = 0 THEN OpenUdp(y) ELSE y, "SETUP"), "SENDING_SETUP")
        [] y.state = "SETUP" -> SetState(Prepare(y, "PLAY"), "SENDING_PLAY")
        [] y.state = "RECONNECTING" -> SetState(Prepare(y, "TEARDOWN"), "SENDING_TEARDOWN")
        [] OTHER -> y

AfterSending(st) ==
  CASE st = "SENDING_OPTIONS" -> "AWAITING_OPTIONS" [] st = "SENDING_DESCRIBE" -> "AWAITING_DESCRIBE"
    [] st = "SENDING_SETUP" -> "AWAITING_SETUP"     [] st = "SENDING_PLAY" -> "AWAITING_PLAY"
    [] st = "SENDING_TEARDOWN" -> "AWAITING_TEARDOWN" [] OTHER -> st

\* rtsp_try_send_pending, and POLLER_OUT given up
Send(y) ==
  LET z == [y EXCEPT !.pend = None, !.await = TRUE, !.last = y.pend, !.told = @ \/ y.pend = "TEARDOWN",
                     !.asked = IF y.peer = "open" THEN Append(@, y.pend) ELSE @,
                     !.buf = IF y.tcp /\ y.state = "PLAYING" THEN @ ELSE <<>>,
                     !.alive = IF @ = "pending" THEN "await" ELSE @]
  IN  Mod(SetState(z, AfterSending(y.state)), FALSE)

\* rtsp_send_keepalive
SendKeepalive(y) ==
  IF ~y.sock \/ ~y.sid \/ y.pend # None \/ y.await \/ y.alive # None THEN y
  ELSE Mod([Prepare(y, "ALIVE") EXCEPT !.alive = "pending"], TRUE)

-----------------------------------------------------------------------------
(* Cleanup and TEARDOWN                                                    *)

\* rtsp_force_cleanup
ForceCleanup(y) ==
  [CloseSocket(y) EXCEPT !.udp = 0, !.cands = 0, !.buf = <<>>, !.pend = None, !.await = FALSE,
     !.alive = None, !.getParam = TRUE, !.tearing = FALSE, !.reconnected = FALSE, !.sid = FALSE,
     !.init = FALSE, !.state = "INIT", !.age = 0]

\* rtsp_initiate_teardown on a socket without error
InitiateTeardown(y) ==
  Mod(SetState([Prepare(y, "TEARDOWN") EXCEPT !.alive = None, !.await = FALSE, !.buf = <<>>],
               "SENDING_TEARDOWN"), TRUE)

\* rtsp_reconnect_for_teardown, at most once
Reconnect(y) ==
  IF y.reconnected THEN {ForceCleanup(y)}
  ELSE {IF z.sock THEN SetState(z, "RECONNECTING") ELSE ForceCleanup(z) :
          z \in Connect(CloseSocket([y EXCEPT !.reconnected = TRUE]))}

\* rtsp_session_cleanup; a session that is left initialised goes on alone
SessionCleanup(y) ==
  IF ~y.init THEN {y}
  ELSE IF y.state \in {"PLAYING", "SETUP"}
       THEN LET z == [y EXCEPT !.tearing = TRUE, !.udp = 0]
            IN  IF z.sock /\ z.peer # "reset" THEN {InitiateTeardown(z)} ELSE Reconnect(z)
  ELSE IF y.state \in Closing \cup {"TEARDOWN_COMPLETE", "RECONNECTING"} THEN {y}
  ELSE {ForceCleanup(y)}

Freed(y) == [ForceCleanup(y) EXCEPT !.conn = "freed"]

\* worker_close_and_free_connection
CloseAndFree(y) ==
  IF y.conn = "deferred" THEN {Freed(y)}
  ELSE {IF z.init THEN [z EXCEPT !.conn = "deferred"] ELSE Freed(z) : z \in SessionCleanup(y)}

\* the client's queue is drained before it is disconnected
Drained(y) == [y EXCEPT !.conn = IF @ = "stream" THEN "closing" ELSE @]

\* a stream that failed: 503 when nothing was sent to the client yet
Failed(y) == IF ~y.media /\ y.conn = "stream" THEN {Drained(y)} ELSE CloseAndFree(y)

-----------------------------------------------------------------------------
(* Answers                                                                 *)

Result(y, ret) == [y |-> y, ret |-> ret]

\* rtsp_handle_redirect
Redirect(y) ==
  IF y.redirects >= MaxRedirects THEN {Result(y, "error")}
  ELSE {Result(z, IF z.sock THEN "redirected" ELSE "error") :
          z \in Connect(CloseSocket([y EXCEPT !.redirects = @ + 1, !.sid = FALSE, !.buf = <<>>]))}

\* the request is made again
Challenged(st) ==
  CASE st = "AWAITING_OPTIONS" -> "CONNECTED" [] st = "AWAITING_DESCRIBE" -> "AWAITING_OPTIONS"
    [] st = "AWAITING_SETUP" -> "DESCRIBED"   [] st = "AWAITING_PLAY" -> "SETUP" [] OTHER -> st

\* Session and Transport headers
Headers(y, a) ==
  IF a.to # "SETUP" THEN y
  ELSE [y EXCEPT !.sid = TRUE, !.tcp = a.code = "tcp", !.alive = None, !.getParam = TRUE,
                 !.udp = IF a.code = "tcp" THEN 0 ELSE @]

\* the step that follows a complete answer
AfterAnswer(y, rest) ==
  LET z == [y EXCEPT !.buf = <<>>]
  IN  CASE y.state = "AWAITING_OPTIONS" -> Result(z, "advance")
        [] y.state = "AWAITING_DESCRIBE" ->
             IF y.kind = "play" THEN Result(SetState(z, "DESCRIBED"), "advance") ELSE Result(z, y.kind)
        [] y.state = "AWAITING_SETUP" -> Result(SetState(z, "SETUP"), "advance")
        [] y.state = "AWAITING_PLAY" ->
             Result([SetState(z, "PLAYING") EXCEPT !.buf = IF y.tcp THEN rest ELSE <<>>], "ok")
        [] y.state = "AWAITING_TEARDOWN" -> Result(SetState(z, "TEARDOWN_COMPLETE"), "ok")
        [] OTHER -> Result(z, "ok")

\* rtsp_parse_response_header and what follows it, for answer a
TakeAnswer(y, a, before, rest) ==
  LET z == [y EXCEPT !.await = FALSE, !.alive = None, !.mixed = @ \/ a.to # y.last]
      kept == [z EXCEPT !.buf = before \o rest]
  IN  IF a.code = "302" THEN Redirect(z)
      ELSE IF a.code = "401"
           THEN IF z.auth >= MaxAuth THEN {Result(z, "error")}
                ELSE LET w == [SetState(z, Challenged(y.state)) EXCEPT !.auth = @ + 1]
                     IN  {IF y.alive = "await" THEN Result([w EXCEPT !.buf = before \o rest], "alive")
                                               ELSE AfterAnswer(w, rest)}
      ELSE IF a.code = "501" /\ y.alive = "await" /\ y.getParam
           THEN {Result([kept EXCEPT !.getParam = FALSE], "alive")}
      ELSE IF a.code \in {"404", "501"} THEN {Result(z, "error")}
      ELSE IF y.alive = "await" THEN {Result(Headers(kept, a), "alive")}
      ELSE {AfterAnswer(Headers(z, a), rest)}

\* interleaved media goes to the client, unless the stream is torn down
Forward(y, s) == [y EXCEPT !.media = @ \/ (~y.tearing /\ \E i \in 1..Len(s) : s[i] = Media)]

\* rtsp_try_receive_response
Receive(y) ==
  LET b == y.buf \o y.rx
      ends == y.rx = <<>> /\ y.peer = "eof"
      z == [y EXCEPT !.buf = b, !.rx = <<>>, !.closed = @ \/ ends]
      At == {i \in 1..Len(b) : b[i] # Media}
  IN  IF y.peer = "reset" THEN {Result(y, "error")}
      ELSE IF y.rx = <<>> /\ ~ends THEN {Result(y, "ok")}
      ELSE IF ends /\ y.buf = <<>> THEN {Result([y EXCEPT !.alive = None], "error")}
      ELSE IF At # {} THEN LET i == CHOOSE i \in At : \A j \in At : i <= j
                           IN  TakeAnswer(z, b[i], SubSeq(b, 1, i - 1), SubSeq(b, i + 1, Len(b)))
      ELSE IF z.closed THEN {Result([z EXCEPT !.alive = None], "error")}
      ELSE IF z.tcp THEN {Result([Forward(z, b) EXCEPT !.buf = <<>>], "ok")}
      ELSE {Result(z, "ok")}

-----------------------------------------------------------------------------
(* Events of the control socket                                            *)

\* upstream gone while it played
End(y) == Drained(ForceCleanup(y))

\* mutant: the end is taken for EAGAIN
ReadMediaOnly(y) == [Forward(y, y.rx) EXCEPT !.rx = <<>>]

\* rtsp_handle_tcp_interleaved_data, when the client's queue has room
ReadMedia(y) ==
  LET b == y.buf \o y.rx
      At == {i \in 1..Len(b) : b[i] # Media}
      n == IF At = {} THEN Len(b) ELSE (CHOOSE i \in At : \A j \in At : i <= j) - 1
      z == [Forward(y, SubSeq(b, 1, n)) EXCEPT !.buf = SubSeq(b, n + 1, Len(b)), !.rx = <<>>]
  IN  IF y.peer \in {"eof", "reset"} THEN End(z) ELSE z

\* it may be over its high-water mark
Interleaved(y) == {ReadMedia(y)} \cup (IF y.tcp /\ y.conn = "stream" THEN {[y EXCEPT !.paused = TRUE]} ELSE {})

Error(y) == Result(SetState(y, "ERROR"), "close")

\* rtsp_handle_terminal_socket_event
Terminal(y) ==
  IF y.state \in Closing THEN Result(ForceCleanup(y), "close")
  ELSE IF y.state = "PLAYING" THEN Result(End(y), "ok")
  ELSE Error(y)

\* what follows Receive
Respond(y) ==
  UNION {LET z == r.y
             hup == z.closed \/ Hup(z)
         IN  IF r.ret = "error" THEN {Error(z)}
             ELSE IF r.ret \in {"head", "duration"} THEN {r}
             ELSE IF r.ret # "redirected" /\ hup /\ ~(z.state = "PLAYING" /\ z.tcp) THEN {Terminal(z)}
             ELSE IF r.ret = "alive" /\ ~hup
                  THEN {Result(IF z.tcp THEN [Forward(z, z.buf) EXCEPT !.buf = <<>>] ELSE z, "ok")}
             ELSE IF z.await THEN {r}
             ELSE IF z.state = "TEARDOWN_COMPLETE" THEN {Result(ForceCleanup(z), "close")}
             ELSE IF z.state = "PLAYING" THEN {Result(w, "ok") : w \in Interleaved(z)}
             ELSE {Result(Advance(IF r.ret = "advance" THEN Mod(z, TRUE) ELSE z), "ok")} :
           r \in Receive(y)}

\* POLLER_OUT, then POLLER_IN
Exchange(y) ==
  LET z == IF y.out /\ y.pend # None THEN Send(y) ELSE y
  IN  IF y.out /\ y.pend # None /\ y.peer = "reset" THEN {Error([y EXCEPT !.alive = None])}
      ELSE IF ~Readable(z) THEN {Result(z, "ok")}
      ELSE IF z.await THEN Respond(z)
      ELSE IF z.state = "PLAYING" THEN {Result(w, "ok") : w \in Interleaved(z)}
      ELSE {Result(z, "ok")}

\* rtsp_capture_control_endpoints: the local address is not known, or it is, and
\* another one than before closes the UDP sockets, whose mapping is kept
Captured(y) ==
  {[y EXCEPT !.valid = FALSE], [y EXCEPT !.valid = TRUE]}
    \cup (IF y.valid /\ y.udp # 0 THEN {[y EXCEPT !.udp = 0, !.moved = TRUE]} ELSE {})

\* the connect ended
Connected(y) ==
  IF y.peer \in {"refused", "reset"}
  THEN {IF z.sock THEN Result(z, "ok") ELSE Error(z) : z \in ConnectFails(y)}
  ELSE UNION {LET z == Mod([c EXCEPT !.cands = 0], TRUE)
              IN  Exchange(Advance(IF y.state = "CONNECTING" THEN SetState(z, "CONNECTED") ELSE z)) :
                c \in Captured(y)}

\* rtsp_handle_socket_event
HandleEvent(y) ==
  IF y.state \in Connecting THEN Connected(y)
  ELSE IF Hup(y) /\ ~(y.await \/ (y.state = "PLAYING" /\ y.tcp)) THEN {Terminal(y)}
  ELSE Exchange(y)

\* the worker's reaction
ControlEvent ==
  /\ Ready(rtsp) /\ rtsp.init
  /\ \E r \in HandleEvent([rtsp EXCEPT !.edge = FALSE]) :
       CASE r.ret = "ok" -> rtsp' = r.y
         [] r.ret = "close" -> rtsp' \in Failed(r.y)
         [] r.ret = "duration" -> rtsp' = Drained(r.y)
         [] r.ret = "head" -> rtsp' \in {Drained(z) : z \in SessionCleanup(r.y)}

-----------------------------------------------------------------------------
(* Time                                                                    *)

\* mutant: the reconnect for TEARDOWN is not timed
TimedOnce(y) == \/ y.state \in {"CONNECTING"} \cup Awaiting \cup Closing
                     /\ ~(y.stunWait /\ y.state \in {"CONNECTING", "AWAITING_OPTIONS"})
                \/ y.state = "PLAYING" /\ ~y.media

\* mutant: only the connect and TEARDOWN are timed, not the answers between them
TimedEnds(y) == \/ y.state \in Connecting \cup Closing
                     /\ ~(y.stunWait /\ y.state \in {"CONNECTING", "AWAITING_OPTIONS"})
                \/ y.state = "PLAYING" /\ ~y.media

\* the states rtsp_session_tick bounds
Timed(y) == \/ y.state \in Connecting \cup Awaiting \cup Closing
                 /\ ~(y.stunWait /\ y.state \in {"CONNECTING", "AWAITING_OPTIONS"})
            \/ y.state = "PLAYING" /\ ~y.media

\* the loop takes its events before it ticks
Aged(y) == [y EXCEPT !.age = IF Timed(y) /\ ~Ready(y) /\ @ < Timeout THEN @ + 1 ELSE @,
                     !.stunAge = IF y.stun = "asked" /\ @ < StunTimeout THEN @ + 1 ELSE @]

\* a candidate that does not answer is given up like one that refuses
TimesOut(y) ==
  IF y.state \in Connecting /\ y.cands > 0
  THEN UNION {IF z.sock THEN {z} ELSE Failed(SetState(z, "ERROR")) : z \in ConnectFails(y)}
  ELSE Failed(SetState(y, "ERROR"))

\* rtsp_session_tick
Tick ==
  /\ rtsp.init
  /\ LET y == Aged(rtsp)
     IN  IF Timed(y) /\ y.age >= Timeout THEN rtsp' \in TimesOut(y)
         ELSE IF y.stun = "asked" /\ y.stunWait
              THEN LET z == StunCheck(y)
                   IN  rtsp' = IF z.stun = "done" THEN Mod(Advance(z), TRUE) ELSE z
         ELSE \E due \in {KeepAlives, FALSE} :
                rtsp' = IF due /\ y.state = "PLAYING" THEN SendKeepalive(y) ELSE y

-----------------------------------------------------------------------------
(* Upstream and client                                                     *)

Arrives(y) == [y EXCEPT !.edge = TRUE]

DialEnds ==
  /\ rtsp.sock /\ rtsp.peer = "dialling"
  /\ \E p \in {"open", "refused"} : rtsp' = Arrives([rtsp EXCEPT !.peer = p])

Answers(req) == {[to |-> req, code |-> c] : c \in
  (IF req = "SETUP" THEN Transports ELSE {"ok"}) \cup {"404"} \cup (IF req = "ALIVE" THEN {"501"} ELSE {})
    \cup (IF req \in Redirects THEN {"302"} ELSE {}) \cup (IF req \in Challenges THEN {"401"} ELSE {})}

ServerAnswers ==
  /\ rtsp.peer = "open" /\ rtsp.asked # <<>>
  /\ \E a \in Answers(Head(rtsp.asked)) :
       rtsp' = Arrives([rtsp EXCEPT !.asked = Tail(@), !.rx = Append(@, a),
                              !.plays = @ \/ a = [to |-> "PLAY", code |-> "ok"]])

ServerSends ==
  /\ rtsp.plays /\ rtsp.init
  /\ IF rtsp.tcp THEN /\ rtsp.peer = "open" /\ Len(rtsp.rx) < Backlog
                   /\ rtsp' = Arrives([rtsp EXCEPT !.rx = Append(@, Media)])
     ELSE rtsp.udp # 0 /\ rtsp' = [rtsp EXCEPT !.media = TRUE]

PeerEnds ==
  /\ rtsp.sock
  /\ \/ /\ rtsp.peer = "open"
        /\ rtsp' = Arrives([rtsp EXCEPT !.peer = "eof", !.asked = <<>>, !.lost = TRUE])
     \/ /\ rtsp.peer \in {"open", "eof"}
        /\ rtsp' = Arrives([rtsp EXCEPT !.peer = "reset", !.rx = <<>>, !.asked = <<>>,
                                       !.lost = TRUE])

\* rtsp_handle_udp_rtp_data with the STUN answer
StunAnswers ==
  /\ rtsp.init /\ rtsp.udp # 0 /\ rtsp.stun = "asked"
  /\ LET y == [rtsp EXCEPT !.stun = "done", !.mapped = rtsp.udp]
     IN  rtsp' = IF y.stunWait THEN Mod(Advance(y), TRUE) ELSE y

\* the client disconnects, or its queue is written out
ClientEnds ==
  /\ rtsp.conn \in {"stream", "closing"}
  /\ rtsp' \in CloseAndFree([rtsp EXCEPT !.owes = /\ rtsp.conn = "stream" /\ rtsp.init
                                               /\ rtsp.state = "PLAYING"])

\* rtsp_resume_upstream, once the client has read
Resume ==
  /\ rtsp.paused /\ rtsp.init /\ rtsp.conn = "stream"
  /\ rtsp' = ReadMedia([rtsp EXCEPT !.paused = FALSE])

BlankSession ==
  [state |-> "INIT", sock |-> FALSE, peer |-> None, rx |-> <<>>, asked |-> <<>>, out |-> FALSE,
   edge |-> FALSE, cands |-> 0, family |-> 0, pend |-> None, await |-> FALSE, alive |-> None,
   getParam |-> TRUE, closed |-> FALSE, redirects |-> 0, auth |-> 0, stun |-> "off", tries |-> 0,
   stunAge |-> 0, stunWait |-> FALSE, mapped |-> 0, udp |-> 0, opened |-> 0, tcp |-> FALSE,
   media |-> FALSE, paused |-> FALSE, sid |-> FALSE, tearing |-> FALSE, reconnected |-> FALSE,
   init |-> TRUE, age |-> 0, buf |-> <<>>, kind |-> "play", conn |-> "stream",
   plays |-> FALSE, last |-> None, mixed |-> FALSE, named |-> 0, told |-> FALSE, owes |-> FALSE,
   lost |-> FALSE, valid |-> FALSE, moved |-> FALSE]

\* stream_init_rtsp_control that found an address
RtspInit == \E k \in Kinds : rtsp \in {y \in Connect([BlankSession EXCEPT !.kind = k]) : y.sock}

RtspNext == \/ ControlEvent \/ Tick \/ ClientEnds \/ Resume
            \/ DialEnds \/ ServerAnswers \/ ServerSends \/ PeerEnds \/ StunAnswers

RtspSpec == RtspInit /\ [][RtspNext]_rtsp

Ticking == rtsp.init /\ ~Ready(rtsp) /\ (Timed(rtsp) \/ (rtsp.stun = "asked" /\ rtsp.stunWait))

\* The worker takes its events and writes out the queue of a client that reads
\* (weak fairness, with what enables the actions written out), and again and
\* again time passes while it waits for events (strong fairness). Nothing is
\* asked of the upstream server.
RtspFairness ==
  /\ []<>~(Ready(rtsp) /\ rtsp.init) \/ []<><<ControlEvent>>_rtsp
  /\ <>[]~Ticking \/ []<><<~Ready(rtsp) /\ Tick>>_rtsp
  /\ []<>(rtsp.conn # "closing") \/ []<><<ClientEnds>>_rtsp
  /\ []<>~(rtsp.paused /\ rtsp.init /\ rtsp.conn = "stream") \/ []<><<Resume>>_rtsp

RtspFairSpec == RtspSpec /\ RtspFairness
-----------------------------------------------------------------------------
SessionTypes ==
  /\ rtsp.state \in States /\ rtsp.pend \in Requests \cup {None} /\ rtsp.last \in Requests \cup {None}
  /\ rtsp.peer \in {None, "dialling", "open", "refused", "eof", "reset"}
  /\ rtsp.sock <=> rtsp.peer # None
  /\ rtsp.rx \in Seq([to : Requests \cup {None}, code : Codes \cup {"media"}])
  /\ rtsp.asked \in Seq(Requests)
  /\ rtsp.alive \in {None, "pending", "await"} /\ rtsp.stun \in {"off", "asked", "done"}
  /\ rtsp.tries \in 0..StunRetries + 1 /\ rtsp.stunAge \in 0..StunTimeout /\ rtsp.age \in 0..Timeout
  /\ rtsp.redirects \in 0..MaxRedirects /\ rtsp.auth \in 0..MaxAuth
  /\ rtsp.conn \in {"stream", "closing", "deferred", "freed"}
  /\ rtsp.udp \in 0..rtsp.opened /\ rtsp.mapped \in 0..rtsp.opened

\* No request is sent while another is unanswered, and an answer is taken for
\* the request it answers, but for a keep-alive that TEARDOWN overtakes.
OneRequest ==
  ~rtsp.tearing /\ rtsp.init =>
    /\ ~rtsp.mixed
    /\ ~(rtsp.await /\ rtsp.pend # None)
    /\ Len(rtsp.asked) + Cardinality({i \in 1..Len(rtsp.rx) : rtsp.rx[i] # Media}) <= 1

\* The endpoint that DESCRIBE named is the one SETUP names, and it is that of the
\* sockets the media will come to, unless another local address has moved these.
OneEndpoint ==
  ~rtsp.tearing /\ rtsp.state \in {"SENDING_SETUP", "AWAITING_SETUP"} =>
    rtsp.named = rtsp.mapped /\ (rtsp.mapped \in {0, rtsp.udp} \/ rtsp.moved)

\* A server whose client left while it played was sent TEARDOWN, unless its
\* connection had ended.
Told == rtsp.conn = "freed" /\ rtsp.owes => rtsp.told \/ rtsp.lost

\* The types, one request at a time, one endpoint, and a left server told.
SessionInv == SessionTypes /\ OneRequest /\ OneEndpoint /\ Told

\* A request made again after 401 waits for a POLLER_OUT that nobody asks for, except
\* DESCRIBE: the session hangs there, and no time-out bounds it.
Hung == rtsp.state \in Sending \ {"SENDING_DESCRIBE"} /\ rtsp.pend # None /\ ~rtsp.out

\* Whatever the server does or leaves undone, a session plays or is given up, unless it
\* hangs at a request that was to be made again.
HandshakeEnds ==
  (rtsp.conn = "stream" /\ rtsp.state # "PLAYING")
    ~> (rtsp.conn # "stream" \/ rtsp.state = "PLAYING" \/ Hung)

\* TEARDOWN was answered with 302: the session has begun anew, for nobody.
Reborn == rtsp.tearing /\ rtsp.state \in {"CONNECTING", "PLAYING"} \cup Sending \cup Awaiting

\* (a further configuration) The connection of a client that has gone is freed, whatever
\* becomes of TEARDOWN.
TeardownEndsAlways == rtsp.conn \in {"closing", "deferred"} ~> rtsp.conn = "freed"

\* The connection of a client that has gone is freed, whatever becomes of TEARDOWN,
\* unless a redirect brings the session to life again.
TeardownEnds == <>Reborn \/ TeardownEndsAlways

\* (a further configuration) A session plays or is given up, without the exception.
HandshakeEndsAlways ==
  (rtsp.conn = "stream" /\ rtsp.state # "PLAYING") ~> (rtsp.conn # "stream" \/ rtsp.state = "PLAYING")

\* A server that ends while the stream plays ends the stream, unless the answer
\* to a keep-alive is outstanding.
EndSeen == (rtsp.state = "PLAYING" /\ Hup(rtsp) /\ ~rtsp.await) ~> rtsp.conn # "stream"

\* (a further configuration) A server that ends while the stream plays ends it.
EndSeenAlways == (rtsp.state = "PLAYING" /\ Hup(rtsp)) ~> rtsp.conn # "stream"

\* (a further configuration) TEARDOWN's answer is not a keep-alive's.
AnswersMatch == ~rtsp.mixed
=============================================================================
