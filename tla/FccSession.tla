----------------------------- MODULE FccSession -----------------------------
(***************************************************************************)
(* Fast channel change (fcc.c with the two vendors' messages of            *)
(* fcc_telecom.c and fcc_huawei.c): a stream starts from a server's        *)
(* unicast burst and is handed over to the multicast group.  The group's   *)
(* packets wait in a pending list until the burst has reached the first of *)
(* them; both pass through the stream's own reorder window, which is the   *)
(* one of RtpReorder, one insertion a step.                                *)
(*                                                                         *)
(* The server, the group and the network are the environment: the burst    *)
(* runs from packet FirstBurst and never overtakes the group, packets may  *)
(* overtake each other, be lost, or find the buffer pool empty, and any    *)
(* answer may be late or never come.                                       *)
(***************************************************************************)
EXTENDS Integers, Sequences, Functions, FiniteSetsExt

CONSTANTS
  SeqMod, Window, InitCollect,  \* as in RtpReorder
  FirstBurst,    \* first packet of the burst
  FirstLive,     \* packet the group is at when the client comes
  LastPacket,    \* bound: last packet of the channel
  MaxRedirects,  \* FCC_MAX_REDIRECTS (5)
  SignalTicks,   \* FCC_TIMEOUT_SIGNALING_MS, in ticks
  UnicastTicks,  \* FCC_TIMEOUT_UNICAST_SEC, in ticks
  SyncTicks,     \* FCC_TIMEOUT_SYNC_WAIT_SEC, in ticks
  Displaced,     \* bound: packets one may overtake
  MaxDrops,      \* bound: packets lost, or dropped for want of a buffer
  MaxControl,    \* bound: control messages that arrive
  Failing,       \* calls that may fail: "join", "request" (repeated after a
                 \* redirect), "term" and, while the stream ends, "last term"
  NoPacket, NoGroup

ASSUME FccAssumption ==
  /\ SeqMod \in Nat /\ Window \in Nat \ {0} /\ InitCollect \in Nat
  /\ SeqMod % Window = 0 /\ 2 * Window <= SeqMod
  /\ FirstBurst \in Nat /\ FirstLive \in Nat /\ LastPacket \in Nat
  /\ FirstBurst <= FirstLive /\ FirstLive <= LastPacket
  /\ MaxRedirects \in Nat /\ Displaced \in Nat /\ MaxDrops \in Nat /\ MaxControl \in Nat
  /\ SignalTicks \in Nat \ {0} /\ UnicastTicks \in Nat /\ SyncTicks \in Nat
  /\ SignalTicks <= UnicastTicks /\ UnicastTicks < SyncTicks
  /\ Failing \subseteq {"join", "request", "term", "last term"}
  /\ NoPacket \notin Int

VARIABLES
  state,      \* fcc->state, or "CLOSED" after fcc_session_cleanup
  redirects,  \* redirect_count
  termSent,   \* fcc_term_sent
  termSeq,    \* fcc_term_seqn
  pending,    \* pending_list: group packets that wait for the burst
  joined,     \* mcast.source is set
  failed,     \* mcast.failed, or a handler returned -1: the worker closes the stream
  quiet,      \* ticks since last_data_time
  waited,     \* ticks since unicast_start_time, -1 while that is 0
  slots, base, count, phase, out,   \* the stream's reorder window
  work,       \* packets the running handler still has to insert
  burst,      \* the burst's next packet, -1 before it starts
  stopAt,     \* the server stops before this packet
  live,       \* the group's next packet
  unicast, multicast,   \* packets on their way to this stream
  sent,       \* packets delivered to the client so far
  drops,      \* ghost: packets dropped so far
  controls,   \* ghost: control messages so far
  played,     \* ghost: ticks since the first packet of the burst, -1 before
  clean       \* ghost: nothing was dropped and no time-out cut the burst off

ring == <<slots, base, count, phase, out>>
env  == <<burst, stopAt, live, unicast, multicast>>
fcc  == <<state, redirects, termSent, termSeq, pending, joined, failed, quiet, waited>>
ghosts == <<drops, controls, played, clean>>
vars == <<fcc, ring, work, env, sent, ghosts>>

Reorder == INSTANCE RtpReorder WITH
  FecPorts <- {FALSE}, fecPort <- FALSE, GroupLen <- 1, Parities <- 0, MaxGroups <- 1,
  Late <- 0, Skip <- 0, StartSpan <- 0,
  fecActive <- FALSE, groups <- [i \in {0} |-> NoGroup], minEnd <- NoGroup, head <- 0

Seqs == INSTANCE SequencesExt

Packet == 0..LastPacket
States == {"INIT", "REQUESTED", "UNICAST_PENDING", "UNICAST_ACTIVE",
           "MCAST_REQUESTED", "MCAST_ACTIVE", "CLOSED"}
Never  == LastPacket + 3     \* stopAt of a server that was not told to stop
Idle   == work = <<>> /\ state # "CLOSED" /\ ~failed
-----------------------------------------------------------------------------
(* The server and the group.                                               *)
StartBurst ==
  /\ burst = -1 /\ state = "REQUESTED" /\ work = <<>>
  /\ burst' = FirstBurst
  /\ UNCHANGED <<fcc, ring, work, stopAt, live, unicast, multicast, sent, ghosts>>

\* the next packet of the burst leaves the server
PushBurst ==
  /\ burst \in Packet /\ burst < live /\ burst < stopAt /\ work = <<>>
  /\ state # "CLOSED"
  /\ burst' = burst + 1 /\ unicast' = unicast \cup {burst}
  /\ UNCHANGED <<fcc, ring, work, stopAt, live, multicast, sent, ghosts>>

\* the next packet of the group leaves its source
PushGroup ==
  /\ live \in Packet /\ work = <<>> /\ state # "CLOSED"
  /\ live' = live + 1
  /\ multicast' = IF joined THEN multicast \cup {live} ELSE multicast
  /\ UNCHANGED <<fcc, ring, work, burst, stopAt, unicast, sent, ghosts>>

Arrivable(fly) == {p \in fly : p - Min(fly) <= Displaced}

\* a packet is lost, or received into no buffer (which counts as data)
Drop ==
  /\ Idle /\ drops < MaxDrops
  /\ \/ \E p \in unicast : unicast' = unicast \ {p} /\ quiet' \in {quiet, 0} /\ UNCHANGED multicast
     \/ \E p \in multicast : multicast' = multicast \ {p} /\ UNCHANGED <<unicast, quiet>>
  /\ drops' = drops + 1 /\ clean' = FALSE
  /\ UNCHANGED <<state, redirects, termSent, termSeq, pending, joined, failed, waited,
                 ring, work, burst, stopAt, live, sent, controls, played>>
-----------------------------------------------------------------------------
\* mcast_session_join; its result is not looked at
Join == joined' \in IF "join" \in Failing THEN {joined, TRUE} ELSE {TRUE}

\* Mutant: the group is joined and the state left as it is.
FallbackNoState == UNCHANGED state /\ Join

Fallback == state' = "MCAST_ACTIVE" /\ Join

\* fcc_handle_sync_notification
SyncNotification ==
  /\ IF state \in {"MCAST_REQUESTED", "MCAST_ACTIVE"} THEN UNCHANGED <<state, joined>>
     ELSE state' = "MCAST_REQUESTED" /\ Join

\* The server's answer: "refuse" is an error, "no unicast needed" or a type
\* that is not known.
Answers == {"accept", "refuse", "redirect", "again"}

\* fcc_telecom_handle_server_response, fcc_huawei_handle_server_response, and
\* the repeated request of fcc_handle_socket_event after a redirect
ServerResponse(a) ==
  /\ state = "REQUESTED"
  /\ quiet' = 0
  /\ \/ /\ a = "accept" /\ state' = "UNICAST_PENDING" /\ waited' = 0
        /\ UNCHANGED <<redirects, joined, failed>>
     \/ /\ a = "refuse" /\ Fallback
        /\ UNCHANGED <<redirects, waited, failed>>
     \/ /\ a = "redirect" /\ redirects' = redirects + 1
        /\ IF redirects' > MaxRedirects
           THEN Fallback /\ UNCHANGED failed
           ELSE /\ failed' \in IF "request" \in Failing THEN BOOLEAN ELSE {FALSE}
                /\ state' = IF failed' THEN "INIT" ELSE "REQUESTED"
                /\ UNCHANGED joined
        /\ UNCHANGED waited
     \/ /\ a = "again" /\ redirects > 0
        /\ UNCHANGED <<state, redirects, waited, joined, failed>>

\* a control message arrives: an answer of a server that has not started the
\* burst or, of one that has, its acceptance or the sync notification
ControlMessage ==
  /\ Idle /\ controls < MaxControl /\ controls' = controls + 1
  /\ \/ \E a \in IF burst = -1 THEN Answers \ {"accept"} ELSE {"accept"} : ServerResponse(a)
     \/ /\ burst # -1 /\ SyncNotification /\ quiet' = 0
        /\ UNCHANGED <<redirects, waited, failed>>
  /\ UNCHANGED <<termSent, termSeq, pending, ring, work, env, sent, drops, played, clean>>
-----------------------------------------------------------------------------
\* fcc_handle_unicast_media up to the insertion into the window
UnicastMedia(p) ==
  /\ Idle /\ p \in Arrivable(unicast)
  /\ unicast' = unicast \ {p} /\ quiet' = 0
  /\ IF state = "MCAST_ACTIVE" THEN UNCHANGED <<state, work, played>>
     ELSE /\ state' = IF state = "UNICAST_PENDING" THEN "UNICAST_ACTIVE" ELSE state
          /\ work' = <<p>>
          /\ played' = IF played < 0 THEN 0 ELSE played
  /\ UNCHANGED <<redirects, termSent, termSeq, pending, joined, failed, waited,
                 ring, burst, stopAt, live, multicast, sent, drops, controls, clean>>

\* fcc_send_termination_message for the first group packet p; a server told
\* sequence number 0 stops at once (build_fcc_term_pk_telecom, _huawei)
SendTermination(p) ==
  LET seqn == (p + 2) % SeqMod
  IN  \/ /\ termSent' = TRUE
         /\ stopAt' = IF seqn = 0 THEN burst ELSE p + 2
         /\ UNCHANGED failed
      \/ "term" \in Failing /\ failed' = TRUE /\ UNCHANGED <<termSent, stopAt>>

\* fcc_handle_mcast_transition
McastTransition(p) ==
  /\ state = "MCAST_REQUESTED"
  /\ IF termSent THEN UNCHANGED <<termSent, termSeq, stopAt, failed>>
     ELSE termSeq' = p % SeqMod /\ SendTermination(p)
  /\ pending' = IF failed' THEN pending ELSE Append(pending, p)
  /\ UNCHANGED work

\* fcc_handle_mcast_active: the pending list goes first
McastActive(p) ==
  /\ state = "MCAST_ACTIVE"
  /\ work' = Append(pending, p) /\ pending' = <<>>
  /\ UNCHANGED <<termSent, termSeq, stopAt, failed>>

\* mcast_deliver_packet: a packet of the group arrives
GroupMedia(p) ==
  /\ Idle /\ p \in Arrivable(multicast)
  /\ multicast' = multicast \ {p}
  /\ McastTransition(p) \/ McastActive(p)
  /\ UNCHANGED <<state, redirects, joined, quiet, waited, ring, burst, live, unicast,
                 sent, ghosts>>

\* Mutant: the burst is left one packet early.
ReachedEarly == termSent /\ phase' = 2 /\ Reorder!Diff(base', termSeq) >= -1

\* the check that ends fcc_handle_unicast_media: the window has delivered
\* everything before the first packet of the group
Reached == termSent /\ phase' = 2 /\ Reorder!Diff(base', termSeq) >= 0

\* Mutant: packets of the burst and of the group go out as they come.
ProcessDirect ==
  /\ work # <<>>
  /\ out' = <<Head(work)>> /\ UNCHANGED <<slots, base, count, phase>>
  /\ work' = Tail(work)
  /\ sent' = sent \cup Range(out')
  /\ UNCHANGED <<fcc, env, ghosts>>

\* stream_process_rtp_payload: the next packet enters the window
Process ==
  /\ work # <<>>
  /\ Reorder!Insert(Head(work), FALSE)
  /\ work' = Tail(work)
  /\ sent' = sent \cup Range(out')
  /\ state' = IF Reached THEN "MCAST_ACTIVE" ELSE state
  /\ UNCHANGED <<redirects, termSent, termSeq, pending, joined, failed, quiet, waited,
                 env, ghosts>>
-----------------------------------------------------------------------------
UpTo(n, bound) == IF n < bound THEN n + 1 ELSE bound

\* fcc_session_tick after one more unit of time
Tick ==
  /\ Idle
  /\ quiet'  = UpTo(quiet, UnicastTicks)
  /\ waited' = IF waited < 0 THEN waited ELSE UpTo(waited, SyncTicks)
  /\ played' = IF played < 0 THEN played ELSE UpTo(played, SyncTicks)
  /\ \/ /\ state \in {"REQUESTED", "UNICAST_PENDING"} /\ quiet' >= SignalTicks
        /\ Fallback /\ clean' = FALSE
     \/ /\ state \in {"UNICAST_ACTIVE", "MCAST_REQUESTED"} /\ quiet' >= UnicastTicks
        /\ Fallback /\ clean' = FALSE
     \/ /\ state = "UNICAST_ACTIVE" /\ quiet' < UnicastTicks /\ waited' >= SyncTicks
        /\ SyncNotification /\ UNCHANGED clean
     \/ /\ \/ state = "UNICAST_ACTIVE" /\ waited' < SyncTicks
           \/ state = "MCAST_REQUESTED"
        /\ quiet' < UnicastTicks
        /\ UNCHANGED <<state, joined, clean>>
     \/ /\ \/ state \in {"REQUESTED", "UNICAST_PENDING"} /\ quiet' < SignalTicks
           \/ state \in {"INIT", "MCAST_ACTIVE"}
        /\ UNCHANGED <<state, joined, clean>>
  /\ UNCHANGED <<redirects, termSent, termSeq, pending, failed, ring, work, env, sent, drops, controls>>

\* fcc_session_cleanup, from stream_context_cleanup: the client left, or the
\* worker closes a stream that failed
Cleanup ==
  /\ work = <<>> /\ state # "CLOSED"
  /\ state' = "CLOSED"
  /\ \/ stopAt' = IF termSent THEN stopAt ELSE burst
     \/ "last term" \in Failing /\ ~termSent /\ UNCHANGED stopAt
  /\ termSent' = FALSE /\ termSeq' = 0
  /\ pending' = <<>> /\ joined' = FALSE
  /\ unicast' = {} /\ multicast' = {}
  /\ UNCHANGED <<redirects, failed, quiet, waited, ring, work, burst, live, sent, ghosts>>
-----------------------------------------------------------------------------
\* fcc_session_init and the first fcc_initialize_and_request
Init ==
  /\ state = "REQUESTED" /\ redirects = 0
  /\ termSent = FALSE /\ termSeq = 0 /\ pending = <<>>
  /\ joined = FALSE /\ failed = FALSE
  /\ quiet = 0 /\ waited = -1
  /\ slots = [i \in Reorder!Ring |-> NoPacket]
  /\ base = 0 /\ count = 0 /\ phase = 0 /\ out = <<>>
  /\ work = <<>>
  /\ burst = -1 /\ stopAt = Never /\ live = FirstLive
  /\ unicast = {} /\ multicast = {}
  /\ sent = {} /\ drops = 0 /\ controls = 0 /\ played = -1 /\ clean = TRUE

Media == \/ \E p \in unicast : UnicastMedia(p)
         \/ \E p \in multicast : GroupMedia(p)

Next == \/ StartBurst \/ PushBurst \/ PushGroup \/ Drop
        \/ ControlMessage \/ Media \/ Process \/ Tick \/ Cleanup

Spec == Init /\ [][Next]_vars
-----------------------------------------------------------------------------
\* The variables' types; only the burst's packets and group packets wait.
TypeOK ==
  /\ state \in States /\ redirects \in 0..MaxRedirects + 1
  /\ termSent \in BOOLEAN /\ termSeq \in 0..SeqMod - 1
  /\ pending \in Seq(Packet) /\ work \in Seq(Packet)
  /\ joined \in BOOLEAN /\ failed \in BOOLEAN
  /\ quiet \in 0..UnicastTicks /\ waited \in -1..SyncTicks /\ played \in -1..SyncTicks
  /\ drops \in 0..MaxDrops /\ controls \in 0..MaxControl /\ clean \in BOOLEAN
  /\ slots \in [Reorder!Ring -> Packet \cup {NoPacket}]
  /\ base \in 0..SeqMod - 1 /\ count \in 0..SeqMod - 1 /\ phase \in 0..2
  /\ burst \in -1..LastPacket + 1 /\ stopAt \in -1..Never
  /\ unicast \subseteq Packet /\ multicast \subseteq Packet /\ sent \subseteq Packet

\* The change of channel is seamless: when no packet is lost and no time-out
\* cuts the burst off, the client gets an unbroken run of packets, across the
\* moment the stream turns from the burst to the group; and once it has turned
\* the window holds nothing back when what was sent has arrived.
Seamless ==
  clean =>
    /\ \A p \in sent : \A q \in p..Max(sent \cup {p}) : q \in sent
    /\ (state = "MCAST_ACTIVE" /\ termSent /\ work = <<>> /\ multicast = {} /\ pending = <<>>
          => count = 0)

\* Nothing goes out twice or out of order, whichever source it came from.
OneOrder == [][\A i \in 1..Len(out') : Len(work') < Len(work) =>
                 \A p \in sent \cup {out'[j] : j \in 1..i - 1} : p < out'[i]]_vars

\* The server is never told to stop short of the packets the pending list
\* starts with: those before can only come from the burst.
StopCoversHandoff == pending # <<>> => stopAt >= Min(Range(pending))

\* A server that pushes a burst has been told to stop when the stream ends,
\* before the sockets its packets come to are closed.
ServerTold == state = "CLOSED" /\ burst # -1 => stopAt # Never

\* The types, a seamless change, and a server told to stop, not short of the
\* handoff.
Inv == TypeOK /\ Seamless /\ StopCoversHandoff /\ ServerTold

\* The stream waits for the notification no longer than the time-out allows
\* (FCC_TIMEOUT_SYNC_WAIT_SEC), counted from the first packet of the burst and
\* from the acceptance when there was one.
SyncWaitBounded ==
  played = SyncTicks /\ waited \in {-1, SyncTicks} /\ state # "CLOSED" => joined

\* Ticks go on and a handler ends (weak fairness of both, with what enables
\* them written out: a tick that changes no clock is a stutter); nothing is assumed of the server and the group.
Fair ==
  /\ []<>~(Idle /\ quiet < UnicastTicks) \/ []<><<Tick>>_vars
  /\ []<>(work = <<>>) \/ []<><<Process>>_vars
LiveSpec == Spec /\ Fair

\* Whatever the server does, and though nothing of the group may ever arrive,
\* the stream turns to the group, fails or is closed.
TurnsToGroup == <>(state \in {"MCAST_ACTIVE", "CLOSED"} \/ failed)

\* A stream that is without any source does not stay: it joins or it ends.
FedOrEnded == []<>(joined \/ failed \/ state # "MCAST_ACTIVE")
=============================================================================
