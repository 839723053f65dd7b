---------------------------- MODULE FetchLoader ----------------------------
(***************************************************************************)
(* One download of the web player (playback-engine/io/fetch-loader.ts): a  *)
(* fetch, the stream it reads and the stash of bytes the demuxer did not   *)
(* take.  The consumer is a function from the bytes offered to the bytes   *)
(* taken.  Aborted requests stay: their promises still settle.  A resumed  *)
(* download restarts from the beginning, as the only caller that pauses    *)
(* one asks for (resumeMode "restart").                                    *)
(***************************************************************************)
EXTENDS Integers, FiniteSets, FiniteSetsExt

VARIABLES
  ldr,   \* the loader: up, status, paused, used bytes of stash from start on
  reqs,  \* its requests: id, aborted, stage (connecting, text, reading), got
  fed    \* history: bytes of the current request the consumer has taken

ldrVars == <<ldr, reqs, fed>>

NoLoader == [up |-> FALSE, status |-> "idle", paused |-> FALSE, used |-> 0, start |-> 0]

IsWorking == ldr.status \in {"connecting", "buffering"} /\ ~ldr.paused
Aborted   == {[r EXCEPT !.aborted = TRUE] : r \in reqs}

\* A request whose callbacks take effect.
Current(r) == r \in reqs /\ ~r.aborted

NewRequest(old) ==
  [id |-> 1 + Max({0} \cup {r.id : r \in old}), aborted |-> FALSE,
   stage |-> "connecting", got |-> 0]

\* open(): a loader of its own for every segment.
Open ==
  /\ ldr' = [NoLoader EXCEPT !.up = TRUE, !.status = "connecting"]
  /\ reqs' = {NewRequest({})}
  /\ fed' = 0

\* destroy(): the callbacks are gone, so what is still in flight has no effect.
Destroy ==
  /\ ldr' = NoLoader
  /\ reqs' = {}
  /\ fed' = 0

\* pause(): aborts the fetch and forgets the stash; nothing when not working.
PauseLoader ==
  IF IsWorking
    THEN /\ ldr' = [ldr EXCEPT !.paused = TRUE, !.used = 0, !.start = 0]
         /\ reqs' = Aborted
         /\ UNCHANGED fed
    ELSE UNCHANGED ldrVars

\* resume(): _internalRestart, after which another stream begins.
Restarts == ldr.up /\ ldr.paused

ResumeLoader ==
  IF Restarts
    THEN LET old == IF ldr.status \in {"connecting", "buffering"} THEN Aborted ELSE reqs IN
         /\ reqs' = old \cup {NewRequest(old)}
         /\ ldr' = [ldr EXCEPT !.paused = FALSE, !.status = "connecting",
                               !.used = 0, !.start = 0]
         /\ fed' = 0
    ELSE UNCHANGED ldrVars

-----------------------------------------------------------------------------
\* The response: its body is pumped, a playlist is read as text.
Respond(r, stage) ==
  /\ Current(r) /\ r.stage = "connecting"
  /\ reqs' = (reqs \ {r}) \cup {[r EXCEPT !.stage = stage]}
  /\ ldr' = [ldr EXCEPT !.status = IF stage = "text" THEN "idle" ELSE @]
  /\ UNCHANGED fed

\* A chunk of n bytes, offered together with the stash; the rest is stashed.
Offered(n) == ldr.used + n

\* mutant: the stash is taken to start where the offer did
ChunkStartsEarly(r, n, taken) ==
  LET begin  == IF ldr.used = 0 THEN r.got ELSE ldr.start
      remain == Offered(n) - taken
  IN
  /\ Current(r) /\ r.stage = "reading" /\ ~ldr.paused
  /\ reqs' = (reqs \ {r}) \cup {[r EXCEPT !.got = @ + n]}
  /\ ldr' = [ldr EXCEPT !.status = "buffering", !.used = remain,
                        !.start = IF remain = 0 THEN 0 ELSE begin]
  /\ fed' = fed + taken

Chunk(r, n, taken) ==
  LET begin  == IF ldr.used = 0 THEN r.got ELSE ldr.start
      remain == Offered(n) - taken
  IN
  /\ Current(r) /\ r.stage = "reading" /\ ~ldr.paused
  /\ reqs' = (reqs \ {r}) \cup {[r EXCEPT !.got = @ + n]}
  /\ ldr' = [ldr EXCEPT !.status = "buffering",
                        !.used = remain,
                        !.start = IF remain = 0 THEN 0 ELSE begin + taken]
  /\ fed' = fed + taken

\* The body ends: what the consumer does not take of the stash is dropped.
Complete(r) ==
  /\ Current(r) /\ r.stage = "reading"
  /\ ldr' = NoLoader /\ reqs' = {} /\ fed' = 0

\* A status outside 2xx, a network error, or fewer bytes than announced.
Fail(r) ==
  /\ Current(r)
  /\ ldr' = NoLoader /\ reqs' = {} /\ fed' = 0

-----------------------------------------------------------------------------
\* The bytes the consumer gets are those of one request, each once and in order:
\* the stash continues what it took and ends where the request is, and no second
\* request feeds it.  Over chunk boundaries, pauses and restarts.
EachByteOnce ==
  /\ ldr.used > 0 => ldr.start = fed
  /\ \A r \in reqs : ~r.aborted => r.got = fed + ldr.used
  /\ Cardinality({r \in reqs : ~r.aborted}) <= 1

\* What this rests on: a paused loader has aborted what it asked for, nothing
\* was read of a response that has not come or is a playlist, and the loader
\* knows of a body that is being read.
Loader  == [up : BOOLEAN, status : {"idle", "connecting", "buffering"}, paused : BOOLEAN,
            used : Nat, start : Nat]
Request == [id : {r.id : r \in reqs}, aborted : BOOLEAN,
            stage : {"connecting", "text", "reading"}, got : Nat]

LoaderInv ==
  /\ ldr \in Loader /\ reqs \subseteq Request /\ fed \in Nat
  /\ ldr.used > 0 => ldr.start = fed
  /\ \A r \in reqs : ~r.aborted =>
       /\ ~ldr.paused /\ r.got = fed + ldr.used
       /\ r.stage # "reading" => r.got = 0
       /\ r.stage # "text" => ldr.status \in {"connecting", "buffering"}
       /\ \A q \in reqs : ~q.aborted => q = r
=============================================================================
