----------------------------- MODULE Disconnects -----------------------------
(***************************************************************************)
(* A client is disconnected through the API (status.c,                     *)
(* handle_disconnect_client): the worker that serves the request marks the *)
(* client's slot, blocks its address and tells every worker; the one that  *)
(* serves the client closes it, and its address is refused for a while.    *)
(* It composes the table of blocked addresses and the notification pipes:  *)
(* one thread of a worker goes through both, and what a killed worker was  *)
(* doing in either is left undone.  An address has one client at a time.   *)
(***************************************************************************)
EXTENDS NotifyPipes, FiniteSets

CONSTANTS
  Ip, NoIp, TableSizes, BlockTime, MaxWait, MaxKills  \* those of BlockList

ASSUME DisconnectsAssumption ==
  /\ TableSizes \subseteq Nat \ {0} /\ BlockTime \in Nat \ {0}
  /\ MaxWait \in Nat /\ MaxWait < BlockTime /\ MaxKills \in Nat
  /\ NoIp \notin Ip /\ 0 \notin 1..NumWorkers

VARIABLES
  entry, lock, pc, call, answer, kills, until,  \* those of BlockList
  client,   \* the worker that serves the client of each address, 0 if there is none
  marked    \* who asked for that client to be disconnected, 0 if nobody did

Orphan  == -1       \* marked by a worker that was killed since
Table   == INSTANCE BlockList WITH Pid <- Worker, NoPid <- 0
table   == <<entry, lock, pc, call, answer, kills, until>>
pipes   == <<pipe, writing, alive, reaped, owed>>
all     == <<pipes, table, client, marked>>

\* A worker between two events.
Free(p) == Idle(p) /\ pc[p] = "idle"

\* Clients of a worker: closed on request, or gone with it.
Closed(S) == /\ client' = [ip \in Ip |-> IF ip \in S THEN 0 ELSE client[ip]]
             /\ marked' = [ip \in Ip |-> IF ip \in S THEN 0 ELSE marked[ip]]

-----------------------------------------------------------------------------
\* A request to disconnect finds the client and marks its slot.
Request(p, ip) ==
  /\ Free(p) /\ client[ip] # 0
  /\ Table!Begin(p, ip, "wait to block")
  /\ marked' = [marked EXCEPT ![ip] = p]
  /\ UNCHANGED <<pipes, client>>

\* A client comes.
Arrive(p, ip) ==
  /\ Free(p) /\ client[ip] = 0 /\ \A o \in Worker : ~(call[o].ip = ip /\ pc[o] = "wait to look")
  /\ Table!Begin(p, ip, "wait to look")
  /\ UNCHANGED <<pipes, client, marked>>

InTable(p) ==
  /\ \/ Table!Lock(p, "wait to block", "block") \/ Table!Block(p)
     \/ Table!Lock(p, "wait to look", "look") \/ Table!Find(p)
  /\ UNCHANGED <<pipes, client, marked>>

\* mutant: the workers are told of an update of the status page
AddressBlockedQuietly(p) ==
  /\ pc[p] = "blocked" /\ Table!Unlock(p)
  /\ Start(p, "update")
  /\ UNCHANGED <<pipe, alive, reaped, owed, client, marked>>

\* status_block_client_addr returns, and the workers are told.
AddressBlocked(p) ==
  /\ pc[p] = "blocked" /\ Table!Unlock(p)
  /\ Start(p, "disconnect")
  /\ UNCHANGED <<pipe, alive, reaped, owed, client, marked>>

\* status_client_addr_is_blocked returns: the client is served or refused.
Admitted(p) ==
  /\ pc[p] = "looked" /\ Table!Unlock(p)
  /\ client' = IF answer[p] = "free" THEN [client EXCEPT ![call[p].ip] = p] ELSE client
  /\ UNCHANGED <<pipes, marked>>

\* An event read from the pipe closes the clients of this worker that are marked.
Told(i) ==
  /\ Free(i) /\ Drain(i)
  /\ Closed(IF pipe[i]["disconnect"] > 0 THEN {ip \in Ip : client[ip] = i /\ marked[ip] # 0} ELSE {})
  /\ UNCHANGED table

Leave(ip) ==
  /\ client[ip] # 0 /\ Free(client[ip])
  /\ Closed({ip})
  /\ UNCHANGED <<pipes, table>>

Update(p) == Free(p) /\ Trigger(p, "update") /\ UNCHANGED <<table, client, marked>>

Killed(p) ==
  /\ Die(p) /\ Table!Kill(p)
  /\ client' = [ip \in Ip |-> IF client[ip] = p THEN 0 ELSE client[ip]]
  /\ marked' = [ip \in Ip |-> IF client[ip] = p THEN 0 ELSE IF marked[ip] = p THEN Orphan ELSE marked[ip]]

Others ==
  /\ \/ \E p \in Proc : Write(p)
     \/ \E i \in Worker : ReapWorker(i) \/ Respawn(i)
  /\ UNCHANGED <<table, client, marked>>

AllInit ==
  /\ PipesInit /\ Table!Init
  /\ client = [ip \in Ip |-> 0] /\ marked = [ip \in Ip |-> 0]

AllNext ==
  \/ \E p \in Worker, ip \in Ip : Request(p, ip) \/ Arrive(p, ip)
  \/ \E p \in Worker : \/ InTable(p) \/ AddressBlocked(p) \/ Admitted(p)
                       \/ Told(p) \/ Update(p) \/ Killed(p)
  \/ \E ip \in Ip : Leave(ip)
  \/ Others
  \/ Table!Tick /\ UNCHANGED <<pipes, client, marked>>

AllSpec == AllInit /\ [][AllNext]_all
-----------------------------------------------------------------------------
\* A look-up finds every block that has time left, whoever cleared or reused
\* expired entries meanwhile, and none that was over when it read the clock.
AnswersRight == Table!AnswersRight

\* The worker p that was asked to disconnect the client of address ip is on its
\* way to tell worker i, or has told it.
Asked(p, i, ip) ==
  \/ call[p].ip = ip /\ pc[p] \in {"wait to block", "block", "blocked"}
  \/ writing[p].kind = "disconnect" /\ writing[p].at \in 1..i
  \/ pipe[i]["disconnect"] > 0

\* A client that is to be disconnected is not forgotten: until it is closed, the
\* worker that was asked is on its way to tell its worker, or has told it.  Only
\* the death of the one that was asked may leave it connected.
NotForgotten ==
  \A ip \in Ip : client[ip] # 0 /\ marked[ip] \in Worker => Asked(marked[ip], client[ip], ip)

\* A worker that looks an address up before it serves the client.
Looks(i, ip) == call[i].ip = ip /\ pc[i] \in {"wait to look", "look", "looked"}

\* What ties the parts together: only a live worker that writes to no pipe is at
\* the table; clients are with live workers, and only clients are marked; a
\* worker that is still to take over a marked client hears of it as well.
Together ==
  /\ client \in [Ip -> Worker \cup {0}] /\ marked \in [Ip -> Worker \cup {0, Orphan}]
  /\ \A p \in Worker : pc[p] # "idle" => p \in alive /\ writing[p] = Nothing
  /\ \A ip \in Ip : /\ client[ip] \in alive \cup {0}
                    /\ client[ip] = 0 => marked[ip] = 0
                    /\ \A i \in Worker : Looks(i, ip) /\ marked[ip] \in Worker
                                           => Asked(marked[ip], i, ip)

\* A request to disconnect stays in the pipe until it is read; a block lasts its
\* time in the table although expired entries of the same address may follow it,
\* workers see different times and one is killed with the lock; and the two fit
\* together.
AllInv == PipesInv /\ Table!Inv /\ Together
=============================================================================
