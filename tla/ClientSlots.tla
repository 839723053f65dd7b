---------------------------- MODULE ClientSlots ----------------------------
(***************************************************************************)
(* The client slots in shared memory (status.c).  Worker processes reserve *)
(* and release slots, update what a slot says, copy it while others write, *)
(* and ask each other to disconnect a client.  Any worker may be killed    *)
(* between two steps; the supervisor then reclaims what it held.  A step   *)
(* is one atomic operation, or plain accesses to memory no other process   *)
(* uses in between.                                                        *)
(***************************************************************************)
EXTENDS Integers, FiniteSets, Functions

CONSTANTS
  Pid,         \* process ids of workers; an id comes back once it was reaped
  NumSlots,    \* STATUS_MAX_CLIENTS
  Limits,      \* the values config.maxclients may have
  MaxUses,     \* bound: registrations
  MaxCopies,   \* bound: workers that copy a slot at the same time
  MaxKills,    \* bound: workers killed
  Measured,    \* bound: slots whose statistics are ever updated
  MaxVersion,  \* bound: data_version (32 bits; it restarts with each client)
  NoPid        \* 0: nobody

ASSUME SlotsAssumption ==
  /\ NumSlots \in Nat \ {0} /\ Limits \subseteq 0..NumSlots
  /\ MaxUses \in Nat /\ MaxKills \in Nat /\ MaxVersion \in Nat /\ Measured \subseteq 1..NumSlots
  /\ NoPid \notin Pid

VARIABLES
  owner,       \* owner_pid of each slot
  active,      \* active
  gen,         \* generation
  req,         \* disconnect_requested, a generation or 0
  ver,         \* data_version
  pay,         \* payload: id names the client by the generation it was given;
               \* x and y are two fields that every update changes together
  admission,   \* client_admission_owner_pid
  maxclients,  \* config.maxclients
  running,     \* workers that run
  dead,        \* workers that were killed and not yet reaped
  kills,       \* number of workers killed
  pc, reg,     \* where each worker is and what it has read
  conns,       \* slots of each worker's streaming connections (status_index)
  todo,        \* connections a worker has still to check for a request
  notified,    \* workers with an unread disconnect event
  wanted,      \* history: clients somebody asked to disconnect
  sup          \* the reaping of a dead worker

shared == <<owner, active, gen, req, ver, pay>>
procs  == <<maxclients, running, dead, kills, sup>>
vars   == <<shared, admission, procs, pc, reg, conns, todo, notified, wanted>>

Slot  == 1..NumSlots
Blank == [id |-> 0, x |-> 0, y |-> 0]
Regs  == [slot |-> 1, cnt |-> 0, goal |-> 0, ver |-> 0, gen |-> 0, id |-> 0, x |-> 0, y |-> 0]
NoReap == [pid |-> NoPid, slot |-> 1, step |-> "none"]

At(p, l)   == p \in running /\ pc[p] = l
Goto(p, l) == pc' = [pc EXCEPT ![p] = l]
\* a call returns; a worker in the middle of an event goes on with it
Return(p)  == /\ pc' = [pc EXCEPT ![p] = IF todo[p] = {} THEN "idle" ELSE "serve"]
              /\ reg' = [reg EXCEPT ![p] = Regs]
S(p)       == reg[p].slot

-----------------------------------------------------------------------------
(* status_register_client                                                  *)

\* lock_client_admission: the compare-and-swap that succeeds
Lock(p) ==
  /\ At(p, "idle") /\ admission = NoPid
  /\ admission' = p
  /\ reg' = [reg EXCEPT ![p] = Regs]
  /\ Goto(p, "scan")
  /\ UNCHANGED <<shared, procs, conns, todo, notified, wanted>>

\* client_capacity_is_available: the slots are read one after the other
Scan(p) ==
  /\ At(p, "scan")
  /\ LET n == reg[p].cnt + (IF owner[S(p)] # NoPid THEN 1 ELSE 0)
     IN  IF S(p) < NumSlots
         THEN reg' = [reg EXCEPT ![p].slot = @ + 1, ![p].cnt = n] /\ UNCHANGED pc
         ELSE /\ reg' = [reg EXCEPT ![p].slot = 1, ![p].cnt = n]
              /\ Goto(p, IF n < maxclients THEN "reserve" ELSE "refused")
  /\ UNCHANGED <<shared, admission, procs, conns, todo, notified, wanted>>

\* the first slot whose compare-and-swap succeeds is reserved
Reserve(p) ==
  /\ At(p, "reserve")
  /\ IF owner[S(p)] = NoPid
     THEN owner' = [owner EXCEPT ![S(p)] = p] /\ Goto(p, "reserved") /\ UNCHANGED reg
     ELSE /\ UNCHANGED owner
          /\ IF S(p) < NumSlots
             THEN reg' = [reg EXCEPT ![p].slot = @ + 1] /\ UNCHANGED pc
             ELSE Goto(p, "noslot") /\ UNCHANGED reg
  /\ UNCHANGED <<active, gen, req, ver, pay, admission, procs, conns, todo, notified, wanted>>

\* unlock_client_admission
Unlock(p) ==
  /\ p \in running /\ pc[p] \in {"reserved", "refused", "noslot"}
  /\ admission' = IF admission = p THEN NoPid ELSE admission
  /\ IF pc[p] = "reserved" THEN Goto(p, "reset") /\ UNCHANGED reg ELSE Return(p)
  /\ UNCHANGED <<shared, procs, conns, todo, notified, wanted>>

ResetSlot(s) ==
  /\ pay' = [pay EXCEPT ![s] = Blank]
  /\ req' = [req EXCEPT ![s] = 0]
  /\ ver' = [ver EXCEPT ![s] = 0]

\* registrations so far
Uses == FoldFunction(LAMBDA a, b : a + b, 0, gen)

Reset(p) ==
  /\ At(p, "reset") /\ Uses < MaxUses
  /\ ResetSlot(S(p)) /\ Goto(p, "bump")
  /\ UNCHANGED <<owner, active, gen, admission, procs, reg, conns, todo, notified, wanted>>

Bump(p) ==
  /\ At(p, "bump")
  /\ gen' = [gen EXCEPT ![S(p)] = @ + 1]
  /\ Goto(p, "fill")
  /\ UNCHANGED <<owner, active, req, ver, pay, admission, procs, reg, conns, todo, notified, wanted>>

Fill(p) ==
  /\ At(p, "fill")
  /\ pay' = [pay EXCEPT ![S(p)].id = gen[S(p)]]
  /\ Goto(p, "publish")
  /\ UNCHANGED <<owner, active, gen, req, ver, admission, procs, reg, conns, todo, notified, wanted>>

Publish(p) ==
  /\ At(p, "publish")
  /\ active' = [active EXCEPT ![S(p)] = TRUE]
  /\ conns' = [conns EXCEPT ![p] = @ \cup {S(p)}]
  /\ Return(p)
  /\ UNCHANGED <<owner, gen, req, ver, pay, admission, procs, todo, notified, wanted>>

-----------------------------------------------------------------------------
(* status_unregister_client, from connection_cleanup                       *)

Deactivate(p, s) ==
  /\ active' = [active EXCEPT ![s] = FALSE]
  /\ conns' = [conns EXCEPT ![p] = @ \ {s}]
  /\ reg' = [reg EXCEPT ![p] = [Regs EXCEPT !.slot = s]]
  /\ Goto(p, "clear")

Unregister(p, s) ==
  /\ At(p, "idle") /\ s \in conns[p] /\ owner[s] = p
  /\ Deactivate(p, s)
  /\ UNCHANGED <<owner, gen, req, ver, pay, admission, procs, todo, notified, wanted>>

Clear(p) ==
  /\ At(p, "clear")
  /\ ResetSlot(S(p)) /\ Goto(p, "release")
  /\ UNCHANGED <<owner, active, gen, admission, procs, reg, conns, todo, notified, wanted>>

Release(p) ==
  /\ At(p, "release")
  /\ owner' = [owner EXCEPT ![S(p)] = NoPid]
  /\ Return(p)
  /\ UNCHANGED <<active, gen, req, ver, pay, admission, procs, conns, todo, notified, wanted>>

-----------------------------------------------------------------------------
(* status_update_client_bytes, _state and _queue: between two increments of *)
(* the version                                                             *)

UpdateBegin(p, s) ==
  /\ At(p, "idle") /\ s \in conns[p] \cap Measured /\ owner[s] = p /\ active[s]
  /\ ver[s] + 2 <= MaxVersion
  /\ ver' = [ver EXCEPT ![s] = @ + 1]
  /\ reg' = [reg EXCEPT ![p] = [Regs EXCEPT !.slot = s]]
  /\ Goto(p, "write x")
  /\ UNCHANGED <<owner, active, gen, req, pay, admission, procs, conns, todo, notified, wanted>>

UpdateWrite(p) ==
  /\ \/ At(p, "write x") /\ pay' = [pay EXCEPT ![S(p)].x = 1 - @] /\ Goto(p, "write y")
     \/ At(p, "write y") /\ pay' = [pay EXCEPT ![S(p)].y = 1 - @] /\ Goto(p, "write end")
  /\ UNCHANGED <<owner, active, gen, req, ver, admission, procs, reg, conns, todo, notified, wanted>>

UpdateEnd(p) ==
  /\ At(p, "write end")
  /\ ver' = [ver EXCEPT ![S(p)] = @ + 1]
  /\ Return(p)
  /\ UNCHANGED <<owner, active, gen, req, pay, admission, procs, conns, todo, notified, wanted>>

-----------------------------------------------------------------------------
(* snapshot_client, for a status event (goal 0) or for the disconnect of   *)
(* the client named goal.  A failed attempt is repeated or given up.       *)

Copying == {"active?", "version", "generation", "copy x", "copy y", "version again",
            "generation again", "active again", "copied", "request", "confirm"}

Look(p, s, goal) ==
  /\ Cardinality({q \in Pid : pc[q] \in Copying}) < MaxCopies
  /\ At(p, "idle") /\ goal \in 0..gen[s]
  /\ reg' = [reg EXCEPT ![p] = [Regs EXCEPT !.slot = s, !.goal = goal]]
  /\ Goto(p, "active?")
  /\ UNCHANGED <<shared, admission, procs, conns, todo, notified, wanted>>

Fail(p) == (Goto(p, "active?") /\ UNCHANGED reg) \/ Return(p)

Load(p) ==
  /\ LET s == S(p) IN
     \/ /\ At(p, "active?")
        /\ IF active[s] THEN Goto(p, "version") /\ UNCHANGED reg ELSE Return(p)
     \/ /\ At(p, "version")
        /\ IF ver[s] % 2 = 1 THEN Fail(p)
           ELSE reg' = [reg EXCEPT ![p].ver = ver[s]] /\ Goto(p, "generation")
     \/ /\ At(p, "generation")
        /\ reg' = [reg EXCEPT ![p].gen = gen[s]] /\ Goto(p, "copy x")
     \/ /\ At(p, "copy x")
        /\ reg' = [reg EXCEPT ![p].id = pay[s].id, ![p].x = pay[s].x] /\ Goto(p, "copy y")
     \/ /\ At(p, "copy y")
        /\ reg' = [reg EXCEPT ![p].y = pay[s].y] /\ Goto(p, "version again")
     \/ /\ At(p, "version again")
        /\ IF ver[s] = reg[p].ver THEN UNCHANGED reg /\ Goto(p, "generation again") ELSE Fail(p)
     \/ /\ At(p, "generation again")
        /\ IF gen[s] = reg[p].gen THEN UNCHANGED reg /\ Goto(p, "active again") ELSE Fail(p)
     \/ /\ At(p, "active again")
        /\ IF active[s] THEN UNCHANGED reg /\ Goto(p, "copied") ELSE Fail(p)
  /\ UNCHANGED <<shared, admission, procs, conns, todo, notified, wanted>>

\* a copy is shown, or compared with the client to disconnect
Copied(p) ==
  /\ At(p, "copied")
  /\ IF reg[p].goal # 0 /\ reg[p].id = reg[p].goal THEN Goto(p, "request") /\ UNCHANGED reg
     ELSE Return(p)
  /\ UNCHANGED <<shared, admission, procs, conns, todo, notified, wanted>>

\* handle_disconnect_client
Request(p) ==
  /\ At(p, "request")
  /\ req' = [req EXCEPT ![S(p)] = reg[p].gen]
  /\ wanted' = wanted \cup {<<S(p), reg[p].goal>>}
  /\ Goto(p, "confirm")
  /\ UNCHANGED <<owner, active, gen, ver, pay, admission, procs, reg, conns, todo, notified>>

Found(p) == active[S(p)] /\ gen[S(p)] = reg[p].gen

Confirm(p) ==
  /\ At(p, "confirm")
  /\ notified' = IF Found(p) THEN Pid ELSE notified
  /\ Return(p)
  /\ UNCHANGED <<shared, admission, procs, conns, todo, wanted>>

\* the event loop reads the event and checks each of its connections
ReadEvent(p) ==
  /\ At(p, "idle") /\ p \in notified
  /\ notified' = notified \ {p}
  /\ todo' = [todo EXCEPT ![p] = conns[p]]
  /\ Goto(p, IF conns[p] = {} THEN "idle" ELSE "serve")
  /\ UNCHANGED <<shared, admission, procs, reg, conns, wanted>>

\* mutant: any request for the slot matches
MatchesAnyone(s) == req[s] # 0 /\ active[s]

Matches(s) == req[s] # 0 /\ req[s] = gen[s] /\ active[s]

Serve(p) ==
  /\ At(p, "serve")
  /\ \E s \in todo[p] :
       /\ todo' = [todo EXCEPT ![p] = @ \ {s}]
       /\ IF Matches(s)
          THEN Deactivate(p, s)
          ELSE /\ Goto(p, IF todo[p] = {s} THEN "idle" ELSE "serve")
               /\ UNCHANGED <<active, conns, reg>>
  /\ UNCHANGED <<owner, gen, req, ver, pay, admission, procs, notified, wanted>>

-----------------------------------------------------------------------------
(* A worker dies; the supervisor learns it from waitpid, calls             *)
(* status_reap_worker and only then starts another.                        *)

Kill(p) ==
  /\ p \in running /\ kills < MaxKills
  /\ running' = running \ {p} /\ dead' = dead \cup {p} /\ kills' = kills + 1
  /\ Goto(p, "idle")
  /\ conns' = [conns EXCEPT ![p] = {}]
  /\ todo' = [todo EXCEPT ![p] = {}]
  /\ reg' = [reg EXCEPT ![p] = Regs]
  /\ UNCHANGED <<maxclients, shared, admission, sup, notified, wanted>>

ReapStart(p) ==
  /\ p \in dead /\ sup = NoReap
  /\ sup' = [pid |-> p, slot |-> 1, step |-> "slot"]
  /\ UNCHANGED <<maxclients, shared, admission, running, dead, kills, pc, reg, conns, todo, notified, wanted>>

NextSlot == [sup EXCEPT !.slot = IF @ < NumSlots THEN @ + 1 ELSE 1,
                        !.step = IF sup.slot < NumSlots THEN "slot" ELSE "lock"]

Reclaims(s) == owner[s] = sup.pid

ReapSlot ==
  /\ \/ /\ sup.step = "slot" /\ UNCHANGED <<owner, req, ver, pay>>
        /\ IF Reclaims(sup.slot)
           THEN active' = [active EXCEPT ![sup.slot] = FALSE] /\ sup' = [sup EXCEPT !.step = "reset"]
           ELSE sup' = NextSlot /\ UNCHANGED active
     \/ /\ sup.step = "reset" /\ UNCHANGED <<owner, active>>
        /\ ResetSlot(sup.slot) /\ sup' = [sup EXCEPT !.step = "free"]
     \/ /\ sup.step = "free" /\ UNCHANGED <<active, req, ver, pay>>
        /\ owner' = [owner EXCEPT ![sup.slot] = NoPid] /\ sup' = NextSlot
  /\ UNCHANGED <<maxclients, gen, admission, running, dead, kills, pc, reg, conns, todo, notified, wanted>>

\* mutant: the admission guard of a dead holder is left alone
ReapLockKeeps ==
  /\ sup.step = "lock"
  /\ dead' = dead \ {sup.pid}
  /\ sup' = NoReap
  /\ UNCHANGED <<maxclients, shared, admission, running, kills, pc, reg, conns, todo, notified, wanted>>

ReapLock ==
  /\ sup.step = "lock"
  /\ admission' = IF admission = sup.pid THEN NoPid ELSE admission
  /\ dead' = dead \ {sup.pid}
  /\ sup' = NoReap
  /\ UNCHANGED <<maxclients, shared, running, kills, pc, reg, conns, todo, notified, wanted>>

\* mutant: a process id comes back before it was reaped
SpawnUnreaped(p) ==
  /\ p \notin running
  /\ running' = running \cup {p}
  /\ UNCHANGED <<maxclients, shared, admission, dead, kills, sup, pc, reg, conns, todo, notified, wanted>>

Spawn(p) ==
  /\ p \notin running \cup dead
  /\ running' = running \cup {p}
  /\ UNCHANGED <<maxclients, shared, admission, dead, kills, sup, pc, reg, conns, todo, notified, wanted>>

-----------------------------------------------------------------------------
Init ==
  /\ owner = [s \in Slot |-> NoPid] /\ active = [s \in Slot |-> FALSE]
  /\ gen = [s \in Slot |-> 0] /\ req = [s \in Slot |-> 0] /\ ver = [s \in Slot |-> 0]
  /\ pay = [s \in Slot |-> Blank]
  /\ admission = NoPid
  /\ maxclients \in Limits
  /\ running = {} /\ dead = {} /\ kills = 0 /\ sup = NoReap
  /\ pc = [p \in Pid |-> "idle"] /\ reg = [p \in Pid |-> Regs]
  /\ conns = [p \in Pid |-> {}] /\ todo = [p \in Pid |-> {}]
  /\ notified = {} /\ wanted = {}

\* the steps a worker takes once it has begun a call
Continue(p) ==
  \/ Scan(p) \/ Reserve(p) \/ Unlock(p) \/ Reset(p) \/ Bump(p) \/ Fill(p) \/ Publish(p)
  \/ Clear(p) \/ Release(p) \/ UpdateWrite(p) \/ UpdateEnd(p)
  \/ Load(p) \/ Copied(p) \/ Request(p) \/ Confirm(p) \/ Serve(p)

Begin(p) ==
  \/ Lock(p)
  \/ \E s \in Slot : Unregister(p, s) \/ UpdateBegin(p, s)
  \/ \E s \in Slot : \E goal \in 0..MaxUses : Look(p, s, goal)

Reap == (\E p \in Pid : ReapStart(p)) \/ ReapSlot \/ ReapLock

Next == (\E p \in Pid : Begin(p) \/ Continue(p) \/ ReadEvent(p) \/ Kill(p) \/ Spawn(p)) \/ Reap

Spec == Init /\ [][Next]_vars

-----------------------------------------------------------------------------
Reserved == {s \in Slot : owner[s] # NoPid}
Locked == {"scan", "reserve", "reserved", "refused", "noslot"}
Unconnected == {"reserved", "reset", "bump", "fill", "publish", "clear", "release"}
Writing == {"write x", "write y", "write end"}
Compared == {"copy x", "copy y", "version again", "generation again"}
Labels == Locked \cup Copying \cup {"idle", "reset", "bump", "fill", "publish", "clear",
  "release", "write x", "write y", "write end", "serve"}

\* The variables' types.
TypeOK ==
  /\ owner \in [Slot -> Pid \cup {NoPid}] /\ active \in [Slot -> BOOLEAN]
  /\ gen \in [Slot -> Nat] /\ req \in [Slot -> Nat] /\ ver \in [Slot -> 0..MaxVersion]
  /\ pay \in [Slot -> [id : Nat, x : 0..1, y : 0..1]]
  /\ admission \in Pid \cup {NoPid}
  /\ maxclients \in Limits
  /\ running \subseteq Pid /\ dead \subseteq Pid /\ kills \in Nat
  /\ pc \in [Pid -> Labels]
  /\ reg \in [Pid -> [slot : Slot, cnt : Nat, goal : Nat, ver : 0..MaxVersion, gen : Nat,
                      id : Nat, x : 0..1, y : 0..1]]
  /\ conns \in [Pid -> SUBSET Slot] /\ todo \in [Pid -> SUBSET Slot]
  /\ notified \subseteq Pid /\ wanted \subseteq Slot \X Nat
  /\ sup \in [pid : Pid \cup {NoPid}, slot : Slot,
              step : {"none", "slot", "reset", "free", "lock"}]

\* Never are more slots reserved than maxclients allows, whatever processes
\* register, leave, die and are reaped at the same time.
Capacity == Cardinality(Reserved) <= maxclients

\* A registration that was admitted finds a slot: the error "No free client
\* slots" of status_register_client is never met.
AdmittedFindsSlot == \A p \in Pid : pc[p] # "noslot"

\* What a running worker publishes stays its own: no other process reserves or
\* frees the slot of a living connection.
ConnectionsOwned ==
  \A p \in Pid : \A s \in conns[p] : owner[s] = p /\ active[s]

\* What a registration knows: the guard is its own, it has not missed a reserved
\* slot, and once admitted a free one is still ahead of it.
Registering(p) ==
  /\ pc[p] \in Locked => admission = p
  /\ pc[p] = "scan" =>
       Cardinality({s \in 1..(S(p) - 1) : owner[s] # NoPid}) <= reg[p].cnt
  /\ pc[p] = "reserve" =>
       Cardinality(Reserved) < maxclients /\ \E s \in S(p)..NumSlots : owner[s] = NoPid

\* A slot between its reservation and its connection, or between its connection
\* and its release, is its worker's; so is one that is being updated.
Holding(p) ==
  /\ pc[p] \in Unconnected => owner[S(p)] = p /\ S(p) \notin conns[p]
  /\ pc[p] \in Writing => owner[S(p)] = p /\ ver[S(p)] < MaxVersion
  /\ pc[p] = "bump" => pay[S(p)].id = 0

\* A worker checks its own connections; one that does not run has none.
Living(p) ==
  /\ todo[p] \subseteq conns[p] /\ (pc[p] = "idle" => todo[p] = {})
  /\ p \notin running => pc[p] = "idle" /\ conns[p] = {}

\* A copy names nobody, or a client not older than the generation read first;
\* once the generations were compared, exactly that one.
CopyNames(p) ==
  /\ pc[p] \in Compared => reg[p].gen <= gen[S(p)]
  /\ pc[p] \in Compared \ {"copy x"} => reg[p].id = 0 \/ reg[p].id \in reg[p].gen..gen[S(p)]
  /\ pc[p] \in {"active again", "copied"} => reg[p].id \in {0, reg[p].gen}
  /\ pc[p] = "request" => reg[p].gen = reg[p].goal

\* A slot names nobody or its last client, and is asked to disconnect only
\* clients somebody wanted gone.
SlotNames == \A s \in Slot : /\ pay[s].id \in {0, gen[s]}
                             /\ req[s] # 0 => <<s, req[s]>> \in wanted

\* The supervisor reaps only the dead, and the slots it has passed are not theirs.
Reaping ==
  /\ running \cap dead = {}
  /\ sup.step # "none" =>
       sup.pid \in dead /\ \A s \in Slot : owner[s] = sup.pid => sup.step # "lock" /\ s >= sup.slot
  /\ sup.step \in {"reset", "free"} => owner[sup.slot] = sup.pid

\* Everything a step relies on: the types, each worker's part, the slots and the
\* reaping.
Inv ==
  /\ TypeOK /\ Capacity /\ AdmittedFindsSlot /\ ConnectionsOwned
  /\ \A p \in Pid : Registering(p) /\ Holding(p) /\ Living(p) /\ CopyNames(p)
  /\ SlotNames /\ Reaping

\* A worker closes on request only a client somebody asked to disconnect, and
\* never the one that took over its slot.
RightClient ==
  [][\A p \in Pid, s \in Slot :
       pc[p] = "serve" /\ s \in conns[p] /\ s \notin conns'[p] /\ p \in running'
       => <<s, gen[s]>> \in wanted]_vars

\* What a killed worker held is reclaimed before its process id can come back:
\* its slots and the admission guard.
Reclaimed ==
  [][\A p \in Pid : p \in dead /\ p \notin dead'
       => admission' # p /\ \A s \in Slot : owner'[s] # p]_vars

\* A copy that is accepted is of one client at one time (snapshot_client).
SnapshotConsistent ==
  \A p \in Pid : pc[p] = "copied" => reg[p].id = reg[p].gen /\ reg[p].x = reg[p].y

\* A worker that has begun a call goes on and reads its events; the supervisor
\* polls waitpid every 100 ms.
Fairness == /\ \A p \in Pid : WF_vars(Continue(p)) /\ SF_vars(ReadEvent(p))
            /\ WF_vars(Reap)

FairSpec == Spec /\ Fairness

\* A disconnect that was confirmed as sent ends that client's stream.
DisconnectHonoured ==
  \A p \in Pid, s \in Slot, g \in 1..MaxUses :
    (At(p, "confirm") /\ S(p) = s /\ reg[p].gen = g /\ Found(p))
      ~> (~active[s] \/ gen[s] # g)
=============================================================================
