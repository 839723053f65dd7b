---------------------------- MODULE Supervisor ----------------------------
(***************************************************************************)
(* The supervisor and its worker processes (supervisor.c): spawning,       *)
(* reaping, rate-limited restarts, configuration reload, worker restart    *)
(* and shutdown, with the signals that pass between them.  A signal does   *)
(* what the receiver's handler does at that moment; a child just forked    *)
(* still has the supervisor's handlers.  The time since a restart is an    *)
(* age that stops growing once it is past the window.                      *)
(***************************************************************************)
EXTENDS Integers, FiniteSets

CONSTANTS
  MaxWorkers,   \* STATUS_MAX_WORKERS
  Pid, NoPid,   \* process ids, and 0
  MaxRestarts,  \* MAX_RESTARTS_IN_WINDOW
  Window,       \* RESTART_WINDOW_SEC, in ticks
  ForkFails,    \* whether fork may fail
  Signals,      \* bound: the signals the supervisor may be sent
  BindChanges   \* whether a reload may change the listening addresses

ASSUME SupervisorAssumption ==
  /\ MaxWorkers \in Nat \ {0}
  /\ NoPid \notin Pid
  /\ MaxRestarts \in Nat \ {0} /\ Window \in Nat
  /\ Signals \subseteq {"stop", "hup", "usr1"}
  /\ ForkFails \in BOOLEAN /\ BindChanges \in BOOLEAN

VARIABLES
  workers,   \* worker_info_t: pid, retiring, rate_limited, ages of restart_times
  desired,   \* desired_workers
  stop, hup, usr1,   \* the flags the supervisor's signal handlers set
  loop, cursor,      \* where supervisor_run is, and its loop variable i
  proc,      \* the child processes; cfg: it has the supervisor's configuration
  restarts,  \* history: ages of the last MaxRestarts + 1 restarts of each worker
  unborn     \* history: the workers whose last fork failed

flags == <<stop, hup, usr1>>
fleet == <<workers, proc, unborn>>
vars  == <<workers, desired, flags, loop, cursor, proc, restarts, unborn>>

Index   == 0..MaxWorkers-1
NoProc  == [idx |-> 0, phase |-> "none", cfg |-> TRUE, term |-> FALSE, hup |-> FALSE]
Child(i) == [NoProc EXCEPT !.idx = i, !.phase = "forked"]
Alive(p) == proc[p].phase \notin {"none", "zombie"}
Zombies  == {p \in Pid : proc[p].phase = "zombie"}
TrackedBy(w) == {w[i].pid : i \in Index} \ {NoPid}
Tracked  == TrackedBy(workers)
\* supervisor_run has not returned and the supervisor was not killed
Up == loop \notin {"done", "dead"}

-----------------------------------------------------------------------------
(* Signals                                                                 *)

\* SIGTERM.  The child has the supervisor's handler until it restores the
\* default one, which ends it; the event loop's handler sets stop_flag.
Terminated(q) ==
  CASE q.phase = "forked"  -> q
    [] q.phase = "running" -> [q EXCEPT !.term = TRUE]
    [] q.phase \in {"none", "zombie"} -> q
    [] OTHER -> [NoProc EXCEPT !.idx = q.idx, !.phase = "zombie"]

\* mutant: a child that has not installed its handler loses the signal
HungUpUnmasked(q) ==
  IF q.phase \in {"none", "zombie", "forked"} THEN q ELSE [q EXCEPT !.hup = TRUE]

\* SIGHUP is blocked across fork and stays pending
HungUp(q) == IF q.phase \in {"none", "zombie"} THEN q ELSE [q EXCEPT !.hup = TRUE]

-----------------------------------------------------------------------------
(* Restart limit and spawn_worker                                          *)

\* mutant: one restart too many in the window
AllowedOneMore(w) == Cardinality({k \in 1..MaxRestarts : w.ages[k] < Window}) < MaxRestarts

Allowed(w) == Cardinality({k \in 1..MaxRestarts : w.ages[k] <= Window}) < MaxRestarts

\* a list of the latest n ages, when one more restart is made
Newest(ages, n) == [k \in 1..n |-> IF k = 1 THEN 0 ELSE ages[k - 1]]

Recorded(w) == [w EXCEPT !.ages = Newest(@, MaxRestarts), !.limited = FALSE]

\* spawn_worker: w and pr are the workers and processes before it
Spawn(i, w, pr) ==
  \/ /\ ForkFails
     /\ workers' = w /\ proc' = pr
     /\ unborn' = unborn \cup {i}
  \/ \E p \in Pid :
       /\ pr[p].phase = "none"
       /\ proc' = [pr EXCEPT ![p] = Child(i)]
       /\ workers' = [w EXCEPT ![i].pid = p, ![i].retiring = FALSE]
       /\ unborn' = unborn \ {i}

Restart(i, w, pr) ==
  /\ Spawn(i, [w EXCEPT ![i] = Recorded(@)], pr)
  /\ restarts' = [restarts EXCEPT ![i] = Newest(@, MaxRestarts + 1)]

-----------------------------------------------------------------------------
(* supervisor_run                                                          *)

SpawnAll ==
  /\ loop = "spawn"
  /\ IF cursor < desired /\ ~stop
     THEN Spawn(cursor, workers, proc) /\ cursor' = cursor + 1 /\ UNCHANGED loop
     ELSE loop' = "reap" /\ cursor' = 0 /\ UNCHANGED fleet
  /\ UNCHANGED <<desired, flags, restarts>>

\* the head of the monitoring loop
LeaveLoop ==
  /\ loop = "head"
  /\ loop' = IF stop THEN "stop" ELSE "reap"
  /\ UNCHANGED <<fleet, desired, flags, cursor, restarts>>

\* mutant: the limit leaves no mark
LimitedUnmarked(w, i) == w

\* the worker is to be restarted once the limit allows it
Limited(w, i) == [w EXCEPT ![i].limited = TRUE]

\* waitpid returns a child
Reap(p) ==
  /\ loop = "reap" /\ p \in Zombies
  /\ LET pr == [proc EXCEPT ![p] = NoProc]
         S  == {i \in Index : workers[i].pid = p}
     IN  IF S = {}
         THEN proc' = pr /\ UNCHANGED <<workers, restarts, unborn>>
         ELSE \E i \in S :
                LET w == [workers EXCEPT ![i].pid = NoPid]
                IN  IF ~stop /\ i < desired /\ ~w[i].retiring
                    THEN IF Allowed(w[i])
                         THEN Restart(i, w, pr)
                         ELSE /\ workers' = Limited(w, i)
                              /\ proc' = pr /\ UNCHANGED <<restarts, unborn>>
                    ELSE workers' = w /\ proc' = pr /\ UNCHANGED <<restarts, unborn>>
  /\ UNCHANGED <<desired, flags, loop, cursor>>

\* no more children have exited
ReapedAll ==
  /\ loop = "reap" /\ Zombies = {}
  /\ loop' = "limits" /\ cursor' = 0
  /\ UNCHANGED <<workers, desired, flags, proc, restarts, unborn>>

Limits ==
  /\ loop = "limits"
  /\ IF cursor < desired
     THEN /\ IF /\ workers[cursor].limited /\ workers[cursor].pid = NoPid
                /\ ~workers[cursor].retiring /\ ~stop /\ Allowed(workers[cursor])
             THEN Restart(cursor, workers, proc)
             ELSE UNCHANGED <<fleet, restarts>>
          /\ cursor' = cursor + 1 /\ UNCHANGED loop
     ELSE loop' = "reload" /\ UNCHANGED <<fleet, restarts, cursor>>
  /\ UNCHANGED <<desired, flags>>

NoReload ==
  /\ loop = "reload" /\ ~hup
  /\ loop' = "usr1"
  /\ UNCHANGED <<workers, desired, flags, cursor, proc, restarts, unborn>>

\* a snapshot, the PID file, a socket or the file itself is refused: everything
\* is restored; only a refused file goes on with the loop body
ReloadFails ==
  /\ loop = "reload" /\ hup
  /\ hup' = FALSE
  /\ loop' \in {"usr1", "head"}
  /\ UNCHANGED <<workers, desired, stop, usr1, cursor, proc, restarts, unborn>>

\* the workers a change of the worker count adds or removes
Counted(n) ==
  [i \in Index |->
     IF i \in desired..n-1 THEN [workers[i] EXCEPT !.retiring = FALSE]
     ELSE IF i \in n..desired-1 THEN [workers[i] EXCEPT !.retiring = TRUE, !.limited = FALSE]
     ELSE workers[i]]

\* what a child has received of a reload to n workers
Signalled(p, n, bound) ==
  LET q == [proc[p] EXCEPT !.cfg = FALSE]
      excess == q.idx \in n..desired-1
      first == IF excess THEN Terminated(q) ELSE q
  IN  IF p \notin Tracked THEN q
      ELSE IF bound THEN Terminated(first) ELSE HungUp(first)

Reload(n, bound) ==
  /\ loop = "reload" /\ hup
  /\ hup' = FALSE
  /\ desired' = n
  /\ workers' = Counted(n)
  /\ proc' = [p \in Pid |-> IF proc[p].phase \in {"none", "zombie"} THEN proc[p]
                            ELSE Signalled(p, n, bound)]
  /\ IF n > desired THEN loop' = "grow" /\ cursor' = desired
                    ELSE loop' = "usr1" /\ UNCHANGED cursor
  /\ UNCHANGED <<stop, usr1, restarts, unborn>>

Grow ==
  /\ loop = "grow"
  /\ IF cursor < desired
     THEN /\ IF workers[cursor].pid = NoPid
             THEN Spawn(cursor, workers, proc)
             ELSE UNCHANGED fleet
          /\ cursor' = cursor + 1 /\ UNCHANGED loop
     ELSE loop' = "usr1" /\ UNCHANGED <<fleet, cursor>>
  /\ UNCHANGED <<desired, flags, restarts>>

Broadcast == proc' = [p \in Pid |-> IF p \in Tracked THEN Terminated(proc[p]) ELSE proc[p]]

RestartWorkers ==
  /\ loop = "usr1"
  /\ IF usr1 THEN Broadcast ELSE UNCHANGED proc
  /\ usr1' = FALSE /\ loop' = "head"
  /\ UNCHANGED <<workers, desired, stop, hup, cursor, restarts, unborn>>

Stop ==
  /\ loop = "stop"
  /\ Broadcast /\ loop' = "stopping"
  /\ UNCHANGED <<workers, desired, flags, cursor, restarts, unborn>>

Untracked(p) == [i \in Index |-> IF workers[i].pid = p THEN [workers[i] EXCEPT !.pid = NoPid]
                                                      ELSE workers[i]]

StopReap(p) ==
  /\ loop = "stopping" /\ p \in Zombies
  /\ proc' = [proc EXCEPT ![p] = NoProc]
  /\ workers' = Untracked(p)
  /\ UNCHANGED <<desired, flags, loop, cursor, restarts, unborn>>

\* all are gone, or max_timeout passed: SIGKILL and waitpid for the rest
StopTimeout ==
  /\ loop = "stopping"
  /\ proc' = [p \in Pid |-> IF p \in Tracked THEN NoProc ELSE proc[p]]
  /\ workers' = [i \in Index |-> [workers[i] EXCEPT !.pid = NoPid]]
  /\ loop' = "done"
  /\ UNCHANGED <<desired, flags, cursor, restarts, unborn>>

Supervise ==
  \/ SpawnAll \/ LeaveLoop \/ ReapedAll \/ Limits \/ NoReload \/ Grow \/ RestartWorkers
  \/ Stop \/ StopTimeout \/ ReloadFails
  \/ \E p \in Pid : Reap(p) \/ StopReap(p)
  \/ \E n \in 1..MaxWorkers, bound \in {BindChanges, FALSE} : Reload(n, bound)

-----------------------------------------------------------------------------
(* A child, from fork to the event loop                                    *)

Become(p, q) == proc' = [proc EXCEPT ![p] = q]
Exits(p) == [NoProc EXCEPT !.idx = proc[p].idx, !.phase = "zombie"]

\* worker_restore_default_signal_handlers, worker_install_sighup_handler
RestoreHandlers(p) ==
  /\ proc[p].phase = "forked"
  /\ Become(p, [proc[p] EXCEPT !.phase = "handlers"])

\* platform_set_parent_death_signal
ArmParentDeath(p) ==
  /\ proc[p].phase = "handlers"
  /\ Become(p, [proc[p] EXCEPT !.phase = "armed"])

\* mutant: the parent is trusted to live
CheckParentTrusts(p) ==
  /\ proc[p].phase = "armed"
  /\ Become(p, [proc[p] EXCEPT !.phase = "starting"])

\* getppid tells whether the supervisor is still there
CheckParent(p) ==
  /\ proc[p].phase = "armed"
  /\ Become(p, IF Up THEN [proc[p] EXCEPT !.phase = "starting"] ELSE Exits(p))

\* run_worker enters worker_run_event_loop
EnterLoop(p) ==
  /\ proc[p].phase = "starting"
  /\ Become(p, [proc[p] EXCEPT !.phase = "running"])

\* the event loop sees stop_flag or reload_flag
Serve(p) ==
  /\ proc[p].phase = "running"
  /\ \/ proc[p].term /\ Become(p, Exits(p))
     \/ proc[p].hup /\ ~proc[p].term /\ Become(p, [proc[p] EXCEPT !.hup = FALSE, !.cfg = TRUE])

Crash(p) == Alive(p) /\ Become(p, Exits(p))

Work(p) ==
  /\ RestoreHandlers(p) \/ ArmParentDeath(p) \/ CheckParent(p) \/ EnterLoop(p) \/ Serve(p)
  /\ UNCHANGED <<workers, desired, flags, loop, cursor, restarts, unborn>>

-----------------------------------------------------------------------------
(* The environment: signals to the supervisor, deaths, time                *)

Signal ==
  /\ Up
  /\ \/ "stop" \in Signals /\ stop' = TRUE /\ UNCHANGED <<hup, usr1>>
     \/ "hup" \in Signals /\ hup' = TRUE /\ UNCHANGED <<stop, usr1>>
     \/ "usr1" \in Signals /\ usr1' = TRUE /\ UNCHANGED <<stop, hup>>
  /\ UNCHANGED <<workers, desired, loop, cursor, proc, restarts, unborn>>

WorkerDies ==
  /\ \E p \in Pid : Crash(p)
  /\ UNCHANGED <<workers, desired, flags, loop, cursor, restarts, unborn>>

\* the kernel sends the parent-death signal to the children that armed it
SupervisorDies ==
  /\ Up
  /\ loop' = "dead"
  /\ proc' = [p \in Pid |-> IF proc[p].phase \in {"forked", "handlers"} THEN proc[p]
                            ELSE Terminated(proc[p])]
  /\ UNCHANGED <<workers, desired, flags, cursor, restarts, unborn>>

Older(a) == IF a > Window THEN a ELSE a + 1

\* time passes while the loop sleeps, 100 ms at a time
Tick ==
  /\ loop = "head"
  /\ workers' = [i \in Index |-> [workers[i] EXCEPT !.ages = [k \in 1..MaxRestarts |-> Older(@[k])]]]
  /\ restarts' = [i \in Index |-> [k \in 1..MaxRestarts+1 |-> Older(restarts[i][k])]]
  /\ UNCHANGED <<desired, flags, loop, cursor, proc, unborn>>

Init ==
  /\ workers = [i \in Index |-> [pid |-> NoPid, retiring |-> FALSE, limited |-> FALSE,
                                 ages |-> [k \in 1..MaxRestarts |-> Window + 1]]]
  /\ desired \in 1..MaxWorkers
  /\ stop = FALSE /\ hup = FALSE /\ usr1 = FALSE
  /\ loop = "spawn" /\ cursor = 0
  /\ proc = [p \in Pid |-> NoProc]
  /\ restarts = [i \in Index |-> [k \in 1..MaxRestarts+1 |-> Window + 1]]
  /\ unborn = {}

Next == Supervise \/ (\E p \in Pid : Work(p)) \/ Signal \/ WorkerDies \/ SupervisorDies \/ Tick

Spec == Init /\ [][Next]_vars

\* a child has something to do; a tick has something to age
Busy(p) == \/ proc[p].phase \in {"forked", "handlers", "armed", "starting"}
           \/ proc[p].phase = "running" /\ (proc[p].term \/ proc[p].hup)
Ageing == loop = "head" /\ \E i \in Index, k \in 1..MaxRestarts+1 : restarts[i][k] <= Window

\* The supervisor's loop and every process go on (weak fairness, with what
\* enables them written out), and again and again the loop sleeps long enough
\* for a tick (strong fairness).
Fairness ==
  /\ <>[]Up => []<><<Supervise>>_vars
  /\ \A p \in Pid : <>[]Busy(p) => []<><<Work(p)>>_vars
  /\ []<>Ageing => []<><<Tick>>_vars

FairSpec == Spec /\ Fairness
-----------------------------------------------------------------------------
Ages    == 0..Window+1
Info    == [pid : Pid \cup {NoPid}, retiring : BOOLEAN, limited : BOOLEAN,
            ages : [1..MaxRestarts -> Ages]]
Process == [idx : Index, cfg : BOOLEAN, term : BOOLEAN, hup : BOOLEAN,
            phase : {"none", "zombie", "forked", "handlers", "armed", "starting", "running"}]

\* The variables' types.
TypeOK ==
  /\ workers \in [Index -> Info]
  /\ desired \in 1..MaxWorkers
  /\ stop \in BOOLEAN /\ hup \in BOOLEAN /\ usr1 \in BOOLEAN
  /\ loop \in {"spawn", "head", "reap", "limits", "reload", "grow", "usr1", "stop", "stopping",
               "done", "dead"}
  /\ cursor \in 0..MaxWorkers
  /\ proc \in [Pid -> Process]
  /\ restarts \in [Index -> [1..MaxRestarts+1 -> Ages]]
  /\ unborn \subseteq Index

\* Every child is the recorded process of its index, and what is recorded is a child.
Tracks(w, pr) ==
  /\ \A p \in Pid : pr[p].phase # "none" => w[pr[p].idx].pid = p
  /\ \A i \in Index : w[i].pid # NoPid => pr[w[i].pid].phase # "none" /\ pr[w[i].pid].idx = i

\* The first workers are spawned in order.
Unspawned == loop = "spawn" => \A i \in Index : i >= cursor => workers[i].pid = NoPid

\* The times the limit looks at are those of the latest restarts, newest first.
Remembers(a, r) ==
  /\ \A k \in 1..MaxRestarts : a[k] = r[k]
  /\ \A j, k \in 1..MaxRestarts+1 : j <= k => r[j] <= r[k]

\* A worker index never has two processes: they would share a notification
\* pipe, a status shard and a client id counter.
OneProcessPerIndex ==
  \A p, q \in Pid :
    (p # q /\ proc[p].phase # "none" /\ proc[q].phase # "none") => proc[p].idx # proc[q].idx

\* No worker is restarted more than MaxRestarts times within a window, however
\* its deaths, reloads and restarts interleave: of one restart more than that the
\* oldest lies outside the window.
RestartsLimited == \A i \in Index : restarts[i][MaxRestarts + 1] > Window

\* When supervisor_run returns no worker is left: the shared memory and the
\* listeners it then removes have no user.
NobodyLeft == loop = "done" => \A p \in Pid : proc[p].phase = "none"

\* The types, one process to an index, none of them unrecorded, restarts within
\* their limit, and nobody left at the end.
Inv ==
  /\ TypeOK
  /\ Tracks(workers, proc) /\ Unspawned
  /\ \A i \in Index : Remembers(workers[i].ages, restarts[i])
  /\ OneProcessPerIndex /\ RestartsLimited /\ NobodyLeft

HasProcess(i) == \E p \in Pid : Alive(p) /\ proc[p].idx = i

\* A worker that is wanted and not running is started again.
WorkersRestarted ==
  \A i \in Index :
    (i < desired /\ ~HasProcess(i) /\ Up) ~> (HasProcess(i) \/ i >= desired \/ stop \/ ~Up)

\* The same but for a worker whose last fork() failed (supervisor.c:366 only logs
\* it): no order of deaths, reloads and restart limits makes the supervisor
\* forget a worker.
RestartedUnlessForkFailed ==
  \A i \in Index :
    (i < desired /\ ~HasProcess(i) /\ Up)
      ~> (HasProcess(i) \/ i >= desired \/ stop \/ ~Up \/ i \in unborn)

\* A reload reaches every worker: it takes the new configuration or ends.
ReloadReaches == \A p \in Pid : (Alive(p) /\ ~proc[p].cfg /\ Up) ~> (proc[p].cfg \/ ~Alive(p))

\* A stop request ends the supervisor; when it is killed instead its workers
\* end too.
AllEnd == /\ stop ~> ~Up
          /\ loop = "dead" ~> \A p \in Pid : ~Alive(p)

\* A worker that a reload removed ends (or is wanted again).
ExcessEnds ==
  \A i \in Index : (workers[i].retiring /\ HasProcess(i) /\ Up)
                     ~> (~HasProcess(i) \/ ~workers[i].retiring \/ ~Up)
=============================================================================
