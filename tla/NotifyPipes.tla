---------------------------- MODULE NotifyPipes ----------------------------
(***************************************************************************)
(* The notification pipes of status.c.  An event is one byte written to    *)
(* the pipe of every worker, by a worker or by the supervisor; a worker    *)
(* reads its pipe empty in its event loop.  Only the read ends are         *)
(* non-blocking: a writer waits while the pipe is full.  The supervisor    *)
(* keeps every pipe open, also those of workers that do not run.           *)
(***************************************************************************)
EXTENDS Integers

CONSTANTS
  NumWorkers,   \* config.workers
  Supervisor,   \* the supervisor's name among the processes
  Cap,          \* bytes a pipe holds
  Respawns      \* whether a dead worker is always started again

ASSUME PipesAssumption ==
  /\ NumWorkers \in Nat \ {0} /\ Cap \in Nat \ {0} /\ Respawns \in BOOLEAN
  /\ Supervisor \notin 1..NumWorkers

VARIABLES
  pipe,     \* bytes in the pipe of each worker, by kind of event
  writing,  \* what each process is writing: next pipe (0: nothing) and kind
  alive,    \* workers that run
  reaped,   \* workers whose death the supervisor has handled
  owed      \* history: workers with a disconnect event they have not handled

pipesVars == <<pipe, writing, alive, reaped, owed>>

Worker == 1..NumWorkers
Proc   == Worker \cup {Supervisor}
Kind   == {"update", "disconnect"}
Nothing == [at |-> 0, kind |-> "update"]
Bytes(i) == pipe[i]["update"] + pipe[i]["disconnect"]
Runs(p) == p = Supervisor \/ p \in alive
Idle(p) == Runs(p) /\ writing[p] = Nothing

\* status_trigger_event
Start(p, kind) == writing' = [writing EXCEPT ![p] = [at |-> 1, kind |-> kind]]

Trigger(p, kind) ==
  /\ Idle(p) /\ p # Supervisor
  /\ Start(p, kind)
  /\ UNCHANGED <<pipe, alive, reaped, owed>>

Following(w) == IF w.at < NumWorkers THEN [at |-> w.at + 1, kind |-> w.kind] ELSE Nothing
Written(p) == [writing EXCEPT ![p] = Following(writing[p])]
Owing(p) == IF writing[p].kind = "disconnect" THEN owed \cup {writing[p].at} ELSE owed

\* mutant: what does not fit is dropped
WriteOrDrop(p) ==
  /\ Runs(p) /\ writing[p].at # 0
  /\ pipe' = IF Bytes(writing[p].at) < Cap
             THEN [pipe EXCEPT ![writing[p].at][writing[p].kind] = @ + 1] ELSE pipe
  /\ owed' = Owing(p)
  /\ writing' = Written(p)
  /\ UNCHANGED <<alive, reaped>>

Write(p) ==
  /\ Runs(p) /\ writing[p].at # 0 /\ Bytes(writing[p].at) < Cap
  /\ pipe' = [pipe EXCEPT ![writing[p].at][writing[p].kind] = @ + 1]
  /\ owed' = Owing(p)
  /\ writing' = Written(p)
  /\ UNCHANGED <<alive, reaped>>

\* the event loop reads the pipe empty and handles what it read
Drain(i) ==
  /\ Idle(i) /\ Bytes(i) > 0
  /\ pipe' = [pipe EXCEPT ![i] = [k \in Kind |-> 0]]
  /\ owed' = IF pipe[i]["disconnect"] > 0 THEN owed \ {i} ELSE owed
  /\ UNCHANGED <<writing, alive, reaped>>

Die(i) ==
  /\ i \in alive
  /\ alive' = alive \ {i} /\ reaped' = reaped \ {i}
  /\ writing' = [writing EXCEPT ![i] = Nothing]
  /\ UNCHANGED <<pipe, owed>>

\* status_reap_worker tells the others, then the worker may be started again
ReapWorker(i) ==
  /\ Idle(Supervisor) /\ i \notin alive /\ i \notin reaped
  /\ reaped' = reaped \cup {i}
  /\ Start(Supervisor, "update")
  /\ UNCHANGED <<pipe, alive, owed>>

Respawn(i) ==
  /\ Idle(Supervisor) /\ i \notin alive /\ i \in reaped
  /\ alive' = alive \cup {i}
  /\ UNCHANGED <<pipe, writing, reaped, owed>>

PipesInit ==
  /\ pipe = [i \in Worker |-> [k \in Kind |-> 0]]
  /\ writing = [p \in Proc |-> Nothing]
  /\ alive = Worker /\ reaped = {} /\ owed = {}

PipesNext ==
  \/ \E p \in Proc : Write(p) \/ \E k \in Kind : Trigger(p, k)
  \/ \E i \in Worker : Drain(i) \/ Die(i) \/ ReapWorker(i) \/ Respawn(i)

PipesSpec == PipesInit /\ [][PipesNext]_pipesVars

\* Every process goes on with what it has begun; a worker reads its pipe again
\* and again, even when it always has something else to do.
PipesFairSpec ==
  /\ PipesSpec
  /\ \A p \in Proc : WF_pipesVars(Write(p))
  /\ \A i \in Worker : SF_pipesVars(Drain(i)) /\ WF_pipesVars(ReapWorker(i))
  /\ Respawns => \A i \in Worker : SF_pipesVars(Respawn(i))
-----------------------------------------------------------------------------
\* The variables' types.
PipesTypeOK ==
  /\ pipe \in [Worker -> [Kind -> 0..Cap]]
  /\ writing \in [Proc -> [at : 0..NumWorkers, kind : Kind]]
  /\ alive \subseteq Worker /\ reaped \subseteq Worker /\ owed \subseteq Worker

\* A request to disconnect is never lost on the way to a worker, not even in a
\* pipe full of updates or when the worker dies before it reads.
RequestKept == \A i \in owed : pipe[i]["disconnect"] > 0

\* The types, and every disconnect request in a pipe or with its worker.
PipesInv == PipesTypeOK /\ RequestKept

\* Whoever triggers an event goes on: a full pipe does not stop it.
TriggerReturns == \A p \in Proc : writing[p].at # 0 ~> (writing[p].at = 0 \/ ~Runs(p))
=============================================================================
