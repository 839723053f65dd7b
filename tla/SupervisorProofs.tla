-------------------------- MODULE SupervisorProofs --------------------------
(***************************************************************************)
(* Machine-checked proofs about the processes.  Supervisor: one process to *)
(* an index, limited restarts and nobody left, for any number of workers   *)
(* and process ids, any limit and window, all signals, failing forks and   *)
(* crashes.  Disconnects: what the workers tell each other when a client   *)
(* is to be disconnected, for any number of workers and addresses and any  *)
(* size of the pipes and of the table: the notification pipes by           *)
(* themselves, the table of blocked addresses by itself, and the two       *)
(* together.                                                               *)
(***************************************************************************)
EXTENDS Supervisor, Disconnects, FiniteSetTheorems, WellFoundedInduction, TLAPS

-----------------------------------------------------------------------------
(* Processes and signals                                                   *)

\* A process record goes through a signal: it keeps its index, and stays a process.
LEMMA SignalKeeps ==
  ASSUME NEW q \in Process
  PROVE  /\ Terminated(q) \in Process /\ HungUp(q) \in Process
         /\ Terminated(q).idx = q.idx /\ HungUp(q).idx = q.idx
         /\ Terminated(q).phase = "none" <=> q.phase = "none"
         /\ HungUp(q).phase = "none" <=> q.phase = "none"
<1>1. HungUp(q) \in Process /\ HungUp(q).idx = q.idx /\ HungUp(q).phase = q.phase
  BY DEF HungUp, Process
<1>2. /\ Terminated(q) \in Process /\ Terminated(q).idx = q.idx
      /\ Terminated(q).phase = "none" <=> q.phase = "none"
  <2>1. CASE q.phase \in {"none", "zombie", "forked"}
    BY <2>1 DEF Terminated, Process
  <2>2. CASE q.phase = "running"
    BY <2>2 DEF Terminated, Process
  <2>3. CASE q.phase \in {"handlers", "armed", "starting"}
    <3>1. Terminated(q) = [NoProc EXCEPT !.idx = q.idx, !.phase = "zombie"]
      BY <2>3 DEF Terminated
    <3> QED BY <2>3, <3>1 DEF Process, NoProc
  <2> QED BY <2>1, <2>2, <2>3 DEF Process
<1> QED BY <1>1, <1>2

\* The records a process starts and ends with.
LEMMA Records ==
  /\ 0 \in Index
  /\ NoProc \in Process /\ NoProc.phase = "none"
  /\ \A i \in Index : Child(i) \in Process /\ Child(i).idx = i /\ Child(i).phase = "forked"
<1>1. 0 \in Index
  BY SupervisorAssumption DEF Index
<1>2. NoProc \in Process /\ NoProc.phase = "none"
  BY <1>1 DEF NoProc, Process
<1>3. \A q \in Process, i \in Index :
        /\ [q EXCEPT !.idx = i, !.phase = "forked"] \in Process
        /\ [q EXCEPT !.idx = i, !.phase = "forked"].idx = i
        /\ [q EXCEPT !.idx = i, !.phase = "forked"].phase = "forked"
  BY DEF Process
<1> QED BY <1>1, <1>2, <1>3 DEF Child

-----------------------------------------------------------------------------
(* Who is recorded                                                         *)

\* Two processes of one index would both be the one recorded for it.
LEMMA TracksOne ==
  ASSUME proc \in [Pid -> Process], Tracks(workers, proc)
  PROVE  OneProcessPerIndex
BY DEF Tracks, OneProcessPerIndex

\* What is recorded does not change as long as nobody comes or goes.
LEMMA TracksSame ==
  ASSUME NEW w, NEW pr, NEW w2, NEW pr2, Tracks(w, pr),
         \A i \in Index : w2[i].pid = w[i].pid,
         \A p \in Pid : /\ pr2[p].idx = pr[p].idx
                        /\ pr2[p].phase = "none" <=> pr[p].phase = "none",
         \A p \in Pid : pr[p].idx \in Index,
         \A i \in Index : w[i].pid \in Pid \cup {NoPid}
  PROVE  Tracks(w2, pr2)
BY DEF Tracks

\* A process that is reaped is taken off the record of its index.
LEMMA TracksLess ==
  ASSUME NEW w \in [Index -> Info], NEW pr \in [Pid -> Process], Tracks(w, pr),
         NEW p \in Pid, NEW i \in Index, w[i].pid = p
  PROVE  Tracks([w EXCEPT ![i].pid = NoPid], [pr EXCEPT ![p] = NoProc])
<1>1. [w EXCEPT ![i].pid = NoPid][i].pid = NoPid
  BY DEF Info
<1>2. \A j \in Index : j # i => [w EXCEPT ![i].pid = NoPid][j] = w[j]
  OBVIOUS
<1> QED BY <1>1, <1>2, Records DEF Tracks, Process, Info

\* A process that is spawned is put on the record of its index, which had none.
LEMMA SpawnTracks ==
  ASSUME NEW w \in [Index -> Info], NEW pr \in [Pid -> Process], Tracks(w, pr),
         NEW i \in Index, w[i].pid = NoPid, Spawn(i, w, pr)
  PROVE  /\ workers' \in [Index -> Info] /\ proc' \in [Pid -> Process]
         /\ Tracks(workers', proc')
         /\ \A j \in Index : workers'[j].ages = w[j].ages
         /\ \A j \in Index : j # i => workers'[j] = w[j]
         /\ unborn \subseteq Index => unborn' \subseteq Index
<1>0. unborn \subseteq Index => unborn' \subseteq Index
  BY DEF Spawn
<1>1. CASE workers' = w /\ proc' = pr
  BY <1>0, <1>1
<1>2. CASE \E p \in Pid : /\ pr[p].phase = "none"
                          /\ proc' = [pr EXCEPT ![p] = Child(i)]
                          /\ workers' = [w EXCEPT ![i].pid = p, ![i].retiring = FALSE]
  <2> PICK p \in Pid : /\ pr[p].phase = "none"
                       /\ proc' = [pr EXCEPT ![p] = Child(i)]
                       /\ workers' = [w EXCEPT ![i].pid = p, ![i].retiring = FALSE]
    BY <1>2
  <2>1. w[i] \in Info
    OBVIOUS
  <2>2. workers' = [w EXCEPT ![i] = [w[i] EXCEPT !.pid = p, !.retiring = FALSE]]
    OBVIOUS
  <2>3. /\ [w[i] EXCEPT !.pid = p, !.retiring = FALSE] \in Info
        /\ [w[i] EXCEPT !.pid = p, !.retiring = FALSE].pid = p
        /\ [w[i] EXCEPT !.pid = p, !.retiring = FALSE].ages = w[i].ages
    BY <2>1 DEF Info
  <2>4. workers' \in [Index -> Info] /\ workers'[i].pid = p
        /\ \A j \in Index : workers'[j].ages = w[j].ages
        /\ \A k \in Index : k # i => workers'[k] = w[k]
    BY <2>2, <2>3
  <2>5. /\ proc' \in [Pid -> Process] /\ proc'[p].idx = i /\ proc'[p].phase = "forked"
        /\ \A o \in Pid : o # p => proc'[o] = pr[o]
    BY Records
  <2>6. Tracks(workers', proc')
    <3>1. \A o \in Pid : proc'[o].phase # "none" => workers'[proc'[o].idx].pid = o
      <4> SUFFICES ASSUME NEW o \in Pid, proc'[o].phase # "none"
                   PROVE  workers'[proc'[o].idx].pid = o
        OBVIOUS
      <4>1. CASE o = p
        BY <4>1, <2>4, <2>5
      <4>2. CASE o # p
        <5>1. pr[o].phase # "none" /\ w[pr[o].idx].pid = o /\ pr[o].idx \in Index
          BY <4>2, <2>5 DEF Tracks, Process
        <5>2. pr[o].idx # i
          BY <5>1, SupervisorAssumption
        <5> QED BY <4>2, <5>1, <5>2, <2>4, <2>5
      <4> QED BY <4>1, <4>2
    <3>2. \A j \in Index : workers'[j].pid # NoPid =>
            proc'[workers'[j].pid].phase # "none" /\ proc'[workers'[j].pid].idx = j
      <4> SUFFICES ASSUME NEW j \in Index, workers'[j].pid # NoPid
                   PROVE  proc'[workers'[j].pid].phase # "none" /\ proc'[workers'[j].pid].idx = j
        OBVIOUS
      <4>1. CASE j = i
        BY <4>1, <2>4, <2>5
      <4>2. CASE j # i
        <5>1. workers'[j] = w[j] /\ w[j].pid \in Pid
          BY <4>2, <2>4 DEF Info
        <5>2. pr[w[j].pid].phase # "none" /\ pr[w[j].pid].idx = j
          BY <5>1 DEF Tracks
        <5>3. w[j].pid # p
          BY <5>2
        <5> QED BY <5>1, <5>2, <5>3, <2>5
      <4> QED BY <4>1, <4>2
    <3> QED BY <3>1, <3>2 DEF Tracks
  <2> QED BY <1>0, <2>4, <2>5, <2>6
<1> QED BY <1>1, <1>2 DEF Spawn

-----------------------------------------------------------------------------
(* The limit                                                               *)

\* A list of ages made newer or older stays one, and stays the beginning of the
\* history.
LEMMA RemembersNewest ==
  ASSUME NEW a \in [1..MaxRestarts -> Ages], NEW r \in [1..MaxRestarts+1 -> Ages],
         Remembers(a, r)
  PROVE  /\ Newest(a, MaxRestarts) \in [1..MaxRestarts -> Ages]
         /\ Newest(r, MaxRestarts + 1) \in [1..MaxRestarts+1 -> Ages]
         /\ Remembers(Newest(a, MaxRestarts), Newest(r, MaxRestarts + 1))
<1>1. MaxRestarts \in Nat \ {0} /\ 0 \in Ages /\ Ages \subseteq Nat
  BY SupervisorAssumption DEF Ages
<1>2. \A k \in 1..MaxRestarts+1 : k # 1 => k - 1 \in 1..MaxRestarts
  BY <1>1
<1>3. Newest(a, MaxRestarts) \in [1..MaxRestarts -> Ages]
  BY <1>1 DEF Newest
<1>4. Newest(r, MaxRestarts + 1) \in [1..MaxRestarts+1 -> Ages]
  BY <1>1 DEF Newest
<1>5. ASSUME NEW k \in 1..MaxRestarts
      PROVE  Newest(a, MaxRestarts)[k] = Newest(r, MaxRestarts + 1)[k]
  BY <1>1, <1>2 DEF Newest, Remembers
<1>6. ASSUME NEW j \in 1..MaxRestarts+1, NEW k \in 1..MaxRestarts+1, j <= k
      PROVE  Newest(r, MaxRestarts + 1)[j] <= Newest(r, MaxRestarts + 1)[k]
  <2>1. CASE j = 1
    <3>1. Newest(r, MaxRestarts + 1)[j] = 0
      BY <2>1, <1>1 DEF Newest
    <3>2. Newest(r, MaxRestarts + 1)[k] \in Ages
      BY <1>4
    <3>3. \A x \in Ages : 0 <= x
      BY SupervisorAssumption DEF Ages
    <3> QED BY <3>1, <3>2, <3>3
  <2>2. CASE j # 1
    <3>1. k # 1 /\ j - 1 \in 1..MaxRestarts+1 /\ k - 1 \in 1..MaxRestarts+1 /\ j - 1 <= k - 1
      BY <2>2, <1>1, <1>6
    <3>2. /\ Newest(r, MaxRestarts + 1)[j] = r[j - 1]
          /\ Newest(r, MaxRestarts + 1)[k] = r[k - 1]
      BY <2>2, <3>1, <1>1 DEF Newest
    <3>3. r[j - 1] <= r[k - 1]
      BY <3>1 DEF Remembers
    <3> QED BY <3>2, <3>3
  <2> QED BY <2>1, <2>2
<1> QED BY <1>3, <1>4, <1>5, <1>6 DEF Remembers

LEMMA RemembersOlder ==
  ASSUME NEW a \in [1..MaxRestarts -> Ages], NEW r \in [1..MaxRestarts+1 -> Ages],
         Remembers(a, r)
  PROVE  /\ [k \in 1..MaxRestarts |-> Older(a[k])] \in [1..MaxRestarts -> Ages]
         /\ [k \in 1..MaxRestarts+1 |-> Older(r[k])] \in [1..MaxRestarts+1 -> Ages]
         /\ Remembers([k \in 1..MaxRestarts |-> Older(a[k])],
                      [k \in 1..MaxRestarts+1 |-> Older(r[k])])
<1>1. \A x \in Ages : Older(x) \in Ages
  BY SupervisorAssumption DEF Ages, Older
<1>2. \A x, y \in Ages : x <= y => Older(x) <= Older(y)
  BY SupervisorAssumption DEF Ages, Older
<1>3. \A k \in 1..MaxRestarts : k \in 1..MaxRestarts+1
  BY SupervisorAssumption
<1> QED BY <1>1, <1>2, <1>3 DEF Remembers

\* If another restart is allowed, the oldest that is remembered is past.
LEMMA AllowedPast ==
  ASSUME NEW w \in Info, NEW r \in [1..MaxRestarts+1 -> Ages], Remembers(w.ages, r), Allowed(w)
  PROVE  Newest(r, MaxRestarts + 1)[MaxRestarts + 1] > Window
<1>1. MaxRestarts \in Nat \ {0} /\ Ages \subseteq Nat /\ Window \in Nat
  BY SupervisorAssumption DEF Ages
<1>2. PICK k \in 1..MaxRestarts : ~(w.ages[k] <= Window)
  <2> SUFFICES ASSUME \A k \in 1..MaxRestarts : w.ages[k] <= Window PROVE FALSE
    OBVIOUS
  <2> DEFINE S == {k \in 1..MaxRestarts : w.ages[k] <= Window}
  <2>1. S = 1..MaxRestarts
    OBVIOUS
  <2>2. Cardinality(1..MaxRestarts) = MaxRestarts
    BY <1>1, FS_Interval
  <2>3. Cardinality(S) < MaxRestarts
    BY DEF Allowed
  <2> HIDE DEF S
  <2> QED BY <1>1, <2>1, <2>2, <2>3
<1>3. w.ages[k] = r[k] /\ r[k] <= r[MaxRestarts]
  BY <1>1 DEF Remembers
<1>4. w.ages[k] \in Nat /\ r[k] \in Nat /\ r[MaxRestarts] \in Nat
  <2>1. k \in 1..MaxRestarts+1 /\ MaxRestarts \in 1..MaxRestarts+1
    BY <1>1
  <2> QED BY <2>1, <1>1 DEF Info
<1>5. Newest(r, MaxRestarts + 1)[MaxRestarts + 1] = r[MaxRestarts]
  BY <1>1 DEF Newest
<1> QED BY <1>1, <1>2, <1>3, <1>4, <1>5

\* A restart that is allowed: of a worker without process, others untouched.
LEMMA RestartInv ==
  ASSUME Inv, NEW i \in Index, NEW w \in [Index -> Info], NEW pr \in [Pid -> Process],
         Tracks(w, pr), w[i].pid = NoPid, Allowed(w[i]),
         \A j \in Index : w[j].ages = workers[j].ages, loop \notin {"spawn", "done"},
         Restart(i, w, pr), UNCHANGED <<desired, flags>>,
         loop' = loop, cursor' \in 0..MaxWorkers
  PROVE  Inv'
<1> DEFINE v == [w EXCEPT ![i] = Recorded(@)]
<1>1. w[i] \in Info /\ w[i].ages \in [1..MaxRestarts -> Ages]
      /\ restarts[i] \in [1..MaxRestarts+1 -> Ages]
      /\ Remembers(w[i].ages, restarts[i])
  BY DEF Inv, TypeOK, Info
<1>2. /\ Newest(w[i].ages, MaxRestarts) \in [1..MaxRestarts -> Ages]
      /\ Newest(restarts[i], MaxRestarts + 1) \in [1..MaxRestarts+1 -> Ages]
      /\ Remembers(Newest(w[i].ages, MaxRestarts), Newest(restarts[i], MaxRestarts + 1))
  BY <1>1, RemembersNewest
<1>3. /\ Recorded(w[i]) \in Info /\ Recorded(w[i]).pid = NoPid
      /\ Recorded(w[i]).ages = Newest(w[i].ages, MaxRestarts)
  <2>1. \A x \in Info, a \in [1..MaxRestarts -> Ages] :
          /\ [x EXCEPT !.ages = a, !.limited = FALSE] \in Info
          /\ [x EXCEPT !.ages = a, !.limited = FALSE].ages = a
          /\ [x EXCEPT !.ages = a, !.limited = FALSE].pid = x.pid
    BY DEF Info
  <2> DEFINE a == Newest(w[i].ages, MaxRestarts)
  <2>2. Recorded(w[i]) = [w[i] EXCEPT !.ages = a, !.limited = FALSE]
    BY DEF Recorded
  <2>3. a \in [1..MaxRestarts -> Ages]
    BY <1>2
  <2> HIDE DEF a
  <2>4. /\ [w[i] EXCEPT !.ages = a, !.limited = FALSE] \in Info
        /\ [w[i] EXCEPT !.ages = a, !.limited = FALSE].ages = a
        /\ [w[i] EXCEPT !.ages = a, !.limited = FALSE].pid = w[i].pid
    BY <1>1, <2>1, <2>3, Zenon
  <2>5. Recorded(w[i]) \in Info /\ Recorded(w[i]).pid = NoPid /\ Recorded(w[i]).ages = a
    BY <2>2, <2>4, Zenon
  <2> QED BY <2>5 DEF a
<1>4. v \in [Index -> Info] /\ v[i] = Recorded(w[i]) /\ \A j \in Index : j # i => v[j] = w[j]
  BY <1>3
<1>5. Tracks(v, pr)
  BY <1>3, <1>4 DEF Tracks, Process
<1>6. Spawn(i, v, pr) /\ restarts' = [restarts EXCEPT ![i] = Newest(restarts[i], MaxRestarts + 1)]
  BY DEF Restart
<1> HIDE DEF v
<1>7. /\ workers' \in [Index -> Info] /\ proc' \in [Pid -> Process] /\ Tracks(workers', proc')
      /\ \A j \in Index : workers'[j].ages = v[j].ages
  BY <1>3, <1>4, <1>5, <1>6, SpawnTracks
<1>8. TypeOK'
  <2>1. unborn' \subseteq Index
    BY <1>3, <1>4, <1>5, <1>6, SpawnTracks DEF Inv, TypeOK
  <2> QED BY <2>1, <1>2, <1>6, <1>7 DEF Inv, TypeOK, flags
<1>9. ASSUME NEW j \in Index
      PROVE  Remembers(workers'[j].ages, restarts'[j]) /\ restarts'[j][MaxRestarts + 1] > Window
  <2>1. CASE j = i
    <3>1. /\ restarts'[j] = Newest(restarts[i], MaxRestarts + 1)
          /\ workers'[j].ages = Newest(w[i].ages, MaxRestarts)
      BY <2>1, <1>3, <1>4, <1>6, <1>7 DEF Inv, TypeOK
    <3> QED BY <3>1, <1>1, <1>2, AllowedPast
  <2>2. CASE j # i
    <3>1. restarts'[j] = restarts[j] /\ workers'[j].ages = workers[j].ages
      BY <2>2, <1>4, <1>6, <1>7 DEF Inv, TypeOK
    <3> QED BY <3>1 DEF Inv, RestartsLimited
  <2> QED BY <2>1, <2>2
<1>10. OneProcessPerIndex'
  BY <1>7, TracksOne DEF Tracks, OneProcessPerIndex
<1> QED BY <1>7, <1>8, <1>9, <1>10 DEF Inv, Unspawned, RestartsLimited, NobodyLeft

-----------------------------------------------------------------------------
(* The steps                                                               *)

LEMMA InitInv == Init => Inv
<1> SUFFICES ASSUME Init PROVE Inv
  OBVIOUS
<1>1. /\ Window + 1 \in Ages /\ MaxRestarts + 1 \in 1..MaxRestarts+1 /\ Window + 1 > Window
      /\ 1..MaxRestarts \subseteq 1..MaxRestarts+1
      /\ 0 \in 0..MaxWorkers
  BY SupervisorAssumption DEF Ages
<1>2. TypeOK
  BY <1>1, Records DEF Init, TypeOK, Info
<1>3. Tracks(workers, proc) /\ OneProcessPerIndex
  BY Records DEF Init, Tracks, OneProcessPerIndex
<1>4. \A i \in Index : Remembers(workers[i].ages, restarts[i])
  <2> DEFINE past == Window + 1
  <2>1. past <= past
    BY SupervisorAssumption
  <2>2. /\ \A i \in Index : workers[i].ages = [k \in 1..MaxRestarts |-> past]
        /\ \A i \in Index : restarts[i] = [k \in 1..MaxRestarts+1 |-> past]
    BY DEF Init
  <2> HIDE DEF past
  <2> SUFFICES ASSUME NEW i \in Index PROVE Remembers(workers[i].ages, restarts[i])
    OBVIOUS
  <2>3. \A k \in 1..MaxRestarts : workers[i].ages[k] = past
    BY <2>2
  <2>4. \A k \in 1..MaxRestarts+1 : restarts[i][k] = past
    BY <2>2
  <2>5. \A j, k \in 1..MaxRestarts+1 : restarts[i][j] <= restarts[i][k]
    BY <2>1, <2>4
  <2> QED BY <2>3, <2>4, <2>5, <1>1 DEF Remembers
<1> QED BY <1>1, <1>2, <1>3, <1>4 DEF Init, Inv, Unspawned, RestartsLimited, NobodyLeft

\* Nobody comes or goes, and no restart is made.
LEMMA Quiet ==
  ASSUME Inv, workers' \in [Index -> Info], proc' \in [Pid -> Process],
         desired' \in 1..MaxWorkers, flags' \in BOOLEAN \X BOOLEAN \X BOOLEAN,
         \A i \in Index : /\ workers'[i].pid = workers[i].pid
                          /\ workers'[i].ages = workers[i].ages,
         \A p \in Pid : /\ proc'[p].idx = proc[p].idx
                        /\ proc'[p].phase = "none" <=> proc[p].phase = "none",
         UNCHANGED <<restarts, unborn>>, cursor' \in 0..MaxWorkers,
         loop' \in {"spawn", "head", "reap", "limits", "reload", "grow", "usr1", "stop",
                    "stopping", "done", "dead"},
         loop' = "done" => loop = "done",
         loop' = "spawn" => loop = "spawn" /\ cursor' = cursor
  PROVE  Inv'
<1>1. TypeOK'
  BY DEF Inv, TypeOK, flags
<1>2. Tracks(workers', proc')
  <2>1. \A p \in Pid : proc[p].idx \in Index
    BY DEF Inv, TypeOK, Process
  <2>2. \A i \in Index : workers[i].pid \in Pid \cup {NoPid}
    BY DEF Inv, TypeOK, Info
  <2> QED BY <2>1, <2>2, TracksSame DEF Inv
<1>3. OneProcessPerIndex'
  BY <1>2 DEF Tracks, OneProcessPerIndex
<1>4. Unspawned' /\ NobodyLeft'
  BY DEF Inv, Unspawned, NobodyLeft
<1> QED BY <1>1, <1>2, <1>3, <1>4 DEF Inv, RestartsLimited

\* The same, of a step that changes processes only.
LEMMA Children ==
  ASSUME Inv, proc' \in [Pid -> Process], UNCHANGED <<workers, desired, flags, cursor, restarts, unborn>>,
         \A p \in Pid : /\ proc'[p].idx = proc[p].idx
                        /\ proc'[p].phase = "none" <=> proc[p].phase = "none",
         loop' = loop \/ loop' \in {"head", "stopping", "dead"}
  PROVE  Inv'
<1>1. loop' \in {"spawn", "head", "reap", "limits", "reload", "grow", "usr1", "stop",
                 "stopping", "done", "dead"}
  BY DEF Inv, TypeOK
<1> QED BY <1>1, Quiet DEF Inv, TypeOK, flags

\* A process that is spawned for an index without one.
LEMMA SpawnInv ==
  ASSUME Inv, NEW i \in Index, workers[i].pid = NoPid, Spawn(i, workers, proc),
         UNCHANGED <<desired, flags, loop, restarts>>, loop # "done",
         cursor' \in 0..MaxWorkers, loop = "spawn" => i = cursor /\ cursor' = cursor + 1
  PROVE  Inv'
<1>1. /\ workers' \in [Index -> Info] /\ proc' \in [Pid -> Process]
      /\ Tracks(workers', proc')
      /\ \A j \in Index : workers'[j].ages = workers[j].ages
      /\ \A j \in Index : j # i => workers'[j] = workers[j]
      /\ unborn' \subseteq Index
  BY SpawnTracks DEF Inv, TypeOK
<1>2. TypeOK'
  BY <1>1 DEF Inv, TypeOK, flags
<1>3. OneProcessPerIndex'
  BY <1>1 DEF Tracks, OneProcessPerIndex
<1>4. Unspawned'
  <2> SUFFICES ASSUME loop = "spawn", NEW j \in Index, j >= cursor'
               PROVE  workers'[j].pid = NoPid
    BY DEF Unspawned
  <2>1. j # i /\ j >= cursor
    BY SupervisorAssumption DEF Inv, TypeOK, Index
  <2> QED BY <1>1, <2>1 DEF Inv, Unspawned
<1> QED BY <1>1, <1>2, <1>3, <1>4 DEF Inv, RestartsLimited, NobodyLeft

LEMMA SpawnAllInv == ASSUME Inv, SpawnAll PROVE Inv'
<1>1. CASE cursor < desired /\ ~stop
  <2>1. cursor \in Index /\ cursor + 1 \in 0..MaxWorkers
    BY <1>1, SupervisorAssumption DEF Inv, TypeOK, Index
  <2>2. workers[cursor].pid = NoPid
    BY <2>1 DEF SpawnAll, Inv, Unspawned, Index
  <2> QED BY <1>1, <2>1, <2>2, SpawnInv DEF SpawnAll, flags
<1>2. CASE ~(cursor < desired /\ ~stop)
  <2>1. 0 \in 0..MaxWorkers
    BY SupervisorAssumption
  <2> QED BY <1>2, <2>1, Quiet DEF SpawnAll, flags, fleet, Inv, TypeOK
<1> QED BY <1>1, <1>2

\* A step of the loop that only moves on.
LEMMA MovesInv ==
  ASSUME Inv, LeaveLoop \/ ReapedAll \/ NoReload \/ ReloadFails
  PROVE  Inv'
<1>1. 0 \in 0..MaxWorkers
  BY SupervisorAssumption
<1>2. /\ UNCHANGED <<workers, desired, proc, restarts, unborn>>
      /\ flags' \in BOOLEAN \X BOOLEAN \X BOOLEAN /\ cursor' \in 0..MaxWorkers
      /\ loop' \in {"stop", "reap", "limits", "usr1", "head"}
  BY <1>1 DEF LeaveLoop, ReapedAll, NoReload, ReloadFails, flags, fleet, Inv, TypeOK
<1> QED BY <1>2, Quiet DEF Inv, TypeOK

\* A reaped process leaves the record of its index; a worker that is wanted is
\* restarted if the limit allows it.
LEMMA ReapInv == ASSUME Inv, NEW p \in Pid, Reap(p) PROVE Inv'
<1> DEFINE pr == [proc EXCEPT ![p] = NoProc]
           S  == {i \in Index : workers[i].pid = p}
<1>1. proc[p].phase = "zombie" /\ proc[p].idx \in Index /\ loop = "reap"
      /\ UNCHANGED <<desired, flags, loop, cursor>>
  BY DEF Reap, Zombies, Inv, TypeOK, Process
<1>2. proc[p].idx \in S
  BY <1>1 DEF Inv, Tracks
<1>3. PICK i \in S :
        LET w == [workers EXCEPT ![i].pid = NoPid]
        IN  IF ~stop /\ i < desired /\ ~w[i].retiring
            THEN IF Allowed(w[i])
                 THEN Restart(i, w, pr)
                 ELSE /\ workers' = [w EXCEPT ![i].limited = TRUE]
                      /\ proc' = pr /\ UNCHANGED <<restarts, unborn>>
            ELSE workers' = w /\ proc' = pr /\ UNCHANGED <<restarts, unborn>>
  BY <1>2 DEF Reap, Limited
<1> DEFINE w == [workers EXCEPT ![i].pid = NoPid]
<1>4. i \in Index /\ workers[i].pid = p /\ workers \in [Index -> Info] /\ proc \in [Pid -> Process]
  BY DEF Inv, TypeOK
<1>5. pr \in [Pid -> Process]
  BY <1>4, Records
<1>6. /\ w \in [Index -> Info] /\ w[i].pid = NoPid
      /\ \A j \in Index : w[j].ages = workers[j].ages
  BY <1>4 DEF Info
<1>7. Tracks(w, pr)
  BY <1>4, TracksLess DEF Inv
<1>8. cursor \in 0..MaxWorkers
  BY DEF Inv, TypeOK
<1>9. CASE Restart(i, w, pr) /\ Allowed(w[i])
  <2> HIDE DEF w, pr
  <2> QED BY <1>1, <1>4, <1>5, <1>6, <1>7, <1>8, <1>9, RestartInv
<1>10. CASE /\ proc' = pr /\ UNCHANGED <<restarts, unborn>>
            /\ workers' = w \/ workers' = [w EXCEPT ![i].limited = TRUE]
  <2> HIDE DEF w, pr
  <2>1. /\ workers' \in [Index -> Info]
        /\ \A j \in Index : workers'[j].pid = w[j].pid /\ workers'[j].ages = w[j].ages
    <3>1. CASE workers' = w
      BY <3>1, <1>6
    <3>2. CASE workers' = [w EXCEPT ![i].limited = TRUE]
      <4>1. w[i] \in Info
        BY <1>4, <1>6
      <4>2. /\ [w[i] EXCEPT !.limited = TRUE] \in Info
            /\ [w[i] EXCEPT !.limited = TRUE].pid = w[i].pid
            /\ [w[i] EXCEPT !.limited = TRUE].ages = w[i].ages
        BY <4>1 DEF Info
      <4> QED BY <3>2, <4>2, <1>4, <1>6
    <3> QED BY <1>10, <3>1, <3>2
  <2>2. Tracks(workers', proc') /\ proc' \in [Pid -> Process]
    BY <2>1, <1>5, <1>7, <1>10 DEF Tracks, Process
  <2>3. OneProcessPerIndex'
    BY <2>2 DEF Tracks, OneProcessPerIndex
  <2>4. TypeOK'
    BY <2>1, <2>2, <1>1, <1>10 DEF Inv, TypeOK, flags
  <2> QED BY <2>1, <2>2, <2>3, <2>4, <1>1, <1>6, <1>10
          DEF Inv, Unspawned, RestartsLimited, NobodyLeft
<1> QED BY <1>3, <1>9, <1>10

LEMMA LimitsInv == ASSUME Inv, Limits PROVE Inv'
<1>1. CASE cursor < desired /\ workers[cursor].limited /\ workers[cursor].pid = NoPid
             /\ ~workers[cursor].retiring /\ ~stop /\ Allowed(workers[cursor])
  <2>1. cursor \in Index /\ cursor + 1 \in 0..MaxWorkers
    BY <1>1, SupervisorAssumption DEF Inv, TypeOK, Index
  <2>2. Restart(cursor, workers, proc) /\ UNCHANGED <<desired, flags, loop>>
        /\ loop = "limits" /\ cursor' = cursor + 1
    BY <1>1 DEF Limits
  <2> QED BY <1>1, <2>1, <2>2, RestartInv DEF Inv, TypeOK
<1>2. CASE UNCHANGED <<fleet, restarts>>
  <2>1. cursor' \in 0..MaxWorkers
    BY SupervisorAssumption DEF Limits, Inv, TypeOK
  <2> QED BY <1>2, <2>1, Quiet DEF Limits, Inv, TypeOK, flags, fleet
<1> QED BY <1>1, <1>2 DEF Limits

LEMMA GrowInv == ASSUME Inv, Grow PROVE Inv'
<1>1. CASE cursor < desired /\ workers[cursor].pid = NoPid
  <2>1. cursor \in Index /\ cursor + 1 \in 0..MaxWorkers
    BY <1>1, SupervisorAssumption DEF Inv, TypeOK, Index
  <2>2. Spawn(cursor, workers, proc) /\ UNCHANGED <<desired, flags, loop, restarts>>
        /\ loop = "grow" /\ cursor' = cursor + 1
    BY <1>1 DEF Grow
  <2> QED BY <1>1, <2>1, <2>2, SpawnInv
<1>2. CASE UNCHANGED fleet
  <2>1. cursor' \in 0..MaxWorkers /\ UNCHANGED restarts
    BY SupervisorAssumption DEF Grow, Inv, TypeOK
  <2> QED BY <1>2, <2>1, Quiet DEF Grow, Inv, TypeOK, flags, fleet
<1> QED BY <1>1, <1>2 DEF Grow

\* What a reload sends a child leaves it a process of its index.
LEMMA ReloadInv ==
  ASSUME Inv, NEW n \in 1..MaxWorkers, NEW bound \in BOOLEAN, Reload(n, bound)
  PROVE  Inv'
<1>1. \A i \in Index : /\ Counted(n)[i] \in Info
                       /\ Counted(n)[i].pid = workers[i].pid /\ Counted(n)[i].ages = workers[i].ages
  <2> SUFFICES ASSUME NEW i \in Index
               PROVE  /\ Counted(n)[i] \in Info
                      /\ Counted(n)[i].pid = workers[i].pid /\ Counted(n)[i].ages = workers[i].ages
    OBVIOUS
  <2>1. workers[i] \in Info
    BY DEF Inv, TypeOK
  <2>2. \A x \in Info : /\ [x EXCEPT !.retiring = TRUE, !.limited = FALSE] \in Info
                        /\ [x EXCEPT !.retiring = TRUE, !.limited = FALSE].pid = x.pid
                        /\ [x EXCEPT !.retiring = TRUE, !.limited = FALSE].ages = x.ages
                        /\ [x EXCEPT !.retiring = FALSE] \in Info
                        /\ [x EXCEPT !.retiring = FALSE].pid = x.pid
                        /\ [x EXCEPT !.retiring = FALSE].ages = x.ages
    BY DEF Info
  <2>3. Counted(n)[i] \in {workers[i], [workers[i] EXCEPT !.retiring = FALSE],
                           [workers[i] EXCEPT !.retiring = TRUE, !.limited = FALSE]}
    BY DEF Counted
  <2> QED BY <2>1, <2>2, <2>3
<1>2. workers' = Counted(n) /\ workers' \in [Index -> Info]
  BY <1>1 DEF Reload, Counted
<1>3. ASSUME NEW p \in Pid
      PROVE  /\ proc'[p] \in Process /\ proc'[p].idx = proc[p].idx
             /\ proc'[p].phase = "none" <=> proc[p].phase = "none"
  <2>1. proc[p] \in Process
    BY DEF Inv, TypeOK
  <2>2. CASE proc[p].phase \in {"none", "zombie"}
    BY <2>1, <2>2 DEF Reload
  <2>3. CASE proc[p].phase \notin {"none", "zombie"}
    <3> DEFINE q == [proc[p] EXCEPT !.cfg = FALSE]
    <3>1. q \in Process /\ q.idx = proc[p].idx /\ q.phase = proc[p].phase
      BY <2>1 DEF Process
    <3>2. proc'[p] = Signalled(p, n, bound)
      BY <2>3 DEF Reload
    <3> DEFINE first == IF q.idx \in n..desired-1 THEN Terminated(q) ELSE q
    <3>3. Signalled(p, n, bound) = IF p \notin Tracked THEN q
                                   ELSE IF bound THEN Terminated(first) ELSE HungUp(first)
      BY DEF Signalled
    <3> HIDE DEF q
    <3>4. /\ first \in Process /\ first.idx = proc[p].idx
          /\ first.phase = "none" <=> proc[p].phase = "none"
      BY <3>1, SignalKeeps
    <3> HIDE DEF first
    <3>5. /\ Terminated(first) \in Process /\ HungUp(first) \in Process
          /\ Terminated(first).idx = proc[p].idx /\ HungUp(first).idx = proc[p].idx
          /\ Terminated(first).phase = "none" <=> proc[p].phase = "none"
          /\ HungUp(first).phase = "none" <=> proc[p].phase = "none"
      BY <3>4, SignalKeeps
    <3> QED BY <3>1, <3>2, <3>3, <3>5
  <2> QED BY <2>2, <2>3
<1>4. proc' \in [Pid -> Process]
  BY <1>3 DEF Reload
<1>5. /\ desired' \in 1..MaxWorkers /\ flags' \in BOOLEAN \X BOOLEAN \X BOOLEAN
      /\ UNCHANGED <<restarts, unborn>> /\ cursor' \in 0..MaxWorkers /\ loop' \in {"grow", "usr1"}
  <2>1. desired' \in 1..MaxWorkers /\ UNCHANGED <<restarts, unborn>> /\ loop' \in {"grow", "usr1"}
    BY DEF Reload
  <2>2. flags' \in BOOLEAN \X BOOLEAN \X BOOLEAN
    BY DEF Reload, Inv, TypeOK, flags
  <2>3. cursor' \in {desired, cursor} /\ desired \in 0..MaxWorkers
    BY SupervisorAssumption DEF Reload, Inv, TypeOK
  <2> QED BY <2>1, <2>2, <2>3 DEF Inv, TypeOK
<1> QED BY <1>1, <1>2, <1>3, <1>4, <1>5, Quiet

\* SIGTERM for all that are recorded.
LEMMA BroadcastSame ==
  ASSUME Inv, Broadcast
  PROVE  /\ proc' \in [Pid -> Process]
         /\ \A p \in Pid : /\ proc'[p].idx = proc[p].idx
                           /\ proc'[p].phase = "none" <=> proc[p].phase = "none"
<1>1. proc \in [Pid -> Process]
  BY DEF Inv, TypeOK
<1> QED BY <1>1, SignalKeeps DEF Broadcast

LEMMA BroadcastsInv == ASSUME Inv, RestartWorkers \/ Stop PROVE Inv'
<1>1. /\ proc' \in [Pid -> Process]
      /\ \A p \in Pid : /\ proc'[p].idx = proc[p].idx
                        /\ proc'[p].phase = "none" <=> proc[p].phase = "none"
  <2>1. Broadcast \/ proc' = proc
    BY DEF RestartWorkers, Stop
  <2> QED BY <2>1, BroadcastSame DEF Inv, TypeOK
<1>2. /\ flags' \in BOOLEAN \X BOOLEAN \X BOOLEAN
      /\ UNCHANGED <<workers, desired, cursor, restarts, unborn>>
      /\ loop' \in {"head", "stopping"}
  BY DEF RestartWorkers, Stop, flags, Inv, TypeOK
<1> QED BY <1>1, <1>2, Quiet DEF Inv, TypeOK

LEMMA StopReapInv == ASSUME Inv, NEW p \in Pid, StopReap(p) PROVE Inv'
<1> DEFINE i == proc[p].idx
<1>1. i \in Index /\ workers[i].pid = p /\ workers \in [Index -> Info] /\ proc \in [Pid -> Process]
      /\ loop = "stopping" /\ UNCHANGED <<desired, flags, loop, cursor, restarts, unborn>>
  BY DEF StopReap, Zombies, Inv, TypeOK, Process, Tracks
<1>2. \A j \in Index : workers[j].pid = p => j = i
  BY SupervisorAssumption DEF Inv, Tracks
<1>3. workers' = [workers EXCEPT ![i].pid = NoPid]
  <2>1. \A j \in Index :
          Untracked(p)[j] = IF j = i THEN [workers[j] EXCEPT !.pid = NoPid] ELSE workers[j]
    BY <1>1, <1>2 DEF Untracked
  <2>2. Untracked(p) =
          [j \in Index |-> IF j = i THEN [workers[j] EXCEPT !.pid = NoPid] ELSE workers[j]]
    BY <2>1 DEF Untracked
  <2> QED BY <1>1, <2>2 DEF StopReap
<1>4. proc' = [proc EXCEPT ![p] = NoProc]
  BY DEF StopReap
<1>5. Tracks(workers', proc')
  BY <1>1, <1>3, <1>4, TracksLess DEF Inv
<1>6. workers' \in [Index -> Info] /\ \A j \in Index : workers'[j].ages = workers[j].ages
  BY <1>1, <1>3 DEF Info
<1>7. proc' \in [Pid -> Process]
  BY <1>1, <1>4, Records
<1>8. TypeOK' /\ OneProcessPerIndex'
  BY <1>1, <1>5, <1>6, <1>7 DEF Inv, TypeOK, flags, Tracks, OneProcessPerIndex
<1> QED BY <1>1, <1>5, <1>6, <1>8 DEF Inv, Unspawned, RestartsLimited, NobodyLeft

\* Every process is recorded, so that nobody is left when the recorded ones are
\* killed and waited for.
LEMMA StopTimeoutInv == ASSUME Inv, StopTimeout PROVE Inv'
<1>1. ASSUME NEW p \in Pid
      PROVE  proc'[p] \in Process /\ proc'[p].phase = "none"
  <2>1. proc[p] \in Process /\ p # NoPid
    BY SupervisorAssumption DEF Inv, TypeOK
  <2>2. CASE p \in Tracked
    BY <2>2, Records DEF StopTimeout
  <2>3. CASE p \notin Tracked
    <3>1. proc[p].phase = "none"
      BY <2>1, <2>3 DEF Inv, Tracks, Tracked, TrackedBy, Process
    <3> QED BY <2>1, <2>3, <3>1 DEF StopTimeout
  <2> QED BY <2>2, <2>3
<1>2. proc' \in [Pid -> Process]
  BY <1>1 DEF StopTimeout
<1>3. /\ workers' \in [Index -> Info]
      /\ \A i \in Index : workers'[i].pid = NoPid /\ workers'[i].ages = workers[i].ages
  <2>1. \A x \in Info : /\ [x EXCEPT !.pid = NoPid] \in Info
                        /\ [x EXCEPT !.pid = NoPid].pid = NoPid
                        /\ [x EXCEPT !.pid = NoPid].ages = x.ages
    BY DEF Info
  <2>2. \A i \in Index : workers[i] \in Info /\ workers'[i] = [workers[i] EXCEPT !.pid = NoPid]
    BY DEF StopTimeout, Inv, TypeOK
  <2>3. workers' = [i \in Index |-> [workers[i] EXCEPT !.pid = NoPid]]
    BY DEF StopTimeout
  <2> QED BY <2>1, <2>2, <2>3
<1>4. loop' = "done" /\ UNCHANGED <<desired, flags, cursor, restarts, unborn>>
  BY DEF StopTimeout
<1>5. TypeOK'
  BY <1>2, <1>3, <1>4 DEF Inv, TypeOK, flags
<1>6. Tracks(workers', proc') /\ OneProcessPerIndex'
  BY <1>1, <1>3 DEF Tracks, OneProcessPerIndex
<1> QED BY <1>1, <1>3, <1>4, <1>5, <1>6 DEF Inv, Unspawned, RestartsLimited, NobodyLeft

LEMMA SuperviseInv == ASSUME Inv, Supervise PROVE Inv'
<1>1. CASE SpawnAll
  BY <1>1, SpawnAllInv
<1>2. CASE LeaveLoop \/ ReapedAll \/ NoReload \/ ReloadFails
  BY <1>2, MovesInv
<1>3. CASE Limits
  BY <1>3, LimitsInv
<1>4. CASE Grow
  BY <1>4, GrowInv
<1>5. CASE RestartWorkers \/ Stop
  BY <1>5, BroadcastsInv
<1>6. CASE StopTimeout
  BY <1>6, StopTimeoutInv
<1>7. CASE \E p \in Pid : Reap(p) \/ StopReap(p)
  BY <1>7, ReapInv, StopReapInv
<1>8. CASE \E n \in 1..MaxWorkers, bound \in {BindChanges, FALSE} : Reload(n, bound)
  <2>1. PICK n \in 1..MaxWorkers, bound \in {BindChanges, FALSE} : Reload(n, bound)
    BY <1>8
  <2>2. bound \in BOOLEAN
    BY SupervisorAssumption
  <2> QED BY <2>1, <2>2, ReloadInv
<1> QED BY <1>1, <1>2, <1>3, <1>4, <1>5, <1>6, <1>7, <1>8 DEF Supervise

\* A child goes on, or exits and waits to be reaped: it keeps its index.
LEMMA BecomeSame ==
  ASSUME Inv, NEW p \in Pid, NEW q \in Process, Become(p, q),
         q.idx = proc[p].idx, q.phase # "none", proc[p].phase # "none"
  PROVE  /\ proc' \in [Pid -> Process]
         /\ \A o \in Pid : /\ proc'[o].idx = proc[o].idx
                           /\ proc'[o].phase = "none" <=> proc[o].phase = "none"
BY DEF Become, Inv, TypeOK

LEMMA ExitsRecord ==
  ASSUME Inv, NEW p \in Pid
  PROVE  Exits(p) \in Process /\ Exits(p).idx = proc[p].idx /\ Exits(p).phase = "zombie"
<1>1. proc[p].idx \in Index
  BY DEF Inv, TypeOK, Process
<1>2. \A q \in Process, i \in Index :
        /\ [q EXCEPT !.idx = i, !.phase = "zombie"] \in Process
        /\ [q EXCEPT !.idx = i, !.phase = "zombie"].idx = i
        /\ [q EXCEPT !.idx = i, !.phase = "zombie"].phase = "zombie"
  BY DEF Process
<1> DEFINE i == proc[p].idx
<1>3. Exits(p) = [NoProc EXCEPT !.idx = i, !.phase = "zombie"]
  BY DEF Exits
<1> HIDE DEF i
<1>4. i \in Index /\ NoProc \in Process
  BY <1>1, Records DEF i
<1>5. /\ [NoProc EXCEPT !.idx = i, !.phase = "zombie"] \in Process
      /\ [NoProc EXCEPT !.idx = i, !.phase = "zombie"].idx = i
      /\ [NoProc EXCEPT !.idx = i, !.phase = "zombie"].phase = "zombie"
  BY <1>2, <1>4, Zenon
<1>6. Exits(p) \in Process /\ Exits(p).idx = i /\ Exits(p).phase = "zombie"
  BY <1>3, <1>5, Zenon
<1> QED BY <1>6 DEF i

LEMMA WorkInv == ASSUME Inv, NEW p \in Pid, Work(p) PROVE Inv'
<1>1. \A q \in Process :
        /\ \A ph \in {"handlers", "armed", "starting", "running"} :
             /\ [q EXCEPT !.phase = ph] \in Process
             /\ [q EXCEPT !.phase = ph].idx = q.idx /\ [q EXCEPT !.phase = ph].phase = ph
        /\ [q EXCEPT !.hup = FALSE, !.cfg = TRUE] \in Process
        /\ [q EXCEPT !.hup = FALSE, !.cfg = TRUE].idx = q.idx
        /\ [q EXCEPT !.hup = FALSE, !.cfg = TRUE].phase = q.phase
  BY DEF Process
<1>2. proc[p] \in Process
  BY DEF Inv, TypeOK
<1>3. PICK q \in Process : Become(p, q) /\ q.idx = proc[p].idx /\ q.phase # "none"
                           /\ proc[p].phase # "none"
  <2>1. CASE RestoreHandlers(p)
    BY <2>1, <1>1, <1>2 DEF RestoreHandlers
  <2>2. CASE ArmParentDeath(p)
    BY <2>2, <1>1, <1>2 DEF ArmParentDeath
  <2>3. CASE CheckParent(p)
    BY <2>3, <1>1, <1>2, ExitsRecord DEF CheckParent
  <2>4. CASE EnterLoop(p)
    BY <2>4, <1>1, <1>2 DEF EnterLoop
  <2>5. CASE Serve(p)
    <3>1. CASE Become(p, Exits(p))
      BY <2>5, <3>1, ExitsRecord DEF Serve
    <3>2. CASE Become(p, [proc[p] EXCEPT !.hup = FALSE, !.cfg = TRUE])
      <4>1. [proc[p] EXCEPT !.hup = FALSE, !.cfg = TRUE].phase = "running"
        BY <2>5, <1>1, <1>2 DEF Serve
      <4> QED BY <2>5, <3>2, <4>1, <1>1, <1>2 DEF Serve
    <3> QED BY <2>5, <3>1, <3>2 DEF Serve
  <2> QED BY <2>1, <2>2, <2>3, <2>4, <2>5 DEF Work
<1>4. UNCHANGED <<workers, desired, flags, loop, cursor, restarts, unborn>>
  BY DEF Work
<1> QED BY <1>3, <1>4, BecomeSame, Children

LEMMA WorkerDiesInv == ASSUME Inv, WorkerDies PROVE Inv'
<1>1. PICK p \in Pid : Alive(p) /\ Become(p, Exits(p))
  BY DEF WorkerDies, Crash
<1>2. proc[p].phase # "none"
  BY <1>1 DEF Alive
<1>3. UNCHANGED <<workers, desired, flags, loop, cursor, restarts, unborn>>
  BY DEF WorkerDies
<1> QED BY <1>1, <1>2, <1>3, ExitsRecord, BecomeSame, Children

LEMMA SignalInv == ASSUME Inv, Signal PROVE Inv'
<1>1. UNCHANGED <<workers, desired, loop, cursor, proc, restarts, unborn>>
      /\ flags' \in BOOLEAN \X BOOLEAN \X BOOLEAN
  BY DEF Signal, Inv, TypeOK, flags
<1> QED BY <1>1, Quiet DEF Inv, TypeOK

LEMMA SupervisorDiesInv == ASSUME Inv, SupervisorDies PROVE Inv'
<1>1. proc \in [Pid -> Process]
  BY DEF Inv, TypeOK
<1>2. /\ proc' \in [Pid -> Process]
      /\ \A p \in Pid : /\ proc'[p].idx = proc[p].idx
                        /\ proc'[p].phase = "none" <=> proc[p].phase = "none"
  BY <1>1, SignalKeeps DEF SupervisorDies
<1> QED BY <1>2, Children DEF SupervisorDies

LEMMA TickInv == ASSUME Inv, Tick PROVE Inv'
<1> DEFINE older(a) == [k \in 1..MaxRestarts |-> Older(a[k])]
           history(r) == [k \in 1..MaxRestarts+1 |-> Older(r[k])]
<1>1. ASSUME NEW i \in Index
      PROVE  /\ older(workers[i].ages) \in [1..MaxRestarts -> Ages]
             /\ history(restarts[i]) \in [1..MaxRestarts+1 -> Ages]
             /\ Remembers(older(workers[i].ages), history(restarts[i]))
  BY RemembersOlder DEF Inv, TypeOK, Info
<1>2. /\ workers' = [i \in Index |-> [workers[i] EXCEPT !.ages = older(workers[i].ages)]]
      /\ restarts' = [i \in Index |-> history(restarts[i])]
      /\ UNCHANGED <<desired, flags, loop, cursor, proc, unborn>> /\ loop = "head"
  BY DEF Tick
<1>3. \A i \in Index : restarts'[i][MaxRestarts + 1] > Window
  <2> SUFFICES ASSUME NEW i \in Index PROVE restarts'[i][MaxRestarts + 1] > Window
    OBVIOUS
  <2>1. restarts[i][MaxRestarts + 1] > Window /\ MaxRestarts + 1 \in 1..MaxRestarts+1
    BY SupervisorAssumption DEF Inv, RestartsLimited
  <2>2. Older(restarts[i][MaxRestarts + 1]) = restarts[i][MaxRestarts + 1]
    BY <2>1 DEF Older
  <2> QED BY <1>2, <2>1, <2>2
<1> HIDE DEF older, history
<1>4. ASSUME NEW i \in Index
      PROVE  /\ workers'[i] \in Info /\ workers'[i].pid = workers[i].pid
             /\ workers'[i].ages = older(workers[i].ages)
  <2>1. workers[i] \in Info
    BY DEF Inv, TypeOK
  <2>2. \A x \in Info, a \in [1..MaxRestarts -> Ages] :
          [x EXCEPT !.ages = a] \in Info /\ [x EXCEPT !.ages = a].pid = x.pid
          /\ [x EXCEPT !.ages = a].ages = a
    BY DEF Info
  <2> QED BY <2>1, <2>2, <1>1, <1>2
<1>5. workers' \in [Index -> Info]
  BY <1>2, <1>4
<1>6. TypeOK'
  BY <1>1, <1>2, <1>5 DEF Inv, TypeOK, flags
<1>7. Tracks(workers', proc') /\ OneProcessPerIndex'
  BY <1>2, <1>4 DEF Inv, Tracks, TypeOK, Process, Info, OneProcessPerIndex
<1>8. \A i \in Index : Remembers(workers'[i].ages, restarts'[i])
  BY <1>1, <1>2, <1>4
<1> QED BY <1>2, <1>3, <1>6, <1>7, <1>8 DEF Inv, Unspawned, RestartsLimited, NobodyLeft

-----------------------------------------------------------------------------
\* An index has at most one process, which is recorded for it, no index is
\* restarted more often than the limit allows, and nobody is left when the
\* supervisor returns (supervisor.c: spawn_worker, restart_allowed,
\* supervisor_run), whatever signals come, forks fail and processes die when.
THEOREM SupervisorInvariant == Spec => []Inv
<1>1. Init => Inv
  BY InitInv
<1>2. Inv /\ [Next]_vars => Inv'
  <2> SUFFICES ASSUME Inv, [Next]_vars PROVE Inv'
    OBVIOUS
  <2>1. CASE Supervise
    BY <2>1, SuperviseInv
  <2>2. CASE \E p \in Pid : Work(p)
    BY <2>2, WorkInv
  <2>3. CASE Signal
    BY <2>3, SignalInv
  <2>4. CASE WorkerDies
    BY <2>4, WorkerDiesInv
  <2>5. CASE SupervisorDies
    BY <2>5, SupervisorDiesInv
  <2>6. CASE Tick
    BY <2>6, TickInv
  <2>7. CASE UNCHANGED vars
    BY <2>7, Quiet DEF vars, flags, Inv, TypeOK
  <2> QED BY <2>1, <2>2, <2>3, <2>4, <2>5, <2>6, <2>7 DEF Next
<1> QED BY <1>1, <1>2, PTL DEF Spec

\* Its parts that matter most.
THEOREM SupervisorSafe == Spec => [](OneProcessPerIndex /\ RestartsLimited /\ NobodyLeft)
<1>1. Inv => OneProcessPerIndex /\ RestartsLimited /\ NobodyLeft
  BY DEF Inv
<1> QED BY <1>1, SupervisorInvariant, PTL

-----------------------------------------------------------------------------
(* The notification pipes                                                  *)

\* A process is a worker or the supervisor; writing 0 is writing nothing.
LEMMA Types ==
  /\ Worker = 1..NumWorkers /\ Worker \subseteq Proc /\ Supervisor \in Proc
  /\ Supervisor \notin Worker /\ 0 \notin Worker /\ 1 \in Worker
  /\ Nothing \in [at : 0..NumWorkers, kind : Kind]
BY PipesAssumption DEF Worker, Proc, Kind, Nothing

\* A pipe that is not full has room for a byte of each kind.
LEMMA Room ==
  ASSUME PipesTypeOK, NEW i \in Worker, NEW k \in Kind, Bytes(i) < Cap
  PROVE  pipe[i][k] + 1 \in 0..Cap
<1>1. pipe[i] \in [Kind -> 0..Cap] /\ Cap \in Nat
  BY PipesAssumption DEF PipesTypeOK
<1>2. pipe[i]["update"] \in 0..Cap /\ pipe[i]["disconnect"] \in 0..Cap
  BY <1>1 DEF Kind
<1> QED BY <1>1, <1>2 DEF Bytes, Kind

\* At first the pipes are empty.
LEMMA PipesInitInv == PipesInit => PipesInv
BY Types, PipesAssumption DEF PipesInit, PipesInv, PipesTypeOK, RequestKept, Kind

\* A byte in a pipe that has room: the request is counted when it is owed.
LEMMA WriteInv == ASSUME PipesInv, NEW p \in Proc, Write(p) PROVE PipesInv'
<1> DEFINE i == writing[p].at
           k == writing[p].kind
<1>1. i \in Worker /\ k \in Kind /\ pipe[i] \in [Kind -> 0..Cap]
  BY Types DEF PipesInv, PipesTypeOK, Write
<1>2. pipe' = [pipe EXCEPT ![i] = [pipe[i] EXCEPT ![k] = pipe[i][k] + 1]]
  BY DEF Write
<1>3. pipe[i][k] \in Nat /\ pipe[i][k] + 1 \in 0..Cap
  BY <1>1, Room DEF PipesInv, Write
<1>4. pipe' \in [Worker -> [Kind -> 0..Cap]]
  <2>1. [pipe[i] EXCEPT ![k] = pipe[i][k] + 1] \in [Kind -> 0..Cap]
    BY <1>1, <1>3
  <2> QED BY <1>1, <1>2, <2>1 DEF PipesInv, PipesTypeOK
<1>5. writing' \in [Proc -> [at : 0..NumWorkers, kind : Kind]]
  <2>1. writing[p] \in [at : 0..NumWorkers, kind : Kind] /\ NumWorkers \in Nat
    BY PipesAssumption DEF PipesInv, PipesTypeOK
  <2>2. Following(writing[p]) \in [at : 0..NumWorkers, kind : Kind]
    BY <2>1, Types DEF Following
  <2> QED BY <2>2 DEF PipesInv, PipesTypeOK, Written, Write
<1>6. PipesTypeOK'
  BY <1>1, <1>4, <1>5 DEF PipesInv, PipesTypeOK, Write, Owing
<1>7. RequestKept'
  <2> SUFFICES ASSUME NEW j \in owed' PROVE pipe'[j]["disconnect"] > 0
    BY DEF RequestKept
  <2>1. j \in Worker
    BY <1>6 DEF PipesTypeOK
  <2>2. CASE j # i
    <3>1. j \in owed
      BY <2>2 DEF Write, Owing
    <3> QED BY <2>1, <2>2, <3>1, <1>2 DEF PipesInv, PipesTypeOK, RequestKept
  <2>3. CASE j = i /\ k = "disconnect"
    BY <2>1, <2>3, <1>1, <1>2, <1>3 DEF PipesInv, PipesTypeOK
  <2>4. CASE j = i /\ k # "disconnect"
    <3>1. j \in owed
      BY <2>4 DEF Write, Owing
    <3>2. pipe'[j]["disconnect"] = pipe[j]["disconnect"]
      BY <2>1, <2>4, <1>1, <1>2 DEF PipesInv, PipesTypeOK, Kind
    <3> QED BY <3>1, <3>2 DEF PipesInv, RequestKept
  <2> QED BY <2>2, <2>3, <2>4
<1> QED BY <1>6, <1>7 DEF PipesInv

\* An emptied pipe owes nothing: its worker has handled what it read.
LEMMA DrainInv == ASSUME PipesInv, NEW i \in Worker, Drain(i) PROVE PipesInv'
<1>1. [k \in Kind |-> 0] \in [Kind -> 0..Cap]
  BY PipesAssumption
<1>2. PipesTypeOK'
  BY <1>1 DEF PipesInv, PipesTypeOK, Drain
<1>3. i \notin owed'
  BY DEF PipesInv, RequestKept, Drain
<1>4. RequestKept'
  BY <1>3 DEF PipesInv, PipesTypeOK, RequestKept, Drain
<1> QED BY <1>2, <1>4 DEF PipesInv

\* The others leave the pipes alone.
LEMMA OtherInv ==
  ASSUME PipesInv, PipesTypeOK', UNCHANGED <<pipe, owed>> PROVE PipesInv'
BY DEF PipesInv, RequestKept

LEMMA PipesNextInv == PipesInv /\ [PipesNext]_pipesVars => PipesInv'
<1> SUFFICES ASSUME PipesInv, [PipesNext]_pipesVars PROVE PipesInv'
  OBVIOUS
<1>1. ASSUME NEW p \in Proc, Write(p) PROVE PipesInv'
  BY <1>1, WriteInv
<1>2. ASSUME NEW p \in Proc, NEW k \in Kind, Trigger(p, k) PROVE PipesInv'
  <2>1. PipesTypeOK'
    BY <1>2, PipesAssumption DEF PipesInv, PipesTypeOK, Trigger, Start
  <2> QED BY <1>2, <2>1, OtherInv DEF Trigger
<1>3. ASSUME NEW i \in Worker, Drain(i) PROVE PipesInv'
  BY <1>3, DrainInv
<1>4. ASSUME NEW i \in Worker, Die(i) PROVE PipesInv'
  <2>1. PipesTypeOK'
    BY <1>4, Types DEF PipesInv, PipesTypeOK, Die
  <2> QED BY <1>4, <2>1, OtherInv DEF Die
<1>5. ASSUME NEW i \in Worker, ReapWorker(i) PROVE PipesInv'
  <2>1. Supervisor \in Proc /\ [at |-> 1, kind |-> "update"] \in [at : 0..NumWorkers, kind : Kind]
    BY PipesAssumption DEF Proc, Kind
  <2>2. PipesTypeOK'
    BY <1>5, <2>1 DEF PipesInv, PipesTypeOK, ReapWorker, Start
  <2> QED BY <1>5, <2>2, OtherInv DEF ReapWorker
<1>6. ASSUME NEW i \in Worker, Respawn(i) PROVE PipesInv'
  <2>1. PipesTypeOK'
    BY <1>6 DEF PipesInv, PipesTypeOK, Respawn
  <2> QED BY <1>6, <2>1, OtherInv DEF Respawn
<1>7. CASE UNCHANGED pipesVars
  BY <1>7 DEF pipesVars, PipesInv, PipesTypeOK, RequestKept
<1> QED BY <1>1, <1>2, <1>3, <1>4, <1>5, <1>6, <1>7 DEF PipesNext

\* A request to disconnect a client stays in its worker's pipe until the worker
\* has read it (status_trigger_event), however full the pipes are and whoever
\* dies in between.
THEOREM RequestsKept == PipesSpec => []PipesInv
<1> QED BY PipesInitInv, PipesNextInv, PTL DEF PipesSpec

-----------------------------------------------------------------------------
(* The table of blocked addresses                                          *)

\* A set of positions has a lowest one.
LEMMA LowestIs ==
  ASSUME NEW S \in SUBSET Nat, S # {}
  PROVE  Table!Lowest(S) \in S /\ \A j \in S : Table!Lowest(S) <= j
<1>1. PICK x \in S : \A y \in S : ~ (<<y, x>> \in OpToRel(<, Nat))
  BY NatLessThanWellFounded, WFMin
<1>2. ASSUME NEW y \in S PROVE x <= y
  <2>1. ~(<<y, x>> \in OpToRel(<, Nat))
    BY <1>1
  <2>2. ~(y < x)
    BY <2>1 DEF OpToRel
  <2> QED BY <2>2
<1> QED BY <1>2 DEF Table!Lowest

\* Times are integers, and the new block of an address has time left.
LEMMA Clocks ==
  /\ BlockTime \in Nat /\ MaxWait \in Nat /\ MaxWait < BlockTime
  /\ Table!Least = -MaxWait /\ Table!Least \in Int
  /\ Table!Times = -MaxWait..BlockTime
  /\ NoIp \notin Ip /\ 0 \notin Worker
BY DisconnectsAssumption DEF Table!Least, Table!Times, Worker

\* Entries are numbered from 1.
LEMMA EntriesAre == ASSUME Table!TypeOK PROVE \E n \in Nat \ {0} : Table!Entry = 1..n
<1>1. \E n \in TableSizes : Table!Entry = 1..n
  BY DEF Table!TypeOK
<1>2. TableSizes \subseteq Nat \ {0}
  BY DisconnectsAssumption
<1> QED BY <1>1, <1>2

\* What the type invariant says of an entry and of a call.
LEMMA TableTypes ==
  ASSUME Table!TypeOK
  PROVE  /\ Table!Entry \subseteq Nat \ {0} /\ Table!Entry # {}
         /\ \A i \in Table!Entry : \A j \in 1..i : j \in Table!Entry
         /\ \A i \in Table!Entry : /\ entry[i].ip \in Ip \cup {NoIp} /\ entry[i].left \in Int
                                   /\ entry[i].left >= Table!Least
         /\ \A p \in Worker : call[p].age \in 0..MaxWait
         /\ \A ip \in Ip : until[ip] \in Int /\ until[ip] >= Table!Least
<1>1. PICK n \in Nat \ {0} : Table!Entry = 1..n
  BY EntriesAre
<1>2. 1 \in 1..n /\ 1..n \subseteq Nat \ {0} /\ \A i \in 1..n : \A j \in 1..i : j \in 1..n
  OBVIOUS
<1>3. ASSUME NEW i \in Table!Entry
      PROVE  entry[i].ip \in Ip \cup {NoIp} /\ entry[i].left \in Int /\ entry[i].left >= Table!Least
  <2>1. entry[i] \in [ip : Ip \cup {NoIp}, left : Table!Times]
    BY DEF Table!TypeOK
  <2> QED BY <2>1, Clocks
<1>4. ASSUME NEW p \in Worker PROVE call[p].age \in 0..MaxWait
  <2>1. call[p] \in [ip : Ip \cup {NoIp}, age : 0..MaxWait]
    BY DEF Table!TypeOK
  <2> QED BY <2>1
<1>5. ASSUME NEW ip \in Ip PROVE until[ip] \in Int /\ until[ip] >= Table!Least
  <2>1. until[ip] \in Table!Times
    BY DEF Table!TypeOK
  <2> QED BY <2>1, Clocks
<1> QED BY <1>1, <1>2, <1>3, <1>4, <1>5

\* Some entry has the least time left.
LEMMA OldestIs ==
  ASSUME Table!TypeOK
  PROVE  /\ Table!Oldest \in Table!Entry
         /\ \A j \in Table!Entry : entry[Table!Oldest].left <= entry[j].left
<1> DEFINE L == {entry[i].left - Table!Least : i \in Table!Entry}
           O == {i \in Table!Entry : \A j \in Table!Entry : entry[i].left <= entry[j].left}
<1>1. L \in SUBSET Nat /\ L # {}
  BY TableTypes, Clocks
<1>2. PICK m \in L : \A l \in L : m <= l
  <2> HIDE DEF L
  <2> QED BY <1>1, LowestIs
<1>3. PICK i \in Table!Entry : m = entry[i].left - Table!Least
  BY <1>2
<1>4. ASSUME NEW j \in Table!Entry PROVE entry[i].left <= entry[j].left
  <2>1. m <= entry[j].left - Table!Least
    BY <1>2
  <2>2. entry[i].left \in Int /\ entry[j].left \in Int /\ Table!Least \in Int
    BY TableTypes, Clocks
  <2> QED BY <1>3, <2>1, <2>2
<1>5. O \in SUBSET Nat /\ O # {} /\ Table!Oldest = Table!Lowest(O)
  BY <1>4, TableTypes DEF Table!Oldest
<1>6. Table!Oldest \in O
  <2> HIDE DEF O
  <2> QED BY <1>5, LowestIs
<1> QED BY <1>6

\* Where a block goes: to the first entry of the address, or in front of it; what
\* it overwrites had no time left, unless every entry has.
LEMMA PlaceIs ==
  ASSUME Table!Inv, NEW p \in Worker, call[p].ip \in Ip
  PROVE  /\ Table!Place(p) \in Table!Entry
         /\ \A j \in 1..Table!Place(p)-1 : entry[j].ip # call[p].ip
         /\ \A j \in Table!Entry : j # Table!Place(p) /\ entry[j].ip = call[p].ip => entry[j].left <= 0
         /\ IF Table!Same(p) \cup Table!Unused(p) = {}
            THEN Table!Place(p) = Table!Oldest /\ \A j \in Table!Entry : entry[j].left > Table!Least
            ELSE entry[Table!Place(p)].ip \in {NoIp, call[p].ip} \/ entry[Table!Place(p)].left <= 0
<1> DEFINE at == Table!Place(p)
           ip == call[p].ip
<1>1. /\ Table!Entry \subseteq Nat \ {0}
      /\ \A i \in Table!Entry : \A j \in 1..i : j \in Table!Entry
      /\ \A i \in Table!Entry : entry[i].left \in Int
      /\ call[p].age \in 0..MaxWait
  BY TableTypes DEF Table!Inv
<1>2. ASSUME NEW i \in Table!Entry, NEW j \in 1..i-1, entry[i].ip = ip, entry[j].ip = ip
      PROVE  entry[i].left <= 0 /\ (entry[i].left < entry[j].left \/ entry[i].left = Table!Least)
  <2>1. entry[i].ip # NoIp
    BY <1>2, Clocks
  <2> QED BY <1>2, <2>1 DEF Table!Inv, Table!FirstDecides
<1>3. ASSUME NEW j \in Table!Entry
      PROVE  /\ j \in Table!Same(p) <=> entry[j].ip = ip /\ entry[j].left + call[p].age > 0
             /\ j \in Table!Unused(p) <=> entry[j].ip = NoIp \/ entry[j].left + call[p].age <= 0
  BY DEF Table!Same, Table!Unused, Table!Left
<1>4. Table!Same(p) \in SUBSET Table!Entry /\ Table!Unused(p) \in SUBSET Table!Entry
  BY DEF Table!Same, Table!Unused
<1>5. CASE Table!Same(p) # {}
  <2>1. at = Table!Lowest(Table!Same(p))
    BY <1>5 DEF Table!Place
  <2> HIDE DEF at, ip
  <2>2. at \in Table!Same(p) /\ \A j \in Table!Same(p) : at <= j
    BY <1>1, <1>4, <1>5, <2>1, LowestIs
  <2>3. at \in Table!Entry /\ at \in Nat \ {0} /\ entry[at].ip = ip /\ entry[at].left + call[p].age > 0
    BY <1>1, <1>3, <1>4, <2>2
  <2>4. ASSUME NEW j \in 1..at-1, entry[j].ip = ip PROVE FALSE
    <3>1. j \in Table!Entry /\ j < at
      BY <1>1, <2>3
    <3>2. entry[at].left < entry[j].left
      BY <1>1, <1>2, <2>3, <2>4, Clocks
    <3>3. j \in Table!Same(p)
      BY <1>1, <1>3, <2>3, <2>4, <3>1, <3>2
    <3> QED BY <1>1, <2>2, <2>3, <3>1, <3>3
  <2>5. ASSUME NEW j \in Table!Entry, j # at, entry[j].ip = ip PROVE entry[j].left <= 0
    <3>1. j \in Nat \ {0} /\ ~(j \in 1..at-1)
      BY <1>1, <2>4, <2>5
    <3>2. at \in 1..j-1
      BY <2>3, <2>5, <3>1
    <3> QED BY <1>2, <2>3, <2>5, <3>2
  <2>6. Table!Same(p) \cup Table!Unused(p) # {}
    BY <1>5
  <2>7. entry[at].ip \in {NoIp, ip}
    BY <2>3
  <2> QED BY <2>3, <2>4, <2>5, <2>6, <2>7 DEF at, ip
<1>6. CASE Table!Same(p) = {} /\ Table!Unused(p) # {}
  <2>1. at = Table!Lowest(Table!Unused(p))
    BY <1>6 DEF Table!Place
  <2> HIDE DEF at, ip
  <2>2. at \in Table!Unused(p) /\ \A j \in Table!Unused(p) : at <= j
    BY <1>1, <1>4, <1>6, <2>1, LowestIs
  <2>3. at \in Table!Entry /\ at \in Nat \ {0} /\ (entry[at].ip = NoIp \/ entry[at].left <= 0)
    <3>1. at \in Table!Entry /\ at \in Nat \ {0}
      BY <1>1, <1>4, <2>2
    <3>2. entry[at].ip = NoIp \/ entry[at].left + call[p].age <= 0
      BY <1>3, <2>2, <3>1
    <3> QED BY <1>1, <3>1, <3>2
  <2>4. ASSUME NEW j \in Table!Entry, entry[j].ip = ip PROVE at <= j /\ entry[j].left <= 0
    <3>1. entry[j].left + call[p].age <= 0
      BY <1>1, <1>3, <1>6, <2>4
    <3>2. j \in Table!Unused(p)
      BY <1>3, <3>1
    <3> QED BY <1>1, <2>2, <3>1, <3>2
  <2>5. ASSUME NEW j \in 1..at-1 PROVE j \in Table!Entry /\ ~(at <= j)
    BY <1>1, <2>3
  <2>6. Table!Same(p) \cup Table!Unused(p) # {}
    BY <1>6
  <2>7. \A j \in 1..at-1 : entry[j].ip # ip
    BY <2>4, <2>5
  <2>8. \A j \in Table!Entry : j # at /\ entry[j].ip = ip => entry[j].left <= 0
    BY <2>4
  <2> QED BY <2>3, <2>6, <2>7, <2>8 DEF at, ip
<1>7. CASE Table!Same(p) = {} /\ Table!Unused(p) = {}
  <2>1. at = Table!Oldest /\ at \in Table!Entry
    BY <1>7, OldestIs DEF Table!Place, Table!Inv
  <2> HIDE DEF at, ip
  <2>2. ASSUME NEW j \in Table!Entry PROVE entry[j].ip # ip /\ entry[j].left > Table!Least
    BY <1>1, <1>3, <1>7, Clocks
  <2>3. ASSUME NEW j \in 1..at-1 PROVE j \in Table!Entry
    BY <1>1, <2>1
  <2> QED BY <1>7, <2>1, <2>2, <2>3 DEF at, ip
<1> QED BY <1>5, <1>6, <1>7

\* Calls that begin, wait and end, and a death, leave the entries alone.
LEMMA TableSame ==
  ASSUME Table!Inv, UNCHANGED <<entry, until>>, Table!TypeOK', Table!Locked'
  PROVE  Table!Inv'
<1>1. Table!FirstDecides' /\ Table!BlockLasts'
  BY DEF Table!Inv, Table!FirstDecides, Table!BlockLasts, Table!First, Table!Entry
<1> QED BY <1>1 DEF Table!Inv

LEMMA CallIs ==
  ASSUME NEW ip \in Ip
  PROVE  /\ [Table!NoCall EXCEPT !.ip = ip] = [ip |-> ip, age |-> 0]
         /\ [ip |-> ip, age |-> 0] \in [ip : Ip \cup {NoIp}, age : 0..MaxWait]
<1>1. Table!NoCall = [ip |-> NoIp, age |-> 0]
  BY DEF Table!NoCall
<1>2. [[ip |-> NoIp, age |-> 0] EXCEPT !.ip = ip] = [ip |-> ip, age |-> 0]
  OBVIOUS
<1>3. MaxWait \in Nat
  BY Clocks
<1> QED BY <1>1, <1>2, <1>3

LEMMA BeginInv ==
  ASSUME Table!Inv, NEW p \in Worker, NEW ip \in Ip, NEW what \in {"wait to block", "wait to look"},
         Table!Begin(p, ip, what)
  PROVE  Table!Inv'
<1> DEFINE new == [ip |-> ip, age |-> 0]
<1>1. call' = [call EXCEPT ![p] = new] /\ UNCHANGED <<entry, lock, answer, kills, until>>
      /\ pc' = [pc EXCEPT ![p] = what]
  BY CallIs DEF Table!Begin
<1>2. new \in [ip : Ip \cup {NoIp}, age : 0..MaxWait] /\ new.ip = ip
  BY CallIs
<1> HIDE DEF new
<1>3. Table!TypeOK'
  BY <1>1, <1>2 DEF Table!Inv, Table!TypeOK, Table!Entry
<1>4. Table!Locked'
  BY <1>1, <1>2 DEF Table!Inv, Table!TypeOK, Table!Locked
<1> QED BY <1>1, <1>3, <1>4, TableSame

LEMMA LockInv ==
  ASSUME Table!Inv, NEW p \in Worker, NEW what \in {"wait to block", "wait to look"},
         NEW next \in {"block", "look"}, Table!Lock(p, what, next)
  PROVE  Table!Inv'
<1>1. Table!TypeOK'
  BY DEF Table!Inv, Table!TypeOK, Table!Lock, Table!Entry
<1>2. Table!Locked'
  BY Clocks DEF Table!Inv, Table!TypeOK, Table!Locked, Table!Lock
<1> QED BY <1>1, <1>2, TableSame DEF Table!Lock

LEMMA NoCallIs == Table!NoCall \in [ip : Ip \cup {NoIp}, age : 0..MaxWait]
BY Clocks DEF Table!NoCall

LEMMA UnlockInv ==
  ASSUME Table!Inv, NEW p \in Worker, Table!Unlock(p)
  PROVE  Table!Inv'
<1>1. Table!TypeOK'
  BY NoCallIs DEF Table!Inv, Table!TypeOK, Table!Unlock, Table!Entry
<1>2. Table!Locked'
  BY Clocks DEF Table!Inv, Table!TypeOK, Table!Locked, Table!Unlock
<1> QED BY <1>1, <1>2, TableSame DEF Table!Unlock

LEMMA KillInv ==
  ASSUME Table!Inv, NEW p \in Worker, Table!Kill(p)
  PROVE  Table!Inv'
<1>1. Table!TypeOK'
  <2>1. kills' \in 0..MaxKills
    <3>1. kills \in 0..MaxKills /\ kills < MaxKills /\ kills' = kills + 1
      BY DEF Table!Inv, Table!TypeOK, Table!Kill
    <3>2. MaxKills \in Nat
      BY DisconnectsAssumption
    <3> QED BY <3>1, <3>2
  <2> QED BY <2>1, NoCallIs DEF Table!Inv, Table!TypeOK, Table!Kill, Table!Entry
<1>2. Table!Locked'
  BY Clocks DEF Table!Inv, Table!TypeOK, Table!Locked, Table!Kill
<1> QED BY <1>1, <1>2, TableSame DEF Table!Kill

\* What a look-up finds first decides: it holds what is left of the last block,
\* or has no time left for any clock that has none left of the block.
LEMMA FoundIs ==
  ASSUME Table!Inv, NEW p \in Worker, call[p].ip \in Ip
  PROVE  LET S == {i \in Table!Entry : entry[i].ip = call[p].ip}
             i == Table!Lowest(S)
         IN  /\ S = {} => until[call[p].ip] <= 0
             /\ S # {} => /\ i \in Table!Entry /\ entry[i].ip = call[p].ip
                          /\ entry[i].left <= until[call[p].ip]
                          /\ until[call[p].ip] > 0 => entry[i].left = until[call[p].ip]
<1> DEFINE ip == call[p].ip
           S  == {i \in Table!Entry : entry[i].ip = ip}
           at == Table!Lowest(S)
<1>1. /\ Table!Entry \subseteq Nat \ {0}
      /\ \A i \in Table!Entry : \A j \in 1..i : j \in Table!Entry
      /\ until[ip] \in Int
  BY TableTypes DEF Table!Inv
<1>2. until[ip] > 0 => \E i \in Table!Entry : /\ entry[i].ip = ip /\ entry[i].left = until[ip]
                                              /\ \A j \in 1..i-1 : entry[j].ip # ip
  BY DEF Table!Inv, Table!BlockLasts, Table!First
<1>3. S = {} => until[ip] <= 0
  BY <1>1, <1>2
<1>4. ASSUME S # {}
      PROVE  /\ at \in Table!Entry /\ entry[at].ip = ip
             /\ entry[at].left <= until[ip]
             /\ until[ip] > 0 => entry[at].left = until[ip]
  <2>1. at \in S /\ \A j \in S : at <= j
    <3>1. S \in SUBSET Nat
      BY <1>1
    <3> HIDE DEF S
    <3> QED BY <1>4, <3>1, LowestIs
  <2>2. at \in Table!Entry /\ entry[at].ip = ip /\ ip # NoIp
    BY <2>1, Clocks
  <2>3. entry[at].left <= until[ip]
    BY <2>2 DEF Table!Inv, Table!FirstDecides
  <2>4. ASSUME until[ip] > 0 PROVE entry[at].left = until[ip]
    <3>1. PICK i \in Table!Entry : /\ entry[i].ip = ip /\ entry[i].left = until[ip]
                                   /\ \A j \in 1..i-1 : entry[j].ip # ip
      BY <1>2, <2>4
    <3>2. at <= i /\ ~(at \in 1..i-1)
      BY <2>1, <2>2, <3>1
    <3> HIDE DEF at
    <3>3. at = i
      BY <1>1, <2>2, <3>2
    <3> QED BY <3>1, <3>3
  <2> QED BY <2>2, <2>3, <2>4
<1> QED BY <1>3, <1>4

\* Clearing the entry a look-up found loses no block.
LEMMA FindInv ==
  ASSUME Table!Inv, NEW p \in Worker, Table!Find(p)
  PROVE  Table!Inv'
<1> DEFINE ip == call[p].ip
           S  == {i \in Table!Entry : entry[i].ip = ip}
           at == Table!Lowest(S)
<1>1. ip \in Ip /\ pc[p] = "look"
  BY DEF Table!Find, Table!Inv, Table!Locked
<1>2. \/ entry' = entry
      \/ S # {} /\ entry[at].left + call[p].age <= 0 /\ entry' = [entry EXCEPT ![at] = Table!Empty]
  BY DEF Table!Find, Table!Left
<1>3. Table!Locked'
  BY <1>1 DEF Table!Find, Table!Inv, Table!Locked, Table!TypeOK
<1>4. Table!Empty \in [ip : Ip \cup {NoIp}, left : Table!Times] /\ Table!Empty.ip = NoIp
  BY Clocks DEF Table!Empty
<1>5. UNCHANGED <<lock, call, kills, until>>
      /\ pc' = [pc EXCEPT ![p] = "looked"]
      /\ answer' \in [Worker -> {"none", "free", "blocked"}]
  BY DEF Table!Find, Table!Inv, Table!TypeOK
<1>6. CASE entry' = entry
  <2>1. Table!TypeOK'
    BY <1>5, <1>6 DEF Table!Inv, Table!TypeOK, Table!Entry
  <2> QED BY <1>3, <1>5, <1>6, <2>1, TableSame
<1>7. CASE /\ S # {} /\ entry[at].left + call[p].age <= 0
           /\ entry' = [entry EXCEPT ![at] = Table!Empty]
  <2>1. /\ at \in Table!Entry /\ entry[at].ip = ip /\ entry[at].left <= until[ip]
        /\ until[ip] > 0 => entry[at].left = until[ip]
    BY <1>1, <1>7, FoundIs
  <2> HIDE DEF at, ip, S
  <2>2. until[ip] <= 0
    BY <1>1, <1>7, <2>1, TableTypes DEF Table!Inv
  <2>3. /\ DOMAIN entry' = DOMAIN entry /\ entry'[at].ip = NoIp
        /\ \A i \in Table!Entry : i # at => entry'[i] = entry[i]
    BY <1>4, <1>7, <2>1 DEF Table!Inv, Table!TypeOK
  <2>4. Table!TypeOK'
    <3>1. entry' \in [DOMAIN entry -> [ip : Ip \cup {NoIp}, left : Table!Times]]
      BY <1>4, <1>7, <2>1 DEF Table!Inv, Table!TypeOK, Table!Entry
    <3> QED BY <1>5, <2>3, <3>1 DEF Table!Inv, Table!TypeOK, Table!Entry
  <2>5. /\ Table!Entry \subseteq Nat \ {0}
        /\ \A i \in Table!Entry : \A j \in 1..i : j \in Table!Entry
    BY TableTypes DEF Table!Inv
  <2>6. Table!FirstDecides'
    <3> SUFFICES ASSUME NEW i \in Table!Entry, entry'[i].ip # NoIp
                 PROVE  /\ entry'[i].left <= until[entry'[i].ip]
                        /\ \A j \in 1..i-1 : entry'[j].ip = entry'[i].ip =>
                             entry'[i].left <= 0 /\ (entry'[i].left < entry'[j].left \/ entry'[i].left = Table!Least)
      BY <1>5, <2>3 DEF Table!FirstDecides, Table!Entry
    <3>1. i # at /\ entry'[i] = entry[i]
      BY <2>3
    <3>2. ASSUME NEW j \in 1..i-1, entry'[j].ip = entry'[i].ip
          PROVE  entry'[j] = entry[j]
      BY <2>3, <2>5, <3>2
    <3> QED BY <3>1, <3>2 DEF Table!Inv, Table!FirstDecides
  <2>7. Table!BlockLasts'
    <3> SUFFICES ASSUME NEW y \in Ip, until[y] > 0
                 PROVE  \E i \in Table!Entry : /\ entry'[i].ip = y /\ entry'[i].left = until[y]
                                               /\ \A j \in 1..i-1 : entry'[j].ip # y
      BY <1>5, <2>3 DEF Table!BlockLasts, Table!First, Table!Entry
    <3>1. PICK i \in Table!Entry : /\ entry[i].ip = y /\ entry[i].left = until[y]
                                   /\ \A j \in 1..i-1 : entry[j].ip # y
      BY DEF Table!Inv, Table!BlockLasts, Table!First
    <3>2. y # ip /\ i # at
      BY <2>1, <2>2, <3>1, TableTypes DEF Table!Inv
    <3>3. ASSUME NEW j \in 1..i-1 PROVE entry'[j].ip # y
      BY <2>3, <2>5, <3>1, Clocks
    <3> QED BY <2>3, <3>1, <3>2, <3>3
  <2> QED BY <1>3, <2>4, <2>6, <2>7 DEF Table!Inv
<1> QED BY <1>2, <1>6, <1>7

\* A block put in its place is the first of its address; a table full of blocks
\* gives up the one that ends first.
LEMMA BlockInv ==
  ASSUME Table!Inv, NEW p \in Worker, Table!Block(p)
  PROVE  Table!Inv'
<1> DEFINE ip    == call[p].ip
           at    == Table!Place(p)
           left  == BlockTime - call[p].age
           old   == Table!Oldest
           full  == /\ Table!Same(p) \cup Table!Unused(p) = {}
                    /\ old \in Table!First(entry[old].ip)
           given == IF full THEN [until EXCEPT ![entry[old].ip] = Table!Least] ELSE until
           new   == [ip |-> ip, left |-> left]
<1>1. /\ ip \in Ip /\ ip # NoIp /\ lock = p
  BY Clocks DEF Table!Block, Table!Inv, Table!Locked
<1>2. /\ Table!Entry \subseteq Nat \ {0}
      /\ \A i \in Table!Entry : \A j \in 1..i : j \in Table!Entry
      /\ \A i \in Table!Entry : /\ entry[i].ip \in Ip \cup {NoIp} /\ entry[i].left \in Int
                                /\ entry[i].left >= Table!Least
      /\ call[p].age \in 0..MaxWait
      /\ \A y \in Ip : until[y] \in Int
  BY TableTypes DEF Table!Inv
<1>3. left \in Table!Times /\ left > 0 /\ Table!Least <= 0 /\ Table!Least \in Table!Times
  BY <1>2, Clocks
<1>4. /\ at \in Table!Entry
      /\ \A j \in 1..at-1 : entry[j].ip # ip
      /\ \A j \in Table!Entry : j # at /\ entry[j].ip = ip => entry[j].left <= 0
      /\ IF Table!Same(p) \cup Table!Unused(p) = {}
         THEN at = old /\ \A j \in Table!Entry : entry[j].left > Table!Least
         ELSE entry[at].ip \in {NoIp, ip} \/ entry[at].left <= 0
  BY <1>1, PlaceIs
<1>5. old \in Table!Entry /\ \A j \in Table!Entry : entry[old].left <= entry[j].left
  BY OldestIs DEF Table!Inv
<1>6. /\ entry' = [entry EXCEPT ![at] = new]
      /\ until' = [given EXCEPT ![ip] = left]
      /\ pc' = [pc EXCEPT ![p] = "blocked"]
      /\ UNCHANGED <<lock, call, answer, kills>>
  BY DEF Table!Block
<1>7. full => Table!Same(p) \cup Table!Unused(p) = {} /\ \A j \in 1..old-1 : entry[j].ip # entry[old].ip
  BY DEF Table!First
<1>8. given \in [Ip -> Table!Times] /\ \A y \in Ip : given[y] = until[y] \/ (full /\ y = entry[old].ip /\ given[y] = Table!Least)
  BY <1>3 DEF Table!Inv, Table!TypeOK
<1> HIDE DEF given
<1>9. /\ until' \in [Ip -> Table!Times] /\ until'[ip] = left
      /\ \A y \in Ip : y # ip => until'[y] = given[y]
  BY <1>1, <1>3, <1>6, <1>8
<1>10. /\ DOMAIN entry' = DOMAIN entry
       /\ entry' \in [DOMAIN entry -> [ip : Ip \cup {NoIp}, left : Table!Times]]
       /\ entry'[at].ip = ip /\ entry'[at].left = left
       /\ \A i \in Table!Entry : i # at => entry'[i] = entry[i]
  <2>1. new \in [ip : Ip \cup {NoIp}, left : Table!Times] /\ new.ip = ip /\ new.left = left
    BY <1>1, <1>3
  <2> HIDE DEF new, at, ip, left
  <2>2. entry \in [DOMAIN entry -> [ip : Ip \cup {NoIp}, left : Table!Times]]
    BY DEF Table!Inv, Table!TypeOK, Table!Entry
  <2> QED BY <1>4, <1>6, <2>1, <2>2 DEF Table!Entry
<1>11. Table!TypeOK'
  <2> HIDE DEF new, at, ip, left, full, old
  <2> QED BY <1>6, <1>9, <1>10 DEF Table!Inv, Table!TypeOK, Table!Entry
<1>12. Table!Locked'
  BY <1>1, <1>6 DEF Table!Inv, Table!Locked, Table!TypeOK
<1> HIDE DEF new, at, ip, left, old, full
\* earlier entries of another address are as they were
<1>13. ASSUME NEW i \in Table!Entry, i # at, entry[i].ip # NoIp
       PROVE  /\ entry[i].left <= until[entry[i].ip]
              /\ \A j \in 1..i-1 : entry[j].ip = entry[i].ip =>
                   entry[i].left <= 0 /\ (entry[i].left < entry[j].left \/ entry[i].left = Table!Least)
  BY <1>13 DEF Table!Inv, Table!FirstDecides
<1>14. ASSUME NEW i \in Table!Entry, i # at, entry[i].ip # NoIp, entry[i].ip # ip
       PROVE  entry[i].left <= until'[entry[i].ip]
  <2>1. entry[i].ip \in Ip
    BY <1>2, <1>14
  <2>2. CASE given[entry[i].ip] = until[entry[i].ip]
    BY <1>9, <1>13, <1>14, <2>1, <2>2
  <2>3. CASE full /\ entry[i].ip = entry[old].ip
    <3>1. at = old /\ \A j \in Table!Entry : entry[j].left > Table!Least
      BY <1>4, <1>7, <2>3
    <3>2. old \in Nat /\ i \in Nat /\ i # old /\ ~(i \in 1..old-1) /\ i # 0
      BY <1>2, <1>5, <1>7, <1>14, <2>3, <3>1
    <3>3. old \in 1..i-1
      BY <1>2, <1>5, <3>2
    <3>4. entry[i].left < entry[old].left \/ entry[i].left = Table!Least
      BY <1>13, <1>14, <2>3, <3>3
    <3> QED BY <1>2, <1>5, <3>1, <3>4, Clocks
  <2> QED BY <1>8, <2>1, <2>2, <2>3
<1>15. Table!FirstDecides'
  <2> SUFFICES ASSUME NEW i \in Table!Entry, entry'[i].ip # NoIp
               PROVE  /\ entry'[i].left <= until'[entry'[i].ip]
                      /\ \A j \in 1..i-1 : entry'[j].ip = entry'[i].ip =>
                           entry'[i].left <= 0 /\ (entry'[i].left < entry'[j].left \/ entry'[i].left = Table!Least)
    BY <1>10 DEF Table!FirstDecides, Table!Entry
  <2>1. CASE i = at
    <3>1. \A j \in 1..at-1 : j \in Table!Entry /\ j # at
      <4>1. at \in Table!Entry /\ \A n \in Table!Entry : n \in Nat /\ 1..n \subseteq Table!Entry
        BY <1>2, <1>4
      <4> QED BY <4>1
    <3> QED BY <1>3, <1>4, <1>9, <1>10, <2>1, <3>1, Clocks
  <2>2. CASE i # at /\ entry[i].ip = ip
    <3>1. entry'[i] = entry[i] /\ entry[i].left <= 0 /\ entry[i].left \in Int
      BY <1>2, <1>4, <1>10, <2>2
    <3>2. ASSUME NEW j \in 1..i-1, entry'[j].ip = entry'[i].ip
          PROVE  entry'[i].left < entry'[j].left \/ entry'[i].left = Table!Least
      <4>1. CASE j = at
        BY <1>3, <1>10, <3>1, <4>1, Clocks
      <4>2. CASE j # at
        <5>1. j \in Table!Entry /\ entry'[j] = entry[j]
          BY <1>2, <1>10, <4>2
        <5> QED BY <1>1, <1>13, <2>2, <3>1, <3>2, <5>1
      <4> QED BY <4>1, <4>2
    <3>3. entry'[i].left <= until'[ip]
      BY <1>3, <1>9, <3>1, Clocks
    <3> QED BY <2>2, <3>1, <3>2, <3>3
  <2>3. CASE i # at /\ entry[i].ip # ip
    <3>1. entry'[i] = entry[i] /\ entry[i].ip # NoIp
      BY <1>10, <2>3
    <3>2. ASSUME NEW j \in 1..i-1, entry'[j].ip = entry'[i].ip
          PROVE  j \in Table!Entry /\ entry'[j] = entry[j]
      BY <1>2, <1>10, <2>3, <3>1, <3>2
    <3> QED BY <1>13, <1>14, <2>3, <3>1, <3>2
  <2> QED BY <2>1, <2>2, <2>3
<1>16. Table!BlockLasts'
  <2> SUFFICES ASSUME NEW y \in Ip, until'[y] > 0
               PROVE  \E i \in Table!Entry : /\ entry'[i].ip = y /\ entry'[i].left = until'[y]
                                             /\ \A j \in 1..i-1 : entry'[j].ip # y
    BY <1>10 DEF Table!BlockLasts, Table!First, Table!Entry
  <2>1. CASE y = ip
    <3>1. \A j \in 1..at-1 : entry'[j].ip # ip
      BY <1>2, <1>4, <1>10
    <3> QED BY <1>4, <1>9, <1>10, <2>1, <3>1
  <2>2. CASE y # ip
    <3>1. until'[y] = until[y] /\ ~(full /\ y = entry[old].ip)
      <4>1. until'[y] = given[y]
        BY <1>9, <2>2
      <4>2. given[y] # Table!Least
        BY <1>3, <4>1, Clocks
      <4> QED BY <1>8, <4>1, <4>2 DEF given
    <3>2. PICK i \in Table!Entry : /\ entry[i].ip = y /\ entry[i].left = until[y]
                                   /\ \A j \in 1..i-1 : entry[j].ip # y
      BY <3>1 DEF Table!Inv, Table!BlockLasts, Table!First
    <3>3. i # at
      <4> SUFFICES ASSUME i = at PROVE FALSE
        OBVIOUS
      <4>1. entry[at].ip \notin {NoIp, ip} /\ ~(entry[at].left <= 0)
        BY <1>2, <2>2, <3>1, <3>2, Clocks
      <4>2. at = old /\ Table!Same(p) \cup Table!Unused(p) = {}
        BY <1>4, <4>1
      <4>3. old \in Table!First(entry[old].ip)
        BY <1>5, <3>2, <4>2 DEF Table!First
      <4> QED BY <3>1, <3>2, <4>2, <4>3 DEF full
    <3>4. ASSUME NEW j \in 1..i-1 PROVE entry'[j].ip # y
      BY <1>2, <1>10, <2>2, <3>2
    <3> QED BY <1>10, <3>1, <3>2, <3>3, <3>4
  <2> QED BY <2>1, <2>2
<1> QED BY <1>11, <1>12, <1>15, <1>16 DEF Table!Inv

\* Time passes for all entries and blocks alike.
LEMMA TableTickInv ==
  ASSUME Table!Inv, Table!Tick
  PROVE  Table!Inv'
<1>1. /\ Table!Entry \subseteq Nat \ {0}
      /\ \A i \in Table!Entry : \A j \in 1..i : j \in Table!Entry
      /\ \A i \in Table!Entry : /\ entry[i].ip \in Ip \cup {NoIp} /\ entry[i].left \in Int
                                /\ entry[i].left >= Table!Least
      /\ \A p \in Worker : call[p].age \in 0..MaxWait
      /\ \A y \in Ip : until[y] \in Int /\ until[y] >= Table!Least
  BY TableTypes DEF Table!Inv
<1>2. /\ entry' = [i \in Table!Entry |-> [entry[i] EXCEPT !.left = Table!Down(entry[i].left)]]
      /\ until' = [y \in Ip |-> Table!Down(until[y])]
      /\ call' = [p \in Worker |-> IF pc[p] = "idle" THEN call[p]
                                   ELSE [call[p] EXCEPT !.age = call[p].age + 1]]
      /\ \A p \in Worker : pc[p] # "idle" => call[p].age < MaxWait
      /\ UNCHANGED <<lock, pc, answer, kills>>
  BY DEF Table!Tick
<1>3. \A i \in Table!Entry : entry[i] \in [ip : Ip \cup {NoIp}, left : Table!Times]
  BY DEF Table!Inv, Table!TypeOK
<1>4. \A t \in Table!Times : Table!Down(t) \in Table!Times
  BY Clocks DEF Table!Down
<1>5. /\ DOMAIN entry' = Table!Entry
      /\ \A i \in Table!Entry : /\ entry'[i].ip = entry[i].ip
                                /\ entry'[i].left = Table!Down(entry[i].left)
                                /\ entry'[i] \in [ip : Ip \cup {NoIp}, left : Table!Times]
  BY <1>2, <1>3, <1>4
<1>6. /\ entry' \in [Table!Entry -> [ip : Ip \cup {NoIp}, left : Table!Times]]
      /\ until' \in [Ip -> Table!Times]
  BY <1>2, <1>4, <1>5 DEF Table!Inv, Table!TypeOK
<1>7. ASSUME NEW p \in Worker
      PROVE  call'[p] \in [ip : Ip \cup {NoIp}, age : 0..MaxWait] /\ call'[p].ip = call[p].ip
  <2>1. call[p] \in [ip : Ip \cup {NoIp}, age : 0..MaxWait] /\ call[p].age \in 0..MaxWait
    BY <1>1 DEF Table!Inv, Table!TypeOK
  <2>2. pc[p] # "idle" => call[p].age + 1 \in 0..MaxWait
    BY <1>2, <2>1, Clocks
  <2> QED BY <1>2, <2>1, <2>2
<1>8. call' \in [Worker -> [ip : Ip \cup {NoIp}, age : 0..MaxWait]]
  BY <1>2, <1>7
<1>9. Table!TypeOK'
  BY <1>2, <1>5, <1>6, <1>8 DEF Table!Inv, Table!TypeOK, Table!Entry
<1>10. Table!Locked'
  BY <1>2, <1>7 DEF Table!Inv, Table!Locked
<1>11. Table!FirstDecides'
  <2> SUFFICES ASSUME NEW i \in Table!Entry, entry'[i].ip # NoIp
               PROVE  /\ entry'[i].left <= until'[entry'[i].ip]
                      /\ \A j \in 1..i-1 : entry'[j].ip = entry'[i].ip =>
                           entry'[i].left <= 0 /\ (entry'[i].left < entry'[j].left \/ entry'[i].left = Table!Least)
    BY <1>5 DEF Table!FirstDecides, Table!Entry
  <2>1. /\ entry[i].left <= until[entry[i].ip]
        /\ \A j \in 1..i-1 : entry[j].ip = entry[i].ip =>
             entry[i].left <= 0 /\ (entry[i].left < entry[j].left \/ entry[i].left = Table!Least)
    BY <1>5 DEF Table!Inv, Table!FirstDecides
  <2>2. entry[i].ip \in Ip /\ entry'[i].ip = entry[i].ip /\ entry'[i].left = Table!Down(entry[i].left)
        /\ until'[entry[i].ip] = Table!Down(until[entry[i].ip])
    BY <1>1, <1>2, <1>5
  <2>3. entry'[i].left <= until'[entry'[i].ip]
    BY <1>1, <2>1, <2>2, Clocks DEF Table!Down
  <2>4. ASSUME NEW j \in 1..i-1, entry'[j].ip = entry'[i].ip
        PROVE  entry'[i].left <= 0 /\ (entry'[i].left < entry'[j].left \/ entry'[i].left = Table!Least)
    <3>1. j \in Table!Entry
      BY <1>1
    <3>2. entry'[j].left = Table!Down(entry[j].left) /\ entry[j].ip = entry[i].ip
          /\ entry[i].left \in Int /\ entry[j].left \in Int
          /\ entry[i].left >= Table!Least /\ entry[j].left >= Table!Least
      BY <1>1, <1>5, <2>2, <2>4, <3>1
    <3>3. entry[i].left <= 0 /\ (entry[i].left < entry[j].left \/ entry[i].left = Table!Least)
      BY <2>1, <3>2
    <3> QED BY <2>2, <3>2, <3>3, Clocks DEF Table!Down
  <2> QED BY <2>3, <2>4
<1>12. Table!BlockLasts'
  <2> SUFFICES ASSUME NEW y \in Ip, until'[y] > 0
               PROVE  \E i \in Table!Entry : /\ entry'[i].ip = y /\ entry'[i].left = until'[y]
                                             /\ \A j \in 1..i-1 : entry'[j].ip # y
    BY <1>5 DEF Table!BlockLasts, Table!First, Table!Entry
  <2>1. until'[y] = Table!Down(until[y]) /\ until[y] > 0
    BY <1>1, <1>2, Clocks DEF Table!Down
  <2>2. PICK i \in Table!Entry : /\ entry[i].ip = y /\ entry[i].left = until[y]
                                 /\ \A j \in 1..i-1 : entry[j].ip # y
    BY <2>1 DEF Table!Inv, Table!BlockLasts, Table!First
  <2>3. \A j \in 1..i-1 : entry'[j].ip # y
    BY <1>1, <1>5, <2>2
  <2> QED BY <1>5, <2>1, <2>2, <2>3
<1> QED BY <1>9, <1>10, <1>11, <1>12 DEF Table!Inv

\* Every step of the table keeps its invariant.
LEMMA TableNextInv == Table!Inv /\ [Table!Next]_Table!vars => Table!Inv'
<1> SUFFICES ASSUME Table!Inv, [Table!Next]_Table!vars PROVE Table!Inv'
  OBVIOUS
<1>1. ASSUME NEW p \in Worker, Table!Work(p) PROVE Table!Inv'
  <2>1. CASE Table!Lock(p, "wait to block", "block")
    BY <2>1, LockInv
  <2>2. CASE Table!Lock(p, "wait to look", "look")
    BY <2>2, LockInv
  <2> QED BY <1>1, <2>1, <2>2, BlockInv, FindInv, UnlockInv DEF Table!Work
<1>2. ASSUME NEW p \in Worker, NEW ip \in Ip,
             Table!Begin(p, ip, "wait to block") \/ Table!Begin(p, ip, "wait to look")
      PROVE  Table!Inv'
  BY <1>2, BeginInv
<1>3. CASE UNCHANGED Table!vars
  BY <1>3 DEF Table!vars, Table!Inv, Table!TypeOK, Table!Locked, Table!FirstDecides,
              Table!BlockLasts, Table!First, Table!Entry
<1> QED BY <1>1, <1>2, <1>3, KillInv, TableTickInv DEF Table!Next

\* At first no entry is used and nobody calls.
LEMMA TableInit == Table!Init => Table!Inv
<1> SUFFICES ASSUME Table!Init PROVE Table!Inv
  OBVIOUS
<1>1. PICK n \in TableSizes : entry = [i \in 1..n |-> Table!Empty]
  BY DEF Table!Init
<1>2. /\ Table!Empty \in [ip : Ip \cup {NoIp}, left : Table!Times] /\ Table!Empty.ip = NoIp
      /\ Table!Least \in Table!Times /\ ~(Table!Least > 0)
  BY Clocks DEF Table!Empty
<1>3. 0 \in 0..MaxKills
  BY DisconnectsAssumption
<1>4. Table!TypeOK
  BY <1>1, <1>2, <1>3, NoCallIs DEF Table!Init, Table!TypeOK, Table!Entry
<1>5. Table!Locked
  BY DEF Table!Init, Table!Locked
<1>6. Table!FirstDecides
  BY <1>1, <1>2 DEF Table!FirstDecides, Table!Entry
<1>7. Table!BlockLasts
  BY <1>2 DEF Table!Init, Table!BlockLasts
<1> QED BY <1>4, <1>5, <1>6, <1>7 DEF Table!Inv

\* A look-up that ends answers as the last block says.
LEMMA LookRight ==
  ASSUME Table!Inv, [Table!Next]_Table!vars, NEW p \in Worker, pc[p] = "look", pc'[p] = "looked"
  PROVE  /\ until[call[p].ip] > 0 => answer'[p] = "blocked"
         /\ answer'[p] = "blocked" => until[call[p].ip] + call[p].age > 0
<1> DEFINE ip == call[p].ip
           S  == {i \in Table!Entry : entry[i].ip = ip}
           at == Table!Lowest(S)
<1>1. DOMAIN pc = Worker /\ DOMAIN answer = Worker
  BY DEF Table!Inv, Table!TypeOK
<1>2. Table!Find(p)
  <2>1. ASSUME NEW q \in Worker, Table!Work(q) PROVE Table!Find(p)
    BY <1>1, <2>1 DEF Table!Work, Table!Lock, Table!Block, Table!Find, Table!Unlock
  <2>2. ASSUME NEW q \in Worker, Table!Kill(q) PROVE FALSE
    BY <1>1, <2>2 DEF Table!Kill
  <2>3. ASSUME NEW q \in Worker, NEW y \in Ip,
               Table!Begin(q, y, "wait to block") \/ Table!Begin(q, y, "wait to look")
        PROVE  FALSE
    BY <1>1, <2>3 DEF Table!Begin
  <2>4. ~Table!Tick /\ ~UNCHANGED Table!vars
    BY DEF Table!Tick, Table!vars
  <2> QED BY <2>1, <2>2, <2>3, <2>4 DEF Table!Next
<1>3. ip \in Ip
  BY DEF Table!Inv, Table!Locked
<1>4. /\ S = {} => until[ip] <= 0
      /\ S # {} => /\ at \in Table!Entry /\ entry[at].left <= until[ip]
                   /\ until[ip] > 0 => entry[at].left = until[ip]
  BY <1>3, FoundIs
<1>5. answer'[p] = IF S = {} \/ entry[at].left + call[p].age <= 0 THEN "free" ELSE "blocked"
  BY <1>1, <1>2 DEF Table!Find, Table!Left
<1>6. /\ call[p].age \in 0..MaxWait /\ until[ip] \in Int
      /\ \A i \in Table!Entry : entry[i].left \in Int
  BY <1>3, TableTypes DEF Table!Inv
<1> HIDE DEF S, at
<1> QED BY <1>4, <1>5, <1>6, Clocks

-----------------------------------------------------------------------------
(* The two together                                                        *)

\* What is known between two steps.
Known == AllInv /\ NotForgotten

LEMMA AllTypes ==
  ASSUME Known
  PROVE  /\ DOMAIN pc = Worker /\ call \in [Worker -> [ip : Ip \cup {NoIp}, age : 0..MaxWait]]
         /\ writing \in [Proc -> [at : 0..NumWorkers, kind : Kind]]
         /\ pipe \in [Worker -> [Kind -> 0..Cap]]
         /\ \A i \in Worker : pipe[i]["disconnect"] \in Nat
         /\ client \in [Ip -> Worker \cup {0}] /\ marked \in [Ip -> Worker \cup {0, Orphan}]
<1>1. pipe \in [Worker -> [Kind -> 0..Cap]] /\ "disconnect" \in Kind /\ 0..Cap \subseteq Nat
  BY DEF Known, AllInv, PipesInv, PipesTypeOK, Kind
<1>2. \A i \in Worker : pipe[i]["disconnect"] \in Nat
  BY <1>1
<1>3. DOMAIN pc = Worker /\ call \in [Worker -> [ip : Ip \cup {NoIp}, age : 0..MaxWait]]
  BY DEF Known, AllInv, Table!Inv, Table!TypeOK
<1> QED BY <1>1, <1>2, <1>3 DEF Known, AllInv, PipesInv, PipesTypeOK, Together

\* A worker between two events has told whom it had to tell.
LEMMA FreeTold ==
  ASSUME NEW p, NEW i, NEW ip, Free(p), Asked(p, i, ip)
  PROVE  pipe[i]["disconnect"] > 0
BY DEF Free, Idle, Asked, Nothing

\* The whole is made of steps of its parts.
LEMMA PipesStep == Known /\ [AllNext]_all => [PipesNext]_pipesVars
<1> SUFFICES ASSUME Known, [AllNext]_all PROVE [PipesNext]_pipesVars
  OBVIOUS
<1> USE DEF pipes, pipesVars
<1>1. ASSUME NEW p \in Worker, NEW ip \in Ip, Request(p, ip) \/ Arrive(p, ip) PROVE UNCHANGED pipesVars
  BY <1>1 DEF Request, Arrive
<1>2. ASSUME NEW p \in Worker, InTable(p) \/ Admitted(p) PROVE UNCHANGED pipesVars
  BY <1>2 DEF InTable, Admitted
<1>3. ASSUME NEW p \in Worker, AddressBlocked(p) PROVE PipesNext
  <2>1. Trigger(p, "disconnect")
    BY <1>3, Types DEF Known, AllInv, Together, AddressBlocked, Trigger, Idle, Runs
  <2> QED BY <2>1, Types DEF PipesNext, Kind
<1>4. ASSUME NEW p \in Worker, Told(p) \/ Killed(p) PROVE PipesNext
  BY <1>4 DEF Told, Killed, PipesNext
<1>5. ASSUME NEW p \in Worker, Update(p) PROVE PipesNext
  BY <1>5, Types DEF Update, PipesNext, Kind
<1>6. ASSUME NEW ip \in Ip, Leave(ip) PROVE UNCHANGED pipesVars
  BY <1>6 DEF Leave
<1>7. CASE Others
  BY <1>7 DEF Others, PipesNext
<1>8. CASE Table!Tick /\ UNCHANGED <<pipes, client, marked>>
  BY <1>8
<1>9. CASE UNCHANGED all
  BY <1>9 DEF all
<1> QED BY <1>1, <1>2, <1>3, <1>4, <1>5, <1>6, <1>7, <1>8, <1>9 DEF AllNext

LEMMA TableStep == [AllNext]_all => [Table!Next]_Table!vars
<1> SUFFICES ASSUME [AllNext]_all PROVE [Table!Next]_Table!vars
  OBVIOUS
<1> USE DEF table, Table!vars
<1>1. ASSUME NEW p \in Worker, NEW ip \in Ip, Request(p, ip) \/ Arrive(p, ip) PROVE Table!Next
  BY <1>1 DEF Request, Arrive, Table!Next
<1>2. ASSUME NEW p \in Worker, InTable(p) PROVE Table!Next
  BY <1>2 DEF InTable, Table!Next, Table!Work
<1>3. ASSUME NEW p \in Worker, AddressBlocked(p) \/ Admitted(p) PROVE Table!Next
  BY <1>3 DEF AddressBlocked, Admitted, Table!Next, Table!Work
<1>4. ASSUME NEW p \in Worker, Killed(p) PROVE Table!Next
  BY <1>4 DEF Killed, Table!Next
<1>5. ASSUME NEW p \in Worker, Told(p) \/ Update(p) PROVE UNCHANGED Table!vars
  BY <1>5 DEF Told, Update
<1>6. ASSUME NEW ip \in Ip, Leave(ip) PROVE UNCHANGED Table!vars
  BY <1>6 DEF Leave
<1>7. CASE Others
  BY <1>7 DEF Others
<1>8. CASE Table!Tick /\ UNCHANGED <<pipes, client, marked>>
  BY <1>8 DEF Table!Next
<1>9. CASE UNCHANGED all
  BY <1>9 DEF all
<1> QED BY <1>1, <1>2, <1>3, <1>4, <1>5, <1>6, <1>7, <1>8, <1>9 DEF AllNext

\* What must hold after a step, for whoever serves or is to serve a client.
LEMMA KnownNext ==
  ASSUME AllInv, PipesInv', Table!Inv',
         client' \in [Ip -> Worker \cup {0}], marked' \in [Ip -> Worker \cup {0, Orphan}],
         \A p \in Worker : pc'[p] # "idle" => p \in alive' /\ writing'[p] = Nothing,
         \A ip \in Ip : client'[ip] \in alive' \cup {0} /\ (client'[ip] = 0 => marked'[ip] = 0),
         \A ip \in Ip, i \in Worker :
           (client'[ip] = i \/ Looks(i, ip)') /\ marked'[ip] \in Worker => Asked(marked[ip], i, ip)'
  PROVE  Known'
<1>1. NotForgotten'
  <2> SUFFICES ASSUME NEW ip \in Ip, client'[ip] # 0, marked'[ip] \in Worker
               PROVE  Asked(marked[ip], client[ip], ip)'
    BY DEF NotForgotten
  <2>1. client'[ip] \in Worker
    OBVIOUS
  <2> QED BY <2>1 DEF Asked
<1>2. Together'
  BY DEF Together, Asked
<1> QED BY <1>1, <1>2 DEF Known, AllInv

\* What holds before it.
LEMMA KnownNow ==
  ASSUME Known
  PROVE  /\ \A ip \in Ip, i \in Worker : (client[ip] = i \/ Looks(i, ip)) /\ marked[ip] \in Worker
                                          => Asked(marked[ip], i, ip)
         /\ \A p \in Worker : pc[p] # "idle" => p \in alive /\ writing[p] = Nothing
         /\ \A ip \in Ip : client[ip] \in alive \cup {0} /\ (client[ip] = 0 => marked[ip] = 0)
         /\ 0 \notin Worker /\ Orphan \notin Worker /\ alive \subseteq Worker
<1>1. 0 \notin Worker /\ Orphan \notin Worker
  BY PipesAssumption DEF Worker, Orphan
<1> QED BY <1>1 DEF Known, NotForgotten, AllInv, Together, PipesInv, PipesTypeOK

LEMMA RequestKnown ==
  ASSUME Known, NEW p \in Worker, NEW ip \in Ip, Request(p, ip), PipesInv', Table!Inv'
  PROVE  Known'
<1>1. /\ pc[p] = "idle" /\ Free(p) /\ p \in alive /\ writing[p] = Nothing
      /\ pc' = [pc EXCEPT ![p] = "wait to block"]
      /\ call' = [call EXCEPT ![p] = [ip |-> ip, age |-> 0]]
      /\ marked' = [marked EXCEPT ![ip] = p]
      /\ client[ip] # 0
      /\ UNCHANGED <<pipe, writing, alive, client>>
  BY CallIs, Types DEF Request, Table!Begin, Free, Idle, Runs, pipes
<1>2. ASSUME NEW y \in Ip, NEW i \in Worker, client'[y] = i \/ Looks(i, y)', marked'[y] \in Worker
      PROVE  Asked(marked[y], i, y)'
  <2>1. CASE y = ip
    BY <1>1, <2>1, AllTypes DEF Asked
  <2>2. CASE y # ip
    <3>1. marked'[y] = marked[y] /\ marked[y] \in Worker
      BY <1>1, <1>2, <2>2, AllTypes
    <3>2. client[y] = i \/ Looks(i, y)
      BY <1>1, <1>2, AllTypes DEF Looks
    <3>3. Asked(marked[y], i, y)
      BY <3>1, <3>2, KnownNow
    <3>4. CASE marked[y] = p
      BY <1>1, <3>1, <3>3, <3>4, FreeTold DEF Asked
    <3>5. CASE marked[y] # p
      BY <1>1, <3>1, <3>3, <3>5, AllTypes DEF Asked
    <3> QED BY <3>4, <3>5
  <2> QED BY <2>1, <2>2
<1>3. marked' \in [Ip -> Worker \cup {0, Orphan}] /\ client' \in [Ip -> Worker \cup {0}]
  BY <1>1, AllTypes
<1>4. \A q \in Worker : pc'[q] # "idle" => q \in alive' /\ writing'[q] = Nothing
  BY <1>1, AllTypes, KnownNow
<1>5. \A y \in Ip : client'[y] \in alive' \cup {0} /\ (client'[y] = 0 => marked'[y] = 0)
  BY <1>1, AllTypes, KnownNow
<1> QED BY <1>2, <1>3, <1>4, <1>5, KnownNext DEF Known

LEMMA ArriveKnown ==
  ASSUME Known, NEW p \in Worker, NEW ip \in Ip, Arrive(p, ip), PipesInv', Table!Inv'
  PROVE  Known'
<1>1. /\ pc[p] = "idle" /\ Free(p) /\ p \in alive /\ writing[p] = Nothing
      /\ pc' = [pc EXCEPT ![p] = "wait to look"]
      /\ call' = [call EXCEPT ![p] = [ip |-> ip, age |-> 0]]
      /\ client[ip] = 0
      /\ UNCHANGED <<pipe, writing, alive, client, marked>>
  BY CallIs, Types DEF Arrive, Table!Begin, Free, Idle, Runs, pipes
<1>2. ASSUME NEW y \in Ip, NEW i \in Worker, client'[y] = i \/ Looks(i, y)', marked'[y] \in Worker
      PROVE  Asked(marked[y], i, y)'
  <2>1. y # ip
    BY <1>1, <1>2, KnownNow
  <2>2. client[y] = i \/ Looks(i, y)
    BY <1>1, <1>2, <2>1, AllTypes DEF Looks
  <2>3. Asked(marked[y], i, y) /\ marked[y] \in Worker
    BY <1>1, <1>2, <2>2, KnownNow
  <2>4. CASE marked[y] = p
    BY <1>1, <2>3, <2>4, FreeTold DEF Asked
  <2>5. CASE marked[y] # p
    BY <1>1, <2>3, <2>5, AllTypes DEF Asked
  <2> QED BY <2>4, <2>5
<1>3. \A q \in Worker : pc'[q] # "idle" => q \in alive' /\ writing'[q] = Nothing
  BY <1>1, AllTypes, KnownNow
<1> QED BY <1>1, <1>2, <1>3, AllTypes, KnownNow, KnownNext DEF Known

\* At the table nobody's client changes, and a request goes on to its end.
LEMMA InTableKnown ==
  ASSUME Known, NEW p \in Worker, InTable(p), PipesInv', Table!Inv'
  PROVE  Known'
<1>1. /\ UNCHANGED <<pipe, writing, alive, client, marked, call>>
      /\ \E new \in {"block", "blocked", "look", "looked"} : pc' = [pc EXCEPT ![p] = new]
      /\ pc[p] \in {"wait to block", "block"} => pc'[p] \in {"block", "blocked"}
      /\ pc[p] \in {"wait to look", "look"} => pc'[p] \in {"look", "looked"}
      /\ pc[p] \in {"wait to block", "block", "wait to look", "look"}
  BY AllTypes DEF InTable, Table!Lock, Table!Block, Table!Find, pipes
<1>2. ASSUME NEW y \in Ip, NEW i \in Worker, client'[y] = i \/ Looks(i, y)', marked'[y] \in Worker
      PROVE  Asked(marked[y], i, y)'
  <2>1. client[y] = i \/ Looks(i, y)
    BY <1>1, <1>2, AllTypes DEF Looks
  <2>2. Asked(marked[y], i, y) /\ marked[y] \in Worker
    BY <1>1, <1>2, <2>1, KnownNow
  <2> QED BY <1>1, <2>2, AllTypes DEF Asked
<1>3. \A q \in Worker : pc'[q] # "idle" => q \in alive' /\ writing'[q] = Nothing
  BY <1>1, AllTypes, KnownNow
<1> QED BY <1>1, <1>2, <1>3, AllTypes, KnownNow, KnownNext DEF Known

\* The address is blocked: from here on the message is under way.
LEMMA AddressBlockedKnown ==
  ASSUME Known, NEW p \in Worker, AddressBlocked(p), PipesInv', Table!Inv'
  PROVE  Known'
<1>1. /\ pc[p] = "blocked"
      /\ pc' = [pc EXCEPT ![p] = "idle"]
      /\ call' = [call EXCEPT ![p] = Table!NoCall]
      /\ writing' = [writing EXCEPT ![p] = [at |-> 1, kind |-> "disconnect"]]
      /\ UNCHANGED <<pipe, alive, client, marked>>
  BY DEF AddressBlocked, Table!Unlock, Start
<1>2. ASSUME NEW y \in Ip, NEW i \in Worker, client'[y] = i \/ Looks(i, y)', marked'[y] \in Worker
      PROVE  Asked(marked[y], i, y)'
  <2>1. client[y] = i \/ Looks(i, y)
    BY <1>1, <1>2, AllTypes DEF Looks
  <2>2. Asked(marked[y], i, y) /\ marked[y] \in Worker
    BY <1>1, <1>2, <2>1, KnownNow
  <2>3. CASE marked[y] = p
    <3>1. DOMAIN writing = Proc /\ p \in Proc
      BY AllTypes, Types
    <3>2. writing'[p] = [at |-> 1, kind |-> "disconnect"]
      BY <1>1, <3>1
    <3>3. 1 \in 1..i
      BY PipesAssumption DEF Worker
    <3>4. writing'[p].kind = "disconnect" /\ writing'[p].at \in 1..i
      BY <3>2, <3>3
    <3>5. marked'[y] = p
      BY <1>1, <2>3
    <3> QED BY <3>4, <3>5 DEF Asked
  <2>4. CASE marked[y] # p
    <3>1. DOMAIN writing = Proc /\ marked[y] \in Proc
      BY <2>2, AllTypes, Types
    <3>2. /\ writing'[marked[y]] = writing[marked[y]] /\ pc'[marked[y]] = pc[marked[y]]
          /\ call'[marked[y]] = call[marked[y]]
      BY <1>1, <2>2, <2>4, <3>1, AllTypes
    <3> QED BY <1>1, <2>2, <3>2 DEF Asked
  <2> QED BY <2>3, <2>4
<1>3. \A q \in Worker : pc'[q] # "idle" => q \in alive' /\ writing'[q] = Nothing
  BY <1>1, AllTypes, KnownNow
<1> QED BY <1>1, <1>2, <1>3, AllTypes, KnownNow, KnownNext DEF Known

\* Who takes a client over was to be told already when it looked.
LEMMA AdmittedKnown ==
  ASSUME Known, NEW p \in Worker, Admitted(p), PipesInv', Table!Inv'
  PROVE  Known'
<1>1. /\ pc[p] = "looked" /\ p \in alive /\ writing[p] = Nothing
      /\ pc' = [pc EXCEPT ![p] = "idle"]
      /\ call' = [call EXCEPT ![p] = Table!NoCall]
      /\ client' = client \/ client' = [client EXCEPT ![call[p].ip] = p]
      /\ UNCHANGED <<pipe, writing, alive, marked>>
  BY KnownNow DEF Admitted, Table!Unlock, pipes
<1>2. ASSUME NEW y \in Ip, NEW i \in Worker, client'[y] = i \/ Looks(i, y)', marked'[y] \in Worker
      PROVE  Asked(marked[y], i, y)'
  <2>1. client[y] = i \/ Looks(i, y)
    BY <1>1, <1>2, AllTypes DEF Looks
  <2>2. Asked(marked[y], i, y) /\ marked[y] \in Worker
    BY <1>1, <1>2, <2>1, KnownNow
  <2> QED BY <1>1, <2>2, AllTypes DEF Asked
<1>3. \A q \in Worker : pc'[q] # "idle" => q \in alive' /\ writing'[q] = Nothing
  BY <1>1, AllTypes, KnownNow
<1>4. client' \in [Ip -> Worker \cup {0}]
  BY <1>1, AllTypes
<1>5. \A y \in Ip : client'[y] \in alive' \cup {0} /\ (client'[y] = 0 => marked'[y] = 0)
  BY <1>1, AllTypes, KnownNow
<1> QED BY <1>1, <1>2, <1>3, <1>4, <1>5, AllTypes, KnownNext DEF Known

\* A worker that reads its pipe closes the clients it was told of.
LEMMA ToldKnown ==
  ASSUME Known, NEW p \in Worker, Told(p), PipesInv', Table!Inv'
  PROVE  Known'
<1> DEFINE S == IF pipe[p]["disconnect"] > 0
                THEN {ip \in Ip : client[ip] = p /\ marked[ip] # 0} ELSE {}
<1>1. /\ Free(p) /\ pc[p] = "idle"
      /\ pipe' = [pipe EXCEPT ![p] = [k \in Kind |-> 0]]
      /\ client' = [ip \in Ip |-> IF ip \in S THEN 0 ELSE client[ip]]
      /\ marked' = [ip \in Ip |-> IF ip \in S THEN 0 ELSE marked[ip]]
      /\ UNCHANGED <<writing, alive, pc, call>>
  BY DEF Told, Drain, Closed, Free, table
<1>2. ASSUME NEW y \in Ip, NEW i \in Worker, client'[y] = i \/ Looks(i, y)', marked'[y] \in Worker
      PROVE  Asked(marked[y], i, y)'
  <2>1. y \notin S /\ client'[y] = client[y] /\ marked'[y] = marked[y]
    BY <1>1, <1>2, KnownNow
  <2>2. client[y] = i \/ Looks(i, y)
    BY <1>1, <1>2, <2>1, KnownNow DEF Looks
  <2>3. Asked(marked[y], i, y) /\ marked[y] \in Worker
    BY <1>2, <2>1, <2>2, KnownNow
  <2>4. CASE i # p
    <3>1. pipe'[i] = pipe[i]
      BY <1>1, <2>4, AllTypes
    <3> QED BY <1>1, <2>1, <2>3, <3>1 DEF Asked
  <2>5. CASE i = p
    <3>1. client[y] = p /\ marked[y] # 0
      BY <1>1, <2>2, <2>3, <2>5, KnownNow DEF Looks
    <3>2. ~(pipe[p]["disconnect"] > 0)
      BY <2>1, <3>1
    <3> QED BY <1>1, <2>1, <2>3, <2>5, <3>2 DEF Asked
  <2> QED BY <2>4, <2>5
<1>3. \A q \in Worker : pc'[q] # "idle" => q \in alive' /\ writing'[q] = Nothing
  BY <1>1, AllTypes, KnownNow
<1> HIDE DEF S
<1>4. client' \in [Ip -> Worker \cup {0}] /\ marked' \in [Ip -> Worker \cup {0, Orphan}]
  BY <1>1, AllTypes
<1>5. \A y \in Ip : client'[y] \in alive' \cup {0} /\ (client'[y] = 0 => marked'[y] = 0)
  BY <1>1, AllTypes, KnownNow
<1> QED BY <1>2, <1>3, <1>4, <1>5, KnownNext DEF Known

LEMMA LeaveKnown ==
  ASSUME Known, NEW ip \in Ip, Leave(ip), PipesInv', Table!Inv'
  PROVE  Known'
<1>1. /\ client' = [y \in Ip |-> IF y = ip THEN 0 ELSE client[y]]
      /\ marked' = [y \in Ip |-> IF y = ip THEN 0 ELSE marked[y]]
      /\ UNCHANGED <<pipe, writing, alive, pc, call>>
  BY DEF Leave, Closed, table, pipes
<1>2. ASSUME NEW y \in Ip, NEW i \in Worker, client'[y] = i \/ Looks(i, y)', marked'[y] \in Worker
      PROVE  Asked(marked[y], i, y)'
  <2>1. y # ip /\ client'[y] = client[y] /\ marked'[y] = marked[y]
    BY <1>1, <1>2, KnownNow
  <2>2. Asked(marked[y], i, y)
    BY <1>1, <1>2, <2>1, KnownNow DEF Looks
  <2> QED BY <1>1, <2>1, <2>2 DEF Asked
<1>3. client' \in [Ip -> Worker \cup {0}] /\ marked' \in [Ip -> Worker \cup {0, Orphan}]
  BY <1>1, AllTypes
<1>4. \A y \in Ip : client'[y] \in alive' \cup {0} /\ (client'[y] = 0 => marked'[y] = 0)
  BY <1>1, AllTypes, KnownNow
<1>5. \A q \in Worker : pc'[q] # "idle" => q \in alive' /\ writing'[q] = Nothing
  BY <1>1, KnownNow
<1> QED BY <1>2, <1>3, <1>4, <1>5, KnownNext DEF Known

LEMMA UpdateKnown ==
  ASSUME Known, NEW p \in Worker, Update(p), PipesInv', Table!Inv'
  PROVE  Known'
<1>1. /\ Free(p) /\ pc[p] = "idle"
      /\ writing' = [writing EXCEPT ![p] = [at |-> 1, kind |-> "update"]]
      /\ UNCHANGED <<pipe, alive, pc, call, client, marked>>
  BY DEF Update, Trigger, Start, Free, table
<1>2. ASSUME NEW y \in Ip, NEW i \in Worker, client'[y] = i \/ Looks(i, y)', marked'[y] \in Worker
      PROVE  Asked(marked[y], i, y)'
  <2>1. Asked(marked[y], i, y) /\ marked[y] \in Worker
    BY <1>1, <1>2, KnownNow DEF Looks
  <2>2. CASE marked[y] = p
    BY <1>1, <2>1, <2>2, FreeTold DEF Asked
  <2>3. CASE marked[y] # p
    BY <1>1, <2>1, <2>3, AllTypes, Types DEF Asked
  <2> QED BY <2>2, <2>3
<1>3. \A q \in Worker : pc'[q] # "idle" => q \in alive' /\ writing'[q] = Nothing
  <2> SUFFICES ASSUME NEW q \in Worker, pc'[q] # "idle" PROVE q \in alive' /\ writing'[q] = Nothing
    OBVIOUS
  <2> QED BY <1>1, AllTypes, KnownNow, Types
<1> QED BY <1>1, <1>2, <1>3, AllTypes, KnownNow, KnownNext DEF Known

\* A worker that dies takes its clients with it, and its own requests.
LEMMA KilledKnown ==
  ASSUME Known, NEW p \in Worker, Killed(p), PipesInv', Table!Inv'
  PROVE  Known'
<1>1. /\ alive' = alive \ {p}
      /\ writing' = [writing EXCEPT ![p] = Nothing]
      /\ pc' = [pc EXCEPT ![p] = "idle"]
      /\ call' = [call EXCEPT ![p] = Table!NoCall]
      /\ client' = [ip \in Ip |-> IF client[ip] = p THEN 0 ELSE client[ip]]
      /\ marked' = [ip \in Ip |-> IF client[ip] = p THEN 0
                                  ELSE IF marked[ip] = p THEN Orphan ELSE marked[ip]]
      /\ UNCHANGED pipe
  BY DEF Killed, Die, Table!Kill
<1>2. ASSUME NEW y \in Ip, NEW i \in Worker, client'[y] = i \/ Looks(i, y)', marked'[y] \in Worker
      PROVE  Asked(marked[y], i, y)'
  <2>1. /\ client[y] # p /\ marked[y] # p
        /\ client'[y] = client[y] /\ marked'[y] = marked[y] /\ marked[y] \in Worker
    BY <1>1, <1>2, KnownNow
  <2>2. client[y] = i \/ Looks(i, y)
    BY <1>1, <1>2, <2>1, AllTypes DEF Looks
  <2>3. Asked(marked[y], i, y)
    BY <2>1, <2>2, KnownNow
  <2> QED BY <1>1, <2>1, <2>3, AllTypes, Types DEF Asked
<1>3. \A q \in Worker : pc'[q] # "idle" => q \in alive' /\ writing'[q] = Nothing
  <2> SUFFICES ASSUME NEW q \in Worker, pc'[q] # "idle" PROVE q \in alive' /\ writing'[q] = Nothing
    OBVIOUS
  <2> QED BY <1>1, AllTypes, KnownNow, Types
<1>4. client' \in [Ip -> Worker \cup {0}] /\ marked' \in [Ip -> Worker \cup {0, Orphan}]
  BY <1>1, AllTypes
<1>5. \A y \in Ip : client'[y] \in alive' \cup {0} /\ (client'[y] = 0 => marked'[y] = 0)
  BY <1>1, AllTypes, KnownNow
<1> QED BY <1>2, <1>3, <1>4, <1>5, KnownNext DEF Known

\* A byte written goes to a worker that is to be told, or brings the next nearer.
LEMMA WriteKnown ==
  ASSUME Known, NEW p \in Proc, Write(p), UNCHANGED <<table, client, marked>>, PipesInv', Table!Inv'
  PROVE  Known'
<1> DEFINE to   == writing[p].at
           kind == writing[p].kind
<1>1. /\ to # 0 /\ to \in 0..NumWorkers /\ kind \in Kind
      /\ pipe' = [pipe EXCEPT ![to] = [pipe[to] EXCEPT ![kind] = pipe[to][kind] + 1]]
      /\ writing' = [writing EXCEPT ![p] = Following(writing[p])]
      /\ UNCHANGED <<alive, pc, call, client, marked>>
  BY AllTypes DEF Write, Written, table
<1>2. to \in Worker
  BY <1>1, PipesAssumption DEF Worker
<1>3. ASSUME NEW y \in Ip, NEW i \in Worker, client'[y] = i \/ Looks(i, y)', marked'[y] \in Worker
      PROVE  Asked(marked[y], i, y)'
  <2>1. Asked(marked[y], i, y) /\ marked[y] \in Worker
    BY <1>1, <1>3, KnownNow DEF Looks
  <2>2. /\ pipe'[i]["disconnect"] \in Nat /\ pipe[i]["disconnect"] \in Nat
        /\ pipe[i]["disconnect"] > 0 => pipe'[i]["disconnect"] > 0
        /\ i = to /\ kind = "disconnect" => pipe'[i]["disconnect"] > 0
    <3>1. pipe[i] \in [Kind -> 0..Cap] /\ pipe[i]["disconnect"] \in Nat /\ "disconnect" \in Kind
      BY AllTypes DEF Kind
    <3>2. CASE i # to
      BY <1>1, <1>2, <3>1, <3>2, AllTypes
    <3>3. CASE i = to /\ kind # "disconnect"
      <4>1. pipe'[i] = [pipe[i] EXCEPT ![kind] = pipe[i][kind] + 1]
        BY <1>1, <1>2, <3>3, AllTypes
      <4> HIDE DEF kind, to
      <4> QED BY <3>1, <3>3, <4>1
    <3>4. CASE i = to /\ kind = "disconnect"
      <4>1. pipe'[i] = [pipe[i] EXCEPT !["disconnect"] = pipe[i]["disconnect"] + 1]
        BY <1>1, <1>2, <3>4, AllTypes
      <4> HIDE DEF kind, to
      <4> QED BY <3>1, <4>1
    <3> QED BY <3>2, <3>3, <3>4
  <2>3. CASE pipe[i]["disconnect"] > 0
    BY <1>1, <2>2, <2>3 DEF Asked
  <2>4. CASE call[marked[y]].ip = y /\ pc[marked[y]] \in {"wait to block", "block", "blocked"}
    BY <1>1, <2>4 DEF Asked
  <2>5. CASE writing[marked[y]].kind = "disconnect" /\ writing[marked[y]].at \in 1..i
    <3>1. CASE marked[y] # p
      BY <1>1, <2>1, <2>5, <3>1, AllTypes, Types DEF Asked
    <3>2. CASE marked[y] = p /\ to = i
      BY <1>1, <2>2, <2>5, <3>2 DEF Asked
    <3>3. CASE marked[y] = p /\ to # i
      <4>1. to \in 1..i-1 /\ i \in 1..NumWorkers /\ NumWorkers \in Nat
        BY <2>5, <3>3, PipesAssumption DEF Worker
      <4>2. writing'[p] = [at |-> to + 1, kind |-> kind]
        BY <1>1, <4>1, AllTypes DEF Following
      <4>3. to + 1 \in 1..i
        BY <4>1
      <4>4. writing'[p].kind = "disconnect" /\ writing'[p].at \in 1..i
        BY <2>5, <3>3, <4>2, <4>3
      <4> QED BY <1>1, <3>3, <4>4 DEF Asked
    <3> QED BY <3>1, <3>2, <3>3
  <2> QED BY <2>1, <2>3, <2>4, <2>5 DEF Asked
<1>4. \A q \in Worker : pc'[q] # "idle" => q \in alive' /\ writing'[q] = Nothing
  <2> SUFFICES ASSUME NEW q \in Worker, pc'[q] # "idle" PROVE q \in alive' /\ writing'[q] = Nothing
    OBVIOUS
  <2>1. q # p /\ writing[q] = Nothing /\ q \in alive
    BY <1>1, KnownNow DEF Nothing
  <2> QED BY <1>1, <2>1, AllTypes, Types
<1> QED BY <1>1, <1>3, <1>4, AllTypes, KnownNow, KnownNext DEF Known

\* The supervisor, and time, touch no client.
LEMMA RestKnown ==
  ASSUME Known, UNCHANGED <<pipe, pc, client, marked>>, alive \subseteq alive',
         \A p \in Worker : call'[p].ip = call[p].ip /\ writing'[p] = writing[p], PipesInv', Table!Inv'
  PROVE  Known'
<1>1. ASSUME NEW y \in Ip, NEW i \in Worker, client'[y] = i \/ Looks(i, y)', marked'[y] \in Worker
      PROVE  Asked(marked[y], i, y)'
  <2>1. Asked(marked[y], i, y) /\ marked[y] \in Worker
    BY <1>1, KnownNow DEF Looks
  <2> QED BY <2>1 DEF Asked
<1> QED BY <1>1, AllTypes, KnownNow, KnownNext DEF Known

LEMMA KnownInit == AllInit => Known
<1> SUFFICES ASSUME AllInit PROVE Known
  OBVIOUS
<1>1. PipesInv /\ Table!Inv
  BY PipesInitInv, TableInit DEF AllInit
<1>2. Together
  <2>1. /\ \A p \in Worker : pc[p] = "idle"
        /\ client = [ip \in Ip |-> 0] /\ marked = [ip \in Ip |-> 0]
    BY DEF AllInit, Table!Init
  <2>2. \A i \in Worker, ip \in Ip : ~Looks(i, ip)
    BY <2>1 DEF Looks
  <2>3. /\ \A ip \in Ip : client[ip] = 0 /\ marked[ip] = 0
        /\ client \in [Ip -> Worker \cup {0}] /\ marked \in [Ip -> Worker \cup {0, Orphan}]
    BY <2>1
  <2> QED BY <2>1, <2>2, <2>3 DEF Together
<1>3. NotForgotten
  BY DEF AllInit, NotForgotten
<1> QED BY <1>1, <1>2, <1>3 DEF Known, AllInv

LEMMA KnownStep == Known /\ [AllNext]_all => Known'
<1> SUFFICES ASSUME Known, [AllNext]_all PROVE Known'
  OBVIOUS
<1>1. PipesInv'
  BY PipesStep, PipesNextInv DEF Known, AllInv
<1>2. Table!Inv'
  BY TableStep, TableNextInv DEF Known, AllInv
<1>3. ASSUME NEW p \in Worker, NEW ip \in Ip, Request(p, ip) \/ Arrive(p, ip) PROVE Known'
  BY <1>1, <1>2, <1>3, RequestKnown, ArriveKnown
<1>4. ASSUME NEW p \in Worker, \/ InTable(p) \/ AddressBlocked(p) \/ Admitted(p)
                               \/ Told(p) \/ Update(p) \/ Killed(p)
      PROVE  Known'
  BY <1>1, <1>2, <1>4, InTableKnown, AddressBlockedKnown, AdmittedKnown, ToldKnown, UpdateKnown,
     KilledKnown
<1>5. ASSUME NEW ip \in Ip, Leave(ip) PROVE Known'
  BY <1>1, <1>2, <1>5, LeaveKnown
<1>6. CASE Others
  <2>1. ASSUME NEW p \in Proc, Write(p) PROVE Known'
    BY <1>1, <1>2, <1>6, <2>1, WriteKnown DEF Others
  <2>2. ASSUME NEW i \in Worker, ReapWorker(i) \/ Respawn(i) PROVE Known'
    <3>1. UNCHANGED <<pipe, pc, call, client, marked>> /\ alive \subseteq alive'
      BY <1>6, <2>2 DEF Others, ReapWorker, Respawn, table
    <3>2. \A p \in Worker : writing'[p] = writing[p]
      BY <2>2, AllTypes, Types DEF ReapWorker, Respawn, Start
    <3> QED BY <1>1, <1>2, <3>1, <3>2, RestKnown
  <2> QED BY <1>6, <2>1, <2>2 DEF Others
<1>7. CASE Table!Tick /\ UNCHANGED <<pipes, client, marked>>
  <2>1. \A p \in Worker : call'[p].ip = call[p].ip
    BY <1>7, AllTypes DEF Table!Tick
  <2>2. UNCHANGED <<pipe, pc, client, marked, alive, writing>>
    BY <1>7 DEF Table!Tick, pipes
  <2> QED BY <1>1, <1>2, <2>1, <2>2, RestKnown
<1>8. CASE UNCHANGED all
  BY <1>1, <1>2, <1>8, RestKnown DEF all, pipes, table
<1> QED BY <1>3, <1>4, <1>5, <1>6, <1>7, <1>8 DEF AllNext

LEMMA AllKnown == AllSpec => []Known
<1> QED BY KnownInit, KnownStep, PTL DEF AllSpec

\* Together too, a request to disconnect stays in the pipe until it is read
\* and a block lasts its time, whatever a worker does with the one while it is
\* busy with the other (status.c).
THEOREM AllInvariant == AllSpec => []AllInv
<1>1. Known => AllInv
  BY DEF Known
<1> QED BY <1>1, AllKnown, PTL

\* No client that is to be disconnected is forgotten on the way from the worker
\* that was asked to the one that serves it, unless the first of them dies
\* (handle_disconnect_client, status_handle_worker_event).
THEOREM Remembered == AllSpec => []NotForgotten
<1>1. Known => NotForgotten
  BY DEF Known
<1> QED BY <1>1, AllKnown, PTL

\* Every behaviour of the whole is one of the pipes by themselves and one of the
\* table by itself: what is shown of either holds in the program.
THEOREM WholeImplementsParts == AllSpec => PipesSpec /\ Table!Spec
<1>1. AllInit => PipesInit /\ Table!Init
  BY DEF AllInit
<1> QED BY <1>1, AllKnown, PipesStep, TableStep, PTL DEF AllSpec, PipesSpec, Table!Spec

\* A block lasts its time in a table of any size (status_block_client_addr).
THEOREM TableInvariant == Table!Spec => []Table!Inv
<1> QED BY TableInit, TableNextInv, PTL DEF Table!Spec

\* A look-up answers as the last block of the address says, by the clock of the
\* worker that looks (status_client_addr_is_blocked).
THEOREM Answers == AllSpec => AnswersRight
<1> DEFINE Right == \A p \in Worker :
              (pc[p] = "look" /\ pc'[p] = "looked") =>
                /\ until[call[p].ip] > 0 => answer'[p] = "blocked"
                /\ answer'[p] = "blocked" => until[call[p].ip] + call[p].age > 0
<1>1. Table!Inv /\ [Table!Next]_Table!vars => [Right]_Table!vars
  BY LookRight
<1>2. AnswersRight <=> [][Right]_Table!vars
  BY DEF AnswersRight, Table!AnswersRight
<1>3. Table!Spec => AnswersRight
  BY <1>1, <1>2, TableInvariant, PTL DEF Table!Spec
<1> QED BY <1>3, WholeImplementsParts
=============================================================================
