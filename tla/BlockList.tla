----------------------------- MODULE BlockList -----------------------------
(***************************************************************************)
(* The table of blocked client addresses in shared memory (status.c) and   *)
(* its lock.  A worker reads the clock before it waits for the lock, so    *)
(* what it calls now may be past.  Times are relative to the present: an   *)
(* entry holds what is left of its block, a worker how old its now is.     *)
(***************************************************************************)
EXTENDS Integers, FiniteSets

CONSTANTS
  Pid, NoPid,   \* workers, and 0
  Ip, NoIp,     \* addresses, and the empty string
  TableSizes,   \* STATUS_MAX_BLOCKED_IPS: the cases
  BlockTime,    \* STATUS_DISCONNECT_IP_BLOCK_MS, in ticks
  MaxWait,      \* bound: ticks a worker waits for the lock
  MaxKills      \* bound: workers killed

VARIABLES
  entry,    \* blocked_ips: ip, and left = expires_at_ms - now
  lock,     \* blocked_ip_owner_pid
  pc,       \* what each worker is doing
  call,     \* its call: ip, age of its now_ms
  answer,   \* what the lookup of each worker is to return
  kills,    \* number of workers killed
  until     \* history: what is left of the last block of each address, unless
            \* it was given up because the table was full of blocks

vars == <<entry, lock, pc, call, answer, kills, until>>

Entry   == DOMAIN entry
Least   == -MaxWait            \* expired for every worker's now
Empty   == [ip |-> NoIp, left |-> Least]
NoCall  == [ip |-> NoIp, age |-> 0]
Lowest(S) == CHOOSE i \in S : \A j \in S : i <= j

\* expires_at_ms - now_ms as worker p computes it
Left(p, i) == entry[i].left + call[p].age

\* the entry of an address a lookup meets
First(ip) == {i \in Entry : entry[i].ip = ip /\ \A j \in 1..i-1 : entry[j].ip # ip}

-----------------------------------------------------------------------------
(* Both calls read the clock and wait for the lock.                        *)

Begin(p, ip, what) ==
  /\ pc[p] = "idle"
  /\ call' = [call EXCEPT ![p] = [NoCall EXCEPT !.ip = ip]]
  /\ pc' = [pc EXCEPT ![p] = what]
  /\ UNCHANGED <<entry, lock, answer, kills, until>>

\* lock_blocked_ips
Lock(p, what, next) ==
  /\ pc[p] = what /\ lock = NoPid
  /\ lock' = p
  /\ pc' = [pc EXCEPT ![p] = next]
  /\ UNCHANGED <<entry, call, answer, kills, until>>

\* unlock_blocked_ips
Unlock(p) ==
  /\ pc[p] \in {"blocked", "looked"}
  /\ lock' = IF lock = p THEN NoPid ELSE lock
  /\ pc' = [pc EXCEPT ![p] = "idle"]
  /\ call' = [call EXCEPT ![p] = NoCall]
  /\ answer' = [answer EXCEPT ![p] = "none"]
  /\ UNCHANGED <<entry, kills, until>>

-----------------------------------------------------------------------------
(* status_block_client_addr                                                *)

Same(p)   == {i \in Entry : entry[i].ip = call[p].ip /\ Left(p, i) > 0}
Unused(p) == {i \in Entry : entry[i].ip = NoIp \/ Left(p, i) <= 0}
Oldest    == Lowest({i \in Entry : \A j \in Entry : entry[i].left <= entry[j].left})

Place(p) == IF Same(p) # {} THEN Lowest(Same(p))
            ELSE IF Unused(p) # {} THEN Lowest(Unused(p)) ELSE Oldest

\* the lock is held: nobody looks between the writes
Block(p) ==
  /\ pc[p] = "block"
  /\ LET at == Place(p)
         left == BlockTime - call[p].age
         given == IF Same(p) \cup Unused(p) = {} /\ Oldest \in First(entry[Oldest].ip)
                  THEN [until EXCEPT ![entry[Oldest].ip] = Least] ELSE until
     IN  /\ entry' = [entry EXCEPT ![at] = [ip |-> call[p].ip, left |-> left]]
         /\ until' = [given EXCEPT ![call[p].ip] = left]
  /\ pc' = [pc EXCEPT ![p] = "blocked"]
  /\ UNCHANGED <<lock, call, answer, kills>>

-----------------------------------------------------------------------------
(* status_client_addr_is_blocked: the first entry of the address decides   *)

\* mutant: an entry that just expired still blocks
FindLate(p) ==
  /\ pc[p] = "look"
  /\ LET S == {i \in Entry : entry[i].ip = call[p].ip /\ Left(p, i) >= 0}
     IN  answer' = [answer EXCEPT ![p] = IF S = {} THEN "free" ELSE "blocked"]
  /\ pc' = [pc EXCEPT ![p] = "looked"]
  /\ UNCHANGED <<entry, lock, call, kills, until>>

Find(p) ==
  /\ pc[p] = "look"
  /\ LET S == {i \in Entry : entry[i].ip = call[p].ip}
         i == Lowest(S)
     IN  IF S = {}
         THEN answer' = [answer EXCEPT ![p] = "free"] /\ UNCHANGED entry
         ELSE IF Left(p, i) <= 0
         THEN /\ answer' = [answer EXCEPT ![p] = "free"]
              /\ entry' = [entry EXCEPT ![i] = Empty]
         ELSE answer' = [answer EXCEPT ![p] = "blocked"] /\ UNCHANGED entry
  /\ pc' = [pc EXCEPT ![p] = "looked"]
  /\ UNCHANGED <<lock, call, kills, until>>

-----------------------------------------------------------------------------
(* The environment.  status_reap_worker leaves this lock alone: what a     *)
(* killed worker held stays held, and the worker that replaces it waits.   *)

Kill(p) ==
  /\ kills < MaxKills
  /\ kills' = kills + 1
  /\ pc' = [pc EXCEPT ![p] = "idle"]
  /\ call' = [call EXCEPT ![p] = NoCall]
  /\ answer' = [answer EXCEPT ![p] = "none"]
  /\ UNCHANGED <<entry, lock, until>>

Down(t) == IF t > Least THEN t - 1 ELSE t

Tick ==
  /\ \A p \in Pid : pc[p] # "idle" => call[p].age < MaxWait
  /\ entry' = [i \in Entry |-> [entry[i] EXCEPT !.left = Down(@)]]
  /\ until' = [ip \in Ip |-> Down(until[ip])]
  /\ call' = [p \in Pid |-> IF pc[p] = "idle" THEN call[p] ELSE [call[p] EXCEPT !.age = @ + 1]]
  /\ UNCHANGED <<lock, pc, answer, kills>>

Init ==
  /\ \E n \in TableSizes : entry = [i \in 1..n |-> Empty]
  /\ lock = NoPid
  /\ pc = [p \in Pid |-> "idle"] /\ call = [p \in Pid |-> NoCall]
  /\ answer = [p \in Pid |-> "none"]
  /\ kills = 0
  /\ until = [ip \in Ip |-> Least]

Work(p) ==
  \/ Lock(p, "wait to block", "block") \/ Block(p)
  \/ Lock(p, "wait to look", "look") \/ Find(p)
  \/ Unlock(p)

Next ==
  \/ \E p \in Pid : Work(p) \/ Kill(p)
  \/ \E p \in Pid, ip \in Ip : Begin(p, ip, "wait to block") \/ Begin(p, ip, "wait to look")
  \/ Tick

Spec == Init /\ [][Next]_vars

\* A worker that waits for the lock tries again and again.
FairSpec == Spec /\ \A p \in Pid : SF_vars(Work(p))
-----------------------------------------------------------------------------
Times == Least..BlockTime

\* The variables' types.
TypeOK ==
  /\ \E n \in TableSizes : Entry = 1..n
  /\ entry \in [Entry -> [ip : Ip \cup {NoIp}, left : Times]]
  /\ lock \in Pid \cup {NoPid}
  /\ pc \in [Pid -> {"idle", "wait to block", "block", "wait to look", "look", "blocked", "looked"}]
  /\ call \in [Pid -> [ip : Ip \cup {NoIp}, age : 0..MaxWait]]
  /\ answer \in [Pid -> {"none", "free", "blocked"}]
  /\ kills \in 0..MaxKills
  /\ until \in [Ip -> Times]

\* A block lasts: the entry a lookup finds first holds what is left of the
\* last block of the address, although expired entries of the same address may
\* follow it and workers see different times.  Only a table full of blocks may
\* give one up.
BlockLasts ==
  \A ip \in Ip : until[ip] > 0 => \E i \in First(ip) : entry[i].left = until[ip]

\* Who changes or reads the table holds its lock, for a call with an address.
Locked == \A p \in Pid : /\ pc[p] \in {"block", "blocked", "look", "looked"} => lock = p
                         /\ pc[p] # "idle" => call[p].ip \in Ip

\* No entry outlives the last block of its address, and of several entries of
\* one address only the first may have time left.
FirstDecides ==
  \A i \in Entry : entry[i].ip # NoIp =>
    /\ entry[i].left <= until[entry[i].ip]
    /\ \A j \in 1..i-1 : entry[j].ip = entry[i].ip =>
         entry[i].left <= 0 /\ (entry[i].left < entry[j].left \/ entry[i].left = Least)

\* The types, and every block answered until its time.
Inv == TypeOK /\ Locked /\ FirstDecides /\ BlockLasts

\* A lookup finds every block that has time left, whoever cleared or reused
\* expired entries meanwhile, and none that was over when it read the clock.
AnswersRight ==
  [][\A p \in Pid :
       (pc[p] = "look" /\ pc'[p] = "looked") =>
         /\ until[call[p].ip] > 0 => answer'[p] = "blocked"
         /\ answer'[p] = "blocked" => until[call[p].ip] + call[p].age > 0]_vars

\* Every request is answered, even after a worker was killed.
Answered == \A p \in Pid : pc[p] = "wait to look" ~> pc[p] = "idle"
=============================================================================
