------------------------- MODULE ClientSlotsProofs -------------------------
(***************************************************************************)
(* Machine-checked proofs about ClientSlots, for any number of workers and *)
(* of slots, any limit and any number of deaths; and, behind them, about   *)
(* RtspSession, the upstream session of one client, for all its limits and *)
(* whatever the server answers.                                            *)
(***************************************************************************)
EXTENDS ClientSlots, RtspSession, FiniteSetTheorems, TLAPS

Register == [slot : Slot, cnt : Nat, goal : Nat, ver : 0..MaxVersion, gen : Nat,
             id : Nat, x : 0..1, y : 0..1]
Payload  == [id : Nat, x : 0..1, y : 0..1]

\* What the invariant says of one worker.
Local(p) ==
  /\ Registering(p) /\ Holding(p) /\ Living(p) /\ CopyNames(p)
  /\ pc[p] # "noslot"
  /\ \A s \in conns[p] : owner[s] = p /\ active[s]

\* What nothing that happens to other workers takes from q.
Spared(q) ==
  /\ pc'[q] = pc[q] /\ reg'[q] = reg[q] /\ conns'[q] = conns[q] /\ todo'[q] = todo[q]
  /\ q \in running' <=> q \in running
  /\ \A s \in Slot : owner[s] = q =>
       owner'[s] = q /\ active'[s] = active[s] /\ ver'[s] = ver[s] /\ pay'[s].id = pay[s].id
  /\ admission = q => admission' = q
  /\ pc[q] \in {"scan", "reserve"} => \A s \in Slot : owner[s] = NoPid => owner'[s] = NoPid

\* Fresh registers, and a fresh payload.
LEMMA Fresh ==
  /\ Regs \in Register /\ Blank \in Payload
  /\ \A s \in Slot : [Regs EXCEPT !.slot = s] \in Register
BY SlotsAssumption DEF Regs, Register, Blank, Payload, Slot

\* Slots can be counted.
LEMMA Finite ==
  /\ IsFiniteSet(Slot) /\ Cardinality(Slot) = NumSlots
  /\ \A T \in SUBSET Slot : IsFiniteSet(T) /\ Cardinality(T) \in Nat
<1>1. IsFiniteSet(Slot) /\ Cardinality(Slot) = NumSlots
  BY SlotsAssumption, FS_Interval DEF Slot
<1> QED BY <1>1, FS_Subset, FS_CardinalityType

\* Fewer slots taken, fewer counted.
LEMMA Fewer ==
  ASSUME NEW A \in SUBSET Slot, NEW B \in SUBSET A
  PROVE  Cardinality(B) \in Nat /\ Cardinality(A) \in Nat /\ Cardinality(B) <= Cardinality(A)
BY Finite, FS_Subset

\* The invariant, worker by worker.
LEMMA Parts ==
  ASSUME Inv
  PROVE  TypeOK /\ Capacity /\ SlotNames /\ Reaping /\ \A p \in Pid : Local(p)
BY DEF Inv, Local, AdmittedFindsSlot, ConnectionsOwned

LEMMA Whole ==
  ASSUME TypeOK', Capacity', SlotNames', Reaping', \A p \in Pid : Local(p)'
  PROVE  Inv'
BY DEF Inv, Local, AdmittedFindsSlot, ConnectionsOwned

\* A worker that is spared keeps its part of the invariant.
LEMMA Bystander ==
  ASSUME Inv, TypeOK', NEW q \in Pid, Spared(q), maxclients' = maxclients,
         \A s \in Slot : gen[s] <= gen'[s]
  PROVE  Local(q)'
<1>1. Local(q) /\ TypeOK
  BY Parts
<1>2. S(q)' = S(q) /\ S(q) \in Slot /\ reg[q] \in Register
  BY <1>1 DEF Spared, S, TypeOK, Register
<1>3. Registering(q)'
  <2>1. pc'[q] \in Locked => admission' = q
    BY <1>1 DEF Local, Registering, Spared
  <2>2. ASSUME pc[q] = "scan"
        PROVE  Cardinality({s \in 1..(S(q) - 1) : owner'[s] # NoPid}) <= reg[q].cnt
    <3>1. {s \in 1..(S(q) - 1) : owner'[s] # NoPid} \subseteq {s \in 1..(S(q) - 1) : owner[s] # NoPid}
      BY <2>2, <1>2, SlotsAssumption DEF Spared, Slot
    <3>2. {s \in 1..(S(q) - 1) : owner[s] # NoPid} \subseteq Slot
      BY <1>2, SlotsAssumption DEF Slot
    <3>3. Cardinality({s \in 1..(S(q) - 1) : owner[s] # NoPid}) <= reg[q].cnt /\ reg[q].cnt \in Nat
      BY <1>1, <1>2, <2>2 DEF Local, Registering, Register
    <3> QED BY <3>1, <3>2, <3>3, Fewer
  <2>3. ASSUME pc[q] = "reserve"
        PROVE  Cardinality(Reserved') < maxclients
    <3>1. Reserved' \subseteq Reserved /\ Reserved \subseteq Slot
      BY <2>3 DEF Spared, Reserved
    <3>2. Cardinality(Reserved) < maxclients /\ maxclients \in Nat
      BY <1>1, <2>3, SlotsAssumption DEF Local, Registering, TypeOK
    <3> QED BY <3>1, <3>2, Fewer
  <2>4. ASSUME pc[q] = "reserve"
        PROVE  \E s \in S(q)..NumSlots : owner'[s] = NoPid
    BY <1>1, <1>2, <2>4, SlotsAssumption DEF Local, Registering, Spared, Slot
  <2> QED BY <2>1, <2>2, <2>3, <2>4, <1>2 DEF Registering, Spared
<1>4. Holding(q)'
  BY <1>1, <1>2 DEF Local, Holding, Spared, Writing, Unconnected
<1>5. Living(q)'
  BY <1>1 DEF Local, Living, Spared
<1>6. CopyNames(q)'
  <2>1. gen[S(q)] \in Nat /\ gen'[S(q)] \in Nat /\ gen[S(q)] <= gen'[S(q)]
    BY <1>1, <1>2 DEF TypeOK
  <2>2. reg[q].gen \in Nat /\ reg[q].id \in Nat
    BY <1>2 DEF Register
  <2>3. reg[q].gen..gen[S(q)] \subseteq reg[q].gen..gen'[S(q)]
    BY <2>1, <2>2
  <2>4. reg'[q] = reg[q] /\ pc'[q] = pc[q]
    BY DEF Spared
  <2>5. /\ pc[q] \in Compared => reg[q].gen <= gen[S(q)]
        /\ pc[q] \in Compared \ {"copy x"} => reg[q].id = 0 \/ reg[q].id \in reg[q].gen..gen[S(q)]
        /\ pc[q] \in {"active again", "copied"} => reg[q].id \in {0, reg[q].gen}
        /\ pc[q] = "request" => reg[q].gen = reg[q].goal
    BY <1>1 DEF Local, CopyNames
  <2>6. pc[q] \in Compared => reg[q].gen <= gen'[S(q)]
    <3>1. \A a, b, c \in Nat : a <= b /\ b <= c => a <= c
      OBVIOUS
    <3> QED BY <2>1, <2>2, <2>5, <3>1
  <2>7. pc[q] \in Compared \ {"copy x"} => reg[q].id = 0 \/ reg[q].id \in reg[q].gen..gen'[S(q)]
    BY <2>3, <2>5
  <2> QED BY <1>2, <2>4, <2>5, <2>6, <2>7 DEF CopyNames
<1>7. \A s \in conns'[q] : owner'[s] = q /\ active'[s]
  BY <1>1 DEF Local, Spared, TypeOK
<1> QED BY <1>1, <1>3, <1>4, <1>5, <1>6, <1>7 DEF Local, Spared

\* A worker between calls, or copying but with nothing read that matters yet.
Claimless == {"idle", "serve", "active?", "version", "generation", "confirm"}

LEMMA Plain ==
  ASSUME NEW p \in Pid, pc'[p] \in Claimless, todo'[p] \subseteq conns'[p],
         pc'[p] = "idle" => todo'[p] = {},
         p \in running',
         \A s \in conns'[p] : owner'[s] = p /\ active'[s]
  PROVE  Local(p)'
BY DEF Local, Registering, Holding, Living, CopyNames, Claimless, Locked, Unconnected, Writing, Compared

\* The step of one worker.
LEMMA Step ==
  ASSUME Inv, TypeOK', NEW p \in Pid, \A q \in Pid \ {p} : Spared(q),
         maxclients' = maxclients, \A s \in Slot : gen[s] <= gen'[s],
         Local(p)', Capacity', SlotNames', Reaping'
  PROVE  Inv'
<1>1. ASSUME NEW q \in Pid, q # p PROVE Local(q)'
  BY <1>1, Bystander
<1> QED BY <1>1, Whole

\* A step that leaves shared memory, the processes and the connections alone.
LEMMA Inside ==
  ASSUME Inv, TypeOK', NEW p \in Pid, UNCHANGED <<shared, procs, conns, wanted>>,
         \A q \in Pid \ {p} : pc'[q] = pc[q] /\ reg'[q] = reg[q] /\ todo'[q] = todo[q]
                              /\ (admission = q => admission' = q),
         Local(p)'
  PROVE  Inv'
<1>1. \A q \in Pid \ {p} : Spared(q)
  BY DEF Spared, shared, procs
<1>2. maxclients' = maxclients /\ \A s \in Slot : gen[s] <= gen'[s]
  BY Parts DEF shared, procs, TypeOK
<1>3. Capacity' /\ SlotNames' /\ Reaping'
  BY Parts DEF shared, procs, Capacity, Reserved, SlotNames, Reaping
<1> QED BY <1>1, <1>2, <1>3, Step

\* A call that returns.
LEMMA Returns ==
  ASSUME TypeOK, NEW p \in Pid, Return(p)
  PROVE  /\ pc' \in [Pid -> Labels] /\ pc'[p] \in {"idle", "serve"}
         /\ pc'[p] = "idle" => todo[p] = {}
         /\ reg' \in [Pid -> Register] /\ reg'[p] = Regs
         /\ \A q \in Pid \ {p} : pc'[q] = pc[q] /\ reg'[q] = reg[q]
BY Fresh DEF TypeOK, Return, Labels, Register

\* ... after which the worker has nothing left to keep, if it kept its connections.
LEMMA ReturnLocal ==
  ASSUME Inv, NEW p \in running, Return(p), todo' = todo, p \in running',
         todo[p] \subseteq conns'[p],
         \A s \in conns'[p] : owner'[s] = p /\ active'[s]
  PROVE  Local(p)'
<1>1. p \in Pid /\ TypeOK
  BY Parts DEF TypeOK
<1>2. pc'[p] \in Claimless /\ (pc'[p] = "idle" => todo'[p] = {})
  BY <1>1, Returns DEF Claimless
<1> QED BY <1>1, <1>2, Plain

\* ... or if it changed nothing but its own registers.
LEMMA ReturnInv ==
  ASSUME Inv, TypeOK', NEW p \in running, Return(p),
         UNCHANGED <<shared, procs, conns, todo, wanted>>,
         \A q \in Pid \ {p} : admission = q => admission' = q
  PROVE  Inv'
<1>1. p \in Pid /\ TypeOK /\ Local(p)
  BY Parts DEF TypeOK
<1>2. Local(p)'
  BY <1>1, ReturnLocal DEF procs, shared, Local, Living
<1>3. \A q \in Pid \ {p} : pc'[q] = pc[q] /\ reg'[q] = reg[q] /\ todo'[q] = todo[q]
  BY <1>1, Returns
<1> QED BY <1>1, <1>2, <1>3, Inside

-----------------------------------------------------------------------------
(* Registration                                                            *)

\* At first every slot is free and nobody runs.
LEMMA InitInv == Init => Inv
<1> SUFFICES ASSUME Init PROVE Inv
  OBVIOUS
<1>1. TypeOK
  BY Fresh, SlotsAssumption DEF Init, TypeOK, Register, Payload, Slot, Labels, NoReap
<1>2. Capacity
  <2>1. Reserved = {}
    BY DEF Init, Reserved
  <2> QED BY <2>1, FS_EmptySet, SlotsAssumption DEF Init, Capacity
<1>3. AdmittedFindsSlot /\ ConnectionsOwned /\ SlotNames /\ Reaping
  BY DEF Init, AdmittedFindsSlot, ConnectionsOwned, SlotNames, Reaping, NoReap, Blank
<1>4. ASSUME NEW p \in Pid PROVE Registering(p) /\ Holding(p) /\ Living(p) /\ CopyNames(p)
  BY DEF Init, Registering, Holding, Living, CopyNames, Locked, Unconnected, Writing, Compared
<1> QED BY <1>1, <1>2, <1>3, <1>4 DEF Inv

\* Only the holder of the guard is between Lock and Unlock.
LEMMA OneRegisters ==
  ASSUME Inv, NEW p \in Pid, pc[p] \in Locked, NEW q \in Pid \ {p}
  PROVE  pc[q] \notin Locked /\ admission # q
BY Parts DEF Local, Registering

LEMMA LockInv == ASSUME Inv, NEW p \in Pid, Lock(p) PROVE Inv'
<1>1. TypeOK /\ Local(p) /\ NumSlots \in Nat /\ NoPid \notin Pid
  BY Parts, SlotsAssumption
<1>2. TypeOK'
  BY <1>1, Fresh DEF Lock, TypeOK, Goto, Register, Labels, Locked, shared, procs
<1>3. pc'[p] = "scan" /\ S(p)' = 1 /\ reg'[p].cnt = 0 /\ admission' = p /\ p \in running'
  BY <1>1 DEF Lock, TypeOK, Goto, At, S, Regs, procs
<1>4. Local(p)'
  <2>1. {s \in 1..(S(p)' - 1) : owner'[s] # NoPid} = {}
    BY <1>3
  <2>2. Registering(p)'
    BY <1>3, <2>1, FS_EmptySet DEF Registering
  <2>3. Holding(p)' /\ CopyNames(p)' /\ pc'[p] # "noslot"
    BY <1>3 DEF Holding, CopyNames, Unconnected, Writing, Compared
  <2>4. Living(p)' /\ \A s \in conns'[p] : owner'[s] = p /\ active'[s]
    BY <1>1, <1>3 DEF Lock, Local, Living, shared
  <2> QED BY <2>2, <2>3, <2>4 DEF Local
<1>5. \A q \in Pid \ {p} : pc'[q] = pc[q] /\ reg'[q] = reg[q] /\ todo'[q] = todo[q]
                           /\ (admission = q => admission' = q)
  BY <1>1 DEF Lock, TypeOK, Goto
<1> QED BY <1>2, <1>4, <1>5, Inside DEF Lock

\* What has been counted, with one more slot.
Taken(n) == {s \in 1..n : owner[s] # NoPid}

LEMMA CountOne ==
  ASSUME TypeOK, NEW n \in Slot
  PROVE  /\ Cardinality(Taken(n - 1)) \in Nat /\ Cardinality(Taken(n)) \in Nat
         /\ owner[n] = NoPid => Cardinality(Taken(n)) = Cardinality(Taken(n - 1))
         /\ owner[n] # NoPid => Cardinality(Taken(n)) = Cardinality(Taken(n - 1)) + 1
<1>1. Taken(n - 1) \in SUBSET Slot /\ Taken(n) \in SUBSET Slot
  BY SlotsAssumption DEF Slot, Taken
<1>2. /\ IsFiniteSet(Taken(n - 1)) /\ Cardinality(Taken(n - 1)) \in Nat
      /\ Cardinality(Taken(n)) \in Nat
  BY <1>1, Finite
<1>3. ASSUME owner[n] = NoPid PROVE Taken(n) = Taken(n - 1)
  BY <1>3, SlotsAssumption DEF Slot, Taken
<1>4. ASSUME owner[n] # NoPid PROVE Taken(n) = Taken(n - 1) \cup {n} /\ n \notin Taken(n - 1)
  BY <1>4, SlotsAssumption DEF Slot, Taken
<1>5. ASSUME owner[n] # NoPid
      PROVE  Cardinality(Taken(n - 1) \cup {n}) = Cardinality(Taken(n - 1)) + 1
  BY <1>2, <1>4, <1>5, FS_AddElement
<1> QED BY <1>2, <1>3, <1>4, <1>5

\* Fewer taken than there are slots: one is free.
LEMMA SomeFree ==
  ASSUME TypeOK, Cardinality(Reserved) < maxclients
  PROVE  \E s \in 1..NumSlots : owner[s] = NoPid
<1>1. maxclients <= NumSlots /\ maxclients \in Nat /\ NumSlots \in Nat
  BY SlotsAssumption DEF TypeOK
<1>2. Reserved # Slot /\ Reserved \subseteq Slot
  <2>1. Reserved \in SUBSET Slot
    BY DEF Reserved
  <2>2. Cardinality(Reserved) \in Nat /\ Cardinality(Slot) = NumSlots
    BY <2>1, Finite
  <2> QED BY <1>1, <2>1, <2>2
<1> QED BY <1>2 DEF Reserved, Slot

\* Reading on: another slot and another count.
LEMMA ReadOn ==
  ASSUME TypeOK, NEW p \in Pid, NEW s \in Slot, NEW c \in Nat,
         reg' = [reg EXCEPT ![p].slot = s, ![p].cnt = c]
  PROVE  /\ reg' \in [Pid -> Register] /\ reg'[p].slot = s /\ reg'[p].cnt = c
         /\ \A q \in Pid \ {p} : reg'[q] = reg[q]
<1>1. reg \in [Pid -> Register]
  BY DEF TypeOK, Register
<1>2. \A r \in Register : [r EXCEPT !.slot = s, !.cnt = c] \in Register
  BY DEF Register
<1> QED BY <1>1, <1>2 DEF Register

LEMMA ScanInv == ASSUME Inv, NEW p \in Pid, Scan(p) PROVE Inv'
<1> DEFINE n == reg[p].cnt + (IF owner[S(p)] # NoPid THEN 1 ELSE 0)
<1>1. /\ TypeOK /\ Local(p) /\ NumSlots \in Nat \ {0} /\ NoPid \notin Pid
      /\ p \in running /\ pc[p] = "scan" /\ admission = p
  BY Parts, SlotsAssumption DEF Scan, At, Local, Registering, Locked
<1>2. /\ reg[p] \in Register /\ S(p) \in Slot /\ reg[p].cnt \in Nat /\ n \in Nat
      /\ 1 \in Slot /\ (S(p) < NumSlots => S(p) + 1 \in Slot)
  <2>1. reg[p] \in Register
    BY <1>1 DEF TypeOK, Register
  <2>2. S(p) \in Slot /\ reg[p].cnt \in Nat
    BY <2>1 DEF Register, S
  <2> QED BY <1>1, <2>1, <2>2 DEF Slot
<1>3. Cardinality(Taken(S(p))) <= n /\ Cardinality(Taken(S(p))) \in Nat
  <2>1. Cardinality(Taken(S(p) - 1)) <= reg[p].cnt
    BY <1>1 DEF Local, Registering, Taken
  <2> QED BY <1>1, <1>2, <2>1, CountOne
<1>4. PICK t \in Slot : t = IF S(p) < NumSlots THEN S(p) + 1 ELSE 1
  BY <1>2
<1>5. /\ reg' \in [Pid -> Register] /\ reg'[p].slot = t /\ reg'[p].cnt = n
      /\ \A q \in Pid \ {p} : reg'[q] = reg[q]
  <2>1. reg' = [reg EXCEPT ![p].slot = t, ![p].cnt = n]
    BY <1>1, <1>4 DEF Scan, S
  <2> HIDE DEF n
  <2> QED BY <1>1, <1>2, <2>1, ReadOn
<1>6. pc' = [pc EXCEPT ![p] = IF S(p) < NumSlots THEN "scan"
                              ELSE IF n < maxclients THEN "reserve" ELSE "refused"]
  BY <1>1 DEF Scan, Goto, S, TypeOK
<1> HIDE DEF n
<1>7. TypeOK' /\ UNCHANGED <<shared, admission, procs, conns, todo, wanted>>
  BY <1>1, <1>5, <1>6 DEF Scan, TypeOK, Register, Labels, Locked, shared, procs
<1>8. reg'[p].cnt = n /\ S(p)' = t
  BY <1>5 DEF S
<1>9. Registering(p)'
  <2>1. CASE S(p) < NumSlots
    <3>1. pc'[p] = "scan" /\ t - 1 = S(p)
      BY <1>1, <1>2, <1>4, <1>6, <2>1 DEF TypeOK, Slot
    <3> QED BY <1>1, <1>3, <1>5, <1>7, <1>8, <3>1 DEF Registering, Taken, shared
  <2>2. CASE ~(S(p) < NumSlots) /\ ~(n < maxclients)
    BY <1>1, <1>6, <1>7, <2>2 DEF Registering, TypeOK
  <2>3. CASE ~(S(p) < NumSlots) /\ n < maxclients
    <3>1. Taken(S(p)) = Reserved
      BY <1>1, <1>2, <2>3 DEF Taken, Reserved, Slot
    <3>2. Cardinality(Reserved) < maxclients
      BY <1>1, <1>2, <1>3, <2>3, <3>1, SlotsAssumption DEF TypeOK
    <3>3. \E s \in 1..NumSlots : owner[s] = NoPid
      BY <1>1, <3>2, SomeFree
    <3>4. pc'[p] = "reserve" /\ t = 1
      BY <1>1, <1>4, <1>6, <2>3 DEF TypeOK
    <3> QED BY <1>1, <1>7, <1>8, <3>2, <3>3, <3>4 DEF Registering, Reserved, shared, procs
  <2> QED BY <2>1, <2>2, <2>3
<1>10. Local(p)'
  <2>1. pc'[p] \in {"scan", "reserve", "refused"}
    BY <1>1, <1>6 DEF TypeOK
  <2>2. Holding(p)' /\ CopyNames(p)' /\ pc'[p] # "noslot"
    BY <2>1 DEF Holding, CopyNames, Unconnected, Writing, Compared
  <2>3. Living(p)' /\ \A s \in conns'[p] : owner'[s] = p /\ active'[s]
    BY <1>1, <1>7, <2>1 DEF Local, Living, shared, procs
  <2> QED BY <1>9, <2>1, <2>2, <2>3 DEF Local
<1>11. \A q \in Pid \ {p} : pc'[q] = pc[q] /\ reg'[q] = reg[q] /\ todo'[q] = todo[q]
                            /\ (admission = q => admission' = q)
  BY <1>1, <1>5, <1>6, <1>7 DEF TypeOK
<1> QED BY <1>7, <1>10, <1>11, Inside

\* ... or only another slot.
LEMMA ReadNext ==
  ASSUME TypeOK, NEW p \in Pid, NEW s \in Slot, reg' = [reg EXCEPT ![p].slot = s]
  PROVE  /\ reg' \in [Pid -> Register] /\ reg'[p].slot = s
         /\ \A q \in Pid \ {p} : reg'[q] = reg[q]
<1>1. reg \in [Pid -> Register]
  BY DEF TypeOK, Register
<1> QED BY <1>1 DEF Register

\* What a worker that has begun a call may rely on.
LEMMA Running ==
  ASSUME Inv, NEW p \in Pid, pc[p] # "idle"
  PROVE  /\ TypeOK /\ Local(p) /\ p \in running /\ p \notin dead /\ NoPid \notin Pid
         /\ reg[p] \in Register /\ S(p) \in Slot /\ NumSlots \in Nat \ {0}
         /\ sup.step # "none" => sup.pid \in Pid /\ sup.pid # p
<1>1. TypeOK /\ Local(p) /\ Reaping
  BY Parts
<1>2. reg[p] \in Register
  BY <1>1 DEF TypeOK, Register
<1>3. S(p) \in Slot
  BY <1>2 DEF Register, S
<1> QED BY <1>1, <1>2, <1>3, SlotsAssumption DEF Local, Living, Reaping, TypeOK

LEMMA ReserveInv == ASSUME Inv, NEW p \in Pid, Reserve(p) PROVE Inv'
<1>1. /\ pc[p] = "reserve" /\ TypeOK /\ Local(p) /\ p \in running /\ NoPid \notin Pid
      /\ reg[p] \in Register /\ S(p) \in Slot /\ NumSlots \in Nat \ {0}
      /\ sup.step # "none" => sup.pid \in Pid /\ sup.pid # p
  BY Running DEF Reserve, At
<1>2. /\ admission = p /\ Cardinality(Reserved) < maxclients
      /\ \E s \in S(p)..NumSlots : owner[s] = NoPid
  BY <1>1 DEF Local, Registering, Locked
<1>3. \A q \in Pid \ {p} : pc[q] \notin Locked
  BY <1>1, OneRegisters DEF Locked
<1>4. CASE owner[S(p)] = NoPid
  <2>1. /\ owner' = [owner EXCEPT ![S(p)] = p] /\ pc' = [pc EXCEPT ![p] = "reserved"]
        /\ UNCHANGED <<active, gen, req, ver, pay, admission, procs, reg, conns, todo, wanted, notified>>
    BY <1>4 DEF Reserve, Goto
  <2>2. TypeOK'
    BY <1>1, <2>1 DEF TypeOK, procs, Labels, Locked
  <2>3. \A q \in Pid \ {p} : Spared(q)
    BY <1>1, <1>3, <1>4, <2>1 DEF Spared, TypeOK, procs, Locked
  <2>4. Capacity'
    <3>1. Reserved \in SUBSET Slot
      BY DEF Reserved
    <3>2. Reserved' = Reserved \cup {S(p)} /\ S(p) \notin Reserved
      BY <1>1, <1>4, <2>1 DEF Reserved, TypeOK
    <3>3. IsFiniteSet(Reserved) /\ Cardinality(Reserved) \in Nat
      BY <3>1, Finite
    <3>4. Cardinality(Reserved') = Cardinality(Reserved) + 1
      BY <3>2, <3>3, FS_AddElement
    <3> QED BY <1>1, <1>2, <2>1, <3>3, <3>4, SlotsAssumption DEF Capacity, TypeOK, procs
  <2>5. Reaping'
    BY <1>1, <1>4, <2>1, Parts DEF Reaping, TypeOK, procs
  <2>6. SlotNames' /\ maxclients' = maxclients /\ \A s \in Slot : gen[s] <= gen'[s]
    BY <1>1, <2>1, Parts DEF SlotNames, procs, TypeOK
  <2>7. Local(p)'
    <3>1. pc'[p] = "reserved" /\ S(p)' = S(p) /\ owner'[S(p)] = p
      BY <1>1, <2>1 DEF TypeOK, S
    <3>2. S(p) \notin conns[p]
      BY <1>1, <1>4 DEF Local
    <3>3. Registering(p)' /\ Holding(p)' /\ CopyNames(p)'
      BY <1>2, <2>1, <3>1, <3>2 DEF Registering, Holding, CopyNames, Writing, Compared
    <3>4. Living(p)'
      BY <1>1, <2>1, <3>1 DEF Local, Living, procs
    <3>5. \A s \in conns'[p] : owner'[s] = p /\ active'[s]
      BY <1>1, <2>1, <3>2 DEF Local, TypeOK
    <3> QED BY <3>1, <3>3, <3>4, <3>5 DEF Local
  <2> QED BY <2>2, <2>3, <2>4, <2>5, <2>6, <2>7, Step
<1>5. CASE owner[S(p)] # NoPid
  <2>1. PICK f \in S(p)..NumSlots : owner[f] = NoPid
    BY <1>2
  <2>2. S(p) < NumSlots /\ S(p) + 1 \in Slot /\ f \in (S(p) + 1)..NumSlots
    BY <1>1, <1>5, <2>1 DEF Slot
  <2>3. reg' = [reg EXCEPT ![p].slot = S(p) + 1] /\ UNCHANGED <<shared, admission, procs, pc, conns, todo, wanted, notified>>
    BY <1>5, <2>2 DEF Reserve, S, shared
  <2>4. /\ reg' \in [Pid -> Register] /\ S(p)' = S(p) + 1
        /\ \A q \in Pid \ {p} : reg'[q] = reg[q]
    BY <1>1, <2>2, <2>3, ReadNext DEF S
  <2>5. TypeOK'
    BY <1>1, <2>3, <2>4 DEF TypeOK, Register, shared, procs
  <2>6. Registering(p)'
    BY <1>1, <1>2, <2>1, <2>2, <2>3, <2>4 DEF Registering, Reserved, shared, procs
  <2>7. Holding(p)' /\ CopyNames(p)'
    BY <1>1, <2>3 DEF Holding, CopyNames, Unconnected, Writing, Compared
  <2>8. Living(p)' /\ pc'[p] # "noslot" /\ \A s \in conns'[p] : owner'[s] = p /\ active'[s]
    BY <1>1, <2>3 DEF Local, Living, shared, procs
  <2>9. Local(p)'
    BY <2>6, <2>7, <2>8 DEF Local
  <2> QED BY <2>3, <2>4, <2>5, <2>9, Inside
<1> QED BY <1>4, <1>5

LEMMA UnlockInv == ASSUME Inv, NEW p \in Pid, Unlock(p) PROVE Inv'
<1>1. /\ pc[p] \in {"reserved", "refused", "noslot"} /\ TypeOK /\ Local(p) /\ p \in running
      /\ reg[p] \in Register
  BY Running DEF Unlock
<1>2. admission = p
  BY <1>1 DEF Local, Registering, Locked
<1>3. UNCHANGED <<shared, procs, conns, todo, notified, wanted>> /\ admission' \in Pid \cup {NoPid}
  BY <1>1 DEF Unlock, TypeOK
<1>4. CASE pc[p] = "reserved"
  <2>1. pc' = [pc EXCEPT ![p] = "reset"] /\ reg' = reg
    BY <1>4 DEF Unlock, Goto
  <2>2. TypeOK'
    BY <1>1, <1>3, <2>1 DEF TypeOK, shared, procs, Labels
  <2>3. Local(p)'
    <3>1. pc'[p] = "reset" /\ S(p)' = S(p)
      BY <1>1, <2>1 DEF TypeOK, S
    <3>2. owner[S(p)] = p /\ S(p) \notin conns[p]
      BY <1>1, <1>4 DEF Local, Holding, Unconnected
    <3>3. Registering(p)' /\ Holding(p)' /\ CopyNames(p)'
      BY <1>3, <3>1, <3>2 DEF Registering, Holding, CopyNames, Locked, Writing, Compared, shared
    <3>4. Living(p)' /\ \A s \in conns'[p] : owner'[s] = p /\ active'[s]
      BY <1>1, <1>3, <3>1 DEF Local, Living, shared, procs
    <3> QED BY <3>1, <3>3, <3>4 DEF Local
  <2>4. \A q \in Pid \ {p} : pc'[q] = pc[q] /\ reg'[q] = reg[q] /\ todo'[q] = todo[q]
                             /\ (admission = q => admission' = q)
    BY <1>1, <1>2, <1>3, <2>1 DEF TypeOK
  <2> QED BY <1>3, <2>2, <2>3, <2>4, Inside
<1>5. CASE pc[p] # "reserved"
  <2>1. Return(p)
    BY <1>5 DEF Unlock
  <2>2. TypeOK'
    BY <1>1, <1>3, <2>1, Returns DEF TypeOK, shared, procs, Register
  <2> QED BY <1>1, <1>2, <1>3, <2>1, <2>2, ReturnInv
<1> QED BY <1>4, <1>5

\* A step in a slot of the worker that takes it.
LEMMA AtSlot ==
  ASSUME Inv, TypeOK', NEW p \in running, NEW t \in Slot, owner[t] = p,
         UNCHANGED <<owner, procs, admission, wanted>>,
         \A q \in Pid \ {p} : pc'[q] = pc[q] /\ reg'[q] = reg[q] /\ conns'[q] = conns[q] /\ todo'[q] = todo[q],
         \A s \in Slot \ {t} : /\ active'[s] = active[s] /\ gen'[s] = gen[s] /\ req'[s] = req[s]
                               /\ ver'[s] = ver[s] /\ pay'[s] = pay[s],
         gen[t] <= gen'[t], pay'[t].id \in {0, gen'[t]}, req'[t] \in {0, req[t]},
         Local(p)'
  PROVE  Inv'
<1>1. TypeOK /\ SlotNames /\ Capacity /\ Reaping /\ p \in Pid
  BY Parts DEF TypeOK
<1>2. \A q \in Pid \ {p} : Spared(q)
  BY DEF Spared, procs
<1>3. ASSUME NEW s \in Slot PROVE gen[s] <= gen'[s]
  <2>1. gen[s] \in Nat
    BY <1>1 DEF TypeOK
  <2>2. CASE s = t
    BY <2>2
  <2>3. CASE s # t
    <3>1. gen'[s] = gen[s]
      BY <2>3
    <3> QED BY <2>1, <3>1
  <2> QED BY <2>2, <2>3
<1>4. SlotNames'
  BY <1>1 DEF SlotNames
<1>5. Capacity' /\ Reaping' /\ maxclients' = maxclients
  BY <1>1 DEF Capacity, Reserved, Reaping, procs
<1> QED BY <1>1, <1>2, <1>3, <1>4, <1>5, Step

\* ... and leaves its generation and what it names alone.
LEMMA SameNames ==
  ASSUME Inv, NEW t \in Slot, gen' = gen, pay'[t].id = pay[t].id
  PROVE  gen[t] <= gen'[t] /\ pay'[t].id \in {0, gen'[t]}
<1>1. gen[t] \in Nat /\ pay[t].id \in {0, gen[t]}
  BY Parts DEF TypeOK, SlotNames
<1> QED BY <1>1

\* What is written to a slot that starts anew.
LEMMA ResetTypes ==
  ASSUME TypeOK, NEW t \in Slot, ResetSlot(t)
  PROVE  /\ pay' \in [Slot -> Payload] /\ req' \in [Slot -> Nat] /\ ver' \in [Slot -> 0..MaxVersion]
         /\ pay'[t].id = 0 /\ req'[t] = 0 /\ ver'[t] = 0
         /\ \A s \in Slot \ {t} : pay'[s] = pay[s] /\ req'[s] = req[s] /\ ver'[s] = ver[s]
<1>1. pay \in [Slot -> Payload] /\ Blank \in Payload /\ Blank.id = 0 /\ 0 \in 0..MaxVersion
  BY Fresh, SlotsAssumption DEF TypeOK, Payload, Blank
<1> QED BY <1>1 DEF ResetSlot, TypeOK

\* From its reservation to its connection, and from there to its release, a
\* slot is its worker's: the worker goes on to the next label.
LEMMA Unconnecting ==
  ASSUME Inv, NEW p \in Pid, pc[p] \in Unconnected, pc'[p] \in Unconnected \ {"reserved"},
         UNCHANGED <<owner, reg, conns, todo, procs>>,
         \A s \in Slot \ {S(p)} : active'[s] = active[s],
         pc'[p] = "bump" => pay'[S(p)].id = 0
  PROVE  Local(p)'
<1>1. TypeOK /\ Local(p) /\ p \in running
  BY Running DEF Unconnected
<1>2. S(p)' = S(p)
  BY DEF S
<1>3. owner[S(p)] = p /\ S(p) \notin conns[p]
  BY <1>1 DEF Local, Holding
<1>4. Registering(p)' /\ CopyNames(p)' /\ pc'[p] # "noslot"
  BY DEF Registering, CopyNames, Unconnected, Locked, Compared
<1>5. Holding(p)'
  BY <1>2, <1>3 DEF Holding, Unconnected, Writing
<1>6. Living(p)'
  BY <1>1 DEF Local, Living, Unconnected, procs
<1>7. \A s \in conns'[p] : owner'[s] = p /\ active'[s]
  BY <1>1, <1>3 DEF Local, TypeOK
<1> QED BY <1>4, <1>5, <1>6, <1>7 DEF Local

LEMMA ResetInv == ASSUME Inv, NEW p \in Pid, Reset(p) PROVE Inv'
<1>1. /\ pc[p] = "reset" /\ TypeOK /\ Local(p) /\ p \in running /\ S(p) \in Slot
      /\ pc' = [pc EXCEPT ![p] = "bump"]
      /\ UNCHANGED <<owner, active, gen, admission, procs, reg, conns, todo, notified, wanted>>
  BY Running DEF Reset, At, Goto
<1>2. /\ pay' \in [Slot -> Payload] /\ req' \in [Slot -> Nat] /\ ver' \in [Slot -> 0..MaxVersion]
      /\ pay'[S(p)].id = 0 /\ req'[S(p)] = 0 /\ ver'[S(p)] = 0
      /\ \A s \in Slot \ {S(p)} : pay'[s] = pay[s] /\ req'[s] = req[s] /\ ver'[s] = ver[s]
  BY <1>1, ResetTypes DEF Reset
<1>3. TypeOK'
  BY <1>1, <1>2 DEF TypeOK, Labels, Payload, procs
<1>4. owner[S(p)] = p /\ gen'[S(p)] \in Nat /\ gen[S(p)] <= gen'[S(p)]
  BY <1>1 DEF Local, Holding, Unconnected, TypeOK
<1>5. Local(p)'
  BY <1>1, <1>2, Unconnecting DEF Unconnected, TypeOK
<1> QED BY <1>1, <1>2, <1>3, <1>4, <1>5, AtSlot DEF TypeOK

LEMMA BumpInv == ASSUME Inv, NEW p \in Pid, Bump(p) PROVE Inv'
<1>1. /\ pc[p] = "bump" /\ TypeOK /\ Local(p) /\ p \in running /\ S(p) \in Slot
      /\ pc' = [pc EXCEPT ![p] = "fill"] /\ gen' = [gen EXCEPT ![S(p)] = gen[S(p)] + 1]
      /\ UNCHANGED <<owner, active, req, ver, pay, admission, procs, reg, conns, todo, notified, wanted>>
  BY Running DEF Bump, At, Goto
<1>2. owner[S(p)] = p /\ gen[S(p)] \in Nat /\ pay[S(p)].id = 0 /\ req[S(p)] \in Nat
  BY <1>1 DEF Local, Holding, Unconnected, TypeOK
<1>3. TypeOK' /\ gen[S(p)] <= gen'[S(p)]
  <2>1. gen' \in [Slot -> Nat] /\ gen'[S(p)] = gen[S(p)] + 1
    BY <1>1, <1>2 DEF TypeOK
  <2>2. TypeOK'
    BY <1>1, <2>1 DEF TypeOK, Labels, procs
  <2> QED BY <1>2, <2>1, <2>2
<1>4. Local(p)'
  BY <1>1, <1>2, Unconnecting DEF Unconnected, TypeOK
<1>5. \A s \in Slot \ {S(p)} : gen'[s] = gen[s]
  BY <1>1 DEF TypeOK
<1>6. \A q \in Pid \ {p} : pc'[q] = pc[q]
  BY <1>1 DEF TypeOK
<1> QED BY <1>1, <1>2, <1>3, <1>4, <1>5, <1>6, AtSlot

LEMMA FillInv == ASSUME Inv, NEW p \in Pid, Fill(p) PROVE Inv'
<1>1. /\ pc[p] = "fill" /\ TypeOK /\ Local(p) /\ p \in running /\ S(p) \in Slot
      /\ pc' = [pc EXCEPT ![p] = "publish"] /\ pay' = [pay EXCEPT ![S(p)].id = gen[S(p)]]
      /\ UNCHANGED <<owner, active, gen, req, ver, admission, procs, reg, conns, todo, notified, wanted>>
  BY Running DEF Fill, At, Goto
<1>2. owner[S(p)] = p /\ gen[S(p)] \in Nat /\ req[S(p)] \in Nat
  BY <1>1 DEF Local, Holding, Unconnected, TypeOK
<1>3. /\ pay' \in [Slot -> Payload] /\ pay'[S(p)].id = gen[S(p)]
      /\ \A s \in Slot \ {S(p)} : pay'[s] = pay[s]
  <2>1. pay \in [Slot -> Payload]
    BY <1>1 DEF TypeOK, Payload
  <2> QED BY <1>1, <1>2, <2>1 DEF Payload
<1>4. TypeOK' /\ gen[S(p)] <= gen'[S(p)]
  <2>1. TypeOK'
    BY <1>1, <1>3 DEF TypeOK, Labels, Payload, procs
  <2> QED BY <1>1, <1>2, <2>1
<1>5. Local(p)'
  BY <1>1, Unconnecting DEF Unconnected, TypeOK
<1>6. \A q \in Pid \ {p} : pc'[q] = pc[q]
  BY <1>1 DEF TypeOK
<1> QED BY <1>1, <1>2, <1>3, <1>4, <1>5, <1>6, AtSlot

LEMMA PublishInv == ASSUME Inv, NEW p \in Pid, Publish(p) PROVE Inv'
<1>1. /\ pc[p] = "publish" /\ TypeOK /\ Local(p) /\ p \in running /\ S(p) \in Slot
      /\ active' = [active EXCEPT ![S(p)] = TRUE]
      /\ conns' = [conns EXCEPT ![p] = conns[p] \cup {S(p)}] /\ Return(p)
      /\ UNCHANGED <<owner, gen, req, ver, pay, admission, procs, todo, notified, wanted>>
  BY Running DEF Publish, At
<1>2. owner[S(p)] = p /\ gen[S(p)] \in Nat /\ pay[S(p)].id \in {0, gen[S(p)]}
  BY <1>1, Parts DEF Local, Holding, Unconnected, TypeOK, SlotNames
<1>3. conns' \in [Pid -> SUBSET Slot] /\ conns'[p] = conns[p] \cup {S(p)}
  BY <1>1 DEF TypeOK
<1>4. TypeOK'
  BY <1>1, <1>3, Returns DEF TypeOK, procs, Register
<1>5. Local(p)'
  <2>1. todo[p] \subseteq conns'[p] /\ p \in running'
    BY <1>1, <1>3 DEF Local, Living, procs
  <2>2. \A s \in conns'[p] : owner'[s] = p /\ active'[s]
    BY <1>1, <1>2, <1>3 DEF Local, TypeOK
  <2> QED BY <1>1, <2>1, <2>2, ReturnLocal
<1>6. \A q \in Pid \ {p} : pc'[q] = pc[q] /\ reg'[q] = reg[q] /\ conns'[q] = conns[q]
  BY <1>1, Returns DEF TypeOK
<1>7. \A s \in Slot \ {S(p)} : active'[s] = active[s]
  BY <1>1 DEF TypeOK
<1>8. gen[S(p)] <= gen'[S(p)]
  BY <1>1, <1>2
<1> QED BY <1>1, <1>2, <1>4, <1>5, <1>6, <1>7, <1>8, AtSlot

-----------------------------------------------------------------------------
(* Release                                                                 *)

\* A worker takes one of its connections down.
LEMMA DeactivateInv ==
  ASSUME Inv, NEW p \in running, NEW s \in conns[p], Deactivate(p, s),
         UNCHANGED <<owner, gen, req, ver, pay, admission, procs, wanted>>,
         notified' \subseteq Pid, todo' \in [Pid -> SUBSET Slot], todo'[p] \subseteq conns[p] \ {s},
         \A q \in Pid \ {p} : todo'[q] = todo[q]
  PROVE  Inv'
<1>1. TypeOK /\ p \in Pid /\ Local(p) /\ s \in Slot /\ SlotNames
  BY Parts DEF TypeOK
<1>2. /\ active' = [active EXCEPT ![s] = FALSE] /\ conns' = [conns EXCEPT ![p] = conns[p] \ {s}]
      /\ reg' = [reg EXCEPT ![p] = [Regs EXCEPT !.slot = s]]
      /\ pc' = [pc EXCEPT ![p] = "clear"]
  BY DEF Deactivate, Goto
<1>3. /\ reg' \in [Pid -> Register] /\ S(p)' = s
      /\ \A q \in Pid \ {p} : reg'[q] = reg[q]
  <2>1. [Regs EXCEPT !.slot = s] \in Register /\ [Regs EXCEPT !.slot = s].slot = s
    BY <1>1, Fresh DEF Regs
  <2> QED BY <1>1, <1>2, <2>1 DEF TypeOK, Register, S
<1>4. conns' \in [Pid -> SUBSET Slot] /\ conns'[p] = conns[p] \ {s} /\ pc'[p] = "clear"
  BY <1>1, <1>2 DEF TypeOK
<1>5. TypeOK'
  BY <1>1, <1>2, <1>3, <1>4 DEF TypeOK, Labels, Register, procs
<1>6. owner[s] = p
  BY <1>1 DEF Local
<1>7. Local(p)'
  <2>1. Registering(p)' /\ Holding(p)' /\ CopyNames(p)'
    BY <1>3, <1>4, <1>6 DEF Registering, Holding, CopyNames, Locked, Writing, Compared
  <2>2. Living(p)'
    BY <1>4 DEF Living, procs
  <2>3. \A c \in conns'[p] : owner'[c] = p /\ active'[c]
    BY <1>1, <1>2, <1>4 DEF Local, TypeOK
  <2> QED BY <1>4, <2>1, <2>2, <2>3 DEF Local
<1>8. \A q \in Pid \ {p} : pc'[q] = pc[q] /\ conns'[q] = conns[q]
  BY <1>1, <1>2 DEF TypeOK
<1>9. /\ \A t \in Slot \ {s} : active'[t] = active[t]
      /\ gen[s] <= gen'[s] /\ pay'[s].id \in {0, gen'[s]}
  BY <1>1, <1>2, SameNames DEF TypeOK
<1> QED BY <1>1, <1>3, <1>5, <1>6, <1>7, <1>8, <1>9, AtSlot

LEMMA UnregisterInv == ASSUME Inv, NEW p \in Pid, NEW s \in Slot, Unregister(p, s) PROVE Inv'
<1>1. TypeOK /\ Local(p) /\ p \in running /\ s \in conns[p] /\ pc[p] = "idle"
  BY Parts DEF Unregister, At
<1>2. todo[p] = {} /\ todo \in [Pid -> SUBSET Slot] /\ notified \subseteq Pid
  BY <1>1 DEF Local, Living, TypeOK
<1> QED BY <1>1, <1>2, DeactivateInv DEF Unregister

LEMMA ClearInv == ASSUME Inv, NEW p \in Pid, Clear(p) PROVE Inv'
<1>1. /\ pc[p] = "clear" /\ TypeOK /\ Local(p) /\ p \in running /\ S(p) \in Slot
      /\ pc' = [pc EXCEPT ![p] = "release"]
      /\ UNCHANGED <<owner, active, gen, admission, procs, reg, conns, todo, notified, wanted>>
  BY Running DEF Clear, At, Goto
<1>2. /\ pay' \in [Slot -> Payload] /\ req' \in [Slot -> Nat] /\ ver' \in [Slot -> 0..MaxVersion]
      /\ pay'[S(p)].id = 0 /\ req'[S(p)] = 0 /\ ver'[S(p)] = 0
      /\ \A s \in Slot \ {S(p)} : pay'[s] = pay[s] /\ req'[s] = req[s] /\ ver'[s] = ver[s]
  BY <1>1, ResetTypes DEF Clear
<1>3. TypeOK'
  BY <1>1, <1>2 DEF TypeOK, Labels, Payload, procs
<1>4. owner[S(p)] = p /\ gen[S(p)] <= gen'[S(p)]
  BY <1>1 DEF Local, Holding, Unconnected, TypeOK
<1>5. Local(p)'
  BY <1>1, <1>2, Unconnecting DEF Unconnected, TypeOK
<1> QED BY <1>1, <1>2, <1>3, <1>4, <1>5, AtSlot DEF TypeOK

LEMMA ReleaseInv == ASSUME Inv, NEW p \in Pid, Release(p) PROVE Inv'
<1>1. /\ pc[p] = "release" /\ TypeOK /\ Local(p) /\ p \in running /\ S(p) \in Slot /\ NoPid \notin Pid
      /\ owner' = [owner EXCEPT ![S(p)] = NoPid] /\ Return(p)
      /\ UNCHANGED <<active, gen, req, ver, pay, admission, procs, conns, todo, notified, wanted>>
  BY Running DEF Release, At
<1>2. owner[S(p)] = p /\ S(p) \notin conns[p]
  BY <1>1 DEF Local, Holding, Unconnected
<1>3. TypeOK'
  BY <1>1, Returns DEF TypeOK, procs, Register
<1>4. \A q \in Pid \ {p} : Spared(q)
  BY <1>1, <1>2, Returns DEF Spared, procs, TypeOK
<1>5. Local(p)'
  <2>1. todo[p] \subseteq conns'[p] /\ p \in running'
    BY <1>1 DEF Local, Living, procs
  <2>2. \A s \in conns'[p] : owner'[s] = p /\ active'[s]
    BY <1>1, <1>2 DEF Local, TypeOK
  <2> QED BY <1>1, <2>1, <2>2, ReturnLocal
<1>6. Capacity'
  <2>1. Reserved' \subseteq Reserved /\ Reserved \subseteq Slot
    BY <1>1 DEF Reserved, TypeOK
  <2>2. Cardinality(Reserved') <= Cardinality(Reserved)
        /\ Cardinality(Reserved') \in Nat /\ Cardinality(Reserved) \in Nat
    BY <2>1, Fewer
  <2>3. Cardinality(Reserved) <= maxclients /\ maxclients \in Nat /\ maxclients' = maxclients
    BY <1>1, Parts, SlotsAssumption DEF Capacity, TypeOK, procs
  <2> QED BY <2>2, <2>3 DEF Capacity
<1>7. Reaping'
  BY <1>1, <1>2, Parts, Running DEF Reaping, TypeOK, procs
<1>8. SlotNames' /\ maxclients' = maxclients /\ \A s \in Slot : gen[s] <= gen'[s]
  BY <1>1, Parts DEF SlotNames, procs, TypeOK
<1> QED BY <1>3, <1>4, <1>5, <1>6, <1>7, <1>8, Step

-----------------------------------------------------------------------------
(* Updates                                                                 *)

\* An update in progress.
LEMMA Updating ==
  ASSUME Inv, NEW p \in running, pc'[p] \in Writing,
         UNCHANGED <<owner, active, conns, todo, procs>>,
         owner[S(p)'] = p, ver'[S(p)'] < MaxVersion
  PROVE  Local(p)'
<1>1. p \in Pid /\ Local(p)
  BY Parts DEF TypeOK
<1>2. Registering(p)' /\ CopyNames(p)' /\ pc'[p] # "noslot"
  BY DEF Registering, CopyNames, Writing, Locked, Compared
<1>3. Holding(p)'
  BY DEF Holding, Unconnected, Writing
<1>4. Living(p)' /\ \A s \in conns'[p] : owner'[s] = p /\ active'[s]
  BY <1>1 DEF Local, Living, Writing, procs
<1> QED BY <1>2, <1>3, <1>4 DEF Local

LEMMA UpdateBeginInv == ASSUME Inv, NEW p \in Pid, NEW s \in Slot, UpdateBegin(p, s) PROVE Inv'
<1>1. /\ TypeOK /\ Local(p) /\ SlotNames /\ p \in running /\ pc[p] = "idle" /\ s \in conns[p] /\ owner[s] = p
      /\ ver[s] + 2 <= MaxVersion /\ ver' = [ver EXCEPT ![s] = ver[s] + 1]
      /\ reg' = [reg EXCEPT ![p] = [Regs EXCEPT !.slot = s]]
      /\ pc' = [pc EXCEPT ![p] = "write x"]
      /\ UNCHANGED <<owner, active, gen, req, pay, admission, procs, conns, todo, notified, wanted>>
  BY Parts DEF UpdateBegin, At, Goto
<1>2. /\ reg' \in [Pid -> Register] /\ S(p)' = s
      /\ \A q \in Pid \ {p} : reg'[q] = reg[q]
  <2>1. [Regs EXCEPT !.slot = s] \in Register /\ [Regs EXCEPT !.slot = s].slot = s
    BY Fresh DEF Regs
  <2> QED BY <1>1, <2>1 DEF TypeOK, Register, S
<1>3. ver' \in [Slot -> 0..MaxVersion] /\ ver'[s] < MaxVersion
  <2>1. ver[s] \in 0..MaxVersion /\ MaxVersion \in Nat
    BY <1>1, SlotsAssumption DEF TypeOK
  <2>2. \A n \in 0..MaxVersion : n + 2 <= MaxVersion => n + 1 \in 0..MaxVersion /\ n + 1 < MaxVersion
    BY <2>1
  <2>3. ver[s] + 1 \in 0..MaxVersion /\ ver[s] + 1 < MaxVersion
    BY <1>1, <2>1, <2>2
  <2> QED BY <1>1, <2>3 DEF TypeOK
<1>4. TypeOK'
  BY <1>1, <1>2, <1>3 DEF TypeOK, Labels, Register, procs
<1>5. pc'[p] \in Writing
  BY <1>1 DEF Writing, TypeOK
<1>6. Local(p)'
  BY <1>1, <1>2, <1>3, <1>5, Updating
<1>7. /\ \A t \in Slot \ {s} : ver'[t] = ver[t]
      /\ \A q \in Pid \ {p} : pc'[q] = pc[q]
  BY <1>1 DEF TypeOK
<1>8. gen[s] <= gen'[s] /\ pay'[s].id \in {0, gen'[s]}
  BY <1>1, SameNames
<1> QED BY <1>1, <1>2, <1>4, <1>6, <1>7, <1>8, AtSlot

LEMMA UpdateWriteInv == ASSUME Inv, NEW p \in Pid, UpdateWrite(p) PROVE Inv'
<1>1. /\ TypeOK /\ Local(p) /\ SlotNames /\ p \in running /\ S(p) \in Slot
      /\ pc[p] \in Writing /\ pc'[p] \in Writing /\ pc' \in [Pid -> Labels]
      /\ \A q \in Pid \ {p} : pc'[q] = pc[q]
      /\ UNCHANGED <<owner, active, gen, req, ver, admission, procs, reg, conns, todo, notified, wanted>>
  <2>1. PICK l \in Writing : pc' = [pc EXCEPT ![p] = l]
    BY DEF UpdateWrite, Goto, Writing
  <2>2. pc[p] \in Writing /\ pc[p] # "idle"
    BY DEF UpdateWrite, At, Writing
  <2>3. TypeOK /\ Local(p) /\ SlotNames /\ p \in running /\ S(p) \in Slot
    BY <2>2, Parts, Running
  <2>4. /\ pc'[p] \in Writing /\ pc' \in [Pid -> Labels]
        /\ \A q \in Pid \ {p} : pc'[q] = pc[q]
    <3>1. pc \in [Pid -> Labels] /\ l \in Labels
      BY <2>3 DEF TypeOK, Labels, Writing
    <3> QED BY <2>1, <3>1
  <2> QED BY <2>2, <2>3, <2>4 DEF UpdateWrite
<1>2. owner[S(p)] = p /\ ver[S(p)] < MaxVersion /\ gen[S(p)] \in Nat
  BY <1>1 DEF Local, Holding, TypeOK
<1>3. /\ pay' \in [Slot -> Payload] /\ pay'[S(p)].id = pay[S(p)].id
      /\ \A s \in Slot \ {S(p)} : pay'[s] = pay[s]
  <2>1. pay \in [Slot -> Payload] /\ pay[S(p)] \in Payload
    BY <1>1 DEF TypeOK, Payload
  <2>2. 1 - pay[S(p)].x \in 0..1 /\ 1 - pay[S(p)].y \in 0..1
    BY <2>1 DEF Payload
  <2>3. CASE pay' = [pay EXCEPT ![S(p)].x = 1 - pay[S(p)].x]
    BY <1>1, <2>1, <2>2, <2>3 DEF Payload
  <2>4. CASE pay' = [pay EXCEPT ![S(p)].y = 1 - pay[S(p)].y]
    BY <1>1, <2>1, <2>2, <2>4 DEF Payload
  <2> QED BY <2>3, <2>4 DEF UpdateWrite
<1>4. TypeOK'
  BY <1>1, <1>3 DEF TypeOK, Payload, procs
<1>5. Local(p)'
  BY <1>1, <1>2, Updating DEF S
<1>6. gen[S(p)] <= gen'[S(p)] /\ pay'[S(p)].id \in {0, gen'[S(p)]}
  BY <1>1, <1>3, SameNames
<1> QED BY <1>1, <1>2, <1>3, <1>4, <1>5, <1>6, AtSlot

LEMMA UpdateEndInv == ASSUME Inv, NEW p \in Pid, UpdateEnd(p) PROVE Inv'
<1>1. /\ pc[p] = "write end" /\ TypeOK /\ Local(p) /\ SlotNames /\ p \in running /\ S(p) \in Slot
      /\ ver' = [ver EXCEPT ![S(p)] = ver[S(p)] + 1] /\ Return(p)
      /\ UNCHANGED <<owner, active, gen, req, pay, admission, procs, conns, todo, notified, wanted>>
  BY Running, Parts DEF UpdateEnd, At
<1>2. owner[S(p)] = p /\ ver[S(p)] < MaxVersion /\ ver[S(p)] \in 0..MaxVersion /\ MaxVersion \in Nat
  BY <1>1, SlotsAssumption DEF Local, Holding, Writing, TypeOK
<1>3. ver' \in [Slot -> 0..MaxVersion] /\ \A s \in Slot \ {S(p)} : ver'[s] = ver[s]
  <2>1. ver[S(p)] + 1 \in 0..MaxVersion
    BY <1>2
  <2> QED BY <1>1, <2>1 DEF TypeOK
<1>4. TypeOK'
  BY <1>1, <1>3, Returns DEF TypeOK, Register, procs
<1>5. Local(p)'
  BY <1>1, ReturnLocal DEF Local, Living, procs
<1>6. gen[S(p)] <= gen'[S(p)] /\ pay'[S(p)].id \in {0, gen'[S(p)]}
  BY <1>1, SameNames
<1>7. \A q \in Pid \ {p} : pc'[q] = pc[q] /\ reg'[q] = reg[q]
  BY <1>1, Returns
<1> QED BY <1>1, <1>2, <1>3, <1>4, <1>5, <1>6, <1>7, AtSlot

-----------------------------------------------------------------------------
(* Copies and requests                                                     *)

\* A step of a copy: only what its own worker has read changes.
LEMMA CopyStep ==
  ASSUME Inv, NEW p \in running, NEW l \in Copying, pc' = [pc EXCEPT ![p] = l],
         reg' \in [Pid -> Register], \A q \in Pid \ {p} : reg'[q] = reg[q],
         UNCHANGED <<shared, admission, procs, conns, todo, notified, wanted>>,
         CopyNames(p)'
  PROVE  Inv'
<1>1. TypeOK /\ p \in Pid /\ Local(p)
  BY Parts DEF TypeOK
<1>2. l \in Labels
  BY DEF Labels
<1>3. TypeOK' /\ pc'[p] = l /\ \A q \in Pid \ {p} : pc'[q] = pc[q]
  BY <1>1, <1>2 DEF TypeOK, Register, shared, procs
<1>4. l \notin Locked /\ l \notin Unconnected /\ l \notin Writing /\ l \notin {"idle", "noslot", "bump"}
  BY DEF Copying, Locked, Unconnected, Writing
<1>5. Registering(p)' /\ Holding(p)'
  BY <1>3, <1>4 DEF Registering, Holding, Locked
<1>6. Living(p)' /\ \A s \in conns'[p] : owner'[s] = p /\ active'[s]
  BY <1>1, <1>3, <1>4 DEF Local, Living, shared, procs
<1>7. Local(p)'
  BY <1>3, <1>4, <1>5, <1>6 DEF Local
<1> QED BY <1>1, <1>3, <1>7, Inside

LEMMA LookInv ==
  ASSUME Inv, NEW p \in Pid, NEW s \in Slot, NEW goal \in 0..MaxUses, Look(p, s, goal) PROVE Inv'
<1>1. TypeOK /\ p \in running
  BY Parts DEF Look, At
<1>2. [Regs EXCEPT !.slot = s, !.goal = goal] \in Register
  <2>1. \A r \in Register : [r EXCEPT !.slot = s, !.goal = goal] \in Register
    <3>1. goal \in Nat
      BY SlotsAssumption
    <3> QED BY <3>1 DEF Register
  <2> QED BY <2>1, Fresh
<1>3. reg' \in [Pid -> Register] /\ \A q \in Pid \ {p} : reg'[q] = reg[q]
  BY <1>1, <1>2 DEF Look, TypeOK, Register
<1>4. pc' = [pc EXCEPT ![p] = "active?"] /\ pc'[p] = "active?"
  BY <1>1 DEF Look, Goto, TypeOK
<1>5. CopyNames(p)'
  BY <1>4 DEF CopyNames, Compared
<1>6. "active?" \in Copying
  BY DEF Copying
<1> QED BY <1>1, <1>3, <1>4, <1>5, <1>6, CopyStep DEF Look

\* Starting over, or giving up.
LEMMA FailInv ==
  ASSUME Inv, NEW p \in running, Fail(p),
         UNCHANGED <<shared, admission, procs, conns, todo, notified, wanted>>
  PROVE  Inv'
<1>1. TypeOK /\ p \in Pid
  BY Parts DEF TypeOK
<1>2. CASE Return(p)
  <2>1. TypeOK'
    BY <1>1, <1>2, Returns DEF TypeOK, Register, shared, procs
  <2> QED BY <1>2, <2>1, ReturnInv
<1>3. CASE Goto(p, "active?") /\ UNCHANGED reg
  <2>1. pc' = [pc EXCEPT ![p] = "active?"] /\ pc'[p] = "active?" /\ reg' \in [Pid -> Register]
    BY <1>1, <1>3 DEF Goto, TypeOK, Register
  <2>2. CopyNames(p)' /\ "active?" \in Copying
    BY <2>1 DEF CopyNames, Compared, Copying
  <2> QED BY <1>3, <2>1, <2>2, CopyStep
<1> QED BY <1>2, <1>3 DEF Fail

\* Reading the name and the first field of a payload.
LEMMA ReadName ==
  ASSUME TypeOK, NEW p \in Pid, NEW i \in Nat, NEW b \in 0..1,
         reg' = [reg EXCEPT ![p].id = i, ![p].x = b]
  PROVE  /\ reg' \in [Pid -> Register] /\ \A q \in Pid \ {p} : reg'[q] = reg[q]
         /\ reg'[p].id = i /\ reg'[p].gen = reg[p].gen /\ reg'[p].slot = reg[p].slot
<1>1. reg \in [Pid -> Register]
  BY DEF TypeOK, Register
<1>2. \A r \in Register : [r EXCEPT !.id = i, !.x = b] \in Register
  BY DEF Register
<1> QED BY <1>1, <1>2 DEF Register

\* The labels of a copy, in their order.
LEMMA LoadInv == ASSUME Inv, NEW p \in Pid, Load(p) PROVE Inv'
<1>1. /\ TypeOK /\ Local(p) /\ SlotNames /\ p \in running /\ reg[p] \in Register /\ S(p) \in Slot
      /\ UNCHANGED <<shared, admission, procs, conns, todo, notified, wanted>>
  <2>1. pc[p] # "idle"
    BY DEF Load, At
  <2> QED BY <2>1, Parts, Running DEF Load
<1>2. /\ reg \in [Pid -> Register] /\ CopyNames(p) /\ gen' = gen
      /\ reg[p].gen \in Nat /\ reg[p].id \in Nat /\ gen[S(p)] \in Nat
  BY <1>1 DEF TypeOK, Register, Local, shared
<1>3. ASSUME NEW l \in Copying \ {"confirm"}, Goto(p, l), UNCHANGED reg,
             l \in Compared => reg[p].gen <= gen[S(p)],
             l \in Compared \ {"copy x"} => reg[p].id = 0 \/ reg[p].id \in reg[p].gen..gen[S(p)],
             l \in {"active again", "copied"} => reg[p].id \in {0, reg[p].gen},
             l # "request"
      PROVE  Inv'
  <2>1. pc' = [pc EXCEPT ![p] = l] /\ pc'[p] = l /\ S(p)' = S(p) /\ reg' = reg
    BY <1>1, <1>3 DEF Goto, TypeOK, S
  <2>2. CopyNames(p)'
    BY <1>2, <1>3, <2>1 DEF CopyNames
  <2> QED BY <1>1, <1>2, <1>3, <2>1, <2>2, CopyStep
<1>4. CASE At(p, "active?")
  <2>1. Return(p) \/ (Goto(p, "version") /\ UNCHANGED reg)
    BY <1>4 DEF Load, At
  <2>2. CASE Return(p)
    <3>1. TypeOK'
      BY <1>1, <2>2, Returns DEF TypeOK, Register, shared, procs
    <3> QED BY <1>1, <2>2, <3>1, ReturnInv
  <2>3. CASE Goto(p, "version") /\ UNCHANGED reg
    BY <1>3, <2>3 DEF Copying, Compared
  <2> QED BY <2>1, <2>2, <2>3
<1>5. CASE At(p, "version")
  <2>1. Fail(p) \/ (reg' = [reg EXCEPT ![p].ver = ver[S(p)]] /\ Goto(p, "generation"))
    BY <1>5 DEF Load, At
  <2>2. CASE reg' = [reg EXCEPT ![p].ver = ver[S(p)]] /\ Goto(p, "generation")
    <3>1. ver[S(p)] \in 0..MaxVersion
      BY <1>1 DEF TypeOK
    <3>2. reg' \in [Pid -> Register] /\ \A q \in Pid \ {p} : reg'[q] = reg[q]
      BY <1>2, <2>2, <3>1 DEF Register
    <3>3. pc' = [pc EXCEPT ![p] = "generation"] /\ pc'[p] = "generation"
      BY <1>1, <2>2 DEF Goto, TypeOK
    <3>4. CopyNames(p)' /\ "generation" \in Copying
      BY <3>3 DEF CopyNames, Compared, Copying
    <3> QED BY <1>1, <3>2, <3>3, <3>4, CopyStep
  <2> QED BY <1>1, <2>1, <2>2, FailInv
<1>6. CASE At(p, "generation")
  <2>1. reg' = [reg EXCEPT ![p].gen = gen[S(p)]] /\ Goto(p, "copy x")
    BY <1>6 DEF Load, At
  <2>2. /\ reg' \in [Pid -> Register] /\ \A q \in Pid \ {p} : reg'[q] = reg[q]
        /\ reg'[p].gen = gen[S(p)] /\ reg'[p].slot = reg[p].slot
    BY <1>2, <2>1 DEF Register
  <2>3. pc' = [pc EXCEPT ![p] = "copy x"] /\ pc'[p] = "copy x"
    BY <1>1, <2>1 DEF Goto, TypeOK
  <2>4. reg'[p].gen <= gen[S(p)] /\ S(p)' = S(p)
    BY <1>2, <2>2 DEF S
  <2>5. CopyNames(p)' /\ "copy x" \in Copying
    BY <1>2, <2>3, <2>4 DEF CopyNames, Compared, Copying
  <2> QED BY <1>1, <2>2, <2>3, <2>5, CopyStep
<1>7. CASE At(p, "copy x")
  <2>1. /\ reg' = [reg EXCEPT ![p].id = pay[S(p)].id, ![p].x = pay[S(p)].x] /\ Goto(p, "copy y")
        /\ pc[p] = "copy x"
    BY <1>7 DEF Load, At
  <2>2. pay[S(p)].id \in Nat /\ pay[S(p)].x \in 0..1 /\ pay[S(p)].id \in {0, gen[S(p)]}
    BY <1>1 DEF TypeOK, SlotNames
  <2>3. /\ reg' \in [Pid -> Register] /\ \A q \in Pid \ {p} : reg'[q] = reg[q]
        /\ reg'[p].id = pay[S(p)].id /\ reg'[p].gen = reg[p].gen /\ reg'[p].slot = reg[p].slot
    BY <1>1, <2>1, <2>2, ReadName
  <2>4. reg[p].gen <= gen[S(p)]
    BY <1>2, <2>1 DEF CopyNames, Compared
  <2>5. reg'[p].id = 0 \/ reg'[p].id \in reg'[p].gen..gen[S(p)]
    BY <1>2, <2>2, <2>3, <2>4
  <2>6. pc' = [pc EXCEPT ![p] = "copy y"] /\ pc'[p] = "copy y" /\ S(p)' = S(p)
    BY <1>1, <2>1, <2>3 DEF Goto, TypeOK, S
  <2>7. CopyNames(p)' /\ "copy y" \in Copying
    BY <1>2, <2>3, <2>4, <2>5, <2>6 DEF CopyNames, Compared, Copying
  <2> QED BY <1>1, <2>3, <2>6, <2>7, CopyStep
<1>8. CASE At(p, "copy y")
  <2>1. reg' = [reg EXCEPT ![p].y = pay[S(p)].y] /\ Goto(p, "version again") /\ pc[p] = "copy y"
    BY <1>8 DEF Load, At
  <2>2. pay[S(p)].y \in 0..1
    BY <1>1 DEF TypeOK
  <2>3. /\ reg' \in [Pid -> Register] /\ \A q \in Pid \ {p} : reg'[q] = reg[q]
        /\ reg'[p].id = reg[p].id /\ reg'[p].gen = reg[p].gen /\ reg'[p].slot = reg[p].slot
    BY <1>2, <2>1, <2>2 DEF Register
  <2>4. pc' = [pc EXCEPT ![p] = "version again"] /\ pc'[p] = "version again" /\ S(p)' = S(p)
    BY <1>1, <2>1, <2>3 DEF Goto, TypeOK, S
  <2>5. reg[p].gen <= gen[S(p)] /\ (reg[p].id = 0 \/ reg[p].id \in reg[p].gen..gen[S(p)])
    BY <1>2, <2>1 DEF CopyNames, Compared
  <2>6. CopyNames(p)' /\ "version again" \in Copying
    BY <1>2, <2>3, <2>4, <2>5 DEF CopyNames, Compared, Copying
  <2> QED BY <1>1, <2>3, <2>4, <2>6, CopyStep
<1>9. CASE At(p, "version again")
  <2>1. pc[p] = "version again" /\ (Fail(p) \/ (UNCHANGED reg /\ Goto(p, "generation again")))
    BY <1>9 DEF Load, At
  <2>2. reg[p].gen <= gen[S(p)] /\ (reg[p].id = 0 \/ reg[p].id \in reg[p].gen..gen[S(p)])
    BY <1>2, <2>1 DEF CopyNames, Compared
  <2>3. CASE UNCHANGED reg /\ Goto(p, "generation again")
    BY <1>3, <2>2, <2>3 DEF Copying, Compared
  <2> QED BY <1>1, <2>1, <2>3, FailInv
<1>10. CASE At(p, "generation again")
  <2>1. /\ pc[p] = "generation again"
        /\ Fail(p) \/ (gen[S(p)] = reg[p].gen /\ UNCHANGED reg /\ Goto(p, "active again"))
    BY <1>10 DEF Load, At
  <2>2. reg[p].id = 0 \/ reg[p].id \in reg[p].gen..gen[S(p)]
    BY <1>2, <2>1 DEF CopyNames, Compared
  <2>3. CASE gen[S(p)] = reg[p].gen /\ UNCHANGED reg /\ Goto(p, "active again")
    <3>1. \A a, b \in Nat : b \in a..a => b = a
      OBVIOUS
    <3>2. reg[p].id \in {0, reg[p].gen}
      BY <1>2, <2>2, <2>3, <3>1
    <3> QED BY <1>3, <2>3, <3>2 DEF Copying, Compared
  <2> QED BY <1>1, <2>1, <2>3, FailInv
<1>11. CASE At(p, "active again")
  <2>1. pc[p] = "active again" /\ (Fail(p) \/ (UNCHANGED reg /\ Goto(p, "copied")))
    BY <1>11 DEF Load, At
  <2>2. CASE UNCHANGED reg /\ Goto(p, "copied")
    <3>1. reg[p].id \in {0, reg[p].gen}
      BY <1>2, <2>1 DEF CopyNames
    <3> QED BY <1>3, <2>2, <3>1 DEF Copying, Compared
  <2> QED BY <1>1, <2>1, <2>2, FailInv
<1> QED BY <1>4, <1>5, <1>6, <1>7, <1>8, <1>9, <1>10, <1>11 DEF Load

LEMMA CopiedInv == ASSUME Inv, NEW p \in Pid, Copied(p) PROVE Inv'
<1>1. /\ pc[p] = "copied" /\ TypeOK /\ Local(p) /\ p \in running /\ reg[p] \in Register
      /\ UNCHANGED <<shared, admission, procs, conns, todo, notified, wanted>>
  BY Running DEF Copied, At
<1>2. CASE Return(p)
  <2>1. TypeOK'
    BY <1>1, <1>2, Returns DEF TypeOK, Register, shared, procs
  <2> QED BY <1>1, <1>2, <2>1, ReturnInv
<1>3. CASE reg[p].goal # 0 /\ reg[p].id = reg[p].goal /\ Goto(p, "request") /\ UNCHANGED reg
  <2>1. pc' = [pc EXCEPT ![p] = "request"] /\ pc'[p] = "request" /\ reg' = reg
    BY <1>1, <1>3 DEF Goto, TypeOK
  <2>2. reg[p].id \in {0, reg[p].gen}
    BY <1>1 DEF Local, CopyNames
  <2>3. CopyNames(p)' /\ "request" \in Copying /\ reg' \in [Pid -> Register]
    BY <1>1, <1>3, <2>1, <2>2 DEF CopyNames, Compared, Copying, TypeOK, Register
  <2> QED BY <1>1, <2>1, <2>3, CopyStep
<1> QED BY <1>2, <1>3 DEF Copied

LEMMA RequestInv == ASSUME Inv, NEW p \in Pid, Request(p) PROVE Inv'
<1>1. /\ pc[p] = "request" /\ TypeOK /\ Local(p) /\ p \in running /\ reg[p] \in Register /\ S(p) \in Slot
      /\ req' = [req EXCEPT ![S(p)] = reg[p].gen] /\ wanted' = wanted \cup {<<S(p), reg[p].goal>>}
      /\ pc' = [pc EXCEPT ![p] = "confirm"]
      /\ UNCHANGED <<owner, active, gen, ver, pay, admission, procs, reg, conns, todo, notified>>
  BY Running DEF Request, At, Goto
<1>2. reg[p].gen \in Nat /\ reg[p].goal \in Nat /\ reg[p].gen = reg[p].goal
  BY <1>1 DEF Register, Local, CopyNames
<1>3. TypeOK'
  <2>1. wanted' \subseteq Slot \X Nat /\ req' \in [Slot -> Nat] /\ "confirm" \in Labels
    <3>1. <<S(p), reg[p].goal>> \in Slot \X Nat
      BY <1>1, <1>2
    <3>2. wanted' \subseteq Slot \X Nat
      BY <1>1, <3>1 DEF TypeOK
    <3>3. req' \in [Slot -> Nat]
      BY <1>1, <1>2 DEF TypeOK
    <3> QED BY <3>2, <3>3 DEF Labels, Copying
  <2>2. pc' \in [Pid -> Labels]
    BY <1>1, <2>1 DEF TypeOK
  <2> QED BY <1>1, <2>1, <2>2 DEF TypeOK, procs
<1>4. \A q \in Pid \ {p} : Spared(q)
  BY <1>1 DEF Spared, TypeOK, procs
<1>5. pc'[p] = "confirm" /\ Local(p)'
  BY <1>1, Plain DEF Claimless, Local, Living, procs, TypeOK
<1>6. SlotNames'
  <2> SUFFICES ASSUME NEW s \in Slot
               PROVE  pay'[s].id \in {0, gen'[s]} /\ (req'[s] # 0 => <<s, req'[s]>> \in wanted')
    BY DEF SlotNames
  <2>1. pay[s].id \in {0, gen[s]} /\ (req[s] # 0 => <<s, req[s]>> \in wanted)
    BY Parts DEF SlotNames
  <2> QED BY <1>1, <1>2, <2>1 DEF TypeOK
<1>7. maxclients' = maxclients /\ \A s \in Slot : gen[s] <= gen'[s]
  BY <1>1 DEF procs, TypeOK
<1>8. Capacity' /\ Reaping'
  BY <1>1, Parts DEF Capacity, Reserved, Reaping, procs
<1> QED BY <1>3, <1>4, <1>5, <1>6, <1>7, <1>8, Step

LEMMA ConfirmInv == ASSUME Inv, NEW p \in Pid, Confirm(p) PROVE Inv'
<1>1. /\ pc[p] = "confirm" /\ TypeOK /\ Local(p) /\ p \in running /\ Return(p) /\ notified' \subseteq Pid
      /\ UNCHANGED <<shared, admission, procs, conns, todo, wanted>>
  BY Running DEF Confirm, At, TypeOK
<1>2. TypeOK'
  BY <1>1, Returns DEF TypeOK, Register, shared, procs
<1> QED BY <1>1, <1>2, ReturnInv

\* The checks an event starts, or goes on with.
LEMMA ReadEventInv == ASSUME Inv, NEW p \in Pid, ReadEvent(p) PROVE Inv'
<1>1. /\ TypeOK /\ Local(p) /\ p \in running
      /\ todo' = [todo EXCEPT ![p] = conns[p]]
      /\ pc' = [pc EXCEPT ![p] = IF conns[p] = {} THEN "idle" ELSE "serve"]
      /\ notified' \subseteq notified
      /\ UNCHANGED <<shared, admission, procs, reg, conns, wanted>>
  BY Parts DEF ReadEvent, At, Goto
<1>2. TypeOK'
  BY <1>1 DEF TypeOK, Labels, shared, procs
<1>3. Local(p)'
  <2>1. /\ pc'[p] = IF conns[p] = {} THEN "idle" ELSE "serve"
        /\ todo'[p] = conns[p] /\ conns'[p] = conns[p]
    BY <1>1 DEF TypeOK
  <2>2. pc'[p] \in Claimless /\ (pc'[p] = "idle" => todo'[p] = {})
    BY <2>1 DEF Claimless
  <2>3. p \in running' /\ \A s \in conns'[p] : owner'[s] = p /\ active'[s]
    BY <1>1 DEF Local, shared, procs
  <2> QED BY <2>1, <2>2, <2>3, Plain
<1>4. \A q \in Pid \ {p} : pc'[q] = pc[q] /\ todo'[q] = todo[q]
  BY <1>1 DEF TypeOK
<1> QED BY <1>1, <1>2, <1>3, <1>4, Inside

LEMMA ServeInv == ASSUME Inv, NEW p \in Pid, Serve(p) PROVE Inv'
<1>1. TypeOK /\ Local(p) /\ p \in running /\ pc[p] = "serve"
  BY Running DEF Serve, At
<1>2. PICK s \in todo[p] :
        /\ todo' = [todo EXCEPT ![p] = todo[p] \ {s}]
        /\ IF Matches(s)
           THEN Deactivate(p, s)
           ELSE /\ Goto(p, IF todo[p] = {s} THEN "idle" ELSE "serve")
                /\ UNCHANGED <<active, conns, reg>>
  BY DEF Serve
<1>3. UNCHANGED <<owner, gen, req, ver, pay, admission, procs, notified, wanted>>
  BY DEF Serve
<1>4. /\ s \in conns[p] /\ todo' \in [Pid -> SUBSET Slot] /\ todo'[p] \subseteq conns[p] \ {s}
      /\ todo'[p] = todo[p] \ {s} /\ \A q \in Pid \ {p} : todo'[q] = todo[q]
  BY <1>1, <1>2 DEF Local, Living, TypeOK
<1>5. CASE Matches(s)
  <2>1. notified' \subseteq Pid
    BY <1>1, <1>3 DEF TypeOK
  <2> QED BY <1>1, <1>2, <1>3, <1>4, <1>5, <2>1, DeactivateInv
<1>6. CASE ~Matches(s)
  <2>1. /\ pc' = [pc EXCEPT ![p] = IF todo[p] = {s} THEN "idle" ELSE "serve"]
        /\ UNCHANGED <<shared, conns, reg>>
    BY <1>2, <1>3, <1>6 DEF Goto, shared
  <2>2. TypeOK'
    BY <1>1, <1>3, <1>4, <2>1 DEF TypeOK, Labels, shared, procs
  <2>3. Local(p)'
    <3>1. pc'[p] \in Claimless /\ (pc'[p] = "idle" => todo'[p] = {})
      BY <1>1, <1>4, <2>1 DEF Claimless, TypeOK
    <3>2. todo'[p] \subseteq conns'[p] /\ p \in running' /\ \A c \in conns'[p] : owner'[c] = p /\ active'[c]
      BY <1>1, <1>3, <1>4, <2>1 DEF Local, shared, procs
    <3> QED BY <3>1, <3>2, Plain
  <2>4. \A q \in Pid \ {p} : pc'[q] = pc[q]
    BY <1>1, <2>1 DEF TypeOK
  <2> QED BY <1>3, <1>4, <2>1, <2>2, <2>3, <2>4, Inside
<1> QED BY <1>5, <1>6

-----------------------------------------------------------------------------
(* Deaths, reaping and restarts                                            *)

\* A process that is not there has nothing.
LEMMA Gone ==
  ASSUME NEW p \in Pid, pc'[p] = "idle", conns'[p] = {}, todo'[p] = {}
  PROVE  Local(p)'
BY DEF Local, Registering, Holding, Living, CopyNames, Locked, Unconnected, Writing, Compared

LEMMA KillInv == ASSUME Inv, NEW p \in Pid, Kill(p) PROVE Inv'
<1>1. /\ TypeOK /\ p \in running /\ running' = running \ {p} /\ dead' = dead \cup {p}
      /\ kills' = kills + 1 /\ pc' = [pc EXCEPT ![p] = "idle"]
      /\ conns' = [conns EXCEPT ![p] = {}] /\ todo' = [todo EXCEPT ![p] = {}]
      /\ reg' = [reg EXCEPT ![p] = Regs]
      /\ UNCHANGED <<maxclients, shared, admission, sup, notified, wanted>>
  BY Parts DEF Kill, Goto
<1>2. TypeOK'
  <2>1. kills' \in Nat /\ running' \subseteq Pid /\ dead' \subseteq Pid /\ "idle" \in Labels
    <3>1. kills \in Nat /\ running \subseteq Pid /\ dead \subseteq Pid
      BY <1>1 DEF TypeOK
    <3>2. kills + 1 \in Nat
      BY <3>1
    <3> QED BY <1>1, <3>1, <3>2 DEF Labels
  <2>2. /\ pc' \in [Pid -> Labels] /\ reg' \in [Pid -> Register]
        /\ conns' \in [Pid -> SUBSET Slot] /\ todo' \in [Pid -> SUBSET Slot]
    BY <1>1, <2>1, Fresh DEF TypeOK, Register
  <2> QED BY <1>1, <2>1, <2>2 DEF TypeOK, Register, shared
<1>3. \A q \in Pid \ {p} : Spared(q)
  BY <1>1 DEF Spared, TypeOK, shared
<1>4. Local(p)'
  BY <1>1, Gone DEF TypeOK
<1>5. \A s \in Slot : gen[s] <= gen'[s]
  BY <1>1 DEF TypeOK, shared
<1>6. Capacity' /\ SlotNames'
  BY <1>1, Parts DEF Capacity, Reserved, SlotNames, shared
<1>7. Reaping'
  BY <1>1, Parts DEF Reaping, shared
<1> QED BY <1>1, <1>2, <1>3, <1>4, <1>5, <1>6, <1>7, Step

LEMMA SpawnInv == ASSUME Inv, NEW p \in Pid, Spawn(p) PROVE Inv'
<1>1. /\ TypeOK /\ Local(p) /\ p \notin running /\ p \notin dead /\ running' = running \cup {p}
      /\ UNCHANGED <<maxclients, shared, admission, dead, kills, sup, pc, reg, conns, todo, notified, wanted>>
  BY Parts DEF Spawn
<1>2. TypeOK'
  BY <1>1 DEF TypeOK, shared
<1>3. \A q \in Pid \ {p} : Spared(q)
  BY <1>1 DEF Spared, shared
<1>4. Local(p)'
  BY <1>1, Gone DEF Local, Living
<1>5. \A s \in Slot : gen[s] <= gen'[s]
  BY <1>1 DEF TypeOK, shared
<1>6. Capacity' /\ SlotNames' /\ Reaping'
  BY <1>1, Parts DEF Capacity, Reserved, SlotNames, Reaping, shared
<1> QED BY <1>1, <1>2, <1>3, <1>4, <1>5, <1>6, Step

\* What the supervisor may rely on while it reaps.
LEMMA Reaped ==
  ASSUME Inv, sup.step # "none"
  PROVE  /\ sup.pid \in Pid /\ sup.pid \in dead /\ sup.pid \notin running /\ sup.pid # NoPid
         /\ pc[sup.pid] = "idle" /\ conns[sup.pid] = {} /\ todo[sup.pid] = {}
         /\ sup \in [pid : Pid \cup {NoPid}, slot : Slot, step : {"none", "slot", "reset", "free", "lock"}]
BY Parts, SlotsAssumption DEF Reaping, TypeOK, Local, Living

LEMMA ReapStartInv == ASSUME Inv, NEW p \in Pid, ReapStart(p) PROVE Inv'
<1>1. /\ TypeOK /\ p \in dead /\ sup' = [pid |-> p, slot |-> 1, step |-> "slot"]
      /\ UNCHANGED <<maxclients, shared, admission, running, dead, kills, pc, reg, conns, todo, notified, wanted>>
  BY Parts DEF ReapStart
<1>2. TypeOK'
  <2>1. sup' \in [pid : Pid \cup {NoPid}, slot : Slot, step : {"none", "slot", "reset", "free", "lock"}]
    <3>1. p \in Pid \cup {NoPid} /\ 1 \in Slot
      BY SlotsAssumption DEF Slot
    <3> QED BY <1>1, <3>1
  <2> QED BY <1>1, <2>1 DEF TypeOK, shared
<1>3. \A q \in Pid : Spared(q)
  BY <1>1 DEF Spared, shared
<1>4. maxclients' = maxclients /\ \A s \in Slot : gen[s] <= gen'[s]
  BY <1>1 DEF TypeOK, shared
<1>5. Capacity' /\ SlotNames'
  BY <1>1, Parts DEF Capacity, Reserved, SlotNames, shared
<1>6. Reaping'
  BY <1>1, Parts, SlotsAssumption DEF Reaping, Slot, shared
<1>7. Local(p)'
  BY <1>2, <1>3, <1>4, Bystander
<1> QED BY <1>2, <1>3, <1>4, <1>5, <1>6, <1>7, Step

\* On to the next slot: the one that is left is not the dead worker's.
LEMMA OnToNext ==
  ASSUME Inv, sup.step \in {"slot", "free"}, sup' = NextSlot, UNCHANGED <<running, dead>>,
         owner'[sup.slot] # sup.pid,
         \A s \in Slot : owner'[s] = sup.pid => owner[s] = sup.pid
  PROVE  /\ sup' \in [pid : Pid \cup {NoPid}, slot : Slot, step : {"none", "slot", "reset", "free", "lock"}]
         /\ Reaping'
<1>1. /\ sup \in [pid : Pid \cup {NoPid}, slot : Slot, step : {"none", "slot", "reset", "free", "lock"}]
      /\ Reaping /\ NumSlots \in Nat \ {0}
  BY Reaped, Parts, SlotsAssumption
<1>2. /\ sup'.pid = sup.pid
      /\ sup.slot < NumSlots => sup'.slot = sup.slot + 1 /\ sup'.step = "slot"
      /\ ~(sup.slot < NumSlots) => sup'.slot = 1 /\ sup'.step = "lock"
  BY <1>1 DEF NextSlot
<1>3. sup' \in [pid : Pid \cup {NoPid}, slot : Slot, step : {"none", "slot", "reset", "free", "lock"}]
  <2>1. PICK n \in Slot, l \in {"slot", "lock"} : sup' = [sup EXCEPT !.slot = n, !.step = l]
    <3>1. CASE sup.slot < NumSlots
      <4>1. sup.slot + 1 \in Slot
        BY <1>1, <3>1 DEF Slot
      <4> QED BY <3>1, <4>1 DEF NextSlot
    <3>2. CASE ~(sup.slot < NumSlots)
      <4>1. 1 \in Slot
        BY <1>1 DEF Slot
      <4> QED BY <3>2, <4>1 DEF NextSlot
    <3> QED BY <3>1, <3>2
  <2> QED BY <1>1, <2>1
<1>4. ASSUME NEW s \in Slot, owner'[s] = sup.pid
      PROVE  s > sup.slot
  <2>1. s >= sup.slot /\ s # sup.slot
    BY <1>1, <1>4 DEF Reaping
  <2> QED BY <1>1, <2>1 DEF Slot
<1>5. ASSUME NEW s \in Slot, owner'[s] = sup'.pid
      PROVE  sup'.step # "lock" /\ s >= sup'.slot
  <2>1. s > sup.slot /\ s \in 1..NumSlots /\ sup.slot \in 1..NumSlots
    BY <1>1, <1>2, <1>4, <1>5 DEF Slot
  <2>2. sup.slot < NumSlots /\ s >= sup.slot + 1
    BY <1>1, <2>1
  <2> QED BY <1>2, <2>2
<1>6. sup'.step \in {"slot", "lock"}
  BY <1>2
<1> QED BY <1>1, <1>2, <1>3, <1>5, <1>6 DEF Reaping

LEMMA ReapSlotInv == ASSUME Inv, ReapSlot PROVE Inv'
<1>1. /\ TypeOK /\ SlotNames /\ Capacity /\ Reaping /\ sup.step \in {"slot", "reset", "free"}
      /\ UNCHANGED <<maxclients, gen, admission, running, dead, kills, pc, reg, conns, todo, notified, wanted>>
  BY Parts DEF ReapSlot
<1>2. /\ sup.pid \in Pid /\ sup.pid \in dead /\ sup.pid # NoPid
      /\ pc[sup.pid] = "idle" /\ conns[sup.pid] = {} /\ todo[sup.pid] = {} /\ sup.slot \in Slot
      /\ sup \in [pid : Pid \cup {NoPid}, slot : Slot, step : {"none", "slot", "reset", "free", "lock"}]
  BY <1>1, Reaped
<1>3. PICK p \in Pid : p = sup.pid
  BY <1>2
<1>4. Local(p)'
  BY <1>1, <1>2, <1>3, Gone
<1>5. /\ maxclients' = maxclients /\ NoPid \notin Pid
      /\ \A s \in Slot : gen[s] <= gen'[s]
  BY <1>1, SlotsAssumption DEF TypeOK
<1>6. CASE sup.step = "slot" /\ UNCHANGED <<owner, req, ver, pay>> /\ ~Reclaims(sup.slot)
           /\ sup' = NextSlot /\ UNCHANGED active
  <2>1. sup' \in [pid : Pid \cup {NoPid}, slot : Slot, step : {"none", "slot", "reset", "free", "lock"}]
        /\ Reaping'
    BY <1>1, <1>6, OnToNext DEF Reclaims
  <2>2. TypeOK' /\ \A q \in Pid : Spared(q)
    BY <1>1, <1>6, <2>1 DEF TypeOK, Spared
  <2>3. Capacity' /\ SlotNames'
    BY <1>1, <1>6 DEF Capacity, Reserved, SlotNames
  <2> QED BY <1>2, <1>4, <1>5, <2>1, <2>2, <2>3, Step
<1>7. CASE sup.step = "slot" /\ UNCHANGED <<owner, req, ver, pay>> /\ Reclaims(sup.slot)
           /\ active' = [active EXCEPT ![sup.slot] = FALSE] /\ sup' = [sup EXCEPT !.step = "reset"]
  <2>1. /\ sup' \in [pid : Pid \cup {NoPid}, slot : Slot, step : {"none", "slot", "reset", "free", "lock"}]
        /\ sup'.pid = sup.pid /\ sup'.slot = sup.slot /\ sup'.step = "reset"
    BY <1>2, <1>7
  <2>2. TypeOK' /\ \A q \in Pid \ {p} : Spared(q)
    BY <1>1, <1>2, <1>7, <1>3, <2>1 DEF TypeOK, Spared, Reclaims
  <2>3. Capacity' /\ SlotNames'
    BY <1>1, <1>7 DEF Capacity, Reserved, SlotNames
  <2>4. Reaping'
    BY <1>1, <1>7, <2>1 DEF Reaping, Reclaims
  <2> QED BY <1>2, <1>4, <1>5, <2>2, <2>3, <2>4, Step
<1>8. CASE sup.step = "reset" /\ UNCHANGED <<owner, active>>
           /\ ResetSlot(sup.slot) /\ sup' = [sup EXCEPT !.step = "free"]
  <2>1. /\ sup' \in [pid : Pid \cup {NoPid}, slot : Slot, step : {"none", "slot", "reset", "free", "lock"}]
        /\ sup'.pid = sup.pid /\ sup'.slot = sup.slot /\ sup'.step = "free"
    BY <1>2, <1>8
  <2>2. /\ pay' \in [Slot -> Payload] /\ req' \in [Slot -> Nat] /\ ver' \in [Slot -> 0..MaxVersion]
        /\ pay'[sup.slot].id = 0 /\ req'[sup.slot] = 0 /\ ver'[sup.slot] = 0
        /\ \A s \in Slot \ {sup.slot} : pay'[s] = pay[s] /\ req'[s] = req[s] /\ ver'[s] = ver[s]
    BY <1>1, <1>2, <1>8, ResetTypes
  <2>3. owner[sup.slot] = sup.pid
    BY <1>1, <1>8 DEF Reaping
  <2>4. TypeOK'
    BY <1>1, <1>8, <2>1, <2>2 DEF TypeOK, Payload
  <2>5. \A q \in Pid \ {p} : Spared(q)
    BY <1>1, <1>8, <1>3, <2>2, <2>3 DEF Spared
  <2>6. Capacity' /\ SlotNames'
    BY <1>1, <1>8, <2>2 DEF Capacity, Reserved, SlotNames
  <2>7. Reaping'
    BY <1>1, <1>8, <2>1, <2>3 DEF Reaping
  <2> QED BY <1>2, <1>4, <1>5, <2>4, <2>5, <2>6, <2>7, Step
<1>9. CASE sup.step = "free" /\ UNCHANGED <<active, req, ver, pay>>
           /\ owner' = [owner EXCEPT ![sup.slot] = NoPid] /\ sup' = NextSlot
  <2>1. owner[sup.slot] = sup.pid /\ owner'[sup.slot] = NoPid
    BY <1>1, <1>2, <1>9 DEF Reaping, TypeOK
  <2>2. \A s \in Slot : owner'[s] = sup.pid => owner[s] = sup.pid
    BY <1>1, <1>2, <1>9 DEF TypeOK
  <2>3. sup' \in [pid : Pid \cup {NoPid}, slot : Slot, step : {"none", "slot", "reset", "free", "lock"}]
        /\ Reaping'
    BY <1>1, <1>2, <1>9, <2>1, <2>2, OnToNext
  <2>4. TypeOK'
    BY <1>1, <1>9, <2>3 DEF TypeOK
  <2>5. \A q \in Pid \ {p} : Spared(q)
    BY <1>1, <1>9, <1>3, <2>1 DEF Spared, TypeOK
  <2>6. Capacity'
    <3>1. Reserved' \subseteq Reserved /\ Reserved \subseteq Slot
      BY <1>1, <1>9 DEF Reserved, TypeOK
    <3>2. Cardinality(Reserved') <= Cardinality(Reserved)
          /\ Cardinality(Reserved') \in Nat /\ Cardinality(Reserved) \in Nat
      BY <3>1, Fewer
    <3>3. Cardinality(Reserved) <= maxclients /\ maxclients \in Nat
      BY <1>1, SlotsAssumption DEF Capacity, TypeOK
    <3> QED BY <1>5, <3>2, <3>3 DEF Capacity
  <2>7. SlotNames'
    BY <1>1, <1>9 DEF SlotNames
  <2> QED BY <1>2, <1>4, <1>5, <2>3, <2>4, <2>5, <2>6, <2>7, Step
<1> QED BY <1>6, <1>7, <1>8, <1>9 DEF ReapSlot

LEMMA ReapLockInv == ASSUME Inv, ReapLock PROVE Inv'
<1>1. /\ TypeOK /\ SlotNames /\ Capacity /\ Reaping /\ sup.step = "lock"
      /\ admission' = IF admission = sup.pid THEN NoPid ELSE admission
      /\ dead' = dead \ {sup.pid} /\ sup' = NoReap
      /\ UNCHANGED <<maxclients, shared, running, kills, pc, reg, conns, todo, notified, wanted>>
  BY Parts DEF ReapLock
<1>2. sup.pid \in Pid /\ pc[sup.pid] = "idle" /\ conns[sup.pid] = {} /\ todo[sup.pid] = {}
  BY <1>1, Reaped
<1>3. TypeOK'
  <2>1. sup' \in [pid : Pid \cup {NoPid}, slot : Slot, step : {"none", "slot", "reset", "free", "lock"}]
    <3>1. NoPid \in Pid \cup {NoPid} /\ 1 \in Slot
      BY SlotsAssumption DEF Slot
    <3> QED BY <1>1, <3>1 DEF NoReap
  <2> QED BY <1>1, <2>1 DEF TypeOK, shared
<1>4. PICK p \in Pid : p = sup.pid
  BY <1>2
<1>5. Local(p)'
  BY <1>1, <1>2, <1>4, Gone
<1>6. \A q \in Pid \ {p} : Spared(q)
  BY <1>1, <1>4 DEF Spared, shared
<1>7. Capacity' /\ SlotNames' /\ \A s \in Slot : gen[s] <= gen'[s]
  BY <1>1 DEF Capacity, Reserved, SlotNames, TypeOK, shared
<1>8. Reaping'
  BY <1>1 DEF Reaping, NoReap, shared
<1> QED BY <1>1, <1>2, <1>3, <1>5, <1>6, <1>7, <1>8, Step

-----------------------------------------------------------------------------
(* The theorems                                                            *)

LEMMA StutterInv == ASSUME Inv, UNCHANGED vars PROVE Inv'
<1>1. UNCHANGED <<owner, active, gen, req, ver, pay, admission, maxclients, running, dead, kills,
                  sup, pc, reg, conns, todo, notified, wanted>>
  BY DEF vars, shared, procs
<1>2. TypeOK' /\ Capacity' /\ SlotNames' /\ Reaping'
  BY <1>1, Parts DEF TypeOK, Capacity, Reserved, SlotNames, Reaping
<1>3. maxclients' = maxclients /\ \A s \in Slot : gen[s] <= gen'[s]
  BY <1>1, Parts DEF TypeOK
<1>4. ASSUME NEW q \in Pid PROVE Local(q)'
  <2>1. Spared(q)
    BY <1>1 DEF Spared
  <2> QED BY <1>2, <1>3, <2>1, Bystander
<1> QED BY <1>2, <1>4, Whole

LEMMA NextInv == Inv /\ [Next]_vars => Inv'
<1> SUFFICES ASSUME Inv, [Next]_vars PROVE Inv'
  OBVIOUS
<1>1. ASSUME NEW p \in Pid, Begin(p) PROVE Inv'
  BY <1>1, LockInv, UnregisterInv, UpdateBeginInv, LookInv DEF Begin
<1>2. ASSUME NEW p \in Pid, Continue(p) PROVE Inv'
  BY <1>2, ScanInv, ReserveInv, UnlockInv, ResetInv, BumpInv, FillInv, PublishInv, ClearInv,
     ReleaseInv, UpdateWriteInv, UpdateEndInv, LoadInv, CopiedInv, RequestInv, ConfirmInv, ServeInv
     DEF Continue
<1>3. ASSUME NEW p \in Pid, ReadEvent(p) \/ Kill(p) \/ Spawn(p) PROVE Inv'
  BY <1>3, ReadEventInv, KillInv, SpawnInv
<1>4. CASE Reap
  BY <1>4, ReapStartInv, ReapSlotInv, ReapLockInv DEF Reap
<1>5. CASE UNCHANGED vars
  BY <1>5, StutterInv
<1> QED BY <1>1, <1>2, <1>3, <1>4, <1>5 DEF Next

\* However many workers register, leave, copy, die and come back: what each of
\* them relies on holds (status_register_client to status_reap_worker).
THEOREM SlotsInvariant == Spec => []Inv
<1> QED BY InitInv, NextInv, PTL DEF Spec

\* The limit on clients holds, an admitted registration finds a slot, and what a
\* worker has published stays its own (status_register_client).
THEOREM SlotsSafe == Spec => [](Capacity /\ AdmittedFindsSlot /\ ConnectionsOwned)
<1>1. Inv => Capacity /\ AdmittedFindsSlot /\ ConnectionsOwned
  BY DEF Inv
<1> QED BY <1>1, SlotsInvariant, PTL

\* Only the worker itself closes its connections.
LEMMA OwnConnections ==
  ASSUME Inv, [Next]_vars, NEW p \in Pid, pc[p] = "serve", NEW s \in conns[p], s \notin conns'[p],
         p \in running'
  PROVE  Serve(p)
<1>1. conns \in [Pid -> SUBSET Slot]
  BY Parts DEF TypeOK
<1>2. conns' # conns
  OBVIOUS
<1>3. ASSUME NEW q \in Pid, Begin(q) PROVE q # p /\ conns'[p] = conns[p]
  <2>1. pc[q] = "idle" /\ q # p
    BY <1>3 DEF Begin, Lock, Unregister, UpdateBegin, Look, At
  <2>2. PICK t \in Slot : Unregister(q, t)
    BY <1>2, <1>3 DEF Begin, Lock, UpdateBegin, Look
  <2> QED BY <1>1, <2>1, <2>2 DEF Unregister, Deactivate
<1>4. ASSUME NEW q \in Pid, Continue(q), ~Serve(q) PROVE FALSE
  <2>1. Publish(q)
    BY <1>2, <1>4 DEF Continue, Scan, Reserve, Unlock, Reset, Bump, Fill, Clear, Release,
                      UpdateWrite, UpdateEnd, Load, Copied, Request, Confirm
  <2> QED BY <1>1, <2>1 DEF Publish
<1>5. ASSUME NEW q \in Pid, Serve(q), q # p PROVE FALSE
  <2>1. conns'[p] = conns[p]
    BY <1>1, <1>5 DEF Serve, Deactivate
  <2> QED BY <2>1
<1>6. ASSUME NEW q \in Pid, ReadEvent(q) \/ Kill(q) \/ Spawn(q) PROVE FALSE
  <2>1. Kill(q)
    BY <1>2, <1>6 DEF ReadEvent, Spawn
  <2>2. q # p
    BY <2>1 DEF Kill
  <2> QED BY <1>1, <2>1, <2>2 DEF Kill
<1>7. ~Reap /\ ~UNCHANGED vars
  BY <1>2 DEF Reap, ReapStart, ReapSlot, ReapLock, vars
<1> QED BY <1>3, <1>4, <1>5, <1>6, <1>7 DEF Next

\* A worker closes on request exactly a client somebody asked to disconnect,
\* never the next one in its slot (handle_disconnect_client to the worker's check).
THEOREM RightClientClosed == Spec => RightClient
<1>1. ASSUME Inv, [Next]_vars, NEW p \in Pid, NEW s \in Slot,
             pc[p] = "serve", s \in conns[p], s \notin conns'[p], p \in running'
      PROVE  <<s, gen[s]>> \in wanted
  <2>1. Serve(p)
    BY <1>1, OwnConnections
  <2>2. PICK t \in todo[p] : IF Matches(t) THEN Deactivate(p, t) ELSE UNCHANGED conns
    BY <2>1 DEF Serve
  <2>3. Matches(t) /\ conns' = [conns EXCEPT ![p] = conns[p] \ {t}]
    BY <1>1, <2>2 DEF Deactivate
  <2>4. s = t
    BY <1>1, <2>3, Parts DEF TypeOK
  <2> QED BY <1>1, <2>3, <2>4, Parts DEF Matches, SlotNames
<1>2. Inv /\ [Next]_vars =>
        [\A p \in Pid, s \in Slot :
           pc[p] = "serve" /\ s \in conns[p] /\ s \notin conns'[p] /\ p \in running'
           => <<s, gen[s]>> \in wanted]_vars
  BY <1>1
<1> QED BY <1>2, SlotsInvariant, PTL DEF Spec, RightClient

\* What a killed worker held is reclaimed before its process id can come back
\* (status_reap_worker).
THEOREM DeadReclaimed == Spec => Reclaimed
<1>1. ASSUME Inv, [Next]_vars, NEW p \in Pid, p \in dead, p \notin dead'
      PROVE  admission' # p /\ \A s \in Slot : owner'[s] # p
  <2>1. dead' # dead
    BY <1>1
  <2>2. ReapLock
    <3>1. ASSUME NEW q \in Pid PROVE ~Begin(q) /\ ~Continue(q)
      BY <2>1 DEF Begin, Lock, Unregister, UpdateBegin, Look, Continue, Scan, Reserve, Unlock, Reset,
                  Bump, Fill, Publish, Clear, Release, UpdateWrite, UpdateEnd, Load, Copied, Request,
                  Confirm, Serve, procs
    <3>2. ASSUME NEW q \in Pid PROVE ~ReadEvent(q) /\ ~Kill(q) /\ ~Spawn(q)
      BY <1>1, <2>1 DEF ReadEvent, Kill, Spawn, procs
    <3>3. ~(\E q \in Pid : ReapStart(q)) /\ ~ReapSlot /\ ~UNCHANGED vars
      BY <2>1 DEF ReapStart, ReapSlot, vars, procs
    <3> QED BY <1>1, <3>1, <3>2, <3>3 DEF Next, Reap
  <2>3. sup.step = "lock" /\ p = sup.pid /\ UNCHANGED owner /\ p # NoPid
        /\ admission' = IF admission = sup.pid THEN NoPid ELSE admission
    BY <1>1, <2>2, SlotsAssumption DEF ReapLock, shared
  <2>4. \A s \in Slot : owner[s] # sup.pid
    BY <2>3, <1>1, Parts DEF Reaping
  <2> QED BY <2>3, <2>4
<1>2. Inv /\ [Next]_vars =>
        [\A p \in Pid : p \in dead /\ p \notin dead'
           => admission' # p /\ \A s \in Slot : owner'[s] # p]_vars
  BY <1>1
<1> QED BY <1>2, SlotsInvariant, PTL DEF Spec, Reclaimed

(***************************************************************************)
(* The RTSP session                                                        *)
(***************************************************************************)
Early == {"OPTIONS", "DESCRIBE", "SETUP"}
Later == {"PLAY", "ALIVE", "TEARDOWN"}

\* Only requests that name no session are redirected.
EarlyRedirects == Redirects \subseteq Early

SessionFields ==
  {"state", "sock", "peer", "rx", "asked", "out", "edge", "cands", "family", "pend", "await", "alive",
   "getParam", "closed", "redirects", "auth", "stun", "tries", "stunAge", "stunWait", "mapped", "udp",
   "opened", "tcp", "media", "paused", "sid", "tearing", "reconnected", "init", "age", "buf", "kind",
   "conn", "plays", "last", "mixed", "named", "told", "owes", "lost", "valid", "moved"}

Message == {Media} \cup {a \in [to : Requests, code : Codes] : a.code = "302" => a.to \in Redirects}

\* What every field holds, within an operation too.
Fits(y) ==
  /\ DOMAIN y = SessionFields
  /\ y.state \in States /\ y.pend \in Requests \cup {None} /\ y.last \in Requests \cup {None}
  /\ y.peer \in {None, "dialling", "open", "refused", "eof", "reset"} /\ (y.sock <=> y.peer # None)
  /\ y.rx \in Seq(Message) /\ y.buf \in Seq(Message) /\ y.asked \in Seq(Requests)
  /\ y.alive \in {None, "pending", "await"} /\ y.stun \in {"off", "asked", "done"}
  /\ y.tries \in 0..StunRetries + 1 /\ y.stunAge \in 0..StunTimeout /\ y.age \in 0..Timeout
  /\ y.redirects \in 0..MaxRedirects /\ y.auth \in 0..MaxAuth
  /\ y.conn \in {"stream", "closing", "deferred", "freed"}
  /\ y.opened \in Nat /\ y.udp \in 0..y.opened /\ y.mapped \in 0..y.opened
  /\ y.kind \in {"play", "head", "duration"} /\ y.cands \in Nat
  /\ y.peer \in {"eof", "reset"} => y.lost
  /\ y.stun = "off" => y.tries = 0
  /\ y.stun = "asked" => y.tries <= StunRetries

Quiet(s) == \A i \in 1..Len(s) : s[i] = Media
Single(s, ask) == \E i \in 1..Len(s) : /\ s[i] # Media /\ s[i].to = ask
                                       /\ \A j \in 1..Len(s) : j # i => s[j] = Media
Belated(s) == \A i \in 1..Len(s) : s[i] # Media => s[i].to \in Later

\* One request at a time: what is asked, or the answer not yet taken.
Outstanding(y) ==
  /\ ~y.mixed
  /\ y.await => y.pend = None
  /\ \/ y.asked = <<>> /\ Quiet(y.buf) /\ Quiet(y.rx)
     \/ /\ y.await \/ y.state = "ERROR"
        /\ y.pend = None
        /\ \/ y.asked = <<y.last>> /\ Quiet(y.buf) /\ Quiet(y.rx)
           \/ y.asked = <<>> /\ Quiet(y.buf) /\ Single(y.rx, y.last)
           \/ y.asked = <<>> /\ Single(y.buf, y.last) /\ Quiet(y.rx)

\* What the state says of the requests.
Stage(y) ==
  /\ y.state # "INIT"
  /\ y.state \in {"CONNECTING", "CONNECTED", "DESCRIBED", "SETUP", "TEARDOWN_COMPLETE"}
       => y.pend = None /\ ~y.await
  /\ y.state = "SENDING_OPTIONS" => y.pend = "OPTIONS"
  /\ y.state = "SENDING_DESCRIBE" => y.pend = "DESCRIBE"
  /\ y.state = "SENDING_SETUP" => y.pend = "SETUP"
  /\ y.state = "SENDING_PLAY" => y.pend = "PLAY"
  /\ y.state = "SENDING_TEARDOWN" => y.pend = "TEARDOWN"
  /\ y.state = "AWAITING_OPTIONS" => y.pend = None /\ y.last \in {"OPTIONS", "DESCRIBE"}
  /\ y.state = "AWAITING_DESCRIBE" => y.pend = None /\ y.last = "DESCRIBE"
  /\ y.state = "AWAITING_SETUP" => y.pend = None /\ y.last = "SETUP"
  /\ y.state = "AWAITING_PLAY" => y.pend = None /\ y.last = "PLAY"
  /\ y.state = "AWAITING_TEARDOWN" => y.pend = None /\ y.last = "TEARDOWN"
  /\ y.state = "PLAYING" => y.pend \in {None, "ALIVE"} /\ y.last \in {"PLAY", "ALIVE"}
  /\ y.stunWait => ~y.await /\ y.pend = None /\ y.state \in {"AWAITING_OPTIONS", "ERROR"}
  /\ y.alive # None => y.state \in {"PLAYING", "ERROR", "RECONNECTING", "TEARDOWN_COMPLETE"} \cup Closing
  /\ y.state \in {"RECONNECTING", "TEARDOWN_COMPLETE"} \cup Closing => y.tearing

\* A session that is torn down makes no early request again.
Leaving(y) ==
  /\ y.pend \in Later \cup {None} /\ y.last \in Later /\ y.asked \in Seq(Later)
  /\ Belated(y.rx) /\ Belated(y.buf)
  /\ y.state \in {"RECONNECTING", "TEARDOWN_COMPLETE", "ERROR"} \cup Closing

EarlyStates ==
  {"CONNECTING", "CONNECTED", "SENDING_OPTIONS", "AWAITING_OPTIONS", "SENDING_DESCRIBE",
   "AWAITING_DESCRIBE", "DESCRIBED", "SENDING_SETUP", "AWAITING_SETUP"}

\* What STUN mapped are the open sockets, unless another local address has closed them.
Placed(y) == y.mapped \in {0, y.udp} \/ y.moved

\* DESCRIBE names what was mapped.
Naming(y) ==
  /\ y.state \in EarlyStates \/ y.pend \in Early \/ (y.await /\ y.last \in Early)
       => Placed(y)
  /\ y.state \in {"SENDING_DESCRIBE", "AWAITING_DESCRIBE", "DESCRIBED", "SENDING_SETUP", "AWAITING_SETUP"}
       => y.named = y.mapped /\ y.stun # "asked"

Going(y) ==
  /\ ~y.tearing => Outstanding(y)
  /\ y.tearing => Leaving(y)
  /\ Stage(y) /\ Naming(y)

\* What every operation keeps.
Good(y) == Fits(y) /\ (y.init => Going(y))

\* The client's connection, as an operation within the session leaves it.
Kept(y, z) ==
  /\ z.init => y.init
  /\ z.conn = y.conn \/ (y.conn = "stream" /\ z.conn = "closing")
  /\ z.owes = y.owes /\ (y.told => z.told) /\ (y.lost => z.lost)

Wired(y) ==
  y.state \notin {"CONNECTING", "RECONNECTING", "ERROR"} => y.sock /\ y.peer \in {"open", "eof", "reset"}

Transient == {"CONNECTED", "DESCRIBED", "SETUP", "TEARDOWN_COMPLETE"}

\* A session between two events.
Settled(y) ==
  /\ y.init => y.state \notin Transient /\ Wired(y) /\ (y.await => y.pend = None)
  /\ ~y.init => y.state = "INIT"

\* The clocks and counters start within their bounds.
LEMMA Starts ==
  /\ 0 \in 0..Timeout /\ 0 \in 0..StunTimeout /\ 0 \in 0..StunRetries + 1 /\ 0 <= StunRetries
  /\ 0 \in 0..MaxRedirects /\ 0 \in 0..MaxAuth
BY SessionAssumption

(***************************************************************************)
(* Messages                                                                *)
(***************************************************************************)
\* What is read is what was kept and what has come.
LEMMA ReadTogether ==
  ASSUME NEW s \in Seq(Message), NEW t \in Seq(Message), NEW ask
  PROVE  /\ s \o t \in Seq(Message)
         /\ Quiet(s) /\ Quiet(t) => Quiet(s \o t)
         /\ Quiet(s) /\ Single(t, ask) => Single(s \o t, ask)
         /\ Single(s, ask) /\ Quiet(t) => Single(s \o t, ask)
         /\ Belated(s) /\ Belated(t) => Belated(s \o t)
<1> DEFINE b == s \o t
<1>1. /\ b \in Seq(Message) /\ Len(b) = Len(s) + Len(t) /\ Len(s) \in Nat /\ Len(t) \in Nat
      /\ \A i \in 1..Len(s) : i \in 1..Len(b) /\ b[i] = s[i]
      /\ \A i \in 1..Len(t) : i + Len(s) \in 1..Len(b) /\ b[i + Len(s)] = t[i]
      /\ \A i \in 1..Len(b) : i \in 1..Len(s) \/ (i - Len(s) \in 1..Len(t) /\ b[i] = t[i - Len(s)])
  OBVIOUS
<1> HIDE DEF b
<1>2. Quiet(s) /\ Quiet(t) => Quiet(b)
  BY <1>1 DEF Quiet
<1>3. ASSUME Quiet(s), Single(t, ask) PROVE Single(b, ask)
  <2>1. PICK i \in 1..Len(t) : t[i] # Media /\ t[i].to = ask /\ \A j \in 1..Len(t) : j # i => t[j] = Media
    BY <1>3 DEF Single
  <2>2. i + Len(s) \in 1..Len(b) /\ b[i + Len(s)] = t[i]
    BY <1>1
  <2>3. ASSUME NEW j \in 1..Len(b), j # i + Len(s) PROVE b[j] = Media
    <3>1. CASE j \in 1..Len(s)
      BY <3>1, <1>1, <1>3 DEF Quiet
    <3>2. CASE j - Len(s) \in 1..Len(t) /\ b[j] = t[j - Len(s)]
      <4>1. j - Len(s) # i
        BY <1>1, <2>3
      <4> QED BY <3>2, <4>1, <2>1
    <3> QED BY <3>1, <3>2, <1>1
  <2> QED BY <2>1, <2>2, <2>3 DEF Single
<1>4. ASSUME Single(s, ask), Quiet(t) PROVE Single(b, ask)
  <2>1. PICK i \in 1..Len(s) : s[i] # Media /\ s[i].to = ask /\ \A j \in 1..Len(s) : j # i => s[j] = Media
    BY <1>4 DEF Single
  <2>2. i \in 1..Len(b) /\ b[i] = s[i]
    BY <1>1
  <2>3. ASSUME NEW j \in 1..Len(b), j # i PROVE b[j] = Media
    BY <2>1, <2>3, <1>1, <1>4 DEF Quiet
  <2> QED BY <2>1, <2>2, <2>3 DEF Single
<1>5. Belated(s) /\ Belated(t) => Belated(b)
  BY <1>1 DEF Belated
<1> QED BY <1>1, <1>2, <1>3, <1>4, <1>5 DEF b

\* Something comes.
LEMMA OneMore ==
  ASSUME NEW s \in Seq(Message), NEW m \in Message, NEW ask
  PROVE  /\ Append(s, m) \in Seq(Message)
         /\ m = Media /\ Quiet(s) => Quiet(Append(s, m))
         /\ m = Media /\ Single(s, ask) => Single(Append(s, m), ask)
         /\ m # Media /\ m.to = ask /\ Quiet(s) => Single(Append(s, m), ask)
         /\ Belated(s) /\ (m # Media => m.to \in Later) => Belated(Append(s, m))
<1> DEFINE b == Append(s, m)
<1>1. /\ b \in Seq(Message) /\ Len(b) = Len(s) + 1 /\ Len(s) \in Nat
      /\ \A i \in 1..Len(s) : i \in 1..Len(b) /\ b[i] = s[i]
      /\ b[Len(b)] = m /\ Len(b) \in 1..Len(b)
      /\ \A i \in 1..Len(b) : i \in 1..Len(s) \/ i = Len(b)
  OBVIOUS
<1> HIDE DEF b
<1>2. m = Media /\ Quiet(s) => Quiet(b)
  BY <1>1 DEF Quiet
<1>3. m = Media /\ Single(s, ask) => Single(b, ask)
  BY <1>1 DEF Single
<1>4. m # Media /\ m.to = ask /\ Quiet(s) => Single(b, ask)
  BY <1>1 DEF Quiet, Single
<1>5. Belated(s) /\ (m # Media => m.to \in Later) => Belated(b)
  BY <1>1 DEF Belated
<1> QED BY <1>1, <1>2, <1>3, <1>4, <1>5 DEF b

\* The answers that were read, the first of them, and what is around it.
AnswersIn(b) == {i \in 1..Len(b) : b[i] # Media}
FirstIn(b) == CHOOSE i \in AnswersIn(b) : \A j \in AnswersIn(b) : i <= j
Before(b) == SubSeq(b, 1, FirstIn(b) - 1)
Behind(b) == SubSeq(b, FirstIn(b) + 1, Len(b))

\* The first answer is there, and only media comes before it.
LEMMA FirstFound ==
  ASSUME NEW b \in Seq(Message), AnswersIn(b) # {}
  PROVE  /\ FirstIn(b) \in 1..Len(b) /\ b[FirstIn(b)] # Media
         /\ \A i \in 1..Len(b) : i < FirstIn(b) => b[i] = Media
<1> DEFINE Spots == AnswersIn(b)
<1>1. Spots \subseteq Nat /\ Spots # {}
  BY DEF AnswersIn
<1>2. PICK i \in Spots : \A j \in Spots : ~(<<j, i>> \in OpToRel(<, Nat))
  BY <1>1, NatLessThanWellFounded, WFMin
<1> HIDE DEF Spots
<1>3. ASSUME NEW j \in Spots PROVE i <= j
  <2>1. ~(<<j, i>> \in OpToRel(<, Nat))
    BY <1>2
  <2> QED BY <1>1, <2>1 DEF OpToRel
<1>4. FirstIn(b) \in Spots /\ \A j \in Spots : FirstIn(b) <= j
  BY <1>3 DEF FirstIn, Spots
<1>5. ASSUME NEW j \in 1..Len(b), j < FirstIn(b) PROVE j \notin Spots
  <2>1. FirstIn(b) \in Nat
    BY <1>1, <1>4
  <2>2. Len(b) \in Nat
    OBVIOUS
  <2> QED BY <1>4, <1>5, <2>1, <2>2
<1> QED BY <1>4, <1>5 DEF Spots, AnswersIn

\* The first answer is taken out.
LEMMA TakenOut ==
  ASSUME NEW b \in Seq(Message), AnswersIn(b) # {}, NEW ask
  PROVE  /\ b[FirstIn(b)] \in Message /\ b[FirstIn(b)] # Media
         /\ Behind(b) \in Seq(Message) /\ Before(b) \o Behind(b) \in Seq(Message)
         /\ Single(b, ask) => /\ b[FirstIn(b)].to = ask
                              /\ Quiet(Behind(b)) /\ Quiet(Before(b) \o Behind(b))
         /\ Belated(b) => /\ b[FirstIn(b)].to \in Later
                          /\ Belated(Behind(b)) /\ Belated(Before(b) \o Behind(b))
<1> DEFINE n == FirstIn(b)
           p == SubSeq(b, 1, n - 1)
           q == SubSeq(b, n + 1, Len(b))
<1>1. n \in 1..Len(b) /\ b[n] # Media /\ Len(b) \in Nat /\ \A i \in 1..Len(b) : i < n => b[i] = Media
  BY FirstFound
<1> HIDE DEF n
<1>2. p \in Seq(Message) /\ Len(p) = n - 1 /\ \A i \in 1..Len(p) : i \in 1..Len(b) /\ i < n /\ p[i] = b[i]
  BY <1>1
<1>3. q \in Seq(Message) /\ \A i \in 1..Len(q) : n + i \in 1..Len(b) /\ n + i # n /\ q[i] = b[n + i]
  BY <1>1
<1> HIDE DEF p, q
<1>4. Quiet(p) /\ Belated(p)
  BY <1>1, <1>2 DEF Quiet, Belated
<1>5. ASSUME Single(b, ask) PROVE b[n].to = ask /\ Quiet(q)
  BY <1>1, <1>3, <1>5 DEF Single, Quiet
<1>6. Belated(b) => b[n].to \in Later /\ Belated(q)
  BY <1>1, <1>3 DEF Belated
<1>7. p \o q \in Seq(Message) /\ (Quiet(q) => Quiet(p \o q)) /\ (Belated(q) => Belated(p \o q))
  BY <1>2, <1>3, <1>4, ReadTogether
<1> QED BY <1>1, <1>3, <1>5, <1>6, <1>7 DEF n, p, q, Before, Behind

\* Without an answer there is only media.
LEMMA NothingRead ==
  ASSUME NEW b \in Seq(Message)
  PROVE  AnswersIn(b) = {} <=> Quiet(b)
BY DEF AnswersIn, Quiet

\* What is read of the media, and what is left.
LEMMA MediaRead ==
  ASSUME NEW b \in Seq(Message), NEW ask
  PROVE  LET n == IF AnswersIn(b) = {} THEN Len(b) ELSE FirstIn(b) - 1
             rest == SubSeq(b, n + 1, Len(b))
         IN  /\ rest \in Seq(Message)
             /\ Quiet(b) => rest = <<>>
             /\ Single(b, ask) => Single(rest, ask)
             /\ Belated(b) => Belated(rest)
<1> DEFINE n == IF AnswersIn(b) = {} THEN Len(b) ELSE FirstIn(b) - 1
           rest == SubSeq(b, n + 1, Len(b))
<1>1. Len(b) \in Nat /\ n \in 0..Len(b) /\ \A i \in 1..Len(b) : i <= n => b[i] = Media
  <2>1. CASE AnswersIn(b) = {}
    BY <2>1, NothingRead DEF Quiet
  <2>2. CASE AnswersIn(b) # {}
    BY <2>2, FirstFound
  <2> QED BY <2>1, <2>2
<1>2. Quiet(b) => n = Len(b)
  BY NothingRead
<1> HIDE DEF n
<1>3. /\ rest \in Seq(Message) /\ Len(rest) = Len(b) - n
      /\ \A i \in 1..Len(rest) : n + i \in 1..Len(b) /\ rest[i] = b[n + i]
      /\ \A i \in 1..Len(b) : i > n => i - n \in 1..Len(rest) /\ rest[i - n] = b[i]
  BY <1>1
<1>4. Quiet(b) => rest = <<>>
  BY <1>2, <1>3
<1> HIDE DEF rest
<1>5. ASSUME Single(b, ask) PROVE Single(rest, ask)
  <2>1. PICK i \in 1..Len(b) : b[i] # Media /\ b[i].to = ask /\ \A j \in 1..Len(b) : j # i => b[j] = Media
    BY <1>5 DEF Single
  <2>2. i - n \in 1..Len(rest) /\ rest[i - n] = b[i]
    BY <2>1, <1>1, <1>3
  <2>3. \A j \in 1..Len(rest) : j # i - n => rest[j] = Media
    BY <2>1, <1>1, <1>3
  <2> QED BY <2>1, <2>2, <2>3 DEF Single
<1>6. Belated(b) => Belated(rest)
  BY <1>3, <1>1 DEF Belated
<1> QED BY <1>3, <1>4, <1>5, <1>6 DEF n, rest

(***************************************************************************)
(* Sockets                                                                 *)
(***************************************************************************)
\* A new state starts its time anew.
LEMMA NewState ==
  ASSUME NEW y, Fits(y), NEW st \in States
  PROVE  /\ Fits(SetState(y, st)) /\ SetState(y, st).state = st
         /\ SetState(y, st).age \in {0, y.age}
         /\ y.state # st => SetState(y, st).age = 0
         /\ \A f \in SessionFields \ {"state", "age"} : SetState(y, st)[f] = y[f]
<1>1. CASE y.state = st
  BY <1>1 DEF SetState, Fits, SessionFields
<1>2. CASE y.state # st
  <2>1. DOMAIN y = SessionFields
    BY DEF Fits
  <2> DEFINE z == [y EXCEPT !.state = st, !.age = 0]
  <2>2. SetState(y, st) = z
    BY <1>2 DEF SetState
  <2>3. DOMAIN z = SessionFields /\ z.state = st /\ z.age = 0 /\ \A f \in SessionFields \ {"state", "age"} : z[f] = y[f]
    BY <2>1 DEF SessionFields
  <2>4. Fits(z)
    BY <2>1, Starts DEF Fits, SessionFields
  <2> QED BY <2>2, <2>3, <2>4
<1> QED BY <1>1, <1>2

\* The poller looks again.
LEMMA LooksAgain ==
  ASSUME NEW y, Fits(y), NEW out
  PROVE  /\ Fits(Mod(y, out)) /\ Mod(y, out).out = out /\ Mod(y, out).edge
         /\ \A f \in SessionFields \ {"out", "edge"} : Mod(y, out)[f] = y[f]
<1>1. DOMAIN y = SessionFields
  BY DEF Fits
<1> DEFINE z == [y EXCEPT !.out = out, !.edge = TRUE]
<1>3. DOMAIN z = SessionFields /\ z.out = out /\ z.edge /\ \A f \in SessionFields \ {"out", "edge"} : z[f] = y[f]
  BY <1>1 DEF SessionFields
<1>4. Fits(z)
  BY <1>1 DEF Fits, SessionFields
<1> QED BY <1>3, <1>4 DEF Mod

\* What changes only the edge and the interest set changes nothing else.
LEMMA EdgeGood ==
  ASSUME NEW y, Good(y), NEW z, Fits(z),
         \A f \in SessionFields \ {"out", "edge", "cands", "paused", "media", "closed"} : z[f] = y[f]
  PROVE  Good(z) /\ Kept(y, z) /\ (Wired(y) => Wired(z))
<1>1. /\ z.state = y.state /\ z.pend = y.pend /\ z.await = y.await /\ z.last = y.last /\ z.rx = y.rx
      /\ z.buf = y.buf /\ z.asked = y.asked /\ z.mixed = y.mixed /\ z.tearing = y.tearing
      /\ z.init = y.init /\ z.stunWait = y.stunWait /\ z.alive = y.alive /\ z.mapped = y.mapped /\ z.moved = y.moved
      /\ z.udp = y.udp /\ z.named = y.named /\ z.stun = y.stun /\ z.conn = y.conn /\ z.owes = y.owes
      /\ z.told = y.told /\ z.lost = y.lost /\ z.sock = y.sock /\ z.peer = y.peer
  BY DEF SessionFields
<1> QED BY <1>1 DEF Good, Going, Outstanding, Stage, Leaving, Naming, Kept, Wired, Placed

\* Another try of STUN is within its bound.
LEMMA Tried ==
  ASSUME NEW y, Fits(y), y.stun = "asked"
  PROVE  y.tries \in Nat /\ y.tries + 1 \in 0..StunRetries + 1
<1>1. y.tries \in 0..StunRetries + 1 /\ y.tries <= StunRetries
  BY DEF Fits
<1> QED BY <1>1, SessionAssumption

\* The clock of STUN changes nothing but STUN.
LEMMA StunChecked ==
  ASSUME NEW y, Good(y)
  PROVE  LET z == StunCheck(y)
         IN  /\ Good(z) /\ Kept(y, z) /\ z.stun \in {y.stun, "done"}
             /\ \A f \in SessionFields \ {"stun", "tries", "stunAge"} : z[f] = y[f]
<1> DEFINE z == StunCheck(y)
<1>1. DOMAIN y = SessionFields /\ Fits(y)
  BY DEF Good, Fits
<1>2. Fits(z) /\ z.stun \in {y.stun, "done"} /\ \A f \in SessionFields \ {"stun", "tries", "stunAge"} : z[f] = y[f]
  <2>1. CASE y.stun # "asked" \/ y.stunAge < StunTimeout
    BY <1>1, <2>1 DEF StunCheck
  <2>2. CASE y.stun = "asked" /\ ~(y.stunAge < StunTimeout) /\ y.tries + 1 > StunRetries
    <3> DEFINE w == [y EXCEPT !.tries = @ + 1, !.stun = "done"]
    <3>1. z = w
      BY <2>2 DEF StunCheck
    <3>2. y.tries + 1 \in 0..StunRetries + 1
      BY <1>1, <2>2, Tried
    <3>4. Fits(w)
      BY <1>1, <2>2, <3>2, Starts DEF Fits, SessionFields
    <3>3. w.stun = "done" /\ \A f \in SessionFields \ {"stun", "tries", "stunAge"} : w[f] = y[f]
      BY <1>1 DEF SessionFields
    <3> QED BY <3>1, <3>3, <3>4
  <2>3. CASE y.stun = "asked" /\ ~(y.stunAge < StunTimeout) /\ ~(y.tries + 1 > StunRetries)
    <3> DEFINE n == IF y.udp = 0 THEN y.stunAge ELSE 0
               w == [y EXCEPT !.tries = @ + 1, !.stunAge = n]
    <3>1. z = w
      BY <2>3 DEF StunCheck
    <3>2. y.tries + 1 \in 0..StunRetries + 1 /\ y.tries + 1 <= StunRetries
      BY <1>1, <2>3, SessionAssumption, Tried
    <3>5. n \in 0..StunTimeout
      BY <1>1, Starts DEF Fits
    <3> HIDE DEF n
    <3>4. Fits(w)
      BY <1>1, <2>3, <3>2, <3>5 DEF Fits, SessionFields
    <3>3. w.stun = y.stun /\ \A f \in SessionFields \ {"stun", "tries", "stunAge"} : w[f] = y[f]
      BY <1>1 DEF SessionFields
    <3> QED BY <3>1, <3>3, <3>4
  <2> QED BY <2>1, <2>2, <2>3
<1> HIDE DEF z
<1>4. /\ z.state = y.state /\ z.pend = y.pend /\ z.await = y.await /\ z.last = y.last /\ z.rx = y.rx
      /\ z.buf = y.buf /\ z.asked = y.asked /\ z.mixed = y.mixed /\ z.tearing = y.tearing
      /\ z.init = y.init /\ z.stunWait = y.stunWait /\ z.alive = y.alive /\ z.mapped = y.mapped /\ z.moved = y.moved
      /\ z.udp = y.udp /\ z.named = y.named /\ z.conn = y.conn /\ z.owes = y.owes
      /\ z.told = y.told /\ z.lost = y.lost
  BY <1>2 DEF SessionFields
<1>5. Good(z) /\ Kept(y, z)
  BY <1>2, <1>4 DEF Good, Going, Outstanding, Stage, Leaving, Naming, Kept, Placed
<1> QED BY <1>2, <1>5 DEF z

\* What a further dial changes, and how it ends.
DialFields ==
  {"udp", "stun", "tries", "stunAge", "mapped", "moved", "opened", "sock", "peer", "family", "cands", "out",
   "state", "age", "closed"}
Redialled(y, w) ==
  /\ Fits(w)
  /\ \A f \in SessionFields \ DialFields : w[f] = y[f]
  /\ Placed(y) => Placed(w)
  /\ w.sock => /\ w.peer = "dialling"
               /\ w.state = IF y.state = "RECONNECTING" THEN "RECONNECTING" ELSE "CONNECTING"
  /\ ~w.sock => w.state = y.state

\* A dial leaves a socket that is connecting.
LEMMA Dials ==
  ASSUME NEW y, Fits(y), NEW n \in Nat
  PROVE  Redialled(y, Dial(y, n)) /\ Dial(y, n).sock
<1> DEFINE z == IF y.udp # 0 /\ y.family # n
                THEN [y EXCEPT !.udp = 0, !.stun = "off", !.tries = 0, !.mapped = 0, !.moved = FALSE] ELSE y
           w == [z EXCEPT !.sock = TRUE, !.peer = "dialling", !.family = n, !.cands = n, !.out = TRUE]
           v == IF w.state = "RECONNECTING" THEN w ELSE SetState(w, "CONNECTING")
           d == [v EXCEPT !.age = 0]
<1>1. DOMAIN y = SessionFields
  BY DEF Fits
<1>2. /\ Fits(z) /\ \A f \in SessionFields \ {"udp", "stun", "tries", "mapped", "moved"} : z[f] = y[f]
      /\ Placed(y) => Placed(z)
  <2>1. CASE y.udp # 0 /\ y.family # n
    <3> DEFINE u == [y EXCEPT !.udp = 0, !.stun = "off", !.tries = 0, !.mapped = 0, !.moved = FALSE]
    <3>1. Fits(u)
      BY <1>1, Starts DEF Fits, SessionFields
    <3>2. Placed(u) /\ \A f \in SessionFields \ {"udp", "stun", "tries", "mapped", "moved"} : u[f] = y[f]
      BY <1>1 DEF SessionFields, Placed
    <3> QED BY <2>1, <3>1, <3>2
  <2> QED BY <2>1
<1>3. DOMAIN z = SessionFields
  BY <1>2 DEF Fits
<1> HIDE DEF z
<1>4. /\ Fits(w) /\ w.sock /\ w.peer = "dialling"
      /\ \A f \in SessionFields \ {"sock", "peer", "family", "cands", "out"} : w[f] = z[f]
  <2>1. Fits(w)
    BY <1>2, <1>3 DEF Fits, SessionFields, None
  <2> QED BY <2>1, <1>3 DEF SessionFields
<1> HIDE DEF w
<1>5. /\ Fits(v) /\ \A f \in SessionFields \ {"state", "age"} : v[f] = w[f]
      /\ v.state = IF w.state = "RECONNECTING" THEN "RECONNECTING" ELSE "CONNECTING"
  <2>1. "CONNECTING" \in States
    BY DEF States, Connecting
  <2> QED BY <1>4, <2>1, NewState
<1>6. DOMAIN v = SessionFields
  BY <1>5 DEF Fits
<1> HIDE DEF v
<1>7. /\ Fits(d) /\ d.state = v.state
      /\ \A f \in SessionFields \ {"age"} : d[f] = v[f]
  <2>1. Fits(d)
    BY <1>5, <1>6, Starts DEF Fits, SessionFields
  <2> QED BY <2>1, <1>6 DEF SessionFields
<1> HIDE DEF d
<1>8. d.sock /\ d.peer = "dialling" /\ w.state = y.state /\ d.mapped = z.mapped /\ d.moved = z.moved /\ d.udp = z.udp
  BY <1>2, <1>4, <1>5, <1>7 DEF SessionFields
<1>9. \A f \in SessionFields \ DialFields : d[f] = y[f]
  BY <1>2, <1>4, <1>5, <1>7 DEF DialFields
<1> QED BY <1>2, <1>5, <1>7, <1>8, <1>9 DEF Redialled, Dial, d, v, w, z, Placed

\* The next address is dialled, or none is left.
LEMMA Candidates ==
  ASSUME NEW y, Fits(y), ~y.sock, NEW w \in NextCandidate(y)
  PROVE  Redialled(y, w)
<1>1. CASE w = [y EXCEPT !.cands = 0]
  <2> DEFINE u == [y EXCEPT !.cands = 0]
  <2>1. DOMAIN y = SessionFields
    BY DEF Fits
  <2>2. Fits(u)
    BY <2>1 DEF Fits, SessionFields
  <2>3. ~u.sock /\ u.state = y.state /\ u.mapped = y.mapped /\ u.moved = y.moved /\ u.udp = y.udp
    BY <2>1 DEF SessionFields
  <2>4. \A f \in SessionFields \ DialFields : u[f] = y[f]
    BY <2>1 DEF SessionFields, DialFields
  <2> QED BY <1>1, <2>2, <2>3, <2>4 DEF Redialled, Placed
<1>2. CASE \E n \in 0..NumAddrs : w = Dial(y, n)
  BY <1>2, Dials, SessionAssumption
<1> QED BY <1>1, <1>2 DEF NextCandidate

\* A closed socket holds nothing.
LEMMA SocketClosed ==
  ASSUME NEW y, Fits(y)
  PROVE  /\ Fits(CloseSocket(y)) /\ ~CloseSocket(y).sock
         /\ CloseSocket(y).rx = <<>> /\ CloseSocket(y).asked = <<>>
         /\ \A f \in SessionFields \ {"sock", "peer", "rx", "asked", "out", "edge", "plays"} :
              CloseSocket(y)[f] = y[f]
<1>1. DOMAIN y = SessionFields
  BY DEF Fits
<1>2. Fits(CloseSocket(y)) /\ ~CloseSocket(y).sock
  BY <1>1 DEF Fits, CloseSocket, SessionFields, None
<1> QED BY <1>1, <1>2 DEF CloseSocket, SessionFields

\* Sockets are opened under a new number.
LEMMA UdpOpened ==
  ASSUME NEW y, Fits(y), y.udp = 0
  PROVE  /\ Fits(OpenUdp(y)) /\ (Placed(y) => Placed(OpenUdp(y)))
         /\ \A f \in SessionFields \ {"udp", "opened"} : OpenUdp(y)[f] = y[f]
<1>1. DOMAIN y = SessionFields /\ y.opened \in Nat /\ y.mapped \in 0..y.opened
  BY DEF Fits
<1>2. y.opened + 1 \in Nat /\ y.opened + 1 \in 0..(y.opened + 1) /\ y.mapped \in 0..(y.opened + 1)
  BY <1>1
<1>3. Fits(OpenUdp(y))
  BY <1>1, <1>2 DEF Fits, OpenUdp, SessionFields
<1> QED BY <1>1, <1>3 DEF OpenUdp, SessionFields, Placed

\* A connect dials the first address that gives a socket, or none.
LEMMA Connects ==
  ASSUME NEW y, Fits(y), ~y.sock, NEW w \in Connect(y)
  PROVE  Redialled(y, w)
<1> DEFINE z == [y EXCEPT !.closed = FALSE, !.cands = NumAddrs, !.family = NumAddrs - 1]
           o == OpenUdp(z)
           asks == [OpenUdp(z) EXCEPT !.stun = "asked", !.stunAge = 0]
           none == [y EXCEPT !.closed = FALSE, !.cands = 0]
<1>1. DOMAIN y = SessionFields
  BY DEF Fits
<1>2. Fits(none) /\ ~none.sock /\ none.state = y.state /\ none.mapped = y.mapped /\ none.moved = y.moved /\ none.udp = y.udp
  <2>1. Fits(none)
    BY <1>1 DEF Fits, SessionFields
  <2> QED BY <1>1, <2>1 DEF SessionFields
<1>3. \A f \in SessionFields \ DialFields : none[f] = y[f]
  BY <1>1 DEF SessionFields, DialFields
<1>4. Redialled(y, none)
  BY <1>2, <1>3 DEF Redialled, Placed
<1>5. /\ Fits(z) /\ DOMAIN z = SessionFields
      /\ \A f \in SessionFields \ {"closed", "cands", "family"} : z[f] = y[f]
  <2>1. Fits(z)
    BY <1>1, SessionAssumption DEF Fits, SessionFields
  <2> QED BY <1>1, <2>1 DEF SessionFields
<1>6. ~z.sock /\ z.state = y.state /\ z.mapped = y.mapped /\ z.moved = y.moved /\ z.udp = y.udp
  BY <1>5 DEF SessionFields
<1> HIDE DEF none, z
<1>7. ASSUME NEW v, Fits(v), NEW u, u \in NextCandidate(v), ~v.sock, v.state = y.state,
             Placed(y) => Placed(v),
             \A f \in SessionFields \ DialFields : v[f] = y[f]
      PROVE  Redialled(y, u)
  <2>1. Redialled(v, u)
    BY <1>7, Candidates
  <2>2. \A f \in SessionFields \ DialFields : u[f] = y[f]
    BY <1>7, <2>1 DEF Redialled, Placed
  <2> QED BY <1>7, <2>1, <2>2 DEF Redialled, Placed
<1>8. \A f \in SessionFields \ DialFields : z[f] = y[f]
  BY <1>5 DEF DialFields
<1>9. ASSUME z.udp = 0, z.stun = "off"
      PROVE  /\ Fits(o) /\ ~o.sock /\ o.state = y.state
             /\ Placed(y) => Placed(o)
             /\ \A f \in SessionFields \ DialFields : o[f] = y[f]
             /\ DOMAIN o = SessionFields /\ o.stun = "off"
  <2>1. Fits(o) /\ DOMAIN o = SessionFields
    BY <1>5, <1>9, UdpOpened DEF Fits
  <2>2. ~o.sock /\ o.state = y.state /\ o.stun = "off" /\ (Placed(y) => Placed(o))
    BY <1>5, <1>6, <1>9, UdpOpened DEF SessionFields, Placed
  <2>3. \A f \in SessionFields \ DialFields : o[f] = z[f]
    BY <1>5, <1>9, UdpOpened DEF DialFields
  <2> QED BY <2>1, <2>2, <2>3, <1>8
<1>10. ASSUME z.udp = 0, z.stun = "off"
       PROVE  /\ Fits(asks) /\ ~asks.sock /\ asks.state = y.state
              /\ Placed(y) => Placed(asks)
              /\ \A f \in SessionFields \ DialFields : asks[f] = y[f]
  <2> HIDE DEF o
  <2> DEFINE a == [o EXCEPT !.stun = "asked", !.stunAge = 0]
  <2>1. Fits(a)
    BY <1>9, <1>10, Starts DEF Fits, SessionFields
  <2>2. a.sock = o.sock /\ a.state = o.state /\ a.mapped = o.mapped /\ a.moved = o.moved /\ a.udp = o.udp
    BY <1>9, <1>10 DEF SessionFields
  <2>3. \A f \in SessionFields \ DialFields : a[f] = o[f]
    BY <1>9, <1>10 DEF SessionFields, DialFields
  <2>4. asks = a
    BY DEF o
  <2> HIDE DEF a, asks
  <2> QED BY <1>9, <1>10, <2>1, <2>2, <2>3, <2>4 DEF Placed
<1> HIDE DEF o, asks
<1>11. \/ w = none \/ w \in NextCandidate(z)
       \/ z.udp = 0 /\ z.stun = "off" /\ (w \in NextCandidate(o) \/ w \in NextCandidate(asks))
  BY Zenon DEF Connect, none, z, o, asks
<1>12. ASSUME w \in NextCandidate(z) PROVE Redialled(y, w)
  BY <1>5, <1>6, <1>7, <1>8, <1>12 DEF Placed
<1>13. ASSUME z.udp = 0, z.stun = "off", w \in NextCandidate(o) PROVE Redialled(y, w)
  BY <1>7, <1>9, <1>13
<1>14. ASSUME z.udp = 0, z.stun = "off", w \in NextCandidate(asks) PROVE Redialled(y, w)
  BY <1>7, <1>10, <1>14
<1> QED BY <1>4, <1>11, <1>12, <1>13, <1>14

\* What two operations keep, both keep.
LEMMA KeptOn ==
  ASSUME NEW y, NEW z, NEW w, Kept(y, z), Kept(z, w)
  PROVE  Kept(y, w)
BY DEF Kept

\* What is not touched is kept.
LEMMA KeptStill ==
  ASSUME NEW y, NEW z, z.init = y.init, z.conn = y.conn, z.owes = y.owes, z.told = y.told, z.lost = y.lost
  PROVE  Kept(y, z)
BY DEF Kept

(***************************************************************************)
(* Failures                                                                *)
(***************************************************************************)
\* What is left of the invariant in a session that fails: an answer that was
\* taken may still lie in the buffer.
Failing(y) ==
  /\ Fits(y) /\ y.init
  /\ y.await => y.pend = None
  /\ ~y.tearing =>
       /\ ~y.mixed
       /\ \/ y.asked = <<>> /\ Quiet(y.buf) /\ Quiet(y.rx)
          \/ /\ y.pend = None
             /\ \/ y.asked = <<y.last>> /\ Quiet(y.buf) /\ Quiet(y.rx)
                \/ y.asked = <<>> /\ Quiet(y.buf) /\ Single(y.rx, y.last)
                \/ y.asked = <<>> /\ Single(y.buf, y.last) /\ Quiet(y.rx)
  /\ y.tearing =>
       /\ y.pend \in Later \cup {None} /\ y.last \in Later /\ y.asked \in Seq(Later)
       /\ Belated(y.rx) /\ Belated(y.buf)
  /\ y.pend \in Early \/ (y.await /\ y.last \in Early) => Placed(y)
  /\ y.stunWait => ~y.await /\ y.pend = None

\* A session between two operations may fail.
LEMMA MayFail ==
  ASSUME NEW y, Good(y), y.init, y.await => y.pend = None
  PROVE  Failing(y)
BY DEF Good, Going, Failing, Outstanding, Leaving, Stage, Naming, Placed

\* A session that failed is in order.
LEMMA Fails ==
  ASSUME NEW y, Failing(y)
  PROVE  /\ Good(SetState(y, "ERROR")) /\ Kept(y, SetState(y, "ERROR"))
         /\ SetState(y, "ERROR").state = "ERROR" /\ SetState(y, "ERROR").init = y.init
         /\ Settled(SetState(y, "ERROR"))
<1> DEFINE z == SetState(y, "ERROR")
<1>1. Fits(z) /\ z.state = "ERROR" /\ \A f \in SessionFields \ {"state", "age"} : z[f] = y[f]
  <2>1. "ERROR" \in States
    BY DEF States
  <2> QED BY <2>1, NewState DEF Failing, Placed
<1> HIDE DEF z
<1>2. /\ z.pend = y.pend /\ z.await = y.await /\ z.last = y.last /\ z.rx = y.rx
      /\ z.buf = y.buf /\ z.asked = y.asked /\ z.mixed = y.mixed /\ z.tearing = y.tearing
      /\ z.init = y.init /\ z.stunWait = y.stunWait /\ z.alive = y.alive /\ z.mapped = y.mapped /\ z.moved = y.moved
      /\ z.udp = y.udp /\ z.named = y.named /\ z.stun = y.stun /\ z.conn = y.conn /\ z.owes = y.owes
      /\ z.told = y.told /\ z.lost = y.lost
  BY <1>1 DEF SessionFields
<1>3. ~z.tearing => Outstanding(z)
  BY <1>1, <1>2 DEF Failing, Outstanding, Placed
<1>4. z.tearing => Leaving(z)
  BY <1>1, <1>2 DEF Failing, Leaving, Placed
<1>5. Stage(z) /\ Naming(z)
  BY <1>1, <1>2 DEF Failing, Stage, Naming, EarlyStates, Closing, Placed
<1>6. Settled(z)
  BY <1>1, <1>2 DEF Failing, Settled, Wired, Transient, Placed
<1> QED BY <1>1, <1>2, <1>3, <1>4, <1>5, <1>6, KeptStill DEF Good, Going, z

\* A session that is given up holds nothing.
LEMMA CleanedUp ==
  ASSUME NEW y, Fits(y)
  PROVE  /\ Good(ForceCleanup(y)) /\ Kept(y, ForceCleanup(y)) /\ ~ForceCleanup(y).init
         /\ ForceCleanup(y).state = "INIT"
<1> DEFINE c == CloseSocket(y)
           d == [c EXCEPT !.udp = 0, !.cands = 0, !.buf = <<>>, !.pend = None, !.await = FALSE]
           e == [d EXCEPT !.alive = None, !.getParam = TRUE, !.tearing = FALSE, !.reconnected = FALSE]
           z == [e EXCEPT !.sid = FALSE, !.init = FALSE, !.state = "INIT", !.age = 0]
<1>1. Fits(c) /\ DOMAIN c = SessionFields
  BY SocketClosed DEF Fits
<1>2. c.conn = y.conn /\ c.owes = y.owes /\ c.told = y.told /\ c.lost = y.lost
  BY SocketClosed DEF SessionFields
<1> HIDE DEF c
<1>3. /\ Fits(d) /\ DOMAIN d = SessionFields
      /\ d.conn = c.conn /\ d.owes = c.owes /\ d.told = c.told /\ d.lost = c.lost
  <2>1. Fits(d) /\ DOMAIN d = SessionFields
    BY <1>1 DEF Fits, SessionFields
  <2> QED BY <2>1, <1>1 DEF SessionFields
<1>6. z = ForceCleanup(y)
  BY DEF ForceCleanup, c
<1> HIDE DEF d
<1>7. /\ Fits(e) /\ DOMAIN e = SessionFields
      /\ e.conn = d.conn /\ e.owes = d.owes /\ e.told = d.told /\ e.lost = d.lost
  <2>1. Fits(e) /\ DOMAIN e = SessionFields
    BY <1>3, SMTT(60) DEF Fits, SessionFields
  <2> QED BY <2>1, <1>3 DEF SessionFields
<1> HIDE DEF e
<1>8. Fits(z)
  <2>1. "INIT" \in States
    BY DEF States
  <2> QED BY <1>7, <2>1, Starts, SMTT(60) DEF Fits, SessionFields
<1>9. ~z.init /\ z.state = "INIT" /\ z.conn = e.conn /\ z.owes = e.owes /\ z.told = e.told /\ z.lost = e.lost
  BY <1>7 DEF SessionFields
<1> HIDE DEF z
<1> QED BY <1>2, <1>3, <1>6, <1>7, <1>8, <1>9 DEF Good, Kept

\* The client that is drained is all that changes.
LEMMA DrainedGood ==
  ASSUME NEW y, Good(y)
  PROVE  /\ Good(Drained(y)) /\ Kept(y, Drained(y)) /\ (Settled(y) => Settled(Drained(y)))
         /\ Drained(y).init = y.init /\ Drained(y).state = y.state
         /\ Drained(y).conn = IF y.conn = "stream" THEN "closing" ELSE y.conn
<1> DEFINE z == Drained(y)
<1>1. DOMAIN y = SessionFields /\ Fits(y)
  BY DEF Good, Fits
<1>2. Fits(z)
  BY <1>1 DEF Fits, SessionFields, Drained
<1>3. /\ z.state = y.state /\ z.pend = y.pend /\ z.await = y.await /\ z.last = y.last /\ z.rx = y.rx
      /\ z.buf = y.buf /\ z.asked = y.asked /\ z.mixed = y.mixed /\ z.tearing = y.tearing
      /\ z.init = y.init /\ z.stunWait = y.stunWait /\ z.alive = y.alive /\ z.mapped = y.mapped /\ z.moved = y.moved
      /\ z.udp = y.udp /\ z.named = y.named /\ z.stun = y.stun /\ z.owes = y.owes
      /\ z.told = y.told /\ z.lost = y.lost /\ z.sock = y.sock /\ z.peer = y.peer
      /\ z.conn = IF y.conn = "stream" THEN "closing" ELSE y.conn
  BY <1>1 DEF SessionFields, Drained
<1> HIDE DEF z
<1>4. Good(z) /\ Kept(y, z) /\ (Settled(y) => Settled(z))
  BY <1>2, <1>3 DEF Good, Going, Outstanding, Stage, Leaving, Naming, Kept, Wired, Settled, Placed
<1> QED BY <1>3, <1>4 DEF z

\* The end of the media ends the session.
LEMMA Ended ==
  ASSUME NEW y, Fits(y)
  PROVE  Good(End(y)) /\ Kept(y, End(y)) /\ ~End(y).init /\ End(y).state = "INIT"
<1>1. /\ Good(ForceCleanup(y)) /\ Kept(y, ForceCleanup(y)) /\ ~ForceCleanup(y).init
      /\ ForceCleanup(y).state = "INIT"
  BY CleanedUp
<1>2. /\ Good(End(y)) /\ Kept(ForceCleanup(y), End(y)) /\ End(y).init = ForceCleanup(y).init
      /\ End(y).state = ForceCleanup(y).state
  BY <1>1, DrainedGood DEF End
<1> QED BY <1>1, <1>2, KeptOn

(***************************************************************************)
(* Dialling again                                                          *)
(***************************************************************************)
\* A session that dials again starts anew, or to tear down.
LEMMA RedialGood ==
  ASSUME NEW y, Fits(y), y.init, y.asked = <<>>, y.rx = <<>>,
         ~y.tearing => /\ y.pend = None /\ ~y.await /\ y.alive = None /\ ~y.stunWait /\ ~y.mixed
                       /\ Quiet(y.buf) /\ Placed(y) /\ y.state # "RECONNECTING",
         y.tearing => Leaving(y) /\ y.state = "RECONNECTING" /\ ~y.stunWait,
         NEW w, Redialled(y, w), w.sock
  PROVE  /\ Good(w) /\ Kept(y, w) /\ w.init
         /\ w.state = IF y.tearing THEN "RECONNECTING" ELSE "CONNECTING"
         /\ w.peer = "dialling" /\ w.await = y.await
<1>0. \A f \in SessionFields \ DialFields : w[f] = y[f]
  BY DEF Redialled, Placed
<1>1. /\ w.pend = y.pend /\ w.await = y.await /\ w.last = y.last /\ w.rx = y.rx
      /\ w.buf = y.buf /\ w.asked = y.asked /\ w.mixed = y.mixed /\ w.tearing = y.tearing
      /\ w.init = y.init /\ w.stunWait = y.stunWait /\ w.alive = y.alive
      /\ w.named = y.named /\ w.conn = y.conn /\ w.owes = y.owes /\ w.told = y.told /\ w.lost = y.lost
  BY ONLY <1>0 DEF SessionFields, DialFields
<1>2. /\ Fits(w) /\ w.peer = "dialling" /\ (Placed(y) => Placed(w))
      /\ w.state = IF y.state = "RECONNECTING" THEN "RECONNECTING" ELSE "CONNECTING"
  BY DEF Redialled, Placed
<1>3. Quiet(<<>>)
  BY DEF Quiet
<1>4. ~w.tearing => Outstanding(w)
  BY <1>1, <1>3 DEF Outstanding
<1>5. w.tearing => Leaving(w)
  BY <1>1, <1>2 DEF Leaving
<1>6. Stage(w)
  BY <1>1, <1>2 DEF Stage, Closing
<1>7. Naming(w)
  <2>1. CASE w.tearing
    BY <2>1, <1>1, <1>2, <1>5 DEF Naming, Leaving, EarlyStates, Early, Later, None, Placed
  <2>2. CASE ~w.tearing
    BY <2>2, <1>1, <1>2 DEF Naming, EarlyStates, Placed
  <2> QED BY <2>1, <2>2
<1>8. Kept(y, w)
  BY <1>1, KeptStill
<1> QED BY <1>1, <1>2, <1>4, <1>5, <1>6, <1>7, <1>8 DEF Good, Going

\* A connect that failed goes on with the next address, or fails.
LEMMA ConnectFailed ==
  ASSUME NEW y, Good(y), y.init, y.await => y.pend = None, y.state \in Connecting, NEW w \in ConnectFails(y)
  PROVE  /\ Kept(y, w) /\ w.init /\ (w.await => w.pend = None)
         /\ w.sock => Good(w) /\ w.state \in Connecting
         /\ ~w.sock => Failing(w)
<1> DEFINE c == CloseSocket(y)
<1>0. Fits(y) /\ Stage(y) /\ Naming(y) /\ (~y.tearing => Outstanding(y)) /\ (y.tearing => Leaving(y))
  BY DEF Good, Going
<1>1. /\ Fits(c) /\ ~c.sock /\ c.rx = <<>> /\ c.asked = <<>>
      /\ \A f \in SessionFields \ {"sock", "peer", "rx", "asked", "out", "edge", "plays"} : c[f] = y[f]
  BY <1>0, SocketClosed
<1> HIDE DEF c
<1>2. /\ c.state = y.state /\ c.pend = y.pend /\ c.await = y.await /\ c.last = y.last
      /\ c.buf = y.buf /\ c.mixed = y.mixed /\ c.tearing = y.tearing
      /\ c.init = y.init /\ c.stunWait = y.stunWait /\ c.alive = y.alive /\ c.mapped = y.mapped /\ c.moved = y.moved
      /\ c.udp = y.udp /\ c.named = y.named /\ c.conn = y.conn /\ c.owes = y.owes
      /\ c.told = y.told /\ c.lost = y.lost
  BY ONLY <1>1 DEF SessionFields
<1>3. Quiet(<<>>) /\ Belated(<<>>) /\ <<>> \in Seq(Later)
  BY DEF Quiet, Belated
<1>4. ~c.tearing => /\ c.pend = None /\ ~c.await /\ c.alive = None /\ ~c.stunWait /\ ~c.mixed
                    /\ Quiet(c.buf) /\ Placed(c) /\ c.state = "CONNECTING"
  BY <1>0, <1>2 DEF Connecting, Stage, Naming, Outstanding, EarlyStates, Closing, Placed
<1>5. c.tearing => Leaving(c) /\ c.state = "RECONNECTING" /\ ~c.stunWait
  BY <1>0, <1>1, <1>2, <1>3 DEF Connecting, Stage, Leaving, Closing
<1>6. Redialled(c, w)
  BY <1>1, Connects, Candidates DEF ConnectFails, c
<1>7. Kept(y, c)
  BY <1>2, KeptStill
<1>8. CASE w.sock
  <2>1. Good(w) /\ Kept(c, w) /\ w.init /\ w.state \in Connecting
    BY <1>1, <1>2, <1>4, <1>5, <1>6, <1>8, RedialGood DEF Connecting
  <2>2. \A f \in SessionFields \ DialFields : w[f] = c[f]
    BY <1>6 DEF Redialled, Placed
  <2>3. w.await = c.await /\ w.pend = c.pend
    BY ONLY <2>2 DEF SessionFields, DialFields
  <2> QED BY <1>2, <2>1, <2>3, <1>7, <1>8, KeptOn
<1>9. CASE ~w.sock
  <2>1. \A f \in SessionFields \ DialFields : w[f] = c[f]
    BY <1>6 DEF Redialled, Placed
  <2>2. /\ w.pend = c.pend /\ w.await = c.await /\ w.last = c.last /\ w.rx = c.rx
        /\ w.buf = c.buf /\ w.asked = c.asked /\ w.mixed = c.mixed /\ w.tearing = c.tearing
        /\ w.init = c.init /\ w.stunWait = c.stunWait
        /\ w.conn = c.conn /\ w.owes = c.owes /\ w.told = c.told /\ w.lost = c.lost
    BY ONLY <2>1 DEF SessionFields, DialFields
  <2>3. Fits(w)
    BY <1>6 DEF Redialled, Placed
  <2>4. w.tearing => w.pend \in Later \cup {None} /\ w.last \in Later /\ Belated(w.buf)
    BY <2>2, <1>5 DEF Leaving
  <2>5. w.pend \notin Early /\ ~(w.await /\ w.last \in Early)
    BY <2>2, <2>4, <1>4 DEF Early, Later, None
  <2>8. w.await => w.pend = None
    BY <1>2, <2>2
  <2>6. Failing(w)
    BY <1>1, <1>2, <1>3, <1>4, <1>5, <2>2, <2>3, <2>4, <2>5, <2>8 DEF Failing, Placed
  <2>7. Kept(c, w)
    BY <2>2, KeptStill
  <2> QED BY <1>2, <1>7, <1>9, <2>2, <2>6, <2>7, <2>8, KeptOn
<1> QED BY <1>8, <1>9

(***************************************************************************)
(* Requests                                                                *)
(***************************************************************************)
\* A prepared request is all that changes.
LEMMA Prepared ==
  ASSUME NEW y, Fits(y), NEW ask \in Requests
  PROVE  /\ Fits(Prepare(y, ask)) /\ Prepare(y, ask).pend = ask
         /\ \A f \in SessionFields \ {"pend"} : Prepare(y, ask)[f] = y[f]
<1>1. DOMAIN y = SessionFields
  BY DEF Fits
<1>2. Fits(Prepare(y, ask))
  BY <1>1 DEF Fits, SessionFields, Prepare
<1> QED BY <1>1, <1>2 DEF SessionFields, Prepare

\* A request is prepared in a new state.
LEMMA Asks ==
  ASSUME NEW y, Fits(y), NEW ask \in Requests, NEW st \in States
  PROVE  LET z == SetState(Prepare(y, ask), st)
         IN  /\ Fits(z) /\ z.pend = ask /\ z.state = st /\ (y.state # st => z.age = 0)
             /\ \A f \in SessionFields \ {"pend", "state", "age"} : z[f] = y[f]
<1> DEFINE p == Prepare(y, ask)
           z == SetState(p, st)
<1>1. Fits(p) /\ p.pend = ask /\ \A f \in SessionFields \ {"pend"} : p[f] = y[f]
  BY Prepared
<1> HIDE DEF p
<1>2. /\ Fits(z) /\ z.state = st /\ (p.state # st => z.age = 0)
      /\ \A f \in SessionFields \ {"state", "age"} : z[f] = p[f]
  BY <1>1, NewState
<1> HIDE DEF z
<1>3. z.pend = p.pend /\ p.state = y.state
  BY <1>1, <1>2 DEF SessionFields
<1>4. \A f \in SessionFields \ {"pend", "state", "age"} : z[f] = y[f]
  BY <1>1, <1>2
<1> QED BY <1>1, <1>2, <1>3, <1>4 DEF z, p

\* A step forward that prepares a request.
StepForward == {<<"CONNECTED", "OPTIONS", "SENDING_OPTIONS">>, <<"AWAITING_OPTIONS", "DESCRIBE", "SENDING_DESCRIBE">>,
                <<"DESCRIBED", "SETUP", "SENDING_SETUP">>, <<"SETUP", "PLAY", "SENDING_PLAY">>,
                <<"RECONNECTING", "TEARDOWN", "SENDING_TEARDOWN">>}

\* A step forward prepares the request of its state.
LEMMA AskGood ==
  ASSUME NEW y, Good(y), y.init, ~y.tearing => ~y.await /\ ~y.stunWait /\ y.pend = None,
         y.tearing => ~y.stunWait,
         NEW ask, NEW st, <<y.state, ask, st>> \in StepForward,
         st = "SENDING_DESCRIBE" => y.named = y.mapped /\ y.stun # "asked"
  PROVE  LET z == SetState(Prepare(y, ask), st)
         IN  /\ Good(z) /\ Kept(y, z) /\ z.init /\ z.state = st /\ z.sock = y.sock /\ z.peer = y.peer
             /\ z.pend = ask
<1> DEFINE z == SetState(Prepare(y, ask), st)
<1>0. Fits(y) /\ Stage(y) /\ Naming(y) /\ (~y.tearing => Outstanding(y)) /\ (y.tearing => Leaving(y))
  BY DEF Good, Going
<1>1. ask \in Requests /\ st \in States
  BY DEF StepForward, Requests, States, Sending, Closing
<1>2. /\ Fits(z) /\ z.pend = ask /\ z.state = st
      /\ \A f \in SessionFields \ {"pend", "state", "age"} : z[f] = y[f]
  BY <1>0, <1>1, Asks
<1> HIDE DEF z
<1>3. /\ z.await = y.await /\ z.last = y.last /\ z.rx = y.rx /\ z.sock = y.sock /\ z.peer = y.peer
      /\ z.buf = y.buf /\ z.asked = y.asked /\ z.mixed = y.mixed /\ z.tearing = y.tearing
      /\ z.init = y.init /\ z.stunWait = y.stunWait /\ z.alive = y.alive /\ z.mapped = y.mapped /\ z.moved = y.moved
      /\ z.udp = y.udp /\ z.named = y.named /\ z.stun = y.stun /\ z.conn = y.conn /\ z.owes = y.owes
      /\ z.told = y.told /\ z.lost = y.lost
  BY <1>2 DEF SessionFields
<1>4. \/ y.state = "CONNECTED" /\ ask = "OPTIONS" /\ st = "SENDING_OPTIONS"
      \/ y.state = "AWAITING_OPTIONS" /\ ask = "DESCRIBE" /\ st = "SENDING_DESCRIBE"
      \/ y.state = "DESCRIBED" /\ ask = "SETUP" /\ st = "SENDING_SETUP"
      \/ y.state = "SETUP" /\ ask = "PLAY" /\ st = "SENDING_PLAY"
      \/ y.state = "RECONNECTING" /\ ask = "TEARDOWN" /\ st = "SENDING_TEARDOWN"
  BY DEF StepForward
<1>5. ~z.tearing => Outstanding(z)
  BY <1>0, <1>2, <1>3, <1>4 DEF Outstanding
<1>6. z.tearing => Leaving(z)
  BY <1>0, <1>2, <1>3, <1>4 DEF Leaving, Closing, Later
<1>7. Stage(z)
  BY <1>0, <1>2, <1>3, <1>4 DEF Stage, Closing, Leaving
<1>8. Naming(z)
  BY <1>0, <1>2, <1>3, <1>4 DEF Naming, EarlyStates, Early, Stage, Leaving, Later, Closing, Placed
<1>9. Kept(y, z)
  BY <1>3, KeptStill
<1> QED BY <1>2, <1>3, <1>5, <1>6, <1>7, <1>8, <1>9 DEF Good, Going, z

\* Advance keeps the invariant where nothing is outstanding.
LEMMA Advances ==
  ASSUME NEW y, Good(y), y.init, y.state = "AWAITING_OPTIONS" => ~y.await
  PROVE  LET z == Advance(y)
         IN  /\ Good(z) /\ Kept(y, z) /\ z.init /\ z.sock = y.sock /\ z.peer = y.peer
             /\ \/ z.state = y.state /\ y.state \notin {"CONNECTED", "DESCRIBED", "SETUP", "RECONNECTING"}
                \/ /\ y.state \in {"CONNECTED", "AWAITING_OPTIONS", "DESCRIBED", "SETUP", "RECONNECTING"}
                   /\ IF y.state = "RECONNECTING" THEN z.state = "SENDING_TEARDOWN" ELSE z.state \in Sending
             /\ y.state \notin {"CONNECTED", "AWAITING_OPTIONS", "DESCRIBED", "SETUP", "RECONNECTING"} => z = y
<1> DEFINE z == Advance(y)
           s == StunCheck(y)
<1>0. Fits(y) /\ Stage(y) /\ Naming(y) /\ (~y.tearing => Outstanding(y)) /\ (y.tearing => Leaving(y))
  BY DEF Good, Going
<1>1. CASE y.state = "CONNECTED"
  <2>1. z = SetState(Prepare(y, "OPTIONS"), "SENDING_OPTIONS")
    BY <1>1 DEF Advance
  <2>2. ~y.await /\ ~y.stunWait /\ y.pend = None
    BY <1>0, <1>1 DEF Stage
  <2>3. <<y.state, "OPTIONS", "SENDING_OPTIONS">> \in StepForward
    BY <1>1 DEF StepForward
  <2> HIDE DEF z
  <2>4. /\ Good(z) /\ Kept(y, z) /\ z.init /\ z.state = "SENDING_OPTIONS" /\ z.sock = y.sock /\ z.peer = y.peer
    BY <2>1, <2>2, <2>3, AskGood
  <2> QED BY <1>1, <2>4 DEF z, Sending
<1>2. CASE y.state = "AWAITING_OPTIONS"
  <2>1. /\ Good(s) /\ Kept(y, s) /\ s.stun \in {y.stun, "done"}
        /\ \A f \in SessionFields \ {"stun", "tries", "stunAge"} : s[f] = y[f]
    BY StunChecked
  <2> HIDE DEF s
  <2>0. s.init = y.init /\ s.state = y.state /\ s.await = y.await /\ s.sock = y.sock /\ s.peer = y.peer
    BY ONLY <2>1 DEF SessionFields
  <2>2. /\ DOMAIN s = SessionFields /\ Fits(s) /\ Stage(s) /\ Naming(s)
        /\ (~s.tearing => Outstanding(s)) /\ (s.tearing => Leaving(s))
        /\ s.init = y.init /\ s.state = y.state /\ s.await = y.await /\ s.sock = y.sock /\ s.peer = y.peer
    BY <2>0, <2>1 DEF Good, Going, Fits
  <2>3. ~s.await /\ s.pend = None /\ Placed(s)
    BY <1>2, <2>2 DEF Stage, Naming, EarlyStates, Placed
  <2>4. CASE Waits(s)
    <3> DEFINE v == [s EXCEPT !.stunWait = TRUE]
    <3>1. z = v
      BY <1>2, <2>4 DEF Advance, s
    <3> HIDE DEF z
    <3>2. Fits(v)
      BY <2>2 DEF Fits, SessionFields
    <3>3. /\ v.await = s.await /\ v.last = s.last /\ v.rx = s.rx /\ v.sock = s.sock /\ v.peer = s.peer
          /\ v.buf = s.buf /\ v.asked = s.asked /\ v.mixed = s.mixed /\ v.tearing = s.tearing
          /\ v.init = s.init /\ v.alive = s.alive /\ v.mapped = s.mapped /\ v.moved = s.moved /\ v.state = s.state
          /\ v.udp = s.udp /\ v.named = s.named /\ v.stun = s.stun /\ v.conn = s.conn /\ v.owes = s.owes
          /\ v.told = s.told /\ v.lost = s.lost /\ v.pend = s.pend
      BY <2>2 DEF SessionFields
    <3> HIDE DEF v
    <3>4. Good(v)
      BY <1>2, <2>2, <2>3, <3>2, <3>3 DEF Good, Going, Outstanding, Leaving, Stage, Naming, Placed
    <3>5. Kept(s, v)
      BY <3>3, KeptStill
    <3> QED BY <1>2, <2>1, <2>2, <3>1, <3>3, <3>4, <3>5, KeptOn DEF z
  <2>5. CASE ~Waits(s)
    <3> DEFINE v == [s EXCEPT !.stunWait = FALSE, !.named = s.mapped]
    <3>1. z = SetState(Prepare(v, "DESCRIBE"), "SENDING_DESCRIBE")
      BY <1>2, <2>5 DEF Advance, s
    <3> HIDE DEF z
    <3>2. Fits(v)
      BY <2>2 DEF Fits, SessionFields
    <3>3. /\ v.await = s.await /\ v.last = s.last /\ v.rx = s.rx /\ v.sock = s.sock /\ v.peer = s.peer
          /\ v.buf = s.buf /\ v.asked = s.asked /\ v.mixed = s.mixed /\ v.tearing = s.tearing
          /\ v.init = s.init /\ v.alive = s.alive /\ v.mapped = s.mapped /\ v.moved = s.moved /\ v.state = s.state
          /\ v.udp = s.udp /\ v.named = s.mapped /\ v.stun = s.stun /\ v.conn = s.conn /\ v.owes = s.owes
          /\ v.told = s.told /\ v.lost = s.lost /\ v.pend = s.pend /\ ~v.stunWait
      BY <2>2 DEF SessionFields
    <3> HIDE DEF v
    <3>4. Good(v)
      BY <1>2, <2>2, <2>3, <3>2, <3>3 DEF Good, Going, Outstanding, Leaving, Stage, Naming, Placed
    <3>5. Kept(s, v)
      BY <3>3, KeptStill
    <3>6. <<v.state, "DESCRIBE", "SENDING_DESCRIBE">> \in StepForward
      BY <1>2, <2>2, <3>3 DEF StepForward
    <3>7. v.stun # "asked"
      BY <2>5, <3>3 DEF Waits
    <3>8. /\ Good(z) /\ Kept(v, z) /\ z.init /\ z.state = "SENDING_DESCRIBE"
          /\ z.sock = v.sock /\ z.peer = v.peer
      <4>1. ~v.await /\ ~v.stunWait /\ v.pend = None /\ v.named = v.mapped /\ v.init
        BY <2>2, <2>3, <3>3
      <4> QED BY ONLY <4>1, <3>1, <3>4, <3>6, <3>7, AskGood
    <3>9. Kept(y, z)
      BY <2>1, <3>5, <3>8, KeptOn
    <3> QED BY <1>2, <2>2, <3>3, <3>8, <3>9 DEF z, Sending
  <2> QED BY <2>4, <2>5
<1>3. CASE y.state = "DESCRIBED"
  <2> DEFINE v == IF y.udp = 0 THEN OpenUdp(y) ELSE y
  <2>1. z = SetState(Prepare(v, "SETUP"), "SENDING_SETUP")
    BY <1>3 DEF Advance
  <2> HIDE DEF z
  <2>2. ~y.await /\ ~y.stunWait /\ y.pend = None /\ Placed(y) /\ y.named = y.mapped /\ y.stun # "asked"
    BY <1>0, <1>3 DEF Stage, Naming, EarlyStates, Placed
  <2>3. Fits(v) /\ Placed(v) /\ \A f \in SessionFields \ {"udp", "opened"} : v[f] = y[f]
    <3>1. CASE y.udp = 0
      <4>1. /\ Fits(OpenUdp(y)) /\ (Placed(y) => Placed(OpenUdp(y)))
            /\ \A f \in SessionFields \ {"udp", "opened"} : OpenUdp(y)[f] = y[f]
        BY <1>0, <3>1, UdpOpened
      <4> QED BY <2>2, <3>1, <4>1
    <3>2. CASE y.udp # 0
      BY <1>0, <2>2, <3>2
    <3> QED BY <3>1, <3>2
  <2> HIDE DEF v
  <2>4. /\ v.await = y.await /\ v.last = y.last /\ v.rx = y.rx /\ v.sock = y.sock /\ v.peer = y.peer
        /\ v.buf = y.buf /\ v.asked = y.asked /\ v.mixed = y.mixed /\ v.tearing = y.tearing
        /\ v.init = y.init /\ v.alive = y.alive /\ v.mapped = y.mapped /\ v.moved = y.moved /\ v.state = y.state
        /\ v.named = y.named /\ v.stun = y.stun /\ v.conn = y.conn /\ v.owes = y.owes
        /\ v.told = y.told /\ v.lost = y.lost /\ v.pend = y.pend /\ v.stunWait = y.stunWait
    BY ONLY <2>3 DEF SessionFields
  <2>5. Good(v)
    BY <1>0, <1>3, <2>2, <2>3, <2>4 DEF Good, Going, Outstanding, Leaving, Stage, Naming, Placed
  <2>6. <<v.state, "SETUP", "SENDING_SETUP">> \in StepForward
    BY <1>3, <2>4 DEF StepForward
  <2>7. /\ Good(z) /\ Kept(v, z) /\ z.init /\ z.state = "SENDING_SETUP" /\ z.sock = v.sock /\ z.peer = v.peer
    <3>1. ~v.await /\ ~v.stunWait /\ v.pend = None /\ v.init
      BY <2>2, <2>4
    <3> QED BY ONLY <3>1, <2>1, <2>5, <2>6, AskGood
  <2>8. Kept(y, z)
    BY <2>4, <2>7, KeptStill, KeptOn
  <2> QED BY <1>3, <2>4, <2>7, <2>8 DEF z, Sending
<1>4. CASE y.state = "SETUP"
  <2>1. z = SetState(Prepare(y, "PLAY"), "SENDING_PLAY")
    BY <1>4 DEF Advance
  <2>2. ~y.await /\ ~y.stunWait /\ y.pend = None
    BY <1>0, <1>4 DEF Stage
  <2>3. <<y.state, "PLAY", "SENDING_PLAY">> \in StepForward
    BY <1>4 DEF StepForward
  <2> HIDE DEF z
  <2>4. /\ Good(z) /\ Kept(y, z) /\ z.init /\ z.state = "SENDING_PLAY" /\ z.sock = y.sock /\ z.peer = y.peer
    BY <2>1, <2>2, <2>3, AskGood
  <2> QED BY <1>4, <2>4 DEF z, Sending
<1>5. CASE y.state = "RECONNECTING"
  <2>1. z = SetState(Prepare(y, "TEARDOWN"), "SENDING_TEARDOWN")
    BY <1>5 DEF Advance
  <2>2. ~y.stunWait /\ y.tearing
    BY <1>0, <1>5 DEF Stage
  <2>3. <<y.state, "TEARDOWN", "SENDING_TEARDOWN">> \in StepForward
    BY <1>5 DEF StepForward
  <2> HIDE DEF z
  <2>4. /\ Good(z) /\ Kept(y, z) /\ z.init /\ z.state = "SENDING_TEARDOWN" /\ z.sock = y.sock /\ z.peer = y.peer
    BY <2>1, <2>2, <2>3, AskGood
  <2> QED BY <1>5, <2>4 DEF z
<1>6. CASE y.state \notin {"CONNECTED", "AWAITING_OPTIONS", "DESCRIBED", "SETUP", "RECONNECTING"}
  <2>1. z = y
    BY <1>6 DEF Advance
  <2> HIDE DEF z
  <2> QED BY <1>6, <2>1 DEF Kept, z
<1> QED BY <1>1, <1>2, <1>3, <1>4, <1>5, <1>6

\* A request that is sent is the one outstanding.
LEMMA Sends ==
  ASSUME NEW y, Good(y), y.init, y.pend # None
  PROVE  LET z == Send(y)
         IN  /\ Good(z) /\ Kept(y, z) /\ z.init /\ z.sock = y.sock /\ z.peer = y.peer
             /\ z.await /\ z.pend = None
             /\ z.state = AfterSending(y.state) /\ z.tearing = y.tearing /\ z.out = FALSE
             /\ y.pend = "TEARDOWN" => z.told
<1> DEFINE asked == IF y.peer = "open" THEN Append(y.asked, y.pend) ELSE y.asked
           buf == IF y.tcp /\ y.state = "PLAYING" THEN y.buf ELSE <<>>
           alive == IF y.alive = "pending" THEN "await" ELSE y.alive
           told == y.told \/ y.pend = "TEARDOWN"
           s == [y EXCEPT !.pend = None, !.await = TRUE, !.last = y.pend, !.told = told,
                          !.asked = asked, !.buf = buf, !.alive = alive]
           w == SetState(s, AfterSending(y.state))
           z == Mod(w, FALSE)
<1>0. /\ Fits(y) /\ Stage(y) /\ Naming(y) /\ (~y.tearing => Outstanding(y)) /\ (y.tearing => Leaving(y))
      /\ DOMAIN y = SessionFields
  BY DEF Good, Going, Fits
<1>1. y.pend \in Requests /\ AfterSending(y.state) \in States
  BY <1>0 DEF Fits, AfterSending, States, Sending, Awaiting, Closing
<1>2. /\ asked \in Seq(Requests) /\ buf \in Seq(Message) /\ alive \in {None, "pending", "await"}
      /\ (alive = None <=> y.alive = None)
  <2>1. y.asked \in Seq(Requests) /\ y.buf \in Seq(Message) /\ y.alive \in {None, "pending", "await"}
    BY <1>0 DEF Fits
  <2> QED BY <1>1, <2>1 DEF None
<1>3. /\ Quiet(y.buf) => Quiet(buf)
      /\ Belated(y.buf) => Belated(buf)
      /\ y.asked = <<>> => asked \in {<<>>, <<y.pend>>}
      /\ y.asked \in Seq(Later) /\ y.pend \in Later => asked \in Seq(Later)
  <2>1. Quiet(y.buf) => Quiet(buf)
    BY DEF Quiet
  <2>2. Belated(y.buf) => Belated(buf)
    BY DEF Belated
  <2>3. y.asked = <<>> => asked \in {<<>>, <<y.pend>>}
    OBVIOUS
  <2>4. y.asked \in Seq(Later) /\ y.pend \in Later => asked \in Seq(Later)
    OBVIOUS
  <2> QED BY <2>1, <2>2, <2>3, <2>4
<1>4. (y.told => told) /\ (y.pend = "TEARDOWN" => told)
  OBVIOUS
<1>5. z = Send(y)
  BY DEF Send
<1> HIDE DEF asked, buf, alive, told
<1>6. Fits(s)
  BY <1>0, <1>1, <1>2, SMTT(30) DEF Fits, SessionFields
<1>7. /\ s.await /\ s.pend = None /\ s.last = y.pend /\ s.told = told /\ s.asked = asked /\ s.buf = buf /\ s.alive = alive
      /\ s.rx = y.rx /\ s.sock = y.sock /\ s.peer = y.peer
      /\ s.mixed = y.mixed /\ s.tearing = y.tearing
      /\ s.init = y.init /\ s.mapped = y.mapped /\ s.moved = y.moved /\ s.state = y.state
      /\ s.named = y.named /\ s.stun = y.stun /\ s.conn = y.conn /\ s.owes = y.owes
      /\ s.lost = y.lost /\ s.stunWait = y.stunWait /\ s.udp = y.udp
  BY <1>0 DEF SessionFields
<1> HIDE DEF s
<1>8. /\ Fits(w) /\ w.state = AfterSending(y.state) /\ \A f \in SessionFields \ {"state", "age"} : w[f] = s[f]
  BY <1>1, <1>6, NewState
<1> HIDE DEF w
<1>9. Fits(z) /\ z.out = FALSE /\ \A f \in SessionFields \ {"out", "edge"} : z[f] = w[f]
  BY ONLY <1>8, LooksAgain
<1>10. z.out = FALSE
  BY <1>9
<1> HIDE DEF z
<1>11. z.state = w.state /\ \A f \in SessionFields \ {"state", "age", "out", "edge"} : z[f] = s[f]
  BY ONLY <1>8, <1>9 DEF SessionFields
<1>12. /\ z.await = s.await /\ z.last = s.last /\ z.rx = s.rx /\ z.sock = s.sock /\ z.peer = s.peer
       /\ z.buf = s.buf /\ z.asked = s.asked /\ z.mixed = s.mixed /\ z.tearing = s.tearing
       /\ z.init = s.init /\ z.alive = s.alive /\ z.mapped = s.mapped /\ z.moved = s.moved /\ z.udp = s.udp
       /\ z.named = s.named /\ z.stun = s.stun /\ z.conn = s.conn /\ z.owes = s.owes
       /\ z.told = s.told /\ z.lost = s.lost /\ z.pend = s.pend /\ z.stunWait = s.stunWait
  BY ONLY <1>11 DEF SessionFields
<1>13. ~y.stunWait /\ y.state \notin {"CONNECTING", "CONNECTED", "DESCRIBED", "SETUP", "INIT"}
  BY <1>0 DEF Stage
<1>14. ~z.tearing => Outstanding(z)
  BY <1>0, <1>3, <1>7, <1>12 DEF Outstanding
<1>15. z.tearing => Leaving(z)
  <2>1. y.tearing => z.state \in {"RECONNECTING", "TEARDOWN_COMPLETE", "ERROR"} \cup Closing
    BY <1>0, <1>8, <1>11 DEF Leaving, AfterSending, Closing
  <2> QED BY <1>0, <1>3, <1>7, <1>12, <2>1 DEF Leaving
<1>16. Stage(z)
  <2>1. \/ z.state = y.state /\ y.state \notin Sending \cup {"SENDING_TEARDOWN"}
        \/ y.state = "SENDING_OPTIONS" /\ z.state = "AWAITING_OPTIONS"
        \/ y.state = "SENDING_DESCRIBE" /\ z.state = "AWAITING_DESCRIBE"
        \/ y.state = "SENDING_SETUP" /\ z.state = "AWAITING_SETUP"
        \/ y.state = "SENDING_PLAY" /\ z.state = "AWAITING_PLAY"
        \/ y.state = "SENDING_TEARDOWN" /\ z.state = "AWAITING_TEARDOWN"
    BY <1>0, <1>8, <1>11 DEF AfterSending, Sending, Fits, States, Connecting, Awaiting, Closing
  <2>2. y.state # "TEARDOWN_COMPLETE"
    BY <1>0 DEF Stage
  <2> QED BY <1>0, <1>2, <1>7, <1>12, <1>13, <2>1, <2>2 DEF Stage, Closing, Sending
<1>17. Naming(z)
  <2>1. z.state \in EarlyStates => y.state \in EarlyStates
    BY <1>8, <1>11 DEF AfterSending, EarlyStates
  <2>2. z.state \in {"SENDING_DESCRIBE", "AWAITING_DESCRIBE", "DESCRIBED", "SENDING_SETUP", "AWAITING_SETUP"}
        => y.state \in {"SENDING_DESCRIBE", "AWAITING_DESCRIBE", "DESCRIBED", "SENDING_SETUP", "AWAITING_SETUP"}
    BY <1>8, <1>11 DEF AfterSending
  <2>3. None \notin Early
    BY DEF None, Early
  <2> QED BY <1>0, <1>7, <1>12, <2>1, <2>2, <2>3 DEF Naming, Placed
<1>18. Kept(y, z)
  BY <1>4, <1>7, <1>12 DEF Kept
<1>19. Good(z)
  BY <1>9, <1>14, <1>15, <1>16, <1>17 DEF Good, Going
<1> QED BY <1>4, <1>5, <1>7, <1>8, <1>10, <1>11, <1>12, <1>18, <1>19

\* A keep-alive is prepared when nothing is outstanding.
LEMMA KeepaliveGood ==
  ASSUME NEW y, Good(y), y.init, y.state = "PLAYING"
  PROVE  LET z == SendKeepalive(y)
         IN  Good(z) /\ Kept(y, z) /\ z.init /\ z.state = y.state /\ z.sock = y.sock /\ z.peer = y.peer
<1> DEFINE z == SendKeepalive(y)
           p == Prepare(y, "ALIVE")
           w == [p EXCEPT !.alive = "pending"]
           m == Mod(w, TRUE)
<1>0. Fits(y) /\ Stage(y) /\ Naming(y) /\ (~y.tearing => Outstanding(y)) /\ (y.tearing => Leaving(y))
  BY DEF Good, Going
<1>1. CASE ~y.sock \/ ~y.sid \/ y.pend # None \/ y.await \/ y.alive # None
  <2>1. z = y
    BY <1>1 DEF SendKeepalive
  <2> HIDE DEF z
  <2> QED BY <2>1 DEF Kept, z
<1>2. CASE ~(~y.sock \/ ~y.sid \/ y.pend # None \/ y.await \/ y.alive # None)
  <2>1. z = m
    BY <1>2 DEF SendKeepalive
  <2> HIDE DEF z
  <2>2. Fits(p) /\ p.pend = "ALIVE" /\ \A f \in SessionFields \ {"pend"} : p[f] = y[f]
    BY <1>0, Prepared DEF Requests
  <2>3. DOMAIN p = SessionFields
    BY <2>2 DEF Fits
  <2> HIDE DEF p
  <2>4. Fits(w) /\ w.alive = "pending" /\ \A f \in SessionFields \ {"alive"} : w[f] = p[f]
    <3>1. Fits(w)
      BY <2>2, <2>3 DEF Fits, SessionFields
    <3> QED BY <3>1, <2>3 DEF SessionFields
  <2> HIDE DEF w
  <2>5. Fits(m) /\ \A f \in SessionFields \ {"out", "edge"} : m[f] = w[f]
    <3>0. Fits(w)
      BY <2>4
    <3>1. Fits(Mod(w, TRUE))
      BY ONLY <3>0, LooksAgain
    <3>2. \A f \in SessionFields \ {"out", "edge"} : Mod(w, TRUE)[f] = w[f]
      BY ONLY <3>0, LooksAgain
    <3> QED BY <3>1, <3>2
  <2> HIDE DEF m
  <2>6. m.pend = "ALIVE" /\ m.alive = "pending" /\ \A f \in SessionFields \ {"pend", "alive", "out", "edge"} : m[f] = y[f]
    BY ONLY <2>2, <2>4, <2>5 DEF SessionFields
  <2>7. /\ m.await = y.await /\ m.last = y.last /\ m.rx = y.rx /\ m.sock = y.sock /\ m.peer = y.peer
        /\ m.buf = y.buf /\ m.asked = y.asked /\ m.mixed = y.mixed /\ m.tearing = y.tearing
        /\ m.init = y.init /\ m.mapped = y.mapped /\ m.moved = y.moved /\ m.udp = y.udp /\ m.state = y.state
        /\ m.named = y.named /\ m.stun = y.stun /\ m.conn = y.conn /\ m.owes = y.owes
        /\ m.told = y.told /\ m.lost = y.lost /\ m.stunWait = y.stunWait
    BY ONLY <2>6 DEF SessionFields
  <2>8. ~y.tearing
    BY <1>0 DEF Leaving, Closing
  <2>9. Outstanding(m)
    BY <1>0, <1>2, <2>6, <2>7, <2>8 DEF Outstanding
  <2>10. Stage(m) /\ Naming(m)
    BY <1>0, <1>2, <2>6, <2>7 DEF Stage, Naming, EarlyStates, Early, Placed
  <2>11. Good(m)
    BY <2>5, <2>7, <2>8, <2>9, <2>10 DEF Good, Going
  <2>12. Kept(y, m)
    BY <2>7, KeptStill
  <2> QED BY <2>1, <2>7, <2>11, <2>12 DEF z
<1> QED BY <1>1, <1>2

\* Interleaved media is read up to an answer.
LEMMA ReadsMedia ==
  ASSUME NEW y, Good(y), y.init
  PROVE  LET z == ReadMedia(y)
         IN  /\ Good(z) /\ Kept(y, z)
             /\ z.init => /\ z.state = y.state /\ z.sock = y.sock /\ z.peer = y.peer
                          /\ z.await = y.await /\ z.pend = y.pend
             /\ ~z.init => z.state = "INIT"
<1> DEFINE b == y.buf \o y.rx
           n == IF AnswersIn(b) = {} THEN Len(b) ELSE FirstIn(b) - 1
           rest == SubSeq(b, n + 1, Len(b))
           f == Forward(y, SubSeq(b, 1, n))
           z == [f EXCEPT !.buf = rest, !.rx = <<>>]
<1>0. /\ Fits(y) /\ Stage(y) /\ Naming(y) /\ (~y.tearing => Outstanding(y)) /\ (y.tearing => Leaving(y))
      /\ DOMAIN y = SessionFields /\ y.buf \in Seq(Message) /\ y.rx \in Seq(Message)
  BY DEF Good, Going, Fits
<1>1. ReadMedia(y) = IF y.peer \in {"eof", "reset"} THEN End(z) ELSE z
  BY DEF ReadMedia, AnswersIn, FirstIn
<1>2. /\ b \in Seq(Message)
      /\ Quiet(y.buf) /\ Quiet(y.rx) => Quiet(b)
      /\ Quiet(y.buf) /\ Single(y.rx, y.last) => Single(b, y.last)
      /\ Single(y.buf, y.last) /\ Quiet(y.rx) => Single(b, y.last)
      /\ Belated(y.buf) /\ Belated(y.rx) => Belated(b)
  BY <1>0, ReadTogether
<1> HIDE DEF b
<1>3. /\ rest \in Seq(Message)
      /\ Quiet(b) => rest = <<>>
      /\ Single(b, y.last) => Single(rest, y.last)
      /\ Belated(b) => Belated(rest)
  BY <1>2, MediaRead
<1> HIDE DEF rest
<1>4. DOMAIN f = SessionFields /\ Fits(f) /\ \A g \in SessionFields \ {"media"} : f[g] = y[g]
  <2>1. Fits(f)
    BY <1>0 DEF Fits, Forward, SessionFields
  <2> QED BY <1>0, <2>1 DEF Forward, SessionFields
<1> HIDE DEF f
<1>5. Fits(z) /\ z.buf = rest /\ z.rx = <<>> /\ \A g \in SessionFields \ {"buf", "rx"} : z[g] = f[g]
  <2>1. Fits(z)
    BY <1>3, <1>4 DEF Fits, SessionFields
  <2> QED BY <1>4, <2>1 DEF SessionFields
<1> HIDE DEF z
<1>6. \A g \in SessionFields \ {"buf", "rx", "media"} : z[g] = y[g]
  BY <1>4, <1>5
<1>7. /\ z.await = y.await /\ z.last = y.last /\ z.sock = y.sock /\ z.peer = y.peer
      /\ z.asked = y.asked /\ z.mixed = y.mixed /\ z.tearing = y.tearing /\ z.alive = y.alive
      /\ z.init = y.init /\ z.mapped = y.mapped /\ z.moved = y.moved /\ z.udp = y.udp /\ z.state = y.state
      /\ z.named = y.named /\ z.stun = y.stun /\ z.conn = y.conn /\ z.owes = y.owes /\ z.pend = y.pend
      /\ z.told = y.told /\ z.lost = y.lost /\ z.stunWait = y.stunWait
  BY ONLY <1>6 DEF SessionFields
<1>8. Quiet(<<>>) /\ Belated(<<>>)
  BY DEF Quiet, Belated
<1>9. ~z.tearing => Outstanding(z)
  BY <1>0, <1>2, <1>3, <1>5, <1>7, <1>8 DEF Outstanding
<1>10. z.tearing => Leaving(z)
  BY <1>0, <1>2, <1>3, <1>5, <1>7, <1>8 DEF Leaving
<1>11. Stage(z) /\ Naming(z)
  BY <1>0, <1>7 DEF Stage, Naming, Placed
<1>12. Good(z) /\ Kept(y, z)
  BY <1>5, <1>7, <1>9, <1>10, <1>11, KeptStill DEF Good, Going
<1>13. Good(End(z)) /\ Kept(y, End(z)) /\ ~End(z).init /\ End(z).state = "INIT"
  BY <1>5, <1>12, Ended, KeptOn
<1> QED BY <1>1, <1>7, <1>12, <1>13

\* Media is read, or the upstream paused.
LEMMA Interleaves ==
  ASSUME NEW y, Good(y), y.init, NEW z \in Interleaved(y)
  PROVE  /\ Good(z) /\ Kept(y, z) /\ (z.init => z.state = y.state /\ z.sock = y.sock /\ z.peer = y.peer)
         /\ ~z.init => z.state = "INIT"
<1>1. CASE z = ReadMedia(y)
  BY <1>1, ReadsMedia
<1>2. CASE z = [y EXCEPT !.paused = TRUE]
  <2> DEFINE v == [y EXCEPT !.paused = TRUE]
  <2>1. Fits(y) /\ DOMAIN y = SessionFields
    BY DEF Good, Fits
  <2>2. Fits(v)
    BY <2>1 DEF Fits, SessionFields
  <2>3. /\ \A f \in SessionFields \ {"out", "edge", "cands", "paused", "media", "closed"} : v[f] = y[f]
        /\ v.state = y.state /\ v.sock = y.sock /\ v.peer = y.peer /\ v.init = y.init
    BY <2>1 DEF SessionFields
  <2> HIDE DEF v
  <2>4. Good(v) /\ Kept(y, v)
    BY <2>2, <2>3, EdgeGood
  <2> QED BY <1>2, <2>3, <2>4 DEF v
<1> QED BY <1>1, <1>2 DEF Interleaved

(***************************************************************************)
(* The end of a session                                                    *)
(***************************************************************************)
\* TEARDOWN waits to be sent, and its event is due.
Leaves(y) == /\ y.init /\ y.tearing /\ y.state = "SENDING_TEARDOWN" /\ y.pend = "TEARDOWN"
             /\ y.sock /\ y.peer = "open" /\ y.out /\ y.edge /\ y.age = 0

\* What is owed to a server whose client left while it played.
Owed(y) ==
  /\ y.conn \in {"stream", "closing"} => ~y.owes
  /\ y.conn = "freed" /\ y.owes => y.told \/ y.lost
  /\ y.conn = "deferred" /\ y.owes => y.told \/ y.lost \/ Leaves(y)

\* A session that plays has made its early requests.
LEMMA Plays ==
  ASSUME NEW y, Good(y), y.init, y.state = "PLAYING"
  PROVE  /\ y.pend \in {None, "ALIVE"} /\ y.last \in {"PLAY", "ALIVE"} /\ ~y.stunWait /\ ~y.tearing
         /\ y.asked \in Seq(Later) /\ Belated(y.rx) /\ Belated(y.buf)
<1>0. Stage(y) /\ (~y.tearing => Outstanding(y)) /\ (y.tearing => Leaving(y))
  BY DEF Good, Going
<1>1. ~y.tearing
  BY <1>0 DEF Leaving, Closing
<1>2. y.pend \in {None, "ALIVE"} /\ y.last \in {"PLAY", "ALIVE"} /\ ~y.stunWait
  BY <1>0 DEF Stage
<1>3. y.last \in Later
  BY <1>2 DEF Later
<1>4. Quiet(y.buf) => Belated(y.buf)
  BY DEF Quiet, Belated
<1>5. Quiet(y.rx) => Belated(y.rx)
  BY DEF Quiet, Belated
<1>6. Single(y.buf, y.last) => Belated(y.buf)
  BY <1>3 DEF Single, Belated
<1>7. Single(y.rx, y.last) => Belated(y.rx)
  BY <1>3 DEF Single, Belated
<1>8. <<>> \in Seq(Later) /\ <<y.last>> \in Seq(Later)
  BY <1>3
<1>9. y.asked \in {<<>>, <<y.last>>} /\ Belated(y.rx) /\ Belated(y.buf)
  BY <1>0, <1>1, <1>4, <1>5, <1>6, <1>7 DEF Outstanding
<1> QED BY <1>1, <1>2, <1>8, <1>9

\* A session that is to be torn down, whatever its state.
LEMMA TearsDown ==
  ASSUME NEW y, Fits(y), y.init, y.tearing, ~y.stunWait, y.last \in Later,
         y.asked \in Seq(Later), Belated(y.rx), y.sock, y.peer # "reset",
         y.state # "SENDING_TEARDOWN"
  PROVE  LET z == InitiateTeardown(y)
         IN  /\ Good(z) /\ Kept(y, z) /\ z.init /\ z.state = "SENDING_TEARDOWN" /\ ~z.await
             /\ z.sock = y.sock /\ z.peer = y.peer
             /\ y.peer = "open" => Leaves(z)
<1> DEFINE p == Prepare(y, "TEARDOWN")
           w == [p EXCEPT !.alive = None, !.await = FALSE, !.buf = <<>>]
           v == SetState(w, "SENDING_TEARDOWN")
           z == Mod(v, TRUE)
<1>1. Fits(p) /\ p.pend = "TEARDOWN" /\ \A f \in SessionFields \ {"pend"} : p[f] = y[f]
  BY Prepared DEF Requests
<1>2. DOMAIN p = SessionFields
  BY <1>1 DEF Fits
<1>3. z = InitiateTeardown(y)
  BY DEF InitiateTeardown
<1> HIDE DEF p
<1>4. /\ Fits(w) /\ w.alive = None /\ ~w.await /\ w.buf = <<>>
      /\ \A f \in SessionFields \ {"alive", "await", "buf"} : w[f] = p[f]
  <2>1. Fits(w)
    BY <1>1, <1>2 DEF Fits, SessionFields
  <2> QED BY <2>1, <1>2 DEF SessionFields
<1> HIDE DEF w
<1>5. w.state = y.state
  BY ONLY <1>1, <1>4 DEF SessionFields
<1>6. Fits(v) /\ v.state = "SENDING_TEARDOWN" /\ v.age = 0 /\ \A f \in SessionFields \ {"state", "age"} : v[f] = w[f]
  <2>1. "SENDING_TEARDOWN" \in States
    BY DEF States, Closing
  <2> QED BY ONLY <1>4, <1>5, <2>1, NewState, y.state # "SENDING_TEARDOWN"
<1> HIDE DEF v
<1>7. Fits(z) /\ z.out /\ z.edge
  <2>1. Fits(v)
    BY <1>6
  <2>2. Mod(v, TRUE).out = TRUE /\ Mod(v, TRUE).edge
    BY ONLY <2>1, LooksAgain
  <2>3. Fits(Mod(v, TRUE))
    BY ONLY <2>1, LooksAgain
  <2> QED BY <2>2, <2>3
<1>8. \A f \in SessionFields \ {"out", "edge"} : z[f] = v[f]
  <2>1. Fits(v)
    BY <1>6
  <2> QED BY ONLY <2>1, LooksAgain
<1> HIDE DEF z
<1>9. z.state = "SENDING_TEARDOWN" /\ z.age = 0 /\ \A f \in SessionFields \ {"out", "edge", "state", "age"} : z[f] = w[f]
  BY ONLY <1>6, <1>8 DEF SessionFields
<1>10. z.alive = None /\ ~z.await /\ z.buf = <<>> /\ z.pend = p.pend
  BY ONLY <1>4, <1>9 DEF SessionFields
<1>11. \A f \in SessionFields \ {"out", "edge", "state", "age", "alive", "await", "buf", "pend"} : z[f] = y[f]
  BY ONLY <1>1, <1>4, <1>9
<1>12. /\ z.last = y.last /\ z.rx = y.rx /\ z.sock = y.sock /\ z.peer = y.peer
       /\ z.asked = y.asked /\ z.tearing = y.tearing /\ z.init = y.init
       /\ z.conn = y.conn /\ z.owes = y.owes
       /\ z.told = y.told /\ z.lost = y.lost /\ z.stunWait = y.stunWait
  BY ONLY <1>11 DEF SessionFields
<1>13. Leaving(z)
  <2>1. Belated(<<>>)
    BY DEF Belated
  <2> QED BY <1>1, <1>9, <1>10, <1>12, <2>1 DEF Leaving, Later, Closing
<1>14. Stage(z) /\ Naming(z)
  BY <1>1, <1>9, <1>10, <1>12 DEF Stage, Naming, EarlyStates, Early, Placed
<1>15. Good(z) /\ Kept(y, z)
  BY <1>7, <1>12, <1>13, <1>14, KeptStill DEF Good, Going
<1> QED BY <1>1, <1>3, <1>7, <1>9, <1>10, <1>12, <1>15 DEF Leaves

\* The reconnect for TEARDOWN dials, or the session is given up.
LEMMA Reconnects ==
  ASSUME NEW y, Fits(y), y.init, y.tearing, ~y.stunWait, y.last \in Later,
         y.pend \in {None, "ALIVE"}, y.await => y.pend = None,
         y.asked \in Seq(Later), Belated(y.rx), Belated(y.buf),
         NEW z \in Reconnect(y)
  PROVE  Good(z) /\ Kept(y, z) /\ Settled(z)
<1> DEFINE r == [y EXCEPT !.reconnected = TRUE]
           c == CloseSocket(r)
<1>0. DOMAIN y = SessionFields
  BY DEF Fits
<1>1. Fits(r) /\ \A f \in SessionFields \ {"reconnected"} : r[f] = y[f]
  <2>1. Fits(r)
    BY <1>0 DEF Fits, SessionFields
  <2> QED BY <2>1, <1>0 DEF SessionFields
<1>2. \/ z = ForceCleanup(y)
      \/ \E v \in Connect(c) : z = IF v.sock THEN SetState(v, "RECONNECTING") ELSE ForceCleanup(v)
  BY Zenon DEF Reconnect
<1> HIDE DEF r
<1>3. /\ Fits(c) /\ ~c.sock /\ c.rx = <<>> /\ c.asked = <<>>
      /\ \A f \in SessionFields \ {"sock", "peer", "rx", "asked", "out", "edge", "plays"} : c[f] = r[f]
  BY ONLY <1>1, SocketClosed
<1> HIDE DEF c
<1>4. CASE z = ForceCleanup(y)
  BY <1>4, CleanedUp DEF Settled
<1>5. CASE \E v \in Connect(c) : z = IF v.sock THEN SetState(v, "RECONNECTING") ELSE ForceCleanup(v)
  <2>1. PICK v \in Connect(c) : z = IF v.sock THEN SetState(v, "RECONNECTING") ELSE ForceCleanup(v)
    BY <1>5
  <2>2. Redialled(c, v)
    BY <1>3, Connects
  <2>3. \A f \in SessionFields \ ({"reconnected", "sock", "peer", "rx", "asked", "out", "edge", "plays"} \cup DialFields) :
          v[f] = y[f]
    BY ONLY <1>1, <1>3, <2>2 DEF Redialled, Placed
  <2>4. v.rx = c.rx /\ v.asked = c.asked
    BY ONLY <2>2 DEF Redialled, DialFields, SessionFields, Placed
  <2>5. /\ v.last = y.last /\ v.tearing = y.tearing /\ v.init = y.init /\ v.conn = y.conn /\ v.owes = y.owes
        /\ v.told = y.told /\ v.lost = y.lost /\ v.stunWait = y.stunWait /\ v.pend = y.pend /\ v.buf = y.buf
        /\ v.await = y.await
    BY ONLY <2>3 DEF SessionFields, DialFields
  <2>6. Fits(v)
    BY ONLY <2>2 DEF Redialled, Placed
  <2>7. Kept(y, v)
    BY <2>5, KeptStill
  <2>8. CASE ~v.sock
    <3>1. /\ Good(ForceCleanup(v)) /\ Kept(v, ForceCleanup(v)) /\ ~ForceCleanup(v).init
          /\ ForceCleanup(v).state = "INIT"
      BY <2>6, CleanedUp
    <3> QED BY <2>1, <2>7, <2>8, <3>1, KeptOn DEF Settled
  <2>9. CASE v.sock
    <3> DEFINE w == SetState(v, "RECONNECTING")
    <3>1. Fits(w) /\ w.state = "RECONNECTING" /\ \A f \in SessionFields \ {"state", "age"} : w[f] = v[f]
      <4>1. "RECONNECTING" \in States
        BY DEF States, Connecting
      <4> QED BY ONLY <2>6, <4>1, NewState
    <3>2. z = w
      BY <2>1, <2>9
    <3> HIDE DEF w
    <3>3. /\ w.last = v.last /\ w.tearing = v.tearing /\ w.init = v.init /\ w.conn = v.conn /\ w.owes = v.owes
          /\ w.told = v.told /\ w.lost = v.lost /\ w.stunWait = v.stunWait /\ w.pend = v.pend /\ w.buf = v.buf
          /\ w.rx = v.rx /\ w.asked = v.asked /\ w.await = v.await
      BY ONLY <3>1 DEF SessionFields
    <3>4. Leaving(w)
      <4>1. Belated(<<>>) /\ <<>> \in Seq(Later)
        BY DEF Belated
      <4> QED BY <1>3, <2>4, <2>5, <3>1, <3>3, <4>1 DEF Leaving, Later
    <3>5. Stage(w) /\ Naming(w)
      BY <2>5, <3>1, <3>3 DEF Stage, Naming, EarlyStates, Early, Later, None, Placed
    <3>6. Kept(v, w)
      BY <3>3, KeptStill
    <3>7. Good(w) /\ Kept(y, w)
      BY <2>5, <2>7, <3>1, <3>3, <3>4, <3>5, <3>6, KeptOn DEF Good, Going
    <3> QED BY <2>5, <3>1, <3>2, <3>3, <3>7 DEF Settled, Transient, Wired
  <2> QED BY <2>8, <2>9
<1> QED BY <1>2, <1>4, <1>5

\* A session that is cleaned up while it plays sends TEARDOWN, or has lost its server.
LEMMA CleansUp ==
  ASSUME NEW y, Good(y), y.init, Settled(y), NEW z \in SessionCleanup(y)
  PROVE  /\ Good(z) /\ Kept(y, z) /\ Settled(z)
         /\ y.state = "PLAYING" => Leaves(z) \/ z.lost
<1>0. Fits(y) /\ DOMAIN y = SessionFields
  BY DEF Good, Fits
<1>1. CASE y.state = "PLAYING"
  <2> DEFINE t == [y EXCEPT !.tearing = TRUE, !.udp = 0]
  <2>1. /\ Fits(t) /\ t.tearing
        /\ \A f \in SessionFields \ {"tearing", "udp"} : t[f] = y[f]
    <3>1. Fits(t)
      BY <1>0 DEF Fits, SessionFields
    <3> QED BY <3>1, <1>0 DEF SessionFields
  <2>2. z \in IF t.sock /\ t.peer # "reset" THEN {InitiateTeardown(t)} ELSE Reconnect(t)
    BY <1>1, Zenon DEF SessionCleanup
  <2> HIDE DEF t
  <2>3. /\ t.last = y.last /\ t.init = y.init /\ t.conn = y.conn /\ t.owes = y.owes /\ t.state = y.state
        /\ t.told = y.told /\ t.lost = y.lost /\ t.stunWait = y.stunWait /\ t.pend = y.pend /\ t.buf = y.buf
        /\ t.rx = y.rx /\ t.asked = y.asked /\ t.sock = y.sock /\ t.peer = y.peer /\ t.await = y.await
    BY ONLY <2>1 DEF SessionFields
  <2>4. /\ y.pend \in {None, "ALIVE"} /\ y.last \in {"PLAY", "ALIVE"} /\ ~y.stunWait /\ ~y.tearing
        /\ y.asked \in Seq(Later) /\ Belated(y.rx) /\ Belated(y.buf)
    BY <1>1, Plays
  <2>5. y.sock /\ y.peer \in {"open", "eof", "reset"} /\ (y.peer \in {"eof", "reset"} => y.lost)
    BY <1>0, <1>1 DEF Settled, Wired, Fits
  <2>6. Kept(y, t)
    BY <2>3, KeptStill
  <2>7. t.last \in Later
    BY <2>3, <2>4 DEF Later
  <2>8. CASE y.peer # "reset"
    <3>1. z = InitiateTeardown(t)
      BY <2>2, <2>3, <2>5, <2>8
    <3>2. /\ Good(z) /\ Kept(t, z) /\ z.init /\ z.state = "SENDING_TEARDOWN" /\ ~z.await
          /\ z.sock = t.sock /\ z.peer = t.peer
          /\ t.peer = "open" => Leaves(z)
      BY <1>1, <2>1, <2>3, <2>4, <2>5, <2>7, <2>8, <3>1, TearsDown
    <3>3. Settled(z)
      BY <2>3, <2>5, <3>2 DEF Settled, Transient, Wired
    <3>4. Leaves(z) \/ z.lost
      BY <2>3, <2>5, <2>8, <3>2 DEF Kept
    <3> QED BY <2>6, <3>2, <3>3, <3>4, KeptOn
  <2>9. CASE y.peer = "reset"
    <3>1. z \in Reconnect(t)
      BY <2>2, <2>3, <2>9
    <3>2. Good(z) /\ Kept(t, z) /\ Settled(z)
      <4>1. t.await => t.pend = None
        BY <2>3 DEF Settled
      <4> QED BY <2>1, <2>3, <2>4, <2>7, <3>1, <4>1, Reconnects
    <3>3. z.lost
      BY <2>3, <2>5, <2>9, <3>2 DEF Kept
    <3> QED BY <2>6, <3>2, <3>3, KeptOn
  <2> QED BY <2>8, <2>9
<1>2. CASE y.state # "PLAYING"
  <2>1. y.state # "SETUP"
    BY DEF Settled, Transient
  <2>2. z = y \/ z = ForceCleanup(y)
    BY <1>2, <2>1 DEF SessionCleanup
  <2>3. CASE z = y
    BY <1>2, <2>3 DEF Kept
  <2>4. CASE z = ForceCleanup(y)
    BY <1>0, <1>2, <2>4, CleanedUp DEF Settled
  <2> QED BY <2>2, <2>3, <2>4
<1> QED BY <1>1, <1>2

\* What may be owed when a connection is released.
Due(y) == y.owes => \/ y.told \/ y.lost
                    \/ y.conn \in {"stream", "closing"} /\ y.init /\ y.state = "PLAYING"

\* A freed connection owes nothing that it could pay.
LEMMA FreedGood ==
  ASSUME NEW y, Fits(y), y.owes => y.told \/ y.lost
  PROVE  Good(Freed(y)) /\ Settled(Freed(y)) /\ Owed(Freed(y))
<1> DEFINE c == ForceCleanup(y)
           z == [c EXCEPT !.conn = "freed"]
<1>1. Good(c) /\ Kept(y, c) /\ ~c.init /\ c.state = "INIT"
  BY CleanedUp
<1>2. z = Freed(y)
  BY DEF Freed
<1> HIDE DEF c
<1>3. Fits(c) /\ DOMAIN c = SessionFields
  BY <1>1 DEF Good, Fits
<1>4. Fits(z)
  BY <1>3 DEF Fits, SessionFields
<1>5. z.init = c.init /\ z.state = c.state /\ z.conn = "freed" /\ z.owes = c.owes /\ z.told = c.told /\ z.lost = c.lost
  BY <1>3 DEF SessionFields
<1> HIDE DEF z
<1> QED BY <1>1, <1>2, <1>4, <1>5 DEF Good, Settled, Owed, Kept

\* A deferred connection waits for TEARDOWN, or owes nothing.
LEMMA Deferred ==
  ASSUME NEW y, Good(y), y.init, Settled(y), y.owes => y.told \/ y.lost \/ Leaves(y)
  PROVE  LET z == [y EXCEPT !.conn = "deferred"] IN Good(z) /\ Settled(z) /\ Owed(z)
<1> DEFINE z == [y EXCEPT !.conn = "deferred"]
<1>0. /\ Fits(y) /\ Stage(y) /\ Naming(y) /\ (~y.tearing => Outstanding(y)) /\ (y.tearing => Leaving(y))
      /\ DOMAIN y = SessionFields
  BY DEF Good, Going, Fits
<1>1. Fits(z)
  BY <1>0 DEF Fits, SessionFields
<1>2. z.conn = "deferred" /\ \A f \in SessionFields \ {"conn"} : z[f] = y[f]
  BY <1>0 DEF SessionFields
<1> HIDE DEF z
<1>3. /\ z.await = y.await /\ z.last = y.last /\ z.sock = y.sock /\ z.peer = y.peer
      /\ z.asked = y.asked /\ z.mixed = y.mixed /\ z.tearing = y.tearing /\ z.alive = y.alive
      /\ z.init = y.init /\ z.mapped = y.mapped /\ z.moved = y.moved /\ z.udp = y.udp /\ z.state = y.state
      /\ z.named = y.named /\ z.stun = y.stun /\ z.owes = y.owes /\ z.pend = y.pend
      /\ z.told = y.told /\ z.lost = y.lost /\ z.stunWait = y.stunWait
      /\ z.rx = y.rx /\ z.buf = y.buf /\ z.out = y.out /\ z.edge = y.edge /\ z.age = y.age
  BY ONLY <1>2 DEF SessionFields
<1>4. Good(z)
  BY <1>0, <1>1, <1>3 DEF Good, Going, Outstanding, Leaving, Stage, Naming, Placed
<1>5. Settled(z) /\ Owed(z)
  BY <1>2, <1>3 DEF Settled, Wired, Owed, Leaves
<1> QED BY <1>4, <1>5 DEF z

\* A connection is released: freed, or deferred until the session ends.
LEMMA Released ==
  ASSUME NEW y, Good(y), Settled(y), Due(y), NEW z \in CloseAndFree(y)
  PROVE  Good(z) /\ Settled(z) /\ Owed(z)
<1>0. Fits(y)
  BY DEF Good
<1>1. CASE y.conn = "deferred"
  <2>1. z = Freed(y)
    BY <1>1 DEF CloseAndFree
  <2> QED BY <1>0, <1>1, <2>1, FreedGood DEF Due
<1>2. CASE y.conn # "deferred"
  <2>1. PICK c \in SessionCleanup(y) : z = IF c.init THEN [c EXCEPT !.conn = "deferred"] ELSE Freed(c)
    BY <1>2 DEF CloseAndFree
  <2>2. CASE ~y.init
    <3>1. c = y
      BY <2>2 DEF SessionCleanup
    <3> QED BY <1>0, <2>1, <2>2, <3>1, FreedGood DEF Due
  <2>3. CASE y.init
    <3>1. /\ Good(c) /\ Kept(y, c) /\ Settled(c)
          /\ y.state = "PLAYING" => Leaves(c) \/ c.lost
      BY <2>3, CleansUp
    <3>2. c.owes => c.told \/ c.lost \/ Leaves(c)
      BY <3>1 DEF Due, Kept
    <3>3. CASE c.init
      BY <2>1, <3>1, <3>2, <3>3, Deferred
    <3>4. CASE ~c.init
      BY <2>1, <3>1, <3>2, <3>4, FreedGood DEF Leaves, Good
    <3> QED BY <3>3, <3>4
  <2> QED BY <2>2, <2>3
<1> QED BY <1>1, <1>2

\* What is owed while the session handles an event.
Pays(y) == (y.conn \in {"stream", "closing"} => ~y.owes) /\ (y.owes => y.told \/ y.lost)

\* A stream that failed is drained or released.
LEMMA GivenUp ==
  ASSUME NEW y, Good(y), Settled(y), Pays(y), NEW z \in Failed(y)
  PROVE  Good(z) /\ Settled(z) /\ Owed(z)
<1>1. CASE ~y.media /\ y.conn = "stream"
  <2>1. z = Drained(y)
    BY <1>1 DEF Failed
  <2>2. /\ Good(z) /\ Kept(y, z) /\ Settled(z) /\ z.init = y.init /\ z.state = y.state
        /\ z.conn = "closing"
    BY <1>1, <2>1, DrainedGood
  <2> QED BY <1>1, <2>2 DEF Settled, Pays, Owed, Kept
<1>2. CASE ~(~y.media /\ y.conn = "stream")
  <2>1. z \in CloseAndFree(y)
    BY <1>2 DEF Failed
  <2> QED BY <2>1, Released DEF Due, Pays
<1> QED BY <1>1, <1>2

(***************************************************************************)
(* Answers                                                                 *)
(***************************************************************************)
\* A session whose answer was taken, but for what it left in the buffer.
Answered(y) ==
  /\ Fits(y) /\ y.init /\ y.pend = None /\ ~y.await /\ y.alive = None /\ ~y.stunWait /\ Stage(y)
  /\ ~y.tearing => ~y.mixed /\ y.asked = <<>> /\ Quiet(y.rx)
  /\ y.tearing => Leaving(y)

\* What may stay in the buffer.
Remains(y, s) == s \in Seq(Message) /\ (~y.tearing => Quiet(s)) /\ (y.tearing => Belated(s))

\* What becomes of an answer.
Reply(y, r) ==
  /\ Kept(y, r.y) /\ r.y.init /\ (r.y.await => r.y.pend = None)
  /\ r.ret \in {"error", "redirected", "ok", "advance", "alive", "head", "duration"}
  /\ r.ret = "error" => Failing(r.y)
  /\ r.ret # "error" => Good(r.y)
  /\ r.ret = "redirected" => r.y.state = "CONNECTING" /\ ~r.y.await
  /\ r.ret \in {"head", "duration"} => r.y.state = "AWAITING_DESCRIBE"
  /\ r.ret \in {"advance", "alive", "head", "duration"} => ~r.y.await
  /\ r.ret = "alive" => r.y.state \notin Transient
  /\ r.ret \notin {"error", "redirected"} =>
       /\ r.y.sock = y.sock /\ r.y.peer = y.peer /\ r.y.state \notin Connecting
       /\ y.state = "ERROR" => r.y.state = "ERROR"

\* After an answer, what is left of the buffer is in order.
LEMMA Rebuffered ==
  ASSUME NEW y, Answered(y), Naming(y), NEW z, Fits(z), Remains(y, z.buf),
         \A f \in SessionFields \ {"buf", "getParam", "auth"} : z[f] = y[f]
  PROVE  /\ Good(z) /\ Kept(y, z) /\ z.init /\ ~z.await /\ z.state = y.state
         /\ z.sock = y.sock /\ z.peer = y.peer
<1>1. /\ z.await = y.await /\ z.last = y.last /\ z.sock = y.sock /\ z.peer = y.peer
      /\ z.asked = y.asked /\ z.mixed = y.mixed /\ z.tearing = y.tearing /\ z.alive = y.alive
      /\ z.init = y.init /\ z.mapped = y.mapped /\ z.moved = y.moved /\ z.udp = y.udp /\ z.state = y.state
      /\ z.named = y.named /\ z.stun = y.stun /\ z.conn = y.conn /\ z.owes = y.owes /\ z.pend = y.pend
      /\ z.told = y.told /\ z.lost = y.lost /\ z.stunWait = y.stunWait /\ z.rx = y.rx
  BY DEF SessionFields
<1>2. ~z.tearing => Outstanding(z)
  BY <1>1 DEF Answered, Remains, Outstanding
<1>3. z.tearing => Leaving(z)
  BY <1>1 DEF Answered, Remains, Leaving
<1>4. Stage(z) /\ Naming(z)
  BY <1>1 DEF Answered, Stage, Naming, Placed
<1>5. Good(z) /\ Kept(y, z)
  BY <1>1, <1>2, <1>3, <1>4, KeptStill DEF Good, Going
<1> QED BY <1>1, <1>5 DEF Answered

\* A new state after an answer.
LEMMA Moved ==
  ASSUME NEW y, Answered(y), NEW st \in States,
         st \notin {"INIT", "CONNECTING", "RECONNECTING"},
         st \in Awaiting \cup Closing => st = y.state \/ (st = "AWAITING_OPTIONS" /\ y.last = "DESCRIBE"),
         st \notin Sending,
         st = "PLAYING" => y.last \in {"PLAY", "ALIVE"},
         st = "TEARDOWN_COMPLETE" => y.tearing,
         y.tearing => st \in {"RECONNECTING", "TEARDOWN_COMPLETE", "ERROR"} \cup Closing,
         st \in EarlyStates => Placed(y),
         st \in {"SENDING_DESCRIBE", "AWAITING_DESCRIBE", "DESCRIBED", "SENDING_SETUP", "AWAITING_SETUP"}
           => y.named = y.mapped /\ y.stun # "asked"
  PROVE  LET z == SetState(y, st)
         IN  /\ Answered(z) /\ Naming(z) /\ Kept(y, z) /\ z.init /\ ~z.await /\ z.state = st
             /\ z.sock = y.sock /\ z.peer = y.peer
             /\ Remains(y, y.buf) => Good(z)
<1> DEFINE z == SetState(y, st)
<1>0. Fits(y)
  BY DEF Answered
<1>1. Fits(z) /\ z.state = st /\ \A f \in SessionFields \ {"state", "age"} : z[f] = y[f]
  BY ONLY <1>0, NewState, st \in States
<1> HIDE DEF z
<1>2. /\ z.await = y.await /\ z.last = y.last /\ z.sock = y.sock /\ z.peer = y.peer
      /\ z.asked = y.asked /\ z.mixed = y.mixed /\ z.tearing = y.tearing /\ z.alive = y.alive
      /\ z.init = y.init /\ z.mapped = y.mapped /\ z.moved = y.moved /\ z.udp = y.udp /\ z.buf = y.buf
      /\ z.named = y.named /\ z.stun = y.stun /\ z.conn = y.conn /\ z.owes = y.owes /\ z.pend = y.pend
      /\ z.told = y.told /\ z.lost = y.lost /\ z.stunWait = y.stunWait /\ z.rx = y.rx
  BY ONLY <1>1 DEF SessionFields
<1>3. ~z.tearing /\ Remains(y, y.buf) => Outstanding(z)
  BY <1>2 DEF Answered, Remains, Outstanding
<1>4. z.tearing => Leaving(z)
  BY <1>1, <1>2 DEF Answered, Leaving
<1>5. Stage(z)
  <2>1. st \in Awaiting \cup Closing /\ st = y.state => Stage(z)
    BY <1>1, <1>2 DEF Answered, Stage
  <2>2. st = "AWAITING_OPTIONS" /\ y.last = "DESCRIBE" => Stage(z)
    BY <1>1, <1>2 DEF Answered, Stage, Closing
  <2>3. st \notin Awaiting \cup Closing => Stage(z)
    BY <1>1, <1>2 DEF Answered, Stage, Closing, Awaiting, Sending
  <2> QED BY <2>1, <2>2, <2>3
<1>6. Naming(z)
  <2>1. None \notin Early
    BY DEF None, Early
  <2> QED BY <1>1, <1>2, <2>1 DEF Answered, Naming, Placed
<1>7. Remains(y, y.buf) => Good(z)
  BY <1>1, <1>3, <1>4, <1>5, <1>6 DEF Good, Going
<1>8. Answered(z)
  BY <1>1, <1>2, <1>4, <1>5 DEF Answered
<1>9. Kept(y, z)
  BY <1>2, KeptStill
<1> QED BY <1>1, <1>2, <1>6, <1>7, <1>8, <1>9 DEF Answered, z

\* The buffer is cut after an answer.
LEMMA Cleared ==
  ASSUME NEW y, Answered(y), NEW s, Remains(y, s)
  PROVE  LET z == [y EXCEPT !.buf = s]
         IN  /\ Answered(z) /\ Fits(z) /\ z.buf = s /\ Remains(z, s)
             /\ \A f \in SessionFields \ {"buf"} : z[f] = y[f]
<1> DEFINE z == [y EXCEPT !.buf = s]
<1>0. Fits(y) /\ DOMAIN y = SessionFields /\ s \in Seq(Message)
  BY DEF Answered, Fits, Remains
<1>1. Fits(z)
  BY <1>0 DEF Fits, SessionFields
<1>2. z.buf = s /\ \A f \in SessionFields \ {"buf"} : z[f] = y[f]
  BY <1>0 DEF SessionFields
<1> HIDE DEF z
<1>3. /\ z.await = y.await /\ z.last = y.last /\ z.asked = y.asked /\ z.mixed = y.mixed
      /\ z.tearing = y.tearing /\ z.alive = y.alive /\ z.init = y.init /\ z.state = y.state
      /\ z.pend = y.pend /\ z.stunWait = y.stunWait /\ z.rx = y.rx
  BY ONLY <1>2 DEF SessionFields
<1>4. z.tearing => Leaving(z)
  BY <1>2, <1>3 DEF Answered, Leaving, Remains
<1>5. Answered(z) /\ Remains(z, s)
  BY <1>1, <1>3, <1>4 DEF Answered, Stage, Remains
<1> QED BY <1>1, <1>2, <1>5 DEF z

\* The step that follows an answer.
LEMMA Follows ==
  ASSUME NEW y, Answered(y), y.state # "AWAITING_SETUP" => Naming(y),
         y.state = "AWAITING_SETUP" => y.stun # "asked",
         y.state \notin Connecting, NEW rest, Remains(y, rest)
  PROVE  LET r == AfterAnswer(y, rest)
         IN  Reply(y, r) /\ r.ret \notin {"error", "redirected", "alive"} /\ ~r.y.await
<1> DEFINE r == AfterAnswer(y, rest)
           z == [y EXCEPT !.buf = <<>>]
           Ok == Reply(y, r) /\ r.ret \notin {"error", "redirected", "alive"} /\ ~r.y.await
<1>1. Remains(y, <<>>)
  BY DEF Remains, Quiet, Belated
<1>2. /\ Answered(z) /\ Fits(z) /\ z.buf = <<>> /\ Remains(z, <<>>)
      /\ \A f \in SessionFields \ {"buf"} : z[f] = y[f]
  BY <1>1, Cleared
<1>3. r = CASE y.state = "AWAITING_OPTIONS" -> Result(z, "advance")
            [] y.state = "AWAITING_DESCRIBE" ->
                 IF y.kind = "play" THEN Result(SetState(z, "DESCRIBED"), "advance") ELSE Result(z, y.kind)
            [] y.state = "AWAITING_SETUP" -> Result(SetState(z, "SETUP"), "advance")
            [] y.state = "AWAITING_PLAY" ->
                 Result([SetState(z, "PLAYING") EXCEPT !.buf = IF y.tcp THEN rest ELSE <<>>], "ok")
            [] y.state = "AWAITING_TEARDOWN" -> Result(SetState(z, "TEARDOWN_COMPLETE"), "ok")
            [] OTHER -> Result(z, "ok")
  BY DEF AfterAnswer
<1> HIDE DEF z, r
<1>4. /\ z.await = y.await /\ z.last = y.last /\ z.sock = y.sock /\ z.peer = y.peer
      /\ z.tearing = y.tearing /\ z.alive = y.alive
      /\ z.init = y.init /\ z.mapped = y.mapped /\ z.moved = y.moved /\ z.udp = y.udp /\ z.state = y.state
      /\ z.named = y.named /\ z.stun = y.stun /\ z.conn = y.conn /\ z.owes = y.owes /\ z.pend = y.pend
      /\ z.told = y.told /\ z.lost = y.lost
  BY ONLY <1>2 DEF SessionFields
<1>5. Kept(y, z) /\ z.init /\ ~z.await
  BY <1>4, KeptStill DEF Answered
<1>6. Naming(y) => Naming(z)
  BY <1>4 DEF Naming, Placed
<1>7. ASSUME Naming(y) PROVE Good(z)
  <2>1. \A f \in SessionFields \ {"buf", "getParam", "auth"} : z[f] = z[f]
    OBVIOUS
  <2> QED BY <1>2, <1>6, <1>7, <2>1, Rebuffered
<1>8. y.kind \in {"play", "head", "duration"}
  BY DEF Answered, Fits
<1>9. ASSUME y.state = "AWAITING_OPTIONS" PROVE Ok
  <2>1. r.y = z /\ r.ret = "advance"
    BY <1>3, <1>9 DEF Result
  <2> QED BY <1>4, <1>5, <1>7, <1>9, <2>1 DEF Reply, Connecting
<1>10. ASSUME y.state = "AWAITING_DESCRIBE" /\ y.kind # "play" PROVE Ok
  <2>1. r.y = z /\ r.ret \in {"head", "duration"}
    BY <1>3, <1>8, <1>10 DEF Result
  <2> QED BY <1>4, <1>5, <1>7, <1>10, <2>1 DEF Reply, Connecting
<1>11. ASSUME y.state = "AWAITING_DESCRIBE" /\ y.kind = "play" PROVE Ok
  <2>1. r.y = SetState(z, "DESCRIBED") /\ r.ret = "advance"
    BY <1>3, <1>11 DEF Result
  <2>2. ~y.tearing
    BY <1>11 DEF Answered, Leaving, Closing
  <2>3. Placed(y) /\ y.named = y.mapped /\ y.stun # "asked"
    BY <1>11 DEF Naming, EarlyStates, Placed
  <2>4. "DESCRIBED" \in States /\ "DESCRIBED" \notin Awaiting \cup Closing \cup Sending
    BY DEF States, Awaiting, Closing, Sending
  <2>5. /\ Good(r.y) /\ Kept(z, r.y) /\ r.y.init /\ ~r.y.await /\ r.y.state = "DESCRIBED"
        /\ r.y.sock = z.sock /\ r.y.peer = z.peer
    BY <1>2, <1>4, <2>1, <2>2, <2>3, <2>4, Moved DEF Placed
  <2> QED BY <1>4, <1>11, <1>5, <2>1, <2>5, KeptOn DEF Reply, Connecting
<1>12. ASSUME y.state = "AWAITING_SETUP" PROVE Ok
  <2>1. r.y = SetState(z, "SETUP") /\ r.ret = "advance"
    BY <1>3, <1>12 DEF Result
  <2>2. ~y.tearing
    BY <1>12 DEF Answered, Leaving, Closing
  <2>4. "SETUP" \in States /\ "SETUP" \notin Awaiting \cup Closing \cup Sending \cup EarlyStates
    BY DEF States, Awaiting, Closing, Sending, EarlyStates
  <2>5. /\ Good(r.y) /\ Kept(z, r.y) /\ r.y.init /\ ~r.y.await /\ r.y.state = "SETUP"
        /\ r.y.sock = z.sock /\ r.y.peer = z.peer
    BY <1>2, <1>4, <2>1, <2>2, <2>4, Moved
  <2> QED BY <1>4, <1>12, <1>5, <2>1, <2>5, KeptOn DEF Reply, Connecting
<1>13. ASSUME y.state = "AWAITING_PLAY" PROVE Ok
  <2> DEFINE p == SetState(z, "PLAYING")
             s == IF y.tcp THEN rest ELSE <<>>
             w == [p EXCEPT !.buf = s]
  <2>1. r.y = w /\ r.ret = "ok"
    BY <1>3, <1>13 DEF Result
  <2>2. ~y.tearing /\ y.last = "PLAY"
    BY <1>13 DEF Answered, Leaving, Closing, Stage
  <2>4. "PLAYING" \in States /\ "PLAYING" \notin Awaiting \cup Closing \cup Sending \cup EarlyStates
    BY DEF States, Awaiting, Closing, Sending, EarlyStates
  <2>5. /\ Answered(p) /\ Naming(p) /\ Kept(z, p) /\ p.init /\ p.state = "PLAYING"
        /\ p.sock = z.sock /\ p.peer = z.peer /\ Good(p)
    BY <1>2, <1>4, <2>2, <2>4, Moved
  <2>6. p.tearing = z.tearing
    <3>1. Fits(z) /\ "PLAYING" \in States
      BY <1>2, <2>4
    <3>2. \A f \in SessionFields \ {"state", "age"} : p[f] = z[f]
      BY ONLY <3>1, NewState
    <3> QED BY ONLY <3>2 DEF SessionFields
  <2> HIDE DEF p
  <2>7. Remains(p, s)
    BY <1>1, <1>4, <2>6 DEF Remains
  <2> HIDE DEF s
  <2>8. Fits(w) /\ w.buf = s /\ Remains(w, s) /\ \A f \in SessionFields \ {"buf"} : w[f] = p[f]
    BY <2>5, <2>7, Cleared
  <2> HIDE DEF w
  <2>9. \A f \in SessionFields \ {"buf", "getParam", "auth"} : w[f] = p[f]
    BY <2>8
  <2>10. /\ Good(w) /\ Kept(p, w) /\ w.init /\ ~w.await /\ w.state = p.state
         /\ w.sock = p.sock /\ w.peer = p.peer
    BY <2>5, <2>7, <2>8, <2>9, Rebuffered
  <2>11. Kept(y, w)
    BY <1>5, <2>5, <2>10, KeptOn
  <2> QED BY <1>4, <1>13, <2>1, <2>5, <2>10, <2>11 DEF Reply, Connecting
<1>14. ASSUME y.state = "AWAITING_TEARDOWN" PROVE Ok
  <2>1. r.y = SetState(z, "TEARDOWN_COMPLETE") /\ r.ret = "ok"
    BY <1>3, <1>14 DEF Result
  <2>2. y.tearing
    BY <1>14 DEF Answered, Stage, Closing
  <2>4. /\ "TEARDOWN_COMPLETE" \in States
        /\ "TEARDOWN_COMPLETE" \notin Awaiting \cup Closing \cup Sending \cup EarlyStates
    BY DEF States, Awaiting, Closing, Sending, EarlyStates
  <2>5. /\ Good(r.y) /\ Kept(z, r.y) /\ r.y.init /\ ~r.y.await /\ r.y.state = "TEARDOWN_COMPLETE"
        /\ r.y.sock = z.sock /\ r.y.peer = z.peer
    <3>1. z.tearing /\ z.state = "AWAITING_TEARDOWN"
      BY <1>4, <1>14, <2>2
    <3> QED BY ONLY <1>2, <2>1, <2>4, <3>1, Moved
  <2> QED BY <1>4, <1>14, <1>5, <2>1, <2>5, KeptOn DEF Reply, Connecting
<1>15. ASSUME y.state \notin Awaiting \cup {"AWAITING_TEARDOWN"} PROVE Ok
  <2>1. r.y = z /\ r.ret = "ok"
    BY <1>3, <1>15 DEF Result, Awaiting
  <2>2. Naming(y)
    BY <1>15 DEF Awaiting
  <2> QED BY <1>4, <1>5, <1>7, <2>1, <2>2 DEF Reply, Connecting
<1>16. \/ y.state \in {"AWAITING_OPTIONS", "AWAITING_DESCRIBE", "AWAITING_SETUP", "AWAITING_PLAY"}
       \/ y.state = "AWAITING_TEARDOWN" \/ y.state \notin Awaiting \cup {"AWAITING_TEARDOWN"}
  BY DEF Awaiting
<1> QED BY <1>9, <1>10, <1>11, <1>12, <1>13, <1>14, <1>15, <1>16 DEF r

\* A redirect dials the new server, or fails.
LEMMA Redirected ==
  ASSUME NEW y, Answered(y), ~y.tearing, Placed(y), y.state \notin Connecting,
         Failing(y), NEW r \in Redirect(y)
  PROVE  Reply(y, r)
<1> DEFINE s == [y EXCEPT !.redirects = @ + 1, !.sid = FALSE, !.buf = <<>>]
           c == CloseSocket(s)
<1>0. Fits(y) /\ DOMAIN y = SessionFields
  BY DEF Answered, Fits
<1>1. CASE y.redirects >= MaxRedirects
  <2>1. r.y = y /\ r.ret = "error"
    BY <1>1 DEF Redirect, Result
  <2> QED BY <2>1 DEF Reply, Kept, Answered
<1>2. CASE ~(y.redirects >= MaxRedirects)
  <2>1. Fits(s) /\ s.buf = <<>> /\ \A f \in SessionFields \ {"redirects", "sid", "buf"} : s[f] = y[f]
    <3>1. y.redirects + 1 \in 0..MaxRedirects
      <4>1. y.redirects \in 0..MaxRedirects
        BY <1>0 DEF Fits
      <4> QED BY <1>2, <4>1, SessionAssumption
    <3>2. Fits(s)
      BY <1>0, <3>1, SMTT(30) DEF Fits, SessionFields
    <3> QED BY <1>0, <3>2 DEF SessionFields
  <2>2. PICK z \in Connect(c) : r = Result(z, IF z.sock THEN "redirected" ELSE "error")
    BY <1>2, Zenon DEF Redirect
  <2> HIDE DEF s
  <2>3. /\ Fits(c) /\ ~c.sock /\ c.rx = <<>> /\ c.asked = <<>>
        /\ \A f \in SessionFields \ {"sock", "peer", "rx", "asked", "out", "edge", "plays"} : c[f] = s[f]
    BY ONLY <2>1, SocketClosed
  <2> HIDE DEF c
  <2>4. c.buf = <<>> /\ \A f \in SessionFields \ {"redirects", "sid", "buf", "sock", "peer", "rx", "asked", "out", "edge", "plays"} :
          c[f] = y[f]
    BY ONLY <2>1, <2>3 DEF SessionFields
  <2>5. /\ c.await = y.await /\ c.last = y.last /\ c.mixed = y.mixed /\ c.udp = y.udp
        /\ c.tearing = y.tearing /\ c.alive = y.alive /\ c.init = y.init /\ c.state = y.state
        /\ c.pend = y.pend /\ c.stunWait = y.stunWait /\ c.mapped = y.mapped /\ c.moved = y.moved
        /\ c.conn = y.conn /\ c.owes = y.owes /\ c.told = y.told /\ c.lost = y.lost
    BY ONLY <2>4 DEF SessionFields
  <2>6. Kept(y, c)
    BY <2>5, KeptStill
  <2>7. Redialled(c, z)
    BY <2>3, Connects
  <2>8. Quiet(<<>>)
    BY DEF Quiet
  <2>9. CASE z.sock
    <3>1. Good(z) /\ Kept(c, z) /\ z.init /\ z.state = "CONNECTING" /\ z.await = c.await
      <4>1. /\ c.init /\ ~c.tearing /\ c.pend = None /\ ~c.await /\ c.alive = None /\ ~c.stunWait /\ ~c.mixed
            /\ Quiet(c.buf) /\ Placed(c) /\ c.state # "RECONNECTING"
        BY <2>4, <2>5, <2>8 DEF Answered, Connecting, Placed
      <4> QED BY ONLY <2>3, <2>7, <2>9, <4>1, RedialGood
    <3>2. r.y = z /\ r.ret = "redirected"
      BY <2>2, <2>9 DEF Result
    <3>3. Kept(y, z)
      BY <2>6, <3>1, KeptOn
    <3> QED BY <2>5, <3>1, <3>2, <3>3 DEF Reply, Answered
  <2>10. CASE ~z.sock
    <3>1. \A f \in SessionFields \ DialFields : z[f] = c[f]
      BY <2>7 DEF Redialled, Placed
    <3>2. /\ z.pend = c.pend /\ z.await = c.await /\ z.last = c.last /\ z.rx = c.rx
          /\ z.buf = c.buf /\ z.asked = c.asked /\ z.mixed = c.mixed /\ z.tearing = c.tearing
          /\ z.init = c.init /\ z.stunWait = c.stunWait
          /\ z.conn = c.conn /\ z.owes = c.owes /\ z.told = c.told /\ z.lost = c.lost
      BY ONLY <3>1 DEF SessionFields, DialFields
    <3>3. Fits(z)
      BY <2>7 DEF Redialled, Placed
    <3>4. None \notin Early
      BY DEF None, Early
    <3>5. Failing(z)
      BY <2>3, <2>4, <2>5, <2>8, <3>2, <3>3, <3>4 DEF Failing, Answered, Placed
    <3>6. Kept(y, z)
      BY <2>6, <3>2, KeptStill, KeptOn
    <3>7. r.y = z /\ r.ret = "error"
      BY <2>2, <2>10 DEF Result
    <3> QED BY <2>5, <3>2, <3>5, <3>6, <3>7 DEF Reply, Answered
  <2> QED BY <2>9, <2>10
<1> QED BY <1>1, <1>2

\* The headers of an answer keep what the answer left.
LEMMA HeadersRead ==
  ASSUME NEW y, Answered(y), NEW a,
         a.to = "SETUP" => y.state \notin EarlyStates \/ y.state = "AWAITING_SETUP"
  PROVE  LET z == Headers(y, a)
         IN  /\ Answered(z) /\ Fits(z) /\ Kept(y, z) /\ z.buf = y.buf /\ z.tearing = y.tearing
             /\ z.state = y.state /\ z.stun = y.stun /\ z.sock = y.sock /\ z.peer = y.peer
             /\ Naming(y) /\ y.state # "AWAITING_SETUP" => Naming(z)
<1> DEFINE w == [y EXCEPT !.sid = TRUE, !.tcp = a.code = "tcp", !.alive = None, !.getParam = TRUE,
                          !.udp = IF a.code = "tcp" THEN 0 ELSE @]
           z == Headers(y, a)
<1>0. Fits(y) /\ DOMAIN y = SessionFields
  BY DEF Answered, Fits
<1>1. CASE a.to # "SETUP"
  <2>1. z = y
    BY <1>1 DEF Headers
  <2> HIDE DEF z
  <2> QED BY <1>0, <2>1 DEF Kept, z
<1>2. CASE a.to = "SETUP"
  <2>1. z = w
    BY <1>2 DEF Headers
  <2> HIDE DEF z
  <2>2. Fits(w) /\ w.alive = None /\ \A f \in SessionFields \ {"sid", "tcp", "alive", "getParam", "udp"} : w[f] = y[f]
    <3>1. Fits(w)
      <4> DEFINE u == IF a.code = "tcp" THEN 0 ELSE y.udp
                 v == [y EXCEPT !.sid = TRUE, !.tcp = a.code = "tcp", !.alive = None, !.getParam = TRUE, !.udp = u]
      <4>1. u \in 0..y.opened
        BY <1>0 DEF Fits
      <4>2. w = v
        OBVIOUS
      <4> HIDE DEF u, w
      <4>3. Fits(v)
        BY <1>0, <4>1, SMTT(30) DEF Fits, SessionFields
      <4> QED BY <4>2, <4>3
    <3> QED BY <1>0, <3>1 DEF SessionFields
  <2> HIDE DEF w
  <2>3. /\ w.await = y.await /\ w.last = y.last /\ w.asked = y.asked /\ w.mixed = y.mixed
        /\ w.tearing = y.tearing /\ w.init = y.init /\ w.state = y.state /\ w.buf = y.buf
        /\ w.pend = y.pend /\ w.stunWait = y.stunWait /\ w.rx = y.rx /\ w.stun = y.stun
        /\ w.sock = y.sock /\ w.peer = y.peer
        /\ w.conn = y.conn /\ w.owes = y.owes /\ w.told = y.told /\ w.lost = y.lost
    BY ONLY <2>2 DEF SessionFields
  <2>4. w.tearing => Leaving(w)
    BY <2>3 DEF Answered, Leaving
  <2>5. Answered(w)
    BY <2>2, <2>3, <2>4 DEF Answered, Stage
  <2>6. y.state # "AWAITING_SETUP" => Naming(w)
    <3>1. None \notin Early
      BY DEF None, Early
    <3>2. y.state # "AWAITING_SETUP" => y.state \notin EarlyStates
      BY <1>2
    <3> QED BY <2>3, <3>1, <3>2 DEF Naming, Answered, EarlyStates, Placed
  <2>7. Kept(y, w)
    BY <2>3, KeptStill
  <2> QED BY <2>1, <2>2, <2>3, <2>5, <2>6, <2>7 DEF z
<1> QED BY <1>1, <1>2

\* A reply after an operation is a reply to what preceded it.
LEMMA ReplyOn ==
  ASSUME NEW y, NEW z, NEW r, Reply(z, r), Kept(y, z), z.sock = y.sock, z.peer = y.peer,
         y.state = "ERROR" => z.state = "ERROR"
  PROVE  Reply(y, r)
BY DEF Reply, Kept

\* The first answer is taken.
LEMMA Takes ==
  ASSUME EarlyRedirects, NEW y, Good(y), y.init, y.await, y.pend = None, y.state \notin Connecting,
         AnswersIn(y.buf) # {},
         NEW r \in TakeAnswer(y, y.buf[FirstIn(y.buf)], Before(y.buf), Behind(y.buf))
  PROVE  Reply(y, r)
<1> DEFINE a == y.buf[FirstIn(y.buf)]
           rest == Behind(y.buf)
           p == Before(y.buf) \o Behind(y.buf)
           mixed == y.mixed \/ a.to # y.last
           z == [y EXCEPT !.await = FALSE, !.alive = None, !.mixed = mixed]
           kept == [z EXCEPT !.buf = p]
           w0 == SetState(z, Challenged(y.state))
           w == [w0 EXCEPT !.auth = @ + 1]
<1>0. /\ Fits(y) /\ Stage(y) /\ Naming(y) /\ (~y.tearing => Outstanding(y)) /\ (y.tearing => Leaving(y))
      /\ DOMAIN y = SessionFields /\ y.buf \in Seq(Message)
  BY DEF Good, Going, Fits
<1>1. /\ a \in Message /\ a # Media /\ rest \in Seq(Message) /\ p \in Seq(Message)
      /\ Single(y.buf, y.last) => a.to = y.last /\ Quiet(rest) /\ Quiet(p)
      /\ Belated(y.buf) => a.to \in Later /\ Belated(rest) /\ Belated(p)
  BY <1>0, TakenOut
<1>2. ~Quiet(y.buf)
  BY <1>0, NothingRead
<1>3. /\ r \in IF a.code = "302" THEN Redirect(z)
              ELSE IF a.code = "401"
                   THEN IF z.auth >= MaxAuth THEN {Result(z, "error")}
                        ELSE {IF y.alive = "await" THEN Result([w EXCEPT !.buf = p], "alive")
                                                   ELSE AfterAnswer(w, rest)}
              ELSE IF a.code = "501" /\ y.alive = "await" /\ y.getParam
                   THEN {Result([kept EXCEPT !.getParam = FALSE], "alive")}
              ELSE IF a.code \in {"404", "501"} THEN {Result(z, "error")}
              ELSE IF y.alive = "await" THEN {Result(Headers(kept, a), "alive")}
              ELSE {AfterAnswer(Headers(z, a), rest)}
  BY DEF TakeAnswer
<1> HIDE DEF a, rest, p
<1>4. a.code = "302" => a.to \in Early
  BY <1>1 DEF Message, EarlyRedirects
<1>5. /\ Fits(z) /\ ~z.await /\ z.alive = None /\ z.mixed = mixed
      /\ \A f \in SessionFields \ {"await", "alive", "mixed"} : z[f] = y[f]
  <2>1. Fits(z)
    BY <1>0 DEF Fits, SessionFields
  <2> QED BY <1>0, <2>1 DEF SessionFields
<1> HIDE DEF z
<1>6. /\ z.last = y.last /\ z.sock = y.sock /\ z.peer = y.peer /\ z.buf = y.buf /\ z.rx = y.rx
      /\ z.asked = y.asked /\ z.tearing = y.tearing /\ z.auth = y.auth
      /\ z.init = y.init /\ z.mapped = y.mapped /\ z.moved = y.moved /\ z.udp = y.udp /\ z.state = y.state
      /\ z.named = y.named /\ z.stun = y.stun /\ z.conn = y.conn /\ z.owes = y.owes /\ z.pend = y.pend
      /\ z.told = y.told /\ z.lost = y.lost /\ z.stunWait = y.stunWait
  BY ONLY <1>5 DEF SessionFields
<1>7. Kept(y, z)
  BY <1>6, KeptStill
<1>8. ASSUME ~y.tearing
      PROVE  ~z.mixed /\ z.asked = <<>> /\ Quiet(z.rx) /\ Single(z.buf, z.last) /\ a.to = y.last /\ Quiet(rest) /\ Quiet(p)
  BY <1>0, <1>1, <1>2, <1>5, <1>6, <1>8 DEF Outstanding
<1>9. z.tearing => Leaving(z)
  BY <1>0, <1>6 DEF Leaving
<1>10. Stage(z) /\ Naming(z) /\ ~z.stunWait
  BY <1>0, <1>5, <1>6 DEF Stage, Naming, Placed
<1>11. Answered(z)
  BY <1>5, <1>6, <1>8, <1>9, <1>10 DEF Answered
<1>12. Failing(z)
  <2>1. ~z.tearing => z.pend = None /\ z.asked = <<>> /\ Single(z.buf, z.last) /\ Quiet(z.rx) /\ ~z.mixed
    BY <1>6, <1>8
  <2>2. z.pend \notin Early
    BY <1>6 DEF Early, None
  <2> QED BY <1>5, <1>6, <1>9, <1>10, <2>1, <2>2 DEF Failing, Leaving, Placed
<1>13. Remains(z, p) /\ Remains(z, rest)
  <2>1. y.tearing => Belated(rest) /\ Belated(p)
    BY <1>0, <1>1 DEF Leaving
  <2> QED BY <1>1, <1>6, <1>8, <2>1 DEF Remains
<1>21. y.state \notin Transient
  BY <1>0 DEF Stage, Transient
<1>14. r = Result(z, "error") => Reply(z, r)
  BY <1>11, <1>12 DEF Reply, Result, Kept, Answered
<1>15. ASSUME a.code = "302" PROVE Reply(z, r)
  <2>1. r \in Redirect(z)
    BY <1>3, <1>15
  <2>2. ~y.tearing
    BY <1>0, <1>1, <1>4, <1>15 DEF Leaving, Early, Later
  <2>3. y.last \in Early
    BY <1>4, <1>8, <1>15, <2>2
  <2>4. Placed(z)
    BY <1>0, <1>6, <2>3 DEF Naming, Placed
  <2> QED BY <1>6, <1>11, <1>12, <2>1, <2>2, <2>4, Redirected
<1>16. ASSUME a.code # "302", a.code = "401", ~(z.auth >= MaxAuth) PROVE Reply(z, r)
  <2>1. r = IF y.alive = "await" THEN Result([w EXCEPT !.buf = p], "alive") ELSE AfterAnswer(w, rest)
    BY <1>3, <1>16
  <2> DEFINE st == Challenged(y.state)
  <2>2. \/ y.state = "AWAITING_OPTIONS" /\ st = "CONNECTED"
        \/ y.state = "AWAITING_DESCRIBE" /\ st = "AWAITING_OPTIONS"
        \/ y.state = "AWAITING_SETUP" /\ st = "DESCRIBED"
        \/ y.state = "AWAITING_PLAY" /\ st = "SETUP"
        \/ y.state \notin Awaiting /\ st = y.state
    BY DEF Challenged, Awaiting
  <2> HIDE DEF st
  <2>3. y.state \notin {"INIT", "CONNECTED", "DESCRIBED", "SETUP", "TEARDOWN_COMPLETE"} \cup Sending \cup Connecting
    BY <1>0 DEF Stage, Sending, None
  <2>4. y.tearing => y.state \in {"RECONNECTING", "TEARDOWN_COMPLETE", "ERROR"} \cup Closing
    BY <1>0 DEF Leaving
  <2>5. /\ st \in States /\ st \notin {"INIT", "CONNECTING", "RECONNECTING"} /\ st \notin Sending
        /\ st \in Awaiting \cup Closing => st = z.state \/ (st = "AWAITING_OPTIONS" /\ z.last = "DESCRIBE")
        /\ st = "PLAYING" => z.last \in {"PLAY", "ALIVE"}
        /\ st = "TEARDOWN_COMPLETE" => z.tearing
    <3>1. st \in States
      BY <1>0, <2>2 DEF Fits, States, Awaiting
    <3>2. st \notin {"INIT", "CONNECTING", "RECONNECTING"} /\ st \notin Sending
      BY <2>2, <2>3 DEF Sending, Connecting
    <3>3. st \in Awaiting \cup Closing => st = z.state \/ (st = "AWAITING_OPTIONS" /\ z.last = "DESCRIBE")
      BY <1>0, <1>6, <2>2 DEF Stage, Awaiting, Closing
    <3>4. st = "PLAYING" => z.last \in {"PLAY", "ALIVE"}
      BY <1>0, <1>6, <2>2 DEF Stage
    <3>5. st # "TEARDOWN_COMPLETE"
      BY <2>2, <2>3
    <3> QED BY <3>1, <3>2, <3>3, <3>4, <3>5
  <2>6. /\ z.tearing => st \in {"RECONNECTING", "TEARDOWN_COMPLETE", "ERROR"} \cup Closing
        /\ st \in EarlyStates => Placed(z)
        /\ st \in {"SENDING_DESCRIBE", "AWAITING_DESCRIBE", "DESCRIBED", "SENDING_SETUP", "AWAITING_SETUP"}
           => z.named = z.mapped /\ z.stun # "asked"
    <3>1. z.tearing => st \in {"RECONNECTING", "TEARDOWN_COMPLETE", "ERROR"} \cup Closing
      BY <1>6, <2>2, <2>4 DEF Closing
    <3>2. st \in EarlyStates => y.state \in EarlyStates
      BY <2>2 DEF EarlyStates
    <3>3. st \in {"SENDING_DESCRIBE", "AWAITING_DESCRIBE", "DESCRIBED", "SENDING_SETUP", "AWAITING_SETUP"}
            => y.state \in {"SENDING_DESCRIBE", "AWAITING_DESCRIBE", "DESCRIBED", "SENDING_SETUP", "AWAITING_SETUP"}
      BY <2>2
    <3> QED BY <1>0, <1>6, <3>1, <3>2, <3>3 DEF Naming, Placed
  <2>7. /\ Answered(w0) /\ Naming(w0) /\ Kept(z, w0) /\ w0.init /\ ~w0.await /\ w0.state = st
        /\ w0.sock = z.sock /\ w0.peer = z.peer
    <3>1. w0 = SetState(z, st)
      BY DEF st
    <3> HIDE DEF w0
    <3> QED BY ONLY <1>11, <2>5, <2>6, <3>1, Moved
  <2>8. Fits(w0) /\ DOMAIN w0 = SessionFields
    BY <2>7 DEF Answered, Fits
  <2>9. w0.auth = z.auth /\ w0.tearing = z.tearing /\ w0.buf = z.buf
    <3>1. \A f \in SessionFields \ {"state", "age"} : w0[f] = z[f]
      <4>1. st \in States /\ Fits(z) /\ w0 = SetState(z, st)
        BY <1>5, <2>5 DEF st
      <4> HIDE DEF w0
      <4> QED BY ONLY <4>1, NewState
    <3> QED BY ONLY <3>1 DEF SessionFields
  <2> HIDE DEF w0
  <2>10. w0.auth + 1 \in 0..MaxAuth
    <3>1. z.auth \in 0..MaxAuth
      BY <1>5 DEF Fits
    <3> QED BY <1>16, <2>9, <3>1, SessionAssumption
  <2>11. Fits(w) /\ \A f \in SessionFields \ {"auth"} : w[f] = w0[f]
    <3>1. Fits(w)
      BY <2>8, <2>10 DEF Fits, SessionFields
    <3> QED BY <3>1, <2>8 DEF SessionFields
  <2> HIDE DEF w
  <2>12. /\ w.await = w0.await /\ w.last = w0.last /\ w.sock = w0.sock /\ w.peer = w0.peer
         /\ w.asked = w0.asked /\ w.mixed = w0.mixed /\ w.tearing = w0.tearing /\ w.alive = w0.alive
         /\ w.init = w0.init /\ w.mapped = w0.mapped /\ w.moved = w0.moved /\ w.udp = w0.udp /\ w.state = w0.state
         /\ w.named = w0.named /\ w.stun = w0.stun /\ w.conn = w0.conn /\ w.owes = w0.owes /\ w.pend = w0.pend
         /\ w.told = w0.told /\ w.lost = w0.lost /\ w.stunWait = w0.stunWait /\ w.rx = w0.rx /\ w.buf = w0.buf
    BY ONLY <2>11 DEF SessionFields
  <2>13. Stage(w) /\ Naming(w) /\ (w.tearing => Leaving(w))
    BY <2>7, <2>12 DEF Answered, Stage, Naming, Leaving, Placed
  <2>14. Answered(w)
    BY <2>7, <2>11, <2>12, <2>13 DEF Answered
  <2>15. Kept(z, w)
    BY <2>7, <2>12, KeptStill, KeptOn
  <2>16. Remains(w, p) /\ Remains(w, rest)
    BY <1>13, <2>9, <2>12 DEF Remains
  <2>17. w.state \notin Connecting
    BY <2>5, <2>7, <2>12 DEF Connecting
  <2>18. w.sock = z.sock /\ w.peer = z.peer
    BY <2>7, <2>12
  <2>21. z.state = "ERROR" => w.state = "ERROR"
    BY <1>6, <2>2, <2>7, <2>12 DEF Awaiting
  <2>22. y.alive = "await" => w.state \notin Transient
    BY <1>0, <2>2, <2>3, <2>7, <2>12 DEF Stage, Transient, Closing, None, Awaiting
  <2>19. CASE y.alive = "await"
    <3> DEFINE v == [w EXCEPT !.buf = p]
    <3>1. Fits(v) /\ v.buf = p /\ \A f \in SessionFields \ {"buf"} : v[f] = w[f]
      BY <2>14, <2>16, Cleared
    <3> HIDE DEF v
    <3>2. \A f \in SessionFields \ {"buf", "getParam", "auth"} : v[f] = w[f]
      BY <3>1
    <3>3. /\ Good(v) /\ Kept(w, v) /\ v.init /\ ~v.await /\ v.state = w.state
          /\ v.sock = w.sock /\ v.peer = w.peer
      BY <2>13, <2>14, <2>16, <3>1, <3>2, Rebuffered
    <3>4. Kept(z, v)
      BY <2>15, <3>3, KeptOn
    <3>5. r.y = v /\ r.ret = "alive"
      BY <2>1, <2>19 DEF Result, v
    <3> QED BY <2>17, <2>18, <2>19, <2>21, <2>22, <3>3, <3>4, <3>5 DEF Reply
  <2>20. CASE y.alive # "await"
    <3>1. r = AfterAnswer(w, rest)
      BY <2>1, <2>20
    <3>2. w.state = "AWAITING_SETUP" => w.stun # "asked"
      BY <2>13 DEF Naming, Placed
    <3>3. Reply(w, r)
      BY ONLY <2>13, <2>14, <2>16, <2>17, <3>1, <3>2, Follows
    <3> QED BY <2>15, <2>18, <2>21, <3>3, ReplyOn
  <2> QED BY <2>19, <2>20
<1>17. ASSUME a.code # "302", a.code # "401", a.code = "501" /\ y.alive = "await" /\ y.getParam PROVE Reply(z, r)
  <2> DEFINE v == [kept EXCEPT !.getParam = FALSE]
  <2>1. r.y = v /\ r.ret = "alive"
    BY <1>3, <1>17 DEF Result
  <2>2. Fits(kept) /\ kept.buf = p /\ \A f \in SessionFields \ {"buf"} : kept[f] = z[f]
    BY <1>11, <1>13, Cleared
  <2> HIDE DEF kept
  <2>3. Fits(v) /\ v.buf = kept.buf /\ \A f \in SessionFields \ {"getParam"} : v[f] = kept[f]
    <3>1. DOMAIN kept = SessionFields
      BY <2>2 DEF Fits
    <3>2. Fits(v)
      BY <2>2, <3>1 DEF Fits, SessionFields
    <3> QED BY <3>1, <3>2 DEF SessionFields
  <2> HIDE DEF v
  <2>4. \A f \in SessionFields \ {"buf", "getParam", "auth"} : v[f] = z[f]
    BY <2>2, <2>3
  <2>5. /\ Good(v) /\ Kept(z, v) /\ v.init /\ ~v.await /\ v.state = z.state
        /\ v.sock = z.sock /\ v.peer = z.peer
    BY <1>10, <1>11, <1>13, <2>2, <2>3, <2>4, Rebuffered
  <2> QED BY <1>6, <1>17, <1>21, <2>1, <2>5 DEF Reply
<1>18. ASSUME y.alive = "await" PROVE Reply(z, Result(Headers(kept, a), "alive"))
  <2>1. Answered(kept) /\ Fits(kept) /\ kept.buf = p /\ \A f \in SessionFields \ {"buf"} : kept[f] = z[f]
    BY ONLY <1>11, <1>13, Cleared
  <2> DEFINE h == Headers(kept, a)
  <2> HIDE DEF kept
  <2>2. /\ kept.state = z.state /\ kept.pend = z.pend /\ kept.await = z.await /\ kept.last = z.last
        /\ kept.mapped = z.mapped /\ kept.moved = z.moved /\ kept.udp = z.udp /\ kept.named = z.named /\ kept.stun = z.stun
        /\ kept.sock = z.sock /\ kept.peer = z.peer /\ kept.tearing = z.tearing
        /\ kept.init = z.init /\ kept.conn = z.conn /\ kept.owes = z.owes /\ kept.told = z.told /\ kept.lost = z.lost
    BY ONLY <2>1 DEF SessionFields
  <2>3. Naming(kept) /\ Kept(z, kept)
    BY <1>10, <2>2, KeptStill DEF Naming, Placed
  <2>4. y.state \notin EarlyStates
    BY <1>0, <1>18 DEF Stage, None, EarlyStates, Closing
  <2>5. kept.state \notin EarlyStates /\ kept.state # "AWAITING_SETUP"
    BY <1>6, <2>2, <2>4 DEF EarlyStates
  <2>6. /\ Answered(h) /\ Fits(h) /\ Kept(kept, h) /\ h.buf = p /\ h.tearing = kept.tearing
        /\ h.state = kept.state /\ h.sock = kept.sock /\ h.peer = kept.peer /\ Naming(h)
    BY <2>1, <2>3, <2>5, HeadersRead
  <2> HIDE DEF h
  <2>7. Remains(h, h.buf)
    BY <1>13, <2>2, <2>6 DEF Remains
  <2>8. \A f \in SessionFields \ {"buf", "getParam", "auth"} : h[f] = h[f]
    OBVIOUS
  <2>9. Good(h) /\ h.init /\ ~h.await
    BY ONLY <2>6, <2>7, <2>8, Rebuffered
  <2>10. Kept(z, h)
    BY <2>3, <2>6, KeptOn
  <2>11. Reply(z, Result(h, "alive"))
    BY <1>6, <1>18, <1>21, <2>2, <2>6, <2>9, <2>10 DEF Reply, Result
  <2> QED BY <2>11 DEF h
<1>19. ASSUME y.alive # "await" PROVE Reply(z, AfterAnswer(Headers(z, a), rest))
  <2> DEFINE h == Headers(z, a)
  <2>1. a.to = "SETUP" => z.state \notin EarlyStates \/ z.state = "AWAITING_SETUP"
    <3>1. ASSUME y.tearing PROVE y.state \notin EarlyStates
      BY <1>0, <3>1 DEF Leaving, EarlyStates, Closing
    <3>2. ASSUME ~y.tearing, a.to = "SETUP", y.state \in EarlyStates PROVE y.state = "AWAITING_SETUP"
      <4>1. y.last = "SETUP"
        BY <1>8, <3>2
      <4> QED BY <1>0, <3>2, <4>1 DEF Stage, EarlyStates, None, Connecting
    <3> QED BY <1>6, <3>1, <3>2
  <2>2. /\ Answered(h) /\ Kept(z, h) /\ h.tearing = z.tearing /\ h.stun = z.stun
        /\ h.state = z.state /\ h.sock = z.sock /\ h.peer = z.peer
        /\ Naming(z) /\ z.state # "AWAITING_SETUP" => Naming(h)
    BY <1>11, <2>1, HeadersRead
  <2> HIDE DEF h
  <2>3. Remains(h, rest)
    BY <1>13, <2>2 DEF Remains
  <2>4. h.state = "AWAITING_SETUP" => h.stun # "asked"
    BY <1>10, <2>2 DEF Naming, Placed
  <2>5. h.state # "AWAITING_SETUP" => Naming(h)
    BY <1>10, <2>2
  <2>6. h.state \notin Connecting
    BY <1>6, <2>2
  <2>7. Reply(h, AfterAnswer(h, rest))
    BY ONLY <2>2, <2>3, <2>4, <2>5, <2>6, Follows
  <2>8. Reply(z, AfterAnswer(h, rest))
    BY <2>2, <2>7, ReplyOn
  <2> QED BY <2>8 DEF h
<1>20. Reply(z, r)
  <2>1. CASE a.code = "302"
    BY <2>1, <1>15
  <2>2. CASE a.code # "302" /\ a.code = "401" /\ z.auth >= MaxAuth
    BY <2>2, <1>3, <1>14
  <2>3. CASE a.code # "302" /\ a.code = "401" /\ ~(z.auth >= MaxAuth)
    BY <2>3, <1>16
  <2>4. CASE a.code # "302" /\ a.code # "401" /\ a.code = "501" /\ y.alive = "await" /\ y.getParam
    BY <2>4, <1>17
  <2>5. CASE a.code \in {"404", "501"} /\ ~(a.code = "501" /\ y.alive = "await" /\ y.getParam)
    <3>1. r = Result(z, "error")
      BY <2>5, <1>3
    <3> QED BY <3>1, <1>14
  <2>6. CASE a.code \notin {"302", "401", "404", "501"}
    <3> HIDE DEF kept, z
    <3>1. CASE y.alive = "await"
      <4>1. r = Result(Headers(kept, a), "alive")
        BY <2>6, <3>1, <1>3
      <4> QED BY <3>1, <4>1, <1>18
    <3>2. CASE y.alive # "await"
      <4>1. r = AfterAnswer(Headers(z, a), rest)
        BY <2>6, <3>2, <1>3
      <4> QED BY <3>2, <4>1, <1>19
    <3> QED BY <3>1, <3>2
  <2> QED BY <2>1, <2>2, <2>3, <2>4, <2>5, <2>6
<1> QED BY <1>6, <1>7, <1>20, ReplyOn

\* Media goes to the client.
LEMMA Forwarded ==
  ASSUME NEW y, Fits(y), NEW s
  PROVE  Fits(Forward(y, s)) /\ \A f \in SessionFields \ {"media"} : Forward(y, s)[f] = y[f]
<1>1. DOMAIN y = SessionFields
  BY DEF Fits
<1>2. Fits(Forward(y, s))
  BY <1>1 DEF Fits, Forward, SessionFields
<1> QED BY <1>1, <1>2 DEF Forward, SessionFields

\* What was kept is dropped.
LEMMA BufferDropped ==
  ASSUME NEW y, Good(y), NEW s
  PROVE  LET z == [Forward(y, s) EXCEPT !.buf = <<>>]
         IN  /\ Good(z) /\ Kept(y, z) /\ z.init = y.init /\ z.state = y.state /\ z.sock = y.sock
             /\ z.peer = y.peer /\ z.await = y.await /\ z.pend = y.pend
<1> DEFINE v == Forward(y, s)
           z == [v EXCEPT !.buf = <<>>]
<1>1. Fits(y) /\ Fits(v) /\ DOMAIN v = SessionFields /\ \A f \in SessionFields \ {"media"} : v[f] = y[f]
  <2>1. Fits(y)
    BY DEF Good
  <2>2. Fits(v) /\ \A f \in SessionFields \ {"media"} : v[f] = y[f]
    BY ONLY <2>1, Forwarded
  <2> QED BY <2>1, <2>2 DEF Fits
<1> HIDE DEF v
<1>2. Fits(z) /\ z.buf = <<>> /\ \A f \in SessionFields \ {"buf"} : z[f] = v[f]
  <2>1. Fits(z)
    BY <1>1 DEF Fits, SessionFields
  <2> QED BY <1>1, <2>1 DEF SessionFields
<1> HIDE DEF z
<1>3. \A f \in SessionFields \ {"buf", "media"} : z[f] = y[f]
  BY <1>1, <1>2
<1>4. /\ z.state = y.state /\ z.pend = y.pend /\ z.await = y.await /\ z.last = y.last /\ z.rx = y.rx
      /\ z.asked = y.asked /\ z.mixed = y.mixed /\ z.tearing = y.tearing
      /\ z.init = y.init /\ z.stunWait = y.stunWait /\ z.alive = y.alive /\ z.mapped = y.mapped /\ z.moved = y.moved
      /\ z.udp = y.udp /\ z.named = y.named /\ z.stun = y.stun /\ z.conn = y.conn /\ z.owes = y.owes
      /\ z.told = y.told /\ z.lost = y.lost /\ z.sock = y.sock /\ z.peer = y.peer
  BY ONLY <1>3 DEF SessionFields
<1>5. Quiet(<<>>) /\ Belated(<<>>)
  BY DEF Quiet, Belated
<1>6. Outstanding(y) => Outstanding(z)
  BY <1>2, <1>4, <1>5 DEF Outstanding
<1>7. Leaving(y) => Leaving(z)
  BY <1>2, <1>4, <1>5 DEF Leaving
<1>8. (Stage(y) => Stage(z)) /\ (Naming(y) => Naming(z))
  BY <1>4 DEF Stage, Naming, Placed
<1>9. Good(z) /\ Kept(y, z)
  BY <1>2, <1>4, <1>6, <1>7, <1>8, KeptStill DEF Good, Going
<1> QED BY <1>4, <1>9 DEF z, v

\* A keep-alive is forgotten by a session that fails.
LEMMA AliveDropped ==
  ASSUME NEW y, Failing(y)
  PROVE  LET z == [y EXCEPT !.alive = None] IN Failing(z) /\ Kept(y, z) /\ z.init = y.init
<1> DEFINE z == [y EXCEPT !.alive = None]
<1>1. Fits(y) /\ DOMAIN y = SessionFields
  BY DEF Failing, Fits, Placed
<1>2. Fits(z)
  BY <1>1 DEF Fits, SessionFields
<1>3. \A f \in SessionFields \ {"alive"} : z[f] = y[f]
  BY <1>1 DEF SessionFields
<1> HIDE DEF z
<1>4. /\ z.state = y.state /\ z.pend = y.pend /\ z.await = y.await /\ z.last = y.last /\ z.rx = y.rx
      /\ z.asked = y.asked /\ z.mixed = y.mixed /\ z.tearing = y.tearing /\ z.buf = y.buf
      /\ z.init = y.init /\ z.stunWait = y.stunWait /\ z.mapped = y.mapped /\ z.moved = y.moved
      /\ z.udp = y.udp /\ z.conn = y.conn /\ z.owes = y.owes
      /\ z.told = y.told /\ z.lost = y.lost
  BY ONLY <1>3 DEF SessionFields
<1>5. Failing(z) /\ Kept(y, z)
  BY <1>2, <1>4, KeptStill DEF Failing, Placed
<1> QED BY <1>4, <1>5 DEF z

\* What the server sent is read, up to the first answer.
LEMMA Receives ==
  ASSUME EarlyRedirects, NEW y, Good(y), y.init, y.await, y.pend = None, y.state \notin Connecting,
         NEW r \in Receive(y)
  PROVE  Reply(y, r)
<1> DEFINE b == y.buf \o y.rx
           ends == y.rx = <<>> /\ y.peer = "eof"
           closed == y.closed \/ ends
           z == [y EXCEPT !.buf = b, !.rx = <<>>, !.closed = closed]
<1>0. /\ Fits(y) /\ Stage(y) /\ Naming(y) /\ (~y.tearing => Outstanding(y)) /\ (y.tearing => Leaving(y))
      /\ DOMAIN y = SessionFields /\ y.buf \in Seq(Message) /\ y.rx \in Seq(Message)
  BY DEF Good, Going, Fits
<1>1. /\ b \in Seq(Message)
      /\ Quiet(y.buf) /\ Quiet(y.rx) => Quiet(b)
      /\ Quiet(y.buf) /\ Single(y.rx, y.last) => Single(b, y.last)
      /\ Single(y.buf, y.last) /\ Quiet(y.rx) => Single(b, y.last)
      /\ Belated(y.buf) /\ Belated(y.rx) => Belated(b)
  BY <1>0, ReadTogether
<1>2. r \in IF y.peer = "reset" THEN {Result(y, "error")}
            ELSE IF y.rx = <<>> /\ ~ends THEN {Result(y, "ok")}
            ELSE IF ends /\ y.buf = <<>> THEN {Result([y EXCEPT !.alive = None], "error")}
            ELSE IF AnswersIn(b) # {} THEN TakeAnswer(z, b[FirstIn(b)], Before(b), Behind(b))
            ELSE IF z.closed THEN {Result([z EXCEPT !.alive = None], "error")}
            ELSE IF z.tcp THEN {Result([Forward(z, b) EXCEPT !.buf = <<>>], "ok")}
            ELSE {Result(z, "ok")}
  BY Zenon DEF Receive, AnswersIn, FirstIn, Before, Behind
<1> HIDE DEF b
<1>3. Fits(z) /\ z.buf = b /\ z.rx = <<>> /\ \A f \in SessionFields \ {"buf", "rx", "closed"} : z[f] = y[f]
  <2>1. Fits(z)
    <3>1. <<>> \in Seq(Message)
      OBVIOUS
    <3> QED BY <1>0, <1>1, <3>1 DEF Fits, SessionFields
  <2> QED BY <1>0, <2>1 DEF SessionFields
<1> HIDE DEF z
<1>4. /\ z.state = y.state /\ z.pend = y.pend /\ z.await = y.await /\ z.last = y.last
      /\ z.asked = y.asked /\ z.mixed = y.mixed /\ z.tearing = y.tearing
      /\ z.init = y.init /\ z.stunWait = y.stunWait /\ z.alive = y.alive /\ z.mapped = y.mapped /\ z.moved = y.moved
      /\ z.udp = y.udp /\ z.named = y.named /\ z.stun = y.stun /\ z.conn = y.conn /\ z.owes = y.owes
      /\ z.told = y.told /\ z.lost = y.lost /\ z.sock = y.sock /\ z.peer = y.peer
  BY ONLY <1>3 DEF SessionFields
<1>5. Quiet(<<>>) /\ Belated(<<>>)
  BY DEF Quiet, Belated
<1>6. Outstanding(y) => Outstanding(z)
  BY <1>1, <1>3, <1>4, <1>5 DEF Outstanding
<1>7. Leaving(y) => Leaving(z)
  BY <1>1, <1>3, <1>4, <1>5 DEF Leaving
<1>8. Good(z) /\ Kept(y, z)
  <2>1. Stage(z) /\ Naming(z)
    BY <1>0, <1>4 DEF Stage, Naming, Placed
  <2> QED BY <1>0, <1>3, <1>4, <1>6, <1>7, <2>1, KeptStill DEF Good, Going
<1>9. Failing(y) /\ Failing(z)
  BY <1>4, <1>8, MayFail
<1>10. CASE r = Result(y, "error")
  BY <1>9, <1>10 DEF Reply, Result, Kept
<1>11. CASE r = Result(y, "ok")
  BY <1>11 DEF Reply, Result, Kept
<1>12. CASE r = Result([y EXCEPT !.alive = None], "error")
  <2> DEFINE v == [y EXCEPT !.alive = None]
  <2>1. Failing(v) /\ Kept(y, v) /\ v.init = y.init
    BY <1>9, AliveDropped
  <2>2. r.y = v /\ r.ret = "error"
    BY <1>12 DEF Result
  <2> HIDE DEF v
  <2> QED BY <2>1, <2>2 DEF Reply, Failing, Placed
<1>13. CASE AnswersIn(b) # {} /\ r \in TakeAnswer(z, b[FirstIn(b)], Before(b), Behind(b))
  <2>1. Reply(z, r)
    <3>1. z.init /\ z.await /\ z.pend = None /\ z.state \notin Connecting
      BY <1>4
    <3> QED BY ONLY EarlyRedirects, <1>3, <1>8, <1>13, <3>1, Takes
  <2> QED BY <1>4, <1>8, <2>1, ReplyOn
<1>14. CASE r = Result([z EXCEPT !.alive = None], "error")
  <2> DEFINE v == [z EXCEPT !.alive = None]
  <2>1. Failing(v) /\ Kept(z, v) /\ v.init = z.init
    BY <1>9, AliveDropped
  <2>2. r.y = v /\ r.ret = "error"
    BY <1>14 DEF Result
  <2> HIDE DEF v
  <2> QED BY <1>4, <1>8, <2>1, <2>2, KeptOn DEF Reply, Failing, Placed
<1>15. CASE r = Result([Forward(z, b) EXCEPT !.buf = <<>>], "ok")
  <2> DEFINE v == [Forward(z, b) EXCEPT !.buf = <<>>]
  <2>1. /\ Good(v) /\ Kept(z, v) /\ v.init = z.init /\ v.state = z.state /\ v.sock = z.sock
        /\ v.peer = z.peer /\ v.await = z.await /\ v.pend = z.pend
    BY <1>8, BufferDropped
  <2>2. r.y = v /\ r.ret = "ok"
    BY <1>15 DEF Result
  <2> HIDE DEF v
  <2> QED BY <1>4, <1>8, <2>1, <2>2, KeptOn DEF Reply
<1>16. CASE r = Result(z, "ok")
  BY <1>4, <1>8, <1>16 DEF Reply, Result
<1> QED BY <1>2, <1>10, <1>11, <1>12, <1>13, <1>14, <1>15, <1>16

(***************************************************************************)
(* Events of the control socket                                            *)
(***************************************************************************)
\* What an event leaves for the worker.
Outcome(y, r) ==
  /\ Kept(y, r.y) /\ Good(r.y) /\ Settled(r.y)
  /\ r.ret \in {"ok", "close", "head", "duration"}
  /\ r.ret \in {"head", "duration"} => r.y.init /\ r.y.state = "AWAITING_DESCRIBE"

\* An outcome after an operation is an outcome of what preceded it.
LEMMA OutcomeOn ==
  ASSUME NEW y, NEW z, NEW r, Outcome(z, r), Kept(y, z)
  PROVE  Outcome(y, r)
BY DEF Outcome, Kept

\* The outcome of an error.
LEMMA Fallen ==
  ASSUME NEW y, Failing(y)
  PROVE  Outcome(y, Error(y))
BY Fails DEF Outcome, Error, Result

\* The outcome of a session that is given up.
LEMMA CleanedOut ==
  ASSUME NEW y, Fits(y)
  PROVE  Outcome(y, Result(ForceCleanup(y), "close"))
BY CleanedUp DEF Outcome, Result, Settled

\* The control socket is beyond use.
LEMMA Terminates ==
  ASSUME NEW y, Good(y), y.init, y.await => y.pend = None
  PROVE  Outcome(y, Terminal(y))
<1>1. Fits(y) /\ Failing(y)
  BY MayFail DEF Good
<1>2. Outcome(y, Result(ForceCleanup(y), "close"))
  BY <1>1, CleanedOut
<1>3. Outcome(y, Result(End(y), "ok"))
  BY <1>1, Ended DEF Outcome, Result, Settled
<1>4. Outcome(y, Error(y))
  BY <1>1, Fallen
<1> QED BY <1>2, <1>3, <1>4 DEF Terminal

\* A session that plays reads its media.
LEMMA Listens ==
  ASSUME NEW y, Good(y), y.init, y.state = "PLAYING", Wired(y), NEW z \in Interleaved(y)
  PROVE  Outcome(y, Result(z, "ok"))
<1>1. /\ Good(z) /\ Kept(y, z) /\ (z.init => z.state = y.state /\ z.sock = y.sock /\ z.peer = y.peer)
      /\ ~z.init => z.state = "INIT"
  BY Interleaves
<1>2. ASSUME z.init PROVE z.await => z.pend = None
  <2>1. z.state = "PLAYING"
    BY <1>1, <1>2
  <2>2. ~z.tearing
    BY <1>1, <1>2, <2>1, Plays
  <2> QED BY <1>1, <1>2, <2>2 DEF Good, Going, Outstanding
<1>3. Settled(z)
  BY <1>1, <1>2 DEF Settled, Wired, Transient
<1> QED BY <1>1, <1>3 DEF Outcome, Result

\* The next step is taken.
LEMMA StepsOn ==
  ASSUME NEW y, Good(y), y.init, ~y.await, y.state \notin {"RECONNECTING", "TEARDOWN_COMPLETE"}, Wired(y)
  PROVE  Outcome(y, Result(Advance(y), "ok"))
<1> DEFINE z == Advance(y)
<1>1. /\ Good(z) /\ Kept(y, z) /\ z.init /\ z.sock = y.sock /\ z.peer = y.peer
      /\ \/ z.state = y.state /\ y.state \notin {"CONNECTED", "DESCRIBED", "SETUP", "RECONNECTING"}
         \/ /\ y.state \in {"CONNECTED", "AWAITING_OPTIONS", "DESCRIBED", "SETUP", "RECONNECTING"}
            /\ IF y.state = "RECONNECTING" THEN z.state = "SENDING_TEARDOWN" ELSE z.state \in Sending
      /\ y.state \notin {"CONNECTED", "AWAITING_OPTIONS", "DESCRIBED", "SETUP", "RECONNECTING"} => z = y
  BY Advances
<1> HIDE DEF z
<1>2. z.await => z.pend = None
  <2>1. CASE y.state \notin {"CONNECTED", "AWAITING_OPTIONS", "DESCRIBED", "SETUP", "RECONNECTING"}
    BY <1>1, <2>1
  <2>2. CASE y.state \in {"CONNECTED", "AWAITING_OPTIONS", "DESCRIBED", "SETUP", "RECONNECTING"}
    <3>1. z.state \notin {"RECONNECTING", "TEARDOWN_COMPLETE", "ERROR"} \cup Closing
      BY <1>1, <2>2 DEF Sending, Closing
    <3> QED BY <1>1, <3>1 DEF Good, Going, Outstanding, Leaving
  <2> QED BY <2>1, <2>2
<1>3. z.state \notin Transient
  BY <1>1 DEF Transient, Sending
<1>4. Wired(z)
  BY <1>1 DEF Wired, Sending
<1>5. Outcome(y, Result(z, "ok"))
  BY <1>1, <1>2, <1>3, <1>4 DEF Outcome, Result, Settled
<1> QED BY <1>5 DEF z

\* What follows an answer.
LEMMA Responds ==
  ASSUME EarlyRedirects, NEW y, Good(y), y.init, y.await, y.pend = None,
         y.state \notin Connecting, Wired(y), NEW q \in Respond(y)
  PROVE  Outcome(y, q)
<1> DEFINE hup(z) == z.closed \/ Hup(z)
<1>1. PICK r \in Receive(y) :
        q \in IF r.ret = "error" THEN {Error(r.y)}
              ELSE IF r.ret \in {"head", "duration"} THEN {r}
              ELSE IF r.ret # "redirected" /\ hup(r.y) /\ ~(r.y.state = "PLAYING" /\ r.y.tcp) THEN {Terminal(r.y)}
              ELSE IF r.ret = "alive" /\ ~hup(r.y)
                   THEN {Result(IF r.y.tcp THEN [Forward(r.y, r.y.buf) EXCEPT !.buf = <<>>] ELSE r.y, "ok")}
              ELSE IF r.y.await THEN {r}
              ELSE IF r.y.state = "TEARDOWN_COMPLETE" THEN {Result(ForceCleanup(r.y), "close")}
              ELSE IF r.y.state = "PLAYING" THEN {Result(w, "ok") : w \in Interleaved(r.y)}
              ELSE {Result(Advance(IF r.ret = "advance" THEN Mod(r.y, TRUE) ELSE r.y), "ok")}
  BY Zenon DEF Respond
<1> DEFINE z == r.y
<1>2. Reply(y, r)
  BY ONLY EarlyRedirects, Good(y), y.init, y.await, y.pend = None, y.state \notin Connecting, <1>1, Receives
<1>3. /\ Kept(y, z) /\ z.init /\ (z.await => z.pend = None)
      /\ r.ret \in {"error", "redirected", "ok", "advance", "alive", "head", "duration"}
      /\ r.ret = "error" => Failing(z)
      /\ r.ret # "error" => Good(z)
      /\ r.ret = "redirected" => z.state = "CONNECTING" /\ ~z.await
      /\ r.ret \in {"head", "duration"} => z.state = "AWAITING_DESCRIBE"
      /\ r.ret = "alive" => z.state \notin Transient
      /\ r.ret \notin {"error", "redirected"} =>
           /\ z.sock = y.sock /\ z.peer = y.peer /\ z.state \notin Connecting
           /\ y.state = "ERROR" => z.state = "ERROR"
  BY <1>2 DEF Reply
<1>4. ASSUME r.ret # "error" PROVE Wired(z)
  BY <1>3, <1>4 DEF Wired, Connecting
<1>5. ASSUME r.ret # "error", z.state \notin Transient PROVE Settled(z)
  BY <1>3, <1>4, <1>5 DEF Settled
<1>6. CASE r.ret = "error" /\ q = Error(z)
  BY <1>3, <1>6, Fallen, OutcomeOn
<1>7. CASE r.ret \in {"head", "duration"} /\ q = r
  BY <1>3, <1>5, <1>7 DEF Outcome, Transient
<1>8. CASE r.ret \notin {"error", "redirected"} /\ q = Terminal(z)
  <2>1. Outcome(z, q)
    BY <1>3, <1>8, Terminates
  <2> QED BY <1>3, <2>1, OutcomeOn
<1>9. CASE r.ret = "alive" /\ q = Result(IF z.tcp THEN [Forward(z, z.buf) EXCEPT !.buf = <<>>] ELSE z, "ok")
  <2>1. Settled(z)
    BY <1>3, <1>5, <1>9
  <2> DEFINE v == [Forward(z, z.buf) EXCEPT !.buf = <<>>]
  <2>2. /\ Good(v) /\ Kept(z, v) /\ v.init = z.init /\ v.state = z.state /\ v.sock = z.sock
        /\ v.peer = z.peer /\ v.await = z.await /\ v.pend = z.pend
    BY <1>3, <1>9, BufferDropped
  <2>3. q \in {Result(z, "ok"), Result(v, "ok")}
    BY <1>9
  <2> HIDE DEF v
  <2>4. Settled(v)
    BY <2>1, <2>2 DEF Settled, Wired
  <2>5. Kept(y, v)
    BY <1>3, <2>2, KeptOn
  <2> QED BY <1>3, <1>9, <2>1, <2>2, <2>3, <2>4, <2>5 DEF Outcome, Result
<1>10. CASE r.ret \in {"ok", "advance", "alive", "redirected"} /\ z.await /\ q = r
  <2>1. r.ret = "ok"
    BY <1>2, <1>3, <1>10 DEF Reply
  <2>2. z.state \notin Transient
    BY <1>3, <1>10, <2>1 DEF Good, Going, Stage, Transient
  <2> QED BY <1>3, <1>5, <1>10, <2>1, <2>2 DEF Outcome
<1>11. CASE r.ret # "error" /\ q = Result(ForceCleanup(z), "close")
  <2>1. Fits(z)
    BY <1>3, <1>11 DEF Good
  <2> QED BY <1>3, <1>11, <2>1, CleanedOut, OutcomeOn
<1>12. CASE r.ret # "error" /\ z.state = "PLAYING" /\ q \in {Result(w, "ok") : w \in Interleaved(z)}
  <2>1. PICK w \in Interleaved(z) : q = Result(w, "ok")
    BY <1>12
  <2>2. Outcome(z, q)
    BY <1>3, <1>4, <1>12, <2>1, Listens
  <2> QED BY <1>3, <2>2, OutcomeOn
<1>13. CASE /\ r.ret # "error" /\ ~z.await /\ z.state # "TEARDOWN_COMPLETE"
            /\ q = Result(Advance(IF r.ret = "advance" THEN Mod(z, TRUE) ELSE z), "ok")
  <2> DEFINE m == Mod(z, TRUE)
  <2>1. Good(z) /\ z.init /\ ~z.await /\ Wired(z) /\ z.state \notin {"RECONNECTING", "TEARDOWN_COMPLETE"}
    BY <1>3, <1>4, <1>13 DEF Connecting
  <2>2. Fits(z)
    BY <2>1 DEF Good
  <2>3. Fits(m) /\ \A f \in SessionFields \ {"out", "edge"} : m[f] = z[f]
    <3>1. Fits(m)
      BY ONLY <2>2, LooksAgain
    <3>2. \A f \in SessionFields \ {"out", "edge"} : m[f] = z[f]
      BY ONLY <2>2, LooksAgain
    <3> QED BY <3>1, <3>2
  <2> HIDE DEF m
  <2>4. m.init = z.init /\ m.await = z.await /\ m.state = z.state
    BY ONLY <2>3 DEF SessionFields
  <2>5. \A f \in SessionFields \ {"out", "edge", "cands", "paused", "media", "closed"} : m[f] = z[f]
    BY ONLY <2>3
  <2>6. Good(m) /\ Kept(z, m) /\ Wired(m)
    BY ONLY <2>1, <2>3, <2>5, EdgeGood
  <2>7. Outcome(m, Result(Advance(m), "ok"))
    BY <2>1, <2>4, <2>6, StepsOn
  <2>8. Outcome(z, Result(Advance(z), "ok"))
    BY <2>1, StepsOn
  <2>9. q \in {Result(Advance(m), "ok"), Result(Advance(z), "ok")}
    BY <1>13 DEF m
  <2>10. Kept(y, m)
    BY <1>3, <2>6, KeptOn
  <2> QED BY <1>3, <2>7, <2>8, <2>9, <2>10, OutcomeOn
<1> HIDE DEF hup
<1>14. CASE r.ret = "error"
  BY <1>1, <1>6, <1>14
<1>15. CASE r.ret \in {"head", "duration"}
  BY <1>1, <1>7, <1>15
<1>16. CASE r.ret \in {"ok", "advance", "alive", "redirected"}
  <2>1. CASE r.ret # "redirected" /\ hup(z) /\ ~(z.state = "PLAYING" /\ z.tcp)
    BY <1>1, <1>8, <1>16, <2>1
  <2>2. CASE ~(r.ret # "redirected" /\ hup(z) /\ ~(z.state = "PLAYING" /\ z.tcp))
    <3>1. q \in IF r.ret = "alive" /\ ~hup(z)
                THEN {Result(IF z.tcp THEN [Forward(z, z.buf) EXCEPT !.buf = <<>>] ELSE z, "ok")}
              ELSE IF z.await THEN {r}
              ELSE IF z.state = "TEARDOWN_COMPLETE" THEN {Result(ForceCleanup(z), "close")}
              ELSE IF z.state = "PLAYING" THEN {Result(w, "ok") : w \in Interleaved(z)}
              ELSE {Result(Advance(IF r.ret = "advance" THEN Mod(z, TRUE) ELSE z), "ok")}
      BY <1>1, <1>16, <2>2
    <3>2. r.ret # "error"
      BY <1>16
    <3> HIDE DEF z
    <3>3. CASE r.ret = "alive" /\ ~hup(z)
      BY <1>9, <3>1, <3>3
    <3>4. CASE ~(r.ret = "alive" /\ ~hup(z)) /\ z.await
      BY <1>10, <1>16, <3>1, <3>4
    <3>5. CASE ~(r.ret = "alive" /\ ~hup(z)) /\ ~z.await /\ z.state = "TEARDOWN_COMPLETE"
      BY <1>11, <3>1, <3>2, <3>5
    <3>6. CASE ~(r.ret = "alive" /\ ~hup(z)) /\ ~z.await /\ z.state = "PLAYING"
      BY <1>12, <3>1, <3>2, <3>6
    <3>7. CASE ~(r.ret = "alive" /\ ~hup(z)) /\ ~z.await /\ z.state \notin {"TEARDOWN_COMPLETE", "PLAYING"}
      BY <1>13, <3>1, <3>2, <3>7
    <3> QED BY <3>3, <3>4, <3>5, <3>6, <3>7
  <2> QED BY <2>1, <2>2
<1> QED BY <1>3, <1>14, <1>15, <1>16

\* A request that is due is sent, and what has come is read.
LEMMA Exchanges ==
  ASSUME EarlyRedirects, NEW y, Good(y), y.init, y.state \notin Connecting \cup Transient, Wired(y),
         (y.await => y.pend = None) \/ (y.out /\ y.peer # "reset"), NEW q \in Exchange(y)
  PROVE  /\ Outcome(y, q)
         /\ y.out /\ y.pend = "TEARDOWN" /\ y.peer # "reset" => q.y.told
<1> DEFINE z == IF y.out /\ y.pend # None THEN Send(y) ELSE y
<1>1. q \in IF y.out /\ y.pend # None /\ y.peer = "reset" THEN {Error([y EXCEPT !.alive = None])}
            ELSE IF ~Readable(z) THEN {Result(z, "ok")}
            ELSE IF z.await THEN Respond(z)
            ELSE IF z.state = "PLAYING" THEN {Result(w, "ok") : w \in Interleaved(z)}
            ELSE {Result(z, "ok")}
  BY Zenon DEF Exchange
<1>2. /\ Good(z) /\ Kept(y, z) /\ z.init /\ z.sock = y.sock /\ z.peer = y.peer
      /\ z.state \notin Connecting \cup Transient /\ Wired(z)
      /\ (y.out /\ y.pend # None) \/ (y.await => y.pend = None) => (z.await => z.pend = None)
      /\ y.out /\ y.pend = "TEARDOWN" => z.told
  <2>1. CASE y.out /\ y.pend # None
    <3> DEFINE s == Send(y)
    <3>1. /\ Good(s) /\ Kept(y, s) /\ s.init /\ s.sock = y.sock /\ s.peer = y.peer
          /\ s.await /\ s.pend = None
          /\ s.state = AfterSending(y.state) /\ (y.pend = "TEARDOWN" => s.told)
      BY <2>1, Sends
    <3> HIDE DEF s
    <3>2. s.state \notin Connecting \cup Transient /\ (s.state \notin Connecting /\ s.state # "ERROR" => y.state # "ERROR")
      BY <3>1 DEF AfterSending, Connecting, Transient
    <3>3. Wired(s)
      BY <3>1, <3>2 DEF Wired, Connecting
    <3>4. z = s
      BY <2>1 DEF s
    <3> HIDE DEF z
    <3> QED BY <3>1, <3>2, <3>3, <3>4
  <2>2. CASE ~(y.out /\ y.pend # None)
    <3>1. z = y
      BY <2>2
    <3> HIDE DEF z
    <3>2. y.pend # "TEARDOWN" \/ ~y.out
      BY <2>2 DEF None
    <3> QED BY <2>2, <3>1, <3>2 DEF Kept
  <2> QED BY <2>1, <2>2
<1>3. CASE y.out /\ y.pend # None /\ y.peer = "reset" /\ q = Error([y EXCEPT !.alive = None])
  <2> DEFINE v == [y EXCEPT !.alive = None]
  <2>1. Failing(y)
    BY <1>3, MayFail
  <2>2. Failing(v) /\ Kept(y, v)
    BY <2>1, AliveDropped
  <2> HIDE DEF v
  <2>3. Outcome(y, Error(v))
    BY <2>2, Fallen, OutcomeOn
  <2>4. q = Error(v)
    BY <1>3 DEF v
  <2> QED BY <1>3, <2>3, <2>4
<1>4. CASE ~(y.out /\ y.pend # None /\ y.peer = "reset")
  <2>1. z.await => z.pend = None
    BY <1>2, <1>4
  <2> HIDE DEF z
  <2>2. Settled(z)
    BY <1>2, <2>1 DEF Settled
  <2>6. Outcome(z, q)
    <3>1. CASE z.await /\ q \in Respond(z)
      <4>1. z.state \notin Connecting /\ z.pend = None
        BY <1>2, <2>1, <3>1
      <4> QED BY ONLY EarlyRedirects, <1>2, <3>1, <4>1, Responds
    <3>2. CASE z.state = "PLAYING" /\ q \in {Result(w, "ok") : w \in Interleaved(z)}
      BY <1>2, <3>2, Listens
    <3>3. CASE q = Result(z, "ok")
      BY <1>2, <2>2, <3>3 DEF Outcome, Result, Kept
    <3> QED BY <1>1, <1>4, <3>1, <3>2, <3>3
  <2>7. Outcome(y, q)
    BY <1>2, <2>6, OutcomeOn
  <2>8. y.out /\ y.pend = "TEARDOWN" => q.y.told
    BY <1>2, <2>6 DEF Outcome, Kept
  <2> QED BY <2>7, <2>8
<1> QED BY <1>1, <1>3, <1>4

\* Another local address closes the UDP sockets.
LEMMA Captures ==
  ASSUME NEW y, Good(y), NEW z \in Captured(y)
  PROVE  /\ Good(z) /\ Kept(y, z)
         /\ \A f \in SessionFields \ {"valid", "moved", "udp"} : z[f] = y[f]
<1>1. Fits(y) /\ DOMAIN y = SessionFields
  BY DEF Good, Fits
<1>2. /\ Fits(z) /\ (Placed(y) => Placed(z))
      /\ \A f \in SessionFields \ {"valid", "moved", "udp"} : z[f] = y[f]
  <2>1. CASE \E b \in BOOLEAN : z = [y EXCEPT !.valid = b]
    <3>1. PICK b \in BOOLEAN : z = [y EXCEPT !.valid = b]
      BY <2>1
    <3>2. Fits(z)
      BY <1>1, <3>1 DEF Fits, SessionFields
    <3>3. \A f \in SessionFields \ {"valid"} : z[f] = y[f]
      BY <1>1, <3>1 DEF SessionFields
    <3>4. z.mapped = y.mapped /\ z.udp = y.udp /\ z.moved = y.moved
      BY <3>3 DEF SessionFields
    <3> QED BY <3>2, <3>3, <3>4 DEF Placed
  <2>2. CASE z = [y EXCEPT !.udp = 0, !.moved = TRUE]
    <3>1. Fits(z)
      BY <1>1, <2>2 DEF Fits, SessionFields
    <3>2. z.moved /\ \A f \in SessionFields \ {"moved", "udp"} : z[f] = y[f]
      BY <1>1, <2>2 DEF SessionFields
    <3> QED BY <3>1, <3>2 DEF Placed
  <2> QED BY <2>1, <2>2 DEF Captured
<1>3. /\ z.state = y.state /\ z.pend = y.pend /\ z.await = y.await /\ z.last = y.last /\ z.rx = y.rx
      /\ z.buf = y.buf /\ z.asked = y.asked /\ z.mixed = y.mixed /\ z.tearing = y.tearing
      /\ z.init = y.init /\ z.stunWait = y.stunWait /\ z.alive = y.alive /\ z.mapped = y.mapped
      /\ z.named = y.named /\ z.stun = y.stun /\ z.conn = y.conn /\ z.owes = y.owes
      /\ z.told = y.told /\ z.lost = y.lost
  BY ONLY <1>2 DEF SessionFields
<1>4. Good(z) /\ Kept(y, z)
  BY <1>2, <1>3, KeptStill DEF Good, Going, Outstanding, Leaving, Stage, Naming
<1> QED BY <1>2, <1>4

\* The connect ended.
LEMMA ConnectEnds ==
  ASSUME EarlyRedirects, NEW y, Good(y), y.init, y.await => y.pend = None, y.state \in Connecting,
         y.sock, y.peer # "dialling", NEW q \in Connected(y)
  PROVE  Outcome(y, q)
<1>0. Fits(y) /\ DOMAIN y = SessionFields
  BY DEF Good, Fits
<1>1. CASE y.peer \in {"refused", "reset"}
  <2>1. PICK w \in ConnectFails(y) : q = IF w.sock THEN Result(w, "ok") ELSE Error(w)
    BY <1>1, Zenon DEF Connected
  <2>2. /\ Kept(y, w) /\ w.init /\ (w.await => w.pend = None)
        /\ w.sock => Good(w) /\ w.state \in Connecting
        /\ ~w.sock => Failing(w)
    BY ConnectFailed
  <2>3. CASE w.sock
    <3>1. Settled(w)
      BY <2>2, <2>3 DEF Settled, Wired, Connecting, Transient
    <3> QED BY <2>1, <2>2, <2>3, <3>1 DEF Outcome, Result
  <2>4. CASE ~w.sock
    BY <2>1, <2>2, <2>4, Fallen, OutcomeOn
  <2> QED BY <2>3, <2>4
<1>2. CASE y.peer \notin {"refused", "reset"}
  <2>12. PICK e \in Captured(y) :
           q \in Exchange(Advance(IF y.state = "CONNECTING"
                                  THEN SetState(Mod([e EXCEPT !.cands = 0], TRUE), "CONNECTED")
                                  ELSE Mod([e EXCEPT !.cands = 0], TRUE)))
    BY <1>2, Zenon DEF Connected
  <2>13. Good(e) /\ Kept(y, e) /\ \A f \in SessionFields \ {"valid", "moved", "udp"} : e[f] = y[f]
    BY Captures
  <2>14. Fits(e) /\ DOMAIN e = SessionFields
    BY <2>13 DEF Good, Fits
  <2>15. /\ e.state = y.state /\ e.init = y.init /\ e.sock = y.sock /\ e.peer = y.peer
         /\ e.pend = y.pend /\ e.await = y.await
    BY ONLY <2>13 DEF SessionFields
  <2> DEFINE d == [e EXCEPT !.cands = 0]
             z == Mod(d, TRUE)
             c == SetState(z, "CONNECTED")
             u == IF y.state = "CONNECTING" THEN c ELSE z
             v == Advance(u)
  <2>1. q \in Exchange(v)
    BY <2>12, Zenon
  <2>2. y.peer \in {"open", "eof"}
    BY <1>0, <1>2 DEF Fits
  <2>3. Fits(d) /\ \A f \in SessionFields \ {"cands"} : d[f] = e[f]
    <3>1. Fits(d)
      BY <2>14 DEF Fits, SessionFields
    <3> QED BY <2>14, <3>1 DEF SessionFields
  <2> HIDE DEF d
  <2>4. Fits(z) /\ z.out = TRUE
    <3>1. Fits(d)
      BY <2>3
    <3>2. Fits(Mod(d, TRUE))
      BY ONLY <3>1, LooksAgain
    <3>3. Mod(d, TRUE).out = TRUE
      BY ONLY <3>1, LooksAgain
    <3> QED BY <3>2, <3>3
  <2>5. \A f \in SessionFields \ {"out", "edge"} : z[f] = d[f]
    <3>1. DOMAIN d = SessionFields
      BY <2>3 DEF Fits
    <3> QED BY <3>1 DEF Mod, SessionFields
  <2> HIDE DEF z
  <2>6. \A f \in SessionFields \ {"out", "edge", "cands", "paused", "media", "closed"} : z[f] = e[f]
    BY ONLY <2>3, <2>5
  <2>7. Good(z) /\ Kept(y, z)
    <3>1. Good(z) /\ Kept(e, z)
      BY ONLY <2>4, <2>6, <2>13, EdgeGood
    <3> QED BY <2>13, <3>1, KeptOn
  <2>8. /\ z.state = y.state /\ z.init = y.init /\ z.sock = y.sock /\ z.peer = y.peer
        /\ z.pend = y.pend /\ z.await = y.await
    BY ONLY <2>6, <2>15 DEF SessionFields
  <2>9. Stage(z) /\ Naming(z) /\ (~z.tearing => Outstanding(z)) /\ (z.tearing => Leaving(z))
    BY <2>7, <2>8 DEF Good, Going
  <2>10. CASE y.state = "CONNECTING"
    <3>1. Fits(c) /\ c.state = "CONNECTED" /\ \A f \in SessionFields \ {"state", "age"} : c[f] = z[f]
      <4>1. "CONNECTED" \in States
        BY DEF States
      <4> QED BY ONLY <2>4, <4>1, NewState
    <3>2. u = c
      BY <2>10
    <3> HIDE DEF c, u
    <3>3. /\ c.pend = z.pend /\ c.await = z.await /\ c.last = z.last /\ c.rx = z.rx
          /\ c.buf = z.buf /\ c.asked = z.asked /\ c.mixed = z.mixed /\ c.tearing = z.tearing
          /\ c.init = z.init /\ c.stunWait = z.stunWait /\ c.alive = z.alive /\ c.mapped = z.mapped /\ c.moved = z.moved
          /\ c.udp = z.udp /\ c.named = z.named /\ c.stun = z.stun /\ c.conn = z.conn /\ c.owes = z.owes
          /\ c.told = z.told /\ c.lost = z.lost /\ c.sock = z.sock /\ c.peer = z.peer
      BY ONLY <3>1 DEF SessionFields
    <3>4. ~z.tearing /\ z.pend = None /\ ~z.await /\ z.alive = None /\ ~z.stunWait
      BY <2>8, <2>9, <2>10 DEF Stage, Leaving, Closing
    <3>5. Outstanding(c)
      <4>1. Outstanding(z) /\ z.state # "ERROR"
        BY <2>8, <2>9, <2>10, <3>4
      <4> QED BY <3>3, <3>4, <4>1 DEF Outstanding
    <3>6. Stage(c)
      BY <3>1, <3>3, <3>4 DEF Stage, Closing
    <3>7. Naming(c)
      BY <2>8, <2>9, <2>10, <3>1, <3>3, <3>4 DEF Naming, EarlyStates, Placed
    <3>8. Good(c) /\ Kept(z, c)
      BY <3>1, <3>3, <3>4, <3>5, <3>6, <3>7, KeptStill DEF Good, Going
    <3>9. /\ Good(v) /\ Kept(c, v) /\ v.init /\ v.sock = c.sock /\ v.peer = c.peer
          /\ v.state \in Sending
      <4>1. c.init
        BY <2>8, <3>3
      <4> QED BY <3>1, <3>2, <3>8, <4>1, Advances
    <3> HIDE DEF v
    <3>10. v.await => v.pend = None
      <4>1. v.state \notin {"RECONNECTING", "TEARDOWN_COMPLETE", "ERROR"} \cup Closing
        BY <3>9 DEF Sending, Closing
      <4> QED BY <3>9, <4>1 DEF Good, Going, Outstanding, Leaving
    <3>11. v.state \notin Connecting \cup Transient /\ Wired(v)
      BY <2>2, <2>8, <3>3, <3>9 DEF Sending, Connecting, Transient, Wired
    <3>12. Outcome(v, q)
      BY ONLY EarlyRedirects, <2>1, <3>9, <3>10, <3>11, Exchanges
    <3>13. Kept(y, v)
      BY <2>7, <3>8, <3>9, KeptOn
    <3> QED BY <3>12, <3>13, OutcomeOn
  <2>11. CASE y.state = "RECONNECTING"
    <3>1. u = z
      BY <2>11
    <3> HIDE DEF u
    <3>2. v = SetState(Prepare(z, "TEARDOWN"), "SENDING_TEARDOWN")
      BY <2>8, <2>11, <3>1 DEF Advance
    <3>3. /\ Good(v) /\ Kept(z, v) /\ v.init /\ v.sock = z.sock /\ v.peer = z.peer
          /\ v.state = "SENDING_TEARDOWN"
      <4>1. z.init /\ z.state = "RECONNECTING"
        BY <2>8, <2>11
      <4> QED BY <2>7, <3>1, <4>1, Advances
    <3> HIDE DEF v
    <3>4. v.out = TRUE
      <4>1. "TEARDOWN" \in Requests /\ "SENDING_TEARDOWN" \in States
        BY DEF Requests, States, Closing
      <4>2. \A f \in SessionFields \ {"pend", "state", "age"} : v[f] = z[f]
        BY ONLY <2>4, <3>2, <4>1, Asks
      <4>3. v.out = z.out
        BY ONLY <4>2 DEF SessionFields
      <4> QED BY <2>4, <4>3
    <3>5. v.state \notin Connecting \cup Transient /\ Wired(v) /\ v.out /\ v.peer # "reset"
      BY <2>2, <2>8, <3>3, <3>4 DEF Connecting, Transient, Wired
    <3>6. Outcome(v, q)
      BY ONLY EarlyRedirects, <2>1, <3>3, <3>5, Exchanges
    <3>7. Kept(y, v)
      BY <2>7, <3>3, KeptOn
    <3> QED BY <3>6, <3>7, OutcomeOn
  <2> QED BY <2>10, <2>11 DEF Connecting
<1> QED BY <1>1, <1>2

\* An event of the control socket.
LEMMA Handles ==
  ASSUME EarlyRedirects, NEW y, Good(y), y.init, Settled(y), y.sock, y.peer # "dialling",
         NEW q \in HandleEvent(y)
  PROVE  /\ Outcome(y, q)
         /\ y.state = "SENDING_TEARDOWN" /\ y.out /\ y.pend = "TEARDOWN" /\ y.peer = "open" => q.y.told
<1>1. (y.await => y.pend = None) /\ y.state \notin Transient /\ Wired(y)
  BY DEF Settled
<1>2. CASE y.state \in Connecting
  <2>1. q \in Connected(y)
    BY <1>2 DEF HandleEvent
  <2> QED BY <1>1, <1>2, <2>1, ConnectEnds DEF Connecting
<1>3. CASE y.state \notin Connecting /\ Hup(y) /\ ~(y.await \/ (y.state = "PLAYING" /\ y.tcp))
  <2>1. q = Terminal(y)
    BY <1>3 DEF HandleEvent
  <2> QED BY <1>1, <1>3, <2>1, Terminates DEF Hup
<1>4. CASE y.state \notin Connecting /\ ~(Hup(y) /\ ~(y.await \/ (y.state = "PLAYING" /\ y.tcp)))
  <2>1. q \in Exchange(y)
    BY <1>4 DEF HandleEvent
  <2>2. y.state \notin Connecting \cup Transient
    BY <1>1, <1>4
  <2> QED BY <1>1, <2>1, <2>2, Exchanges
<1> QED BY <1>2, <1>3, <1>4

(***************************************************************************)
(* The steps of the session                                                *)
(***************************************************************************)
\* The inductive invariant.
Sound(y) == Good(y) /\ Settled(y) /\ Owed(y)

\* What is paid stays paid.
LEMMA PaysOn ==
  ASSUME NEW y, Pays(y), NEW z, Kept(y, z)
  PROVE  Pays(z) /\ Owed(z)
BY DEF Pays, Kept, Owed

\* What is owed is paid, unless TEARDOWN is about to leave.
LEMMA Repays ==
  ASSUME NEW y, Good(y), Owed(y), y.conn = "deferred" => ~Leaves(y)
  PROVE  Pays(y)
BY DEF Pays, Owed, Good, Fits

\* The worker handles an event of the control socket.
LEMMA EventStep ==
  ASSUME EarlyRedirects, NEW y, Sound(y), Ready(y), y.init,
         NEW r \in HandleEvent([y EXCEPT !.edge = FALSE]), NEW z,
         r.ret = "ok" => z = r.y,
         r.ret = "close" => z \in Failed(r.y),
         r.ret = "duration" => z = Drained(r.y),
         r.ret = "head" => z \in {Drained(c) : c \in SessionCleanup(r.y)}
  PROVE  Sound(z)
<1> DEFINE v == [y EXCEPT !.edge = FALSE]
<1>0. Good(y) /\ Settled(y) /\ Owed(y) /\ Fits(y) /\ DOMAIN y = SessionFields
  BY DEF Sound, Good, Fits
<1>1. Fits(v) /\ \A f \in SessionFields \ {"edge"} : v[f] = y[f]
  <2>1. Fits(v)
    BY <1>0 DEF Fits, SessionFields
  <2> QED BY <2>1, <1>0 DEF SessionFields
<1>2. r \in HandleEvent(v)
  OBVIOUS
<1> HIDE DEF v
<1>3. /\ v.init = y.init /\ v.sock = y.sock /\ v.peer = y.peer /\ v.state = y.state /\ v.await = y.await
      /\ v.pend = y.pend /\ v.out = y.out
  BY ONLY <1>1 DEF SessionFields
<1>4. Good(v) /\ Kept(y, v) /\ (Wired(y) => Wired(v))
  <2>1. \A f \in SessionFields \ {"out", "edge", "cands", "paused", "media", "closed"} : v[f] = y[f]
    BY ONLY <1>1
  <2> QED BY ONLY <1>0, <1>1, <2>1, EdgeGood
<1>5. Settled(v)
  BY <1>0, <1>3, <1>4 DEF Settled
<1>6. /\ Outcome(v, r)
      /\ v.state = "SENDING_TEARDOWN" /\ v.out /\ v.pend = "TEARDOWN" /\ v.peer = "open" => r.y.told
  <2>1. v.init /\ v.sock /\ v.peer # "dialling"
    BY <1>3 DEF Ready
  <2> QED BY ONLY EarlyRedirects, <1>2, <1>4, <1>5, <2>1, Handles
<1>7. /\ Kept(v, r.y) /\ Good(r.y) /\ Settled(r.y) /\ r.ret \in {"ok", "close", "head", "duration"}
      /\ r.ret \in {"head", "duration"} => r.y.init /\ r.y.state = "AWAITING_DESCRIBE"
  BY <1>6 DEF Outcome
<1>8. Kept(y, r.y)
  BY <1>4, <1>7, KeptOn
<1>9. Pays(r.y)
  <2>1. CASE y.conn = "deferred" /\ Leaves(y)
    <3>1. r.y.told
      BY <1>3, <1>6, <2>1 DEF Leaves
    <3> QED BY <1>8, <2>1, <3>1 DEF Pays, Kept
  <2>2. CASE ~(y.conn = "deferred" /\ Leaves(y))
    <3>1. Pays(y)
      BY <1>0, <2>2, Repays
    <3> QED BY <1>8, <3>1, PaysOn
  <2> QED BY <2>1, <2>2
<1>10. Owed(r.y)
  BY <1>9 DEF Pays, Owed
<1>11. CASE r.ret = "ok"
  BY <1>7, <1>10, <1>11 DEF Sound
<1>12. CASE r.ret = "close"
  BY <1>7, <1>9, <1>12, GivenUp DEF Sound
<1>13. CASE r.ret = "duration"
  <2>1. z = Drained(r.y)
    BY <1>13
  <2>2. Good(z) /\ Kept(r.y, z) /\ Settled(z)
    BY <1>7, <2>1, DrainedGood
  <2> QED BY <1>9, <2>2, PaysOn DEF Sound
<1>14. CASE r.ret = "head"
  <2>1. PICK c \in SessionCleanup(r.y) : z = Drained(c)
    BY <1>14
  <2>2. Good(c) /\ Kept(r.y, c) /\ Settled(c)
    BY <1>7, <1>14, CleansUp
  <2>3. Good(z) /\ Kept(c, z) /\ Settled(z)
    BY <2>1, <2>2, DrainedGood
  <2>4. Kept(r.y, z)
    BY <2>2, <2>3, KeptOn
  <2> QED BY <1>9, <2>3, <2>4, PaysOn DEF Sound
<1> QED BY <1>7, <1>11, <1>12, <1>13, <1>14

\* Time passes.
LEMMA AgedSound ==
  ASSUME NEW y, Sound(y)
  PROVE  LET z == Aged(y)
         IN  /\ Sound(z) /\ Fits(z) /\ z.init = y.init
             /\ Leaves(z) => z.age = 0
<1> DEFINE age == IF Timed(y) /\ ~Ready(y) /\ y.age < Timeout THEN y.age + 1 ELSE y.age
           stunAge == IF y.stun = "asked" /\ y.stunAge < StunTimeout THEN y.stunAge + 1 ELSE y.stunAge
           z == [y EXCEPT !.age = age, !.stunAge = stunAge]
<1>0. Good(y) /\ Settled(y) /\ Owed(y) /\ Fits(y) /\ DOMAIN y = SessionFields
  BY DEF Sound, Good, Fits
<1>1. z = Aged(y)
  BY DEF Aged
<1>2. age \in 0..Timeout /\ stunAge \in 0..StunTimeout
  <2>1. y.age \in 0..Timeout /\ y.stunAge \in 0..StunTimeout
    BY <1>0 DEF Fits
  <2> QED BY <2>1, SessionAssumption
<1>3. Ready(y) => age = y.age
  OBVIOUS
<1> HIDE DEF age, stunAge
<1>4. Fits(z) /\ z.age = age /\ \A f \in SessionFields \ {"age", "stunAge"} : z[f] = y[f]
  <2>1. Fits(z)
    BY <1>0, <1>2, SMTT(30) DEF Fits, SessionFields
  <2> QED BY <1>0, <2>1 DEF SessionFields
<1> HIDE DEF z
<1>5. /\ z.state = y.state /\ z.pend = y.pend /\ z.await = y.await /\ z.last = y.last /\ z.rx = y.rx
      /\ z.buf = y.buf /\ z.asked = y.asked /\ z.mixed = y.mixed /\ z.tearing = y.tearing
      /\ z.init = y.init /\ z.stunWait = y.stunWait /\ z.alive = y.alive /\ z.mapped = y.mapped /\ z.moved = y.moved
      /\ z.udp = y.udp /\ z.named = y.named /\ z.stun = y.stun /\ z.conn = y.conn /\ z.owes = y.owes
      /\ z.told = y.told /\ z.lost = y.lost /\ z.sock = y.sock /\ z.peer = y.peer
      /\ z.out = y.out /\ z.edge = y.edge
  BY ONLY <1>4 DEF SessionFields
<1>6. Good(z)
  BY <1>0, <1>4, <1>5 DEF Good, Going, Outstanding, Leaving, Stage, Naming, Placed
<1>7. Settled(z)
  BY <1>0, <1>5 DEF Settled, Wired
<1>8. Leaves(y) => Leaves(z)
  <2>1. Leaves(y) => Ready(y)
    BY DEF Leaves, Ready
  <2> QED BY <1>3, <1>4, <1>5, <2>1 DEF Leaves
<1>9. Owed(z)
  BY <1>0, <1>5, <1>8 DEF Owed
<1> QED BY <1>1, <1>4, <1>5, <1>6, <1>7, <1>9 DEF Sound, Leaves

\* The session has run out of time.
LEMMA ExpiredSound ==
  ASSUME NEW y, Sound(y), y.init, ~Leaves(y), NEW z \in TimesOut(y)
  PROVE  Sound(z)
<1>0. Good(y) /\ Settled(y) /\ Owed(y) /\ (y.await => y.pend = None)
  BY DEF Sound, Settled
<1>1. Pays(y)
  BY <1>0, Repays
<1>2. CASE y.state \in Connecting /\ y.cands > 0
  <2>1. PICK w \in ConnectFails(y) : z \in IF w.sock THEN {w} ELSE Failed(SetState(w, "ERROR"))
    BY <1>2, Zenon DEF TimesOut
  <2>2. /\ Kept(y, w) /\ w.init /\ (w.await => w.pend = None)
        /\ w.sock => Good(w) /\ w.state \in Connecting
        /\ ~w.sock => Failing(w)
    BY <1>0, <1>2, ConnectFailed
  <2>3. Pays(w) /\ Owed(w)
    BY <1>1, <2>2, PaysOn
  <2>4. CASE w.sock
    <3>1. Settled(w)
      BY <2>2, <2>4 DEF Settled, Wired, Connecting, Transient
    <3> QED BY <2>1, <2>2, <2>3, <2>4, <3>1 DEF Sound
  <2>5. CASE ~w.sock
    <3> DEFINE e == SetState(w, "ERROR")
    <3>1. Good(e) /\ Kept(w, e) /\ Settled(e)
      BY <2>2, <2>5, Fails
    <3>2. z \in Failed(e)
      BY <2>1, <2>5
    <3> HIDE DEF e
    <3>3. Pays(e)
      BY <2>3, <3>1, PaysOn
    <3> QED BY <3>1, <3>2, <3>3, GivenUp DEF Sound
  <2> QED BY <2>4, <2>5
<1>3. CASE ~(y.state \in Connecting /\ y.cands > 0)
  <2> DEFINE e == SetState(y, "ERROR")
  <2>1. z \in Failed(e)
    BY <1>3 DEF TimesOut
  <2>2. Good(e) /\ Kept(y, e) /\ Settled(e)
    BY <1>0, MayFail, Fails
  <2> HIDE DEF e
  <2>3. Pays(e)
    BY <1>1, <2>2, PaysOn
  <2> QED BY <2>1, <2>2, <2>3, GivenUp DEF Sound
<1> QED BY <1>2, <1>3

\* STUN has ended, and DESCRIBE goes out.
LEMMA GoesOn ==
  ASSUME NEW y, Good(y), Settled(y), y.init, Pays(y), y.stunWait
  PROVE  Sound(Mod(Advance(y), TRUE))
<1> DEFINE v == Advance(y)
           z == Mod(v, TRUE)
<1>1. ~y.await /\ y.state \in {"AWAITING_OPTIONS", "ERROR"} /\ Wired(y)
  BY DEF Good, Going, Stage, Settled
<1>2. Outcome(y, Result(v, "ok"))
  BY <1>1, StepsOn
<1> HIDE DEF v
<1>3. Kept(y, v) /\ Good(v) /\ Settled(v) /\ Fits(v) /\ DOMAIN v = SessionFields
  BY <1>2 DEF Outcome, Result, Good, Fits
<1>4. Fits(z) /\ \A f \in SessionFields \ {"out", "edge"} : z[f] = v[f]
  <2>1. Fits(z)
    BY <1>3 DEF Fits, SessionFields, Mod
  <2> QED BY <1>3, <2>1 DEF SessionFields, Mod
<1> HIDE DEF z
<1>5. Good(z) /\ Kept(v, z) /\ (Wired(v) => Wired(z))
  <2>1. \A f \in SessionFields \ {"out", "edge", "cands", "paused", "media", "closed"} : z[f] = v[f]
    BY ONLY <1>4
  <2> QED BY ONLY <1>3, <1>4, <2>1, EdgeGood
<1>6. z.init = v.init /\ z.state = v.state /\ z.await = v.await /\ z.pend = v.pend
  BY ONLY <1>4 DEF SessionFields
<1>7. Settled(z)
  BY <1>3, <1>5, <1>6 DEF Settled
<1>8. Owed(z)
  BY <1>3, <1>5, KeptOn, PaysOn
<1> QED BY <1>5, <1>7, <1>8 DEF Sound, z, v

\* The session is ticked.
LEMMA TickStep ==
  ASSUME NEW x, Sound(x), x.init, NEW z,
         LET y == Aged(x)
         IN  IF Timed(y) /\ y.age >= Timeout THEN z \in TimesOut(y)
             ELSE IF y.stun = "asked" /\ y.stunWait
                  THEN LET w == StunCheck(y) IN z = IF w.stun = "done" THEN Mod(Advance(w), TRUE) ELSE w
             ELSE \E due \in {KeepAlives, FALSE} : z = IF due /\ y.state = "PLAYING" THEN SendKeepalive(y) ELSE y
  PROVE  Sound(z)
<1> DEFINE y == Aged(x)
<1>1. IF Timed(y) /\ y.age >= Timeout THEN z \in TimesOut(y)
      ELSE IF y.stun = "asked" /\ y.stunWait
           THEN z = IF StunCheck(y).stun = "done" THEN Mod(Advance(StunCheck(y)), TRUE) ELSE StunCheck(y)
      ELSE \E due \in {KeepAlives, FALSE} : z = IF due /\ y.state = "PLAYING" THEN SendKeepalive(y) ELSE y
  OBVIOUS
<1>2. Sound(y) /\ Fits(y) /\ y.init /\ (Leaves(y) => y.age = 0)
  BY AgedSound
<1> HIDE DEF y
<1>3. Good(y) /\ Settled(y) /\ Owed(y) /\ Stage(y)
  BY <1>2 DEF Sound, Good, Going
<1>4. CASE Timed(y) /\ y.age >= Timeout
  <2>1. ~Leaves(y)
    <3>1. ~(0 >= Timeout)
      BY SessionAssumption
    <3> QED BY <1>2, <1>4, <3>1
  <2>2. z \in TimesOut(y)
    BY <1>1, <1>4
  <2> QED BY <1>2, <2>1, <2>2, ExpiredSound
<1>5. CASE ~(Timed(y) /\ y.age >= Timeout) /\ y.stun = "asked" /\ y.stunWait
  <2> DEFINE w == StunCheck(y)
  <2>1. z = IF w.stun = "done" THEN Mod(Advance(w), TRUE) ELSE w
    BY <1>1, <1>5
  <2>2. Good(w) /\ Kept(y, w) /\ \A f \in SessionFields \ {"stun", "tries", "stunAge"} : w[f] = y[f]
    BY <1>3, StunChecked
  <2> HIDE DEF w
  <2>3. /\ w.init = y.init /\ w.state = y.state /\ w.await = y.await /\ w.pend = y.pend /\ w.sock = y.sock
        /\ w.peer = y.peer /\ w.stunWait = y.stunWait
    BY ONLY <2>2 DEF SessionFields
  <2>4. Settled(w)
    BY <1>3, <2>3 DEF Settled, Wired
  <2>5. Pays(y)
    BY <1>3, <1>5, Repays DEF Stage, Leaves
  <2>6. Pays(w) /\ Owed(w)
    BY <2>2, <2>5, PaysOn
  <2>7. CASE w.stun = "done"
    BY <1>2, <1>5, <2>1, <2>2, <2>3, <2>4, <2>6, <2>7, GoesOn
  <2>8. CASE w.stun # "done"
    BY <2>1, <2>2, <2>4, <2>6, <2>8 DEF Sound
  <2> QED BY <2>7, <2>8
<1>6. CASE ~(Timed(y) /\ y.age >= Timeout) /\ ~(y.stun = "asked" /\ y.stunWait)
  <2>1. z = y \/ (y.state = "PLAYING" /\ z = SendKeepalive(y))
    BY <1>1, <1>6
  <2>2. CASE z = y
    BY <1>2, <2>2
  <2>3. CASE y.state = "PLAYING" /\ z = SendKeepalive(y)
    <3>1. Good(z) /\ Kept(y, z) /\ z.init /\ z.state = y.state /\ z.sock = y.sock /\ z.peer = y.peer
      BY <1>2, <1>3, <2>3, KeepaliveGood
    <3>2. ~z.tearing
      BY <2>3, <3>1, Plays
    <3>3. z.await => z.pend = None
      BY <3>1, <3>2 DEF Good, Going, Outstanding
    <3>4. Settled(z)
      BY <1>2, <1>3, <2>3, <3>1, <3>3 DEF Settled, Wired, Transient
    <3>5. Pays(y)
      BY <1>3, <2>3, Repays DEF Leaves
    <3> QED BY <3>1, <3>4, <3>5, PaysOn DEF Sound
  <2> QED BY <2>1, <2>2, <2>3
<1> QED BY <1>4, <1>5, <1>6

\* The client ends.
LEMMA ClientStep ==
  ASSUME NEW y, Sound(y), y.conn \in {"stream", "closing"},
         NEW z \in CloseAndFree([y EXCEPT !.owes = y.conn = "stream" /\ y.init /\ y.state = "PLAYING"])
  PROVE  Sound(z)
<1> DEFINE owes == y.conn = "stream" /\ y.init /\ y.state = "PLAYING"
           v == [y EXCEPT !.owes = owes]
<1>0. Good(y) /\ Settled(y) /\ Owed(y) /\ Fits(y) /\ DOMAIN y = SessionFields
  BY DEF Sound, Good, Fits
<1>1. z \in CloseAndFree(v)
  OBVIOUS
<1>2. owes => y.init /\ y.state = "PLAYING"
  OBVIOUS
<1> HIDE DEF owes
<1>3. Fits(v) /\ v.owes = owes /\ \A f \in SessionFields \ {"owes"} : v[f] = y[f]
  <2>1. Fits(v)
    BY <1>0 DEF Fits, SessionFields
  <2> QED BY <1>0, <2>1 DEF SessionFields
<1> HIDE DEF v
<1>4. /\ v.state = y.state /\ v.pend = y.pend /\ v.await = y.await /\ v.last = y.last /\ v.rx = y.rx
      /\ v.buf = y.buf /\ v.asked = y.asked /\ v.mixed = y.mixed /\ v.tearing = y.tearing
      /\ v.init = y.init /\ v.stunWait = y.stunWait /\ v.alive = y.alive /\ v.mapped = y.mapped /\ v.moved = y.moved
      /\ v.udp = y.udp /\ v.named = y.named /\ v.stun = y.stun /\ v.conn = y.conn
      /\ v.sock = y.sock /\ v.peer = y.peer
  BY ONLY <1>3 DEF SessionFields
<1>5. Good(v)
  BY <1>0, <1>3, <1>4 DEF Good, Going, Outstanding, Leaving, Stage, Naming, Placed
<1>6. Settled(v) /\ Due(v)
  BY <1>0, <1>2, <1>3, <1>4 DEF Settled, Wired, Due
<1> QED BY <1>1, <1>5, <1>6, Released DEF Sound

\* The client reads again.
LEMMA ResumeStep ==
  ASSUME NEW y, Sound(y), y.init, y.conn = "stream"
  PROVE  Sound(ReadMedia([y EXCEPT !.paused = FALSE]))
<1> DEFINE v == [y EXCEPT !.paused = FALSE]
           z == ReadMedia(v)
<1>0. Good(y) /\ Settled(y) /\ Owed(y) /\ Fits(y) /\ DOMAIN y = SessionFields
  BY DEF Sound, Good, Fits
<1>1. Fits(v) /\ \A f \in SessionFields \ {"paused"} : v[f] = y[f]
  <2>1. Fits(v)
    BY <1>0 DEF Fits, SessionFields
  <2> QED BY <1>0, <2>1 DEF SessionFields
<1> HIDE DEF v
<1>2. /\ v.init = y.init /\ v.sock = y.sock /\ v.peer = y.peer /\ v.state = y.state /\ v.await = y.await
      /\ v.pend = y.pend
  BY ONLY <1>1 DEF SessionFields
<1>3. Good(v) /\ Kept(y, v)
  <2>1. \A f \in SessionFields \ {"out", "edge", "cands", "paused", "media", "closed"} : v[f] = y[f]
    BY ONLY <1>1
  <2> QED BY ONLY <1>0, <1>1, <2>1, EdgeGood
<1>4. /\ Good(z) /\ Kept(v, z)
      /\ z.init => /\ z.state = v.state /\ z.sock = v.sock /\ z.peer = v.peer
                   /\ z.await = v.await /\ z.pend = v.pend
      /\ ~z.init => z.state = "INIT"
  BY <1>2, <1>3, ReadsMedia
<1> HIDE DEF z
<1>5. Settled(z)
  BY <1>0, <1>2, <1>4 DEF Settled, Wired
<1>6. Pays(y)
  BY <1>0, Repays
<1>7. Owed(z)
  BY <1>3, <1>4, <1>6, KeptOn, PaysOn
<1> QED BY <1>4, <1>5, <1>7 DEF Sound, z, v

\* The first connect.
LEMMA FirstStep ==
  ASSUME NEW k \in Kinds, NEW z \in Connect([BlankSession EXCEPT !.kind = k]), z.sock
  PROVE  Sound(z)
<1> DEFINE b == [BlankSession EXCEPT !.kind = k]
<1>0. DOMAIN BlankSession = SessionFields
  BY DEF BlankSession, SessionFields
<1>1. /\ b.state = "INIT" /\ ~b.sock /\ b.peer = None /\ b.rx = <<>> /\ b.asked = <<>> /\ b.cands = 0
      /\ b.pend = None /\ ~b.await /\ b.alive = None /\ b.redirects = 0 /\ b.auth = 0 /\ b.stun = "off"
      /\ b.tries = 0 /\ b.stunAge = 0 /\ ~b.stunWait /\ b.mapped = 0 /\ b.udp = 0 /\ b.opened = 0
      /\ ~b.tearing /\ b.init /\ b.age = 0 /\ b.buf = <<>> /\ b.kind = k /\ b.conn = "stream"
      /\ b.last = None /\ ~b.mixed /\ ~b.owes /\ DOMAIN b = SessionFields
  BY <1>0 DEF BlankSession, SessionFields
<1>2. z \in Connect(b)
  OBVIOUS
<1> HIDE DEF b
<1>3. Fits(b)
  <2>1. "INIT" \in States /\ k \in {"play", "head", "duration"} /\ 0 \in 0..0
    BY SessionAssumption DEF States
  <2>2. <<>> \in Seq(Message) /\ <<>> \in Seq(Requests)
    OBVIOUS
  <2>3. 0 \in Nat
    OBVIOUS
  <2>4. b.state \in States /\ b.pend \in Requests \cup {None} /\ b.last \in Requests \cup {None}
    BY <1>1, <2>1
  <2>5. /\ b.peer \in {None, "dialling", "open", "refused", "eof", "reset"} /\ (b.sock <=> b.peer # None)
        /\ b.rx \in Seq(Message) /\ b.buf \in Seq(Message) /\ b.asked \in Seq(Requests)
    BY <1>1, <2>2, Zenon
  <2>6. /\ b.alive \in {None, "pending", "await"} /\ b.stun \in {"off", "asked", "done"}
        /\ b.conn \in {"stream", "closing", "deferred", "freed"} /\ b.kind \in {"play", "head", "duration"}
        /\ b.peer \notin {"eof", "reset"} /\ b.stun # "asked"
    BY <1>1, <2>1 DEF None
  <2>7. /\ b.tries \in 0..StunRetries + 1 /\ b.stunAge \in 0..StunTimeout /\ b.age \in 0..Timeout
        /\ b.redirects \in 0..MaxRedirects /\ b.auth \in 0..MaxAuth
    BY <1>1, Starts
  <2>8. b.opened \in Nat /\ b.udp \in 0..b.opened /\ b.mapped \in 0..b.opened /\ b.cands \in Nat
    BY <1>1, <2>1, <2>3
  <2> QED BY ONLY <1>1, <2>4, <2>5, <2>6, <2>7, <2>8 DEF Fits
<1>4. Redialled(b, z)
  BY ONLY <1>1, <1>2, <1>3, Connects
<1>5. Quiet(<<>>)
  BY DEF Quiet
<1>6. /\ Good(z) /\ Kept(b, z) /\ z.init
      /\ z.state = IF b.tearing THEN "RECONNECTING" ELSE "CONNECTING"
      /\ z.await = b.await
  BY <1>1, <1>3, <1>4, <1>5, RedialGood DEF Placed
<1>7. Settled(z)
  BY <1>1, <1>6 DEF Settled, Wired, Transient
<1>8. Pays(b)
  BY <1>1 DEF Pays
<1> QED BY <1>6, <1>7, <1>8, PaysOn DEF Sound

\* What is owed stays owed, unless TEARDOWN's event is taken back.
LEMMA OwedStill ==
  ASSUME NEW y, Owed(y), NEW z, z.conn = y.conn, z.owes = y.owes, z.told = y.told, y.lost => z.lost,
         Leaves(y) => Leaves(z)
  PROVE  Owed(z)
BY DEF Owed

\* The connect ends.
LEMMA DialStep ==
  ASSUME NEW y, Sound(y), y.sock, y.peer = "dialling", NEW p \in {"open", "refused"}
  PROVE  Sound(Arrives([y EXCEPT !.peer = p]))
<1> DEFINE z == [[y EXCEPT !.peer = p] EXCEPT !.edge = TRUE]
<1>0. Good(y) /\ Settled(y) /\ Owed(y) /\ Fits(y) /\ DOMAIN y = SessionFields
  BY DEF Sound, Good, Fits
<1>1. z = Arrives([y EXCEPT !.peer = p])
  BY DEF Arrives
<1>2. Fits(z) /\ \A f \in SessionFields \ {"peer", "edge"} : z[f] = y[f]
  <2>1. Fits(z)
    BY <1>0 DEF Fits, SessionFields, None
  <2> QED BY <1>0, <2>1 DEF SessionFields
<1> HIDE DEF z
<1>3. /\ z.state = y.state /\ z.pend = y.pend /\ z.await = y.await /\ z.last = y.last /\ z.rx = y.rx
      /\ z.buf = y.buf /\ z.asked = y.asked /\ z.mixed = y.mixed /\ z.tearing = y.tearing
      /\ z.init = y.init /\ z.stunWait = y.stunWait /\ z.alive = y.alive /\ z.mapped = y.mapped /\ z.moved = y.moved
      /\ z.udp = y.udp /\ z.named = y.named /\ z.stun = y.stun /\ z.conn = y.conn /\ z.owes = y.owes
      /\ z.told = y.told /\ z.lost = y.lost
  BY ONLY <1>2 DEF SessionFields
<1>4. Good(z)
  BY <1>0, <1>2, <1>3 DEF Good, Going, Outstanding, Leaving, Stage, Naming, Placed
<1>5. Settled(z)
  BY <1>0, <1>3 DEF Settled, Wired
<1>6. Owed(z)
  BY <1>0, <1>3, OwedStill DEF Leaves
<1> QED BY <1>1, <1>4, <1>5, <1>6 DEF Sound

\* What a server answers is a message that answers the request.
LEMMA AnswersFit ==
  ASSUME NEW ask \in Requests, NEW a \in Answers(ask)
  PROVE  a \in Message /\ a # Media /\ a.to = ask
<1>1. PICK c \in (IF ask = "SETUP" THEN Transports ELSE {"ok"}) \cup {"404"} \cup (IF ask = "ALIVE" THEN {"501"} ELSE {})
           \cup (IF ask \in Redirects THEN {"302"} ELSE {}) \cup (IF ask \in Challenges THEN {"401"} ELSE {}) :
        a = [to |-> ask, code |-> c]
  BY DEF Answers
<1>2. c \in Codes /\ (c = "302" => ask \in Redirects)
  BY <1>1, SessionAssumption DEF Codes
<1>3. a \in [to : Requests, code : Codes] /\ a.to = ask /\ a.code = c
  BY <1>1, <1>2
<1>4. a # Media
  BY <1>3 DEF Media, Requests, None
<1> QED BY <1>2, <1>3, <1>4 DEF Message

\* The server answers.
LEMMA AnswerStep ==
  ASSUME NEW y, Sound(y), y.peer = "open", y.asked # <<>>, NEW a \in Answers(Head(y.asked)), NEW plays,
         NEW z, z = [[y EXCEPT !.asked = Tail(y.asked), !.rx = Append(y.rx, a), !.plays = plays] EXCEPT !.edge = TRUE]
  PROVE  Sound(z)
<1>0. Good(y) /\ Settled(y) /\ Owed(y) /\ Fits(y) /\ DOMAIN y = SessionFields
  BY DEF Sound, Good, Fits
<1>1. y.asked \in Seq(Requests) /\ y.rx \in Seq(Message)
  BY <1>0 DEF Fits
<1>2. Head(y.asked) \in Requests /\ Tail(y.asked) \in Seq(Requests)
  BY <1>1
<1>3. a \in Message /\ a # Media /\ a.to = Head(y.asked)
  BY <1>2, AnswersFit
<1> DEFINE rx == Append(y.rx, a)
           rest == Tail(y.asked)
<1>4. /\ rx \in Seq(Message)
      /\ a.to = y.last /\ Quiet(y.rx) => Single(rx, y.last)
      /\ Belated(y.rx) /\ a.to \in Later => Belated(rx)
  BY <1>1, <1>3, OneMore
<1>5. /\ y.asked = <<y.last>> => rest = <<>> /\ a.to = y.last
      /\ y.asked \in Seq(Later) => rest \in Seq(Later) /\ a.to \in Later
  <2>1. ASSUME y.asked = <<y.last>> PROVE rest = <<>> /\ a.to = y.last
    <3>1. Tail(<<y.last>>) = <<>> /\ Head(<<y.last>>) = y.last
      OBVIOUS
    <3> QED BY <1>3, <2>1, <3>1
  <2>2. ASSUME y.asked \in Seq(Later) PROVE rest \in Seq(Later) /\ a.to \in Later
    <3>1. Tail(y.asked) \in Seq(Later) /\ Head(y.asked) \in Later
      BY <2>2
    <3> QED BY <1>3, <3>1
  <2> QED BY <2>1, <2>2
<1>6. z = [[y EXCEPT !.asked = rest, !.rx = rx, !.plays = plays] EXCEPT !.edge = TRUE] /\ rest \in Seq(Requests)
  BY <1>2
<1> HIDE DEF rx, rest
<1>7. Fits(z) /\ z.asked = rest /\ z.rx = rx /\ z.edge
      /\ \A f \in SessionFields \ {"asked", "rx", "plays", "edge"} : z[f] = y[f]
  <2>1. Fits(z)
    BY ONLY <1>0, <1>4, <1>6, SMTT(60) DEF Fits, SessionFields
  <2> QED BY <1>0, <1>6, <2>1 DEF SessionFields
<1>8. /\ z.state = y.state /\ z.pend = y.pend /\ z.await = y.await /\ z.last = y.last
      /\ z.buf = y.buf /\ z.mixed = y.mixed /\ z.tearing = y.tearing
      /\ z.init = y.init /\ z.stunWait = y.stunWait /\ z.alive = y.alive /\ z.mapped = y.mapped /\ z.moved = y.moved
      /\ z.udp = y.udp /\ z.named = y.named /\ z.stun = y.stun /\ z.conn = y.conn /\ z.owes = y.owes
      /\ z.told = y.told /\ z.lost = y.lost /\ z.sock = y.sock /\ z.peer = y.peer /\ z.out = y.out
      /\ z.age = y.age
  BY ONLY <1>7 DEF SessionFields
<1>9. Outstanding(y) => Outstanding(z)
  <2> SUFFICES ASSUME Outstanding(y) PROVE Outstanding(z)
    OBVIOUS
  <2>1. y.asked = <<y.last>> /\ Quiet(y.buf) /\ Quiet(y.rx) /\ (y.await \/ y.state = "ERROR") /\ y.pend = None
    BY DEF Outstanding
  <2> QED BY <1>4, <1>5, <1>7, <1>8, <2>1 DEF Outstanding
<1>10. Leaving(y) => Leaving(z)
  BY <1>4, <1>5, <1>7, <1>8 DEF Leaving
<1>11. Good(z)
  BY <1>0, <1>7, <1>8, <1>9, <1>10 DEF Good, Going, Stage, Naming, Placed
<1>12. Settled(z)
  BY <1>0, <1>8 DEF Settled, Wired
<1>13. Owed(z)
  <2>1. Leaves(y) => Leaves(z)
    BY <1>7, <1>8 DEF Leaves
  <2> QED BY <1>0, <1>8, <2>1, OwedStill
<1> QED BY <1>11, <1>12, <1>13 DEF Sound

\* The server sends media on the control connection.
LEMMA MediaStep ==
  ASSUME NEW y, Sound(y), NEW z, z = [[y EXCEPT !.rx = Append(y.rx, Media)] EXCEPT !.edge = TRUE], y.init
  PROVE  Sound(z)
<1>0. Good(y) /\ Settled(y) /\ Owed(y) /\ Fits(y) /\ DOMAIN y = SessionFields
  BY DEF Sound, Good, Fits
<1>1. y.rx \in Seq(Message) /\ Media \in Message
  BY <1>0 DEF Fits, Message
<1> DEFINE rx == Append(y.rx, Media)
<1>2. /\ rx \in Seq(Message)
      /\ Quiet(y.rx) => Quiet(rx)
      /\ Single(y.rx, y.last) => Single(rx, y.last)
      /\ Belated(y.rx) => Belated(rx)
  BY <1>1, OneMore
<1>3. z = [[y EXCEPT !.rx = rx] EXCEPT !.edge = TRUE]
  OBVIOUS
<1> HIDE DEF rx
<1>4. Fits(z) /\ z.rx = rx /\ z.edge /\ \A f \in SessionFields \ {"rx", "edge"} : z[f] = y[f]
  <2>1. Fits(z)
    BY ONLY <1>0, <1>2, <1>3, SMTT(60) DEF Fits, SessionFields
  <2> QED BY <1>0, <1>3, <2>1 DEF SessionFields
<1>5. /\ z.state = y.state /\ z.pend = y.pend /\ z.await = y.await /\ z.last = y.last
      /\ z.buf = y.buf /\ z.mixed = y.mixed /\ z.tearing = y.tearing /\ z.asked = y.asked
      /\ z.init = y.init /\ z.stunWait = y.stunWait /\ z.alive = y.alive /\ z.mapped = y.mapped /\ z.moved = y.moved
      /\ z.udp = y.udp /\ z.named = y.named /\ z.stun = y.stun /\ z.conn = y.conn /\ z.owes = y.owes
      /\ z.told = y.told /\ z.lost = y.lost /\ z.sock = y.sock /\ z.peer = y.peer /\ z.out = y.out
      /\ z.age = y.age
  BY ONLY <1>4 DEF SessionFields
<1>6. (Outstanding(y) => Outstanding(z)) /\ (Leaving(y) => Leaving(z))
  BY <1>2, <1>4, <1>5 DEF Outstanding, Leaving
<1>7. Good(z)
  BY <1>0, <1>4, <1>5, <1>6 DEF Good, Going, Stage, Naming, Placed
<1>8. Settled(z)
  BY <1>0, <1>5 DEF Settled, Wired
<1>9. Owed(z)
  <2>1. Leaves(y) => Leaves(z)
    BY <1>4, <1>5 DEF Leaves
  <2> QED BY <1>0, <1>5, <2>1, OwedStill
<1> QED BY <1>7, <1>8, <1>9 DEF Sound

\* The server sends media to the UDP sockets.
LEMMA DatagramStep ==
  ASSUME NEW y, Sound(y), NEW z, z = [y EXCEPT !.media = TRUE]
  PROVE  Sound(z)
<1>0. Good(y) /\ Settled(y) /\ Owed(y) /\ Fits(y) /\ DOMAIN y = SessionFields
  BY DEF Sound, Good, Fits
<1>1. Fits(z) /\ \A f \in SessionFields \ {"media"} : z[f] = y[f]
  <2>1. Fits(z)
    BY <1>0 DEF Fits, SessionFields
  <2> QED BY <1>0, <2>1 DEF SessionFields
<1>2. /\ z.state = y.state /\ z.pend = y.pend /\ z.await = y.await /\ z.tearing = y.tearing
      /\ z.init = y.init /\ z.conn = y.conn /\ z.owes = y.owes /\ z.told = y.told /\ z.lost = y.lost
      /\ z.sock = y.sock /\ z.peer = y.peer /\ z.out = y.out /\ z.edge = y.edge /\ z.age = y.age
  BY ONLY <1>1 DEF SessionFields
<1>3. Good(z)
  <2>1. \A f \in SessionFields \ {"out", "edge", "cands", "paused", "media", "closed"} : z[f] = y[f]
    BY ONLY <1>1
  <2> QED BY ONLY <1>0, <1>1, <2>1, EdgeGood
<1>4. Settled(z)
  BY <1>0, <1>2 DEF Settled, Wired
<1>5. Owed(z)
  BY <1>0, <1>2, OwedStill DEF Leaves
<1> QED BY <1>3, <1>4, <1>5 DEF Sound

\* The server's end of the connection ends.
LEMMA EndStep ==
  ASSUME NEW y, Sound(y), y.sock, y.peer \in {"open", "eof"}, NEW z,
         \/ z = [[y EXCEPT !.peer = "eof", !.asked = <<>>, !.lost = TRUE] EXCEPT !.edge = TRUE]
         \/ z = [[y EXCEPT !.peer = "reset", !.rx = <<>>, !.asked = <<>>, !.lost = TRUE] EXCEPT !.edge = TRUE]
  PROVE  Sound(z)
<1>0. Good(y) /\ Settled(y) /\ Owed(y) /\ Fits(y) /\ DOMAIN y = SessionFields
  BY DEF Sound, Good, Fits
<1>1. Quiet(<<>>) /\ Belated(<<>>) /\ <<>> \in Seq(Later) /\ <<>> \in Seq(Message) /\ <<>> \in Seq(Requests)
  BY DEF Quiet, Belated
<1>2. /\ Fits(z) /\ z.rx \in {y.rx, <<>>} /\ z.asked = <<>> /\ z.lost /\ z.peer \in {"eof", "reset"}
      /\ \A f \in SessionFields \ {"peer", "rx", "asked", "lost", "edge"} : z[f] = y[f]
  <2>1. CASE z = [[y EXCEPT !.peer = "eof", !.asked = <<>>, !.lost = TRUE] EXCEPT !.edge = TRUE]
    <3>1. Fits(z)
      BY ONLY <1>0, <1>1, <2>1, y.sock DEF Fits, SessionFields, None
    <3> QED BY ONLY <1>0, <2>1, <3>1 DEF SessionFields
  <2>2. CASE z = [[y EXCEPT !.peer = "reset", !.rx = <<>>, !.asked = <<>>, !.lost = TRUE] EXCEPT !.edge = TRUE]
    <3>1. Fits(z)
      BY ONLY <1>0, <1>1, <2>2, y.sock DEF Fits, SessionFields, None
    <3> QED BY ONLY <1>0, <2>2, <3>1 DEF SessionFields
  <2> QED BY <2>1, <2>2
<1>3. (Quiet(y.rx) => Quiet(z.rx)) /\ (Belated(y.rx) => Belated(z.rx)) /\ (z.rx = y.rx \/ Quiet(z.rx))
  BY ONLY <1>1, <1>2
<1>4. /\ z.state = y.state /\ z.pend = y.pend /\ z.await = y.await /\ z.last = y.last
      /\ z.buf = y.buf /\ z.mixed = y.mixed /\ z.tearing = y.tearing
      /\ z.init = y.init /\ z.stunWait = y.stunWait /\ z.alive = y.alive /\ z.mapped = y.mapped /\ z.moved = y.moved
      /\ z.udp = y.udp /\ z.named = y.named /\ z.stun = y.stun /\ z.conn = y.conn /\ z.owes = y.owes
      /\ z.told = y.told /\ z.sock = y.sock
  BY ONLY <1>2 DEF SessionFields
<1>5. Outstanding(y) => Outstanding(z)
  BY <1>1, <1>2, <1>3, <1>4 DEF Outstanding
<1>6. Leaving(y) => Leaving(z)
  BY <1>1, <1>2, <1>3, <1>4 DEF Leaving
<1>7. Good(z)
  BY <1>0, <1>2, <1>4, <1>5, <1>6 DEF Good, Going, Stage, Naming, Placed
<1>8. Settled(z)
  BY <1>0, <1>2, <1>4 DEF Settled, Wired
<1>9. Owed(z)
  BY <1>0, <1>2, <1>4 DEF Owed
<1> QED BY <1>7, <1>8, <1>9 DEF Sound

\* The STUN server answers.
LEMMA StunStep ==
  ASSUME NEW x, Sound(x), x.init, x.udp # 0, x.stun = "asked"
  PROVE  LET y == [x EXCEPT !.stun = "done", !.mapped = x.udp]
         IN  Sound(IF y.stunWait THEN Mod(Advance(y), TRUE) ELSE y)
<1> DEFINE y == [x EXCEPT !.stun = "done", !.mapped = x.udp]
<1>0. Good(x) /\ Settled(x) /\ Owed(x) /\ Fits(x) /\ DOMAIN x = SessionFields
  BY DEF Sound, Good, Fits
<1>1. Fits(y) /\ y.mapped = x.udp /\ y.stun = "done" /\ \A f \in SessionFields \ {"stun", "mapped"} : y[f] = x[f]
  <2>1. x.udp \in 0..x.opened
    BY <1>0 DEF Fits
  <2>2. Fits(y)
    BY <1>0, <2>1 DEF Fits, SessionFields
  <2> QED BY <1>0, <2>2 DEF SessionFields
<1> HIDE DEF y
<1>2. /\ y.state = x.state /\ y.pend = x.pend /\ y.await = x.await /\ y.last = x.last /\ y.rx = x.rx
      /\ y.buf = x.buf /\ y.asked = x.asked /\ y.mixed = x.mixed /\ y.tearing = x.tearing
      /\ y.init = x.init /\ y.stunWait = x.stunWait /\ y.alive = x.alive
      /\ y.udp = x.udp /\ y.named = x.named /\ y.conn = x.conn /\ y.owes = x.owes
      /\ y.told = x.told /\ y.lost = x.lost /\ y.sock = x.sock /\ y.peer = x.peer /\ y.out = x.out
      /\ y.edge = x.edge /\ y.age = x.age
  BY ONLY <1>1 DEF SessionFields
<1>3. Naming(y)
  BY <1>0, <1>1, <1>2 DEF Good, Going, Naming, Placed
<1>4. Good(y) /\ Kept(x, y)
  <2>1. Kept(x, y)
    BY <1>2, KeptStill
  <2>2. (Outstanding(x) => Outstanding(y)) /\ (Leaving(x) => Leaving(y))
    BY <1>2 DEF Outstanding, Leaving
  <2>3. Stage(x) => Stage(y)
    BY <1>2 DEF Stage
  <2> QED BY <1>0, <1>1, <1>2, <1>3, <2>1, <2>2, <2>3 DEF Good, Going
<1>5. Settled(y)
  BY <1>0, <1>2 DEF Settled, Wired
<1>6. CASE y.stunWait
  <2>1. ~Leaves(x)
    BY <1>0, <1>2, <1>6 DEF Good, Going, Stage, Leaves
  <2>2. Pays(y)
    BY <1>0, <1>4, <2>1, Repays, PaysOn
  <2> QED BY <1>2, <1>4, <1>5, <1>6, <2>2, GoesOn DEF y
<1>7. CASE ~y.stunWait
  <2>1. Owed(y)
    BY <1>0, <1>2, OwedStill DEF Leaves
  <2> QED BY <1>4, <1>5, <1>7, <2>1 DEF Sound, y
<1> QED BY <1>6, <1>7

(***************************************************************************)
(* The invariant                                                           *)
(***************************************************************************)
\* The inductive invariant gives the types.
LEMMA SoundTypes == Sound(rtsp) => SessionTypes
<1> SUFFICES ASSUME Sound(rtsp) PROVE SessionTypes
  OBVIOUS
<1>1. Fits(rtsp)
  BY DEF Sound, Good
<1> DEFINE Wide == [to : Requests \cup {None}, code : Codes \cup {"media"}]
<1>2. Message \subseteq Wide
  BY DEF Message, Media
<1> HIDE DEF Wide
<1>3. rtsp.rx \in Seq(Wide)
  <2>1. rtsp.rx \in Seq(Message)
    BY <1>1 DEF Fits
  <2> QED BY <1>2, <2>1
<1> QED BY <1>1, <1>3 DEF Fits, SessionTypes, Wide

\* What is outstanding is one request at most.
LEMMA AtMostOne ==
  ASSUME NEW s \in Seq(Message), NEW ask
  PROVE  /\ Quiet(s) => Cardinality(AnswersIn(s)) = 0
         /\ Single(s, ask) => Cardinality(AnswersIn(s)) = 1
<1>1. ASSUME Quiet(s) PROVE Cardinality(AnswersIn(s)) = 0
  <2>1. AnswersIn(s) = {}
    BY <1>1, NothingRead
  <2> QED BY <2>1, FS_EmptySet
<1>2. ASSUME Single(s, ask) PROVE Cardinality(AnswersIn(s)) = 1
  <2>1. PICK i \in 1..Len(s) : s[i] # Media /\ \A j \in 1..Len(s) : j # i => s[j] = Media
    BY <1>2 DEF Single
  <2>2. AnswersIn(s) = {i}
    BY <2>1 DEF AnswersIn
  <2> QED BY <2>2, FS_Singleton
<1> QED BY <1>1, <1>2

\* The inductive invariant gives one request at a time.
LEMMA SoundRequests == Sound(rtsp) => OneRequest
<1> SUFFICES ASSUME Sound(rtsp), ~rtsp.tearing, rtsp.init
             PROVE  /\ ~rtsp.mixed
                    /\ ~(rtsp.await /\ rtsp.pend # None)
                    /\ Len(rtsp.asked) + Cardinality(AnswersIn(rtsp.rx)) <= 1
  BY DEF OneRequest, AnswersIn
<1>1. Outstanding(rtsp) /\ rtsp.rx \in Seq(Message)
  BY DEF Sound, Good, Going, Fits
<1>2. /\ Quiet(rtsp.rx) => Cardinality(AnswersIn(rtsp.rx)) = 0
      /\ Single(rtsp.rx, rtsp.last) => Cardinality(AnswersIn(rtsp.rx)) = 1
  BY <1>1, AtMostOne
<1>3. Len(<<>>) = 0 /\ Len(<<rtsp.last>>) = 1
  OBVIOUS
<1>4. \/ rtsp.asked = <<>> /\ (Quiet(rtsp.rx) \/ Single(rtsp.rx, rtsp.last))
      \/ rtsp.asked = <<rtsp.last>> /\ Quiet(rtsp.rx)
  BY <1>1 DEF Outstanding
<1>5. Len(rtsp.asked) + Cardinality(AnswersIn(rtsp.rx)) <= 1
  <2>1. CASE rtsp.asked = <<>> /\ (Quiet(rtsp.rx) \/ Single(rtsp.rx, rtsp.last))
    <3>1. Len(rtsp.asked) = 0 /\ Cardinality(AnswersIn(rtsp.rx)) \in {0, 1}
      BY ONLY <1>2, <1>3, <2>1
    <3> QED BY ONLY <3>1
  <2>2. CASE rtsp.asked = <<rtsp.last>> /\ Quiet(rtsp.rx)
    <3>1. Len(rtsp.asked) = 1 /\ Cardinality(AnswersIn(rtsp.rx)) = 0
      BY ONLY <1>2, <1>3, <2>2
    <3> QED BY ONLY <3>1
  <2> QED BY <1>4, <2>1, <2>2
<1> QED BY <1>1, <1>5 DEF Outstanding

\* The inductive invariant gives the session's.
LEMMA SoundSession == Sound(rtsp) => SessionInv
<1> SUFFICES ASSUME Sound(rtsp) PROVE SessionInv
  OBVIOUS
<1>1. OneEndpoint
  <2> SUFFICES ASSUME rtsp.state \in {"SENDING_SETUP", "AWAITING_SETUP"}
               PROVE  rtsp.named = rtsp.mapped /\ Placed(rtsp)
    BY DEF OneEndpoint, Placed
  <2>1. rtsp.init
    BY DEF Sound, Settled
  <2>2. Naming(rtsp)
    BY <2>1 DEF Sound, Good, Going
  <2> QED BY <2>2 DEF Naming, EarlyStates
<1>2. Told
  BY DEF Told, Sound, Owed
<1> QED BY <1>1, <1>2, SoundTypes, SoundRequests DEF SessionInv

\* Every step keeps the inductive invariant.
LEMMA SoundStep ==
  ASSUME EarlyRedirects, Sound(rtsp), RtspNext
  PROVE  Sound(rtsp')
<1>1. CASE ControlEvent
  <2>1. Ready(rtsp) /\ rtsp.init
    BY <1>1 DEF ControlEvent
  <2>2. PICK r \in HandleEvent([rtsp EXCEPT !.edge = FALSE]) :
          CASE r.ret = "ok" -> rtsp' = r.y
            [] r.ret = "close" -> rtsp' \in Failed(r.y)
            [] r.ret = "duration" -> rtsp' = Drained(r.y)
            [] r.ret = "head" -> rtsp' \in {Drained(c) : c \in SessionCleanup(r.y)}
    BY <1>1, Zenon DEF ControlEvent
  <2>3. /\ r.ret = "ok" => rtsp' = r.y
        /\ r.ret = "close" => rtsp' \in Failed(r.y)
        /\ r.ret = "duration" => rtsp' = Drained(r.y)
        /\ r.ret = "head" => rtsp' \in {Drained(c) : c \in SessionCleanup(r.y)}
    BY ONLY <2>2
  <2> QED BY <2>1, <2>3, EventStep
<1>2. CASE Tick
  BY <1>2, TickStep DEF Tick
<1>3. CASE ClientEnds
  BY <1>3, ClientStep DEF ClientEnds
<1>4. CASE Resume
  BY <1>4, ResumeStep DEF Resume
<1>5. CASE DialEnds
  BY <1>5, DialStep DEF DialEnds
<1>6. CASE ServerAnswers
  <2>1. PICK a \in Answers(Head(rtsp.asked)) :
          rtsp' = Arrives([rtsp EXCEPT !.asked = Tail(@), !.rx = Append(@, a),
                                       !.plays = @ \/ a = [to |-> "PLAY", code |-> "ok"]])
    BY <1>6 DEF ServerAnswers
  <2> DEFINE plays == rtsp.plays \/ a = [to |-> "PLAY", code |-> "ok"]
  <2>2. rtsp' = [[rtsp EXCEPT !.asked = Tail(rtsp.asked), !.rx = Append(rtsp.rx, a), !.plays = plays]
                   EXCEPT !.edge = TRUE]
    BY <2>1 DEF Arrives
  <2> HIDE DEF plays
  <2>3. rtsp.peer = "open" /\ rtsp.asked # <<>>
    BY <1>6 DEF ServerAnswers
  <2> QED BY <2>2, <2>3, AnswerStep
<1>7. CASE ServerSends
  <2>1. \/ rtsp' = [[rtsp EXCEPT !.rx = Append(rtsp.rx, Media)] EXCEPT !.edge = TRUE]
        \/ rtsp' = [rtsp EXCEPT !.media = TRUE]
    BY <1>7 DEF ServerSends, Arrives
  <2>2. rtsp.init
    BY <1>7 DEF ServerSends
  <2> QED BY <2>1, <2>2, MediaStep, DatagramStep
<1>8. CASE PeerEnds
  <2>1. /\ rtsp.sock /\ rtsp.peer \in {"open", "eof"}
        /\ \/ rtsp' = [[rtsp EXCEPT !.peer = "eof", !.asked = <<>>, !.lost = TRUE] EXCEPT !.edge = TRUE]
           \/ rtsp' = [[rtsp EXCEPT !.peer = "reset", !.rx = <<>>, !.asked = <<>>, !.lost = TRUE]
                         EXCEPT !.edge = TRUE]
    BY <1>8 DEF PeerEnds, Arrives
  <2> QED BY <2>1, EndStep
<1>9. CASE StunAnswers
  BY <1>9, StunStep DEF StunAnswers
<1> QED BY <1>1, <1>2, <1>3, <1>4, <1>5, <1>6, <1>7, <1>8, <1>9 DEF RtspNext

\* Of every RTSP session, whatever the server and the client do: one request
\* is outstanding at a time and each answer is taken for its own request, SETUP
\* names the endpoint that DESCRIBE named, and a server that a client left while
\* it played was sent TEARDOWN, if only requests that name no session are
\* redirected (src/rtsp.c).
THEOREM SessionInvariant == ASSUME EarlyRedirects PROVE RtspSpec => []SessionInv
<1>1. RtspInit => Sound(rtsp)
  BY FirstStep DEF RtspInit
<1>2. Sound(rtsp) /\ [RtspNext]_rtsp => Sound(rtsp')
  BY SoundStep
<1>3. Sound(rtsp) => SessionInv
  BY SoundSession
<1>4. Sound(rtsp)' <=> Sound(rtsp')
  OBVIOUS
<1> QED BY <1>1, <1>2, <1>3, <1>4, PTL DEF RtspSpec
=============================================================================
