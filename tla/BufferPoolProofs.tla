-------------------------- MODULE BufferPoolProofs --------------------------
(***************************************************************************)
(* Machine-checked proofs about BufferPool, for every size of the pool and *)
(* every number of users, and about the relay that keeps its buffers in a  *)
(* queue (ProxyRelay), for every size of buffers, body and socket.         *)
(***************************************************************************)
EXTENDS BufferPool, ProxyRelay, FiniteSetTheorems, SequenceTheorems, WellFoundedInduction, TLAPS

\* Every set of buffers or views is finite.
LEMMA Finite ==
  /\ \A S \in SUBSET Buffer : IsFiniteSet(S) /\ Cardinality(S) \in Nat
  /\ \A S \in SUBSET View : IsFiniteSet(S) /\ Cardinality(S) \in Nat
BY PoolAssumption, FS_Subset, FS_CardinalityType

\* Counting an element in or out.
LEMMA AddOne ==
  ASSUME NEW S, NEW x, IsFiniteSet(S)
  PROVE  /\ x \notin S => Cardinality(S \cup {x}) = Cardinality(S) + 1
         /\ x \in S => Cardinality(S \ {x}) = Cardinality(S) - 1
BY FS_AddElement, FS_RemoveElement

\* Initially one segment, wholly free.
LEMMA InitIInv == PoolInit => IInv
<1> SUFFICES ASSUME PoolInit PROVE IInv
  OBVIOUS
<1>1. PICK S \in SUBSET Buffer : /\ Cardinality(S) = MinBuffers
                                 /\ segments = {S} /\ newer = {} /\ free = S
                                 /\ segFree = [s \in {S} |-> MinBuffers]
  BY DEF PoolInit
<1>2. S # {} /\ IsFiniteSet(S)
  BY <1>1, Finite, FS_EmptySet, PoolAssumption
<1>3. PoolTypeOK
  BY <1>1, PoolAssumption DEF PoolInit, PoolTypeOK
<1>4. SegmentsDisjoint /\ NewerIsOrder
  BY <1>1, <1>2 DEF SegmentsDisjoint, NewerIsOrder
<1>5. Pooled = S
  BY <1>1 DEF Pooled
<1>6. ViewsHeld /\ SnapshotInUse
  BY PoolAssumption DEF PoolInit, ViewsHeld, SnapshotInUse
<1>7. RefsExact
  <2> SUFFICES ASSUME NEW b \in Buffer PROVE refs[b] = held[b] + Cardinality(Viewers(b))
    BY DEF RefsExact
  <2>1. Viewers(b) = {}
    BY PoolAssumption DEF PoolInit, Viewers
  <2> QED BY <2>1, FS_EmptySet DEF PoolInit
<1>8. FreeExactlyUnused /\ UsedIsPooled
  BY <1>1, <1>5, PoolAssumption DEF PoolInit, FreeExactlyUnused, UsedIsPooled, Live
<1>9. CountersExact
  <2>1. S \cap free = S
    BY <1>1
  <2> QED BY <1>1, <1>5, <2>1 DEF PoolInit, CountersExact
<1>10. PoolBounded
  BY PoolAssumption DEF PoolInit, PoolBounded
<1> QED BY <1>3, <1>4, <1>6, <1>7, <1>8, <1>9, <1>10 DEF IInv

\* Reading a part of the invariant that talks about one buffer.
LEMMA CountViewers ==
  ASSUME IInv, NEW b \in Buffer
  PROVE  /\ Viewers(b) \subseteq View /\ IsFiniteSet(Viewers(b))
         /\ Cardinality(Viewers(b)) \in Nat
         /\ refs[b] = held[b] + Cardinality(Viewers(b))
         /\ held[b] \in Nat
         /\ Cardinality(Viewers(b)) = 0 <=> Viewers(b) = {}
<1>1. Viewers(b) \in SUBSET View
  BY DEF Viewers
<1>2. IsFiniteSet(Viewers(b)) /\ Cardinality(Viewers(b)) \in Nat
  BY <1>1, Finite
<1>3. refs[b] = held[b] + Cardinality(Viewers(b)) /\ held[b] \in Nat
  BY DEF IInv, RefsExact, PoolTypeOK
<1> QED BY <1>1, <1>2, <1>3, FS_EmptySet

\* Another reference to something already referred to.
LEMMA GetIInv == ASSUME IInv, NEW x \in Buffer \cup View, Get(x) PROVE IInv'
<1> USE PoolAssumption
<1>1. PoolTypeOK'
  BY DEF IInv, PoolTypeOK, Get
<1>2. SegmentsDisjoint' /\ NewerIsOrder' /\ CountersExact' /\ PoolBounded'
  BY DEF IInv, SegmentsDisjoint, NewerIsOrder, CountersExact, PoolBounded, Get, Pooled
<1>3. ViewsHeld'
  BY DEF IInv, PoolTypeOK, ViewsHeld, Get
<1>4. RefsExact'
  <2>1. \A b \in Buffer : Viewers(b)' = Viewers(b)
    BY DEF Viewers, Get
  <2> QED BY <2>1, CountViewers DEF IInv, PoolTypeOK, RefsExact, Get
<1>5. \A b \in Buffer : refs'[b] # refs[b] => refs[b] > 0 /\ refs'[b] > 0
  BY CountViewers DEF IInv, PoolTypeOK, Get
<1>6. FreeExactlyUnused' /\ UsedIsPooled' /\ SnapshotInUse'
  <2>1. \A b \in Buffer : refs[b] \in Nat /\ refs'[b] \in Nat /\ (refs[b] = 0 <=> refs'[b] = 0)
    BY <1>1, <1>5 DEF IInv, PoolTypeOK
  <2> QED
    BY <2>1 DEF IInv, PoolTypeOK, FreeExactlyUnused, UsedIsPooled, SnapshotInUse, Get, Pooled, Live
<1> QED BY <1>1, <1>2, <1>3, <1>4, <1>6 DEF IInv

\* Publishing a snapshot of a buffer in use.
LEMMA SnapshotIInv == ASSUME IInv, NEW b \in Buffer, Snapshot(b) PROVE IInv'
<1>1. refs[b] > 0
  BY CountViewers DEF Snapshot, IInv, PoolTypeOK
<1>2. SnapshotInUse'
  BY <1>1 DEF IInv, SnapshotInUse, Snapshot
<1> QED
  BY <1>2 DEF IInv, PoolTypeOK, SegmentsDisjoint, NewerIsOrder, ViewsHeld, RefsExact, FreeExactlyUnused,
       UsedIsPooled, CountersExact, PoolBounded, Snapshot, Pooled, Live, Viewers

\* The segment of a pooled buffer.
LEMMA SegmentOfPooled ==
  ASSUME IInv, NEW b \in Pooled
  PROVE  /\ SegmentOf(b) \in segments /\ b \in SegmentOf(b)
         /\ \A s \in segments : b \in s <=> s = SegmentOf(b)
BY DEF IInv, SegmentsDisjoint, SegmentOf, Pooled

\* Dropping a reference of a buffer keeps the lists, the counters and the
\* snapshots right, whoever dropped it.
LEMMA PutBufferKeeps ==
  ASSUME IInv, NEW b \in Buffer, refs[b] > 0, PutBuffer(b)
  PROVE  /\ SegmentsDisjoint' /\ NewerIsOrder' /\ FreeExactlyUnused' /\ CountersExact'
         /\ PoolBounded' /\ SnapshotInUse'
         /\ segments' = segments /\ newer' = newer /\ numBuffers' = numBuffers
         /\ segFree' \in [segments -> Nat] /\ free' \subseteq Buffer /\ snapshot' \subseteq Buffer
         /\ numFree' \in Nat /\ refs' = [refs EXCEPT ![b] = @ - 1] /\ refs' \in [Buffer -> Nat]
<1>1. b \in Pooled /\ b \notin free
  BY DEF IInv, UsedIsPooled, FreeExactlyUnused
<1>2. refs' \in [Buffer -> Nat]
  BY DEF IInv, PoolTypeOK, PutBuffer
<1>3. segments' = segments /\ newer' = newer /\ numBuffers' = numBuffers /\ Pooled' = Pooled
  BY DEF PutBuffer, Pooled
<1>4. SegmentsDisjoint' /\ NewerIsOrder' /\ PoolBounded'
  BY <1>3 DEF IInv, SegmentsDisjoint, NewerIsOrder, PoolBounded
<1>5. CASE refs[b] > 1
  <2>1. UNCHANGED <<snapshot, segFree, free, numFree>>
    BY <1>5 DEF PutBuffer
  <2>2. CountersExact'
    BY <1>3, <2>1 DEF IInv, CountersExact
  <2>3. FreeExactlyUnused' /\ SnapshotInUse'
    BY <1>3, <1>5, <2>1 DEF IInv, PoolTypeOK, FreeExactlyUnused, SnapshotInUse, PutBuffer
  <2> QED BY <1>2, <1>3, <1>4, <2>1, <2>2, <2>3 DEF IInv, PoolTypeOK, PutBuffer
<1>6. CASE ~(refs[b] > 1)
  <2>1. /\ refs[b] = 1 /\ snapshot' = snapshot \ {b} /\ free' = free \cup {b}
        /\ numFree' = numFree + 1
        /\ segFree' = [segFree EXCEPT ![SegmentOf(b)] = @ + 1]
    BY <1>6 DEF PutBuffer, IInv, PoolTypeOK
  <2>2. FreeExactlyUnused' /\ SnapshotInUse'
    BY <1>1, <1>3, <2>1 DEF IInv, PoolTypeOK, FreeExactlyUnused, SnapshotInUse, PutBuffer
  <2>3. segFree' \in [segments -> Nat]
    BY <2>1, <1>1, SegmentOfPooled DEF IInv, PoolTypeOK
  <2>4. numFree' = Cardinality(free')
    BY <2>1, <1>1, AddOne, Finite DEF IInv, PoolTypeOK, CountersExact
  <2>5. ASSUME NEW s \in segments PROVE segFree'[s] = Cardinality(s \cap free')
    <3>1. IsFiniteSet(s \cap free)
      BY Finite DEF IInv, PoolTypeOK
    <3>2. CASE b \in s
      <4>1. s \cap free' = (s \cap free) \cup {b} /\ b \notin s \cap free
        BY <3>2, <2>1, <1>1
      <4>2. Cardinality(s \cap free') = Cardinality(s \cap free) + 1
        BY <4>1, <3>1, AddOne
      <4>3. s = SegmentOf(b)
        BY <3>2, <1>1, SegmentOfPooled
      <4>4. segFree[s] = Cardinality(s \cap free)
        BY DEF IInv, CountersExact
      <4> QED BY <4>2, <4>3, <4>4, <2>1 DEF IInv, PoolTypeOK
    <3>3. CASE b \notin s
      <4>1. s \cap free' = s \cap free
        BY <3>3, <2>1
      <4> QED BY <4>1, <3>3, SegmentOfPooled, <1>1, <2>1 DEF IInv, PoolTypeOK, CountersExact
    <3> QED BY <3>2, <3>3
  <2>6. CountersExact'
    BY <1>3, <2>4, <2>5 DEF IInv, CountersExact
  <2> QED BY <1>2, <1>3, <1>4, <2>1, <2>2, <2>3, <2>6 DEF IInv, PoolTypeOK, PutBuffer
<1> QED BY <1>5, <1>6

\* A user drops its reference of a buffer.
LEMMA PutBufferIInv == ASSUME IInv, NEW x \in Buffer, Put(x) PROVE IInv'
<1> USE PoolAssumption
<1>1. PutBuffer(x) /\ UNCHANGED <<owner, viewRefs>> /\ held' = [held EXCEPT ![x] = @ - 1]
  BY DEF Put
<1>2. held[x] > 0 /\ refs[x] > 0
  BY CountViewers DEF Put, IInv, PoolTypeOK
<1>3. /\ SegmentsDisjoint' /\ NewerIsOrder' /\ FreeExactlyUnused' /\ CountersExact'
      /\ PoolBounded' /\ SnapshotInUse'
  BY <1>1, <1>2, PutBufferKeeps
<1>4. PoolTypeOK'
  BY <1>1, <1>2, PutBufferKeeps DEF IInv, PoolTypeOK
<1>5. ViewsHeld'
  BY <1>1 DEF IInv, PoolTypeOK, ViewsHeld
<1>6. RefsExact'
  <2> SUFFICES ASSUME NEW b \in Buffer PROVE refs'[b] = held'[b] + Cardinality(Viewers(b)')
    BY DEF RefsExact
  <2>1. Viewers(b)' = Viewers(b)
    BY <1>1 DEF Viewers
  <2> QED BY <2>1, <1>1, <1>2, CountViewers, PutBufferKeeps DEF IInv, PoolTypeOK
<1>7. UsedIsPooled'
  <2>1. Pooled' = Pooled /\ Live' = Live
    BY <1>1, <1>2, PutBufferKeeps DEF Pooled, Live
  <2> QED BY <2>1, <1>1, <1>2, PutBufferKeeps DEF IInv, PoolTypeOK, UsedIsPooled
<1> QED BY <1>3, <1>4, <1>5, <1>6, <1>7 DEF IInv

\* A view somebody holds shares a buffer.
LEMMA HeldView ==
  ASSUME IInv, NEW x \in View, held[x] > 0
  PROVE  viewRefs[x] = held[x] /\ owner[x] \in Buffer
<1>1. viewRefs[x] = held[x] /\ (owner[x] = NoBuffer <=> viewRefs[x] = 0)
  BY DEF IInv, ViewsHeld
<1>2. owner[x] \in Buffer \cup {NoBuffer} /\ held[x] \in Nat
  BY DEF IInv, PoolTypeOK
<1> QED BY <1>1, <1>2

\* A user drops a view; the last reference drops the buffer underneath.
LEMMA PutViewIInv == ASSUME IInv, NEW x \in View, Put(x) PROVE IInv'
<1> USE PoolAssumption
<1>1. /\ held[x] > 0 /\ held' = [held EXCEPT ![x] = @ - 1]
      /\ viewRefs' = [viewRefs EXCEPT ![x] = @ - 1] /\ PutView(x) /\ x \notin Buffer
  BY DEF Put, PutView
<1>2. viewRefs[x] = held[x] /\ owner[x] \in Buffer
  BY <1>1, HeldView
<1>3. CASE viewRefs[x] > 1
  <2>1. UNCHANGED <<segments, newer, segFree, free, numBuffers, numFree, refs, owner, snapshot>>
    BY <1>1, <1>3 DEF PutView
  <2>2. PoolTypeOK' /\ ViewsHeld'
    BY <2>1, <1>1, <1>2, <1>3 DEF IInv, PoolTypeOK, ViewsHeld
  <2>3. RefsExact'
    BY <2>1, <1>1 DEF IInv, PoolTypeOK, RefsExact, Viewers
  <2> QED
    BY <2>1, <2>2, <2>3 DEF IInv, SegmentsDisjoint, NewerIsOrder, FreeExactlyUnused, UsedIsPooled,
         CountersExact, PoolBounded, SnapshotInUse, Pooled, Live
<1>4. CASE ~(viewRefs[x] > 1)
  <2> DEFINE c == owner[x]
  <2>1. viewRefs[x] = 1 /\ owner' = [owner EXCEPT ![x] = NoBuffer] /\ PutBuffer(c)
    BY <1>1, <1>2, <1>4 DEF PutView, IInv, PoolTypeOK
  <2>2. x \in Viewers(c) /\ refs[c] > 0
    <3>1. x \in Viewers(c)
      BY DEF Viewers
    <3> QED BY <3>1, <1>2, CountViewers
  <2>3. /\ SegmentsDisjoint' /\ NewerIsOrder' /\ FreeExactlyUnused' /\ CountersExact'
        /\ PoolBounded' /\ SnapshotInUse'
    BY <1>2, <2>1, <2>2, PutBufferKeeps
  <2>4. PoolTypeOK' /\ ViewsHeld'
    <3>1. /\ segments' = segments /\ newer' = newer /\ numBuffers' = numBuffers
          /\ segFree' \in [segments -> Nat] /\ free' \subseteq Buffer /\ snapshot' \subseteq Buffer
          /\ numFree' \in Nat /\ refs' \in [Buffer -> Nat]
      BY <1>2, <2>1, <2>2, PutBufferKeeps
    <3> QED BY <3>1, <1>1, <1>2, <2>1 DEF IInv, PoolTypeOK, ViewsHeld
  <2>5. RefsExact'
    <3> SUFFICES ASSUME NEW b \in Buffer PROVE refs'[b] = held'[b] + Cardinality(Viewers(b)')
      BY DEF RefsExact
    <3>1. held'[b] = held[b]
      BY <1>1 DEF IInv, PoolTypeOK
    <3>2. refs' = [refs EXCEPT ![c] = @ - 1]
      BY <1>2, <2>1, <2>2, PutBufferKeeps
    <3>3. CASE b = c
      <4>1. Viewers(b)' = Viewers(b) \ {x}
        BY <3>3, <2>1, <1>2 DEF Viewers, IInv, PoolTypeOK
      <4>2. Cardinality(Viewers(b)') = Cardinality(Viewers(b)) - 1
        BY <4>1, <3>3, <2>2, CountViewers, AddOne
      <4> QED BY <4>2, <3>1, <3>2, <3>3, CountViewers DEF IInv, PoolTypeOK
    <3>4. CASE b # c
      <4>1. Viewers(b)' = Viewers(b)
        BY <3>4, <2>1, <1>2 DEF Viewers, IInv, PoolTypeOK
      <4> QED BY <4>1, <3>1, <3>2, <3>4, CountViewers DEF IInv, PoolTypeOK
    <3> QED BY <3>3, <3>4
  <2>6. UsedIsPooled'
    <3>1. Pooled' = Pooled
      BY <1>2, <2>1, <2>2, PutBufferKeeps DEF Pooled
    <3>2. \A b \in Buffer : refs'[b] > 0 => refs[b] > 0
      BY <1>2, <2>1, <2>2, PutBufferKeeps DEF IInv, PoolTypeOK
    <3>3. \A v \in View : v \in Live' => v \in Live /\ owner'[v] = owner[v]
      BY <2>1 DEF Live, IInv, PoolTypeOK
    <3> QED BY <3>1, <3>2, <3>3 DEF IInv, UsedIsPooled, Live
  <2> QED BY <2>3, <2>4, <2>5, <2>6 DEF IInv
<1> QED BY <1>3, <1>4

\* A new view of a buffer, or of what another view shares.
LEMMA MakeViewIInv ==
  ASSUME IInv, NEW x \in Buffer \cup View, NEW v \in View, MakeView(x, v)
  PROVE  IInv'
<1> USE PoolAssumption
<1> DEFINE c == IF x \in Buffer THEN x ELSE owner[x]
<1>1. /\ held[x] > 0 /\ owner[v] = NoBuffer /\ owner' = [owner EXCEPT ![v] = c]
      /\ refs' = [refs EXCEPT ![c] = @ + 1]
      /\ viewRefs' = [viewRefs EXCEPT ![v] = 1] /\ held' = [held EXCEPT ![v] = 1]
      /\ UNCHANGED <<segments, newer, segFree, free, numBuffers, numFree, snapshot>>
  BY DEF MakeView, Live
<1>2. c \in Buffer /\ refs[c] > 0 /\ c # NoBuffer
  <2>1. CASE x \in Buffer
    BY <2>1, <1>1, CountViewers DEF IInv, PoolTypeOK
  <2>2. CASE x \notin Buffer
    <3>1. x \in View /\ c = owner[x] /\ c \in Buffer
      BY <2>2, <1>1, HeldView
    <3>2. x \in Viewers(c)
      BY <3>1 DEF Viewers
    <3> QED BY <3>1, <3>2, CountViewers
  <2> QED BY <2>1, <2>2
<1>3. PoolTypeOK' /\ ViewsHeld'
  BY <1>1, <1>2 DEF IInv, PoolTypeOK, ViewsHeld
<1>4. SegmentsDisjoint' /\ NewerIsOrder' /\ CountersExact' /\ PoolBounded'
  <2>1. UNCHANGED <<segments, newer, segFree, free, numBuffers, numFree>>
    BY <1>1
  <2>2. SegmentsDisjoint /\ NewerIsOrder /\ CountersExact /\ PoolBounded
    BY DEF IInv
  <2> QED BY <2>1, <2>2 DEF SegmentsDisjoint, NewerIsOrder, CountersExact, PoolBounded, Pooled
<1>5. RefsExact'
  <2> SUFFICES ASSUME NEW b \in Buffer PROVE refs'[b] = held'[b] + Cardinality(Viewers(b)')
    BY DEF RefsExact
  <2>1. held'[b] = held[b]
    BY <1>1 DEF IInv, PoolTypeOK
  <2>2. v \notin Viewers(b)
    BY <1>1 DEF Viewers
  <2>3. CASE b = c
    <3>1. Viewers(b)' = Viewers(b) \cup {v}
      BY <2>3, <1>1 DEF Viewers, IInv, PoolTypeOK
    <3>2. Cardinality(Viewers(b)') = Cardinality(Viewers(b)) + 1
      BY <3>1, <2>2, CountViewers, AddOne
    <3>3. refs'[b] = refs[b] + 1
      BY <2>3, <1>1 DEF IInv, PoolTypeOK
    <3> QED BY <3>2, <3>3, <2>1, CountViewers
  <2>4. CASE b # c
    <3>1. Viewers(b)' = Viewers(b)
      BY <2>4, <1>1, <1>2 DEF Viewers, IInv, PoolTypeOK
    <3> QED BY <3>1, <2>1, <2>4, <1>1, CountViewers DEF IInv, PoolTypeOK
  <2> QED BY <2>3, <2>4
<1>6. FreeExactlyUnused' /\ SnapshotInUse'
  <2>1. Pooled' = Pooled
    BY <1>1 DEF Pooled
  <2> QED BY <2>1, <1>1, <1>2 DEF IInv, PoolTypeOK, FreeExactlyUnused, SnapshotInUse
<1>7. UsedIsPooled'
  <2>1. Pooled' = Pooled /\ c \in Pooled
    BY <1>1, <1>2 DEF Pooled, IInv, UsedIsPooled
  <2>2. \A b \in Buffer : refs'[b] > 0 => refs[b] > 0 \/ b = c
    BY <1>1, <1>2 DEF IInv, PoolTypeOK
  <2>3. \A w \in View : w \in Live' => (w \in Live /\ owner'[w] = owner[w]) \/ owner'[w] = c
    BY <1>1 DEF Live, IInv, PoolTypeOK
  <2> QED BY <2>1, <2>2, <2>3 DEF IInv, UsedIsPooled, Live
<1> QED BY <1>3, <1>4, <1>5, <1>6, <1>7 DEF IInv

\* What an expansion may add: fresh buffers, within the maximum.
LEMMA NewSegment ==
  ASSUME IInv, NEW S \in Expansions
  PROVE  /\ S \in SUBSET Buffer /\ S \cap Pooled = {} /\ IsFiniteSet(S)
         /\ Cardinality(S) \in Nat
         /\ numBuffers + Cardinality(S) <= MaxBuffers
         /\ S # {} => S \notin segments
<1>1. S \in NewSegments \/ S = {}
  BY DEF Expansions
<1>2. S \in SUBSET Buffer /\ S \cap Pooled = {}
  BY <1>1 DEF NewSegments
<1>3. IsFiniteSet(S) /\ Cardinality(S) \in Nat
  BY <1>2, Finite
<1>4. numBuffers \in Nat /\ numBuffers <= MaxBuffers /\ MaxBuffers \in Nat /\ ExpandSize \in Nat
  BY PoolAssumption DEF IInv, PoolTypeOK, PoolBounded
<1>5. numBuffers + Cardinality(S) <= MaxBuffers
  <2>1. CASE S = {}
    BY <2>1, <1>4, FS_EmptySet
  <2>2. CASE S # {}
    <3>1. Cardinality(S) = IF ExpandSize > MaxBuffers - numBuffers
                           THEN MaxBuffers - numBuffers ELSE ExpandSize
      BY <1>1, <2>2 DEF NewSegments
    <3> QED BY <3>1, <1>4
  <2> QED BY <2>1, <2>2
<1>6. S # {} => S \notin segments
  BY <1>2 DEF Pooled
<1> QED BY <1>2, <1>3, <1>5, <1>6

\* Handing out a buffer, after an expansion or not.
LEMMA AllocIInv == ASSUME IInv, NEW b \in Buffer, Alloc(b) PROVE IInv'
<1> USE PoolAssumption
<1>1. PICK S \in Expansions :
        /\ b \in free \cup S
        /\ segments' = segments \cup ({S} \ {{}})
        /\ newer' = (IF S = {} THEN newer ELSE newer \cup ({S} \X segments))
        /\ segFree' = [s \in segments' |->
             (IF s = S THEN Cardinality(S) ELSE segFree[s]) - (IF b \in s THEN 1 ELSE 0)]
        /\ free' = (free \cup S) \ {b}
        /\ numBuffers' = numBuffers + Cardinality(S)
        /\ numFree' = numFree + Cardinality(S) - 1
        /\ refs' = [refs EXCEPT ![b] = 1]
        /\ held' = [held EXCEPT ![b] = 1]
        /\ UNCHANGED <<owner, viewRefs, snapshot>>
  BY DEF Alloc
<1>2. /\ S \in SUBSET Buffer /\ S \cap Pooled = {} /\ IsFiniteSet(S) /\ Cardinality(S) \in Nat
      /\ numBuffers + Cardinality(S) <= MaxBuffers /\ (S # {} => S \notin segments)
  BY NewSegment
<1>3. Pooled' = Pooled \cup S
  BY <1>1 DEF Pooled
<1>4. free \subseteq Pooled /\ refs[b] = 0
  BY <1>1, <1>2 DEF IInv, PoolTypeOK, FreeExactlyUnused, UsedIsPooled
<1>5. held[b] = 0 /\ Viewers(b) = {}
  BY <1>4, CountViewers
<1>6. SegmentsDisjoint'
  BY <1>1, <1>2 DEF IInv, SegmentsDisjoint, Pooled
<1>7. NewerIsOrder'
  <2>1. CASE S = {}
    BY <2>1, <1>1 DEF IInv, NewerIsOrder
  <2>2. CASE S # {}
    <3>1. segments' = segments \cup {S} /\ newer' = newer \cup ({S} \X segments) /\ S \notin segments
      BY <2>2, <1>1, <1>2
    <3>2. newer \subseteq segments \X segments /\ NewerIsOrder
      BY DEF IInv, PoolTypeOK
    <3>3. \A s \in segments' : <<s, s>> \notin newer'
      BY <3>1, <3>2 DEF NewerIsOrder
    <3>4. \A s, t \in segments' : s # t => <<s, t>> \in newer' \/ <<t, s>> \in newer'
      BY <3>1, <3>2 DEF NewerIsOrder
    <3>5. ASSUME NEW r \in segments', NEW s \in segments', NEW t \in segments',
                 <<r, s>> \in newer', <<s, t>> \in newer'
          PROVE  <<r, t>> \in newer'
      <4>1. s \in segments /\ t \in segments /\ <<s, t>> \in newer
        BY <3>1, <3>2, <3>5
      <4> QED BY <4>1, <3>1, <3>2, <3>5 DEF NewerIsOrder
    <3> QED BY <3>3, <3>4, <3>5 DEF NewerIsOrder
  <2> QED BY <2>1, <2>2
<1>8. numFree' = Cardinality(free')
  <2>1. IsFiniteSet(free) /\ free \cap S = {} /\ numFree = Cardinality(free) /\ numFree \in Nat
    BY <1>2, <1>4, Finite DEF IInv, PoolTypeOK, CountersExact
  <2>2. IsFiniteSet(free \cup S) /\ Cardinality(free \cup S) = numFree + Cardinality(S)
    BY <2>1, <1>2, FS_Union, FS_EmptySet
  <2>3. Cardinality(free') = Cardinality(free \cup S) - 1
    BY <2>2, <1>1, AddOne
  <2> QED BY <2>1, <2>2, <2>3, <1>1, <1>2
<1>9. numBuffers' = Cardinality(Pooled')
  <2>1. Pooled \in SUBSET Buffer /\ IsFiniteSet(Pooled) /\ numBuffers = Cardinality(Pooled)
    BY Finite DEF IInv, PoolTypeOK, CountersExact, Pooled
  <2>2. Pooled \cap S = {} /\ numBuffers \in Nat
    BY <1>2 DEF IInv, PoolTypeOK
  <2>3. Cardinality(Pooled \cup S) = Cardinality(Pooled) + Cardinality(S) - Cardinality(Pooled \cap S)
    BY <2>1, <1>2, FS_Union
  <2>4. Cardinality(Pooled \cap S) = 0
    BY <2>2, FS_EmptySet
  <2>5. Cardinality(Pooled \cup S) = numBuffers + Cardinality(S)
    BY <2>1, <2>2, <2>3, <2>4, <1>2
  <2> QED BY <2>5, <1>1, <1>3
<1>10. ASSUME NEW s \in segments'
       PROVE  segFree'[s] = Cardinality(s \cap free') /\ segFree'[s] \in Nat
  <2>1. s \in SUBSET Buffer /\ IsFiniteSet(s \cap free')
    <3>1. s \in SUBSET Buffer
      BY <1>1, <1>2 DEF IInv, PoolTypeOK
    <3> QED BY <3>1, Finite
  <2>2. ASSUME NEW T, IsFiniteSet(T), s \cap (free \cup S) = T,
               (IF s = S THEN Cardinality(S) ELSE segFree[s]) = Cardinality(T)
        PROVE  segFree'[s] = Cardinality(s \cap free')
    <3>1. CASE b \in s
      <4>1. s \cap free' = T \ {b} /\ b \in T
        BY <3>1, <2>2, <1>1
      <4>2. Cardinality(s \cap free') = Cardinality(T) - 1
        BY <4>1, <2>2, AddOne
      <4>3. segFree'[s] = Cardinality(T) - 1
        BY <3>1, <2>2, <1>1
      <4> QED BY <4>2, <4>3
    <3>2. CASE b \notin s
      <4>1. s \cap free' = T
        BY <3>2, <2>2, <1>1
      <4>2. Cardinality(T) \in Nat
        BY <2>2, FS_CardinalityType
      <4>3. segFree'[s] = Cardinality(T) - 0
        BY <3>2, <2>2, <1>1
      <4>4. Cardinality(s \cap free') = Cardinality(T)
        BY <4>1
      <4> QED BY <4>2, <4>3, <4>4
    <3> QED BY <3>1, <3>2
  <2>3. CASE s = S
    <3>1. s \cap (free \cup S) = S
      BY <2>3
    <3> QED BY <3>1, <2>1, <2>2, <2>3, <1>2, FS_CardinalityType
  <2>4. CASE s # S
    <3>1. s \in segments /\ s \cap (free \cup S) = s \cap free
      BY <2>4, <1>1, <1>2 DEF Pooled
    <3>2. IsFiniteSet(s \cap free) /\ segFree[s] = Cardinality(s \cap free)
      BY <3>1, <2>1, Finite DEF IInv, CountersExact
    <3> QED BY <3>1, <3>2, <2>1, <2>2, <2>4, FS_CardinalityType
  <2> QED BY <2>3, <2>4
<1>11. CountersExact'
  BY <1>8, <1>9, <1>10 DEF CountersExact
<1>12. PoolTypeOK'
  <2>1. segFree' \in [segments' -> Nat]
    BY <1>1, <1>10
  <2>2. numFree' \in Nat
    <3>1. free' \in SUBSET Buffer
      BY <1>1, <1>2 DEF IInv, PoolTypeOK
    <3> QED BY <3>1, <1>8, Finite
  <2>3. newer' \subseteq segments' \X segments'
    BY <1>1 DEF IInv, PoolTypeOK
  <2> QED BY <2>1, <2>2, <2>3, <1>1, <1>2 DEF IInv, PoolTypeOK
<1>13. ViewsHeld'
  BY <1>1 DEF IInv, PoolTypeOK, ViewsHeld
<1>14. RefsExact'
  <2> SUFFICES ASSUME NEW c \in Buffer PROVE refs'[c] = held'[c] + Cardinality(Viewers(c)')
    BY DEF RefsExact
  <2>1. Viewers(c)' = Viewers(c)
    BY <1>1 DEF Viewers
  <2> QED BY <2>1, <1>1, <1>5, CountViewers, FS_EmptySet DEF IInv, PoolTypeOK
<1>15. FreeExactlyUnused'
  BY <1>1, <1>2, <1>3, <1>4 DEF IInv, PoolTypeOK, FreeExactlyUnused, UsedIsPooled
<1>16. UsedIsPooled'
  <2>1. Live' = Live /\ b \in Pooled'
    BY <1>1, <1>3, <1>4 DEF Live
  <2> QED BY <2>1, <1>1, <1>3 DEF IInv, PoolTypeOK, UsedIsPooled
<1>17. PoolBounded' /\ SnapshotInUse'
  BY <1>1, <1>2 DEF IInv, PoolTypeOK, PoolBounded, SnapshotInUse
<1> QED BY <1>6, <1>7, <1>11, <1>12, <1>13, <1>14, <1>15, <1>16, <1>17 DEF IInv

\* The counters after a set of wholly idle segments went.
LEMMA ReleaseCounts ==
  ASSUME IInv, NEW F \in SUBSET segments, ShrinksTo(F)
  PROVE  /\ UNION F \in SUBSET Buffer /\ IsFiniteSet(UNION F) /\ Cardinality(UNION F) \in Nat
         /\ UNION F \subseteq free
         /\ Cardinality(Pooled \ UNION F) = numBuffers - Cardinality(UNION F)
         /\ Cardinality(free \ UNION F) = numFree - Cardinality(UNION F)
<1>1. UNION F \in SUBSET Buffer /\ UNION F \subseteq Pooled
  BY DEF IInv, PoolTypeOK, Pooled
<1>2. IsFiniteSet(UNION F) /\ Cardinality(UNION F) \in Nat
  BY <1>1, Finite
<1>3. ASSUME NEW s \in F PROVE s \subseteq free
  <2>1. s \in SUBSET Buffer /\ IsFiniteSet(s)
    BY Finite DEF IInv, PoolTypeOK
  <2>2. Cardinality(s) = Cardinality(s \cap free)
    BY DEF ShrinksTo, IInv, CountersExact
  <2>3. s \cap free \in SUBSET s
    OBVIOUS
  <2>4. s = s \cap free
    BY <2>1, <2>2, <2>3, FS_Subset
  <2> QED BY <2>4
<1>4. UNION F \subseteq free
  BY <1>3
<1>5. Cardinality(Pooled \ UNION F) = numBuffers - Cardinality(UNION F)
  <2>1. IsFiniteSet(Pooled) /\ numBuffers = Cardinality(Pooled)
    BY Finite DEF IInv, PoolTypeOK, CountersExact, Pooled
  <2>2. Pooled \cap UNION F = UNION F
    BY <1>1
  <2> QED BY <2>1, <2>2, FS_Difference
<1>6. Cardinality(free \ UNION F) = numFree - Cardinality(UNION F)
  <2>1. IsFiniteSet(free) /\ numFree = Cardinality(free)
    BY Finite DEF IInv, PoolTypeOK, CountersExact
  <2>2. free \cap UNION F = UNION F
    BY <1>4
  <2> QED BY <2>1, <2>2, FS_Difference
<1> QED BY <1>1, <1>2, <1>4, <1>5, <1>6

\* Among the segments released one is the oldest, and when its turn came all
\* the others had gone; so the minimum it left is the minimum that stays.
LEMMA ReleaseKeepsMinimum ==
  ASSUME IInv, NEW F \in SUBSET segments, F # {}, ShrinksTo(F)
  PROVE  numBuffers - Cardinality(UNION F) >= MinBuffers
<1> DEFINE After(s) == {t \in F : <<s, t>> \in newer}
           Sets == {After(s) : s \in F}
<1>1. IsFiniteSet(segments) /\ segments \in SUBSET SUBSET Buffer
  <2>1. IsFiniteSet(SUBSET Buffer)
    BY PoolAssumption, FS_SUBSET
  <2> QED BY <2>1, FS_Subset DEF IInv, PoolTypeOK
<1>2. Sets \subseteq FiniteSubsetsOf(segments) /\ Sets # {}
  <2>1. \A s \in F : After(s) \in SUBSET segments /\ IsFiniteSet(After(s))
    BY <1>1, FS_Subset
  <2> QED BY <2>1 DEF FiniteSubsetsOf
<1>3. IsWellFoundedOn(StrictSubsetOrdering(segments), FiniteSubsetsOf(segments))
  BY FS_StrictSubsetOrderingWellFounded
<1>4. PICK A \in Sets : \A B \in Sets : <<B, A>> \notin StrictSubsetOrdering(segments)
  BY <1>2, <1>3, WFMin
<1>5. PICK s \in F : A = After(s)
  BY <1>4
<1>6. After(s) = {}
  <2> SUFFICES ASSUME NEW t \in After(s) PROVE FALSE
    OBVIOUS
  <2>1. t \in F /\ <<s, t>> \in newer
    OBVIOUS
  <2>2. After(t) \subseteq After(s)
    BY <2>1 DEF IInv, NewerIsOrder
  <2>3. t \notin After(t)
    BY <2>1 DEF IInv, NewerIsOrder
  <2>4. <<After(t), After(s)>> \in StrictSubsetOrdering(segments)
    BY <2>2, <2>3 DEF StrictSubsetOrdering
  <2> QED BY <2>1, <2>4, <1>4, <1>5
<1>7. UNION F = Before(F, s) \cup s /\ Before(F, s) \cap s = {}
  <2>1. \A t \in F : t # s => <<t, s>> \in newer
    BY <1>6 DEF IInv, NewerIsOrder
  <2>2. \A t \in F : <<t, s>> \in newer => t \cap s = {}
    BY DEF IInv, NewerIsOrder, SegmentsDisjoint
  <2> QED BY <2>1, <2>2 DEF Before
<1>8. IsFiniteSet(s) /\ IsFiniteSet(Before(F, s))
  <2>1. s \in SUBSET Buffer /\ Before(F, s) \in SUBSET Buffer
    BY <1>1 DEF Before
  <2> QED BY <2>1, Finite
<1>9. Cardinality(UNION F) = Cardinality(Before(F, s)) + Cardinality(s)
  BY <1>7, <1>8, FS_Union, FS_EmptySet, FS_CardinalityType
<1>10. numBuffers - Cardinality(Before(F, s)) - Cardinality(s) >= MinBuffers
  BY DEF ShrinksTo
<1>11. Cardinality(Before(F, s)) \in Nat /\ Cardinality(s) \in Nat /\ numBuffers \in Nat /\ MinBuffers \in Nat
  BY <1>8, FS_CardinalityType, PoolAssumption DEF IInv, PoolTypeOK
<1> QED BY <1>9, <1>10, <1>11

\* Releasing idle segments.
LEMMA ShrinkIInv == ASSUME IInv, Shrink PROVE IInv'
<1>1. PICK F \in SUBSET segments :
        /\ F # {} /\ ShrinksTo(F)
        /\ segments' = segments \ F
        /\ newer' = newer \cap (segments' \X segments')
        /\ segFree' = [s \in segments' |-> segFree[s]]
        /\ free' = free \ UNION F
        /\ numBuffers' = numBuffers - Cardinality(UNION F)
        /\ numFree' = numFree - Cardinality(UNION F)
        /\ UNCHANGED <<refs, owner, viewRefs, snapshot, held>>
  BY DEF Shrink
<1>2. /\ UNION F \in SUBSET Buffer /\ Cardinality(UNION F) \in Nat /\ UNION F \subseteq free
      /\ Cardinality(Pooled \ UNION F) = numBuffers'
      /\ Cardinality(free \ UNION F) = numFree'
  BY <1>1, ReleaseCounts
<1>3. Pooled' = Pooled \ UNION F
  BY <1>1 DEF Pooled, IInv, SegmentsDisjoint
<1>4. SegmentsDisjoint' /\ NewerIsOrder'
  BY <1>1 DEF IInv, SegmentsDisjoint, NewerIsOrder
<1>5. PoolTypeOK'
  <2>1. numBuffers' \in Nat /\ numFree' \in Nat
    <3>1. (Pooled \ UNION F) \in SUBSET Buffer /\ (free \ UNION F) \in SUBSET Buffer
      BY DEF IInv, PoolTypeOK, Pooled
    <3> QED BY <3>1, <1>2, Finite
  <2>2. segFree' \in [segments' -> Nat] /\ newer' \subseteq segments' \X segments'
    BY <1>1 DEF IInv, PoolTypeOK
  <2> QED BY <2>1, <2>2, <1>1 DEF IInv, PoolTypeOK
<1>6. ViewsHeld' /\ RefsExact' /\ SnapshotInUse'
  BY <1>1 DEF IInv, ViewsHeld, RefsExact, SnapshotInUse, Viewers
<1>7. \A b \in UNION F : refs[b] = 0 /\ Viewers(b) = {}
  BY <1>2, CountViewers DEF IInv, FreeExactlyUnused
<1>8. FreeExactlyUnused'
  BY <1>1, <1>2, <1>3 DEF IInv, FreeExactlyUnused
<1>9. UsedIsPooled'
  BY <1>1, <1>2, <1>3, <1>7 DEF IInv, PoolTypeOK, UsedIsPooled, Live, Viewers
<1>10. CountersExact'
  <2>1. \A s \in segments' : s \cap free' = s \cap free
    BY <1>1 DEF IInv, SegmentsDisjoint
  <2> QED BY <2>1, <1>1, <1>2, <1>3 DEF IInv, CountersExact
<1>11. PoolBounded'
  <2>1. numBuffers' >= MinBuffers
    BY <1>1, ReleaseKeepsMinimum
  <2> QED BY <2>1, <1>1, <1>2, PoolAssumption DEF IInv, PoolTypeOK, PoolBounded
<1> QED BY <1>4, <1>5, <1>6, <1>8, <1>9, <1>10, <1>11 DEF IInv

\* A step that changes nothing.
LEMMA StutterIInv == IInv /\ UNCHANGED poolVars => IInv'
BY DEF poolVars, IInv, PoolTypeOK, SegmentsDisjoint, NewerIsOrder, ViewsHeld, RefsExact, FreeExactlyUnused,
     UsedIsPooled, CountersExact, PoolBounded, SnapshotInUse, Pooled, Live, Viewers

LEMMA NextIInv == IInv /\ [PoolNext]_poolVars => IInv'
<1> SUFFICES ASSUME IInv, [PoolNext]_poolVars PROVE IInv'
  OBVIOUS
<1>1. ASSUME NEW b \in Buffer, Alloc(b) PROVE IInv'
  BY <1>1, AllocIInv
<1>2. ASSUME NEW b \in Buffer, Snapshot(b) PROVE IInv'
  BY <1>2, SnapshotIInv
<1>3. ASSUME NEW x \in Buffer \cup View, Get(x) PROVE IInv'
  BY <1>3, GetIInv
<1>4. ASSUME NEW x \in Buffer \cup View, Put(x) PROVE IInv'
  BY <1>4, PutBufferIInv, PutViewIInv
<1>5. ASSUME NEW x \in Buffer \cup View, NEW v \in View, MakeView(x, v) PROVE IInv'
  BY <1>5, MakeViewIInv
<1>6. CASE Shrink
  BY <1>6, ShrinkIInv
<1>7. CASE UNCHANGED poolVars
  BY <1>7, StutterIInv
<1> QED BY <1>1, <1>2, <1>3, <1>4, <1>5, <1>6, <1>7 DEF PoolNext

\* The inductive invariant holds in every state of every pool.
THEOREM PoolInvariant == PoolSpec => []IInv
<1> QED BY InitIInv, NextIInv, PTL DEF PoolSpec

\* The free list, the counters and the refcounts agree (buffer_pool.c): no
\* buffer is lost, none is both free and in use, the pool keeps its bounds.
THEOREM PoolSafety ==
  PoolSpec => []( /\ PoolTypeOK /\ FreeExactlyUnused /\ UsedIsPooled /\ RefsExact
              /\ CountersExact /\ PoolBounded /\ SnapshotInUse )
<1>1. IInv => /\ PoolTypeOK /\ FreeExactlyUnused /\ UsedIsPooled /\ RefsExact
              /\ CountersExact /\ PoolBounded /\ SnapshotInUse
  BY DEF IInv
<1> QED BY <1>1, PoolInvariant, PTL

\* No step recycles or releases the bytes a living view shares.
THEOREM ViewsSafe == PoolSpec => ViewsKeepBytes
<1>1. IInv /\ IInv' /\ [PoolNext]_poolVars =>
        [\A v \in View : owner[v] # NoBuffer /\ owner'[v] = owner[v] => owner[v] \notin free']_poolVars
  <2> SUFFICES ASSUME IInv, IInv', NEW v \in View, owner[v] # NoBuffer, owner'[v] = owner[v]
               PROVE  owner[v] \notin free'
    OBVIOUS
  <2>1. PICK c \in Buffer : c = owner[v]
    BY DEF IInv, PoolTypeOK
  <2>2. Viewers(c)' \in SUBSET View /\ IsFiniteSet(Viewers(c)') /\ Cardinality(Viewers(c)') \in Nat
    BY Finite DEF Viewers
  <2>3. v \in Viewers(c)'
    BY <2>1 DEF Viewers
  <2>4. Cardinality(Viewers(c)') # 0
    BY <2>2, <2>3, FS_EmptySet
  <2>5. refs'[c] = held'[c] + Cardinality(Viewers(c)') /\ held'[c] \in Nat
    BY DEF IInv, RefsExact, PoolTypeOK
  <2>6. refs'[c] # 0
    BY <2>2, <2>4, <2>5
  <2> QED BY <2>1, <2>6 DEF IInv, FreeExactlyUnused
<1> QED BY <1>1, PoolInvariant, PTL DEF PoolSpec, ViewsKeepBytes

-----------------------------------------------------------------------------
(* The relay: a user of the pool, and the queue it keeps the buffers in     *)

\* A sequence of buffer sizes is one of integers.
LEMMA SizesAreInts == Seq(1..Cap) \subseteq Seq(Int)
<1>1. 1..Cap \subseteq Int
  OBVIOUS
<1> QED BY <1>1, SeqMonotonic

\* The least element of a set of natural numbers.
LEMMA LeastIs ==
  ASSUME NEW S \in SUBSET Nat, S # {}
  PROVE  Min(S) \in S /\ \A y \in S : Min(S) <= y
<1>1. PICK x \in S : \A y \in S : ~(<<y, x>> \in OpToRel(<, Nat))
  BY NatLessThanWellFounded, WFMin
<1>2. ASSUME NEW y \in S PROVE x <= y
  <2>1. ~(y < x)
    BY <1>1 DEF OpToRel
  <2> QED BY <2>1
<1> QED BY <1>2 DEF Min

\* The greatest element of a bounded one.
LEMMA GreatestIs ==
  ASSUME NEW n \in Nat, NEW S \in SUBSET (0..n), S # {}
  PROVE  Max(S) \in S /\ \A y \in S : Max(S) >= y
<1> DEFINE T == {n - y : y \in S}
           m == Min(T)
<1>1. T \in SUBSET Nat /\ T # {}
  <2>1. \A y \in S : n - y \in Nat
    OBVIOUS
  <2> QED BY <2>1
<1>2. m \in T /\ \A y \in T : m <= y
  <2> HIDE DEF T
  <2> QED BY <1>1, LeastIs
<1> HIDE DEF m
<1>3. PICK x \in S : m = n - x
  BY <1>2
<1>4. ASSUME NEW y \in S PROVE x >= y
  <2>1. m <= n - y
    BY <1>2
  <2> QED BY <1>3, <2>1
<1> QED BY <1>4 DEF Max

\* Induction for a set of natural numbers.
LEMMA AllOfNat ==
  ASSUME NEW S \in SUBSET Nat, 0 \in S, \A n \in S : n + 1 \in S
  PROVE  S = Nat
<1> SUFFICES ASSUME Nat \ S # {} PROVE FALSE
  OBVIOUS
<1> DEFINE x == Min(Nat \ S)
<1>1. x \in Nat \ S /\ \A y \in Nat \ S : x <= y
  BY LeastIs
<1> HIDE DEF x
<1>2. x # 0 /\ x - 1 \in Nat
  BY <1>1
<1>3. x - 1 \in S
  BY <1>1, <1>2
<1> QED BY <1>1, <1>2, <1>3

\* The units of the first buffers of a queue.
Totals(s, q) == s = [k \in 0..Len(q) |-> IF k = 0 THEN 0 ELSE s[k - 1] + q[k]]

LEMMA TotalsExist == ASSUME NEW q \in Seq(Int) PROVE \E s : Totals(s, q) /\ s \in [0..Len(q) -> Int]
<1> DEFINE Good == {m \in Nat : m <= Len(q) => \E s \in [0..m -> Int] :
                       s = [k \in 0..m |-> IF k = 0 THEN 0 ELSE s[k - 1] + q[k]]}
<1>1. 0 \in Good
  <2> DEFINE s == [k \in 0..0 |-> 0]
  <2>1. s = [k \in 0..0 |-> IF k = 0 THEN 0 ELSE s[k - 1] + q[k]] /\ s \in [0..0 -> Int]
    OBVIOUS
  <2> HIDE DEF s
  <2> QED BY <2>1
<1>2. ASSUME NEW m \in Good, m + 1 <= Len(q)
      PROVE  \E s \in [0..m + 1 -> Int] :
               s = [k \in 0..m + 1 |-> IF k = 0 THEN 0 ELSE s[k - 1] + q[k]]
  <2>1. m \in Nat /\ m <= Len(q) /\ m + 1 \in 1..Len(q)
    BY <1>2
  <2>2. PICK s \in [0..m -> Int] : s = [k \in 0..m |-> IF k = 0 THEN 0 ELSE s[k - 1] + q[k]]
    BY <2>1
  <2> DEFINE g == [k \in 0..m + 1 |-> IF k = m + 1 THEN s[m] + q[m + 1] ELSE s[k]]
  <2>3. (\A k \in 0..m : g[k] = s[k]) /\ g[m + 1] = s[m] + q[m + 1]
    BY <2>1
  <2>4. \A k \in 0..m : s[k] = IF k = 0 THEN 0 ELSE s[k - 1] + q[k]
    BY <2>2
  <2>5. ASSUME NEW k \in 0..m + 1
        PROVE  g[k] = (IF k = 0 THEN 0 ELSE g[k - 1] + q[k]) /\ g[k] \in Int
    <3> HIDE DEF g
    <3>0. s[m] \in Int /\ q[m + 1] \in Int
      BY <2>1, <2>2
    <3>1. CASE k = m + 1
      <4>1. k - 1 = m /\ k # 0 /\ m \in 0..m
        BY <2>1, <3>1
      <4> QED BY <2>3, <3>0, <3>1, <4>1
    <3>2. CASE k # m + 1 /\ k # 0
      <4>1. k \in 0..m /\ k - 1 \in 0..m
        BY <2>1, <3>2
      <4> QED BY <2>2, <2>3, <2>4, <3>2, <4>1
    <3>3. CASE k = 0
      <4>1. k \in 0..m
        BY <2>1, <3>3
      <4> QED BY <2>2, <2>3, <2>4, <3>3, <4>1
    <3> QED BY <3>1, <3>2, <3>3
  <2>6. g = [k \in 0..m + 1 |-> g[k]]
    OBVIOUS
  <2> HIDE DEF g
  <2>7. g = [k \in 0..m + 1 |-> IF k = 0 THEN 0 ELSE g[k - 1] + q[k]] /\ g \in [0..m + 1 -> Int]
    BY <2>5, <2>6
  <2> QED BY <2>7
<1>3. ASSUME NEW m \in Good PROVE m + 1 \in Good
  <2>1. m + 1 \in Nat
    OBVIOUS
  <2> QED BY <1>2, <2>1
<1>4. Good = Nat
  <2>1. Good \in SUBSET Nat
    OBVIOUS
  <2> HIDE DEF Good
  <2> QED BY <1>1, <1>3, <2>1, AllOfNat
<1>5. Len(q) \in Nat
  OBVIOUS
<1>6. Len(q) \in Good
  BY <1>4, <1>5
<1> QED BY <1>5, <1>6 DEF Totals

\* What the sum of a queue is.
LEMMA SumIs ==
  ASSUME NEW q \in Seq(Int)
  PROVE  \E s \in [0..Len(q) -> Int] :
           /\ Sum(q) = s[Len(q)]
           /\ s[0] = 0
           /\ \A k \in 1..Len(q) : s[k] = s[k - 1] + q[k]
<1> DEFINE s == CHOOSE s : Totals(s, q)
           len == Len(q)
<1>1. Sum(q) = s[len]
  BY DEF Sum, Totals
<1>2. PICK t : Totals(t, q)
  BY TotalsExist
<1>3. Totals(s, q)
  BY <1>2
<1>4. len \in Nat /\ \A k \in 1..len : q[k] \in Int
  OBVIOUS
<1> HIDE DEF s
<1>5. s = [k \in 0..len |-> IF k = 0 THEN 0 ELSE s[k - 1] + q[k]]
  BY <1>3 DEF Totals
<1> HIDE DEF len
<1>6. s[0] = 0 /\ \A k \in 1..len : s[k] = s[k - 1] + q[k]
  <2>1. 0 \in 0..len
    BY <1>4
  <2>2. \A k \in 1..len : k \in 0..len /\ k # 0
    BY <1>4
  <2> QED BY <1>5, <2>1, <2>2
<1> DEFINE Good == {k \in Nat : k <= len => s[k] \in Int}
<1>7. 0 \in Good
  BY <1>6
<1>8. ASSUME NEW k \in Good PROVE k + 1 \in Good
  <2> SUFFICES ASSUME k + 1 <= len PROVE s[k + 1] \in Int
    OBVIOUS
  <2>1. k \in Nat /\ k + 1 \in 1..len /\ (k + 1) - 1 = k /\ s[k] \in Int
    BY <1>4
  <2>2. s[k + 1] = s[(k + 1) - 1] + q[k + 1]
    BY <1>6, <2>1
  <2> QED BY <1>4, <2>1, <2>2
<1>9. Good = Nat
  <2>1. Good \in SUBSET Nat
    OBVIOUS
  <2> HIDE DEF Good
  <2> QED BY <1>7, <1>8, <2>1, AllOfNat
<1>10. \A k \in 0..len : s[k] \in Int
  BY <1>4, <1>9
<1>11. s \in [0..len -> Int]
  BY <1>5, <1>10
<1> QED BY <1>1, <1>6, <1>11 DEF len

\* One buffer more.
LEMMA SumAppend ==
  ASSUME NEW q \in Seq(Int), NEW n \in Int
  PROVE  Sum(q) \in Int /\ Sum(<<>>) = 0 /\ Sum(Append(q, n)) = Sum(q) + n
<1> DEFINE len == Len(q)
           r == Append(q, n)
<1>1. r \in Seq(Int) /\ Len(r) = len + 1 /\ len \in Nat /\ r[len + 1] = n /\ \A k \in 1..len : r[k] = q[k]
  OBVIOUS
<1>2. PICK s \in [0..len -> Int] :
        Sum(q) = s[len] /\ s[0] = 0 /\ \A k \in 1..len : s[k] = s[k - 1] + q[k]
  BY SumIs
<1> HIDE DEF len, r
<1>3. PICK t \in [0..Len(r) -> Int] :
        Sum(r) = t[Len(r)] /\ t[0] = 0 /\ \A k \in 1..Len(r) : t[k] = t[k - 1] + r[k]
  BY <1>1, SumIs
<1> DEFINE Good == {k \in Nat : k <= len => s[k] = t[k]}
<1>4. 0 \in Good
  BY <1>2, <1>3
<1>5. ASSUME NEW k \in Good PROVE k + 1 \in Good
  <2> SUFFICES ASSUME k + 1 <= len PROVE s[k + 1] = t[k + 1]
    OBVIOUS
  <2>1. k \in Nat /\ k + 1 \in 1..len /\ k + 1 \in 1..Len(r) /\ (k + 1) - 1 = k /\ s[k] = t[k]
    BY <1>1
  <2>2. s[k + 1] = s[(k + 1) - 1] + q[k + 1]
    BY <1>2, <2>1
  <2>3. t[k + 1] = t[(k + 1) - 1] + r[k + 1]
    BY <1>3, <2>1
  <2> QED BY <1>1, <2>1, <2>2, <2>3
<1>6. Good = Nat
  <2>1. Good \in SUBSET Nat
    OBVIOUS
  <2> HIDE DEF Good
  <2> QED BY <1>4, <1>5, <2>1, AllOfNat
<1>7. s[len] = t[len] /\ s[len] \in Int
  <2>1. len \in Good
    BY <1>1, <1>6
  <2>2. len <= len /\ len \in 0..len
    BY <1>1
  <2> QED BY <1>2, <2>1, <2>2
<1>8. t[len + 1] = t[(len + 1) - 1] + r[len + 1]
  <2>1. len + 1 \in 1..Len(r)
    BY <1>1
  <2> QED BY <1>3, <2>1
<1>9. (len + 1) - 1 = len
  BY <1>1
<1>10. Sum(<<>>) = 0
  <2> DEFINE e == <<>>
  <2>1. e \in Seq(Int) /\ Len(e) = 0
    OBVIOUS
  <2> HIDE DEF e
  <2>2. Sum(e) = 0
    BY <2>1, SumIs
  <2> QED BY <2>2 DEF e
<1> QED BY <1>1, <1>2, <1>3, <1>7, <1>8, <1>9, <1>10 DEF r

\* No buffer, no unit.
LEMMA SumNothing == Sum(<<>>) = 0 /\ \A q \in Seq(Int) : Sum(q) \in Int
<1>1. <<>> \in Seq(Int) /\ 0 \in Int
  OBVIOUS
<1> QED BY <1>1, SumAppend

\* Two queues, one behind the other.
LEMMA SumConcat ==
  ASSUME NEW a \in Seq(Int), NEW b \in Seq(Int)
  PROVE  Sum(a \o b) = Sum(a) + Sum(b)
<1> DEFINE Good == {n \in Nat : \A c \in Seq(Int) : Len(c) = n => Sum(a \o c) = Sum(a) + Sum(c)}
<1>1. 0 \in Good
  <2> SUFFICES ASSUME NEW c \in Seq(Int), Len(c) = 0 PROVE Sum(a \o c) = Sum(a) + Sum(c)
    OBVIOUS
  <2>1. c = <<>> /\ a \o c = a
    OBVIOUS
  <2>2. Sum(a) \in Int /\ Sum(<<>>) = 0
    BY SumAppend
  <2> QED BY <2>1, <2>2
<1>2. ASSUME NEW n \in Good PROVE n + 1 \in Good
  <2> SUFFICES ASSUME NEW c \in Seq(Int), Len(c) = n + 1 PROVE Sum(a \o c) = Sum(a) + Sum(c)
    OBVIOUS
  <2> DEFINE d == SubSeq(c, 1, n)
             z == c[n + 1]
  <2>1. n \in Nat /\ d \in Seq(Int) /\ Len(d) = n /\ z \in Int /\ c = Append(d, z)
    OBVIOUS
  <2>2. Sum(a \o d) = Sum(a) + Sum(d)
    BY <2>1
  <2> HIDE DEF d, z
  <2>3. a \o c = Append(a \o d, z) /\ a \o d \in Seq(Int)
    BY <2>1
  <2>4. Sum(c) = Sum(d) + z /\ Sum(a \o c) = Sum(a \o d) + z
    BY <2>1, <2>3, SumAppend
  <2>5. Sum(a) \in Int /\ Sum(d) \in Int
    BY <2>1, SumAppend
  <2> QED BY <2>1, <2>2, <2>4, <2>5
<1>3. Good = Nat
  <2>1. Good \in SUBSET Nat
    OBVIOUS
  <2> HIDE DEF Good
  <2> QED BY <1>1, <1>2, <2>1, AllOfNat
<1> QED BY <1>3

-----------------------------------------------------------------------------
(* The relay's state as a record                                           *)

RelayStates ==
  [pstate : {"STREAMING", "COMPLETE"}, paused : BOOLEAN, queue : Seq(1..Cap), total : Nat,
   memory : Nat, pending : BOOLEAN, state : {"STREAMING", "CLOSING", "DRAINED", "ABORTED"},
   kernel : Nat, armed : BOOLEAN, failed : BOOLEAN]

\* The totals are those of the queue.
Accounted(x) ==
  x \in RelayStates /\ x.total = Sum(x.queue) /\ x.memory = Cap * Len(x.queue)

\* y is x with units moved from the upstream socket to the queue.
Moved(x, y) ==
  /\ Accounted(y)
  /\ y.total + y.kernel = x.total + x.kernel /\ y.kernel <= x.kernel
  /\ y.state = x.state

\* A write is scheduled.
LEMMA ScheduleIs ==
  ASSUME NEW x, Accounted(x)
  PROVE  /\ Accounted(Schedule(x)) /\ Schedule(x).queue = x.queue
         /\ Schedule(x).total = x.total /\ Schedule(x).kernel = x.kernel
         /\ Schedule(x).memory = x.memory
         /\ Schedule(x).state = x.state /\ Schedule(x).pstate = x.pstate
         /\ Schedule(x).failed = x.failed
BY DEF Accounted, RelayStates, Schedule

\* A buffer is queued.
LEMMA QueueIs ==
  ASSUME NEW x, Accounted(x), NEW n \in 1..Cap
  PROVE  /\ Accounted(Queue(x, n)) /\ Queue(x, n).total = x.total + n
         /\ Queue(x, n).kernel = x.kernel
         /\ Queue(x, n).state = x.state /\ Queue(x, n).pstate = x.pstate
         /\ Queue(x, n).failed = x.failed
<1> DEFINE q == Append(x.queue, n)
           t == x.total + n
           m == x.memory + Cap
           y == [x EXCEPT !.queue = q, !.total = t, !.memory = m]
<1>1. q \in Seq(1..Cap) /\ t \in Nat /\ m \in Nat /\ Cap \in Nat
  BY RelayAssumption DEF Accounted, RelayStates, RelayAssumption
<1>2. t = Sum(q)
  <2>1. x.queue \in Seq(Int)
    <3>1. x.queue \in Seq(1..Cap)
      BY DEF Accounted, RelayStates
    <3>2. Seq(1..Cap) \subseteq Seq(Int)
      BY SizesAreInts
    <3> QED BY <3>1, <3>2
  <2> QED BY <2>1, SumAppend DEF Accounted
<1>3. m = Cap * Len(q)
  <2>1. Len(q) = Len(x.queue) + 1 /\ Len(x.queue) \in Nat
    BY DEF Accounted, RelayStates
  <2>2. m = Cap * Len(x.queue) + Cap
    BY DEF Accounted
  <2> DEFINE k == Len(x.queue)
  <2>3. k \in Nat /\ m = Cap * k + Cap
    BY <2>1, <2>2
  <2>4. Cap * (k + 1) = Cap * k + Cap
    <3> HIDE DEF k
    <3> QED BY <1>1, <2>3
  <2> QED BY <2>1, <2>3, <2>4
<1> HIDE DEF q, t, m
<1>4. /\ y \in RelayStates /\ y.queue = q /\ y.total = t /\ y.memory = m
      /\ y.kernel = x.kernel /\ y.state = x.state /\ y.pstate = x.pstate /\ y.failed = x.failed
  BY <1>1 DEF Accounted, RelayStates
<1>5. Queue(x, n) = IF y.total >= Batch THEN Schedule(y) ELSE y
  BY DEF Queue, q, t, m
<1> HIDE DEF y
<1>6. Accounted(y)
  BY <1>2, <1>3, <1>4 DEF Accounted
<1> QED BY <1>4, <1>5, <1>6, ScheduleIs DEF t

\* What is written and what stays.
LEMMA SplitAt ==
  ASSUME NEW S, NEW q \in Seq(S), NEW g \in 0..Len(q)
  PROVE  /\ SubSeq(q, 1, g) \in Seq(S) /\ SubSeq(q, g + 1, Len(q)) \in Seq(S)
         /\ Len(SubSeq(q, 1, g)) = g /\ Len(SubSeq(q, g + 1, Len(q))) = Len(q) - g
         /\ q = SubSeq(q, 1, g) \o SubSeq(q, g + 1, Len(q))
<1> DEFINE a == SubSeq(q, 1, g)
           b == SubSeq(q, g + 1, Len(q))
<1>1. /\ a \in Seq(S) /\ Len(a) = g /\ \A i \in 1..g : a[i] = q[i]
      /\ Len(q) \in Nat
  OBVIOUS
<1>2. b \in Seq(S) /\ Len(b) = Len(q) - g /\ \A i \in 1..Len(q) - g : b[i] = q[g + i]
  OBVIOUS
<1> HIDE DEF a, b
<1>3. a \o b \in Seq(S) /\ Len(a \o b) = Len(q)
  BY <1>1, <1>2
<1>4. ASSUME NEW i \in 1..Len(q) PROVE (a \o b)[i] = q[i]
  <2>1. CASE i <= g
    <3>1. i \in 1..g /\ i \in 1..Len(a) + Len(b) /\ i <= Len(a)
      BY <2>1, <1>1, <1>2
    <3>2. (a \o b)[i] = a[i]
      BY <3>1, <1>1, <1>2
    <3> QED BY <3>1, <3>2, <1>1
  <2>2. CASE i > g
    <3> DEFINE j == i - g
    <3>1. (a \o b)[i] = b[j] /\ j \in 1..Len(q) - g /\ g + j = i
      BY <2>2, <1>1, <1>2
    <3> HIDE DEF j
    <3>2. b[j] = q[g + j]
      BY <3>1, <1>2
    <3> QED BY <3>1, <3>2
  <2>3. i <= g \/ i > g
    OBVIOUS
  <2> QED BY <2>1, <2>2, <2>3
<1>5. a \o b = q
  <2> DEFINE c == a \o b
  <2>1. c \in Seq(S) /\ Len(c) = Len(q) /\ \A i \in 1..Len(q) : c[i] = q[i]
    BY <1>3, <1>4
  <2> HIDE DEF c
  <2>2. c = q
    BY <2>1, SeqEqual
  <2> QED BY <2>2 DEF c
<1> QED BY <1>1, <1>2, <1>5 DEF a, b

\* The head of what stays shrinks.
LEMMA HeadShrinks ==
  ASSUME NEW S, NEW tail \in Seq(S), NEW h \in S, NEW z \in S
  PROVE  [(<<h>> \o tail) EXCEPT ![1] = z] = <<z>> \o tail
<1> DEFINE c == [(<<h>> \o tail) EXCEPT ![1] = z]
           d == <<z>> \o tail
<1>1. c \in Seq(S) /\ Len(c) = Len(tail) + 1 /\ c[1] = z /\ \A i \in 2..Len(tail) + 1 : c[i] = tail[i - 1]
  <2> DEFINE e == <<h>> \o tail
  <2>1. e \in Seq(S) /\ Len(e) = Len(tail) + 1 /\ \A i \in 2..Len(tail) + 1 : e[i] = tail[i - 1]
    OBVIOUS
  <2> HIDE DEF e
  <2>2. c = [e EXCEPT ![1] = z] /\ Len(tail) \in Nat
    BY DEF e
  <2> HIDE DEF c
  <2>3. c \in Seq(S) /\ Len(c) = Len(e)
    BY <2>1, <2>2, ExceptSeq
  <2>4. c[1] = z /\ \A i \in 2..Len(tail) + 1 : c[i] = e[i]
    <3>1. DOMAIN e = 1..Len(tail) + 1
      BY <2>1
    <3> QED BY <2>2, <3>1
  <2> QED BY <2>1, <2>3, <2>4
<1>2. d \in Seq(S) /\ Len(d) = Len(tail) + 1 /\ d[1] = z /\ \A i \in 2..Len(tail) + 1 : d[i] = tail[i - 1]
  OBVIOUS
<1>3. Len(tail) \in Nat
  OBVIOUS
<1> HIDE DEF c, d
<1>4. ASSUME NEW i \in 1..Len(c) PROVE c[i] = d[i]
  <2>1. CASE i = 1
    BY <2>1, <1>1, <1>2
  <2>2. CASE i # 1
    <3>1. i \in 2..Len(tail) + 1
      BY <2>2, <1>1, <1>3
    <3> QED BY <3>1, <1>1, <1>2
  <2> QED BY <2>1, <2>2
<1>5. c = d
  BY <1>1, <1>2, <1>4, SeqEqual
<1> QED BY <1>5 DEF c, d

\* What a write takes from the queue.
LEMMA ConsumeIs ==
  ASSUME NEW x, Accounted(x), NEW n \in Nat, n <= x.total
  PROVE  /\ Accounted(Consume(x, n)) /\ Consume(x, n).total = x.total - n
         /\ Consume(x, n).kernel = x.kernel
         /\ Consume(x, n).state = x.state /\ Consume(x, n).pstate = x.pstate
         /\ Consume(x, n).failed = x.failed
<1> DEFINE q == x.queue
           len == Len(q)
           S == {k \in 0..len : Sum(SubSeq(q, 1, k)) <= n}
           gone == Max(S)
           head == SubSeq(q, 1, gone)
           rest == SubSeq(q, gone + 1, len)
           part == n - Sum(head)
           r == IF rest = <<>> THEN rest ELSE [rest EXCEPT ![1] = @ - part]
           t == x.total - n
           m == x.memory - Cap * gone
           y == [x EXCEPT !.queue = r, !.total = t, !.memory = m]
<1>1. Consume(x, n) = y
  BY DEF Consume
<1>2. q \in Seq(1..Cap) /\ q \in Seq(Int) /\ len \in Nat /\ Cap \in Nat \ {0}
  <2>1. q \in Seq(1..Cap) /\ Cap \in Nat \ {0}
    BY RelayAssumption DEF Accounted, RelayStates, RelayAssumption
  <2>2. Seq(1..Cap) \subseteq Seq(Int)
    BY SizesAreInts
  <2> QED BY <2>1, <2>2
<1>3. x.total = Sum(q) /\ x.memory = Cap * len /\ x.total \in Nat
  BY DEF Accounted, RelayStates
<1> HIDE DEF q
<1>4. 0 \in S
  <2>1. SubSeq(q, 1, 0) = <<>> /\ 0 \in 0..len
    BY <1>2
  <2>2. Sum(SubSeq(q, 1, 0)) = 0
    BY <2>1, SumNothing
  <2> QED BY <2>1, <2>2
<1>5. gone \in S /\ \A k \in S : gone >= k
  <2>1. S \in SUBSET (0..len)
    OBVIOUS
  <2> HIDE DEF S, len
  <2> QED BY <1>2, <1>4, <2>1, GreatestIs
<1> HIDE DEF gone
<1>6. gone \in 0..len /\ Sum(head) <= n
  BY <1>5
<1>7. head \in Seq(Int) /\ rest \in Seq(1..Cap) /\ q = head \o rest /\ Len(rest) = len - gone
  <2>1. gone \in 0..Len(q)
    BY <1>6
  <2>2. head \in Seq(Int)
    BY <1>2, <2>1, SplitAt
  <2>3. rest \in Seq(1..Cap) /\ q = head \o rest /\ Len(rest) = len - gone
    BY <1>2, <2>1, SplitAt
  <2> QED BY <2>2, <2>3
<1>8. rest \in Seq(Int)
  <2>1. Seq(1..Cap) \subseteq Seq(Int)
    BY SizesAreInts
  <2> HIDE DEF rest
  <2> QED BY <1>7, <2>1
<1>9. Sum(q) = Sum(head) + Sum(rest) /\ Sum(head) \in Int /\ Sum(rest) \in Int
  <2> HIDE DEF head, rest
  <2> QED BY <1>7, <1>8, SumConcat, SumAppend
<1>10. part \in Nat
  BY <1>6, <1>9
<1>11. m \in Nat /\ m = Cap * Len(rest)
  <2>1. Len(rest) \in Nat /\ len = gone + Len(rest) /\ gone \in Nat
    BY <1>2, <1>6, <1>7
  <2> HIDE DEF rest, len
  <2>2. Cap * len = Cap * gone + Cap * Len(rest) /\ Cap * gone \in Nat /\ Cap * Len(rest) \in Nat
    BY <1>2, <2>1
  <2> QED BY <1>3, <2>2
<1>12. r \in Seq(1..Cap) /\ Len(r) = Len(rest) /\ Sum(r) = t
  <2>1. CASE rest = <<>>
    <3>1. Sum(rest) = 0 /\ r = rest
      BY <2>1, SumNothing
    <3>2. t = 0
      <4> HIDE DEF head, rest
      <4> QED BY <3>1, <1>3, <1>6, <1>9
    <3> QED BY <3>1, <3>2, <1>7
  <2>2. CASE rest # <<>>
    <3> DEFINE h == q[gone + 1]
               tail == SubSeq(q, gone + 2, len)
    <3>1. gone + 1 \in 1..len /\ h \in 1..Cap
      <4>1. Len(rest) # 0
        BY <2>2, <1>7
      <4>2. gone + 1 \in 1..len
        BY <4>1, <1>2, <1>6, <1>7
      <4> QED BY <4>2, <1>2
    <3>2. SubSeq(q, 1, gone + 1) = Append(head, h)
      BY <3>1, <1>2, <1>6
    <3>3. Sum(SubSeq(q, 1, gone + 1)) > n
      <4>1. gone + 1 \notin S
        BY <1>5, <1>6
      <4>2. gone + 1 \in 0..len
        BY <3>1
      <4>3. ~(Sum(SubSeq(q, 1, gone + 1)) <= n)
        BY <4>1, <4>2
      <4>4. Sum(SubSeq(q, 1, gone + 1)) \in Int
        <5> DEFINE e == SubSeq(q, 1, gone + 1)
        <5>1. e \in Seq(Int)
          BY <3>1, <1>2
        <5> HIDE DEF e
        <5>2. Sum(e) \in Int
          BY <5>1, SumNothing
        <5> QED BY <5>2 DEF e
      <4> QED BY <4>3, <4>4
    <3>4. Sum(SubSeq(q, 1, gone + 1)) = Sum(head) + h
      <4>1. h \in Int /\ head \in Seq(Int)
        BY <3>1, <1>7
      <4> HIDE DEF head, h
      <4>2. Sum(Append(head, h)) = Sum(head) + h
        BY <4>1, SumAppend
      <4> QED BY <3>2, <4>2
    <3>5. h - part \in 1..Cap
      <4> DEFINE u == Sum(head)
      <4>1. u + h > n /\ u \in Int /\ u <= n /\ h \in 1..Cap /\ part = n - u
        BY <3>1, <3>3, <3>4, <1>6, <1>9
      <4> HIDE DEF u, part, h
      <4> QED BY <4>1, <1>2
    <3>6. rest = <<h>> \o tail /\ tail \in Seq(1..Cap)
      BY <3>1, <1>2, <1>6
    <3>7. r = <<h - part>> \o tail
      <4>1. rest[1] = h
        BY <3>1, <1>2, <1>6
      <4>2. r = [rest EXCEPT ![1] = h - part]
        BY <2>2, <4>1
      <4> HIDE DEF h, part, r, rest, tail
      <4> DEFINE z == h - part
      <4>3. z \in 1..Cap /\ r = [rest EXCEPT ![1] = z]
        BY <3>5, <4>2
      <4> HIDE DEF z
      <4>4. r = <<z>> \o tail
        <5> DEFINE Size == 1..Cap
        <5>1. tail \in Seq(Size) /\ h \in Size /\ z \in Size
          BY <3>1, <3>6, <4>3
        <5> HIDE DEF Size
        <5>2. [(<<h>> \o tail) EXCEPT ![1] = z] = <<z>> \o tail
          BY <5>1, HeadShrinks
        <5> QED BY <3>1, <3>6, <4>3, <5>2
      <4> QED BY <4>4 DEF z
    <3>8. tail \in Seq(Int)
      <4>1. Seq(1..Cap) \subseteq Seq(Int)
        BY SizesAreInts
      <4> HIDE DEF tail
      <4> QED BY <3>6, <4>1
    <3>9. \A z \in Int : Sum(<<z>>) = z
      <4> SUFFICES ASSUME NEW z \in Int PROVE Sum(<<z>>) = z
        OBVIOUS
      <4> DEFINE e == <<>>
      <4>1. e \in Seq(Int) /\ Append(e, z) = <<z>>
        OBVIOUS
      <4>2. Sum(e) = 0
        BY <1>2, SumAppend
      <4> HIDE DEF e
      <4>3. Sum(Append(e, z)) = 0 + z
        BY <4>1, <4>2, SumAppend
      <4> QED BY <4>1, <4>3
    <3> HIDE DEF tail, h, r, rest
    <3>10. Sum(rest) = h + Sum(tail) /\ Sum(tail) \in Int
      <4>1. <<h>> \in Seq(Int) /\ h \in Int
        BY <3>1
      <4>2. Sum(<<h>> \o tail) = Sum(<<h>>) + Sum(tail)
        BY <3>8, <4>1, SumConcat
      <4>3. Sum(tail) \in Int /\ Sum(<<h>>) = h
        BY <3>8, <3>9, <4>1, SumNothing
      <4> QED BY <3>6, <4>2, <4>3
    <3>11. Sum(r) = (h - part) + Sum(tail)
      <4> DEFINE z == h - part
      <4>1. z \in Int /\ <<z>> \in Seq(Int) /\ r = <<z>> \o tail
        BY <3>5, <3>7
      <4> HIDE DEF z
      <4>2. Sum(r) = z + Sum(tail)
        BY <3>8, <3>9, <4>1, SumConcat
      <4> QED BY <4>2 DEF z
    <3>12. Sum(r) = t
      <4> DEFINE u == Sum(head)
                 v == Sum(tail)
      <4>1. u \in Int /\ v \in Int /\ h \in Int /\ part = n - u /\ x.total = u + (h + v) /\ Sum(r) = (h - part) + v
        BY <1>3, <1>9, <3>1, <3>10, <3>11
      <4> HIDE DEF u, v, part
      <4> QED BY <4>1
    <3>13. r \in Seq(1..Cap) /\ Len(r) = Len(rest)
      <4> DEFINE z == h - part
      <4>1. z \in 1..Cap /\ r = <<z>> \o tail /\ rest = <<h>> \o tail
        BY <3>5, <3>6, <3>7
      <4> HIDE DEF z
      <4> QED BY <4>1, <3>1, <3>6
    <3> QED BY <3>12, <3>13
  <2> QED BY <2>1, <2>2
<1>13. t \in Nat
  BY <1>3
<1> HIDE DEF r, t, m
<1>14. /\ y \in RelayStates /\ y.queue = r /\ y.total = t /\ y.memory = m
       /\ y.kernel = x.kernel /\ y.state = x.state /\ y.pstate = x.pstate /\ y.failed = x.failed
  BY <1>11, <1>12, <1>13 DEF Accounted, RelayStates
<1> HIDE DEF y
<1>15. Accounted(y)
  BY <1>11, <1>12, <1>14 DEF Accounted
<1> QED BY <1>1, <1>14, <1>15 DEF t

-----------------------------------------------------------------------------
(* Receiving from the upstream                                             *)

\* y is x but for its flags.
Same(x, y) ==
  /\ Accounted(y) /\ y.queue = x.queue /\ y.total = x.total /\ y.kernel = x.kernel
  /\ y.state = x.state /\ y.pstate = x.pstate /\ y.failed = x.failed

\* A flag is set.
LEMMA SetFlag ==
  ASSUME NEW x, Accounted(x)
  PROVE  /\ Same(x, [x EXCEPT !.paused = TRUE])
         /\ Same(x, [x EXCEPT !.paused = FALSE])
         /\ Same(x, [x EXCEPT !.pending = TRUE])
         /\ Same(x, [x EXCEPT !.pending = FALSE])
         /\ Same(x, [x EXCEPT !.armed = TRUE])
         /\ Same(x, [x EXCEPT !.armed = FALSE])
<1>1. Same(x, [x EXCEPT !.paused = TRUE])
  BY DEF Same, Accounted, RelayStates
<1>2. Same(x, [x EXCEPT !.paused = FALSE])
  BY DEF Same, Accounted, RelayStates
<1>3. Same(x, [x EXCEPT !.pending = TRUE])
  BY DEF Same, Accounted, RelayStates
<1>4. Same(x, [x EXCEPT !.pending = FALSE])
  BY DEF Same, Accounted, RelayStates
<1>5. Same(x, [x EXCEPT !.armed = TRUE])
  BY DEF Same, Accounted, RelayStates
<1>6. Same(x, [x EXCEPT !.armed = FALSE])
  BY DEF Same, Accounted, RelayStates
<1> QED BY <1>1, <1>2, <1>3, <1>4, <1>5, <1>6

\* What a flag does not change.
LEMMA SameMoved == ASSUME NEW x, NEW y, Accounted(x), Same(x, y) PROVE Moved(x, y)
<1>1. x.kernel \in Nat
  BY DEF Accounted, RelayStates
<1> QED BY <1>1 DEF Same, Moved

\* Another field is set.
LEMMA SetField ==
  ASSUME NEW x, Accounted(x)
  PROVE  /\ LET y == [x EXCEPT !.pstate = "COMPLETE"] IN
              Moved(x, y) /\ y.pstate = "COMPLETE" /\ y.kernel = x.kernel /\ y.failed = x.failed
         /\ LET y == [x EXCEPT !.failed = TRUE] IN
              Moved(x, y) /\ y.pstate = x.pstate /\ y.kernel = x.kernel
         /\ \A v \in Nat : LET y == [x EXCEPT !.kernel = v] IN
              Accounted(y) /\ y.total = x.total /\ y.state = x.state
              /\ y.pstate = x.pstate /\ y.kernel = v /\ y.failed = x.failed
<1>1. x.kernel \in Nat
  BY DEF Accounted, RelayStates
<1>2. LET y == [x EXCEPT !.pstate = "COMPLETE"] IN
        Moved(x, y) /\ y.pstate = "COMPLETE" /\ y.kernel = x.kernel /\ y.failed = x.failed
  BY <1>1 DEF Accounted, RelayStates, Moved
<1>3. LET y == [x EXCEPT !.failed = TRUE] IN
        Moved(x, y) /\ y.pstate = x.pstate /\ y.kernel = x.kernel
  <2> DEFINE y == [x EXCEPT !.failed = TRUE]
  <2>1. /\ y \in RelayStates /\ y.queue = x.queue /\ y.total = x.total /\ y.memory = x.memory
        /\ y.kernel = x.kernel /\ y.state = x.state /\ y.pstate = x.pstate
    BY DEF Accounted, RelayStates
  <2> HIDE DEF y
  <2>2. Moved(x, y) /\ y.pstate = x.pstate /\ y.kernel = x.kernel
    BY <1>1, <2>1 DEF Accounted, Moved
  <2> QED BY <2>2 DEF y
<1>4. \A v \in Nat : LET y == [x EXCEPT !.kernel = v] IN
        Accounted(y) /\ y.total = x.total /\ y.state = x.state
        /\ y.pstate = x.pstate /\ y.kernel = v /\ y.failed = x.failed
  BY DEF Accounted, RelayStates
<1> QED BY <1>2, <1>3, <1>4

\* The state of the connection is set.
LEMMA SetState ==
  ASSUME NEW x, Accounted(x)
  PROVE  /\ LET y == [x EXCEPT !.state = "CLOSING"] IN
              Accounted(y) /\ y.queue = x.queue /\ y.total = x.total /\ y.state = "CLOSING"
              /\ y.pstate = x.pstate /\ y.kernel = x.kernel /\ y.failed = x.failed
         /\ LET y == [x EXCEPT !.state = "DRAINED"] IN
              Accounted(y) /\ y.queue = x.queue /\ y.total = x.total /\ y.state = "DRAINED"
              /\ y.pstate = x.pstate /\ y.kernel = x.kernel /\ y.failed = x.failed
         /\ LET y == [x EXCEPT !.state = "ABORTED"] IN
              Accounted(y) /\ y.queue = x.queue /\ y.total = x.total /\ y.state = "ABORTED"
              /\ y.pstate = x.pstate /\ y.kernel = x.kernel /\ y.failed = x.failed
BY DEF Accounted, RelayStates

\* The smaller of two numbers.
LEMMA Smaller ==
  ASSUME NEW a \in Nat, NEW b \in Nat
  PROVE  Min({a, b}) = IF a <= b THEN a ELSE b
<1>1. {a, b} \in SUBSET Nat /\ {a, b} # {}
  OBVIOUS
<1> DEFINE m == Min({a, b})
<1>2. m \in {a, b} /\ m <= a /\ m <= b
  BY <1>1, LeastIs
<1> HIDE DEF m
<1>3. m = IF a <= b THEN a ELSE b
  BY <1>2
<1> QED BY <1>3 DEF m

\* What k buffers take.
LEMMA TakenIs ==
  ASSUME NEW x, Accounted(x), NEW k \in Nat
  PROVE  /\ Taken(x, k) = IF x.kernel <= k * Cap THEN x.kernel ELSE k * Cap
         /\ k * Cap \in Nat /\ x.kernel \in Nat
         /\ Taken(x, k) \in Nat /\ Taken(x, k) <= x.kernel
<1>1. x.kernel \in Nat /\ Cap \in Nat
  BY RelayAssumption DEF Accounted, RelayStates, RelayAssumption
<1>2. k * Cap \in Nat
  BY <1>1
<1> DEFINE c == k * Cap
<1>3. Taken(x, k) = Min({x.kernel, c})
  BY DEF Taken
<1>4. c \in Nat
  BY <1>2
<1> HIDE DEF c
<1>5. Taken(x, k) = IF x.kernel <= c THEN x.kernel ELSE c
  BY <1>1, <1>3, <1>4, Smaller
<1> QED BY <1>1, <1>4, <1>5 DEF c

\* The relay after each of n buffers of the m that are taken.
Queues(g, x, m, n) ==
  g = [k \in 0..n |-> IF k = 0 THEN [x EXCEPT !.kernel = @ - Taken(x, m)]
                      ELSE Queue(g[k - 1], Taken(x, k) - Taken(x, k - 1))]

LEMMA QueuesExist == ASSUME NEW x, NEW m, NEW n \in Nat PROVE \E g : Queues(g, x, m, n)
<1> DEFINE First == [x EXCEPT !.kernel = @ - Taken(x, m)]
           Then(y, k) == Queue(y, Taken(x, k) - Taken(x, k - 1))
           Good == {j \in Nat : \E g : Queues(g, x, m, j)}
<1>1. \A g, j : Queues(g, x, m, j)
                 <=> g = [k \in 0..j |-> IF k = 0 THEN First ELSE Then(g[k - 1], k)]
  BY DEF Queues
<1> HIDE DEF First, Then
<1>2. 0 \in Good
  <2> DEFINE g == [k \in 0..0 |-> First]
  <2>1. g = [k \in 0..0 |-> IF k = 0 THEN First ELSE Then(g[k - 1], k)]
    OBVIOUS
  <2> HIDE DEF g
  <2> QED BY <1>1, <2>1
<1>3. ASSUME NEW j \in Good PROVE j + 1 \in Good
  <2>1. PICK f : f = [k \in 0..j |-> IF k = 0 THEN First ELSE Then(f[k - 1], k)]
    BY <1>1
  <2>2. j \in Nat
    OBVIOUS
  <2> DEFINE g == [k \in 0..j + 1 |-> IF k = j + 1 THEN Then(f[j], j + 1) ELSE f[k]]
  <2>3. (\A k \in 0..j : g[k] = f[k]) /\ g[j + 1] = Then(f[j], j + 1)
    BY <2>2
  <2>4. \A k \in 0..j : f[k] = IF k = 0 THEN First ELSE Then(f[k - 1], k)
    BY <2>1
  <2>5. ASSUME NEW k \in 0..j + 1 PROVE g[k] = IF k = 0 THEN First ELSE Then(g[k - 1], k)
    <3> HIDE DEF g
    <3>1. CASE k = j + 1
      <4>1. k - 1 = j /\ k # 0 /\ j \in 0..j
        BY <2>2, <3>1
      <4> QED BY <2>3, <3>1, <4>1
    <3>2. CASE k # j + 1 /\ k # 0
      <4>1. k \in 0..j /\ k - 1 \in 0..j
        BY <2>2, <3>2
      <4> QED BY <2>3, <2>4, <3>2, <4>1
    <3>3. CASE k = 0
      <4>1. k \in 0..j
        BY <2>2, <3>3
      <4> QED BY <2>3, <2>4, <3>3, <4>1
    <3> QED BY <3>1, <3>2, <3>3
  <2>6. g = [k \in 0..j + 1 |-> g[k]]
    OBVIOUS
  <2> HIDE DEF g
  <2>7. g = [k \in 0..j + 1 |-> IF k = 0 THEN First ELSE Then(g[k - 1], k)]
    BY <2>5, <2>6
  <2>8. Queues(g, x, m, j + 1)
    BY <1>1, <2>7
  <2> QED BY <2>2, <2>8
<1>4. Good = Nat
  <2>1. Good \in SUBSET Nat
    OBVIOUS
  <2> HIDE DEF Good
  <2> QED BY <1>2, <1>3, <2>1, AllOfNat
<1> QED BY <1>4

\* The m-th buffer of m is queued, each buffer but the last one full.
LEMMA QueuesIs ==
  ASSUME NEW x, Accounted(x), NEW m \in Nat,
         \A k \in 0..m - 1 : Taken(x, k) # x.kernel, NEW g, Queues(g, x, m, m)
  PROVE  /\ Accounted(g[m]) /\ g[m].kernel = x.kernel - Taken(x, m)
         /\ g[m].total = x.total + Taken(x, m)
         /\ g[m].state = x.state /\ g[m].pstate = x.pstate /\ g[m].failed = x.failed
<1> DEFINE Is(k) == /\ Accounted(g[k]) /\ g[k].kernel = x.kernel - Taken(x, m)
                    /\ g[k].total = x.total + Taken(x, k)
                    /\ g[k].state = x.state /\ g[k].pstate = x.pstate /\ g[k].failed = x.failed
           Good == {k \in Nat : k <= m => Is(k)}
           First == [x EXCEPT !.kernel = @ - Taken(x, m)]
           Step(k) == Taken(x, k) - Taken(x, k - 1)
<1>1. g[0] = First /\ \A k \in 1..m : g[k] = Queue(g[k - 1], Step(k))
  <2>1. g = [k \in 0..m |-> IF k = 0 THEN First ELSE Queue(g[k - 1], Step(k))]
    BY DEF Queues
  <2> HIDE DEF First, Step
  <2>2. 0 \in 0..m /\ \A k \in 1..m : k \in 0..m /\ k # 0
    OBVIOUS
  <2> QED BY <2>1, <2>2
<1>2. 0 \in Good
  <2> DEFINE v == x.kernel - Taken(x, m)
  <2>1. v \in Nat /\ x.total \in Nat
    <3> DEFINE t == Taken(x, m)
    <3>1. t \in Nat /\ t <= x.kernel /\ x.kernel \in Nat /\ x.total \in Nat
      BY TakenIs DEF Accounted, RelayStates
    <3> HIDE DEF t
    <3>2. x.kernel - t \in Nat
      BY <3>1
    <3> QED BY <3>1, <3>2 DEF t
  <2>2. Taken(x, 0) = 0
    <3>1. 0 * Cap = 0
      BY RelayAssumption DEF RelayAssumption
    <3>2. Taken(x, 0) = (IF x.kernel <= 0 * Cap THEN x.kernel ELSE 0 * Cap) /\ x.kernel \in Nat
      BY TakenIs
    <3> QED BY <3>1, <3>2
  <2>3. First = [x EXCEPT !.kernel = v]
    OBVIOUS
  <2> HIDE DEF v, First
  <2>4. /\ Accounted(First) /\ First.total = x.total /\ First.state = x.state
        /\ First.pstate = x.pstate /\ First.kernel = v /\ First.failed = x.failed
    <3>1. \A u \in Nat : LET y == [x EXCEPT !.kernel = u] IN
            Accounted(y) /\ y.total = x.total /\ y.state = x.state
            /\ y.pstate = x.pstate /\ y.kernel = u /\ y.failed = x.failed
      BY SetField
    <3> QED BY <2>1, <2>3, <3>1
  <2>5. x.total = x.total + Taken(x, 0)
    BY <2>1, <2>2
  <2>6. Is(0)
    BY <1>1, <2>4, <2>5 DEF v
  <2> QED BY <2>6
<1>3. ASSUME NEW k \in Good PROVE k + 1 \in Good
  <2> SUFFICES ASSUME k + 1 <= m PROVE Is(k + 1)
    OBVIOUS
  <2>1. k \in Nat /\ Is(k) /\ k + 1 \in 1..m /\ k \in 0..m - 1 /\ (k + 1) - 1 = k
    OBVIOUS
  <2> DEFINE n == Taken(x, k + 1) - Taken(x, k)
  <2>2. g[k + 1] = Queue(g[k], n)
    <3>1. g[k + 1] = Queue(g[(k + 1) - 1], Step(k + 1))
      BY <1>1, <2>1
    <3> QED BY <2>1, <3>1
  <2>3. n \in 1..Cap
    <3> DEFINE a == k * Cap
               b == (k + 1) * Cap
    <3>1. Cap \in Nat \ {0} /\ b = a + Cap
      BY <2>1, RelayAssumption DEF RelayAssumption
    <3>2. /\ Taken(x, k) = (IF x.kernel <= a THEN x.kernel ELSE a)
          /\ a \in Nat /\ x.kernel \in Nat
      BY <2>1, TakenIs
    <3>3. k + 1 \in Nat
      BY <2>1
    <3>4. Taken(x, k + 1) = (IF x.kernel <= b THEN x.kernel ELSE b)
      BY <3>3, TakenIs
    <3>5. ~(x.kernel <= a)
      BY <2>1, <3>2
    <3> HIDE DEF a, b
    <3> QED BY <3>1, <3>2, <3>4, <3>5
  <2> HIDE DEF n, Step
  <2>4. /\ Accounted(g[k + 1]) /\ g[k + 1].total = g[k].total + n
        /\ g[k + 1].kernel = g[k].kernel
        /\ g[k + 1].state = g[k].state /\ g[k + 1].pstate = g[k].pstate
        /\ g[k + 1].failed = g[k].failed
    BY <2>1, <2>2, <2>3, QueueIs
  <2>5. g[k].total + n = x.total + Taken(x, k + 1)
    <3>1. Taken(x, k) \in Nat /\ Taken(x, k + 1) \in Nat /\ x.total \in Nat
      <4>1. k + 1 \in Nat
        BY <2>1
      <4> QED BY <4>1, <2>1, TakenIs DEF Accounted, RelayStates
    <3>2. g[k].total = x.total + Taken(x, k)
      BY <2>1
    <3> QED BY <3>1, <3>2 DEF n
  <2> QED BY <2>1, <2>4, <2>5
<1>4. Good = Nat
  <2>1. Good \in SUBSET Nat
    OBVIOUS
  <2> HIDE DEF Good
  <2> QED BY <1>2, <1>3, <2>1, AllOfNat
<1>5. m \in Good
  BY <1>4
<1> QED BY <1>5

\* y is x after a receive with f buffers left.
Received(x, y, f) ==
  /\ Moved(x, y)
  /\ y.pstate = x.pstate \/ (y.pstate = "COMPLETE" /\ y.kernel = 0 /\ coming = 0)
  /\ y.failed => x.failed \/ f <= Total

\* A receive moves units, is complete only at the end, and fails only for want
\* of a buffer: what it takes before it pauses never exceeds the limit.
LEMMA ReceiveIs ==
  ASSUME coming \in Nat, ended # "open" => coming = 0,
         NEW x, Accounted(x), x.kernel <= Total, NEW l \in Limits, NEW f \in Nat
  PROVE  Received(x, Receive(x, l, f), f)
<1> DEFINE S == {k \in 0..Total : \/ Pauses(x, k, l) \/ k = f
                                  \/ Taken(x, k) = x.kernel \/ Refuses(x, k, l)}
           m == Min(S)
           g == CHOOSE g : Queues(g, x, m, m)
           y == g[m]
           done == sized /\ coming + y.kernel = 0
           a == [y EXCEPT !.pstate = "COMPLETE"]
           b == [y EXCEPT !.paused = TRUE]
           c == [y EXCEPT !.failed = TRUE]
           d == [y EXCEPT !.failed = TRUE, !.kernel = x.kernel - Taken(x, m + 1)]
<1>1. Receive(x, l, f) =
        IF m > 0 /\ done THEN a
        ELSE IF Pauses(x, m, l) THEN b
        ELSE IF m = f THEN c
        ELSE IF y.kernel > 0 THEN d
        ELSE IF ended # "open" THEN a
        ELSE y
  BY DEF Receive, Queues
<1>2. Total \in Nat /\ Cap \in Nat \ {0} /\ l \in Nat /\ l >= 4 * Cap
  BY RelayAssumption DEF RelayAssumption
<1>3. Total \in S
  <2>1. Total <= Total * Cap
    <3> DEFINE e == Cap - 1
    <3>1. e \in Nat /\ Cap = e + 1
      BY <1>2
    <3> HIDE DEF e
    <3>2. Total * Cap = Total * e + Total /\ Total * e \in Nat
      BY <1>2, <3>1
    <3> QED BY <1>2, <3>2
  <2>2. Total * Cap \in Nat /\ x.kernel \in Nat
    BY <1>2, TakenIs
  <2>3. Taken(x, Total) = x.kernel
    <3> DEFINE e == Total * Cap
    <3>1. Taken(x, Total) = IF x.kernel <= e THEN x.kernel ELSE e
      BY <1>2, TakenIs
    <3>2. e \in Nat /\ Total <= e
      BY <2>1, <2>2
    <3> HIDE DEF e
    <3> QED BY <1>2, <2>2, <3>1, <3>2
  <2> QED BY <1>2, <2>3
<1>4. m \in S /\ \A k \in S : m <= k
  <2>1. S \in SUBSET Nat
    OBVIOUS
  <2> HIDE DEF S
  <2> QED BY <1>3, <2>1, LeastIs
<1> HIDE DEF m
<1>5. m \in 0..Total /\ (Pauses(x, m, l) \/ m = f \/ Taken(x, m) = x.kernel \/ Refuses(x, m, l))
  BY <1>4
<1>6. \A k \in 0..m - 1 : Taken(x, k) # x.kernel
  <2> SUFFICES ASSUME NEW k \in 0..m - 1, Taken(x, k) = x.kernel PROVE FALSE
    OBVIOUS
  <2>1. k \in S
    BY <1>2, <1>5
  <2>2. m <= k
    BY <1>4, <2>1
  <2> QED BY <1>5, <2>2
<1> HIDE DEF S
<1>7. m \in Nat
  BY <1>2, <1>5
<1>8. Queues(g, x, m, m)
  BY <1>7, QueuesExist
<1> HIDE DEF g
<1>9. /\ Accounted(y) /\ y.kernel = x.kernel - Taken(x, m)
      /\ y.total = x.total + Taken(x, m)
      /\ y.state = x.state /\ y.pstate = x.pstate /\ y.failed = x.failed
  BY <1>6, <1>7, <1>8, QueuesIs
<1> HIDE DEF y
<1>10. Moved(x, y) /\ y.kernel \in Nat
  <2> DEFINE t == Taken(x, m)
  <2>1. t \in Nat /\ t <= x.kernel /\ x.kernel \in Nat /\ x.total \in Nat
    BY <1>7, TakenIs DEF Accounted, RelayStates
  <2>2. y.kernel = x.kernel - t /\ y.total = x.total + t
    BY <1>9
  <2> HIDE DEF t
  <2>3. y.total + y.kernel = x.total + x.kernel /\ y.kernel <= x.kernel /\ y.kernel \in Nat
    BY <2>1, <2>2
  <2> QED BY <1>9, <2>3 DEF Moved
<1>11. ~Pauses(x, m, l) => ~Refuses(x, m, l)
  <2> DEFINE e == m * Cap
             u == x.memory
  <2>1. e \in Nat /\ (m + 1) * Cap = e + Cap /\ u \in Nat
    BY <1>2, <1>7 DEF Accounted, RelayStates
  <2>2. /\ Pauses(x, m, l) <=> u + e >= (l * 3) \div 4
        /\ Refuses(x, m, l) <=> u + (e + Cap) > l
    BY <2>1 DEF Pauses, Refuses, Hwm
  <2> HIDE DEF e, u
  <2> QED BY <1>2, <2>1, <2>2
<1>12. y.kernel = 0 <=> Taken(x, m) = x.kernel
  <2> DEFINE t == Taken(x, m)
  <2>1. t \in Nat /\ x.kernel \in Nat /\ y.kernel = x.kernel - t
    BY <1>7, <1>9, TakenIs
  <2> HIDE DEF t
  <2>2. y.kernel = 0 <=> t = x.kernel
    BY <2>1
  <2> QED BY <2>2 DEF t
<1>13. ASSUME y.kernel = 0, coming = 0 PROVE Received(x, a, f)
  <2>1. Moved(y, a) /\ a.pstate = "COMPLETE" /\ a.kernel = y.kernel /\ a.failed = y.failed
    <3>1. Accounted(y)
      BY <1>9
    <3> QED BY <3>1, SetField
  <2> HIDE DEF a
  <2>2. Moved(x, a)
    BY <1>10, <2>1 DEF Moved
  <2> QED BY <1>9, <1>13, <2>1, <2>2 DEF Received
<1>14. Received(x, b, f)
  <2>1. Accounted(y) /\ Same(y, b)
    BY <1>9, SetFlag
  <2> HIDE DEF b
  <2>3. Moved(y, b)
    BY <2>1, SameMoved
  <2>2. Moved(x, b)
    BY <1>10, <2>1, <2>3 DEF Moved, Same
  <2> QED BY <1>9, <2>1, <2>2 DEF Received, Same
<1>15. ASSUME f = m PROVE Received(x, c, f)
  <2>1. Moved(y, c) /\ c.pstate = y.pstate /\ c.kernel = y.kernel
    BY <1>9, SetField
  <2> HIDE DEF c
  <2>2. Moved(x, c)
    BY <1>10, <2>1 DEF Moved
  <2>3. f <= Total
    BY <1>2, <1>5, <1>15
  <2> QED BY <1>9, <2>1, <2>2, <2>3 DEF Received
<1>16. Received(x, y, f)
  BY <1>9, <1>10 DEF Received
<1>17. ASSUME ~Pauses(x, m, l), m # f PROVE ~(y.kernel > 0)
  <2>1. Taken(x, m) = x.kernel
    BY <1>5, <1>11, <1>17
  <2>2. y.kernel = 0
    BY <1>12, <2>1
  <2> QED BY <2>2
<1>18. ASSUME m > 0 /\ done PROVE y.kernel = 0 /\ coming = 0
  <2>1. coming + y.kernel = 0
    BY <1>18
  <2> QED BY <1>10, <2>1
<1>19. ASSUME ~(y.kernel > 0), ended # "open" PROVE y.kernel = 0 /\ coming = 0
  BY <1>10, <1>19
<1> HIDE DEF a, b, c, d, done
<1> DEFINE r == Receive(x, l, f)
<1>20. r = IF m > 0 /\ done THEN a
           ELSE IF Pauses(x, m, l) THEN b
           ELSE IF m = f THEN c
           ELSE IF y.kernel > 0 THEN d
           ELSE IF ended # "open" THEN a
           ELSE y
  BY <1>1
<1> HIDE DEF r
<1>21. Received(x, r, f)
  <2>1. CASE m > 0 /\ done
    BY <2>1, <1>13, <1>18, <1>20
  <2>2. CASE ~(m > 0 /\ done) /\ Pauses(x, m, l)
    BY <2>2, <1>14, <1>20
  <2>3. CASE ~(m > 0 /\ done) /\ ~Pauses(x, m, l) /\ m = f
    BY <2>3, <1>15, <1>20
  <2>4. CASE ~(m > 0 /\ done) /\ ~Pauses(x, m, l) /\ m # f
    <3>1. ~(y.kernel > 0)
      BY <2>4, <1>17
    <3>2. r = IF ended # "open" THEN a ELSE y
      BY <2>4, <3>1, <1>20
    <3>3. CASE ended # "open"
      BY <3>1, <3>2, <3>3, <1>13, <1>19
    <3>4. CASE ended = "open"
      BY <3>2, <3>4, <1>16
    <3> QED BY <3>3, <3>4
  <2> QED BY <2>1, <2>2, <2>3, <2>4
<1> QED BY <1>21 DEF r

-----------------------------------------------------------------------------
(* The handlers                                                            *)

\* A connection is asked to close once its queue is written.
LEMMA DrainCloseIs ==
  ASSUME NEW x, Accounted(x)
  PROVE  /\ Accounted(DrainClose(x)) /\ DrainClose(x).state = "CLOSING"
         /\ DrainClose(x).queue = x.queue /\ DrainClose(x).total = x.total
         /\ DrainClose(x).kernel = x.kernel /\ DrainClose(x).pstate = x.pstate
         /\ DrainClose(x).failed = x.failed
<1> DEFINE y == [x EXCEPT !.state = "CLOSING"]
<1>1. /\ Accounted(y) /\ y.total = x.total /\ y.state = "CLOSING"
      /\ y.pstate = x.pstate /\ y.kernel = x.kernel /\ y.failed = x.failed /\ y.queue = x.queue
  BY SetState
<1>2. DrainClose(x) = IF x.state = "CLOSING" THEN x ELSE Schedule(y)
  BY DEF DrainClose
<1> HIDE DEF y
<1> QED BY <1>1, <1>2, ScheduleIs

\* y is x after what a drain of the queue may bring.
Drained(x, y) ==
  /\ Accounted(y)
  /\ y.total + y.kernel = x.total + x.kernel /\ y.kernel <= x.kernel
  /\ \/ y.state = x.state /\ y.pstate = x.pstate
     \/ y.state = "CLOSING" /\ y.pstate = "COMPLETE"
  /\ y.pstate = x.pstate \/ (y.pstate = "COMPLETE" /\ y.kernel = 0 /\ coming = 0)

\* The queue has drained: reads resume when it is short enough.
LEMMA OnDrainIs ==
  ASSUME coming \in Nat, ended # "open" => coming = 0,
         NEW x, Accounted(x), x.kernel <= Total, NEW l \in Limits, NEW f \in Nat
  PROVE  Drained(x, OnDrain(x, l, f))
<1> DEFINE w == [x EXCEPT !.paused = FALSE]
           y == Receive(w, l, f)
           z == DrainClose(y)
<1>1. OnDrain(x, l, f) =
        IF x.paused /\ x.memory <= Lwm(l) THEN (IF y.pstate = "COMPLETE" THEN z ELSE y) ELSE x
  BY DEF OnDrain, Resume
<1>2. Accounted(w) /\ Moved(x, w) /\ w.pstate = x.pstate /\ w.kernel = x.kernel
  <2>1. Same(x, w)
    BY SetFlag
  <2> QED BY <2>1, SameMoved DEF Same
<1> HIDE DEF w
<1>3. Received(w, y, f)
  BY <1>2, ReceiveIs
<1> HIDE DEF y
<1>4. Moved(x, y) /\ (y.pstate = x.pstate \/ (y.pstate = "COMPLETE" /\ y.kernel = 0 /\ coming = 0))
  BY <1>2, <1>3 DEF Moved, Received
<1>5. /\ Accounted(z) /\ z.state = "CLOSING" /\ z.total = y.total /\ z.kernel = y.kernel
      /\ z.pstate = y.pstate
  BY <1>4, DrainCloseIs DEF Moved
<1> HIDE DEF z
<1>6. y.pstate = "COMPLETE" => Drained(x, z)
  BY <1>4, <1>5 DEF Drained, Moved
<1>7. y.pstate # "COMPLETE" => Drained(x, y)
  BY <1>4 DEF Drained, Moved
<1>8. Drained(x, x)
  <2>1. x.kernel \in Nat
    BY DEF Accounted, RelayStates
  <2> QED BY <2>1 DEF Drained
<1> DEFINE r == OnDrain(x, l, f)
<1>9. r = IF x.paused /\ x.memory <= Lwm(l) THEN (IF y.pstate = "COMPLETE" THEN z ELSE y) ELSE x
  BY <1>1
<1> HIDE DEF r
<1>10. Drained(x, r)
  BY <1>6, <1>7, <1>8, <1>9
<1> QED BY <1>10 DEF r

\* y is x after a write of n units.
Written(x, y, n) ==
  /\ Accounted(y)
  /\ y.total + y.kernel + n = x.total + x.kernel /\ y.kernel <= x.kernel
  /\ \/ y.state = x.state /\ y.pstate = x.pstate
     \/ y.state = "CLOSING" /\ y.pstate = "COMPLETE"
     \/ y.state = "DRAINED" /\ x.state = "CLOSING" /\ y.pstate = x.pstate /\ y.queue = <<>>
  /\ y.pstate = x.pstate \/ (y.pstate = "COMPLETE" /\ y.kernel = 0 /\ coming = 0)

\* A write takes its units from the queue and may resume the reads.
LEMMA WriteIs ==
  ASSUME coming \in Nat, ended # "open" => coming = 0,
         NEW x, Accounted(x), x.kernel <= Total, NEW n \in Nat, n <= x.total, n <= Budget,
         NEW l \in Limits, NEW f \in Nat
  PROVE  Written(x, Write(x, n, l, f), n)
<1> DEFINE w == [x EXCEPT !.pending = FALSE]
           y == Consume(w, n)
           i == [y EXCEPT !.armed = FALSE]
           j == [y EXCEPT !.armed = TRUE]
           idle == OnDrain(i, l, f)
           busy == OnDrain(j, l, f)
           d == [y EXCEPT !.armed = FALSE, !.state = "DRAINED"]
           p == [idle EXCEPT !.pending = TRUE]
           s == Schedule(idle)
           r == Write(x, n, l, f)
<1>1. r = CASE y.queue = <<>> /\ y.state = "CLOSING" -> d
            [] y.queue = <<>> /\ y.state # "CLOSING" ->
                 IF n = 0 THEN i ELSE IF idle.queue # <<>> THEN s ELSE idle
            [] y.queue # <<>> /\ n = Budget -> p
            [] y.queue # <<>> /\ n < Budget -> IF n > 0 THEN busy ELSE j
  BY DEF Write
<1>2. Same(x, w)
  BY SetFlag
<1> HIDE DEF w
<1>3. /\ Accounted(y) /\ y.total = x.total - n /\ y.kernel = x.kernel /\ y.state = x.state
      /\ y.pstate = x.pstate
  BY <1>2, ConsumeIs DEF Same
<1> HIDE DEF y
<1>4. Same(y, i) /\ Same(y, j)
  BY <1>3, SetFlag
<1>5. /\ Accounted(d) /\ d.total = y.total /\ d.kernel = y.kernel /\ d.state = "DRAINED"
      /\ d.pstate = y.pstate /\ d.queue = y.queue
  <2>1. d = [i EXCEPT !.state = "DRAINED"]
    BY <1>3 DEF Accounted, RelayStates
  <2>2. Accounted(i)
    BY <1>4 DEF Same
  <2> HIDE DEF i, d
  <2> QED BY <1>4, <2>1, <2>2, SetState DEF Same
<1> HIDE DEF i, j, d
<1>6. i.kernel <= Total /\ j.kernel <= Total /\ x.kernel \in Nat /\ x.total \in Nat
  BY <1>3, <1>4 DEF Same, Accounted, RelayStates
<1>7. Drained(i, idle) /\ Drained(j, busy)
  BY <1>4, <1>6, OnDrainIs DEF Same
<1> HIDE DEF idle, busy
<1>8. Same(idle, p)
  BY <1>7, SetFlag DEF Drained
<1>9. /\ Accounted(s) /\ s.total = idle.total /\ s.kernel = idle.kernel /\ s.state = idle.state
      /\ s.pstate = idle.pstate
  BY <1>7, ScheduleIs DEF Drained
<1> HIDE DEF p, s
<1>10. \A z : (Drained(i, z) \/ Drained(j, z)) => Written(x, z, n)
  <2> SUFFICES ASSUME NEW z, NEW h \in {i, j}, Drained(h, z) PROVE Written(x, z, n)
    OBVIOUS
  <2>1. /\ h.total + h.kernel = y.total + y.kernel /\ h.kernel = y.kernel /\ h.state = y.state
        /\ h.pstate = y.pstate
    BY <1>4 DEF Same
  <2>2. /\ h.kernel = x.kernel /\ h.total + h.kernel = (x.total - n) + x.kernel
        /\ h.state = x.state /\ h.pstate = x.pstate
    BY <1>3, <2>1
  <2>3. /\ Accounted(z) /\ z.kernel <= x.kernel
        /\ z.total + z.kernel = (x.total - n) + x.kernel
        /\ z.total \in Nat /\ z.kernel \in Nat
    BY <2>2 DEF Drained, Accounted, RelayStates
  <2>4. z.total + z.kernel + n = x.total + x.kernel
    BY <1>6, <2>3
  <2>5. /\ \/ z.state = x.state /\ z.pstate = x.pstate
           \/ z.state = "CLOSING" /\ z.pstate = "COMPLETE"
        /\ z.pstate = x.pstate \/ (z.pstate = "COMPLETE" /\ z.kernel = 0 /\ coming = 0)
    BY <2>2 DEF Drained
  <2> QED BY <2>3, <2>4, <2>5 DEF Written
<1>11. Written(x, idle, n) /\ Written(x, busy, n)
  BY <1>7, <1>10
<1>12. Written(x, p, n) /\ Written(x, s, n)
  <2>1. \/ idle.state = x.state /\ idle.pstate = x.pstate
        \/ idle.state = "CLOSING" /\ idle.pstate = "COMPLETE"
    <3>1. Drained(i, idle) /\ i.state = x.state /\ i.pstate = x.pstate
      BY <1>3, <1>4, <1>7 DEF Same
    <3> QED BY <3>1 DEF Drained
  <2> QED BY <1>8, <1>9, <1>11, <2>1 DEF Written, Same
<1>13. Written(x, i, n) /\ Written(x, j, n)
  <2>1. Drained(i, i) /\ Drained(j, j)
    BY <1>3, <1>4, <1>6 DEF Drained, Same
  <2> QED BY <1>10, <2>1
<1>14. y.queue = <<>> /\ y.state = "CLOSING" => Written(x, d, n)
  <2>1. d.total + d.kernel + n = x.total + x.kernel /\ d.kernel <= x.kernel
    BY <1>3, <1>5, <1>6
  <2> QED BY <1>3, <1>5, <2>1 DEF Written
<1>15. n = Budget \/ n < Budget
  BY RelayAssumption DEF RelayAssumption
<1> HIDE DEF r
<1>16. CASE y.queue = <<>> /\ y.state = "CLOSING"
  <2>1. r = d
    BY <1>1, <1>16
  <2> QED BY <2>1, <1>14, <1>16 DEF r
<1>17. CASE y.queue = <<>> /\ y.state # "CLOSING"
  <2>1. r = IF n = 0 THEN i ELSE IF idle.queue # <<>> THEN s ELSE idle
    BY <1>1, <1>17
  <2>2. r \in {i, s, idle}
    BY <2>1
  <2> QED BY <2>2, <1>11, <1>12, <1>13 DEF r
<1>18. CASE y.queue # <<>> /\ n = Budget
  <2>1. r = p
    BY <1>1, <1>18
  <2> QED BY <2>1, <1>12 DEF r
<1>19. CASE y.queue # <<>> /\ n < Budget
  <2>1. r = IF n > 0 THEN busy ELSE j
    <3>1. n # Budget
      BY <1>19, RelayAssumption DEF RelayAssumption
    <3> QED BY <1>1, <1>19, <3>1
  <2>2. r \in {busy, j}
    BY <2>1
  <2> QED BY <2>2, <1>11, <1>13 DEF r
<1> QED BY <1>15, <1>16, <1>17, <1>18, <1>19

-----------------------------------------------------------------------------
(* The invariant                                                           *)

\* Every unit of the body is somewhere, a session is complete only when the
\* upstream has nothing more, and a connection is closed in order only then.
RelayFlow ==
  /\ sent + total + kernel + coming = Total
  /\ ended # "open" => coming = 0
  /\ "ERR" \in edges => ended = "rst"
  /\ pstate = "COMPLETE" /\ ended # "rst" => kernel = 0 /\ coming = 0
  /\ state \in {"CLOSING", "DRAINED"} => pstate = "COMPLETE"
  /\ state = "DRAINED" => queue = <<>>

RelayIInv == TypeOK /\ NeverCut /\ RelayFlow

\* The relay's state as the handlers see it.
LEMMA HereIs ==
  ASSUME RelayIInv
  PROVE  LET h == Here IN
           /\ Accounted(h) /\ h.total = total /\ h.kernel = kernel /\ h.state = state
           /\ h.pstate = pstate /\ h.failed = FALSE /\ h.queue = queue
           /\ kernel \in Nat /\ kernel <= Total /\ coming \in Nat /\ total \in Nat
<1>1. /\ pstate \in {"STREAMING", "COMPLETE"} /\ paused \in BOOLEAN /\ queue \in Seq(1..Cap)
      /\ total \in Nat /\ memory \in Nat /\ pending \in BOOLEAN
      /\ state \in {"STREAMING", "CLOSING", "DRAINED", "ABORTED"} /\ armed \in BOOLEAN
      /\ kernel \in Nat /\ kernel <= Total /\ coming \in Nat
      /\ total = Sum(queue) /\ memory = Cap * Len(queue)
  BY DEF RelayIInv, TypeOK, QueueExact
<1> QED BY <1>1 DEF Accounted, RelayStates, Here

\* A handler has set the relay's state.
LEMMA BecomeIs ==
  ASSUME NEW y, Accounted(y), Become(y)
  PROVE  /\ QueueExact' /\ pstate' \in {"STREAMING", "COMPLETE"} /\ paused' \in BOOLEAN
         /\ queue' \in Seq(1..Cap) /\ total' \in Nat /\ memory' \in Nat /\ pending' \in BOOLEAN
         /\ state' \in {"STREAMING", "CLOSING", "DRAINED", "ABORTED"} /\ armed' \in BOOLEAN
         /\ kernel' \in Nat
         /\ total' = y.total /\ kernel' = y.kernel /\ state' = y.state /\ pstate' = y.pstate
         /\ queue' = y.queue
<1>1. /\ pstate' = y.pstate /\ paused' = y.paused /\ queue' = y.queue /\ total' = y.total
      /\ memory' = y.memory /\ pending' = y.pending /\ state' = y.state
      /\ kernel' = y.kernel /\ armed' = y.armed
  BY DEF Become
<1>2. /\ y.pstate \in {"STREAMING", "COMPLETE"} /\ y.paused \in BOOLEAN
      /\ y.queue \in Seq(1..Cap) /\ y.total \in Nat /\ y.memory \in Nat /\ y.pending \in BOOLEAN
      /\ y.state \in {"STREAMING", "CLOSING", "DRAINED", "ABORTED"} /\ y.armed \in BOOLEAN
      /\ y.kernel \in Nat
  BY DEF Accounted, RelayStates
<1>3. QueueExact'
  BY <1>1 DEF Accounted, QueueExact
<1> QED BY <1>1, <1>2, <1>3

\* The count of exhausted pools.
LEMMA ExhaustsIs ==
  ASSUME RelayIInv, NEW f \in Buffers, Exhausts(f)
  PROVE  /\ f \in Nat /\ fails' \in 0..PoolFails /\ fails' >= fails /\ fails \in Nat
         /\ f <= Total => fails' > 0
<1>1. fails \in 0..PoolFails /\ PoolFails \in Nat /\ Total \in Nat
  BY RelayAssumption DEF RelayIInv, TypeOK, RelayAssumption
<1>2. f \in Nat
  BY <1>1 DEF Buffers
<1>3. f <= Total => fails < PoolFails
  BY <1>1, <1>2 DEF Buffers
<1> QED BY <1>1, <1>2, <1>3 DEF Exhausts

\* What one place has more another has less.
LEMMA Balance ==
  ASSUME NEW b \in Nat, NEW s \in 0..b, NEW c \in 0..b, NEW t \in Nat, NEW k \in Nat, NEW n \in Nat,
         NEW u \in Nat, NEW j \in Nat, s + t + k + c = b, u + j + n = t + k
  PROVE  (s + n) + u + j + c = b /\ s + n \in 0..b /\ u \in 0..b /\ j \in 0..b
OBVIOUS

LEMMA RelayInit == ASSUME Init PROVE RelayIInv
<1>1. Total \in Nat /\ Room \in Nat /\ PoolFails \in Nat /\ Cap \in Nat
  BY RelayAssumption DEF RelayAssumption
<1>2. queue = <<>> /\ total = 0 /\ memory = 0
  BY DEF Init
<1>3. QueueExact
  <2>1. Sum(<<>>) = 0 /\ Len(<<>>) = 0 /\ Cap * 0 = 0
    BY <1>1, SumNothing
  <2> QED BY <1>2, <2>1 DEF QueueExact
<1>4. TypeOK
  <2>1. /\ sized \in Framings /\ coming = Total /\ kernel = 0 /\ ended = "open" /\ edges = {}
        /\ pstate = "STREAMING" /\ paused = FALSE /\ room = Room /\ armed = FALSE
        /\ writable = FALSE /\ pending = FALSE /\ state = "STREAMING" /\ sent = 0 /\ fails = 0
    BY DEF Init
  <2>2. queue \in Seq(1..Cap)
    BY <1>2
  <2>3. coming \in 0..Total /\ kernel \in 0..Total /\ total \in 0..Total /\ sent \in 0..Total
        /\ room \in 0..Room /\ fails \in 0..PoolFails
    BY <1>1, <1>2, <2>1
  <2> QED BY <1>2, <1>3, <2>1, <2>2, <2>3 DEF TypeOK
<1>5. NeverCut /\ RelayFlow
  BY <1>1 DEF Init, NeverCut, RelayFlow
<1> QED BY <1>4, <1>5 DEF RelayIInv

\* An event of the upstream socket.
LEMMA UpstreamKeeps ==
  ASSUME RelayIInv, NEW l \in Limits, NEW f \in Buffers,
         UpstreamEvent(l, f)
  PROVE  RelayIInv'
<1> DEFINE h == Here
           x == IF "IN" \in edges THEN Receive(h, l, f) ELSE h
           y == IF "ERR" \in edges THEN [x EXCEPT !.pstate = "COMPLETE"] ELSE x
           a == [x EXCEPT !.state = "ABORTED"]
           c == DrainClose(y)
           z == CASE x.failed -> a
                  [] ~x.failed /\ y.pstate = "COMPLETE" -> c
                  [] ~x.failed /\ y.pstate # "COMPLETE" -> y
<1>1. /\ pstate = "STREAMING" /\ state \notin {"DRAINED", "ABORTED"}
      /\ Become(z) /\ edges' = {} /\ Exhausts(f)
      /\ UNCHANGED <<sized, coming, ended, room, writable, sent>>
  BY DEF UpstreamEvent, Closed
<1>2. /\ Accounted(h) /\ h.total = total /\ h.kernel = kernel /\ h.state = state
      /\ h.pstate = "STREAMING" /\ h.failed = FALSE
      /\ kernel \in Nat /\ kernel <= Total /\ coming \in Nat /\ total \in Nat
  BY <1>1, HereIs
<1>3. ended # "open" => coming = 0
  BY DEF RelayIInv, RelayFlow
<1>4. /\ f \in Nat /\ fails' \in 0..PoolFails /\ fails' >= fails /\ fails \in Nat
      /\ f <= Total => fails' > 0
  BY <1>1, ExhaustsIs
<1> HIDE DEF h
<1>5. Received(h, x, f)
  <2>1. Received(h, h, f)
    <3>1. h.total + h.kernel = h.total + h.kernel /\ h.kernel <= h.kernel
      BY <1>2
    <3> QED BY <1>2, <3>1 DEF Received, Moved
  <2>2. Received(h, Receive(h, l, f), f)
    BY <1>2, <1>3, <1>4, ReceiveIs
  <2> QED BY <2>1, <2>2
<1> HIDE DEF x
<1>6. /\ Accounted(x) /\ x.total + x.kernel = total + kernel /\ x.kernel <= kernel
      /\ x.state = state /\ x.failed \in BOOLEAN
      /\ x.pstate = "STREAMING" \/ (x.pstate = "COMPLETE" /\ x.kernel = 0 /\ coming = 0)
      /\ x.failed => f <= Total
  <2>1. Moved(h, x)
    BY <1>5 DEF Received
  <2>2. x.failed \in BOOLEAN
    BY <2>1 DEF Moved, Accounted, RelayStates
  <2>3. x.pstate = h.pstate \/ (x.pstate = "COMPLETE" /\ x.kernel = 0 /\ coming = 0)
    BY <1>5 DEF Received
  <2>4. x.failed => f <= Total
    BY <1>2, <1>5 DEF Received
  <2> QED BY <1>2, <2>1, <2>2, <2>3, <2>4 DEF Moved
<1>7. /\ Accounted(y) /\ y.total + y.kernel = total + kernel /\ y.kernel <= kernel
      /\ y.state = state
      /\ y.pstate = "STREAMING" \/ (y.kernel = 0 /\ coming = 0) \/ ended = "rst"
      /\ y.pstate \in {"STREAMING", "COMPLETE"}
  <2>1. CASE "ERR" \in edges
    <3> DEFINE w == [x EXCEPT !.pstate = "COMPLETE"]
    <3>1. Moved(x, w) /\ w.pstate = "COMPLETE" /\ w.kernel = x.kernel
      BY <1>6, SetField
    <3>2. y = w /\ ended = "rst"
      BY <2>1 DEF RelayIInv, RelayFlow
    <3> HIDE DEF w, y
    <3> QED BY <1>6, <3>1, <3>2 DEF Moved
  <2>2. CASE "ERR" \notin edges
    <3>1. y = x
      BY <2>2
    <3> HIDE DEF y
    <3> QED BY <1>6, <3>1
  <2> QED BY <2>1, <2>2
<1> HIDE DEF y
<1>8. /\ Accounted(a) /\ a.total = x.total /\ a.state = "ABORTED" /\ a.pstate = x.pstate
      /\ a.kernel = x.kernel
  BY <1>6, SetState
<1>9. /\ Accounted(c) /\ c.state = "CLOSING" /\ c.total = y.total /\ c.kernel = y.kernel
      /\ c.pstate = y.pstate
  BY <1>7, DrainCloseIs
<1> HIDE DEF a, c
<1>10. /\ Accounted(z) /\ z.total + z.kernel = total + kernel /\ z.kernel <= kernel
       /\ z.state = "ABORTED" => fails' > 0
       /\ z.pstate = "STREAMING" \/ (z.kernel = 0 /\ coming = 0) \/ ended = "rst"
       /\ z.state \in {"CLOSING", "DRAINED"} => z.pstate = "COMPLETE"
       /\ z.state # "DRAINED"
  <2>0. state \notin {"CLOSING", "DRAINED"} /\ state # "ABORTED"
    BY <1>1 DEF RelayIInv, RelayFlow
  <2>1. CASE x.failed
    <3>1. z = a
      BY <2>1
    <3> HIDE DEF z
    <3> QED BY <2>1, <3>1, <1>4, <1>6, <1>8
  <2>2. CASE ~x.failed /\ y.pstate = "COMPLETE"
    <3>1. z = c
      BY <2>2
    <3> HIDE DEF z
    <3> QED BY <2>2, <3>1, <1>7, <1>9
  <2>3. CASE ~x.failed /\ y.pstate # "COMPLETE"
    <3>1. z = y
      BY <2>3
    <3> HIDE DEF z
    <3> QED BY <2>0, <2>3, <3>1, <1>7
  <2> QED BY <2>1, <2>2, <2>3, <1>6
<1> HIDE DEF z
<1>11. /\ QueueExact' /\ pstate' \in {"STREAMING", "COMPLETE"} /\ paused' \in BOOLEAN
       /\ queue' \in Seq(1..Cap) /\ total' \in Nat /\ memory' \in Nat /\ pending' \in BOOLEAN
       /\ state' \in {"STREAMING", "CLOSING", "DRAINED", "ABORTED"} /\ armed' \in BOOLEAN
       /\ kernel' \in Nat
       /\ total' = z.total /\ kernel' = z.kernel /\ state' = z.state /\ pstate' = z.pstate
  BY <1>1, <1>10, BecomeIs
<1>12. /\ sent \in 0..Total /\ coming \in 0..Total /\ sent + total + kernel + coming = Total
       /\ Total \in Nat
  BY RelayAssumption DEF RelayIInv, RelayFlow, TypeOK, RelayAssumption
<1>13. /\ sent' + total' + kernel' + coming' = Total /\ total' \in 0..Total
       /\ kernel' \in 0..Total
  <2>1. total' + kernel' = total + kernel /\ kernel' <= kernel
    BY <1>10, <1>11
  <2> DEFINE u == total'
             j == kernel'
  <2>2. u \in Nat /\ j \in Nat /\ u + j + 0 = total + kernel
    BY <2>1, <1>11
  <2> HIDE DEF u, j
  <2>3. (sent + 0) + u + j + coming = Total /\ u \in 0..Total /\ j \in 0..Total
    BY <2>2, <1>2, <1>12, Balance
  <2>4. sent + 0 = sent
    BY <1>12
  <2> QED BY <2>3, <2>4, <1>1 DEF u, j
<1>14. TypeOK'
  BY <1>1, <1>4, <1>11, <1>13 DEF RelayIInv, TypeOK
<1>15. NeverCut'
  BY <1>10, <1>11 DEF NeverCut
<1>16. RelayFlow'
  <2>1. ended' = ended /\ coming' = coming /\ edges' = {}
    BY <1>1
  <2> QED BY <2>1, <1>3, <1>10, <1>11, <1>13 DEF RelayFlow
<1> QED BY <1>14, <1>15, <1>16 DEF RelayIInv

\* A turn of the write list.
LEMMA DrainKeeps ==
  ASSUME RelayIInv, NEW l \in Limits, NEW f \in Buffers,
         DrainWrites(l, f)
  PROVE  RelayIInv'
<1> DEFINE h == Here
           n == Min({room, total, Budget})
           z == Write(h, n, l, f)
<1>1. /\ state \notin {"DRAINED", "ABORTED"} /\ Become(z)
      /\ room' = room - n /\ sent' = sent + n /\ Exhausts(f)
      /\ UNCHANGED <<sized, coming, ended, edges, writable>>
  BY DEF DrainWrites, Closed
<1>2. /\ Accounted(h) /\ h.total = total /\ h.kernel = kernel /\ h.state = state
      /\ h.pstate = pstate
      /\ kernel \in Nat /\ kernel <= Total /\ coming \in Nat /\ total \in Nat
  BY HereIs
<1>3. ended # "open" => coming = 0
  BY DEF RelayIInv, RelayFlow
<1>4. f \in Nat /\ fails' \in 0..PoolFails /\ fails' >= fails /\ fails \in Nat
  BY <1>1, ExhaustsIs
<1>5. n \in Nat /\ n <= room /\ n <= total /\ n <= Budget
  <2>1. {room, total, Budget} \in SUBSET Nat /\ {room, total, Budget} # {}
    BY <1>2, RelayAssumption DEF RelayIInv, TypeOK, RelayAssumption
  <2>2. n \in {room, total, Budget} /\ \A k \in {room, total, Budget} : n <= k
    BY <2>1, LeastIs
  <2> HIDE DEF n
  <2> QED BY <2>1, <2>2
<1> HIDE DEF h, n
<1>6. Written(h, z, n)
  BY <1>2, <1>3, <1>4, <1>5, WriteIs
<1> HIDE DEF z
<1>7. /\ QueueExact' /\ pstate' \in {"STREAMING", "COMPLETE"} /\ paused' \in BOOLEAN
      /\ queue' \in Seq(1..Cap) /\ total' \in Nat /\ memory' \in Nat /\ pending' \in BOOLEAN
      /\ state' \in {"STREAMING", "CLOSING", "DRAINED", "ABORTED"} /\ armed' \in BOOLEAN
      /\ kernel' \in Nat
      /\ total' = z.total /\ kernel' = z.kernel /\ state' = z.state /\ pstate' = z.pstate
      /\ queue' = z.queue
  BY <1>1, <1>6, BecomeIs DEF Written
<1>8. /\ total' + kernel' + n = total + kernel /\ kernel' <= kernel
      /\ \/ state' = state /\ pstate' = pstate
         \/ state' = "CLOSING" /\ pstate' = "COMPLETE"
         \/ state' = "DRAINED" /\ state = "CLOSING" /\ pstate' = pstate /\ queue' = <<>>
      /\ pstate' = pstate \/ (pstate' = "COMPLETE" /\ kernel' = 0 /\ coming = 0)
  BY <1>2, <1>6, <1>7 DEF Written
<1>9. /\ sent \in 0..Total /\ coming \in 0..Total /\ sent + total + kernel + coming = Total
      /\ Total \in Nat /\ room \in 0..Room /\ Room \in Nat
  BY RelayAssumption DEF RelayIInv, RelayFlow, TypeOK, RelayAssumption
<1>10. /\ sent' + total' + kernel' + coming' = Total /\ total' \in 0..Total
       /\ kernel' \in 0..Total /\ sent' \in 0..Total /\ room' \in 0..Room
  <2> DEFINE u == total'
             j == kernel'
  <2>1. u \in Nat /\ j \in Nat /\ u + j + n = total + kernel
    BY <1>7, <1>8
  <2> HIDE DEF u, j
  <2>2. /\ (sent + n) + u + j + coming = Total /\ sent + n \in 0..Total
        /\ u \in 0..Total /\ j \in 0..Total
    BY <2>1, <1>2, <1>5, <1>9, Balance
  <2>3. room - n \in 0..Room
    BY <1>5, <1>9
  <2> QED BY <1>1, <2>2, <2>3 DEF u, j
<1>11. TypeOK'
  BY <1>1, <1>4, <1>7, <1>10 DEF RelayIInv, TypeOK
<1>12. NeverCut'
  <2>1. state' # "ABORTED"
    BY <1>1, <1>8
  <2> QED BY <2>1 DEF NeverCut
<1>13. RelayFlow'
  <2>1. ended' = ended /\ coming' = coming /\ edges' = edges
    BY <1>1
  <2>2. pstate' = "COMPLETE" /\ ended' # "rst" => kernel' = 0 /\ coming' = 0
    BY <2>1, <1>2, <1>7, <1>8 DEF RelayIInv, RelayFlow
  <2>3. state' \in {"CLOSING", "DRAINED"} => pstate' = "COMPLETE"
    BY <1>8 DEF RelayIInv, RelayFlow
  <2>4. state' = "DRAINED" => queue' = <<>>
    BY <1>1, <1>8
  <2>5. "ERR" \in edges' => ended' = "rst"
    BY <2>1 DEF RelayIInv, RelayFlow
  <2> QED BY <2>1, <2>2, <2>3, <2>4, <2>5, <1>3, <1>10 DEF RelayFlow
<1> QED BY <1>11, <1>12, <1>13 DEF RelayIInv

\* Everything else leaves the queue and the session alone.
LEMMA EndsKeep ==
  ASSUME RelayIInv,
         \/ WritableEvent \/ ClientReads
         \/ \E n \in 1..Total : Arrive(n)
         \/ \E how \in {"fin", "rst"} : End(how)
         \/ UNCHANGED vars
  PROVE  RelayIInv'
<1>1. Total \in Nat /\ Room \in Nat
  BY RelayAssumption DEF RelayAssumption
<1>2. ASSUME UNCHANGED <<pstate, paused, queue, total, memory, pending, state, sent, fails>>
      PROVE  QueueExact' /\ NeverCut'
  BY <1>2 DEF RelayIInv, TypeOK, QueueExact, NeverCut
<1>3. CASE WritableEvent
  <2>1. QueueExact' /\ NeverCut'
    BY <1>3 DEF RelayIInv, TypeOK, QueueExact, NeverCut, WritableEvent
  <2>2. TypeOK' /\ RelayFlow'
    BY <1>3, <2>1 DEF RelayIInv, TypeOK, RelayFlow, WritableEvent, upstream
  <2> QED BY <2>1, <2>2 DEF RelayIInv
<1>4. CASE ClientReads
  <2>1. QueueExact' /\ NeverCut'
    BY <1>2, <1>4 DEF ClientReads, relay
  <2>2. TypeOK' /\ RelayFlow'
    BY <1>1, <1>4, <2>1 DEF RelayIInv, TypeOK, RelayFlow, ClientReads, upstream, relay
  <2> QED BY <2>1, <2>2 DEF RelayIInv
<1>5. CASE \E n \in 1..Total : Arrive(n)
  <2>1. PICK n \in 1..Total : Arrive(n)
    BY <1>5
  <2>2. QueueExact' /\ NeverCut'
    BY <1>2, <2>1 DEF Arrive, relay, client
  <2>3. /\ coming' = coming - n /\ kernel' = kernel + n /\ n \in 1..coming /\ ended = "open"
        /\ edges' = edges \cup {"IN"} /\ UNCHANGED <<sized, ended>>
        /\ UNCHANGED <<pstate, paused, queue, total, memory, pending, state>>
        /\ UNCHANGED <<room, armed, writable, sent, fails>>
    BY <2>1 DEF Arrive, relay, client
  <2>4. /\ coming \in 0..Total /\ kernel \in 0..Total /\ sent \in 0..Total /\ total \in 0..Total
        /\ sent + total + kernel + coming = Total
    BY DEF RelayIInv, TypeOK, RelayFlow
  <2>5. /\ coming' \in 0..Total /\ kernel' \in 0..Total
        /\ sent' + total' + kernel' + coming' = Total
    BY <2>3, <2>4, <1>1
  <2>6. TypeOK'
    BY <2>2, <2>3, <2>5 DEF RelayIInv, TypeOK
  <2>7. RelayFlow'
    BY <2>3, <2>4, <2>5 DEF RelayIInv, RelayFlow
  <2> QED BY <2>2, <2>6, <2>7 DEF RelayIInv
<1>6. CASE \E how \in {"fin", "rst"} : End(how)
  <2>1. PICK how \in {"fin", "rst"} : End(how)
    BY <1>6
  <2>2. QueueExact' /\ NeverCut'
    BY <1>2, <2>1 DEF End, relay, client
  <2>3. TypeOK'
    BY <2>1, <2>2 DEF RelayIInv, TypeOK, End, relay, client
  <2>4. RelayFlow'
    BY <2>1 DEF RelayIInv, RelayFlow, End, relay, client
  <2> QED BY <2>2, <2>3, <2>4 DEF RelayIInv
<1>7. CASE UNCHANGED vars
  <2>1. QueueExact' /\ NeverCut'
    BY <1>2, <1>7 DEF vars, relay, client, upstream
  <2>2. TypeOK' /\ RelayFlow'
    BY <1>7, <2>1 DEF RelayIInv, TypeOK, RelayFlow, vars, upstream, relay, client
  <2> QED BY <2>1, <2>2 DEF RelayIInv
<1> QED BY <1>3, <1>4, <1>5, <1>6, <1>7

LEMMA RelayStep == ASSUME RelayIInv, [Next]_vars PROVE RelayIInv'
<1>1. ASSUME Handles PROVE RelayIInv'
  <2>1. PICK l \in Limits, f \in Buffers : UpstreamEvent(l, f)
    BY <1>1 DEF Handles
  <2> QED BY <2>1, UpstreamKeeps
<1>2. ASSUME Drains PROVE RelayIInv'
  <2>1. PICK l \in Limits, f \in Buffers : DrainWrites(l, f)
    BY <1>2 DEF Drains
  <2> QED BY <2>1, DrainKeeps
<1>3. \/ Handles \/ Drains
      \/ \/ WritableEvent \/ ClientReads
         \/ \E n \in 1..Total : Arrive(n)
         \/ \E how \in {"fin", "rst"} : End(how)
         \/ UNCHANGED vars
  BY DEF Next
<1> QED BY <1>1, <1>2, <1>3, EndsKeep

\* The invariant says what the runs check: with nothing queued, nothing in the
\* socket and nothing to come, the whole body was sent.
LEMMA RelayInvHolds == ASSUME RelayIInv PROVE Inv
<1>1. TypeOK /\ NeverCut
  BY DEF RelayIInv
<1>2. ASSUME ended # "rst", state = "DRAINED" PROVE sent = Total
  <2>1. queue = <<>> /\ kernel = 0 /\ coming = 0
    BY <1>2 DEF RelayIInv, RelayFlow
  <2>2. total = 0
    BY <1>1, <2>1, SumNothing DEF TypeOK, QueueExact
  <2>3. sent \in 0..Total /\ sent + total + kernel + coming = Total
    BY DEF RelayIInv, TypeOK, RelayFlow
  <2> QED BY <2>1, <2>2, <2>3
<1>3. CompleteUnlessReset
  BY <1>2 DEF CompleteUnlessReset, Complete
<1> QED BY <1>1, <1>3 DEF Inv

\* However large the buffers, the body and the client's socket are, and however
\* the queue limit moves between one receive and the next, as long as it stays
\* at four buffers or more: the two totals of the send queue are exact, the
\* connection is given up only when the pool was exhausted, and a connection
\* that closes in order, without a reset, has written the whole body
\* (http_proxy.c, connection.c, send_queue.c).
THEOREM RelayInvariant == Spec => []Inv
<1>1. Init => RelayIInv
  BY RelayInit
<1>2. RelayIInv /\ [Next]_vars => RelayIInv'
  BY RelayStep
<1>3. RelayIInv => Inv
  BY RelayInvHolds
<1> QED BY <1>1, <1>2, <1>3, PTL DEF Spec
=============================================================================
