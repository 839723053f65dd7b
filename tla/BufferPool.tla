----------------------------- MODULE BufferPool -----------------------------
(***************************************************************************)
(* One reference-counted packet pool of a worker (buffer_pool.c): segments *)
(* that are added when free buffers run low and released when too many are *)
(* idle, views that share the bytes of a buffer, and the sealed snapshot   *)
(* of a batch that sendfile reads.  A worker is single threaded, so one    *)
(* call is one step.                                                       *)
(***************************************************************************)
EXTENDS Integers, FiniteSets

CONSTANTS
  Buffer,      \* names for the buffers the allocator may hand out
  View,        \* names for the views (calloc'ed, never pooled)
  MinBuffers,  \* size of the first segment, kept by every shrink
  MaxBuffers,  \* max_buffers
  ExpandSize,  \* expand_size
  LowWater,    \* low_watermark
  HighWater,   \* high_watermark
  MaxHeld,     \* bound: references one user path holds on one buffer or view
  NoBuffer

ASSUME PoolAssumption ==
  /\ IsFiniteSet(Buffer) /\ IsFiniteSet(View) /\ Buffer \cap View = {} /\ NoBuffer \notin Buffer
  /\ {MinBuffers, MaxBuffers, ExpandSize, LowWater, HighWater, MaxHeld} \subseteq Nat
  /\ 0 < MinBuffers /\ MinBuffers <= MaxBuffers /\ 0 < ExpandSize

VARIABLES
  segments,    \* the segments of the pool; a segment is its set of buffers
  newer,       \* the order of the segment list: pairs, newer segment first
  segFree,     \* num_free of each segment on the list
  free,        \* the free list
  numBuffers, numFree,
  refs,        \* refcount of each buffer
  owner,       \* view -> the buffer it shares, NoBuffer when not allocated
  viewRefs,    \* refcount of each view
  snapshot,    \* buffers whose shared_fd is an open snapshot
  held         \* references the users hold, on each buffer and view

poolVars == <<segments, newer, segFree, free, numBuffers, numFree, refs, owner, viewRefs,
          snapshot, held>>

Pooled == UNION segments
Viewers(b) == {v \in View : owner[v] = b}
Live   == {v \in View : owner[v] # NoBuffer}
SegmentOf(b) == CHOOSE s \in segments : b \in s

-----------------------------------------------------------------------------
\* buffer_pool_expand: the new segment, empty when nothing is added (the pool
\* is at its maximum, or the system is out of memory)
NewSegments ==
  LET room == MaxBuffers - numBuffers
      n    == IF ExpandSize > room THEN room ELSE ExpandSize
  IN  {S \in SUBSET (Buffer \ Pooled) : Cardinality(S) = n} \cup {{}}

Expansions ==
  IF free = {} \/ (numFree <= LowWater /\ numBuffers < MaxBuffers)
  THEN NewSegments ELSE {{}}

\* buffer_pool_alloc_from, when it returns a buffer
Alloc(b) ==
  \E S \in Expansions :
    /\ b \in free \cup S
    /\ segments' = segments \cup ({S} \ {{}})
    /\ newer' = IF S = {} THEN newer ELSE newer \cup ({S} \X segments)
    /\ segFree' = [s \in segments' |->
                     (IF s = S THEN Cardinality(S) ELSE segFree[s]) - (IF b \in s THEN 1 ELSE 0)]
    /\ free' = (free \cup S) \ {b}
    /\ numBuffers' = numBuffers + Cardinality(S)
    /\ numFree' = numFree + Cardinality(S) - 1
    /\ refs' = [refs EXCEPT ![b] = 1]
    /\ held' = [held EXCEPT ![b] = 1]
    /\ UNCHANGED <<owner, viewRefs, snapshot>>

\* buffer_ref_get by a path that already holds a reference
Get(x) ==
  /\ held[x] \in 1..MaxHeld - 1
  /\ held' = [held EXCEPT ![x] = @ + 1]
  /\ IF x \in Buffer THEN refs' = [refs EXCEPT ![x] = @ + 1] /\ UNCHANGED viewRefs
                     ELSE viewRefs' = [viewRefs EXCEPT ![x] = @ + 1] /\ UNCHANGED refs
  /\ UNCHANGED <<segments, newer, segFree, free, numBuffers, numFree, owner, snapshot>>

\* buffer_ref_put on a pool buffer: the last reference closes the snapshot and
\* returns the buffer to the free list
PutBuffer(b) ==
  /\ refs' = [refs EXCEPT ![b] = @ - 1]
  /\ IF refs[b] > 1
     THEN UNCHANGED <<snapshot, segFree, free, numFree>>
     ELSE /\ snapshot' = snapshot \ {b}
          /\ segFree' = [segFree EXCEPT ![SegmentOf(b)] = @ + 1]
          /\ free' = free \cup {b}
          /\ numFree' = numFree + 1
  /\ UNCHANGED <<segments, newer, numBuffers>>

PutView(v) ==
  /\ viewRefs' = [viewRefs EXCEPT ![v] = @ - 1]
  /\ IF viewRefs[v] > 1
     THEN UNCHANGED <<segments, newer, segFree, free, numBuffers, numFree, refs, owner, snapshot>>
     ELSE owner' = [owner EXCEPT ![v] = NoBuffer] /\ PutBuffer(owner[v])

Put(x) ==
  /\ held[x] > 0
  /\ held' = [held EXCEPT ![x] = @ - 1]
  /\ IF x \in Buffer THEN PutBuffer(x) /\ UNCHANGED <<owner, viewRefs>>
                     ELSE PutView(x)

\* Mutant: a view takes no reference on the buffer it shares.
MakeViewUncounted(x, v) ==
  /\ held[x] > 0 /\ v \notin Live
  /\ owner' = [owner EXCEPT ![v] = IF x \in Buffer THEN x ELSE owner[x]]
  /\ viewRefs' = [viewRefs EXCEPT ![v] = 1]
  /\ held' = [held EXCEPT ![v] = 1]
  /\ UNCHANGED <<segments, newer, segFree, free, numBuffers, numFree, refs, snapshot>>

\* buffer_ref_view: a view of a view shares the buffer underneath
MakeView(x, v) ==
  /\ held[x] > 0 /\ v \notin Live
  /\ LET b == IF x \in Buffer THEN x ELSE owner[x]
     IN  /\ owner' = [owner EXCEPT ![v] = b]
         /\ refs' = [refs EXCEPT ![b] = @ + 1]
  /\ viewRefs' = [viewRefs EXCEPT ![v] = 1]
  /\ held' = [held EXCEPT ![v] = 1]
  /\ UNCHANGED <<segments, newer, segFree, free, numBuffers, numFree, snapshot>>

\* buffer_ref_snapshot: never of a view, never a second time
Snapshot(b) ==
  /\ held[b] > 0 /\ b \notin snapshot
  /\ snapshot' = snapshot \cup {b}
  /\ UNCHANGED <<segments, newer, segFree, free, numBuffers, numFree, refs, owner, viewRefs, held>>

\* buffer_pool_try_shrink_pool.  The list is walked from the newest segment; a
\* wholly idle one is released if the minimum stays, until few enough are free.
\* F is the set of segments released, each judged after those before it went.
Before(F, s) == UNION {t \in F : <<t, s>> \in newer}

\* Mutant: the minimum is compared before the segment is taken away.
ShrinksToBelow(F) ==
  \A s \in segments :
    s \in F <=> LET gone == Cardinality(Before(F, s))
                IN  /\ segFree[s] = Cardinality(s)
                    /\ numBuffers - gone >= MinBuffers
                    /\ numFree - gone > HighWater

ShrinksTo(F) ==
  \A s \in segments :
    s \in F <=> LET gone == Cardinality(Before(F, s))
                IN  /\ segFree[s] = Cardinality(s)
                    /\ numBuffers - gone - Cardinality(s) >= MinBuffers
                    /\ numFree - gone > HighWater

Shrink ==
  /\ numFree > HighWater /\ numBuffers > MinBuffers
  /\ \E F \in SUBSET segments :
       /\ F # {} /\ ShrinksTo(F)
       /\ segments' = segments \ F
       /\ newer' = newer \cap (segments' \X segments')
       /\ segFree' = [s \in segments' |-> segFree[s]]
       /\ free' = free \ UNION F
       /\ numBuffers' = numBuffers - Cardinality(UNION F)
       /\ numFree' = numFree - Cardinality(UNION F)
  /\ UNCHANGED <<refs, owner, viewRefs, snapshot, held>>

-----------------------------------------------------------------------------
PoolInit ==
  /\ \E S \in {T \in SUBSET Buffer : Cardinality(T) = MinBuffers} :
       segments = {S} /\ newer = {} /\ segFree = [s \in {S} |-> MinBuffers] /\ free = S
  /\ numBuffers = MinBuffers /\ numFree = MinBuffers
  /\ refs = [b \in Buffer |-> 0]
  /\ owner = [v \in View |-> NoBuffer]
  /\ viewRefs = [v \in View |-> 0]
  /\ snapshot = {}
  /\ held = [x \in Buffer \cup View |-> 0]

PoolNext ==
  \/ \E b \in Buffer : Alloc(b) \/ Snapshot(b)
  \/ \E x \in Buffer \cup View : Get(x) \/ Put(x)
  \/ \E x \in Buffer \cup View, v \in View : MakeView(x, v)
  \/ Shrink

PoolSpec == PoolInit /\ [][PoolNext]_poolVars
-----------------------------------------------------------------------------
\* The variables' types: every counter is a natural number.
PoolTypeOK ==
  /\ segments \subseteq SUBSET Buffer
  /\ newer \subseteq segments \X segments
  /\ segFree \in [segments -> Nat]
  /\ free \subseteq Buffer /\ snapshot \subseteq Buffer
  /\ numBuffers \in Nat /\ numFree \in Nat
  /\ refs \in [Buffer -> Nat]
  /\ owner \in [View -> Buffer \cup {NoBuffer}]
  /\ viewRefs \in [View -> Nat]
  /\ held \in [Buffer \cup View -> Nat]

\* A buffer is on the free list exactly when it is pooled and nobody refers to
\* it: never both queued and free, never lost (the union in buffer_ref_s).
FreeExactlyUnused == \A b \in Buffer : b \in free <=> b \in Pooled /\ refs[b] = 0

\* Shrinking never releases memory somebody still refers to.
UsedIsPooled ==
  \A b \in Buffer : refs[b] > 0 \/ (\E v \in Live : owner[v] = b) => b \in Pooled

\* A refcount is the number of users and views, so the last put, and no
\* earlier one, recycles the buffer.
RefsExact ==
  \A b \in Buffer : refs[b] = held[b] + Cardinality(Viewers(b))

\* The counters the watermarks are compared with say what the lists hold.
CountersExact ==
  /\ numFree = Cardinality(free)
  /\ numBuffers = Cardinality(Pooled)
  /\ \A s \in segments : segFree[s] = Cardinality(s \cap free)

\* The pool stays between its first size and its maximum.
PoolBounded == numBuffers \in MinBuffers..MaxBuffers

\* A snapshot belongs to a buffer in use: recycled bytes are never sent from a
\* snapshot of what the buffer held before.
SnapshotInUse == \A b \in snapshot : refs[b] > 0

\* Nothing is released or recycled while one of its views is alive.
ViewsKeepBytes == [][\A v \in View : owner[v] # NoBuffer /\ owner'[v] = owner[v]
                                     => owner[v] \notin free']_poolVars
-----------------------------------------------------------------------------
(* The inductive invariant behind the properties above.                    *)

\* Segments are disjoint; a buffer belongs to at most one.
SegmentsDisjoint ==
  /\ {} \notin segments
  /\ \A s, t \in segments : s # t => s \cap t = {}

\* newer is the strict order of a list.
NewerIsOrder ==
  /\ \A s \in segments : <<s, s>> \notin newer
  /\ \A s, t \in segments : s # t => <<s, t>> \in newer \/ <<t, s>> \in newer
  /\ \A r, s, t \in segments : <<r, s>> \in newer /\ <<s, t>> \in newer => <<r, t>> \in newer

\* A view exists while somebody holds it.
ViewsHeld ==
  \A v \in View :
    /\ viewRefs[v] = held[v]
    /\ (owner[v] = NoBuffer) <=> (viewRefs[v] = 0)

\* What every call of the pool preserves: the parts above together.
IInv ==
  /\ PoolTypeOK /\ SegmentsDisjoint /\ NewerIsOrder /\ ViewsHeld /\ RefsExact
  /\ FreeExactlyUnused /\ UsedIsPooled /\ CountersExact /\ PoolBounded /\ SnapshotInUse
=============================================================================
