-------------------------- MODULE McastSourceProofs --------------------------
(***************************************************************************)
(* Machine-checked proofs about a shared multicast source, for any number  *)
(* of connections, any window and batch, and any network: its socket stays *)
(* mapped to a subscriber, and what a connection gets through its own      *)
(* window, the batch and the changes between them is one run of packets.   *)
(***************************************************************************)
EXTENDS McastSource, FiniteSetTheorems, SequenceTheorems, WellFoundedInduction, TLAPS

-----------------------------------------------------------------------------
(* Numbers and sequences                                                   *)

\* A set of natural numbers has a least element.
LEMMA LeastIs ==
  ASSUME NEW S \in SUBSET Nat, S # {}
  PROVE  Min(S) \in S /\ \A y \in S : Min(S) <= y
<1>1. PICK x \in S : \A y \in S : ~ (<<y, x>> \in OpToRel(<, Nat))
  BY NatLessThanWellFounded, WFMin
<1>2. ASSUME NEW y \in S PROVE x <= y
  <2>1. ~(<<y, x>> \in OpToRel(<, Nat))
    BY <1>1
  <2>2. ~(y < x)
    BY <2>1 DEF OpToRel
  <2> QED BY <2>2
<1> QED BY <1>2 DEF Min

\* Induction for a set of natural numbers.
LEMMA AllOfNat ==
  ASSUME NEW S \in SUBSET Nat, 0 \in S, \A n \in S : n + 1 \in S
  PROVE  S = Nat
<1> SUFFICES ASSUME S # Nat PROVE FALSE
  OBVIOUS
<1>1. Min(Nat \ S) \in Nat \ S /\ \A y \in Nat \ S : Min(Nat \ S) <= y
  BY LeastIs
<1> DEFINE x == Min(Nat \ S)
<1>2. x \in Nat /\ x \notin S /\ \A y \in Nat \ S : x <= y
  BY <1>1
<1> HIDE DEF x
<1>3. x # 0 /\ x - 1 \in Nat
  BY <1>2
<1>4. x - 1 \in S
  BY <1>2, <1>3
<1> QED BY <1>2, <1>4

\* Between -m and m only 0 is a multiple of m.
LEMMA NoMultiple ==
  ASSUME NEW m \in Nat \ {0}, NEW k \in Int, -m < k * m, k * m < m
  PROVE  k = 0
<1>1. ASSUME k >= 1 PROVE k * m >= m
  <2>1. (k - 1) * m >= 0
    BY <1>1
  <2> QED BY <2>1
<1>2. ASSUME k <= -1 PROVE k * m <= -m
  <2>1. (-1 - k) * m >= 0
    BY <1>2
  <2> QED BY <2>1
<1> QED BY <1>1, <1>2

\* A number without its remainder is a multiple.
LEMMA ModIs ==
  ASSUME NEW m \in Nat \ {0}, NEW x \in Int
  PROVE  x % m \in 0..m-1 /\ \E k \in Int : x = k * m + (x % m)
<1>1. x % m \in 0..m-1
  OBVIOUS
<1>2. x = (x \div m) * m + (x % m) /\ x \div m \in Int
  OBVIOUS
<1> QED BY <1>1, <1>2

\* Two numbers less than m apart leave different remainders.
LEMMA ModSame ==
  ASSUME NEW m \in Nat \ {0}, NEW x \in Int, NEW y \in Int, x % m = y % m, -m < x - y, x - y < m
  PROVE  x = y
<1>1. PICK j \in Int : x = j * m + (x % m)
  BY ModIs
<1>2. PICK k \in Int : y = k * m + (y % m)
  BY ModIs
<1>3. x % m \in Int
  BY ModIs
<1>4. x - y = (j - k) * m
  BY <1>1, <1>2, <1>3
<1>5. j - k = 0
  BY <1>4, NoMultiple
<1> QED BY <1>1, <1>2, <1>5

\* A sequence without its k-th element.
LEMMA RemoveAtIs ==
  ASSUME NEW S, NEW q \in Seq(S), NEW k \in 1..Len(q)
  PROVE  /\ RemoveAt(q, k) \in Seq(S) /\ Len(RemoveAt(q, k)) = Len(q) - 1
         /\ \A i \in 1..Len(q)-1 : RemoveAt(q, k)[i] = IF i < k THEN q[i] ELSE q[i+1]
<1> DEFINE a == SubSeq(q, 1, k - 1)
           b == SubSeq(q, k + 1, Len(q))
<1>1. a \in Seq(S) /\ Len(a) = k - 1 /\ \A i \in 1..k-1 : a[i] = q[i]
  BY SubSeqProperties
<1>2. b \in Seq(S) /\ Len(b) = Len(q) - k /\ \A i \in 1..Len(q)-k : b[i] = q[k+i]
  BY SubSeqProperties
<1>3. RemoveAt(q, k) = a \o b
  BY DEF RemoveAt
<1> HIDE DEF a, b
<1>0. Len(q) \in Nat /\ k \in Nat /\ Len(a) + Len(b) = Len(q) - 1
  BY <1>1, <1>2
<1>4. a \o b \in Seq(S) /\ Len(a \o b) = Len(q) - 1
  BY <1>0, <1>1, <1>2, ConcatProperties
<1>5. \A i \in 1..k-1 : (a \o b)[i] = q[i]
  BY <1>1, <1>2
<1>6. \A i \in k..Len(q)-1 : (a \o b)[i] = b[i-(k-1)]
  BY <1>1, <1>2, ConcatProperties
<1>7. \A i \in k..Len(q)-1 : (a \o b)[i] = q[i+1]
  <2> SUFFICES ASSUME NEW i \in k..Len(q)-1 PROVE (a \o b)[i] = q[i+1]
    OBVIOUS
  <2>1. i - (k-1) \in 1..Len(q)-k /\ k + (i - (k-1)) = i + 1
    BY <1>0
  <2>2. b[i - (k-1)] = q[k + (i - (k-1))]
    BY <1>2, <2>1
  <2> QED BY <1>6, <2>1, <2>2
<1> QED BY <1>3, <1>4, <1>5, <1>7

\* The elements of a sequence and of two in a row.
LEMMA Elements ==
  ASSUME NEW S, NEW q \in Seq(S)
  PROVE  /\ \A x : x \in ToSet(q) <=> \E i \in 1..Len(q) : q[i] = x
         /\ ToSet(q) \subseteq S /\ (q = <<>> <=> Len(q) = 0)
BY DEF ToSet

LEMMA Concat ==
  ASSUME NEW S, NEW q \in Seq(S), NEW r \in Seq(S)
  PROVE  /\ q \o r \in Seq(S) /\ Len(q \o r) = Len(q) + Len(r)
         /\ \A i \in 1..Len(q) : (q \o r)[i] = q[i]
         /\ \A i \in Len(q)+1..Len(q)+Len(r) :
              (q \o r)[i] = r[i - Len(q)] /\ i - Len(q) \in 1..Len(r)
         /\ \A i \in 1..Len(r) : (q \o r)[Len(q) + i] = r[i] /\ Len(q) + i \in 1..Len(q \o r)
<1>1. \A i \in 1..Len(q)+Len(r) : (q \o r)[i] = IF i <= Len(q) THEN q[i] ELSE r[i - Len(q)]
  BY ConcatProperties
<1> QED BY <1>1

\* A finite set of numbers that a sequence lists in order.
Sorts(q, T) == /\ \A i, j \in DOMAIN q : i < j => q[i] < q[j]
               /\ \A s \in T : \E i \in DOMAIN q : q[i] = s

Sortable(T) == /\ IsFiniteSet(T) /\ Cardinality(T) \in Nat
               /\ \E q \in [1..Cardinality(T) -> T] : Sorts(q, T)

LEMMA SortableEmpty == Sortable({})
<1>1. <<>> \in [1..0 -> {}] /\ Sorts(<<>>, {})
  BY DEF Sorts
<1>2. IsFiniteSet({}) /\ Cardinality({}) = 0
  BY FS_EmptySet
<1>3. \E q \in [1..Cardinality({}) -> {}] : Sorts(q, {})
  BY <1>1, <1>2
<1> QED BY <1>2, <1>3 DEF Sortable

LEMMA SortableMore ==
  ASSUME NEW n \in Nat, NEW R \in SUBSET (1..n), Sortable(R)
  PROVE  Sortable(R \cup {n+1})
<1> DEFINE m == Cardinality(R)
<1>1. PICK q \in [1..m -> R] : Sorts(q, R)
  BY DEF Sortable
<1>2. n + 1 \notin R /\ m \in Nat /\ IsFiniteSet(R)
  BY DEF Sortable
<1>3. IsFiniteSet(R \cup {n+1}) /\ Cardinality(R \cup {n+1}) = m + 1
  BY <1>2, FS_AddElement
<1>10. q \in [1..m -> R]
  BY <1>1
<1> HIDE DEF m
<1> DEFINE r == [i \in 1..m+1 |-> IF i <= m THEN q[i] ELSE n + 1]
<1>4. \A i \in 1..m : q[i] \in R /\ q[i] \in Int /\ q[i] <= n
  <2>1. \A x \in R : x \in Int /\ x <= n
    OBVIOUS
  <2>2. \A i \in 1..m : q[i] \in R
    BY <1>10
  <2> QED BY <2>1, <2>2
<1>5. r \in [1..m+1 -> R \cup {n+1}] /\ DOMAIN r = 1..m+1 /\ m + 1 \in 1..m+1
  BY <1>2, <1>4
<1>6. r[m+1] = n + 1 /\ \A i \in 1..m : i \in 1..m+1 /\ r[i] = q[i]
  BY <1>2
<1>7. \A i, j \in 1..m+1 : i < j => r[i] < r[j]
  BY <1>1, <1>2, <1>4 DEF Sorts
<1>8. \A s \in R \cup {n+1} : \E i \in 1..m+1 : r[i] = s
  BY <1>1, <1>5, <1>6 DEF Sorts
<1> HIDE DEF r
<1>9. Sorts(r, R \cup {n+1})
  BY <1>5, <1>7, <1>8 DEF Sorts
<1>11. \E x \in [1..Cardinality(R \cup {n+1}) -> R \cup {n+1}] : Sorts(x, R \cup {n+1})
  BY <1>3, <1>5, <1>9
<1>12. Cardinality(R \cup {n+1}) \in Nat
  BY <1>2, <1>3
<1> QED BY <1>3, <1>11, <1>12 DEF Sortable

LEMMA Sortables == \A n \in Nat : \A S \in SUBSET (1..n) : Sortable(S)
<1> DEFINE Good == {n \in Nat : \A T \in SUBSET (1..n) : Sortable(T)}
<1>1. 0 \in Good
  <2>1. \A T \in SUBSET (1..0) : T = {}
    OBVIOUS
  <2> QED BY <2>1, SortableEmpty
<1>2. ASSUME NEW n \in Good PROVE n + 1 \in Good
  <2>1. n \in Nat /\ \A T \in SUBSET (1..n) : Sortable(T)
    OBVIOUS
  <2>2. ASSUME NEW T \in SUBSET (1..n+1) PROVE Sortable(T)
    <3>1. T \ {n+1} \in SUBSET (1..n)
      BY <2>1
    <3>2. T = T \ {n+1} \/ T = (T \ {n+1}) \cup {n+1}
      OBVIOUS
    <3> QED BY <2>1, <3>1, <3>2, SortableMore
  <2> QED BY <2>1, <2>2
<1>3. Good \in SUBSET Nat
  OBVIOUS
<1> HIDE DEF Good
<1>4. Good = Nat
  BY <1>1, <1>2, <1>3, AllOfNat
<1> QED BY <1>4 DEF Good

LEMMA PacketsSortable == \A S \in SUBSET Packet : Sortable(S)
BY Sortables, SourceAssumption DEF Packet

\* The numbers of a set in order.
LEMMA AscendingIs ==
  ASSUME NEW n \in Nat, NEW S \in SUBSET (1..n)
  PROVE  /\ Cardinality(S) \in Nat /\ Ascending(S) \in [1..Cardinality(S) -> S]
         /\ Ascending(S) \in Seq(S) /\ Len(Ascending(S)) = Cardinality(S)
         /\ \A i, j \in 1..Cardinality(S) : i < j => Ascending(S)[i] < Ascending(S)[j]
         /\ \A s : s \in ToSet(Ascending(S)) <=> s \in S
<1>1. Cardinality(S) \in Nat /\ \E q \in [1..Cardinality(S) -> S] : Sorts(q, S)
  BY Sortables DEF Sortable
<1>2. Ascending(S) = CHOOSE q \in [1..Cardinality(S) -> S] : Sorts(q, S)
  BY DEF Ascending, Sorts
<1>3. Ascending(S) \in [1..Cardinality(S) -> S] /\ Sorts(Ascending(S), S)
  BY <1>1, <1>2
<1>4. /\ Ascending(S) \in Seq(S) /\ DOMAIN Ascending(S) = 1..Cardinality(S)
      /\ Len(Ascending(S)) = Cardinality(S)
  BY <1>1, <1>3
<1> QED BY <1>1, <1>3, <1>4 DEF Sorts, ToSet

\* The elements of a sequence at some of its positions.
LEMMA PickedIs ==
  ASSUME NEW q \in Seq(Packet), NEW I \in SUBSET (1..Len(q))
  PROVE  /\ Picked(q, I) \in Seq(Packet)
         /\ \A x : x \in ToSet(Picked(q, I)) <=> \E i \in I : q[i] = x
         /\ (\A i, j \in 1..Len(q) : i < j => q[i] < q[j])
              => \A i, j \in 1..Len(Picked(q, I)) : i < j => Picked(q, I)[i] < Picked(q, I)[j]
<1> DEFINE n == Cardinality(I)
           a == Ascending(I)
           r == [k \in 1..n |-> q[a[k]]]
<1>1. Len(q) \in Nat /\ \A i \in 1..Len(q) : q[i] \in Packet
  BY Elements
<1>2. /\ n \in Nat /\ a \in [1..n -> I] /\ Len(a) = n
      /\ \A i, j \in 1..n : i < j => a[i] < a[j]
      /\ \A s : s \in ToSet(a) <=> s \in I
  BY <1>1, AscendingIs
<1>3. Picked(q, I) = r
  BY DEF Picked
<1>8. a \in Seq(I)
  BY <1>1, AscendingIs
<1> HIDE DEF a, n
<1>4. \A k \in 1..n : a[k] \in I /\ q[a[k]] \in Packet
  BY <1>1, <1>2
<1>5. r \in Seq(Packet) /\ Len(r) = n /\ \A k \in 1..n : r[k] = q[a[k]]
  BY <1>2, <1>4
<1> HIDE DEF r
<1>6. ASSUME NEW x PROVE x \in ToSet(r) <=> \E i \in I : q[i] = x
  <2>1. x \in ToSet(r) <=> \E k \in 1..n : r[k] = x
    BY <1>5, Elements
  <2>2. \A i : i \in I <=> \E k \in 1..n : a[k] = i
    BY <1>2, <1>8, Elements
  <2>3. ASSUME NEW k \in 1..n, r[k] = x PROVE \E i \in I : q[i] = x
    BY <1>4, <1>5, <2>3
  <2>4. ASSUME NEW i \in I, q[i] = x PROVE \E k \in 1..n : r[k] = x
    <3>1. PICK k \in 1..n : a[k] = i
      BY <2>2
    <3> QED BY <1>5, <2>4, <3>1
  <2> QED BY <2>1, <2>3, <2>4
<1>7. ASSUME \A i, j \in 1..Len(q) : i < j => q[i] < q[j],
             NEW i \in 1..n, NEW j \in 1..n, i < j
      PROVE  r[i] < r[j]
  BY <1>2, <1>4, <1>5, <1>7
<1> QED BY <1>3, <1>5, <1>6, <1>7

-----------------------------------------------------------------------------
(* Runs of packets                                                         *)

LEMMA Packets ==
  ASSUME NEW q \in Seq(Packet)
  PROVE  /\ Len(q) \in Nat /\ (q = <<>> <=> Len(q) = 0)
         /\ \A i \in 1..Len(q) : q[i] \in Int /\ q[i] \in Packet
         /\ q # <<>> => 1 \in 1..Len(q) /\ Len(q) \in 1..Len(q)
<1>1. Len(q) \in Nat /\ (q = <<>> <=> Len(q) = 0) /\ \A i \in 1..Len(q) : q[i] \in Packet
  BY Elements
<1>2. Packet \subseteq Int
  BY DEF Packet
<1>3. Len(q) # 0 => 1 \in 1..Len(q) /\ Len(q) \in 1..Len(q)
  BY <1>1
<1>4. \A i \in 1..Len(q) : q[i] \in Int
  BY <1>1, <1>2
<1> QED BY <1>1, <1>3, <1>4

LEMMA Assoc ==
  ASSUME NEW a \in Seq(Packet), NEW b \in Seq(Packet), NEW c \in Seq(Packet)
  PROVE  /\ (a \o b) \o c = a \o (b \o c)
         /\ a \o b \in Seq(Packet) /\ <<>> \in Seq(Packet) /\ a \o <<>> = a /\ <<>> \o a = a
<1>1. (a \o b) \o c = a \o (b \o c)
  BY ConcatAssociative
<1>2. a \o b \in Seq(Packet) /\ <<>> \in Seq(Packet)
  OBVIOUS
<1>3. a \o <<>> = a /\ <<>> \o a = a
  OBVIOUS
<1> QED BY <1>1, <1>2, <1>3

LEMMA ConcatSet ==
  ASSUME NEW a \in Seq(Packet), NEW b \in Seq(Packet)
  PROVE  \A x : x \in ToSet(a \o b) <=> x \in ToSet(a) \/ x \in ToSet(b)
<1>1. /\ a \o b \in Seq(Packet) /\ Len(a \o b) = Len(a) + Len(b) /\ Len(a) \in Nat /\ Len(b) \in Nat
      /\ \A i \in 1..Len(a) : (a \o b)[i] = a[i]
      /\ \A i \in Len(a)+1..Len(a)+Len(b) : (a \o b)[i] = b[i - Len(a)] /\ i - Len(a) \in 1..Len(b)
      /\ \A i \in 1..Len(b) : (a \o b)[Len(a) + i] = b[i] /\ Len(a) + i \in 1..Len(a \o b)
  BY Concat
<1>2. /\ \A x : x \in ToSet(a \o b) <=> \E i \in 1..Len(a \o b) : (a \o b)[i] = x
      /\ \A x : x \in ToSet(a) <=> \E i \in 1..Len(a) : a[i] = x
      /\ \A x : x \in ToSet(b) <=> \E i \in 1..Len(b) : b[i] = x
  BY <1>1, Elements
<1>3. ASSUME NEW i \in 1..Len(a \o b)
      PROVE  (\E k \in 1..Len(a) : a[k] = (a \o b)[i]) \/ (\E k \in 1..Len(b) : b[k] = (a \o b)[i])
  <2>1. CASE i <= Len(a)
    BY <1>1, <2>1
  <2>2. CASE i > Len(a)
    BY <1>1, <2>2
  <2> QED BY <1>1, <2>1, <2>2
<1>4. \A i \in 1..Len(a) : i \in 1..Len(a \o b) /\ (a \o b)[i] = a[i]
  BY <1>1
<1>5. \A i \in 1..Len(b) : Len(a) + i \in 1..Len(a \o b) /\ (a \o b)[Len(a) + i] = b[i]
  BY <1>1
<1> QED BY <1>2, <1>3, <1>4, <1>5

\* A packet comes that is new and not so far behind the newest.
Later(D, h, G, E, g, K) ==
  /\ D \subseteq E /\ h <= g /\ G \subseteq K
  /\ \A p \in E \ D : p > g - Window /\ p \notin G

\* What is left out stays so.
LEMMA CoversLater ==
  ASSUME NEW q \in Seq(Packet), NEW lo \in Int, NEW hi \in Int, NEW D, NEW E \in SUBSET Packet,
         NEW h \in Int, NEW g \in Int, NEW G, NEW K, Later(D, h, G, E, g, K),
         Covers(q, lo, hi, D, h, G)
  PROVE  Covers(q, lo, hi, E, g, K)
<1>1. Window \in Int
  BY SourceAssumption
<1>2. ASSUME NEW s \in lo..hi-1
      PROVE  s \in ToSet(q) \/ (s \notin E /\ (s <= g - Window \/ s \in K))
  BY <1>1 DEF Covers, Later, Packet
<1> QED BY <1>2 DEF Covers

LEMMA RunLater ==
  ASSUME NEW q \in Seq(Packet), NEW hi \in Int, NEW D, NEW E \in SUBSET Packet,
         NEW h \in Int, NEW g \in Int, NEW G, NEW K, Later(D, h, G, E, g, K), Run(q, hi, D, h, G)
  PROVE  Run(q, hi, E, g, K)
<1> SUFFICES ASSUME q # <<>> PROVE Covers(q, q[1], hi, E, g, K)
  BY DEF Run
<1>1. q[1] \in Int
  BY Packets
<1> QED BY <1>1, CoversLater DEF Run

\* Two runs in a row are a run.
LEMMA CoversConcat ==
  ASSUME NEW q \in Seq(Packet), NEW r \in Seq(Packet), NEW D, NEW h \in Int, NEW G,
         NEW lo \in Int, NEW m \in Int, NEW hi \in Int, lo <= m, m <= hi,
         Covers(q, lo, m, D, h, G), Covers(r, m, hi, D, h, G)
  PROVE  Covers(q \o r, lo, hi, D, h, G)
<1> DEFINE t == q \o r
<1>1. /\ t \in Seq(Packet) /\ Len(t) = Len(q) + Len(r) /\ Len(q) \in Nat /\ Len(r) \in Nat
      /\ \A i \in 1..Len(q) : t[i] = q[i]
      /\ \A i \in Len(q)+1..Len(q)+Len(r) : t[i] = r[i - Len(q)] /\ i - Len(q) \in 1..Len(r)
      /\ \A i \in 1..Len(r) : t[Len(q) + i] = r[i] /\ Len(q) + i \in 1..Len(t)
  BY Concat
<1> HIDE DEF t
<1>2. /\ \A i \in 1..Len(q) : q[i] \in Int /\ lo <= q[i] /\ q[i] < m
      /\ \A i \in 1..Len(r) : r[i] \in Int /\ m <= r[i] /\ r[i] < hi
  BY Packets DEF Covers
<1>3. \A i \in 1..Len(t) : lo <= t[i] /\ t[i] < hi
  <2> SUFFICES ASSUME NEW i \in 1..Len(t) PROVE lo <= t[i] /\ t[i] < hi
    OBVIOUS
  <2>1. CASE i <= Len(q)
    BY <1>1, <1>2, <2>1
  <2>2. CASE i > Len(q)
    <3>1. t[i] = r[i - Len(q)] /\ i - Len(q) \in 1..Len(r)
      BY <1>1, <2>2
    <3> QED BY <1>2, <3>1
  <2> QED BY <1>1, <2>1, <2>2
<1>4. ASSUME NEW i \in 1..Len(t), NEW j \in 1..Len(t), i < j PROVE t[i] < t[j]
  <2>1. CASE j <= Len(q)
    <3>1. t[i] = q[i] /\ t[j] = q[j] /\ i \in 1..Len(q) /\ j \in 1..Len(q)
      BY <1>1, <1>4, <2>1
    <3>2. q[i] < q[j]
      BY <1>4, <3>1 DEF Covers
    <3> QED BY <3>1, <3>2
  <2>2. CASE i > Len(q)
    <3>1. t[i] = r[i - Len(q)] /\ t[j] = r[j - Len(q)]
          /\ i - Len(q) \in 1..Len(r) /\ j - Len(q) \in 1..Len(r)
      BY <1>1, <1>4, <2>2
    <3> QED BY <1>1, <1>4, <3>1 DEF Covers
  <2>3. CASE i <= Len(q) /\ j > Len(q)
    <3>1. t[i] = q[i] /\ t[j] = r[j - Len(q)] /\ j - Len(q) \in 1..Len(r)
      BY <1>1, <1>4, <2>3
    <3> QED BY <1>1, <1>2, <2>3, <3>1
  <2> QED BY <1>1, <2>1, <2>2, <2>3
<1>5. ASSUME NEW s \in lo..hi-1, s \in ToSet(q) \/ s \in ToSet(r) PROVE s \in ToSet(t)
  <2>1. \E i \in 1..Len(t) : t[i] = s
    <3>1. CASE s \in ToSet(q)
      <4>1. PICK i \in 1..Len(q) : q[i] = s
        BY <3>1, Elements
      <4> QED BY <1>1, <4>1
    <3>2. CASE s \in ToSet(r)
      <4>1. PICK i \in 1..Len(r) : r[i] = s
        BY <3>2, Elements
      <4> QED BY <1>1, <4>1
    <3> QED BY <1>5, <3>1, <3>2
  <2> QED BY <1>1, <2>1, Elements
<1>6. \A s \in lo..hi-1 : s \in lo..m-1 \/ s \in m..hi-1
  OBVIOUS
<1>7. \A s \in lo..hi-1 : s \in ToSet(t) \/ (s \notin D /\ (s <= h - Window \/ s \in G))
  BY <1>5, <1>6 DEF Covers
<1>8. Covers(t, lo, hi, D, h, G)
  BY <1>3, <1>4, <1>7 DEF Covers
<1> QED BY <1>8 DEF t

LEMMA RunConcat ==
  ASSUME NEW q \in Seq(Packet), NEW r \in Seq(Packet), NEW D, NEW h \in Int, NEW G,
         NEW m \in Int, NEW hi \in Int, m <= hi,
         Run(q, m, D, h, G), Covers(r, m, hi, D, h, G)
  PROVE  Run(q \o r, hi, D, h, G)
<1>1. CASE q = <<>>
  <2>1. q \o r = r
    BY <1>1
  <2>2. SUFFICES ASSUME r # <<>> PROVE Covers(r, r[1], hi, D, h, G)
    BY <2>1 DEF Run
  <2>3. Len(r) \in Nat /\ 1 \in 1..Len(r) /\ \A i \in 1..Len(r) : r[i] \in Int
    BY <2>2, Packets
  <2>4. m <= r[1] /\ \A i \in 1..Len(r) : r[1] <= r[i]
    BY <2>3 DEF Covers
  <2>5. \A s \in r[1]..hi-1 : s \in m..hi-1
    BY <2>3, <2>4
  <2> QED BY <2>4, <2>5 DEF Covers
<1>2. CASE q # <<>>
  <2>1. Len(q) \in Nat /\ 1 \in 1..Len(q) /\ q[1] \in Int /\ Covers(q, q[1], m, D, h, G)
    BY <1>2, Packets DEF Run
  <2>2. q[1] <= m
    BY <2>1 DEF Covers
  <2>3. Covers(q \o r, q[1], hi, D, h, G)
    BY <2>1, <2>2, CoversConcat
  <2>4. (q \o r)[1] = q[1]
    BY <2>1, Concat
  <2> QED BY <2>3, <2>4 DEF Run
<1> QED BY <1>1, <1>2

\* What was handed on of a run is one.
LEMMA RunPrefix ==
  ASSUME NEW q \in Seq(Packet), NEW r \in Seq(Packet), NEW D, NEW h \in Int, NEW G,
         NEW hi \in Int, q # <<>>, Run(q \o r, hi, D, h, G)
  PROVE  Run(q, q[Len(q)] + 1, D, h, G)
<1> DEFINE t == q \o r
           n == Len(q)
<1>1. /\ t \in Seq(Packet) /\ Len(t) = n + Len(r) /\ n \in Nat \ {0} /\ Len(r) \in Nat
      /\ \A i \in 1..n : t[i] = q[i]
  BY Concat, Elements
<1>2. t # <<>> /\ \A i \in 1..Len(t) : t[i] \in Int
  BY <1>1, Packets
<1> HIDE DEF t
<1>3. t[1] = q[1] /\ Covers(t, q[1], hi, D, h, G) /\ q[n] \in Int /\ q[n] = t[n] /\ n \in 1..Len(t)
  BY <1>1, <1>2 DEF Run, t
<1>4. \A i, j \in 1..n : i < j => q[i] < q[j]
  BY <1>1, <1>3 DEF Covers
<1>5. \A i \in 1..n : q[1] <= q[i] /\ q[i] < q[n] + 1
  BY <1>1, <1>2, <1>4
<1>6. ASSUME NEW s \in q[1]..(q[n] + 1) - 1 PROVE s \in ToSet(q) \/ (s \notin D /\ (s <= h - Window \/ s \in G))
  <2>1. s \in q[1]..hi-1
    BY <1>1, <1>2, <1>3 DEF Covers
  <2>2. CASE s \in ToSet(t)
    <3>1. PICK i \in 1..Len(t) : t[i] = s
      BY <1>1, <2>2, Elements
    <3>2. ~(n < i)
      BY <1>2, <1>3, <3>1 DEF Covers
    <3>3. i \in 1..n /\ q[i] = s
      BY <1>1, <3>1, <3>2
    <3> QED BY <3>3, Elements
  <2> QED BY <1>3, <2>1, <2>2 DEF Covers
<1>8. Covers(q, q[1], q[n] + 1, D, h, G)
  BY <1>4, <1>5, <1>6 DEF Covers
<1> QED BY <1>8 DEF Run

\* Between two packets of a run none of D is missing.
LEMMA RunMisses ==
  ASSUME NEW q \in Seq(Packet), NEW D, NEW h \in Int, NEW G, NEW hi \in Int, Run(q, hi, D, h, G),
         NEW i \in 1..Len(q)-1
  PROVE  q[i] < q[i+1] /\ \A s \in q[i]+1..q[i+1]-1 : s \notin D
<1>1. Len(q) \in Nat /\ i \in 1..Len(q) /\ i + 1 \in 1..Len(q) /\ 1 \in 1..Len(q) /\ q # <<>>
  BY Elements
<1>2. Covers(q, q[1], hi, D, h, G) /\ \A k \in 1..Len(q) : q[k] \in Int
  BY <1>1, Packets DEF Run
<1>3. ASSUME NEW s \in q[i]+1..q[i+1]-1 PROVE s \notin D
  <2>1. s \in q[1]..hi-1
    BY <1>1, <1>2 DEF Covers
  <2>2. s \notin ToSet(q)
    <3> SUFFICES ASSUME NEW k \in 1..Len(q), q[k] = s PROVE FALSE
      BY Elements
    <3>1. ~(k < i) /\ k # i /\ ~(i + 1 < k) /\ k # i + 1
      BY <1>1, <1>2 DEF Covers
    <3> QED BY <1>1, <3>1
  <2> QED BY <1>2, <2>1, <2>2 DEF Covers
<1> QED BY <1>1, <1>2, <1>3 DEF Covers

LEMMA CoversRun ==
  ASSUME NEW q \in Seq(Packet), NEW D, NEW h \in Int, NEW G, NEW m \in Int, NEW hi \in Int, m <= hi,
         Covers(q, m, hi, D, h, G)
  PROVE  Run(q, hi, D, h, G)
<1>1. <<>> \in Seq(Packet) /\ Run(<<>>, m, D, h, G) /\ <<>> \o q = q
  BY DEF Run
<1> QED BY <1>1, RunConcat

Asc(q) == \A i, j \in 1..Len(q) : i < j => q[i] < q[j]

LEMMA AscConcat ==
  ASSUME NEW a \in Seq(Packet), NEW b \in Seq(Packet)
  PROVE  Asc(a \o b) <=> Asc(a) /\ Asc(b) /\ \A x \in ToSet(a), y \in ToSet(b) : x < y
<1> DEFINE t == a \o b
<1>1. /\ t \in Seq(Packet) /\ Len(t) = Len(a) + Len(b) /\ Len(a) \in Nat /\ Len(b) \in Nat
      /\ \A i \in 1..Len(a) : t[i] = a[i]
      /\ \A i \in Len(a)+1..Len(a)+Len(b) : t[i] = b[i - Len(a)] /\ i - Len(a) \in 1..Len(b)
      /\ \A i \in 1..Len(b) : t[Len(a) + i] = b[i] /\ Len(a) + i \in 1..Len(t)
  BY Concat
<1> HIDE DEF t
<1>2. /\ \A x : x \in ToSet(a) <=> \E i \in 1..Len(a) : a[i] = x
      /\ \A x : x \in ToSet(b) <=> \E i \in 1..Len(b) : b[i] = x
  BY Elements
<1>3. ASSUME Asc(t) PROVE Asc(a) /\ Asc(b) /\ \A x \in ToSet(a), y \in ToSet(b) : x < y
  <2>1. Asc(a)
    BY <1>1, <1>3 DEF Asc
  <2>2. Asc(b)
    <3> SUFFICES ASSUME NEW i \in 1..Len(b), NEW j \in 1..Len(b), i < j PROVE b[i] < b[j]
      BY DEF Asc
    <3>1. Len(a) + i < Len(a) + j
      BY <1>1
    <3>2. t[Len(a) + i] < t[Len(a) + j]
      BY <1>1, <1>3, <3>1 DEF Asc
    <3> QED BY <1>1, <3>2
  <2>3. ASSUME NEW i \in 1..Len(a), NEW j \in 1..Len(b) PROVE a[i] < b[j]
    <3>1. i \in 1..Len(t) /\ Len(a) + j \in 1..Len(t) /\ i < Len(a) + j
      BY <1>1
    <3>2. t[i] < t[Len(a) + j]
      BY <1>3, <3>1 DEF Asc
    <3> QED BY <1>1, <3>2
  <2> QED BY <1>2, <2>1, <2>2, <2>3
<1>4. ASSUME Asc(a), Asc(b), \A x \in ToSet(a), y \in ToSet(b) : x < y PROVE Asc(t)
  <2> SUFFICES ASSUME NEW i \in 1..Len(t), NEW j \in 1..Len(t), i < j PROVE t[i] < t[j]
    BY DEF Asc
  <2>1. CASE j <= Len(a)
    <3>1. i \in 1..Len(a) /\ j \in 1..Len(a) /\ t[i] = a[i] /\ t[j] = a[j]
      BY <1>1, <2>1
    <3>2. a[i] < a[j]
      BY <1>4, <3>1 DEF Asc
    <3> QED BY <3>1, <3>2
  <2>2. CASE i > Len(a)
    <3>1. /\ t[i] = b[i - Len(a)] /\ t[j] = b[j - Len(a)]
          /\ i - Len(a) \in 1..Len(b) /\ j - Len(a) \in 1..Len(b)
      BY <1>1, <2>2
    <3>2. i - Len(a) < j - Len(a)
      BY <1>1
    <3>3. b[i - Len(a)] < b[j - Len(a)]
      BY <1>4, <3>1, <3>2 DEF Asc
    <3> QED BY <3>1, <3>3
  <2>3. CASE i <= Len(a) /\ j > Len(a)
    <3>1. /\ t[i] = a[i] /\ i \in 1..Len(a) /\ t[j] = b[j - Len(a)] /\ j - Len(a) \in 1..Len(b)
      BY <1>1, <2>3
    <3>2. a[i] \in ToSet(a) /\ b[j - Len(a)] \in ToSet(b)
      BY <1>2, <3>1
    <3> QED BY <1>4, <3>1, <3>2
  <2> QED BY <1>1, <2>1, <2>2, <2>3
<1> QED BY <1>3, <1>4 DEF t

\* Of the packets q, t are handed on and the others refused: they are not due
\* any more, E, as they were, D.
Thins(t, E, q, D, G) ==
  /\ t \in Seq(Packet) /\ E \subseteq D
  /\ \A p \in ToSet(t) : p \in ToSet(q)
  /\ \A p \in ToSet(q) : p \in ToSet(t) \/ (p \notin E /\ p \in G)
  /\ Asc(q) => Asc(t)

LEMMA CoversThins ==
  ASSUME NEW q \in Seq(Packet), NEW t, NEW lo \in Int, NEW hi \in Int, NEW D, NEW E, NEW h \in Int,
         NEW G, Thins(t, E, q, D, G), Covers(q, lo, hi, D, h, G)
  PROVE  Covers(t, lo, hi, E, h, G)
<1>1. \A i, j \in 1..Len(t) : i < j => t[i] < t[j]
  BY DEF Thins, Covers, Asc
<1>2. ASSUME NEW i \in 1..Len(t) PROVE lo <= t[i] /\ t[i] < hi
  <2>1. t \in Seq(Packet) /\ t[i] \in ToSet(q)
    BY Elements DEF Thins
  <2>2. PICK k \in 1..Len(q) : q[k] = t[i]
    BY <2>1, Elements
  <2> QED BY <2>2 DEF Covers
<1>3. \A s \in lo..hi-1 : s \in ToSet(t) \/ (s \notin E /\ (s <= h - Window \/ s \in G))
  BY DEF Thins, Covers
<1> QED BY <1>1, <1>2, <1>3 DEF Covers

LEMMA RunThins ==
  ASSUME NEW q \in Seq(Packet), NEW t, NEW hi \in Int, NEW D, NEW E, NEW h \in Int,
         NEW G, Thins(t, E, q, D, G), Run(q, hi, D, h, G)
  PROVE  Run(t, hi, E, h, G)
<1>1. CASE q = <<>>
  <2>0. t \in Seq(Packet) /\ \A p : p \notin ToSet(q)
    <3>1. Len(q) = 0
      BY <1>1, Packets
    <3>2. \A p : p \in ToSet(q) <=> \E i \in 1..Len(q) : q[i] = p
      BY Elements
    <3>3. \A p : p \notin ToSet(q)
      BY <3>1, <3>2
    <3> QED BY <3>3 DEF Thins
  <2>1. t \in Seq(Packet) /\ \A p : p \notin ToSet(t)
    BY <2>0 DEF Thins
  <2>2. t = <<>>
    <3>1. t # <<>> => t[1] \in ToSet(t)
      BY <2>1, Packets, Elements
    <3> QED BY <2>1, <3>1
  <2> QED BY <2>2 DEF Run
<1>2. CASE q # <<>>
  <2>1. q[1] \in Int /\ 1 \in 1..Len(q)
    BY <1>2, Packets
  <2>2. Covers(t, q[1], hi, E, h, G) /\ q[1] <= hi
    <3>1. Covers(q, q[1], hi, D, h, G)
      BY <1>2 DEF Run
    <3>2. q[1] < hi
      BY <2>1, <3>1 DEF Covers
    <3> QED BY <2>1, <3>1, <3>2, CoversThins
  <2> QED BY <2>1, <2>2, CoversRun DEF Thins
<1> QED BY <1>1, <1>2


\* A queue too full refuses the packets b in front of d.
LEMMA ThinsDrop ==
  ASSUME NEW a \in Seq(Packet), NEW b \in Seq(Packet), NEW d \in Seq(Packet), NEW D,
         NEW G, ToSet(b) \subseteq G
  PROVE  Thins(a \o d, D \ ToSet(b), a \o (b \o d), D, G)
<1> DEFINE c == b \o d
<1>1. /\ a \o d \in Seq(Packet) /\ c \in Seq(Packet) /\ a \o c \in Seq(Packet)
  BY Assoc
<1>2. /\ \A x : x \in ToSet(a \o d) <=> x \in ToSet(a) \/ x \in ToSet(d)
      /\ \A x : x \in ToSet(c) <=> x \in ToSet(b) \/ x \in ToSet(d)
      /\ Asc(a \o d) <=> Asc(a) /\ Asc(d) /\ \A x \in ToSet(a), y \in ToSet(d) : x < y
      /\ Asc(c) => Asc(d)
  BY ConcatSet, AscConcat
<1> HIDE DEF c
<1>3. /\ \A x : x \in ToSet(a \o c) <=> x \in ToSet(a) \/ x \in ToSet(c)
      /\ Asc(a \o c) <=> Asc(a) /\ Asc(c) /\ \A x \in ToSet(a), y \in ToSet(c) : x < y
  BY <1>1, ConcatSet, AscConcat
<1>4. Asc(a \o c) => Asc(a \o d)
  BY <1>2, <1>3
<1>5. Thins(a \o d, D \ ToSet(b), a \o c, D, G)
  BY <1>1, <1>2, <1>3, <1>4 DEF Thins
<1> QED BY <1>5 DEF c

\* It refuses the packets of o that are not at the positions I.
LEMMA ThinsPicked ==
  ASSUME NEW a \in Seq(Packet), NEW o \in Seq(Packet), NEW I \in SUBSET (1..Len(o)), NEW D,
         NEW N, NEW G, ToSet(o) \subseteq G, \A i \in 1..Len(o) : i \in I \/ o[i] \in N
  PROVE  Thins(a \o Picked(o, I), D \ N, a \o o, D, G)
<1> DEFINE r == Picked(o, I)
<1>1. /\ r \in Seq(Packet) /\ \A x : x \in ToSet(r) <=> \E i \in I : o[i] = x
      /\ Asc(o) => Asc(r)
  BY PickedIs DEF Asc
<1>2. \A x : x \in ToSet(o) <=> \E i \in 1..Len(o) : o[i] = x
  BY Elements
<1> HIDE DEF r
<1>3. /\ a \o r \in Seq(Packet)
      /\ \A x : x \in ToSet(a \o r) <=> x \in ToSet(a) \/ x \in ToSet(r)
      /\ \A x : x \in ToSet(a \o o) <=> x \in ToSet(a) \/ x \in ToSet(o)
      /\ Asc(a \o r) <=> Asc(a) /\ Asc(r) /\ \A x \in ToSet(a), y \in ToSet(r) : x < y
      /\ Asc(a \o o) <=> Asc(a) /\ Asc(o) /\ \A x \in ToSet(a), y \in ToSet(o) : x < y
  BY <1>1, Assoc, ConcatSet, AscConcat
<1>4. \A x \in ToSet(r) : x \in ToSet(o)
  BY <1>1, <1>2
<1>5. \A x \in ToSet(o) : x \in ToSet(r) \/ x \in N
  BY <1>1, <1>2
<1>6. Thins(a \o r, D \ N, a \o o, D, G)
  BY <1>1, <1>3, <1>4, <1>5 DEF Thins
<1> QED BY <1>6 DEF r

-----------------------------------------------------------------------------
(* The window                                                              *)

\* A window as a record.
LEMMA WinIs ==
  /\ \A w \in Win : /\ w = [phase |-> w.phase, base |-> w.base, held |-> w.held]
                    /\ w.phase \in 0..2 /\ w.base \in Int /\ w.held \subseteq Packet
  /\ \A f \in 0..2, b \in Int, H \in SUBSET Packet : [phase |-> f, base |-> b, held |-> H] \in Win
BY DEF Win

LEMMA WinChanged ==
  ASSUME NEW w \in Win, NEW b \in Int, NEW H \in SUBSET Packet
  PROVE  /\ [w EXCEPT !.base = b, !.held = H] = [phase |-> w.phase, base |-> b, held |-> H]
         /\ [w EXCEPT !.held = H, !.base = b] = [phase |-> w.phase, base |-> b, held |-> H]
         /\ [w EXCEPT !.held = H] = [phase |-> w.phase, base |-> w.base, held |-> H]
<1> DEFINE v == [w EXCEPT !.base = b, !.held = H]
           u == [w EXCEPT !.held = H]
           x == [w EXCEPT !.held = H, !.base = b]
<1>1. v \in Win /\ u \in Win /\ x \in Win
  BY DEF Win
<1>2. v.phase = w.phase /\ v.base = b /\ v.held = H
  BY DEF Win
<1>3. u.phase = w.phase /\ u.base = w.base /\ u.held = H
  BY DEF Win
<1>4. x.phase = w.phase /\ x.base = b /\ x.held = H
  BY DEF Win
<1> HIDE DEF v, u, x
<1>5. v = [phase |-> w.phase, base |-> b, held |-> H]
  BY <1>1, <1>2, WinIs
<1>6. u = [phase |-> w.phase, base |-> w.base, held |-> H]
  BY <1>1, <1>3, WinIs
<1>7. x = [phase |-> w.phase, base |-> b, held |-> H]
  BY <1>1, <1>4, WinIs
<1> QED BY <1>5, <1>6, <1>7 DEF v, u, x

\* The packets held are less than a window from the packet b.
Near(w, b) == \A p \in w.held : b <= p /\ p < b + Window

\* Packets less than a window apart have slots of their own.
LEMMA AtIs ==
  ASSUME NEW w \in Win, NEW b \in Int, Near(w, b), NEW p \in Int, b <= p, p < b + Window
  PROVE  /\ At(w, p) = w.held \cap {p}
         /\ p \in w.held => At(w, p) # {} /\ Occupant(w, p) = p
         /\ p \notin w.held => At(w, p) = {}
<1>1. Window \in Nat \ {0}
  BY SourceAssumption
<1>2. ASSUME NEW h \in w.held, h % Window = p % Window PROVE h = p
  <2>1. h \in Int /\ b <= h /\ h < b + Window
    BY WinIs DEF Near, Packet
  <2>2. -Window < h - p /\ h - p < Window
    BY <1>1, <2>1
  <2> QED BY <1>1, <1>2, <2>1, <2>2, ModSame
<1>3. At(w, p) = w.held \cap {p}
  BY <1>2 DEF At
<1>4. p \in w.held => At(w, p) = {p}
  BY <1>3
<1>5. p \in w.held => Occupant(w, p) = p
  BY <1>4 DEF Occupant
<1> QED BY <1>3, <1>4, <1>5

\* What is emptied of the slots of the packets of T.
LEMMA EmptiedIs ==
  ASSUME NEW w \in Win, NEW b \in Int, Near(w, b), NEW T \in SUBSET Int,
         \A p \in T : b <= p /\ p < b + Window
  PROVE  w.held \ UNION {At(w, p) : p \in T} = w.held \ T
<1>1. \A p \in T : At(w, p) = w.held \cap {p}
  BY AtIs
<1>2. ASSUME NEW x \in w.held PROVE x \in UNION {At(w, p) : p \in T} <=> x \in T
  <2>1. ASSUME NEW p \in T, x \in At(w, p) PROVE x \in T
    BY <1>1, <2>1
  <2>2. ASSUME x \in T PROVE x \in At(w, x)
    BY <1>1, <2>2
  <2> QED BY <2>1, <2>2
<1> QED BY <1>2

\* A packet put into its slot.
LEMMA PutIs ==
  ASSUME NEW w \in Win, NEW b \in Int, Near(w, b), NEW s \in Packet, b <= s, s < b + Window
  PROVE  Put(w, s) = [phase |-> w.phase, base |-> w.base, held |-> w.held \cup {s}]
<1>1. s \in Int
  BY DEF Packet
<1>2. At(w, s) = w.held \cap {s}
  BY <1>1, AtIs
<1>3. (w.held \ At(w, s)) \cup {s} = w.held \cup {s}
  BY <1>2
<1>4. w.held \cup {s} \in SUBSET Packet /\ w.base \in Int
  BY WinIs
<1>5. Put(w, s) = [w EXCEPT !.held = w.held \cup {s}]
  BY <1>3 DEF Put
<1> QED BY <1>4, <1>5, WinChanged

\* Flush hands on what follows without a hole.
LEMMA FlushIs ==
  ASSUME NEW w \in Win, Near(w, w.base)
  PROVE  \E n \in Nat :
    /\ Flush(w).win = [phase |-> w.phase, base |-> w.base + n,
                       held |-> w.held \ (w.base .. w.base + n - 1)]
    /\ Flush(w).out = [k \in 1..n |-> w.base + k - 1]
    /\ w.base + n \notin w.held
    /\ \A p \in w.base .. w.base + n - 1 : p \in w.held
<1> DEFINE c == Cardinality(w.held)
           K == {k \in 0..c : k = c \/ At(w, w.base + k) = {}}
<1>1. w.base \in Int /\ w.held \subseteq Packet /\ IsFiniteSet(w.held) /\ c \in Nat
  BY WinIs, PacketsSortable DEF Sortable
<1>2. c <= Window /\ Window \in Nat
  <2>1. Window \in Nat /\ w.held \subseteq w.base .. w.base + Window - 1
    <3>1. Window \in Nat /\ \A p \in w.held : p \in Int
      BY <1>1, SourceAssumption DEF Packet
    <3> QED BY <1>1, <3>1 DEF Near
  <2>2. /\ IsFiniteSet(w.base .. w.base + Window - 1)
        /\ Cardinality(w.base .. w.base + Window - 1) = Window
    <3>1. /\ w.base \in Int /\ w.base + Window - 1 \in Int
          /\ ~(w.base > w.base + Window - 1) /\ (w.base + Window - 1) - w.base + 1 = Window
      BY <1>1, SourceAssumption
    <3> QED BY <3>1, FS_Interval
  <2> QED BY <2>1, <2>2, FS_Subset
<1>3. K \in SUBSET Nat /\ K # {}
  BY <1>1
<1> DEFINE n == Min(K)
<1>4. n \in K /\ \A k \in K : n <= k
  BY <1>3, LeastIs
<1>5. Flush(w) = [win |-> [w EXCEPT !.base = w.base + n,
                            !.held = w.held \ UNION {At(w, p) : p \in w.base .. w.base + n - 1}],
                  out |-> [k \in 1..n |-> Occupant(w, w.base + k - 1)]]
  BY DEF Flush
<1> HIDE DEF n
<1>6. /\ n \in 0..c /\ (n = c \/ At(w, w.base + n) = {})
      /\ \A k \in 0..c : k < n => k # c /\ At(w, w.base + k) # {}
  BY <1>1, <1>4
<1> HIDE DEF K, c
<1>7. \A k \in 0..c : k < n => w.base + k \in w.held
  <2> SUFFICES ASSUME NEW k \in 0..c, k < n PROVE w.base + k \in w.held
    OBVIOUS
  <2>1. /\ w.base + k \in Int /\ w.base <= w.base + k /\ w.base + k < w.base + Window
        /\ At(w, w.base + k) # {}
    BY <1>1, <1>2, <1>6
  <2> QED BY <1>1, <2>1, AtIs
<1>8. \A p \in w.base .. w.base + n - 1 : p \in w.held
  <2> SUFFICES ASSUME NEW p \in w.base .. w.base + n - 1 PROVE p \in w.held
    OBVIOUS
  <2>1. p - w.base \in 0..c /\ p - w.base < n /\ w.base + (p - w.base) = p
    BY <1>1, <1>6
  <2> QED BY <1>7, <2>1
<1>9. w.base + n \notin w.held
  <2> SUFFICES ASSUME w.base + n \in w.held PROVE FALSE
    OBVIOUS
  <2>1. At(w, w.base + n) # {}
    BY DEF At
  <2>2. n = c
    BY <1>6, <2>1
  <2>3. (w.base .. w.base + c) \subseteq w.held
    <3> SUFFICES ASSUME NEW p \in w.base .. w.base + c PROVE p \in w.held
      OBVIOUS
    <3>0. w.base \in Int /\ n \in Nat /\ p \in w.base .. w.base + n
      BY <1>1, <2>2
    <3>1. p \in w.base .. w.base + n - 1 \/ p = w.base + n
      BY <3>0
    <3> QED BY <1>8, <3>1
  <2>4. Cardinality(w.base .. w.base + c) <= c
    BY <1>1, <2>3, FS_Subset DEF c
  <2>5. Cardinality(w.base .. w.base + c) = c + 1
    BY <1>1, FS_Interval
  <2> QED BY <1>1, <2>4, <2>5
<1>10. \A p \in w.base .. w.base + n - 1 : p \in Int /\ w.base <= p /\ p < w.base + Window
  BY <1>1, <1>2, <1>6
<1>11. w.held \ UNION {At(w, p) : p \in w.base .. w.base + n - 1} = w.held \ (w.base .. w.base + n - 1)
  <2> DEFINE T == w.base .. w.base + n - 1
  <2>1. T \in SUBSET Int /\ \A p \in T : w.base <= p /\ p < w.base + Window
    BY <1>10
  <2> HIDE DEF T
  <2>2. w.held \ UNION {At(w, p) : p \in T} = w.held \ T
    BY <1>1, <2>1, EmptiedIs
  <2> QED BY <2>2 DEF T
<1>12. [k \in 1..n |-> Occupant(w, w.base + k - 1)] = [k \in 1..n |-> w.base + k - 1]
  <2> SUFFICES ASSUME NEW k \in 1..n PROVE Occupant(w, w.base + k - 1) = w.base + k - 1
    OBVIOUS
  <2>1. w.base + k - 1 \in w.base .. w.base + n - 1
    BY <1>1, <1>6
  <2> QED BY <1>1, <1>8, <1>10, <2>1, AtIs
<1>13. [w EXCEPT !.base = w.base + n, !.held = w.held \ (w.base .. w.base + n - 1)]
        = [phase |-> w.phase, base |-> w.base + n, held |-> w.held \ (w.base .. w.base + n - 1)]
  <2>1. w.base + n \in Int /\ w.held \ (w.base .. w.base + n - 1) \in SUBSET Packet
    BY <1>1, <1>6
  <2> QED BY <2>1, WinChanged
<1>14. /\ Flush(w).win = [phase |-> w.phase, base |-> w.base + n,
                          held |-> w.held \ (w.base .. w.base + n - 1)]
       /\ Flush(w).out = [k \in 1..n |-> w.base + k - 1]
  <2>1. Flush(w) = [win |-> [w EXCEPT !.base = w.base + n,
                                      !.held = w.held \ (w.base .. w.base + n - 1)],
                    out |-> [k \in 1..n |-> w.base + k - 1]]
    BY <1>5, <1>11, <1>12
  <2> QED BY <1>13, <2>1
<1>15. n \in Nat
  BY <1>1, <1>6
<1> QED BY <1>8, <1>9, <1>14, <1>15

\* In a started window: it stays one, and what is handed on leaves out nothing.
LEMMA FlushKeeps ==
  ASSUME NEW w \in Win, NEW E \in SUBSET Packet, NEW g \in Int, NEW K, w.phase = 2,
         Near(w, w.base), \A p \in w.held : p <= g /\ p \in K
  PROVE  /\ Flush(w).win \in Win /\ Flush(w).out \in Seq(Packet)
         /\ Flush(w).win.phase = 2 /\ w.base <= Flush(w).win.base
         /\ Shaped(Flush(w).win, g, K) /\ ToSet(Flush(w).out) \subseteq K
         /\ Waits(w, E) => Waits(Flush(w).win, E)
         /\ Covers(Flush(w).out, w.base, Flush(w).win.base, E, g, K)
<1>1. PICK n \in Nat :
    /\ Flush(w).win = [phase |-> w.phase, base |-> w.base + n,
                       held |-> w.held \ (w.base .. w.base + n - 1)]
    /\ Flush(w).out = [k \in 1..n |-> w.base + k - 1]
    /\ w.base + n \notin w.held
    /\ \A p \in w.base .. w.base + n - 1 : p \in w.held
  BY FlushIs
<1> DEFINE b == w.base
           H == w.held \ (b .. b + n - 1)
           q == [k \in 1..n |-> b + k - 1]
<1>2. b \in Int /\ w.held \in SUBSET Packet /\ H \in SUBSET Packet
  BY WinIs
<1>3. Flush(w).win \in Win /\ Flush(w).win.phase = 2 /\ Flush(w).win.base = b + n /\ Flush(w).win.held = H
  <2>1. b + n \in Int /\ w.phase \in 0..2
    BY <1>2, WinIs
  <2>2. [phase |-> w.phase, base |-> b + n, held |-> H] \in Win
    BY <1>2, <2>1, WinIs
  <2> QED BY <1>1, <2>2
<1>4. \A k \in 1..n : b + k - 1 \in b .. b + n - 1
  BY <1>2
<1>5. \A k \in 1..n : b + k - 1 \in Packet /\ b + k - 1 \in K
  BY <1>1, <1>2, <1>4
<1>6. q \in Seq(Packet) /\ Len(q) = n /\ \A k \in 1..n : q[k] = b + k - 1
  BY <1>5
<1>7. \A p \in w.held : p \in Int
  BY <1>2 DEF Packet
<1>8. \A p \in H : p \in w.held /\ p >= b + n /\ p <= g
  BY <1>2, <1>7 DEF Near
<1>9. \A p \in w.held : p >= b + n => p \in H
  BY <1>2, <1>7
<1>10. \A s \in b .. b + n - 1 : \E k \in 1..n : q[k] = s
  <2> SUFFICES ASSUME NEW s \in b .. b + n - 1 PROVE \E k \in 1..n : q[k] = s
    OBVIOUS
  <2>1. s - b + 1 \in 1..n /\ b + (s - b + 1) - 1 = s
    BY <1>2
  <2> QED BY <1>6, <2>1
<1> HIDE DEF q, H
<1>11. Covers(q, b, b + n, E, g, K)
  <2>1. \A i, j \in 1..n : i < j => q[i] < q[j]
    BY <1>2, <1>6
  <2>2. \A i \in 1..n : b <= q[i] /\ q[i] < b + n
    BY <1>2, <1>6
  <2>3. \A s \in b .. b + n - 1 : s \in ToSet(q)
    BY <1>6, <1>10, Elements
  <2>4. Len(q) = n
    BY <1>6
  <2> DEFINE e == b + n
  <2>5. \A i \in 1..Len(q) : b <= q[i] /\ q[i] < e
    BY <2>2, <2>4
  <2>6. \A s \in b .. e - 1 : s \in ToSet(q)
    <3>1. b + n - 1 = e - 1
      BY <1>2
    <3> QED BY <2>3, <3>1
  <2>7. \A i, j \in 1..Len(q) : i < j => q[i] < q[j]
    BY <2>1, <2>4
  <2> HIDE DEF b, e
  <2>8. Covers(q, b, e, E, g, K)
    BY <2>5, <2>6, <2>7 DEF Covers
  <2> QED BY <2>8 DEF e
<1>12. Flush(w).out = q
  BY <1>1 DEF q
<1>13. Waits(w, E) => Waits(Flush(w).win, E)
  <2> SUFFICES ASSUME Waits(w, E), NEW p \in E, p >= b + n PROVE p \in H
    BY <1>2, <1>3 DEF Waits
  <2>1. p \in Int /\ p >= b
    BY <1>2 DEF Packet
  <2> QED BY <1>9, <2>1 DEF Waits
<1>14. Shaped(Flush(w).win, g, K)
  <2>1. \A p \in H : p < (b + n) + Window /\ p \in K
    <3>1. Window \in Nat
      BY SourceAssumption
    <3> QED BY <1>2, <1>7, <1>8, <3>1 DEF Near
  <2> QED BY <1>3, <1>8, <2>1 DEF Shaped
<1>15. ToSet(q) \subseteq K
  BY <1>5, <1>6, Elements
<1> QED BY <1>2, <1>3, <1>6, <1>11, <1>12, <1>13, <1>14, <1>15

\* The slots up to that of packet b emptied in turn.
LEMMA ForcedIs ==
  ASSUME NEW w \in Win, Near(w, w.base), NEW b \in Int, w.base < b
  PROVE  LET passed == {p \in w.held : p < b}
         IN  /\ Forced(w, b).win = [phase |-> w.phase, base |-> b, held |-> w.held \ passed]
             /\ Forced(w, b).out = Ascending(passed)
<1> DEFINE top == Min({b, w.base + Window})
           passed == {p \in w.base .. top - 1 : At(w, p) # {}}
<1>1. w.base \in Int /\ w.held \subseteq Packet /\ Window \in Nat \ {0}
  BY WinIs, SourceAssumption
<1>2. top \in Int /\ top <= b /\ top <= w.base + Window /\ (top = b \/ top = w.base + Window)
  <2> DEFINE S == {b - w.base, Window}
             T == {b, w.base + Window}
  <2>1. top = CHOOSE x \in T : \A y \in T : x <= y
    BY DEF Min
  <2>2. \E x \in T : \A y \in T : x <= y
    BY <1>1
  <2>3. top \in T /\ \A y \in T : top <= y
    BY <2>1, <2>2
  <2> HIDE DEF top
  <2> QED BY <1>1, <2>3
<1>3. Forced(w, b) = [win |-> [w EXCEPT !.base = b,
                                        !.held = w.held \ UNION {At(w, p) : p \in passed}],
                      out |-> [k \in 1..Cardinality(passed) |-> Occupant(w, Ascending(passed)[k])]]
  BY DEF Forced
<1> HIDE DEF top
<1>4. \A p \in w.held : p \in Int /\ w.base <= p /\ p < w.base + Window
  BY <1>1 DEF Near, Packet
<1>5. passed = {p \in w.held : p < b}
  <2>1. ASSUME NEW p \in w.base .. top - 1 PROVE p < b /\ (At(w, p) # {} <=> p \in w.held)
    <3>1. p \in Int /\ w.base <= p /\ p < w.base + Window /\ p < b
      BY <1>1, <1>2
    <3> QED BY <1>1, <3>1, AtIs
  <2>2. ASSUME NEW p \in w.held, p < b PROVE p \in w.base .. top - 1
    BY <1>1, <1>2, <1>4, <2>2
  <2> QED BY <2>1, <2>2
<1> HIDE DEF passed
<1>6. passed \in SUBSET (1..LastPacket) /\ passed \in SUBSET Int /\ passed \subseteq w.held
  BY <1>1, <1>4, <1>5 DEF Packet
<1>7. w.held \ UNION {At(w, p) : p \in passed} = w.held \ passed
  BY <1>1, <1>4, <1>6, EmptiedIs
<1>8. /\ Cardinality(passed) \in Nat
      /\ Ascending(passed) \in [1..Cardinality(passed) -> passed]
  BY <1>6, AscendingIs, SourceAssumption
<1>9. [k \in 1..Cardinality(passed) |-> Occupant(w, Ascending(passed)[k])] = Ascending(passed)
  <2>1. ASSUME NEW k \in 1..Cardinality(passed) PROVE Occupant(w, Ascending(passed)[k]) = Ascending(passed)[k]
    <3>1. Ascending(passed)[k] \in w.held
      BY <1>6, <1>8
    <3> QED BY <1>1, <1>4, <3>1, AtIs
  <2> QED BY <1>8, <2>1
<1>10. [w EXCEPT !.base = b, !.held = w.held \ passed]
         = [phase |-> w.phase, base |-> b, held |-> w.held \ passed]
  <2>1. w.held \ passed \in SUBSET Packet
    BY <1>1
  <2> QED BY <2>1, WinChanged
<1>11. Forced(w, b) = [win |-> [phase |-> w.phase, base |-> b, held |-> w.held \ passed],
                       out |-> Ascending(passed)]
  BY <1>3, <1>7, <1>9, <1>10
<1> QED BY <1>5, <1>11

\* What an insertion does: w is the window before, v after it, q what it hands on.
Inserted(w, v, q, E, g, K) ==
  /\ v \in Win /\ q \in Seq(Packet) /\ Shaped(v, g, K) /\ ToSet(q) \subseteq K
  /\ v.phase < 2 => w.phase < 2 /\ q = <<>>
  /\ w.phase < 2 /\ v.phase = 2 => Run(q, v.base, E, g, K)
  /\ w.phase = 2 => w.base <= v.base

Arrives(s, D, h, G, E, g, K) ==
  /\ g = IF s > h THEN s ELSE h
  /\ K = G \cup {s}
  /\ D \subseteq E /\ E \subseteq D \cup {s} /\ \A p \in E \ D : p > g - Window /\ p \notin G

LEMMA NoneIs ==
  /\ <<>> \in Seq(Packet) /\ Len(<<>>) = 0 /\ ToSet(<<>>) = {}
  /\ \A b \in Int : \A E, g, K : Covers(<<>>, b, b, E, g, K)
<1>1. <<>> \in Seq(Packet) /\ Len(<<>>) = 0
  OBVIOUS
<1>2. \A x : x \notin ToSet(<<>>)
  <2>1. \A x : x \in ToSet(<<>>) <=> \E i \in 1..Len(<<>>) : <<>>[i] = x
    BY <1>1, Elements
  <2> QED BY <1>1, <2>1
<1>3. ASSUME NEW b \in Int, NEW E, NEW g, NEW K PROVE Covers(<<>>, b, b, E, g, K)
  <2>1. b .. b - 1 = {} /\ \A i \in 1..Len(<<>>) : FALSE
    BY <1>1
  <2> QED BY <2>1 DEF Covers
<1> QED BY <1>1, <1>2, <1>3

LEMMA InsertFirst ==
  ASSUME NEW w \in Win, NEW s \in Packet, NEW D \in SUBSET Packet, NEW E \in SUBSET Packet,
         NEW h \in Int, NEW g \in Int, NEW G, NEW K, Arrives(s, D, h, G, E, g, K),
         Shaped(w, h, G), w.phase = 0
  PROVE  /\ Inserted(w, Insert(w, s).win, Insert(w, s).out, E, g, K)
         /\ Waits(w, D) => Waits(Insert(w, s).win, E)
<1> DEFINE v == [phase |-> 1, base |-> s, held |-> {s}]
<1>1. s \in Int /\ h <= g /\ s <= g /\ s \in K /\ Window \in Nat \ {0}
  BY SourceAssumption DEF Arrives, Packet
<1>2. w.held = {}
  BY DEF Shaped
<1>3. Insert(w, s).win = v /\ Insert(w, s).out = <<>>
  <2>1. Insert(w, s) = [win |-> v, out |-> <<>>]
    BY DEF Insert
  <2> QED BY <2>1
<1>4. v \in Win
  <2>1. 1 \in 0..2 /\ {s} \in SUBSET Packet
    OBVIOUS
  <2> QED BY <1>1, <2>1, WinIs
<1>5. v.phase = 1 /\ v.base = s /\ v.held = {s}
  OBVIOUS
<1> HIDE DEF v
<1>6. Shaped(v, g, K)
  BY <1>1, <1>5 DEF Shaped
<1>7. Waits(w, D) => Waits(v, E)
  BY <1>2, <1>5 DEF Waits, Arrives
<1>8. v.phase < 2 /\ ~(v.phase = 2) /\ w.phase < 2 /\ ~(w.phase = 2)
  BY <1>5
<1> QED BY <1>3, <1>4, <1>6, <1>7, <1>8, NoneIs DEF Inserted

LEMMA InsertCollecting ==
  ASSUME NEW w \in Win, NEW s \in Packet, NEW D \in SUBSET Packet, NEW E \in SUBSET Packet,
         NEW h \in Int, NEW g \in Int, NEW G, NEW K, Arrives(s, D, h, G, E, g, K),
         Shaped(w, h, G), Within(w, s), w.phase = 1
  PROVE  /\ Inserted(w, Insert(w, s).win, Insert(w, s).out, E, g, K)
         /\ Waits(w, D) => Waits(Insert(w, s).win, E)
<1> DEFINE b == IF s < w.base THEN s ELSE w.base
           y == [phase |-> 1, base |-> b, held |-> w.held \cup {s}]
           z == [phase |-> 2, base |-> b, held |-> w.held \cup {s}]
<1>1. /\ s \in Int /\ h <= g /\ s <= g /\ w.base \in Int /\ w.held \subseteq Packet
      /\ G \subseteq K /\ s \in K /\ Window \in Nat \ {0} /\ StartSpan <= Window /\ StartSpan \in Nat
  BY WinIs, SourceAssumption DEF Arrives, Packet
<1>2. \A p \in w.held : /\ p \in Int /\ w.base <= p /\ p < w.base + Window /\ p <= g /\ p \in K
                        /\ s - p < StartSpan /\ p - s < StartSpan
  BY <1>1 DEF Shaped, Packet, Within
<1>3. w.base \in w.held
  BY DEF Shaped
<1>4. b \in Int /\ b <= s /\ s < b + Window /\ b <= w.base /\ Near(w, b)
  BY <1>1, <1>2, <1>3 DEF Near
<1> DEFINE x == [w EXCEPT !.held = w.held \cup {s}]
           c == IF At(w, s) # {} THEN w ELSE [x EXCEPT !.base = IF s < x.base THEN s ELSE x.base]
<1>5. c = y
  <2>1. CASE s \in w.held
    <3>1. At(w, s) # {}
      BY <1>1, <1>4, <2>1, AtIs
    <3>2. b = w.base /\ w.held \cup {s} = w.held
      BY <1>1, <1>2, <2>1
    <3>3. w = [phase |-> 1, base |-> w.base, held |-> w.held]
      BY WinIs
    <3>4. c = w
      BY <3>1
    <3>5. y = [phase |-> 1, base |-> w.base, held |-> w.held]
      BY <3>2
    <3> QED BY <3>3, <3>4, <3>5
  <2>2. CASE s \notin w.held
    <3>1. At(w, s) = {}
      BY <1>1, <1>4, <2>2, AtIs
    <3>2. w.held \cup {s} \in SUBSET Packet
      BY <1>1
    <3>3. x.base = w.base
      BY DEF Win
    <3>4. c = [x EXCEPT !.base = b]
      BY <3>1, <3>3
    <3>5. [x EXCEPT !.base = b] = [phase |-> w.phase, base |-> b, held |-> w.held \cup {s}]
      <4> DEFINE H == w.held \cup {s}
      <4>1. b \in Int /\ H \in SUBSET Packet
        BY <1>4, <3>2
      <4> HIDE DEF b, H
      <4>2. [w EXCEPT !.held = H, !.base = b] = [phase |-> w.phase, base |-> b, held |-> H]
        BY <4>1, WinChanged
      <4> QED BY <4>2 DEF H
    <3> QED BY <3>4, <3>5
  <2> QED BY <2>1, <2>2
<1>6. [c EXCEPT !.phase = 2] = z
  <2> DEFINE u == [y EXCEPT !.phase = 2]
  <2>1. y \in Win /\ 2 \in 0..2
    <3>1. 1 \in 0..2 /\ w.held \cup {s} \in SUBSET Packet
      BY <1>1
    <3> QED BY <1>4, <3>1, WinIs
  <2>2. u \in Win
    BY <2>1 DEF Win
  <2>3. u.phase = 2 /\ u.base = b /\ u.held = w.held \cup {s}
    BY <2>1 DEF Win
  <2> HIDE DEF u
  <2>4. u = z
    BY <2>2, <2>3, WinIs
  <2> QED BY <1>5, <2>4 DEF u
<1>7. Insert(w, s) = IF Cardinality(y.held) >= InitCollect THEN Flush(z) ELSE [win |-> y, out |-> <<>>]
  <2>1. Insert(w, s) = IF Cardinality(c.held) >= InitCollect THEN Flush([c EXCEPT !.phase = 2])
                       ELSE [win |-> c, out |-> <<>>]
    BY DEF Insert
  <2> HIDE DEF c, y, z
  <2> QED BY <1>5, <1>6, <2>1
<1> HIDE DEF c, x
<1>8. y \in Win /\ z \in Win
  <2>1. 1 \in 0..2 /\ 2 \in 0..2 /\ w.held \cup {s} \in SUBSET Packet
    BY <1>1
  <2> QED BY <1>4, <2>1, WinIs
<1>9. /\ y.phase = 1 /\ y.base = b /\ y.held = w.held \cup {s}
      /\ z.phase = 2 /\ z.base = b /\ z.held = w.held \cup {s}
  OBVIOUS
<1> HIDE DEF y, z
<1>10. Near(z, z.base) /\ \A p \in z.held : p <= g /\ p \in K
  BY <1>1, <1>2, <1>4, <1>9 DEF Near
<1>11. Waits(w, D) => \A p \in E : p \in y.held
  BY <1>9 DEF Waits, Arrives
<1>12. CASE Cardinality(y.held) >= InitCollect
  <2>1. Insert(w, s) = Flush(z)
    BY <1>7, <1>12
  <2>2. /\ Flush(z).win \in Win /\ Flush(z).out \in Seq(Packet)
        /\ Flush(z).win.phase = 2 /\ z.base <= Flush(z).win.base
        /\ Shaped(Flush(z).win, g, K) /\ ToSet(Flush(z).out) \subseteq K
        /\ Waits(z, E) => Waits(Flush(z).win, E)
        /\ Covers(Flush(z).out, z.base, Flush(z).win.base, E, g, K)
    BY <1>8, <1>9, <1>10, FlushKeeps
  <2>3. z.base \in Int /\ Flush(z).win.base \in Int
    BY <1>8, <2>2, WinIs
  <2>4. Run(Flush(z).out, Flush(z).win.base, E, g, K)
    BY <2>2, <2>3, CoversRun
  <2>5. Waits(w, D) => Waits(z, E)
    BY <1>9, <1>11 DEF Waits
  <2> QED BY <2>1, <2>2, <2>4, <2>5 DEF Inserted
<1>13. CASE ~(Cardinality(y.held) >= InitCollect)
  <2>1. Insert(w, s).win = y /\ Insert(w, s).out = <<>>
    BY <1>7, <1>13
  <2>2. Shaped(y, g, K)
    <3>1. b \in y.held
      BY <1>3, <1>9
    <3>2. \A p \in y.held : b <= p /\ p < b + Window /\ p <= g /\ p \in K
      BY <1>9, <1>10 DEF Near
    <3> QED BY <1>9, <3>1, <3>2 DEF Shaped
  <2>3. Waits(w, D) => Waits(y, E)
    BY <1>11 DEF Waits
  <2>4. y.phase < 2 /\ ~(y.phase = 2) /\ w.phase < 2 /\ ~(w.phase = 2)
    BY <1>9
  <2> QED BY <1>8, <2>1, <2>2, <2>3, <2>4, NoneIs DEF Inserted
<1> QED BY <1>12, <1>13

LEMMA InsertStarted ==
  ASSUME NEW w \in Win, NEW s \in Packet, NEW D \in SUBSET Packet, NEW E \in SUBSET Packet,
         NEW h \in Int, NEW g \in Int, NEW G, NEW K, Arrives(s, D, h, G, E, g, K),
         Shaped(w, h, G), w.phase = 2
  PROVE  /\ Inserted(w, Insert(w, s).win, Insert(w, s).out, E, g, K)
         /\ Insert(w, s).win.phase = 2
         /\ Waits(w, D) => /\ Waits(Insert(w, s).win, E)
                           /\ Covers(Insert(w, s).out, w.base, Insert(w, s).win.base, E, g, K)
<1> DEFINE x == [phase |-> 2, base |-> w.base, held |-> w.held \cup {s}]
<1>1. /\ s \in Int /\ h <= g /\ s <= g /\ w.base \in Int /\ w.held \subseteq Packet
      /\ Window \in Nat \ {0} /\ G \subseteq K /\ s \in K
  BY WinIs, SourceAssumption DEF Arrives, Packet
<1>2. \A p \in w.held : p \in Int /\ w.base <= p /\ p < w.base + Window /\ p <= g /\ p \in K
  BY <1>1 DEF Shaped, Packet
<1>3. x \in Win /\ x.phase = 2 /\ x.base = w.base /\ x.held = w.held \cup {s}
  <2>1. 2 \in 0..2 /\ w.held \cup {s} \in SUBSET Packet
    BY <1>1
  <2> QED BY <1>1, <2>1, WinIs
<1>4. \A p \in E : p \in Int /\ (p \in D \/ p = s)
  BY DEF Arrives, Packet
<1>0. Near(w, w.base)
  BY <1>2 DEF Near
<1>5. CASE s < w.base
  <2>1. Insert(w, s).win = w /\ Insert(w, s).out = <<>>
    BY <1>1, <1>5 DEF Insert
  <2>2. Shaped(w, g, K)
    BY <1>2 DEF Shaped
  <2>3. Waits(w, D) => Waits(w, E)
    BY <1>1, <1>4, <1>5 DEF Waits
  <2> QED BY <1>1, <2>1, <2>2, <2>3, NoneIs DEF Inserted
<1>6. CASE s = w.base
  <2>1. Insert(w, s) = Flush(x)
    <3>1. Put(w, s) = x
      <4>1. w.base <= s /\ s < w.base + Window
        BY <1>1, <1>6
      <4> QED BY <1>0, <1>1, <4>1, PutIs
    <3> QED BY <1>1, <1>6, <3>1 DEF Insert
  <2> HIDE DEF x
  <2>2. /\ Flush(x).win \in Win /\ Flush(x).out \in Seq(Packet)
        /\ Flush(x).win.phase = 2 /\ x.base <= Flush(x).win.base
        /\ Shaped(Flush(x).win, g, K) /\ ToSet(Flush(x).out) \subseteq K
        /\ Waits(x, E) => Waits(Flush(x).win, E)
        /\ Covers(Flush(x).out, x.base, Flush(x).win.base, E, g, K)
    <3>1. Near(x, x.base) /\ \A p \in x.held : p <= g /\ p \in K
      BY <1>1, <1>2, <1>3, <1>6 DEF Near
    <3> QED BY <1>3, <3>1, FlushKeeps
  <2>3. Waits(w, D) => Waits(x, E)
    BY <1>3, <1>4 DEF Waits
  <2> QED BY <1>3, <2>1, <2>2, <2>3 DEF Inserted
<1>7. CASE s > w.base /\ s - w.base < Window
  <2>1. Insert(w, s).win = x /\ Insert(w, s).out = <<>>
    <3>1. Put(w, s) = x
      <4>1. w.base <= s /\ s < w.base + Window
        BY <1>1, <1>7
      <4> QED BY <1>0, <1>1, <4>1, PutIs
    <3>2. ~(s < w.base) /\ s # w.base
      BY <1>1, <1>7
    <3> QED BY <1>7, <3>1, <3>2 DEF Insert
  <2> HIDE DEF x
  <2>2. Shaped(x, g, K)
    <3>1. \A p \in x.held : w.base <= p /\ p < w.base + Window /\ p <= g /\ p \in K
      BY <1>1, <1>2, <1>3, <1>7
    <3> QED BY <1>3, <3>1 DEF Shaped
  <2>3. Waits(w, D) => Waits(x, E)
    BY <1>3, <1>4 DEF Waits
  <2> QED BY <1>1, <1>3, <2>1, <2>2, <2>3, NoneIs DEF Inserted
<1>8. CASE s > w.base /\ s - w.base >= Window
  <2> DEFINE f == s - Window + 1
             passed == {p \in w.held : p < f}
             u == [phase |-> 2, base |-> f, held |-> w.held \ passed]
             v == [phase |-> 2, base |-> f, held |-> (w.held \ passed) \cup {s}]
             q == Ascending(passed)
  <2>2. f \in Int /\ w.base < f /\ f <= s /\ f - 1 = s - Window /\ s < f + Window
    BY <1>1, <1>8
  <2>0. Insert(w, s) = [win |-> Put(Forced(w, f).win, s), out |-> Forced(w, f).out]
    <3>1. ~(s < w.base) /\ s # w.base /\ ~(s - w.base < Window)
      BY <1>1, <1>8
    <3> QED BY <1>8, <3>1 DEF Insert
  <2> HIDE DEF f
  <2>4. Forced(w, f).win = u /\ Forced(w, f).out = q
    BY <1>0, <2>2, ForcedIs
  <2>3. passed \in SUBSET Packet /\ w.held \ passed \in SUBSET Packet
    BY <1>1
  <2>5. Put(u, s) = v
    <3>1. u \in Win
      <4>1. 2 \in 0..2
        OBVIOUS
      <4> QED BY <2>2, <2>3, <4>1, WinIs
    <3>2. Near(u, f)
      <4>1. \A p \in u.held : p \in Int /\ ~(p < f) /\ p < w.base + Window
        BY <1>2
      <4> QED BY <1>1, <2>2, <4>1 DEF Near
    <3> QED BY <2>2, <3>1, <3>2, PutIs
  <2>1. Insert(w, s).win = v /\ Insert(w, s).out = q
    BY <2>0, <2>4, <2>5
  <2>6. v \in Win /\ v.phase = 2 /\ v.base = f /\ v.held = (w.held \ passed) \cup {s}
    <3>1. 2 \in 0..2 /\ (w.held \ passed) \cup {s} \in SUBSET Packet
      BY <2>3
    <3> QED BY <2>2, <3>1, WinIs
  <2> HIDE DEF v, u
  <2>8. \A p : p \in v.held <=> (p \in w.held \/ p = s) /\ ~(p \in w.held /\ p < f)
    BY <1>1, <2>2, <2>6
  <2>9. Shaped(v, g, K)
    <3>1. \A p \in v.held : f <= p /\ p < f + Window /\ p <= g /\ p \in K
      BY <1>1, <1>2, <2>2, <2>8
    <3> QED BY <2>6, <3>1 DEF Shaped
  <2>10. Waits(w, D) => Waits(v, E)
    <3> SUFFICES ASSUME Waits(w, D), NEW p \in E, p >= f PROVE p \in v.held
      BY <2>6 DEF Waits
    <3>1. p \in Int /\ (p \in w.held \/ p = s)
      BY <1>1, <1>4, <2>2 DEF Waits
    <3> QED BY <2>2, <2>8, <3>1
  <2>11. /\ q \in Seq(passed) /\ \A i, j \in 1..Len(q) : i < j => q[i] < q[j]
         /\ \A p : p \in ToSet(q) <=> p \in passed
    <3>1. LastPacket \in Nat /\ passed \in SUBSET (1..LastPacket)
      BY <2>3, SourceAssumption DEF Packet
    <3> HIDE DEF passed
    <3>2. /\ q \in Seq(passed) /\ Len(q) = Cardinality(passed)
          /\ \A i, j \in 1..Cardinality(passed) : i < j => q[i] < q[j]
          /\ \A p : p \in ToSet(q) <=> p \in passed
      BY <3>1, AscendingIs
    <3> QED BY <3>2
  <2> HIDE DEF q
  <2>12. q \in Seq(Packet) /\ \A i \in 1..Len(q) : q[i] \in passed
    BY <2>3, <2>11
  <2>13. Waits(w, D) => Covers(q, w.base, f, E, g, K)
    <3> SUFFICES ASSUME Waits(w, D) PROVE Covers(q, w.base, f, E, g, K)
      OBVIOUS
    <3>1. \A i \in 1..Len(q) : w.base <= q[i] /\ q[i] < f
      BY <1>2, <2>12
    <3>2. ASSUME NEW p \in w.base .. f - 1
          PROVE  p \in ToSet(q) \/ (p \notin E /\ (p <= g - Window \/ p \in K))
      <4>1. p \in Int /\ p >= w.base /\ p < f /\ p <= s - Window
        BY <1>1, <2>2
      <4>2. p # s /\ p <= g - Window
        BY <1>1, <4>1
      <4>3. p \in D => p \in w.held
        BY <4>1 DEF Waits
      <4>4. p \in E => p \in passed
        BY <1>4, <4>1, <4>2, <4>3
      <4> QED BY <2>11, <4>2, <4>4
    <3> QED BY <2>11, <3>1, <3>2 DEF Covers
  <2>14. w.base <= v.base /\ ~(v.phase < 2) /\ ~(w.phase < 2)
    BY <1>1, <2>2, <2>6
  <2>15. ToSet(q) \subseteq K
    BY <1>2, <2>11
  <2>16. Inserted(w, v, q, E, g, K)
    BY <2>6, <2>9, <2>12, <2>14, <2>15 DEF Inserted
  <2> QED BY <2>1, <2>6, <2>10, <2>13, <2>16
<1>9. s < w.base \/ s = w.base \/ (s > w.base /\ s - w.base < Window)
      \/ (s > w.base /\ s - w.base >= Window)
  BY <1>1
<1> HIDE DEF x
<1> QED BY <1>5, <1>6, <1>7, <1>8, <1>9

-----------------------------------------------------------------------------
(* What a connection got                                                   *)

LEMMA ArrivesLater ==
  ASSUME NEW s \in Packet, NEW D, NEW h \in Int, NEW G, NEW E, NEW g \in Int, NEW K,
         Arrives(s, D, h, G, E, g, K)
  PROVE  Later(D, h, G, E, g, K)
BY DEF Arrives, Later, Packet

LEMMA KeptLater ==
  ASSUME NEW q \in Seq(Packet), NEW D, NEW E \in SUBSET Packet, NEW h \in Int, NEW g \in Int,
         NEW G, NEW K, Later(D, h, G, E, g, K), Kept(q, D, h, G)
  PROVE  Kept(q, E, g, K)
<1> SUFFICES ASSUME q # <<>> PROVE Run(q, q[Len(q)] + 1, E, g, K)
  BY DEF Kept
<1>1. q[Len(q)] + 1 \in Int
  BY Packets
<1> QED BY <1>1, RunLater DEF Kept

LEMMA FedLater ==
  ASSUME NEW q \in Seq(Packet), NEW w \in Win, NEW D \in SUBSET Packet, NEW h \in Int,
         NEW g \in Int, NEW G, NEW K, h <= g, G \subseteq K, Fed(q, w, D, h, G)
  PROVE  Fed(q, w, D, g, K)
<1>1. Later(D, h, G, D, g, K) /\ w.base \in Int
  BY WinIs DEF Later
<1> QED BY <1>1, RunLater DEF Fed

LEMMA ShapedLater ==
  ASSUME NEW w \in Win, NEW h \in Int, NEW g \in Int, NEW G, NEW K, h <= g, G \subseteq K,
         Shaped(w, h, G)
  PROVE  Shaped(w, g, K)
<1>1. \A p \in w.held : p \in Int
  BY WinIs DEF Packet
<1> QED BY <1>1 DEF Shaped

\* What was handed on is one run when it is one with what waits in the batch.
LEMMA FedKept ==
  ASSUME NEW q \in Seq(Packet), NEW r \in Seq(Packet), NEW w \in Win, NEW D, NEW h \in Int,
         NEW G, Fed(q \o r, w, D, h, G)
  PROVE  Kept(q, D, h, G)
<1> SUFFICES ASSUME q # <<>> PROVE Run(q, q[Len(q)] + 1, D, h, G)
  BY DEF Kept
<1>1. q \o r # <<>>
  <2>1. Len(q) # 0 /\ Len(q) \in Nat /\ Len(r) \in Nat
    BY Packets
  <2>2. Len(q \o r) = Len(q) + Len(r) /\ q \o r \in Seq(Packet)
    BY Concat
  <2> QED BY <2>1, <2>2, Packets
<1>2. Run(q \o r, w.base, D, h, G) /\ w.base \in Int
  BY <1>1, WinIs DEF Fed
<1> QED BY <1>2, RunPrefix

\* When packets are refused the rest is still a run.
LEMMA FedThins ==
  ASSUME NEW q \in Seq(Packet), NEW t, NEW w \in Win, NEW D, NEW E, NEW h \in Int, NEW G,
         Thins(t, E, q, D, G), Fed(q, w, D, h, G)
  PROVE  Fed(t, w, E, h, G)
<1>1. w.base \in Int
  BY WinIs
<1>2. Waits(w, E)
  BY DEF Fed, Waits, Thins
<1>3. CASE w.phase < 2
  <2>1. q = <<>>
    BY <1>3 DEF Fed
  <2>2. Run(q, 0, D, h, G)
    BY <2>1 DEF Run
  <2>3. t \in Seq(Packet) /\ \A x : x \notin ToSet(t)
    BY <2>1, NoneIs DEF Thins
  <2>4. t = <<>>
    <3>1. t # <<>> => t[1] \in ToSet(t)
      BY <2>3, Packets, Elements
    <3> QED BY <2>3, <3>1
  <2> QED BY <1>2, <1>3, <2>4 DEF Fed
<1>4. CASE ~(w.phase < 2)
  BY <1>1, <1>2, <1>4, RunThins DEF Fed
<1> QED BY <1>3, <1>4

LEMMA KeptLess ==
  ASSUME NEW q \in Seq(Packet), NEW D, NEW E, E \subseteq D, NEW h \in Int, NEW G, Kept(q, D, h, G)
  PROVE  Kept(q, E, h, G)
BY DEF Kept, Run, Covers

\* A packet goes through the window that serves a connection.
LEMMA InsertFed ==
  ASSUME NEW w \in Win, NEW s \in Packet, NEW D \in SUBSET Packet, NEW E \in SUBSET Packet,
         NEW h \in Int, NEW g \in Int, NEW G, NEW K, Arrives(s, D, h, G, E, g, K),
         Shaped(w, h, G), Within(w, s), NEW q \in Seq(Packet), Fed(q, w, D, h, G)
  PROVE  Fed(q \o Insert(w, s).out, Insert(w, s).win, E, g, K)
<1> DEFINE v == Insert(w, s).win
           o == Insert(w, s).out
<1>1. w.phase \in 0..2 /\ Waits(w, D)
  BY WinIs DEF Fed
<1>2. CASE w.phase < 2
  <2>1. Inserted(w, v, o, E, g, K) /\ Waits(v, E)
    <3>1. w.phase = 0 \/ w.phase = 1
      BY <1>1, <1>2
    <3>2. CASE w.phase = 0
      BY <1>1, <3>2, InsertFirst
    <3>3. CASE w.phase = 1
      BY <1>1, <3>3, InsertCollecting
    <3> QED BY <3>1, <3>2, <3>3
  <2> HIDE DEF v, o
  <2>2. o \in Seq(Packet) /\ v.phase \in 0..2
    BY <2>1, WinIs DEF Inserted
  <2>3. q \o o = o
    BY <1>2, <2>2, Assoc DEF Fed
  <2>4. v.phase < 2 => o = <<>>
    BY <2>1 DEF Inserted
  <2>5. ~(v.phase < 2) => Run(o, v.base, E, g, K)
    BY <1>2, <2>1, <2>2 DEF Inserted
  <2>6. Fed(o, v, E, g, K)
    BY <2>1, <2>4, <2>5 DEF Fed
  <2> QED BY <2>3, <2>6 DEF v, o
<1>3. CASE w.phase = 2
  <2>1. /\ Inserted(w, v, o, E, g, K) /\ v.phase = 2 /\ Waits(v, E)
        /\ Covers(o, w.base, v.base, E, g, K)
    BY <1>1, <1>3, InsertStarted
  <2> HIDE DEF v, o
  <2>2. o \in Seq(Packet) /\ v.base \in Int /\ w.base \in Int /\ w.base <= v.base
    BY <1>3, <2>1, WinIs DEF Inserted
  <2>3. Run(q, w.base, D, h, G)
    BY <1>3 DEF Fed
  <2>4. Run(q, w.base, E, g, K)
    BY <2>2, <2>3, ArrivesLater, RunLater
  <2>5. Run(q \o o, v.base, E, g, K)
    BY <2>1, <2>2, <2>4, RunConcat
  <2>6. Fed(q \o o, v, E, g, K)
    BY <2>1, <2>5 DEF Fed
  <2> QED BY <2>6 DEF v, o
<1> QED BY <1>1, <1>2, <1>3

LEMMA InsertTypes ==
  ASSUME NEW w \in Win, NEW s \in Packet, NEW h \in Int, NEW g \in Int, NEW G,
         g = IF s > h THEN s ELSE h, Shaped(w, h, G), Within(w, s)
  PROVE  /\ Insert(w, s).win \in Win /\ Insert(w, s).out \in Seq(Packet)
         /\ Shaped(Insert(w, s).win, g, G \cup {s}) /\ ToSet(Insert(w, s).out) \subseteq G \cup {s}
<1>1. Arrives(s, {}, h, G, {}, g, G \cup {s}) /\ {} \in SUBSET Packet
  BY DEF Arrives
<1>2. w.phase = 0 \/ w.phase = 1 \/ w.phase = 2
  BY WinIs
<1>3. Inserted(w, Insert(w, s).win, Insert(w, s).out, {}, g, G \cup {s})
  BY <1>1, <1>2, InsertFirst, InsertCollecting, InsertStarted
<1> QED BY <1>3 DEF Inserted

-----------------------------------------------------------------------------
(* The shared output                                                       *)

Shared == [batch : Seq(Packet), ctx : [Client -> Ctx], out : [Client -> Seq(Packet)],
           due : [Client -> SUBSET Packet]]

LEMMA SharedIs ==
  ASSUME NEW x \in Shared
  PROVE  /\ x.batch \in Seq(Packet) /\ x.ctx \in [Client -> Ctx]
         /\ x.out \in [Client -> Seq(Packet)] /\ x.due \in [Client -> SUBSET Packet]
         /\ \A c \in Client : /\ x.ctx[c] \in Ctx /\ x.ctx[c].win \in Win
                              /\ x.out[c] \in Seq(Packet) /\ x.due[c] \in SUBSET Packet
BY DEF Shared, Ctx

\* A step of the shared output from x to y changes nothing of the windows, and of
\* who does not share the batch nothing at all.
Keeps(x, y) ==
  /\ y \in Shared
  /\ \A c \in Client : /\ y.ctx[c].win = x.ctx[c].win /\ y.ctx[c].fec = x.ctx[c].fec
                       /\ Takes(c, y.ctx) => Takes(c, x.ctx)
  /\ \A c \in Client \ batched : /\ y.ctx[c] = x.ctx[c] /\ y.out[c] = x.out[c]
                                 /\ y.due[c] = x.due[c]

\* What each connection got is a run; who shares the batch has one with the batch
\* and the packets d that go there next.
Serves(x, d, w, h, G) ==
  /\ \A c \in Client : Kept(x.out[c], x.due[c], h, G)
  /\ \A c \in Client \cap batched :
       Takes(c, x.ctx) => Fed((x.out[c] \o x.batch) \o d, w, x.due[c], h, G)
  /\ ToSet(x.batch) \subseteq G /\ ToSet(d) \subseteq G

\* Fanout hands the packets on to everybody who shares the batch, and whose queue
\* has room for them.
Fanned(x, y, data) ==
  /\ Keeps(x, y) /\ y.batch = x.batch
  /\ \A c \in Client \cap batched :
       /\ Takes(c, y.ctx) => \/ y.out[c] = x.out[c] \o data /\ y.due[c] = x.due[c]
                             \/ y.out[c] = x.out[c] /\ y.due[c] = x.due[c] \ ToSet(data)
       /\ \/ y.out[c] = x.out[c] /\ y.due[c] \subseteq x.due[c]
          \/ Takes(c, x.ctx) /\ y.out[c] = x.out[c] \o data /\ y.due[c] = x.due[c]

LEMMA FanoutIs ==
  ASSUME NEW x \in Shared, NEW data \in Seq(Packet), NEW e
  PROVE  Fanned(x, Fanout(x, data, e), data)
<1> DEFINE lost == {c \in batched : Takes(c, x.ctx) /\ ~(Len(subs) = 1) /\ c \in e.bad}
           over == {c \in batched : Takes(c, x.ctx) /\ <<c, data[1]>> \in e.refuse} \ lost
           fed  == {c \in batched : Takes(c, x.ctx)} \ (lost \cup over)
           cx == [c \in Client |-> [x.ctx[c] EXCEPT !.failed = x.ctx[c].failed \/ c \in lost]]
           ot == [c \in Client |-> IF c \in fed THEN x.out[c] \o data ELSE x.out[c]]
           du == [c \in Client |-> IF c \in over THEN x.due[c] \ ToSet(data) ELSE x.due[c]]
           y == [batch |-> x.batch, ctx |-> cx, out |-> ot, due |-> du]
<1>1. Fanout(x, data, e) = y
  BY DEF Fanout
<1>2. /\ x.batch \in Seq(Packet)
      /\ \A c \in Client : x.out[c] \in Seq(Packet) /\ x.ctx[c] \in Ctx /\ x.due[c] \in SUBSET Packet
  BY SharedIs
<1>3. \A c : c \in lost => c \in batched /\ Takes(c, x.ctx)
  OBVIOUS
<1>4. /\ \A c : c \in fed <=> c \in batched /\ Takes(c, x.ctx) /\ c \notin lost /\ c \notin over
      /\ \A c : c \in over => c \in batched /\ Takes(c, x.ctx) /\ c \notin lost
  OBVIOUS
<1> HIDE DEF lost, fed, over
<1>5. ASSUME NEW c \in Client
      PROVE  /\ cx[c] \in Ctx /\ cx[c].win = x.ctx[c].win /\ cx[c].fec = x.ctx[c].fec
             /\ cx[c].closing = x.ctx[c].closing /\ cx[c].failed = (x.ctx[c].failed \/ c \in lost)
             /\ c \notin lost => cx[c] = x.ctx[c]
  <2>1. cx[c] = [x.ctx[c] EXCEPT !.failed = x.ctx[c].failed \/ c \in lost]
    OBVIOUS
  <2>2. x.ctx[c] \in Ctx /\ (x.ctx[c].failed \/ c \in lost) \in BOOLEAN
    BY <1>2
  <2> HIDE DEF cx
  <2> QED BY <2>1, <2>2 DEF Ctx
<1>6. cx \in [Client -> Ctx]
  BY <1>5
<1>7. ot \in [Client -> Seq(Packet)] /\ du \in [Client -> SUBSET Packet]
  BY <1>2
<1>8. \A c \in Client : /\ ot[c] = IF c \in fed THEN x.out[c] \o data ELSE x.out[c]
                        /\ du[c] = IF c \in over THEN x.due[c] \ ToSet(data) ELSE x.due[c]
  OBVIOUS
<1> HIDE DEF cx, ot, du
<1>9. y \in Shared
  BY <1>2, <1>6, <1>7 DEF Shared
<1>10. y.batch = x.batch /\ y.ctx = cx /\ y.out = ot /\ y.due = du
  OBVIOUS
<1> HIDE DEF y
<1>13. \A c \in Client : (Takes(c, cx) <=> Takes(c, x.ctx) /\ c \notin lost)
  BY <1>5 DEF Takes
<1>14. \A c \in Client \ batched : c \notin lost /\ c \notin fed /\ c \notin over
  BY <1>3, <1>4
<1>11. Keeps(x, y)
  BY <1>5, <1>8, <1>9, <1>10, <1>13, <1>14 DEF Keeps
<1>12. ASSUME NEW c \in Client \cap batched
       PROVE  /\ Takes(c, y.ctx) => \/ y.out[c] = x.out[c] \o data /\ y.due[c] = x.due[c]
                                    \/ y.out[c] = x.out[c] /\ y.due[c] = x.due[c] \ ToSet(data)
              /\ \/ y.out[c] = x.out[c] /\ y.due[c] \subseteq x.due[c]
                 \/ Takes(c, x.ctx) /\ y.out[c] = x.out[c] \o data /\ y.due[c] = x.due[c]
  BY <1>4, <1>8, <1>10, <1>13
<1>15. Fanned(x, y, data)
  BY <1>10, <1>11, <1>12 DEF Fanned
<1> QED BY <1>1, <1>15

LEMMA FanoutServes ==
  ASSUME NEW x \in Shared, x.batch = <<>>, NEW data \in Seq(Packet), NEW d \in Seq(Packet), NEW e,
         NEW w \in Win, NEW h \in Int, NEW G, ToSet(data) \subseteq G, ToSet(d) \subseteq G,
         \A c \in Client : /\ Kept(x.out[c], x.due[c], h, G)
                           /\ c \in batched /\ Takes(c, x.ctx)
                                => Fed(x.out[c] \o (data \o d), w, x.due[c], h, G)
  PROVE  LET y == Fanout(x, data, e)
         IN  Keeps(x, y) /\ y.batch = <<>> /\ Serves(y, d, w, h, G)
<1> DEFINE y == Fanout(x, data, e)
<1>1. Fanned(x, y, data)
  BY FanoutIs
<1> HIDE DEF y
<1>2. Keeps(x, y) /\ y.batch = <<>>
  BY <1>1 DEF Fanned
<1>3. y \in Shared
  BY <1>2 DEF Keeps
<1>4. \A c \in Client : x.out[c] \in Seq(Packet) /\ y.out[c] \in Seq(Packet)
  BY <1>3, SharedIs
<1>5. ASSUME NEW c \in Client \cap batched
      PROVE  /\ Kept(y.out[c], y.due[c], h, G)
             /\ Takes(c, y.ctx) => Fed((y.out[c] \o y.batch) \o d, w, y.due[c], h, G)
  <2> DEFINE a == x.out[c]
             f == a \o data
             q == a \o (data \o d)
  <2>1. a \in Seq(Packet) /\ f \in Seq(Packet) /\ q \in Seq(Packet) /\ f \o d = q
    <3>1. a \in Seq(Packet) /\ data \o d \in Seq(Packet) /\ f \in Seq(Packet)
      BY <1>4, Assoc
    <3> HIDE DEF a
    <3>2. q \in Seq(Packet) /\ f \o d = q
      BY <3>1, Assoc
    <3> QED BY <3>1, <3>2
  <2>2. y.out[c] \o y.batch = y.out[c]
    BY <1>2, <1>4, Assoc
  <2>3. /\ Kept(a, x.due[c], h, G)
        /\ Takes(c, x.ctx) => Fed(q, w, x.due[c], h, G)
    OBVIOUS
  <2>4. Takes(c, x.ctx) => Kept(f, x.due[c], h, G)
    BY <2>1, <2>3, FedKept
  <2>5. Takes(c, y.ctx) => Takes(c, x.ctx)
    BY <1>2 DEF Keeps
  <2>6. Takes(c, x.ctx) => Fed(a \o d, w, x.due[c] \ ToSet(data), h, G)
    <3>1. Thins(a \o d, x.due[c] \ ToSet(data), q, x.due[c], G)
      BY <2>1, ThinsDrop
    <3> HIDE DEF q, f
    <3> QED BY <2>1, <2>3, <3>1, FedThins
  <2>7. /\ Takes(c, y.ctx) => \/ y.out[c] = f /\ y.due[c] = x.due[c]
                              \/ y.out[c] = a /\ y.due[c] = x.due[c] \ ToSet(data)
        /\ \/ y.out[c] = a /\ y.due[c] \subseteq x.due[c]
           \/ Takes(c, x.ctx) /\ y.out[c] = f /\ y.due[c] = x.due[c]
    BY <1>1 DEF Fanned
  <2> HIDE DEF a, f, q
  <2>8. Kept(y.out[c], y.due[c], h, G)
    BY <2>1, <2>3, <2>4, <2>7, KeptLess
  <2>9. Takes(c, y.ctx) => Fed(y.out[c] \o d, w, y.due[c], h, G)
    BY <2>1, <2>3, <2>5, <2>6, <2>7
  <2> QED BY <2>2, <2>8, <2>9
<1>6. \A c \in Client \ batched : Kept(y.out[c], y.due[c], h, G)
  BY <1>2 DEF Keeps
<1>7. ToSet(y.batch) \subseteq G
  BY <1>2, NoneIs
<1>8. Serves(y, d, w, h, G)
  BY <1>5, <1>6, <1>7 DEF Serves
<1> QED BY <1>2, <1>8 DEF y

\* A flush hands on the batch and nothing else.
LEMMA FlushBatchServes ==
  ASSUME NEW x \in Shared, NEW d \in Seq(Packet), NEW e, NEW w \in Win, NEW h \in Int, NEW G,
         Serves(x, d, w, h, G)
  PROVE  LET y == FlushBatch(x, e)
         IN  Keeps(x, y) /\ y.batch = <<>> /\ Serves(y, d, w, h, G)
<1>1. CASE x.batch = <<>>
  BY <1>1 DEF FlushBatch, Keeps
<1>2. CASE x.batch # <<>>
  <2> DEFINE b == x.batch
             v == [x EXCEPT !.batch = <<>>]
             y == Fanout(v, b, e)
  <2>1. FlushBatch(x, e) = y
    BY <1>2 DEF FlushBatch
  <2>2. v \in Shared /\ v.batch = <<>> /\ v.ctx = x.ctx /\ v.out = x.out /\ v.due = x.due
    <3>1. <<>> \in Seq(Packet)
      OBVIOUS
    <3> QED BY <3>1 DEF Shared
  <2>3. b \in Seq(Packet) /\ \A c \in Client : x.out[c] \in Seq(Packet)
    BY SharedIs
  <2> HIDE DEF v
  <2>4. \A c \in Client : (x.out[c] \o b) \o d = x.out[c] \o (b \o d)
    <3> SUFFICES ASSUME NEW c \in Client PROVE (x.out[c] \o b) \o d = x.out[c] \o (b \o d)
      OBVIOUS
    <3> DEFINE a == x.out[c]
    <3>1. a \in Seq(Packet)
      BY <2>3
    <3> HIDE DEF a, b
    <3>2. (a \o b) \o d = a \o (b \o d)
      BY <2>3, <3>1, Assoc
    <3> QED BY <3>2 DEF a
  <2>5. \A c \in Client : /\ Kept(v.out[c], v.due[c], h, G)
                          /\ c \in batched /\ Takes(c, v.ctx)
                                => Fed(v.out[c] \o (b \o d), w, v.due[c], h, G)
    BY <2>2, <2>4 DEF Serves
  <2>6. Keeps(v, y) /\ y.batch = <<>> /\ Serves(y, d, w, h, G)
    <3>1. ToSet(b) \subseteq G /\ ToSet(d) \subseteq G
      BY DEF Serves
    <3> HIDE DEF b
    <3> QED BY <2>2, <2>3, <2>5, <3>1, FanoutServes
  <2> HIDE DEF y
  <2>7. Keeps(x, y)
    BY <2>2, <2>6 DEF Keeps
  <2> QED BY <2>1, <2>6, <2>7
<1> QED BY <1>1, <1>2

LEMMA KeepsBoth ==
  ASSUME NEW x, NEW y, NEW z, Keeps(x, y), Keeps(y, z)
  PROVE  Keeps(x, z)
BY DEF Keeps

\* The next packet of a delivery goes behind the batch.
LEMMA AppendPacketServes ==
  ASSUME NEW x \in Shared, Len(x.batch) < BatchCap, NEW s \in Packet, NEW d \in Seq(Packet),
         NEW e, NEW w \in Win, NEW h \in Int, NEW G, Serves(x, <<s>> \o d, w, h, G)
  PROVE  LET y == AppendPacket(x, s, e)
         IN  Keeps(x, y) /\ Len(y.batch) < BatchCap /\ Serves(y, d, w, h, G)
<1> DEFINE b == x.batch
           o == <<s>>
           y == [x EXCEPT !.batch = Append(b, s)]
<1>0. /\ o \in Seq(Packet) /\ b \in Seq(Packet) /\ \A c \in Client : x.out[c] \in Seq(Packet)
      /\ Len(b) \in Nat /\ BatchCap \in Nat \ {0} /\ Append(b, s) = b \o o
      /\ Append(b, s) \in Seq(Packet) /\ Len(Append(b, s)) = Len(b) + 1
  <2>1. b \in Seq(Packet) /\ \A c \in Client : x.out[c] \in Seq(Packet)
    BY SharedIs
  <2> HIDE DEF b
  <2>2. Len(b) \in Nat /\ BatchCap \in Nat \ {0}
    BY <2>1, Elements, SourceAssumption
  <2>3. Append(b, s) = b \o o /\ Append(b, s) \in Seq(Packet) /\ Len(Append(b, s)) = Len(b) + 1
    BY <2>1
  <2> QED BY <2>1, <2>2, <2>3
<1> HIDE DEF o
<1>1. \A p : p \in ToSet(o \o d) <=> p \in ToSet(o) \/ p \in ToSet(d)
  BY <1>0, ConcatSet
<1>2. /\ \A c \in Client : Kept(x.out[c], x.due[c], h, G)
      /\ \A c \in Client \cap batched :
           Takes(c, x.ctx) => Fed((x.out[c] \o b) \o (o \o d), w, x.due[c], h, G)
      /\ ToSet(b) \subseteq G /\ ToSet(o) \subseteq G /\ ToSet(d) \subseteq G
  BY <1>1 DEF Serves, o
<1>3. CASE batched = {}
  <2>1. AppendPacket(x, s, e) = x
    BY <1>3 DEF AppendPacket
  <2>2. Keeps(x, x) /\ Serves(x, d, w, h, G)
    BY <1>2, <1>3 DEF Keeps, Serves
  <2> QED BY <2>1, <2>2
<1>4. CASE batched # {} /\ b = <<>> /\ e.full
  <2> DEFINE z == Fanout(x, o, e)
  <2>1. AppendPacket(x, s, e) = z
    BY <1>4 DEF AppendPacket, o
  <2>2. \A c \in Client : (x.out[c] \o b) = x.out[c]
    BY <1>0, <1>4, Assoc
  <2>3. \A c \in Client : /\ Kept(x.out[c], x.due[c], h, G)
                          /\ c \in batched /\ Takes(c, x.ctx)
                                => Fed(x.out[c] \o (o \o d), w, x.due[c], h, G)
    BY <1>2, <2>2
  <2>4. Keeps(x, z) /\ z.batch = <<>> /\ Serves(z, d, w, h, G)
    BY <1>0, <1>2, <1>4, <2>3, FanoutServes
  <2> HIDE DEF z
  <2> QED BY <1>0, <2>1, <2>4, NoneIs
<1>5. y.batch = Append(b, s) /\ y.ctx = x.ctx /\ y.out = x.out /\ y.due = x.due /\ y \in Shared
  BY <1>0 DEF Shared
<1>6. Keeps(x, y)
  BY <1>5 DEF Keeps
<1> HIDE DEF y
<1>7. Serves(y, d, w, h, G)
  <2>1. ASSUME NEW c \in Client PROVE (y.out[c] \o y.batch) \o d = (x.out[c] \o b) \o (o \o d)
    <3> DEFINE a == x.out[c]
    <3>1. a \in Seq(Packet) /\ a \o b \in Seq(Packet) /\ b \o o \in Seq(Packet)
      BY <1>0, Assoc
    <3>2. y.out[c] \o y.batch = a \o (b \o o)
      BY <1>0, <1>5
    <3>0. a \in Seq(Packet) /\ b \in Seq(Packet) /\ o \in Seq(Packet)
      BY <1>0
    <3> HIDE DEF a, b
    <3>3. (a \o b) \o o = a \o (b \o o)
      BY <3>0, Assoc
    <3>4. ((a \o b) \o o) \o d = (a \o b) \o (o \o d)
      <4> DEFINE t == a \o b
      <4>1. t \in Seq(Packet) /\ o \in Seq(Packet)
        BY <3>0, <3>1
      <4> HIDE DEF t
      <4>2. (t \o o) \o d = t \o (o \o d)
        BY <4>1, Assoc
      <4> QED BY <4>2 DEF t
    <3> QED BY <3>2, <3>3, <3>4 DEF a, b
  <2>2. ToSet(y.batch) \subseteq G
    <3>1. \A p : p \in ToSet(b \o o) <=> p \in ToSet(b) \/ p \in ToSet(o)
      BY <1>0, ConcatSet
    <3> QED BY <1>0, <1>2, <1>5, <3>1
  <2> QED BY <1>2, <1>5, <2>1, <2>2 DEF Serves
<1>8. CASE batched # {} /\ ~(b = <<>> /\ e.full) /\ Len(y.batch) # BatchCap
  <2>1. AppendPacket(x, s, e) = y
    BY <1>8 DEF AppendPacket, y
  <2> QED BY <1>0, <1>5, <1>6, <1>7, <1>8, <2>1
<1>9. CASE batched # {} /\ ~(b = <<>> /\ e.full) /\ Len(y.batch) = BatchCap
  <2> DEFINE z == FlushBatch(y, e)
  <2>1. AppendPacket(x, s, e) = z
    BY <1>9 DEF AppendPacket, y
  <2>2. Keeps(y, z) /\ z.batch = <<>> /\ Serves(z, d, w, h, G)
    BY <1>5, <1>7, FlushBatchServes
  <2> HIDE DEF z
  <2>3. Keeps(x, z)
    BY <1>6, <2>2, KeepsBoth
  <2> QED BY <1>0, <2>1, <2>2, <2>3, NoneIs
<1> QED BY <1>3, <1>4, <1>8, <1>9

-----------------------------------------------------------------------------
(* The packets of a delivery                                               *)

Steps(f, m, x, data, e) ==
  f = [k \in 0..m |-> IF k = 0 THEN x ELSE AppendPacket(f[k-1], data[k], e)]

LEMMA StepsExist ==
  ASSUME NEW x, NEW data, NEW e, NEW n \in Nat
  PROVE  \E f : Steps(f, n, x, data, e)
<1> DEFINE Good == {m \in Nat : \E f : Steps(f, m, x, data, e)}
           Then(y, k) == AppendPacket(y, data[k], e)
<1>1. \A f, m : Steps(f, m, x, data, e)
                 <=> f = [k \in 0..m |-> IF k = 0 THEN x ELSE Then(f[k-1], k)]
  BY DEF Steps
<1> HIDE DEF Then
<1>2. 0 \in Good
  <2> DEFINE f == [k \in 0..0 |-> x]
  <2>1. f = [k \in 0..0 |-> IF k = 0 THEN x ELSE Then(f[k-1], k)]
    OBVIOUS
  <2> HIDE DEF f
  <2> QED BY <1>1, <2>1
<1>3. ASSUME NEW m \in Good PROVE m + 1 \in Good
  <2>1. PICK f : f = [k \in 0..m |-> IF k = 0 THEN x ELSE Then(f[k-1], k)]
    BY <1>1
  <2>2. m \in Nat
    OBVIOUS
  <2> DEFINE g == [k \in 0..m+1 |-> IF k = m + 1 THEN Then(f[m], m + 1) ELSE f[k]]
  <2>3. /\ \A k \in 0..m : g[k] = f[k]
        /\ g[m+1] = Then(f[m], m + 1)
    BY <2>2
  <2>4. \A k \in 0..m : f[k] = IF k = 0 THEN x ELSE Then(f[k-1], k)
    BY <2>1
  <2>5. ASSUME NEW k \in 0..m+1 PROVE g[k] = IF k = 0 THEN x ELSE Then(g[k-1], k)
    <3> HIDE DEF g
    <3>1. CASE k = m + 1
      <4>1. k - 1 = m /\ k # 0 /\ m \in 0..m
        BY <2>2, <3>1
      <4> QED BY <2>3, <3>1, <4>1
    <3>2. CASE k # m + 1 /\ k # 0
      <4>1. k \in 0..m /\ k - 1 \in 0..m
        BY <2>2, <3>2
      <4> QED BY <2>3, <2>4, <3>2, <4>1
    <3>3. CASE k = 0
      <4>1. k \in 0..m
        BY <2>2, <3>3
      <4> QED BY <2>3, <2>4, <3>3, <4>1
    <3> QED BY <3>1, <3>2, <3>3
  <2>6. g = [k \in 0..m+1 |-> g[k]]
    OBVIOUS
  <2> HIDE DEF g
  <2>7. g = [k \in 0..m+1 |-> IF k = 0 THEN x ELSE Then(g[k-1], k)]
    BY <2>5, <2>6
  <2>8. Steps(g, m + 1, x, data, e)
    BY <1>1, <2>7
  <2>9. m + 1 \in Nat
    BY <2>2
  <2> QED BY <2>8, <2>9
<1>4. Good \in SUBSET Nat
  OBVIOUS
<1>5. Good = Nat
  <2> HIDE DEF Good
  <2> QED BY <1>2, <1>3, <1>4, AllOfNat
<1> QED BY <1>5

\* What is left of a delivery after k packets.
LEMMA RestIs ==
  ASSUME NEW q \in Seq(Packet)
  PROVE  /\ SubSeq(q, 1, Len(q)) = q /\ SubSeq(q, Len(q) + 1, Len(q)) = <<>>
         /\ \A k \in 0..Len(q) : SubSeq(q, k + 1, Len(q)) \in Seq(Packet)
         /\ \A k \in 1..Len(q) : SubSeq(q, k, Len(q)) = <<q[k]>> \o SubSeq(q, k + 1, Len(q))
<1>1. Len(q) \in Nat /\ \A i \in 1..Len(q) : q[i] \in Packet
  BY Elements
<1>2. \A k \in 0..Len(q) : SubSeq(q, k + 1, Len(q)) \in Seq(Packet)
  BY <1>1
<1>3. SubSeq(q, 1, Len(q)) = q /\ SubSeq(q, Len(q) + 1, Len(q)) = <<>>
  BY <1>1
<1>4. ASSUME NEW k \in 1..Len(q)
      PROVE  SubSeq(q, k, Len(q)) = <<q[k]>> \o SubSeq(q, k + 1, Len(q))
  <2> DEFINE a == SubSeq(q, k, Len(q))
             r == SubSeq(q, k + 1, Len(q))
             b == <<q[k]>> \o r
             n == Len(q) - k + 1
  <2>1. n \in Nat /\ k \in Nat /\ k - 1 \in 0..Len(q) /\ (k - 1) + 1 = k /\ k \in 0..Len(q)
    BY <1>1
  <2>2. a \in Seq(Packet) /\ Len(a) = n /\ \A i \in 1..n : a[i] = q[k + i - 1]
    BY <1>1, <2>1
  <2>3. r \in Seq(Packet) /\ Len(r) = n - 1 /\ \A i \in 1..n-1 : r[i] = q[k + i]
    BY <1>1, <2>1
  <2> HIDE DEF r
  <2>4. b \in Seq(Packet) /\ Len(b) = n /\ b[1] = q[k] /\ \A i \in 2..n : b[i] = r[i-1]
    BY <1>1, <2>1, <2>3
  <2>5. \A i \in 1..n : a[i] = b[i]
    <3> SUFFICES ASSUME NEW i \in 1..n PROVE a[i] = b[i]
      OBVIOUS
    <3> HIDE DEF a, b, n
    <3>1. CASE i = 1
      <4>1. k + 1 - 1 = k /\ 1 \in 1..n
        BY <2>1, <3>1
      <4> QED BY <2>2, <2>4, <3>1, <4>1
    <3>2. CASE i # 1
      <4>1. i \in 2..n /\ i - 1 \in 1..n-1 /\ k + (i - 1) = k + i - 1
        BY <2>1, <3>2
      <4> QED BY <2>2, <2>3, <2>4, <4>1
    <3> QED BY <3>1, <3>2
  <2> HIDE DEF a, b, n
  <2>6. a = b
    BY <2>1, <2>2, <2>4, <2>5
  <2> QED BY <2>6 DEF a, b, r
<1> QED BY <1>2, <1>3, <1>4

\* A delivery goes behind the batch, packet by packet.
LEMMA AppendAllServes ==
  ASSUME NEW x \in Shared, Len(x.batch) < BatchCap, NEW data \in Seq(Packet), NEW e,
         NEW w \in Win, NEW h \in Int, NEW G, Serves(x, data, w, h, G)
  PROVE  LET y == AppendAll(x, data, e)
         IN  Keeps(x, y) /\ Len(y.batch) < BatchCap /\ Serves(y, <<>>, w, h, G)
<1> DEFINE f == CHOOSE f : Steps(f, Len(data), x, data, e)
           rest(k) == SubSeq(data, k + 1, Len(data))
           Fine(k) == /\ Keeps(x, f[k]) /\ Len(f[k].batch) < BatchCap
                      /\ Serves(f[k], rest(k), w, h, G)
<1>0. Len(data) \in Nat /\ \A k \in 1..Len(data) : data[k] \in Packet
  BY Elements
<1>1. AppendAll(x, data, e) = f[Len(data)]
  BY DEF AppendAll, Steps
<1>2. Steps(f, Len(data), x, data, e)
  BY <1>0, StepsExist
<1> HIDE DEF f
<1>3. f[0] = x /\ \A k \in 1..Len(data) : f[k] = AppendPacket(f[k-1], data[k], e)
  <2>1. f = [k \in 0..Len(data) |-> IF k = 0 THEN x ELSE AppendPacket(f[k-1], data[k], e)]
    BY <1>2 DEF Steps
  <2>2. 0 \in 0..Len(data) /\ \A k \in 1..Len(data) : k \in 0..Len(data) /\ k # 0
    BY <1>0
  <2> QED BY <2>1, <2>2
<1>4. /\ rest(0) = data /\ rest(Len(data)) = <<>>
      /\ \A k \in 0..Len(data) : rest(k) \in Seq(Packet)
      /\ \A k \in 1..Len(data) : rest(k-1) = <<data[k]>> \o rest(k)
  <2>1. 0 + 1 = 1 /\ \A k \in 1..Len(data) : (k - 1) + 1 = k
    BY <1>0
  <2>2. /\ SubSeq(data, 1, Len(data)) = data /\ SubSeq(data, Len(data) + 1, Len(data)) = <<>>
        /\ \A k \in 0..Len(data) : SubSeq(data, k + 1, Len(data)) \in Seq(Packet)
        /\ \A k \in 1..Len(data) :
             SubSeq(data, k, Len(data)) = <<data[k]>> \o SubSeq(data, k + 1, Len(data))
    BY RestIs
  <2> QED BY <2>1, <2>2
<1> HIDE DEF rest
<1>5. Fine(0)
  <2>1. Keeps(x, x)
    BY DEF Keeps
  <2> QED BY <1>3, <1>4, <2>1
<1>6. ASSUME NEW k \in 1..Len(data), Fine(k-1) PROVE Fine(k)
  <2> DEFINE y == f[k-1]
             z == f[k]
             s == data[k]
             d == rest(k)
  <2>1. z = AppendPacket(y, s, e) /\ s \in Packet
    BY <1>0, <1>3
  <2>2. d \in Seq(Packet) /\ rest(k-1) = <<s>> \o d
    BY <1>0, <1>4
  <2>3. Keeps(x, y) /\ Len(y.batch) < BatchCap /\ Serves(y, <<s>> \o d, w, h, G)
    BY <1>6, <2>2
  <2>4. y \in Shared
    BY <2>3 DEF Keeps
  <2> HIDE DEF y, z, s, d
  <2>5. Keeps(y, z) /\ Len(z.batch) < BatchCap /\ Serves(z, d, w, h, G)
    BY <2>1, <2>2, <2>3, <2>4, AppendPacketServes
  <2>6. Keeps(x, z)
    BY <2>3, <2>5, KeepsBoth
  <2> QED BY <2>5, <2>6 DEF z, d
<1> HIDE DEF Fine
<1> DEFINE Good == {k \in Nat : k <= Len(data) => Fine(k)}
<1>7. 0 \in Good
  BY <1>5
<1>8. ASSUME NEW k \in Good PROVE k + 1 \in Good
  <2>1. k \in Nat /\ (k <= Len(data) => Fine(k))
    OBVIOUS
  <2> SUFFICES ASSUME k + 1 <= Len(data) PROVE Fine(k + 1)
    BY <2>1
  <2>2. k <= Len(data) /\ k + 1 \in 1..Len(data) /\ (k + 1) - 1 = k
    BY <1>0, <2>1
  <2> QED BY <1>6, <2>1, <2>2
<1>9. Good \in SUBSET Nat
  OBVIOUS
<1>10. Good = Nat
  <2> HIDE DEF Good
  <2> QED BY <1>7, <1>8, <1>9, AllOfNat
<1>11. Fine(Len(data))
  BY <1>0, <1>10
<1> QED BY <1>1, <1>4, <1>11 DEF Fine

-----------------------------------------------------------------------------
(* The invariant, about a record of the shared output                      *)

\* What the connections got and have to get, of S subscribers, B sharing w.
RunsOf(x, S, B, w, h, G) ==
  /\ \A c \in Client : Kept(x.out[c], x.due[c], h, G)
  /\ \A c \in S : Takes(c, x.ctx) =>
       IF c \in B THEN Fed(x.out[c] \o x.batch, w, x.due[c], h, G)
                  ELSE Fed(x.out[c], x.ctx[c].win, x.due[c], h, G)

WindowsOf(x, S, w, h, G) ==
  /\ ToSet(x.batch) \subseteq G
  /\ Shaped(w, h, G) /\ \A c \in S : Shaped(x.ctx[c].win, h, G)

LEMMA HereIs ==
  ASSUME TypeOK
  PROVE  /\ Here \in Shared /\ Here.batch = batch /\ Here.ctx = ctx /\ Here.out = out
         /\ Here.due = due
         /\ Runs <=> RunsOf(Here, Subs, batched, win, head, got)
         /\ Windows <=> WindowsOf(Here, Subs, win, head, got)
         /\ win \in Win /\ head \in Int /\ \A c \in Client : due[c] \in SUBSET Packet
         /\ \A c \in Subs : c \in Client
         /\ \A c : c \in Subs <=> \E i \in 1..Len(subs) : subs[i] = c
         /\ subs = <<>> <=> Subs = {}
<1>1. Here.batch = batch /\ Here.ctx = ctx /\ Here.out = out /\ Here.due = due
  BY DEF Here
<1>2. Here \in Shared
  BY DEF Here, Shared, TypeOK
<1>3. /\ \A c : c \in Subs <=> \E i \in 1..Len(subs) : subs[i] = c
      /\ subs = <<>> <=> Len(subs) = 0
      /\ Subs \subseteq Client /\ Len(subs) \in Nat
  BY Elements DEF TypeOK, Subs
<1>4. subs = <<>> <=> Subs = {}
  <2>1. ASSUME Len(subs) # 0 PROVE 1 \in 1..Len(subs) /\ subs[1] \in Subs
    BY <1>3, <2>1
  <2> QED BY <1>3, <2>1
<1>5. win \in Win /\ head \in Int /\ \A c \in Client : due[c] \in SUBSET Packet
  BY DEF TypeOK
<1>6. (Runs <=> RunsOf(Here, Subs, batched, win, head, got))
      /\ (Windows <=> WindowsOf(Here, Subs, win, head, got))
  BY <1>1 DEF Runs, RunsOf, Windows, WindowsOf
<1> QED BY <1>1, <1>2, <1>3, <1>4, <1>5, <1>6

\* The same after a step that leaves the record z.
LEMMA BecomeIs ==
  ASSUME NEW z \in Shared, Become(z)
  PROVE  /\ Runs' <=> RunsOf(z, Subs', batched', win', head', got')
         /\ Windows' <=> WindowsOf(z, Subs', win', head', got')
         /\ batch' = z.batch /\ batch' \in Seq(Packet)
         /\ ctx' = z.ctx /\ ctx' \in [Client -> Ctx]
         /\ out' \in [Client -> Seq(Packet)] /\ due' \in [Client -> SUBSET Packet]
<1>1. batch' = z.batch /\ ctx' = z.ctx /\ out' = z.out /\ due' = z.due
  BY DEF Become
<1>2. (Runs' <=> RunsOf(z, Subs', batched', win', head', got'))
      /\ (Windows' <=> WindowsOf(z, Subs', win', head', got'))
  BY <1>1 DEF Runs, RunsOf, Windows, WindowsOf
<1> QED BY <1>1, <1>2 DEF Shared

LEMMA RunsServe ==
  ASSUME NEW x \in Shared, NEW S \in SUBSET Client, batched \subseteq S, NEW w, NEW h, NEW G,
         RunsOf(x, S, batched, w, h, G), ToSet(x.batch) \subseteq G
  PROVE  Serves(x, <<>>, w, h, G)
<1>1. \A c \in Client : (x.out[c] \o x.batch) \o <<>> = x.out[c] \o x.batch
  <2> SUFFICES ASSUME NEW c \in Client PROVE (x.out[c] \o x.batch) \o <<>> = x.out[c] \o x.batch
    OBVIOUS
  <2> DEFINE a == x.out[c]
             b == x.batch
  <2>1. a \in Seq(Packet) /\ b \in Seq(Packet)
    BY SharedIs
  <2> HIDE DEF a, b
  <2>2. a \o b \in Seq(Packet)
    BY <2>1, Assoc
  <2> DEFINE t == a \o b
  <2> HIDE DEF t
  <2>3. t \in Seq(Packet) => t \o <<>> = t
    BY Assoc
  <2> QED BY <2>2, <2>3 DEF a, b, t
<1>2. ToSet(<<>>) \subseteq G
  BY NoneIs
<1> QED BY <1>1, <1>2 DEF RunsOf, Serves

LEMMA ServesRuns ==
  ASSUME NEW x, NEW y \in Shared, Keeps(x, y), NEW S \in SUBSET Client, NEW w, NEW h, NEW G,
         Serves(y, <<>>, w, h, G),
         \A c \in S \ batched : Takes(c, x.ctx) => Fed(x.out[c], x.ctx[c].win, x.due[c], h, G)
  PROVE  RunsOf(y, S, batched, w, h, G)
<1>1. ASSUME NEW c \in S, Takes(c, y.ctx), c \in batched
      PROVE  Fed(y.out[c] \o y.batch, w, y.due[c], h, G)
  <2> DEFINE a == y.out[c]
             b == y.batch
  <2>1. a \in Seq(Packet) /\ b \in Seq(Packet)
    BY SharedIs
  <2> HIDE DEF a, b
  <2>2. a \o b \in Seq(Packet)
    BY <2>1, Assoc
  <2> DEFINE t == a \o b
  <2> HIDE DEF t
  <2>3. t \in Seq(Packet) => t \o <<>> = t
    BY Assoc
  <2>4. (a \o b) \o <<>> = a \o b
    BY <2>2, <2>3 DEF t
  <2>5. Fed((a \o b) \o <<>>, w, y.due[c], h, G)
    BY <1>1 DEF Serves, a, b
  <2> QED BY <2>4, <2>5 DEF a, b
<1>2. ASSUME NEW c \in S, Takes(c, y.ctx), c \notin batched
      PROVE  Fed(y.out[c], y.ctx[c].win, y.due[c], h, G)
  BY <1>2 DEF Keeps
<1> QED BY <1>1, <1>2 DEF RunsOf, Serves

LEMMA KeepsWindows ==
  ASSUME NEW x, NEW y, Keeps(x, y), NEW S \in SUBSET Client, NEW w, NEW h, NEW G,
         WindowsOf(x, S, w, h, G), ToSet(y.batch) \subseteq G
  PROVE  WindowsOf(y, S, w, h, G)
BY DEF Keeps, WindowsOf

\* A flush in which nothing else happens.
LEMMA FlushIsRun ==
  ASSUME NEW x \in Shared, NEW S \in SUBSET Client, batched \subseteq S, NEW w \in Win, NEW h \in Int,
         NEW G, NEW e, RunsOf(x, S, batched, w, h, G), WindowsOf(x, S, w, h, G)
  PROVE  LET y == FlushBatch(x, e)
         IN  /\ y \in Shared /\ Keeps(x, y) /\ y.batch = <<>>
             /\ RunsOf(y, S, batched, w, h, G) /\ WindowsOf(y, S, w, h, G)
<1> DEFINE y == FlushBatch(x, e)
<1>1. Serves(x, <<>>, w, h, G) /\ <<>> \in Seq(Packet)
  BY RunsServe, NoneIs DEF WindowsOf
<1>2. Keeps(x, y) /\ y.batch = <<>> /\ Serves(y, <<>>, w, h, G)
  BY <1>1, FlushBatchServes
<1> HIDE DEF y
<1>3. y \in Shared
  BY <1>2 DEF Keeps
<1>4. \A c \in S \ batched : Takes(c, x.ctx) => Fed(x.out[c], x.ctx[c].win, x.due[c], h, G)
  BY DEF RunsOf
<1>5. RunsOf(y, S, batched, w, h, G)
  BY <1>2, <1>3, <1>4, ServesRuns
<1>6. WindowsOf(y, S, w, h, G)
  BY <1>2, KeepsWindows DEF Serves
<1> QED BY <1>2, <1>3, <1>5, <1>6 DEF y

-----------------------------------------------------------------------------
(* The steps                                                               *)

LEMMA InitInv == Init => Inv
<1> SUFFICES ASSUME Init PROVE Inv
  OBVIOUS
<1>0. <<>> \in Seq(Client) /\ <<>> \in Seq(Packet) /\ Len(<<>>) = 0 /\ Len(<<>>) < BatchCap
      /\ {} \in SUBSET Packet /\ 0 \in 0..LastPacket /\ 0 \in 0..2
  BY SourceAssumption
<1>1. Fresh \in Win /\ NoCtx \in Ctx
  <2>1. Fresh \in Win
    BY <1>0 DEF Fresh, Win
  <2> QED BY <2>1 DEF NoCtx, Ctx
<1>2. Subs = {} /\ ToSet(batch) = {}
  BY NoneIs DEF Subs, Init
<1>3. TypeOK
  BY <1>0, <1>1 DEF Init, TypeOK
<1>4. OwnerSubscribes /\ Subscriptions
  BY <1>0, <1>2 DEF Init, OwnerSubscribes, Subscriptions
<1>5. Windows
  BY <1>2 DEF Init, Windows, Shaped, Fresh
<1>6. Runs
  BY <1>2 DEF Init, Runs, Kept
<1> QED BY <1>3, <1>4, <1>5, <1>6 DEF Inv

\* A flush in which nobody joins or leaves.
LEMMA TickStep == \A e : Inv /\ Tick(e) => Inv'
<1> SUFFICES ASSUME NEW e, Inv, Tick(e) PROVE Inv'
  OBVIOUS
<1> DEFINE z == FlushBatch(Here, e)
<1>1. TypeOK /\ OwnerSubscribes /\ Subscriptions /\ Windows /\ Runs
  BY DEF Inv
<1>2. Become(z) /\ UNCHANGED <<subs, batched, shared, failed, win, owner, got, head>>
  BY DEF Tick
<1>3. batched \subseteq Subs /\ Subs \in SUBSET Client
  BY <1>1, HereIs DEF Subscriptions
<1>4. /\ z \in Shared /\ Keeps(Here, z) /\ z.batch = <<>>
      /\ RunsOf(z, Subs, batched, win, head, got) /\ WindowsOf(z, Subs, win, head, got)
  BY <1>1, <1>3, HereIs, FlushIsRun
<1> HIDE DEF z
<1>5. Subs' = Subs
  BY <1>2 DEF Subs
<1>6. Runs' /\ Windows'
  BY <1>2, <1>4, <1>5, BecomeIs
<1>7. TypeOK'
  <2>1. Len(<<>>) < BatchCap
    BY SourceAssumption
  <2> QED BY <1>1, <1>2, <1>4, <2>1, BecomeIs DEF TypeOK
<1>8. \A c \in Client : ctx'[c].fec = ctx[c].fec
  BY <1>1, <1>2, <1>4, BecomeIs, HereIs DEF Keeps
<1>9. OwnerSubscribes' /\ Subscriptions'
  BY <1>1, <1>2, <1>3, <1>5, <1>8 DEF OwnerSubscribes, Subscriptions
<1> QED BY <1>6, <1>7, <1>9 DEF Inv

\* Steps that change nothing about the packets and only take a connection out.
LEMMA OutsideStep ==
  ASSUME Inv, UNCHANGED <<subs, batched, shared, win, batch, owner, out, due, got, head>>,
         failed' \in BOOLEAN, ctx' \in [Client -> Ctx],
         \A c \in Client : /\ ctx'[c].win = ctx[c].win /\ ctx'[c].fec = ctx[c].fec
                           /\ Takes(c, ctx') => Takes(c, ctx)
  PROVE  Inv'
<1>1. TypeOK /\ OwnerSubscribes /\ Subscriptions /\ Windows /\ Runs
  BY DEF Inv
<1>2. Subs' = Subs /\ \A c \in Subs : c \in Client
  BY <1>1, HereIs DEF Subs
<1>3. TypeOK' /\ OwnerSubscribes'
  BY <1>1, <1>2 DEF TypeOK, OwnerSubscribes
<1>4. Subscriptions'
  BY <1>1, <1>2 DEF Subscriptions
<1>5. Windows'
  BY <1>1, <1>2 DEF Windows
<1>6. Runs'
  BY <1>1, <1>2 DEF Runs
<1> QED BY <1>3, <1>4, <1>5, <1>6 DEF Inv

LEMMA SourceFailsStep == Inv /\ SourceFails => Inv'
<1> SUFFICES ASSUME Inv, SourceFails PROVE Inv'
  OBVIOUS
<1>1. ctx' = ctx /\ ctx \in [Client -> Ctx] /\ failed' \in BOOLEAN
  BY DEF SourceFails, Inv, TypeOK
<1> QED BY <1>1, OutsideStep DEF SourceFails

LEMMA SpecialEndsStep == \A c \in Client : Inv /\ SpecialEnds(c) => Inv'
<1> SUFFICES ASSUME NEW c \in Client, Inv, SpecialEnds(c) PROVE Inv'
  OBVIOUS
<1>1. /\ ctx \in [Client -> Ctx] /\ ctx' = [ctx EXCEPT ![c] = [ctx[c] EXCEPT !.special = FALSE]]
      /\ UNCHANGED <<source, out, due, got, head>> /\ failed \in BOOLEAN
  BY DEF SpecialEnds, Inv, TypeOK
<1> DEFINE x == [ctx[c] EXCEPT !.special = FALSE]
<1>2. ctx[c] \in Ctx
  BY <1>1
<1>3. /\ x \in Ctx /\ x.win = ctx[c].win /\ x.failed = ctx[c].failed /\ x.closing = ctx[c].closing
      /\ x.fec = ctx[c].fec
  BY <1>2 DEF Ctx
<1> HIDE DEF x
<1>4. /\ ctx' \in [Client -> Ctx]
      /\ \A d \in Client : /\ ctx'[d].win = ctx[d].win /\ ctx'[d].fec = ctx[d].fec
                           /\ Takes(d, ctx') => Takes(d, ctx)
  BY <1>1, <1>3 DEF Takes, x
<1> QED BY <1>1, <1>4, OutsideStep DEF source

LEMMA ClosesStep == \A c \in Client : Inv /\ Closes(c) => Inv'
<1> SUFFICES ASSUME NEW c \in Client, Inv, Closes(c) PROVE Inv'
  OBVIOUS
<1>1. /\ ctx \in [Client -> Ctx] /\ ctx' = [ctx EXCEPT ![c] = [ctx[c] EXCEPT !.closing = TRUE]]
      /\ UNCHANGED <<source, out, due, got, head>> /\ failed \in BOOLEAN
  BY DEF Closes, Inv, TypeOK
<1> DEFINE x == [ctx[c] EXCEPT !.closing = TRUE]
<1>2. ctx[c] \in Ctx
  BY <1>1
<1>3. x \in Ctx /\ x.win = ctx[c].win /\ x.closing = TRUE /\ x.fec = ctx[c].fec
  BY <1>2 DEF Ctx
<1> HIDE DEF x
<1>4. /\ ctx' \in [Client -> Ctx]
      /\ \A d \in Client : /\ ctx'[d].win = ctx[d].win /\ ctx'[d].fec = ctx[d].fec
                           /\ Takes(d, ctx') => Takes(d, ctx)
  BY <1>1, <1>3 DEF Takes, x
<1> QED BY <1>1, <1>4, OutsideStep DEF source

LEMMA FreshIs ==
  /\ Fresh \in Win /\ \A h, G : Shaped(Fresh, h, G)
  /\ NoCtx \in Ctx /\ NoCtx.win = Fresh
<1>1. {} \in SUBSET Packet /\ 0 \in 0..2
  OBVIOUS
<1>2. Fresh \in Win
  BY <1>1 DEF Fresh, Win
<1>3. NoCtx \in Ctx /\ NoCtx.win = Fresh
  BY <1>2 DEF NoCtx, Ctx
<1>4. \A h, G : Shaped(Fresh, h, G)
  BY DEF Shaped, Fresh
<1> QED BY <1>2, <1>3, <1>4

\* What a connection comes with: nothing waits in its window, and when FEC is at
\* work in it it has a window of its own.
LEMMA NewcomerIs ==
  ASSUME NEW n \in Newcomers, head \in Int
  PROVE  n \in Ctx /\ (\A h, G : Shaped(n.win, h, G)) /\ (n.special \/ ~n.fec)
<1> DEFINE special == [NoCtx EXCEPT !.special = TRUE]
           Used == [phase : {2}, base : {head + 1 - k : k \in Behind}, held : {{}}]
<1>1. NoCtx \in Ctx /\ NoCtx.win = Fresh /\ ~NoCtx.fec
  BY FreshIs DEF NoCtx
<1>2. special \in Ctx /\ special.win = Fresh /\ special.special /\ ~special.fec
  BY <1>1 DEF Ctx
<1> HIDE DEF special
<1>3. CASE n = NoCtx
  BY <1>1, <1>3, FreshIs
<1>4. CASE n = special
  BY <1>2, <1>4, FreshIs
<1>5. CASE n = [special EXCEPT !.fec = TRUE]
  <2>1. n \in Ctx /\ n.win = Fresh /\ n.special
    BY <1>2, <1>5 DEF Ctx
  <2> QED BY <2>1, FreshIs
<1>6. CASE \E w \in Used : n = [special EXCEPT !.win = w]
  <2>1. PICK w \in Used : n = [special EXCEPT !.win = w]
    BY <1>6
  <2>2. w.phase = 2 /\ w.held = {} /\ w \in Win
    <3>1. \A k \in Behind : head + 1 - k \in Int
      BY SourceAssumption
    <3>2. 2 \in 0..2 /\ {} \in SUBSET Packet
      OBVIOUS
    <3> QED BY <3>1, <3>2 DEF Win
  <2> HIDE DEF Used
  <2>3. n \in Ctx /\ n.win = w /\ n.special
    BY <1>2, <2>1, <2>2 DEF Ctx
  <2>4. \A h, G : Shaped(w, h, G)
    BY <2>2 DEF Shaped
  <2> QED BY <2>3, <2>4
<1>7. n \in {NoCtx, special, [special EXCEPT !.fec = TRUE]} \cup {[special EXCEPT !.win = w] : w \in Used}
  BY DEF Newcomers, special
<1> QED BY <1>3, <1>4, <1>5, <1>6, <1>7

\* The subscribers without the one that leaves.
LEMMA WithoutIs ==
  ASSUME Inv, NEW c \in Subs
  PROVE  /\ Without(c) \in Seq(Client) /\ ToSet(Without(c)) = Subs \ {c}
         /\ \A i, j \in 1..Len(Without(c)) : i # j => Without(c)[i] # Without(c)[j]
         /\ Without(c) # <<>> => Head(Without(c)) \in ToSet(Without(c))
         /\ Without(c) = <<>> <=> Subs \ {c} = {}
<1>1. subs \in Seq(Client) /\ Len(subs) \in Nat
      /\ \A i, j \in 1..Len(subs) : i # j => subs[i] # subs[j]
  BY DEF Inv, TypeOK, Subscriptions
<1>0. \A d : d \in Subs <=> \E i \in 1..Len(subs) : subs[i] = d
  BY HereIs DEF Inv
<1> DEFINE k == CHOOSE k \in 1..Len(subs) : subs[k] = c
           q == RemoveAt(subs, k)
<1>2. k \in 1..Len(subs) /\ subs[k] = c
  <2>1. \E i \in 1..Len(subs) : subs[i] = c
    BY <1>0
  <2> QED BY <2>1
<1>3. Without(c) = q
  BY DEF Without
<1> HIDE DEF k
<1>4. /\ q \in Seq(Client) /\ Len(q) = Len(subs) - 1
      /\ \A i \in 1..Len(subs)-1 : q[i] = IF i < k THEN subs[i] ELSE subs[i+1]
  BY <1>1, <1>2, RemoveAtIs
<1> HIDE DEF q
<1>5. \A i, j \in 1..Len(q) : i # j => q[i] # q[j]
  BY <1>1, <1>2, <1>4
<1>6. ASSUME NEW d PROVE d \in ToSet(q) <=> d \in Subs \ {c}
  <2>1. d \in ToSet(q) <=> \E i \in 1..Len(q) : q[i] = d
    BY <1>4, Elements
  <2>2. ASSUME NEW i \in 1..Len(q), q[i] = d PROVE d \in Subs \ {c}
    <3>1. CASE i < k
      <4>1. i \in 1..Len(subs) /\ i # k /\ subs[i] = d
        BY <1>1, <1>2, <1>4, <2>2, <3>1
      <4> QED BY <1>0, <1>1, <1>2, <4>1
    <3>2. CASE ~(i < k)
      <4>1. i + 1 \in 1..Len(subs) /\ i + 1 # k /\ subs[i+1] = d
        BY <1>1, <1>2, <1>4, <2>2, <3>2
      <4> QED BY <1>0, <1>1, <1>2, <4>1
    <3> QED BY <3>1, <3>2
  <2>3. ASSUME d \in Subs \ {c} PROVE \E i \in 1..Len(q) : q[i] = d
    <3>1. PICK i \in 1..Len(subs) : subs[i] = d
      BY <1>0, <2>3
    <3>2. i # k
      BY <1>2, <2>3, <3>1
    <3>3. CASE i < k
      <4>1. i \in 1..Len(q) /\ q[i] = d
        BY <1>1, <1>2, <1>4, <3>1, <3>3
      <4> QED BY <4>1
    <3>4. CASE i > k
      <4>1. i - 1 \in 1..Len(q) /\ ~(i - 1 < k) /\ (i - 1) + 1 = i
        BY <1>1, <1>2, <1>4, <3>4
      <4>2. q[i-1] = d
        BY <1>4, <3>1, <4>1
      <4> QED BY <4>1, <4>2
    <3> QED BY <1>2, <3>1, <3>2, <3>3, <3>4
  <2> QED BY <2>1, <2>2, <2>3
<1>7. ToSet(q) = Subs \ {c}
  BY <1>6
<1>8. (q = <<>> <=> Len(q) = 0) /\ Len(q) \in Nat /\ (q # <<>> => Head(q) = q[1])
  BY <1>1, <1>4
<1>9. \A d : d \in ToSet(q) <=> \E i \in 1..Len(q) : q[i] = d
  BY <1>4, Elements
<1>10. Len(q) # 0 => 1 \in 1..Len(q)
  BY <1>8
<1>11. q # <<>> => Head(q) \in ToSet(q)
  BY <1>8, <1>9, <1>10
<1>12. q = <<>> => ToSet(q) = {}
  BY <1>8, <1>9
<1> QED BY <1>3, <1>4, <1>5, <1>7, <1>11, <1>12

LEMMA LeaveStep == \A c \in Client : Inv /\ Leave(c) => Inv'
<1> SUFFICES ASSUME NEW c \in Client, Inv, Leave(c) PROVE Inv'
  OBVIOUS
<1>1. TypeOK /\ OwnerSubscribes /\ Subscriptions /\ Windows /\ Runs
  BY DEF Inv
<1>2. /\ c \in Subs /\ subs' = Without(c) /\ batched' = batched \ {c}
      /\ ctx' = [ctx EXCEPT ![c] = NoCtx] /\ out' = [out EXCEPT ![c] = <<>>]
      /\ due' = [due EXCEPT ![c] = {}] /\ UNCHANGED <<shared, got, head>>
  BY DEF Leave
<1>3. IF subs' = <<>>
      THEN owner' = NoClient /\ failed' = FALSE /\ batch' = <<>> /\ win' = Fresh
      ELSE owner' = Head(subs') /\ UNCHANGED <<failed, batch, win>>
  BY DEF Leave
<1>4. /\ subs' \in Seq(Client) /\ Subs' = Subs \ {c}
      /\ \A i, j \in 1..Len(subs') : i # j => subs'[i] # subs'[j]
      /\ subs' # <<>> => Head(subs') \in Subs'
      /\ subs' = <<>> <=> Subs' = {}
  BY <1>2, WithoutIs DEF Subs
<1>5. /\ \A d \in Subs : d \in Client
      /\ ctx' \in [Client -> Ctx] /\ out' \in [Client -> Seq(Packet)]
      /\ due' \in [Client -> SUBSET Packet] /\ out'[c] = <<>>
      /\ \A d \in Client : d # c => ctx'[d] = ctx[d] /\ out'[d] = out[d] /\ due'[d] = due[d]
  BY <1>1, <1>2, HereIs, FreshIs, NoneIs DEF TypeOK
<1>6. TypeOK'
  <2>1. <<>> \in Seq(Packet) /\ Len(<<>>) < BatchCap
    BY SourceAssumption
  <2> QED BY <1>1, <1>2, <1>3, <1>4, <1>5, <2>1, FreshIs DEF TypeOK
<1>7. OwnerSubscribes'
  BY <1>3, <1>4 DEF OwnerSubscribes
<1>8. Subscriptions'
  <2>1. \A d \in batched' : d \in Client /\ d # c /\ ctx'[d] = ctx[d] /\ d \in batched
    BY <1>1, <1>2, <1>5 DEF Subscriptions
  <2> QED BY <1>1, <1>2, <1>4, <2>1 DEF Subscriptions
<1>9. Windows'
  <2>1. Shaped(win', head', got') /\ \A d \in Subs' : Shaped(ctx'[d].win, head', got')
    BY <1>1, <1>2, <1>3, <1>4, <1>5, FreshIs DEF Windows
  <2>2. ToSet(batch') \subseteq got'
    BY <1>1, <1>2, <1>3, NoneIs DEF Windows
  <2> QED BY <2>1, <2>2 DEF Windows
<1>10. Runs'
  <2>1. \A d \in Client : Kept(out'[d], due'[d], head', got')
    <3>1. Kept(out'[c], due'[c], head', got')
      BY <1>5 DEF Kept
    <3> QED BY <1>1, <1>2, <1>5, <3>1 DEF Runs
  <2>2. ASSUME NEW d \in Subs', Takes(d, ctx')
        PROVE  IF d \in batched' THEN Fed(out'[d] \o batch', win', due'[d], head', got')
                                 ELSE Fed(out'[d], ctx'[d].win, due'[d], head', got')
    <3>1. d \in Subs /\ d # c /\ ctx'[d] = ctx[d] /\ batch' = batch /\ win' = win
          /\ out'[d] = out[d] /\ due'[d] = due[d]
      BY <1>3, <1>4, <1>5
    <3>2. Takes(d, ctx) /\ (d \in batched' <=> d \in batched)
      BY <1>2, <2>2, <3>1 DEF Takes
    <3> QED BY <1>1, <1>2, <3>1, <3>2 DEF Runs
  <2> QED BY <2>1, <2>2 DEF Runs
<1> QED BY <1>6, <1>7, <1>8, <1>9, <1>10 DEF Inv

LEMMA JoinStep == \A c \in Client, n \in Newcomers : \A e : Inv /\ Join(c, n, e) => Inv'
<1> SUFFICES ASSUME NEW c \in Client, NEW n \in Newcomers, NEW e, Inv, Join(c, n, e) PROVE Inv'
  OBVIOUS
<1> DEFINE y == FlushBatch(Here, e)
           D == IF c \in batched' THEN win'.held ELSE {}
           z == [y EXCEPT !.ctx[c] = n, !.out[c] = <<>>, !.due[c] = D]
<1>1. TypeOK /\ OwnerSubscribes /\ Subscriptions /\ Windows /\ Runs
  BY DEF Inv
<1>2. /\ c \notin Subs /\ subs' = <<c>> \o subs /\ owner' = c
      /\ shared' = (subs = <<>> \/ shared)
      /\ win' = IF subs = <<>> THEN Fresh ELSE win
      /\ batched' = IF shared' /\ ~n.special THEN batched \cup {c} ELSE batched
      /\ UNCHANGED <<failed, got, head>>
  BY DEF Join
<1>3. Become(z)
  BY DEF Join
<1>4. batched \subseteq Subs /\ Subs \in SUBSET Client /\ head \in Int
  BY <1>1, HereIs DEF Subscriptions
<1>5. /\ y \in Shared /\ Keeps(Here, y) /\ y.batch = <<>>
      /\ RunsOf(y, Subs, batched, win, head, got) /\ WindowsOf(y, Subs, win, head, got)
  BY <1>1, <1>4, HereIs, FlushIsRun
<1>6. n \in Ctx /\ (\A h, G : Shaped(n.win, h, G)) /\ (n.special \/ ~n.fec)
  BY <1>4, NewcomerIs
<1>7. win' \in Win /\ Shaped(win', head, got) /\ win'.held \in SUBSET Packet
  <2>1. win \in Win /\ Shaped(win, head, got)
    BY <1>1, HereIs DEF Windows
  <2>2. win' \in Win /\ Shaped(win', head, got)
    BY <1>2, <2>1, FreshIs
  <2> QED BY <2>2, WinIs
<1>8. D \in SUBSET Packet /\ D \subseteq win'.held /\ <<>> \in Seq(Packet)
  BY <1>7, NoneIs
<1> HIDE DEF y, D
<1>9. /\ z \in Shared /\ z.batch = <<>> /\ z.ctx = [y.ctx EXCEPT ![c] = n]
      /\ z.out = [y.out EXCEPT ![c] = <<>>] /\ z.due = [y.due EXCEPT ![c] = D]
  <2>1. /\ [y.ctx EXCEPT ![c] = n] \in [Client -> Ctx]
        /\ [y.out EXCEPT ![c] = <<>>] \in [Client -> Seq(Packet)]
        /\ [y.due EXCEPT ![c] = D] \in [Client -> SUBSET Packet]
    BY <1>5, <1>6, <1>8, SharedIs
  <2> QED BY <1>5, <2>1 DEF Shared
<1> HIDE DEF z
<1>10. y.ctx \in [Client -> Ctx] /\ y.out \in [Client -> Seq(Packet)] /\ y.due \in [Client -> SUBSET Packet]
  BY <1>5, SharedIs
<1>11. /\ z.ctx[c] = n /\ z.out[c] = <<>> /\ z.due[c] = D
       /\ \A d \in Client : d # c => z.ctx[d] = y.ctx[d] /\ z.out[d] = y.out[d] /\ z.due[d] = y.due[d]
  BY <1>9, <1>10
<1>12. /\ subs' \in Seq(Client) /\ Len(subs') = Len(subs) + 1 /\ Len(subs) \in Nat
       /\ subs'[1] = c /\ \A i \in 2..Len(subs') : subs'[i] = subs[i-1] /\ i - 1 \in 1..Len(subs)
  BY <1>1, <1>2 DEF TypeOK
<1>13. \A d \in Subs : d \in Client /\ d # c
  BY <1>1, <1>2, HereIs
<1>14. \A i \in 1..Len(subs) : subs[i] \in Subs
  BY <1>1, HereIs
<1>15. Subs' = Subs \cup {c}
  <2>1. \A d : d \in Subs' <=> \E i \in 1..Len(subs') : subs'[i] = d
    BY <1>12, Elements DEF Subs
  <2>2. \A d : d \in Subs <=> \E i \in 1..Len(subs) : subs[i] = d
    BY <1>1, HereIs
  <2>3. ASSUME NEW d \in Subs' PROVE d \in Subs \cup {c}
    <3>1. PICK i \in 1..Len(subs') : subs'[i] = d
      BY <2>1
    <3>2. i = 1 \/ i \in 2..Len(subs')
      BY <1>12
    <3> QED BY <1>12, <1>14, <3>1, <3>2
  <2>4. ASSUME NEW d \in Subs \cup {c} PROVE \E i \in 1..Len(subs') : subs'[i] = d
    <3>1. CASE d = c
      <4>1. 1 \in 1..Len(subs')
        BY <1>12
      <4> QED BY <1>12, <3>1, <4>1
    <3>2. CASE d \in Subs
      <4>1. PICK i \in 1..Len(subs) : subs[i] = d
        BY <2>2, <3>2
      <4>2. i + 1 \in 2..Len(subs') /\ i + 1 \in 1..Len(subs') /\ (i + 1) - 1 = i
        BY <1>12
      <4>3. subs'[i+1] = d
        BY <1>12, <4>1, <4>2
      <4> QED BY <4>2, <4>3
    <3> QED BY <3>1, <3>2
  <2> QED BY <2>1, <2>3, <2>4
<1>16. ctx' = z.ctx /\ batch' = <<>>
  BY <1>3, <1>9, BecomeIs
<1>17. Subscriptions'
  <2>1. ASSUME NEW i \in 1..Len(subs'), NEW j \in 1..Len(subs'), i # j PROVE subs'[i] # subs'[j]
    <3>1. (i = 1 \/ i \in 2..Len(subs')) /\ (j = 1 \/ j \in 2..Len(subs'))
      BY <1>12
    <3>2. CASE i = 1
      BY <1>2, <1>12, <1>14, <2>1, <3>1, <3>2
    <3>3. CASE j = 1
      BY <1>2, <1>12, <1>14, <2>1, <3>1, <3>3
    <3>4. CASE i \in 2..Len(subs') /\ j \in 2..Len(subs')
      <4>1. i - 1 # j - 1
        BY <1>12, <2>1
      <4> QED BY <1>1, <1>12, <3>4, <4>1 DEF Subscriptions
    <3> QED BY <3>1, <3>2, <3>3, <3>4
  <2>2. batched' \subseteq Subs'
    BY <1>1, <1>2, <1>15 DEF Subscriptions
  <2>3. ~shared' => batched' = {}
    BY <1>1, <1>2 DEF Subscriptions
  <2>4. ASSUME NEW d \in batched' PROVE ~ctx'[d].fec
    <3>1. CASE d = c
      <4>1. ~n.special
        BY <1>2, <1>4, <2>4, <3>1
      <4> QED BY <1>6, <1>11, <1>16, <3>1, <4>1
    <3>2. CASE d # c
      <4>1. d \in batched /\ d \in Client
        BY <1>2, <1>4, <2>4, <3>2
      <4>2. y.ctx[d].fec = ctx[d].fec
        BY <1>1, <1>5, <4>1, HereIs DEF Keeps
      <4> QED BY <1>1, <1>11, <1>16, <3>2, <4>1, <4>2 DEF Subscriptions
    <3> QED BY <3>1, <3>2
  <2> QED BY <2>1, <2>2, <2>3, <2>4 DEF Subscriptions
<1>18. TypeOK'
  <2>1. batched' \subseteq Client /\ shared' \in BOOLEAN /\ Len(<<>>) < BatchCap
    BY <1>1, <1>2, SourceAssumption DEF TypeOK
  <2> QED BY <1>1, <1>2, <1>3, <1>9, <1>12, <1>7, <1>16, <2>1, BecomeIs DEF TypeOK
<1>19. OwnerSubscribes'
  <2>1. subs' # <<>>
    BY <1>12
  <2> QED BY <1>2, <1>15, <2>1 DEF OwnerSubscribes
<1>20. Windows'
  <2>1. ToSet(z.batch) \subseteq got
    BY <1>9, NoneIs
  <2>2. \A d \in Subs' : Shaped(z.ctx[d].win, head, got)
    BY <1>5, <1>6, <1>11, <1>13, <1>15 DEF WindowsOf
  <2>3. WindowsOf(z, Subs', win', head', got')
    BY <1>2, <1>7, <2>1, <2>2 DEF WindowsOf
  <2> QED BY <1>3, <1>9, <2>3, BecomeIs
<1>21. Runs'
  <2>1. \A d \in Client : Kept(z.out[d], z.due[d], head, got)
    <3>1. Kept(z.out[c], z.due[c], head, got)
      BY <1>11 DEF Kept
    <3> QED BY <1>5, <1>11, <3>1 DEF RunsOf
  <2>2. \A p \in D : p \in win'.held
    BY <1>8
  <2>3. c \notin batched' => D = {}
    BY DEF D
  <2>4. ASSUME NEW d \in Subs', Takes(d, z.ctx)
        PROVE  IF d \in batched' THEN Fed(z.out[d] \o z.batch, win', z.due[d], head, got)
                                 ELSE Fed(z.out[d], z.ctx[d].win, z.due[d], head, got)
    <3>1. CASE d = c
      <4>1. z.out[d] \o z.batch = <<>> /\ z.out[d] = <<>> /\ z.due[d] = D
        BY <1>9, <1>11, <3>1
      <4>2. Fed(<<>>, win', D, head, got)
        BY <2>2 DEF Fed, Waits, Run
      <4>3. c \notin batched' => Fed(<<>>, z.ctx[c].win, D, head, got)
        BY <2>3 DEF Fed, Waits, Run
      <4> QED BY <3>1, <4>1, <4>2, <4>3
    <3>2. CASE d # c
      <4>1. d \in Subs /\ d \in Client /\ (d \in batched' <=> d \in batched)
        BY <1>2, <1>13, <1>15, <3>2
      <4>2. subs # <<>>
        BY <1>1, <4>1, HereIs
      <4>3. win' = win /\ z.ctx[d] = y.ctx[d] /\ z.out[d] = y.out[d] /\ z.due[d] = y.due[d]
            /\ z.batch = y.batch
        BY <1>2, <1>5, <1>9, <1>11, <3>2, <4>1, <4>2
      <4>4. Takes(d, y.ctx)
        BY <2>4, <4>3 DEF Takes
      <4> QED BY <1>5, <4>1, <4>3, <4>4 DEF RunsOf
    <3> QED BY <3>1, <3>2
  <2>5. RunsOf(z, Subs', batched', win', head', got')
    BY <1>2, <2>1, <2>4 DEF RunsOf
  <2> QED BY <1>3, <1>9, <2>5, BecomeIs
<1> QED BY <1>17, <1>18, <1>19, <1>20, <1>21 DEF Inv

\* Who shared the window goes on with a copy of it.
LEMMA CopyIs ==
  ASSUME NEW x \in Shared, NEW e, win \in Win
  PROVE  LET z == Copy(x, e)
         IN  /\ z \in Shared /\ z.batch = x.batch /\ z.out = x.out /\ z.due = x.due
             /\ \A c \in Client : /\ z.ctx[c].win = IF c \in batched THEN win ELSE x.ctx[c].win
                                  /\ Takes(c, z.ctx) => Takes(c, x.ctx)
<1> DEFINE z == Copy(x, e)
           m(c) == [x.ctx[c] EXCEPT !.win = win, !.failed = x.ctx[c].failed \/ c \in e.bad]
           cx == [c \in Client |-> IF c \in batched THEN m(c) ELSE x.ctx[c]]
<1>1. z = [x EXCEPT !.ctx = cx]
  BY DEF Copy
<1>2. ASSUME NEW c \in Client
      PROVE  /\ m(c) \in Ctx /\ m(c).win = win /\ m(c).closing = x.ctx[c].closing
             /\ x.ctx[c].failed => m(c).failed /\ x.ctx[c] \in Ctx
             /\ m(c).fec = x.ctx[c].fec
  <2>1. x.ctx[c] \in Ctx
    BY DEF Shared
  <2> DEFINE f == x.ctx[c].failed \/ c \in e.bad
             v == [x.ctx[c] EXCEPT !.win = win, !.failed = f]
  <2>2. f \in BOOLEAN /\ (x.ctx[c].failed => f)
    BY <2>1 DEF Ctx
  <2>3. m(c) = v
    OBVIOUS
  <2> HIDE DEF f, m
  <2>4. v \in Ctx
    BY <2>1, <2>2 DEF Ctx
  <2>5. v.win = win /\ v.closing = x.ctx[c].closing /\ v.fec = x.ctx[c].fec
    BY <2>1, <2>2 DEF Ctx
  <2>6. v.failed = f
    BY <2>1, <2>2 DEF Ctx
  <2> HIDE DEF v
  <2> QED BY <2>1, <2>2, <2>3, <2>4, <2>5, <2>6
<1> HIDE DEF m, z
<1>3. \A c \in Client : x.ctx[c] \in Ctx
  BY DEF Shared
<1>4. cx \in [Client -> Ctx] /\ \A c \in Client : cx[c] = IF c \in batched THEN m(c) ELSE x.ctx[c]
  BY <1>2, <1>3
<1> HIDE DEF cx
<1>5. z \in Shared /\ z.batch = x.batch /\ z.out = x.out /\ z.ctx = cx /\ z.due = x.due
  BY <1>1, <1>4 DEF Shared
<1>6. \A c \in Client : /\ cx[c].win = IF c \in batched THEN win ELSE x.ctx[c].win
                        /\ Takes(c, cx) => Takes(c, x.ctx)
  BY <1>2, <1>4 DEF Takes
<1> QED BY <1>5, <1>6 DEF z

\* FEC set to work in some windows takes their connections out.
FecSet(y, F) == [y EXCEPT !.ctx = [c \in Client |-> [y.ctx[c] EXCEPT !.fec = @ \/ c \in F]]]

LEMMA FecSetIs ==
  ASSUME NEW y \in Shared, NEW F
  PROVE  LET z == FecSet(y, F)
         IN  /\ z \in Shared /\ z.batch = y.batch /\ z.out = y.out /\ z.due = y.due
             /\ \A c \in Client : z.ctx[c].win = y.ctx[c].win /\ (Takes(c, z.ctx) => Takes(c, y.ctx))
<1> DEFINE m(c) == [y.ctx[c] EXCEPT !.fec = y.ctx[c].fec \/ c \in F]
           cx == [c \in Client |-> m(c)]
           z == FecSet(y, F)
<1>1. ASSUME NEW c \in Client
      PROVE  /\ m(c) \in Ctx /\ m(c).win = y.ctx[c].win /\ m(c).closing = y.ctx[c].closing
             /\ m(c).failed = y.ctx[c].failed /\ (y.ctx[c].fec => m(c).fec)
  <2>1. y.ctx[c] \in Ctx
    BY SharedIs
  <2> DEFINE f == y.ctx[c].fec \/ c \in F
  <2>2. f \in BOOLEAN /\ (y.ctx[c].fec => f)
    BY <2>1 DEF Ctx
  <2>3. m(c) = [y.ctx[c] EXCEPT !.fec = f]
    OBVIOUS
  <2> HIDE DEF f, m
  <2> QED BY <2>1, <2>2, <2>3 DEF Ctx
<1>2. z = [y EXCEPT !.ctx = cx]
  BY DEF FecSet
<1> HIDE DEF m, z
<1>3. cx \in [Client -> Ctx] /\ \A c \in Client : cx[c] = m(c)
  BY <1>1
<1> HIDE DEF cx
<1>4. z \in Shared /\ z.batch = y.batch /\ z.out = y.out /\ z.due = y.due /\ z.ctx = cx
  BY <1>2, <1>3 DEF Shared
<1>5. \A c \in Client : cx[c].win = y.ctx[c].win /\ (Takes(c, cx) => Takes(c, y.ctx))
  BY <1>1, <1>3 DEF Takes
<1>6. \A c \in Client : z.ctx[c].win = y.ctx[c].win /\ (Takes(c, z.ctx) => Takes(c, y.ctx))
  BY <1>4, <1>5
<1> QED BY <1>4, <1>6 DEF z

LEMMA ReceiveFecStep == \A e, F : Inv /\ ReceiveFec(e, F) => Inv'
<1> SUFFICES ASSUME NEW e, NEW F, Inv, ReceiveFec(e, F) PROVE Inv'
  OBVIOUS
<1> DEFINE x == FlushBatch(Here, e)
           y == IF shared THEN Copy(x, e) ELSE Here
           z == FecSet(y, F)
<1>1. TypeOK /\ OwnerSubscribes /\ Subscriptions /\ Windows /\ Runs
  BY DEF Inv
<1>2. /\ Become(z) /\ shared' = FALSE /\ batched' = {} /\ win' = Fresh
      /\ UNCHANGED <<subs, failed, owner, got, head>>
  BY DEF ReceiveFec, FecSet
<1>3. batched \subseteq Subs /\ Subs \in SUBSET Client /\ win \in Win /\ head \in Int
  BY <1>1, HereIs DEF Subscriptions
<1>4. /\ x \in Shared /\ x.batch = <<>>
      /\ RunsOf(x, Subs, batched, win, head, got) /\ WindowsOf(x, Subs, win, head, got)
  BY <1>1, <1>3, HereIs, FlushIsRun
<1> HIDE DEF x
<1>5. y \in Shared /\ RunsOf(y, Subs, {}, Fresh, head, got) /\ WindowsOf(y, Subs, Fresh, head, got)
      /\ Len(y.batch) < BatchCap
  <2>1. CASE shared
    <3> DEFINE v == Copy(x, e)
    <3>1. /\ v \in Shared /\ v.batch = <<>> /\ v.out = x.out /\ v.due = x.due
          /\ \A c \in Client : /\ v.ctx[c].win = IF c \in batched THEN win ELSE x.ctx[c].win
                               /\ Takes(c, v.ctx) => Takes(c, x.ctx)
      BY <1>3, <1>4, CopyIs
    <3> HIDE DEF v
    <3>2. \A c \in Client : x.out[c] \o x.batch = x.out[c]
      <4>1. \A c \in Client : x.out[c] \in Seq(Packet)
        BY <1>4, SharedIs
      <4> QED BY <1>4, <4>1, Assoc
    <3>3. \A c \in Client : Kept(v.out[c], v.due[c], head, got)
      BY <1>4, <3>1 DEF RunsOf
    <3>4. ASSUME NEW c \in Subs, Takes(c, v.ctx) PROVE Fed(v.out[c], v.ctx[c].win, v.due[c], head, got)
      <4>1. Takes(c, x.ctx) /\ c \in Client
        BY <1>3, <3>1, <3>4
      <4>2. CASE c \in batched
        <5>1. Fed(x.out[c] \o x.batch, win, x.due[c], head, got)
          BY <1>4, <4>1, <4>2 DEF RunsOf
        <5> QED BY <3>1, <3>2, <4>1, <4>2, <5>1
      <4>3. CASE c \notin batched
        BY <1>4, <3>1, <4>1, <4>3 DEF RunsOf
      <4> QED BY <4>2, <4>3
    <3>5. RunsOf(v, Subs, {}, Fresh, head, got)
      BY <3>3, <3>4 DEF RunsOf
    <3>6. WindowsOf(v, Subs, Fresh, head, got)
      <4>1. ToSet(v.batch) \subseteq got
        BY <3>1, NoneIs
      <4> QED BY <1>3, <1>4, <3>1, <4>1, FreshIs DEF WindowsOf
    <3>7. Len(v.batch) < BatchCap
      BY <3>1, NoneIs, SourceAssumption
    <3> QED BY <2>1, <3>1, <3>5, <3>6, <3>7 DEF v
  <2>2. CASE ~shared
    <3>1. batched = {}
      BY <1>1, <2>2 DEF Subscriptions
    <3>2. y = Here
      BY <2>2
    <3>3. RunsOf(Here, Subs, {}, win, head, got) /\ WindowsOf(Here, Subs, win, head, got)
      BY <1>1, <3>1, HereIs
    <3>4. RunsOf(Here, Subs, {}, Fresh, head, got)
      BY <3>3 DEF RunsOf
    <3>5. WindowsOf(Here, Subs, Fresh, head, got)
      BY <3>3, FreshIs DEF WindowsOf
    <3>6. Here \in Shared /\ Len(Here.batch) < BatchCap
      BY <1>1, HereIs DEF TypeOK
    <3> HIDE DEF y
    <3> QED BY <3>2, <3>4, <3>5, <3>6
  <2> QED BY <2>1, <2>2
<1> HIDE DEF y
<1>6. /\ z \in Shared /\ z.batch = y.batch /\ z.out = y.out /\ z.due = y.due
      /\ \A c \in Client : z.ctx[c].win = y.ctx[c].win /\ (Takes(c, z.ctx) => Takes(c, y.ctx))
  BY <1>5, FecSetIs
<1> HIDE DEF z
<1>7. Subs' = Subs
  BY <1>2 DEF Subs
<1>8. RunsOf(z, Subs, {}, Fresh, head, got)
  BY <1>3, <1>5, <1>6 DEF RunsOf
<1>9. WindowsOf(z, Subs, Fresh, head, got)
  BY <1>3, <1>5, <1>6 DEF WindowsOf
<1>10. Runs' /\ Windows'
  BY <1>2, <1>6, <1>7, <1>8, <1>9, BecomeIs
<1>11. TypeOK'
  BY <1>1, <1>2, <1>5, <1>6, BecomeIs, FreshIs DEF TypeOK
<1>12. OwnerSubscribes' /\ Subscriptions'
  BY <1>1, <1>2, <1>7 DEF OwnerSubscribes, Subscriptions
<1> QED BY <1>10, <1>11, <1>12 DEF Inv

\* The packet is due to who is handed packets, when it is new and not so far behind.
LEMMA ArrivalIs ==
  ASSUME TypeOK, NEW s \in Packet, NEW e, NEW h \in Int, h = IF s > head THEN s ELSE head
  PROVE  LET a == Arrival(s, h, e)
         IN  /\ a \in Shared /\ a.batch = batch /\ a.ctx = ctx /\ a.out = out
             /\ \A c \in Client :
                  /\ Arrives(s, due[c], head, got, a.due[c], h, got \cup {s})
                  /\ c \notin Subs \/ ~Takes(c, ctx) \/ Denied(c, e) => a.due[c] = due[c]
<1> DEFINE a == Arrival(s, h, e)
           du == [c \in Client |-> due[c] \cup
                    {p \in {s} : /\ c \in Subs /\ Takes(c, ctx) /\ ~Denied(c, e)
                                /\ s \notin got /\ s > h - Window}]
<1>1. a = [Here EXCEPT !.due = du]
  BY DEF Arrival
<1>2. /\ Here \in Shared /\ Here.batch = batch /\ Here.ctx = ctx /\ Here.out = out
      /\ \A c \in Client : due[c] \in SUBSET Packet
  BY HereIs
<1>3. \A c \in Client : /\ du[c] \in SUBSET Packet /\ due[c] \subseteq du[c] /\ du[c] \subseteq due[c] \cup {s}
                        /\ \A p \in du[c] \ due[c] : p > h - Window /\ p \notin got
                        /\ c \notin Subs \/ ~Takes(c, ctx) \/ Denied(c, e) => du[c] = due[c]
  BY <1>2
<1>4. du \in [Client -> SUBSET Packet]
  BY <1>3
<1> HIDE DEF a, du
<1>5. a \in Shared /\ a.batch = batch /\ a.ctx = ctx /\ a.out = out /\ a.due = du
  BY <1>1, <1>2, <1>4 DEF Shared
<1>6. \A c \in Client : Arrives(s, due[c], head, got, du[c], h, got \cup {s})
  BY <1>3 DEF Arrives
<1> QED BY <1>3, <1>5, <1>6 DEF a

\* What a connection has after a packet went through a window of its own, which
\* delivered o, of which its queue took those at I and refused N.
Handed(x, y, c, v, o, I, N) ==
  /\ y.ctx[c].win = v /\ y.out[c] = x.out[c] \o Picked(o, I) /\ y.due[c] = x.due[c] \ N
  /\ I \subseteq 1..Len(o) /\ \A i \in 1..Len(o) : i \in I \/ o[i] \in N

\* A packet through the windows of the connections that have one of their own.
LEMMA PrivateIs ==
  ASSUME NEW x \in Shared, x.ctx = ctx, NEW s \in Packet, NEW e,
         \A c \in Client : Feeds(c, e) => /\ Insert(ctx[c].win, s).win \in Win
                                          /\ Insert(ctx[c].win, s).out \in Seq(Packet)
  PROVE  LET y == Private(x, s, e)
         IN  /\ y \in Shared /\ y.batch = x.batch
             /\ \A c \in Client :
                  /\ Takes(c, y.ctx) <=> Takes(c, ctx)
                  /\ y.ctx[c].fec = ctx[c].fec
                  /\ Feeds(c, e) => \E I, N : Handed(x, y, c, Insert(ctx[c].win, s).win,
                                                     Insert(ctx[c].win, s).out, I, N)
                  /\ ~Feeds(c, e) => /\ y.ctx[c] = ctx[c] /\ y.out[c] = x.out[c]
                                     /\ y.due[c] = x.due[c]
<1> DEFINE y == Private(x, s, e)
           fed == {c \in Subs \ batched : Takes(c, x.ctx) /\ ~Denied(c, e)}
           done == [c \in fed |-> Insert(x.ctx[c].win, s)]
           over == [c \in fed |-> {i \in 1..Len(done[c].out) : <<c, done[c].out[i]>> \in e.refuse}]
           room == [c \in fed |-> Picked(done[c].out, (1..Len(done[c].out)) \ over[c])]
           cx == [c \in Client |-> IF c \in fed THEN [x.ctx[c] EXCEPT !.win = done[c].win] ELSE x.ctx[c]]
           ot == [c \in Client |-> IF c \in fed THEN x.out[c] \o room[c] ELSE x.out[c]]
           du == [c \in Client |-> IF c \in fed THEN x.due[c] \ {done[c].out[i] : i \in over[c]}
                                                ELSE x.due[c]]
<1>1. y = [batch |-> x.batch, ctx |-> cx, out |-> ot, due |-> du]
  BY DEF Private
<1>2. \A c : c \in fed <=> Feeds(c, e)
  BY DEF Feeds
<1>3. /\ x.batch \in Seq(Packet)
      /\ \A c \in Client : ctx[c] \in Ctx /\ x.out[c] \in Seq(Packet) /\ x.due[c] \in SUBSET Packet
  BY SharedIs
<1> HIDE DEF fed
<1>4. \A c \in fed : done[c] = Insert(ctx[c].win, s)
  OBVIOUS
<1> HIDE DEF done
<1>5. \A c \in fed : /\ over[c] \subseteq 1..Len(done[c].out)
                     /\ room[c] = Picked(done[c].out, (1..Len(done[c].out)) \ over[c])
  OBVIOUS
<1> HIDE DEF over, room
<1>6. \A c \in Client : /\ cx[c] = IF c \in fed THEN [ctx[c] EXCEPT !.win = done[c].win] ELSE ctx[c]
                        /\ ot[c] = IF c \in fed THEN x.out[c] \o room[c] ELSE x.out[c]
                        /\ du[c] = IF c \in fed THEN x.due[c] \ {done[c].out[i] : i \in over[c]}
                                                ELSE x.due[c]
  OBVIOUS
<1>7. /\ cx = [c \in Client |-> cx[c]] /\ ot = [c \in Client |-> ot[c]]
      /\ du = [c \in Client |-> du[c]]
  OBVIOUS
<1> HIDE DEF cx, ot, du, y
<1>8. ASSUME NEW c \in Client, c \in fed
      PROVE  /\ cx[c] \in Ctx /\ cx[c].win = done[c].win /\ cx[c].fec = ctx[c].fec
             /\ cx[c].failed = ctx[c].failed /\ cx[c].closing = ctx[c].closing
             /\ ot[c] \in Seq(Packet) /\ du[c] \in SUBSET Packet
  <2> DEFINE w == done[c].win
             o == done[c].out
             I == (1..Len(o)) \ over[c]
  <2>1. w \in Win /\ o \in Seq(Packet)
    BY <1>2, <1>4, <1>8
  <2>2. cx[c] = [ctx[c] EXCEPT !.win = w] /\ ctx[c] \in Ctx
    BY <1>3, <1>6, <1>8
  <2>3. x.out[c] \in Seq(Packet) /\ ot[c] = x.out[c] \o Picked(o, I)
    BY <1>3, <1>5, <1>6, <1>8
  <2>4. du[c] \in SUBSET Packet
    BY <1>3, <1>6, <1>8
  <2>5. Picked(o, I) \in Seq(Packet)
    <3> HIDE DEF o
    <3>1. I \in SUBSET (1..Len(o))
      OBVIOUS
    <3> HIDE DEF I
    <3> QED BY <2>1, <3>1, PickedIs
  <2> HIDE DEF w, o, I
  <2>6. ot[c] \in Seq(Packet)
    BY <2>3, <2>5, Assoc
  <2>7. /\ cx[c] \in Ctx /\ cx[c].win = w /\ cx[c].fec = ctx[c].fec
        /\ cx[c].failed = ctx[c].failed /\ cx[c].closing = ctx[c].closing
    BY <2>1, <2>2 DEF Ctx
  <2> QED BY <2>4, <2>6, <2>7 DEF w
<1>9. ASSUME NEW c \in Client
      PROVE  cx[c] \in Ctx /\ ot[c] \in Seq(Packet) /\ du[c] \in SUBSET Packet
  BY <1>3, <1>6, <1>8
<1>10. /\ cx \in [Client -> Ctx] /\ ot \in [Client -> Seq(Packet)]
       /\ du \in [Client -> SUBSET Packet]
  BY <1>7, <1>9
<1>11. y \in Shared /\ y.batch = x.batch /\ y.ctx = cx /\ y.out = ot /\ y.due = du
  BY <1>1, <1>3, <1>10 DEF Shared
<1>12. \A c \in Client : (Takes(c, cx) <=> Takes(c, ctx)) /\ cx[c].fec = ctx[c].fec
  BY <1>6, <1>8 DEF Takes
<1>13. ASSUME NEW c \in Client, Feeds(c, e)
       PROVE  \E I, N : Handed(x, y, c, Insert(ctx[c].win, s).win, Insert(ctx[c].win, s).out, I, N)
  <2> DEFINE o == done[c].out
             I == (1..Len(o)) \ over[c]
             N == {o[i] : i \in over[c]}
  <2>1. c \in fed /\ done[c] = Insert(ctx[c].win, s)
    BY <1>2, <1>4, <1>13
  <2>2. ot[c] = x.out[c] \o Picked(o, I) /\ du[c] = x.due[c] \ N /\ cx[c].win = done[c].win
    BY <1>5, <1>6, <1>8, <2>1
  <2>3. I \subseteq 1..Len(o) /\ \A i \in 1..Len(o) : i \in I \/ o[i] \in N
    OBVIOUS
  <2> HIDE DEF I, N
  <2>4. Handed(x, y, c, done[c].win, o, I, N)
    BY <1>11, <2>2, <2>3 DEF Handed
  <2> HIDE DEF o
  <2>5. \E J, M : Handed(x, y, c, done[c].win, o, J, M)
    BY <2>4
  <2> QED BY <2>1, <2>5 DEF o
<1>14. \A c \in Client : ~Feeds(c, e) => /\ y.ctx[c] = ctx[c] /\ y.out[c] = x.out[c]
                                         /\ y.due[c] = x.due[c]
  BY <1>2, <1>6, <1>11
<1> QED BY <1>11, <1>12, <1>13, <1>14 DEF y

\* After the private windows: everybody who does not share the batch is served.
LEMMA PrivateRuns ==
  ASSUME TypeOK, Subscriptions, Windows, Runs, NEW s \in Packet, NEW e,
         NEW h \in Int, h = IF s > head THEN s ELSE head,
         \A c \in Subs : Feeds(c, e) => Within(ctx[c].win, s)
  PROVE  LET a == Arrival(s, h, e)
             x == Private(a, s, e)
             K == got \cup {s}
         IN  /\ x \in Shared /\ x.batch = batch
             /\ \A c \in Client : /\ Takes(c, x.ctx) <=> Takes(c, ctx)
                                  /\ x.ctx[c].fec = ctx[c].fec
                                  /\ Kept(x.out[c], x.due[c], h, K)
                                  /\ c \in batched => x.out[c] = out[c] /\ x.due[c] = a.due[c]
             /\ \A c \in Subs \ batched :
                  Takes(c, x.ctx) => Fed(x.out[c], x.ctx[c].win, x.due[c], h, K)
             /\ \A c \in Subs : Shaped(x.ctx[c].win, h, K)
<1> DEFINE a == Arrival(s, h, e)
           x == Private(a, s, e)
           K == got \cup {s}
<1>1. /\ head \in Int /\ head <= h /\ got \subseteq K
      /\ \A c \in Client : /\ due[c] \in SUBSET Packet /\ ctx[c].win \in Win
                           /\ out[c] \in Seq(Packet)
      /\ \A c \in Subs : c \in Client /\ Shaped(ctx[c].win, head, got)
  <2>1. head \in Int /\ s \in Int /\ \A c \in Client : due[c] \in SUBSET Packet
    BY HereIs DEF Packet
  <2>2. \A c \in Client : ctx[c].win \in Win /\ out[c] \in Seq(Packet)
    BY DEF TypeOK, Ctx
  <2> QED BY <2>1, <2>2, HereIs DEF Windows
<1>2. /\ a \in Shared /\ a.batch = batch /\ a.ctx = ctx /\ a.out = out
      /\ \A c \in Client :
           /\ Arrives(s, due[c], head, got, a.due[c], h, K)
           /\ c \notin Subs \/ ~Takes(c, ctx) \/ Denied(c, e) => a.due[c] = due[c]
  BY ArrivalIs
<1>3. \A c \in Client : a.due[c] \in SUBSET Packet
  BY <1>2, SharedIs
<1> HIDE DEF a
<1>4. ASSUME NEW c \in Client, Feeds(c, e)
      PROVE  /\ c \in Subs /\ c \notin batched /\ Takes(c, ctx) /\ Within(ctx[c].win, s)
             /\ Insert(ctx[c].win, s).win \in Win /\ Insert(ctx[c].win, s).out \in Seq(Packet)
             /\ Shaped(Insert(ctx[c].win, s).win, h, K) /\ ToSet(Insert(ctx[c].win, s).out) \subseteq K
  <2>1. c \in Subs /\ c \notin batched /\ Takes(c, ctx) /\ Within(ctx[c].win, s)
    BY <1>4 DEF Feeds
  <2> QED BY <1>1, <2>1, InsertTypes
<1>5. /\ x \in Shared /\ x.batch = batch
      /\ \A c \in Client :
           /\ Takes(c, x.ctx) <=> Takes(c, ctx)
           /\ x.ctx[c].fec = ctx[c].fec
           /\ Feeds(c, e) => \E I, N : Handed(a, x, c, Insert(ctx[c].win, s).win,
                                              Insert(ctx[c].win, s).out, I, N)
           /\ ~Feeds(c, e) => x.ctx[c] = ctx[c] /\ x.out[c] = a.out[c] /\ x.due[c] = a.due[c]
  BY <1>2, <1>4, PrivateIs
<1> HIDE DEF x, K
<1>6. ASSUME NEW c \in Client, Feeds(c, e)
      PROVE  Fed(x.out[c], x.ctx[c].win, x.due[c], h, K) /\ Shaped(x.ctx[c].win, h, K)
             /\ Kept(x.out[c], x.due[c], h, K)
  <2> DEFINE w == ctx[c].win
             v == Insert(w, s).win
             o == Insert(w, s).out
             b == out[c]
  <2>1. c \in Subs /\ c \notin batched /\ Takes(c, ctx) /\ Within(w, s)
        /\ v \in Win /\ o \in Seq(Packet) /\ Shaped(v, h, K) /\ ToSet(o) \subseteq K
    BY <1>4, <1>6
  <2>2. Fed(b, w, due[c], head, got)
    BY <2>1 DEF Runs
  <2>3. w \in Win /\ Shaped(w, head, got) /\ b \in Seq(Packet)
    BY <1>1, <2>1
  <2>4. Fed(b \o o, v, a.due[c], h, K)
    <3> HIDE DEF b, w
    <3> QED BY <1>1, <1>2, <1>3, <2>1, <2>2, <2>3, InsertFed
  <2>5. \E I, N : Handed(a, x, c, v, o, I, N)
    BY <1>5, <1>6
  <2> HIDE DEF v, o
  <2>6. PICK I, N : Handed(a, x, c, v, o, I, N)
    BY <2>5
  <2>7. /\ x.ctx[c].win = v /\ x.out[c] = b \o Picked(o, I) /\ x.due[c] = a.due[c] \ N
        /\ I \in SUBSET (1..Len(o)) /\ \A i \in 1..Len(o) : i \in I \/ o[i] \in N
    BY <1>2, <2>6 DEF Handed
  <2> HIDE DEF b, w
  <2>8. Thins(b \o Picked(o, I), a.due[c] \ N, b \o o, a.due[c], K)
    BY <2>1, <2>3, <2>7, ThinsPicked
  <2>9. b \o o \in Seq(Packet)
    BY <2>1, <2>3, Assoc
  <2> DEFINE q == b \o o
             t == x.out[c]
  <2>10. Thins(t, x.due[c], q, a.due[c], K) /\ Fed(q, v, a.due[c], h, K) /\ q \in Seq(Packet)
    BY <2>4, <2>7, <2>8, <2>9
  <2>11. t \in Seq(Packet)
    BY <1>5, SharedIs
  <2> HIDE DEF q, t
  <2>12. Fed(t, v, x.due[c], h, K)
    BY <2>1, <2>10, FedThins
  <2>13. Kept(t, x.due[c], h, K)
    <3>1. t \o <<>> = t /\ <<>> \in Seq(Packet)
      BY <2>11, Assoc
    <3> QED BY <2>1, <2>11, <2>12, <3>1, FedKept
  <2> QED BY <2>1, <2>7, <2>12, <2>13 DEF t
<1>7. ASSUME NEW c \in Client PROVE Kept(out[c], a.due[c], h, K)
  <2>1. Later(due[c], head, got, a.due[c], h, K)
    BY <1>1, <1>2, ArrivesLater
  <2>2. Kept(out[c], due[c], head, got)
    BY DEF Runs
  <2> QED BY <1>1, <1>3, <2>1, <2>2, KeptLater
<1>8. ASSUME NEW c \in Client PROVE Kept(x.out[c], x.due[c], h, K)
  <2>1. CASE Feeds(c, e)
    BY <1>6, <2>1
  <2>2. CASE ~Feeds(c, e)
    BY <1>2, <1>5, <1>7, <2>2
  <2> QED BY <2>1, <2>2
<1>9. ASSUME NEW c \in Subs \ batched, Takes(c, x.ctx)
      PROVE  Fed(x.out[c], x.ctx[c].win, x.due[c], h, K)
  <2>1. c \in Client /\ Takes(c, ctx)
    BY <1>1, <1>5, <1>9
  <2>2. CASE Feeds(c, e)
    BY <1>6, <2>1, <2>2
  <2>3. CASE ~Feeds(c, e)
    <3>1. Denied(c, e)
      BY <2>1, <2>3 DEF Feeds
    <3>2. x.due[c] = due[c] /\ x.out[c] = out[c] /\ x.ctx[c].win = ctx[c].win
      BY <1>2, <1>5, <2>1, <2>3, <3>1
    <3>3. Fed(out[c], ctx[c].win, due[c], head, got)
      BY <2>1 DEF Runs
    <3> QED BY <1>1, <2>1, <3>2, <3>3, FedLater
  <2> QED BY <2>2, <2>3
<1>10. ASSUME NEW c \in Subs PROVE Shaped(x.ctx[c].win, h, K)
  <2>1. c \in Client
    BY <1>1
  <2>2. CASE Feeds(c, e)
    BY <1>6, <2>1, <2>2
  <2>3. CASE ~Feeds(c, e)
    BY <1>1, <1>5, <2>1, <2>3, ShapedLater
  <2> QED BY <2>2, <2>3
<1>11. \A c \in Client : c \in batched => x.out[c] = out[c] /\ x.due[c] = a.due[c]
  BY <1>2, <1>5 DEF Feeds
<1> QED BY <1>5, <1>8, <1>9, <1>10, <1>11 DEF x, a, K

\* Who may change over has nothing waiting and stands where the shared window stands.
LEMMA ReadyFed ==
  ASSUME NEW x \in Shared, NEW w \in Win, NEW c \in Ready(x, w), NEW q, NEW D, NEW h, NEW G,
         Fed(q, x.ctx[c].win, D, h, G)
  PROVE  Fed(q, w, D, h, G)
<1>1. /\ w.phase = 2 /\ x.ctx[c].win.phase = 2 /\ x.ctx[c].win.held = {}
      /\ x.ctx[c].win.base = w.base
  BY DEF Ready
<1>2. Run(q, w.base, D, h, G)
  BY <1>1 DEF Fed
<1>3. Waits(w, D)
  BY <1>1 DEF Fed, Waits
<1> QED BY <1>1, <1>2, <1>3 DEF Fed

\* The shared window and the batch.
LEMMA SharedRuns ==
  ASSUME TypeOK, Subscriptions, Windows, Runs, NEW s \in Packet, NEW e,
         NEW h \in Int, h = IF s > head THEN s ELSE head, Within(win, s),
         \A c \in Subs : Feeds(c, e) => Within(ctx[c].win, s)
  PROVE  LET y == AppendAll(Private(Arrival(s, h, e), s, e), Insert(win, s).out, e)
             v == Insert(win, s).win
             K == got \cup {s}
         IN  /\ y \in Shared /\ v \in Win /\ Len(y.batch) < BatchCap
             /\ \A c \in Client : y.ctx[c].fec = ctx[c].fec
             /\ RunsOf(y, Subs, batched, v, h, K) /\ WindowsOf(y, Subs, v, h, K)
<1> DEFINE a == Arrival(s, h, e)
           x == Private(a, s, e)
           v == Insert(win, s).win
           o == Insert(win, s).out
           y == AppendAll(x, o, e)
           K == got \cup {s}
<1>1. /\ head \in Int /\ win \in Win /\ Shaped(win, head, got) /\ got \subseteq K
      /\ ToSet(batch) \subseteq got
      /\ \A c \in Client : due[c] \in SUBSET Packet
      /\ batched \subseteq Subs /\ Subs \in SUBSET Client
  BY HereIs DEF Windows, Subscriptions
<1>2. \A c \in Client : /\ Arrives(s, due[c], head, got, a.due[c], h, K)
                        /\ a.due[c] \in SUBSET Packet
  <2>1. a \in Shared /\ \A c \in Client : Arrives(s, due[c], head, got, a.due[c], h, K)
    BY ArrivalIs
  <2> QED BY <2>1, SharedIs
<1>3. /\ x \in Shared /\ x.batch = batch
      /\ \A c \in Client : /\ Takes(c, x.ctx) <=> Takes(c, ctx)
                           /\ x.ctx[c].fec = ctx[c].fec
                           /\ Kept(x.out[c], x.due[c], h, K)
                           /\ c \in batched => x.out[c] = out[c] /\ x.due[c] = a.due[c]
      /\ \A c \in Subs \ batched :
           Takes(c, x.ctx) => Fed(x.out[c], x.ctx[c].win, x.due[c], h, K)
      /\ \A c \in Subs : Shaped(x.ctx[c].win, h, K)
  BY PrivateRuns
<1> HIDE DEF a, x
<1>4. v \in Win /\ o \in Seq(Packet) /\ Shaped(v, h, K) /\ ToSet(o) \subseteq K
  BY <1>1, InsertTypes
<1>5. ASSUME NEW c \in Client \cap batched, Takes(c, x.ctx)
      PROVE  Fed((x.out[c] \o x.batch) \o o, v, x.due[c], h, K)
  <2>1. c \in Subs /\ Takes(c, ctx)
    BY <1>1, <1>3, <1>5
  <2> DEFINE q == out[c] \o batch
  <2>2. Fed(q, win, due[c], head, got)
    BY <2>1 DEF Runs
  <2>3. q \in Seq(Packet) /\ q = x.out[c] \o x.batch
    <3>1. out[c] \in Seq(Packet) /\ batch \in Seq(Packet)
      BY DEF TypeOK
    <3> QED BY <1>3, <3>1, Assoc
  <2> HIDE DEF q, v, o, K
  <2>4. Fed(q \o Insert(win, s).out, Insert(win, s).win, a.due[c], h, K)
    BY <1>1, <1>2, <2>2, <2>3, InsertFed
  <2> QED BY <1>3, <2>3, <2>4 DEF v, o
<1> HIDE DEF v, o, K
<1>6. Serves(x, o, v, h, K)
  <2>1. ToSet(x.batch) \subseteq K
    BY <1>1, <1>3
  <2> QED BY <1>3, <1>4, <1>5, <2>1 DEF Serves
<1>7. Len(x.batch) < BatchCap
  BY <1>3 DEF TypeOK
<1>8. Keeps(x, y) /\ Len(y.batch) < BatchCap /\ Serves(y, <<>>, v, h, K)
  BY <1>3, <1>4, <1>6, <1>7, AppendAllServes
<1> HIDE DEF y
<1>9. y \in Shared /\ \A c \in Client : y.ctx[c].fec = ctx[c].fec
  BY <1>3, <1>8 DEF Keeps
<1>10. RunsOf(y, Subs, batched, v, h, K)
  BY <1>1, <1>3, <1>8, <1>9, ServesRuns
<1>11. WindowsOf(y, Subs, v, h, K)
  <2>1. \A c \in Subs : y.ctx[c].win = x.ctx[c].win
    BY <1>1, <1>8 DEF Keeps
  <2>2. ToSet(y.batch) \subseteq K
    BY <1>8 DEF Serves
  <2> QED BY <1>3, <1>4, <2>1, <2>2 DEF WindowsOf
<1> QED BY <1>4, <1>8, <1>9, <1>10, <1>11 DEF y, x, a, v, o, K

\* The changes over to the shared output.
LEMMA PromoteIs ==
  ASSUME NEW y \in Shared, NEW w \in Win, NEW e, NEW h \in Int, NEW G,
         Subs \in SUBSET Client, batched \subseteq Subs, Len(y.batch) < BatchCap,
         RunsOf(y, Subs, batched, w, h, G), WindowsOf(y, Subs, w, h, G)
  PROVE  LET z == Promote(y, w, e)
         IN  /\ z \in Shared /\ WindowsOf(z, Subs, w, h, G) /\ Len(z.batch) < BatchCap
             /\ \A c \in Client : z.ctx[c].fec = y.ctx[c].fec
             /\ RunsOf(z, Subs, batched \cup Ready(y, w), w, h, G)
<1> DEFINE z == Promote(y, w, e)
<1>1. CASE Ready(y, w) = {}
  <2>1. z = y
    BY <1>1 DEF Promote
  <2>2. batched \cup Ready(y, w) = batched
    BY <1>1
  <2> QED BY <2>1, <2>2
<1>2. CASE Ready(y, w) # {}
  <2>1. z = FlushBatch(y, e)
    BY <1>2 DEF Promote
  <2>2. /\ z \in Shared /\ Keeps(y, z) /\ z.batch = <<>>
        /\ RunsOf(z, Subs, batched, w, h, G) /\ WindowsOf(z, Subs, w, h, G)
    BY <2>1, FlushIsRun
  <2> HIDE DEF z
  <2>3. \A c \in Client : z.out[c] \in Seq(Packet) /\ z.ctx[c].fec = y.ctx[c].fec
    BY <2>2, SharedIs DEF Keeps
  <2>4. ASSUME NEW c \in Ready(y, w), Takes(c, z.ctx)
        PROVE  Fed(z.out[c] \o z.batch, w, z.due[c], h, G)
    <3>1. c \in Subs /\ c \notin batched /\ c \in Client
      BY DEF Ready
    <3>2. /\ z.ctx[c] = y.ctx[c] /\ z.out[c] = y.out[c] /\ z.due[c] = y.due[c] /\ Takes(c, y.ctx)
      BY <2>2, <2>4, <3>1 DEF Keeps
    <3>3. Fed(y.out[c], y.ctx[c].win, y.due[c], h, G)
      BY <3>1, <3>2 DEF RunsOf
    <3>4. Fed(y.out[c], w, y.due[c], h, G)
      BY <3>3, ReadyFed
    <3>5. z.out[c] \o z.batch = y.out[c]
      BY <2>2, <2>3, <3>1, <3>2, Assoc
    <3> QED BY <3>2, <3>4, <3>5
  <2>5. RunsOf(z, Subs, batched \cup Ready(y, w), w, h, G)
    BY <2>2, <2>4 DEF RunsOf
  <2>6. Len(z.batch) < BatchCap
    BY <2>2, NoneIs, SourceAssumption
  <2> QED BY <2>2, <2>3, <2>5, <2>6 DEF z
<1> QED BY <1>1, <1>2

LEMMA ReceiveStep == \A s \in Packet : \A e : Inv /\ Receive(s, e) => Inv'
<1> SUFFICES ASSUME NEW s \in Packet, NEW e, Inv, Receive(s, e) PROVE Inv'
  OBVIOUS
<1> DEFINE x == Private(Arrival(s, head', e), s, e)
           v == Insert(win, s).win
           y == AppendAll(x, Insert(win, s).out, e)
           z == Promote(y, v, e)
<1>1. TypeOK /\ OwnerSubscribes /\ Subscriptions /\ Windows /\ Runs
  BY DEF Inv
<1>2. /\ UNCHANGED <<subs, shared, failed, owner>> /\ got' = got \cup {s}
      /\ head' = IF s > head THEN s ELSE head
      /\ shared => Within(win, s)
      /\ \A c \in Subs : Feeds(c, e) => Within(ctx[c].win, s)
  BY DEF Receive
<1>3. IF shared THEN win' = v /\ batched' = batched \cup Ready(y, v) /\ Become(z)
                ELSE Become(x) /\ UNCHANGED <<win, batched>>
  BY DEF Receive
<1>4. /\ head' \in 0..LastPacket /\ head \in Int /\ head' \in Int /\ head <= head'
      /\ got' \subseteq Packet /\ got \subseteq got'
  <2>1. head \in 0..LastPacket /\ s \in 0..LastPacket /\ s \in Int /\ got \subseteq Packet
    BY <1>1, SourceAssumption DEF TypeOK, Packet
  <2> QED BY <1>2, <2>1, SourceAssumption
<1>5. Subs' = Subs /\ Subs \in SUBSET Client /\ batched \subseteq Subs /\ \A c \in Subs : c \in Client
  BY <1>1, <1>2, HereIs DEF Subs, Subscriptions
<1>6. CASE shared
  <2>1. /\ y \in Shared /\ v \in Win /\ Len(y.batch) < BatchCap
        /\ \A c \in Client : y.ctx[c].fec = ctx[c].fec
        /\ RunsOf(y, Subs, batched, v, head', got') /\ WindowsOf(y, Subs, v, head', got')
    <3> DEFINE h == head'
               K == got \cup {s}
               yy == AppendAll(Private(Arrival(s, h, e), s, e), Insert(win, s).out, e)
    <3>1. h \in Int /\ h = IF s > head THEN s ELSE head
      BY <1>2, <1>4
    <3> HIDE DEF h
    <3>2. /\ yy \in Shared /\ v \in Win /\ Len(yy.batch) < BatchCap
          /\ \A c \in Client : yy.ctx[c].fec = ctx[c].fec
          /\ RunsOf(yy, Subs, batched, v, h, K) /\ WindowsOf(yy, Subs, v, h, K)
      BY <1>1, <1>2, <1>6, <3>1, SharedRuns
    <3> QED BY <1>2, <3>2 DEF h
  <2> HIDE DEF v, y
  <2>2. /\ z \in Shared /\ WindowsOf(z, Subs, v, head', got') /\ Len(z.batch) < BatchCap
        /\ \A c \in Client : z.ctx[c].fec = y.ctx[c].fec
        /\ RunsOf(z, Subs, batched \cup Ready(y, v), v, head', got')
    BY <1>4, <1>5, <2>1, PromoteIs
  <2> HIDE DEF z
  <2>3. Runs' /\ Windows'
    BY <1>3, <1>5, <1>6, <2>2, BecomeIs
  <2>4. \A c \in Ready(y, v) : c \in Subs /\ c \in Client /\ ~y.ctx[c].fec
    BY <1>5 DEF Ready, Takes
  <2>5. \A c \in Client : ctx'[c].fec = y.ctx[c].fec
    BY <1>3, <1>6, <2>2, BecomeIs
  <2>6. \A c \in batched' : ~ctx'[c].fec
    BY <1>1, <1>3, <1>5, <1>6, <2>1, <2>4, <2>5 DEF Subscriptions
  <2>7. Subscriptions' /\ OwnerSubscribes'
    BY <1>1, <1>2, <1>3, <1>5, <1>6, <2>4, <2>6 DEF Subscriptions, OwnerSubscribes
  <2>8. TypeOK'
    BY <1>1, <1>2, <1>3, <1>4, <1>6, <2>1, <2>2, <2>4, BecomeIs DEF TypeOK
  <2> QED BY <2>3, <2>7, <2>8 DEF Inv
<1>7. CASE ~shared
  <2>1. batched = {} /\ batched' = {} /\ win' = win /\ Become(x)
    BY <1>1, <1>3, <1>7 DEF Subscriptions
  <2>2. /\ x \in Shared /\ x.batch = batch
        /\ \A c \in Client : x.ctx[c].fec = ctx[c].fec /\ Kept(x.out[c], x.due[c], head', got')
        /\ \A c \in Subs \ batched :
             Takes(c, x.ctx) => Fed(x.out[c], x.ctx[c].win, x.due[c], head', got')
        /\ \A c \in Subs : Shaped(x.ctx[c].win, head', got')
    <3> DEFINE h == head'
               K == got \cup {s}
               xx == Private(Arrival(s, h, e), s, e)
    <3>1. h \in Int /\ h = IF s > head THEN s ELSE head
      BY <1>2, <1>4
    <3> HIDE DEF h
    <3>2. /\ xx \in Shared /\ xx.batch = batch
          /\ \A c \in Client : xx.ctx[c].fec = ctx[c].fec /\ Kept(xx.out[c], xx.due[c], h, K)
          /\ \A c \in Subs \ batched :
               Takes(c, xx.ctx) => Fed(xx.out[c], xx.ctx[c].win, xx.due[c], h, K)
          /\ \A c \in Subs : Shaped(xx.ctx[c].win, h, K)
      BY <1>1, <1>2, <3>1, PrivateRuns
    <3> QED BY <1>2, <3>2 DEF h
  <2> HIDE DEF x
  <2>3. RunsOf(x, Subs, {}, win, head', got')
    BY <2>1, <2>2 DEF RunsOf
  <2>4. Shaped(win, head', got')
    BY <1>1, <1>4, HereIs, ShapedLater DEF Windows
  <2>5. ToSet(x.batch) \subseteq got'
    BY <1>1, <1>4, <2>2 DEF Windows
  <2>6. WindowsOf(x, Subs, win, head', got')
    BY <2>2, <2>4, <2>5 DEF WindowsOf
  <2>7. Runs' /\ Windows'
    BY <1>5, <2>1, <2>2, <2>3, <2>6, BecomeIs
  <2>8. Subscriptions' /\ OwnerSubscribes'
    BY <1>1, <1>2, <1>5, <2>1 DEF OwnerSubscribes, Subscriptions
  <2>9. TypeOK'
    BY <1>1, <1>2, <1>4, <2>1, <2>2, BecomeIs DEF TypeOK
  <2> QED BY <2>7, <2>8, <2>9 DEF Inv
<1> QED BY <1>6, <1>7

-----------------------------------------------------------------------------
(* The theorems                                                            *)

\* The socket of a shared source stays mapped to a connection that subscribes,
\* and what every connection got, with what waits for it in the batch and in
\* the window that serves it, is one run of packets.
THEOREM SourceInvariant == Spec => []Inv
<1>1. Init => Inv
  BY InitInv
<1>2. Inv /\ [Next]_vars => Inv'
  <2> SUFFICES ASSUME Inv, [Next]_vars PROVE Inv'
    OBVIOUS
  <2>0. \A c \in Subs : c \in Client
    BY HereIs DEF Inv
  <2>1. ASSUME NEW c \in Client, NEW n \in Newcomers, NEW e, Join(c, n, e) PROVE Inv'
    BY <2>1, JoinStep
  <2>2. ASSUME NEW c \in Subs, Leave(c) PROVE Inv'
    BY <2>0, <2>2, LeaveStep
  <2>3. ASSUME NEW c \in Subs, SpecialEnds(c) PROVE Inv'
    BY <2>0, <2>3, SpecialEndsStep
  <2>4. ASSUME NEW c \in Subs, Closes(c) PROVE Inv'
    BY <2>0, <2>4, ClosesStep
  <2>5. ASSUME NEW s \in 1..LastPacket, NEW e, Receive(s, e) PROVE Inv'
    BY <2>5, ReceiveStep DEF Packet
  <2>6. ASSUME NEW e, NEW F, ReceiveFec(e, F) PROVE Inv'
    BY <2>6, ReceiveFecStep
  <2>7. ASSUME NEW e, Tick(e) PROVE Inv'
    BY <2>7, TickStep
  <2>8. CASE SourceFails
    BY <2>8, SourceFailsStep
  <2>9. CASE UNCHANGED vars
    <3>1. UNCHANGED <<subs, batched, shared, failed, win, batch, owner, ctx, out, due, got, head>>
      BY <2>9 DEF vars, source
    <3>2. TypeOK /\ failed' \in BOOLEAN /\ ctx' \in [Client -> Ctx]
      BY <3>1 DEF Inv, TypeOK
    <3>3. \A c \in Client : /\ ctx'[c].win = ctx[c].win /\ ctx'[c].fec = ctx[c].fec
                            /\ Takes(c, ctx') => Takes(c, ctx)
      BY <3>1
    <3> QED BY <3>1, <3>2, <3>3, OutsideStep
  <2> QED BY <2>1, <2>2, <2>3, <2>4, <2>5, <2>6, <2>7, <2>8, <2>9 DEF Next
<1> QED BY <1>1, <1>2, PTL DEF Spec

\* A connection gets no packet twice or out of order, and between two packets
\* misses none it was to get, however it changes between its own window and the
\* shared one.
THEOREM OneRunAlways == Spec => []OneRun
<1>1. Inv => OneRun
  <2> SUFFICES ASSUME Inv, NEW c \in Client, NEW i \in 1..Len(out[c]) - 1
               PROVE  /\ out[c][i] < out[c][i+1]
                      /\ \A s \in out[c][i] + 1 .. out[c][i+1] - 1 : s \notin due[c]
    BY DEF OneRun
  <2>1. out[c] \in Seq(Packet) /\ head \in Int /\ Kept(out[c], due[c], head, got)
    BY HereIs DEF Inv, TypeOK, Runs
  <2> DEFINE q == out[c]
  <2>2. q # <<>> /\ q[Len(q)] + 1 \in Int
    BY <2>1, Packets
  <2>3. Run(q, q[Len(q)] + 1, due[c], head, got)
    BY <2>1, <2>2 DEF Kept
  <2> QED BY <2>1, <2>2, <2>3, RunMisses
<1> QED BY <1>1, SourceInvariant, PTL
=============================================================================
