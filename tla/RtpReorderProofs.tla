-------------------------- MODULE RtpReorderProofs --------------------------
(***************************************************************************)
(* Machine-checked proofs about the reorder window of a stream without FEC *)
(* for any size of the window and of the sequence space: it holds packets  *)
(* in the slots of their numbers, hands on a stream in order, and loses    *)
(* nothing that came in time.                                              *)
(***************************************************************************)
EXTENDS RtpReorder, FiniteSetTheorems, WellFoundedInduction, SequenceTheorems, TLAPS

-----------------------------------------------------------------------------
(* Numbers modulo                                                          *)

\* A multiple of m between -m and m is 0.
LEMMA NoMultiple ==
  ASSUME NEW m \in Nat \ {0}, NEW k \in Int, -m < k * m, k * m < m
  PROVE  k = 0
<1>1. ASSUME k >= 1 PROVE k * m >= m
  <2>1. (k - 1) * m >= 0
    BY <1>1
  <2> QED BY <2>1
<1>2. ASSUME k <= -1 PROVE k * m <= -m
  <2>1. (-1 - k) * m >= 0
    BY <1>2
  <2> QED BY <2>1
<1> QED BY <1>1, <1>2

\* What a remainder is.
LEMMA ModIs ==
  ASSUME NEW m \in Nat \ {0}, NEW x \in Int
  PROVE  x % m \in 0..m-1 /\ \E k \in Int : x = k * m + (x % m)
<1>1. x % m \in 0..m-1
  OBVIOUS
<1>2. x = (x \div m) * m + (x % m) /\ x \div m \in Int
  OBVIOUS
<1> QED BY <1>1, <1>2

\* A remainder is determined.
LEMMA ModThis ==
  ASSUME NEW m \in Nat \ {0}, NEW x \in Int, NEW k \in Int, NEW r \in 0..m-1, x = k * m + r
  PROVE  x % m = r
<1>1. PICK j \in Int : x = j * m + (x % m)
  BY ModIs
<1>2. x % m \in 0..m-1
  BY ModIs
<1> DEFINE y == x % m
<1>3. y \in 0..m-1 /\ j * m + y = k * m + r
  BY <1>1, <1>2
<1> HIDE DEF y
<1>4. (j - k) * m = r - y
  BY <1>3
<1>5. j - k = 0
  BY <1>3, <1>4, NoMultiple
<1> QED BY <1>3, <1>5 DEF y

\* Numbers with one remainder that are closer than the modulus are the same.
LEMMA ModSame ==
  ASSUME NEW m \in Nat \ {0}, NEW x \in Int, NEW y \in Int, x % m = y % m, -m < x - y, x - y < m
  PROVE  x = y
<1>1. PICK j \in Int : x = j * m + (x % m)
  BY ModIs
<1>2. PICK k \in Int : y = k * m + (y % m)
  BY ModIs
<1>3. x % m \in Int
  BY ModIs
<1>4. x - y = (j - k) * m
  BY <1>1, <1>2, <1>3
<1>5. j - k = 0
  BY <1>4, NoMultiple
<1> QED BY <1>1, <1>2, <1>5

\* A small number is its own remainder.
LEMMA ModSmall == ASSUME NEW m \in Nat \ {0}, NEW x \in 0..m-1 PROVE x % m = x
<1>1. x = 0 * m + x
  OBVIOUS
<1> QED BY <1>1, ModThis

\* A remainder may be taken before an addition.
LEMMA ModPlus ==
  ASSUME NEW m \in Nat \ {0}, NEW x \in Int, NEW y \in Int
  PROVE  ((x % m) + y) % m = (x + y) % m
<1>1. PICK j \in Int : x = j * m + (x % m)
  BY ModIs
<1>2. x % m \in Int /\ (x % m) + y \in Int
  BY ModIs
<1> DEFINE z == (x % m) + y
           r == z % m
<1>3. PICK k \in Int : z = k * m + r
  BY <1>2, ModIs
<1>4. r \in 0..m-1
  BY <1>2, ModIs
<1>5. x + y = j * m + z
  BY <1>1, <1>2
<1> HIDE DEF z, r
<1>6. x + y = (j + k) * m + r
  BY <1>3, <1>4, <1>5
<1>7. (x + y) % m = r
  <2>1. j + k \in Int /\ x + y \in Int
    OBVIOUS
  <2> QED BY <1>4, <1>6, <2>1, ModThis
<1> QED BY <1>7 DEF z, r

\* A remainder by the sequence space has the slot of the number itself.
LEMMA ModMod ==
  ASSUME NEW m \in Nat \ {0}, NEW n \in Nat \ {0}, m % n = 0, NEW x \in Int
  PROVE  (x % m) % n = x % n
<1>1. PICK j \in Int : x = j * m + (x % m)
  BY ModIs
<1>2. PICK k \in Int : m = k * n + (m % n)
  <2>1. m \in Int
    OBVIOUS
  <2> QED BY <2>1, ModIs
<1>3. x % m \in Int
  BY ModIs
<1> DEFINE z == x % m
           r == z % n
<1>4. z \in Int /\ r \in 0..n-1
  BY <1>3, ModIs
<1>5. PICK i \in Int : z = i * n + r
  BY <1>4, ModIs
<1>6. x = j * (k * n) + z
  BY <1>1, <1>2, <1>3
<1> HIDE DEF z, r
<1>7. x = (j * k + i) * n + r
  BY <1>4, <1>5, <1>6
<1>8. j * k + i \in Int
  OBVIOUS
<1>9. x % n = r
  BY <1>4, <1>7, <1>8, ModThis
<1> QED BY <1>9 DEF z, r

-----------------------------------------------------------------------------
(* Positions and sequence numbers                                          *)

\* The constants as numbers.
LEMMA SizesAre ==
  /\ Window \in Nat \ {0} /\ SeqMod \in Nat \ {0} /\ 2 * Window <= SeqMod
  /\ SeqMod % Window = 0 /\ \E c \in Int : SeqMod = c * Window
<1>1. Window \in Nat \ {0} /\ SeqMod \in Nat \ {0} /\ 2 * Window <= SeqMod /\ SeqMod % Window = 0
  BY WindowAssumption
<1>2. PICK c \in Int : SeqMod = c * Window + (SeqMod % Window)
  <2>1. SeqMod \in Int
    BY <1>1
  <2> QED BY <1>1, <2>1, ModIs
<1>3. SeqMod = c * Window
  BY <1>1, <1>2
<1> QED BY <1>1, <1>3

\* Half of the sequence space.
Half == SeqMod \div 2

\* Half of the sequence space.
LEMMA HalfIs == Half \in Nat /\ 2 * Half <= SeqMod /\ SeqMod <= 2 * Half + 1 /\ Window <= Half
BY SizesAre DEF Half

\* The difference of two sequence numbers is that of their positions when
\* these are less than half the sequence space apart.
LEMMA DiffIs ==
  ASSUME NEW a \in Int, NEW b \in Int, -Half <= a - b, a - b < Half
  PROVE  Diff(SeqOf(a), SeqOf(b)) = a - b
<1>1. PICK j \in Int : a = j * SeqMod + (a % SeqMod)
  BY SizesAre, ModIs
<1>2. PICK k \in Int : b = k * SeqMod + (b % SeqMod)
  BY SizesAre, ModIs
<1>3. SeqMod \in Nat \ {0} /\ a % SeqMod \in 0..SeqMod-1 /\ b % SeqMod \in 0..SeqMod-1
  BY SizesAre, ModIs
<1> DEFINE x == a % SeqMod
           y == b % SeqMod
           d == (x - y) % SeqMod
<1>4. x \in Int /\ y \in Int /\ x - y \in Int /\ x - y = (k - j) * SeqMod + (a - b)
  BY <1>1, <1>2, <1>3
<1>5. Diff(SeqOf(a), SeqOf(b)) = IF d < Half THEN d ELSE d - SeqMod
  BY DEF Diff, SeqOf, Half
<1> HIDE DEF x, y
<1>6. CASE a - b >= 0
  <2>1. a - b \in 0..SeqMod-1 /\ k - j \in Int
    BY <1>3, <1>6, HalfIs
  <2>2. d = a - b
    BY <1>3, <1>4, <2>1, ModThis
  <2> QED BY <1>5, <2>2
<1>7. CASE a - b < 0
  <2>1. (a - b) + SeqMod \in 0..SeqMod-1 /\ (k - j) - 1 \in Int
    BY <1>3, <1>7, HalfIs
  <2>2. x - y = ((k - j) - 1) * SeqMod + ((a - b) + SeqMod)
    BY <1>3, <1>4
  <2>3. d = (a - b) + SeqMod
    BY <1>3, <1>4, <2>1, <2>2, ModThis
  <2>4. ~(d < Half)
    BY <1>3, <2>3, HalfIs
  <2> QED BY <1>3, <1>5, <2>3, <2>4
<1> QED BY <1>6, <1>7

\* The position near h that a sequence number stands for.
Nearest(h, s) == CHOOSE p \in (h - SeqMod \div 2 + 1)..(h + SeqMod \div 2) : SeqOf(p) = s

\* Only one number near another has its sequence number.
LEMMA NearestIs ==
  ASSUME NEW h \in Int, NEW b \in (h - Half + 1)..(h + Half)
  PROVE  Nearest(h, SeqOf(b)) = b
<1> DEFINE S == (h - Half + 1)..(h + Half)
<1>1. Nearest(h, SeqOf(b)) = CHOOSE p \in S : SeqOf(p) = SeqOf(b)
  BY DEF Nearest, Half
<1>2. ASSUME NEW p \in S, SeqOf(p) = SeqOf(b) PROVE p = b
  <2>1. p \in Int /\ b \in Int /\ -SeqMod < p - b /\ p - b < SeqMod
    BY SizesAre, HalfIs
  <2>2. p % SeqMod = b % SeqMod
    BY <1>2 DEF SeqOf
  <2> QED BY <2>1, <2>2, SizesAre, ModSame
<1> HIDE DEF S
<1>3. \E p \in S : SeqOf(p) = SeqOf(b)
  BY DEF S
<1> QED BY <1>1, <1>2, <1>3

\* A packet's slot is told by its place alone.
LEMMA SlotIs == \A p \in Int : SlotOf(SeqOf(p)) = p % Window /\ p % Window \in Ring
BY SizesAre, ModMod, ModIs DEF SlotOf, SeqOf, Ring

\* The slots from the base on are those of the positions from b on.
LEMMA SlotsFrom ==
  ASSUME NEW b \in Int
  PROVE  /\ \A k \in Int : SlotOf(SeqOf(b) + k) = (b + k) % Window
         /\ \A i \in Ring : /\ (i - SeqOf(b)) % Window \in 0..Window-1
                            /\ i = (b + ((i - SeqOf(b)) % Window)) % Window
<1>1. PICK j \in Int : b = j * SeqMod + (b % SeqMod)
  BY SizesAre, ModIs
<1>2. PICK c \in Int : SeqMod = c * Window
  BY SizesAre
<1> DEFINE s == SeqOf(b)
<1>3. s \in Int /\ b = j * SeqMod + s /\ Window \in Nat \ {0}
  BY <1>1, SizesAre, ModIs DEF SeqOf
<1> HIDE DEF s
<1>4. s = b - (j * c) * Window /\ j * c \in Int
  BY <1>2, <1>3
<1>5. ASSUME NEW k \in Int PROVE (s + k) % Window = (b + k) % Window
  <2>0. b + k \in Int
    OBVIOUS
  <2>1. PICK m \in Int : b + k = m * Window + ((b + k) % Window)
    BY <1>3, <2>0, ModIs
  <2> DEFINE r == (b + k) % Window
  <2>2. r \in 0..Window-1 /\ b + k = m * Window + r
    BY <1>3, <2>0, <2>1, ModIs
  <2> HIDE DEF r
  <2>3. s + k = (m - j * c) * Window + r /\ m - j * c \in Int /\ s + k \in Int
    BY <1>3, <1>4, <2>2
  <2>4. (s + k) % Window = r
    BY <1>3, <2>2, <2>3, ModThis
  <2> QED BY <2>4 DEF r
<1>6. ASSUME NEW i \in Ring
      PROVE  (i - s) % Window \in 0..Window-1 /\ i = (b + ((i - s) % Window)) % Window
  <2>1. i \in 0..Window-1 /\ i - s \in Int
    BY <1>3 DEF Ring
  <2> DEFINE k == (i - s) % Window
  <2>2. PICK m \in Int : i - s = m * Window + k
    BY <1>3, <2>1, ModIs
  <2>3. k \in 0..Window-1
    BY <1>3, <2>1, ModIs
  <2> HIDE DEF k
  <2>4. b + k = (j * c - m) * Window + i /\ j * c - m \in Int /\ b + k \in Int
    BY <1>3, <1>4, <2>1, <2>2, <2>3
  <2>5. (b + k) % Window = i
    BY <1>3, <2>1, <2>4, ModThis
  <2> QED BY <2>3, <2>5 DEF k
<1> QED BY <1>5, <1>6 DEF SlotOf, s

-----------------------------------------------------------------------------
(* Natural numbers                                                         *)

\* The least element of a set of natural numbers.
LEMMA LowestIs ==
  ASSUME NEW S \in SUBSET Nat, S # {}
  PROVE  Min(S) \in S /\ \A y \in S : Min(S) <= y
<1>1. PICK x \in S : \A y \in S : ~(<<y, x>> \in OpToRel(<, Nat))
  BY NatLessThanWellFounded, WFMin
<1>2. ASSUME NEW y \in S PROVE x <= y
  <2>1. ~(y < x)
    BY <1>1 DEF OpToRel
  <2> QED BY <2>1
<1> QED BY <1>2 DEF Min

\* Induction for a set of natural numbers.
LEMMA Reached ==
  ASSUME NEW S \in SUBSET Nat, 0 \in S, \A n \in S : n + 1 \in S
  PROVE  S = Nat
<1> SUFFICES ASSUME Nat \ S # {} PROVE FALSE
  OBVIOUS
<1> DEFINE x == Min(Nat \ S)
<1>1. x \in Nat \ S /\ \A y \in Nat \ S : x <= y
  BY LowestIs
<1> HIDE DEF x
<1>2. x # 0 /\ x - 1 \in Nat
  BY <1>1
<1>3. x - 1 \in S
  BY <1>1, <1>2
<1> QED BY <1>1, <1>2, <1>3

-----------------------------------------------------------------------------
(* The window during a call                                                *)

\* What a slot may hold.
Content == Packet \cup {NoPacket}

\* The records the calls work on when no group is kept.
Windows == [slots : [Ring -> Content], base : Seqn, count : Seqn,
            groups : {groups}, minEnd : {minEnd}, out : Seq(Packet)]

\* b is the position of the base, and what is held is within the window of it.
Placed(w, b) ==
  /\ b \in Nat /\ w.base = SeqOf(b)
  /\ \A i \in Ring : w.slots[i] # NoPacket =>
       w.slots[i] - b \in 0..Window-1 /\ w.slots[i] % Window = i

\* What a call that moves the base from b to c does to the window.
Ordered(q) == \A i, j \in 1..Len(q) : i < j => q[i] < q[j]

MovesOn(w, v, b, c) ==
  /\ v \in Windows /\ Placed(v, c) /\ b <= c
  /\ \A i \in Ring : v.slots[i] = w.slots[i] \/ v.slots[i] = NoPacket
  /\ \A i \in 1..Len(v.out) : v.out[i] \in b..c-1
  /\ Ordered(v.out)
  /\ \A i \in Ring : w.slots[i] # v.slots[i] => \E k \in 1..Len(v.out) : v.out[k] = w.slots[i]

\* Packets are numbers.
LEMMA PacketsAre ==
  /\ Packet \subseteq Nat /\ NoPacket \notin Packet /\ NoPacket \notin Int
  /\ \A x \in Content : x # NoPacket => x \in Packet /\ x \in Nat
BY WindowAssumption DEF Packet, Content

\* A sequence number is one.
LEMMA SeqOfIs == \A b \in Int : SeqOf(b) \in Seqn /\ SeqOf(b) \in Int
<1> TAKE b \in Int
<1>1. b % SeqMod \in 0..SeqMod-1
  BY SizesAre, ModIs
<1>2. SeqOf(b) \in 0..SeqMod-1
  BY <1>1 DEF SeqOf
<1>3. SeqOf(b) \in Int
  BY <1>2, SizesAre
<1> QED BY <1>2, <1>3 DEF Seqn

\* Slot and offset from the base determine each other and the packet.
LEMMA OffsetIs ==
  ASSUME NEW w \in Windows, NEW b \in Nat, Placed(w, b)
  PROVE  /\ \A k \in 0..Window-1 : /\ SlotOf(w.base + k) \in Ring
                                   /\ (SlotOf(w.base + k) - w.base) % Window = k
         /\ \A i \in Ring : /\ (i - w.base) % Window \in 0..Window-1
                            /\ SlotOf(w.base + ((i - w.base) % Window)) = i
                            /\ w.slots[i] # NoPacket =>
                                 w.slots[i] = b + ((i - w.base) % Window)
<1>1. w.base = SeqOf(b) /\ b \in Int
  BY DEF Placed
<1>2. ASSUME NEW k \in Int PROVE SlotOf(w.base + k) = (b + k) % Window /\ SlotOf(w.base + k) \in Ring
  <2>1. SlotOf(w.base + k) = (b + k) % Window
    BY <1>1, SlotsFrom
  <2>2. b + k \in Int
    BY <1>1
  <2>3. (b + k) % Window \in 0..Window-1
    BY <2>2, SizesAre, ModIs
  <2> QED BY <2>1, <2>3 DEF Ring
<1>3. ASSUME NEW i \in Ring
      PROVE  /\ (i - w.base) % Window \in 0..Window-1
             /\ (b + ((i - w.base) % Window)) % Window = i
             /\ SlotOf(w.base + ((i - w.base) % Window)) = i
  <2>1. /\ (i - w.base) % Window \in 0..Window-1
        /\ i = (b + ((i - w.base) % Window)) % Window
    BY <1>1, SlotsFrom
  <2>2. (i - w.base) % Window \in Int
    BY <2>1
  <2> QED BY <1>2, <2>1, <2>2
<1>4. ASSUME NEW k \in 0..Window-1 PROVE (SlotOf(w.base + k) - w.base) % Window = k
  <2> DEFINE i == SlotOf(w.base + k)
             r == (i - w.base) % Window
  <2>1. i \in Ring /\ i = (b + k) % Window
    BY <1>2, SizesAre
  <2>2. r \in 0..Window-1 /\ (b + r) % Window = i
    BY <1>3, <2>1
  <2> HIDE DEF i, r
  <2>3. b + r \in Int /\ b + k \in Int /\ (b + r) % Window = (b + k) % Window
    BY <1>1, <2>1, <2>2, SizesAre
  <2>6. -Window < (b + r) - (b + k) /\ (b + r) - (b + k) < Window
    BY <1>1, <2>2, SizesAre
  <2>4. b + r = b + k
    BY <2>3, <2>6, SizesAre, ModSame
  <2>5. r = k
    BY <1>1, <2>2, <2>4, SizesAre
  <2> QED BY <2>5 DEF i, r
<1>5. ASSUME NEW i \in Ring, w.slots[i] # NoPacket
      PROVE  w.slots[i] = b + ((i - w.base) % Window)
  <2> DEFINE r == (i - w.base) % Window
             p == w.slots[i]
  <2>1. p - b \in 0..Window-1 /\ p % Window = i /\ p \in Nat
    BY <1>5, PacketsAre DEF Placed, Windows
  <2>2. r \in 0..Window-1 /\ (b + r) % Window = i
    BY <1>3
  <2> HIDE DEF p, r
  <2>3. b + r \in Int /\ p \in Int /\ -Window < p - (b + r) /\ p - (b + r) < Window
    BY <1>1, <2>1, <2>2, SizesAre
  <2>4. p = b + r
    BY <2>1, <2>2, <2>3, SizesAre, ModSame
  <2> QED BY <2>4 DEF p, r
<1>6. \A k \in 0..Window-1 : SlotOf(w.base + k) \in Ring
  BY <1>2, SizesAre
<1> QED BY <1>3, <1>4, <1>5, <1>6

-----------------------------------------------------------------------------
(* Moving the base on                                                      *)

\* sent is what the first n slots from the base of w hold, in order.
Collected(w, b, n, sent) ==
  /\ sent \in Seq(Packet) /\ Ordered(sent)
  /\ \A i \in 1..Len(sent) : sent[i] \in b..b+n-1
  /\ \A i \in Ring : w.slots[i] # NoPacket /\ (i - w.base) % Window < n
                       => \E k \in 1..Len(sent) : sent[k] = w.slots[i]

\* v is w after the base went n on and sent was handed on.
Passed(w, v, n, sent) ==
  /\ v.slots = [i \in Ring |-> IF (i - w.base) % Window < n THEN NoPacket ELSE w.slots[i]]
  /\ v.base = (w.base + n) % SeqMod
  /\ v.out = w.out \o sent

\* The base moves over what it passes.
LEMMA PassedMoves ==
  ASSUME NEW w \in Windows, NEW b \in Nat, Placed(w, b), w.out = <<>>, NEW n \in Nat,
         NEW v \in Windows, NEW sent, Collected(w, b, n, sent), Passed(w, v, n, sent)
  PROVE  MovesOn(w, v, b, b + n)
<1>1. v.out = sent
  BY DEF Passed, Collected
<1>2. \A i \in Ring : v.slots[i] = IF (i - w.base) % Window < n THEN NoPacket ELSE w.slots[i]
  BY DEF Passed
<1>3. v.base = SeqOf(b + n)
  <2>1. w.base = b % SeqMod /\ b \in Int /\ n \in Int
    BY DEF Placed, SeqOf
  <2>2. ((b % SeqMod) + n) % SeqMod = (b + n) % SeqMod
    BY <2>1, SizesAre, ModPlus
  <2> QED BY <2>1, <2>2 DEF Passed, SeqOf
<1>4. ASSUME NEW i \in Ring, v.slots[i] # NoPacket
      PROVE  v.slots[i] - (b + n) \in 0..Window-1 /\ v.slots[i] % Window = i
  <2> DEFINE r == (i - w.base) % Window
  <2>1. r \in 0..Window-1 /\ (w.slots[i] # NoPacket => w.slots[i] = b + r)
    BY OffsetIs
  <2>2. v.slots[i] = IF r < n THEN NoPacket ELSE w.slots[i]
    BY <1>2
  <2>3. w.slots[i] # NoPacket => w.slots[i] % Window = i
    BY DEF Placed
  <2> HIDE DEF r
  <2>4. ~(r < n) /\ v.slots[i] = w.slots[i] /\ w.slots[i] # NoPacket
    BY <1>4, <2>2
  <2>5. v.slots[i] = b + r
    BY <2>1, <2>4
  <2>6. r \in Nat /\ r <= Window - 1 /\ n <= r
    BY <2>1, <2>4, SizesAre
  <2>7. v.slots[i] - (b + n) \in 0..Window-1
    BY <2>5, <2>6, SizesAre
  <2> QED BY <2>3, <2>4, <2>7
<1>5. b + n \in Nat
  OBVIOUS
<1>6. Placed(v, b + n)
  BY <1>3, <1>4, <1>5 DEF Placed
<1>7. ASSUME NEW i \in Ring, w.slots[i] # v.slots[i]
      PROVE  \E k \in 1..Len(v.out) : v.out[k] = w.slots[i]
  <2>1. (i - w.base) % Window < n /\ w.slots[i] # NoPacket
    BY <1>2, <1>7
  <2> QED BY <1>1, <2>1 DEF Collected
<1>8. \A i \in Ring : v.slots[i] = w.slots[i] \/ v.slots[i] = NoPacket
  BY <1>2
<1>9. b <= b + n
  OBVIOUS
<1>10. Ordered(v.out) /\ \A i \in 1..Len(v.out) : v.out[i] \in b..(b+n)-1
  BY <1>1 DEF Collected
<1> QED BY <1>6, <1>7, <1>8, <1>9, <1>10 DEF MovesOn

\* v is w after the n packets from position b on were handed on, and no more was
\* to be handed on then.
Flushed(w, v, b, n) ==
  /\ v.count = w.count - n /\ n <= w.count /\ Len(v.out) = n
  /\ \A i \in 1..n : v.out[i] = b + i - 1
  /\ \A i \in Ring : v.slots[i] = IF (i - w.base) % Window < n THEN NoPacket ELSE w.slots[i]
  /\ n = w.count \/ n = Window \/ w.slots[SlotOf(w.base + n)] = NoPacket

\* flush_consecutive without FEC hands on the packets from the base on up to
\* the first one that is missing.
LEMMA FlushIs ==
  ASSUME NEW w \in Windows, NEW b \in Nat, Placed(w, b), w.out = <<>>
  PROVE  \E n \in 0..Window : /\ MovesOn(w, Flush(w, FALSE), b, b + n)
                              /\ \A k \in 0..n-1 : \E i \in Ring :
                                   w.slots[i] = b + k /\ w.slots[i] # NoPacket
                              /\ Flushed(w, Flush(w, FALSE), b, n)
<1> DEFINE At(k) == w.slots[SlotOf(w.base + k)]
           S == {w.count} \cup {i \in 0..w.count : At(i) = NoPacket} \cup {Window}
           n == Min(S)
           v == [w EXCEPT
                 !.slots = [i \in Ring |-> IF (i - w.base) % Window < n
                                           THEN NoPacket ELSE w.slots[i]],
                 !.base  = (w.base + n) % SeqMod,
                 !.count = w.count - n,
                 !.out   = w.out \o [i \in 1..n |-> At(i - 1)]]
<1>1. Flush(w, FALSE) = v
  BY DEF Flush
<1>2. w.count \in 0..SeqMod-1 /\ w.count \in Nat /\ w.slots \in [Ring -> Content]
      /\ w.base \in Int /\ w.groups = groups /\ w.minEnd = minEnd
  BY SizesAre DEF Windows, Seqn
<1>3. S \in SUBSET Nat /\ S # {}
  BY <1>2, SizesAre
<1>4. n \in S /\ \A y \in S : n <= y
  BY <1>3, LowestIs
<1>5. n \in 0..Window /\ n <= w.count /\ n \in Nat
  <2> HIDE DEF n
  <2>1. n \in Nat /\ n <= Window /\ n <= w.count
    BY <1>3, <1>4
  <2> QED BY <2>1, SizesAre
<1>6. ASSUME NEW k \in 0..n-1 PROVE At(k) = b + k /\ At(k) # NoPacket
  <2> DEFINE i == SlotOf(w.base + k)
  <2> HIDE DEF n
  <2>1. k \in 0..Window-1 /\ k \in 0..w.count /\ k < n
    BY <1>2, <1>5, SizesAre
  <2>2. k \notin S
    <3> HIDE DEF S
    <3> QED BY <1>4, <1>5, <2>1
  <2>3. At(k) # NoPacket
    BY <2>1, <2>2
  <2>4. i \in Ring /\ (i - w.base) % Window = k
    BY <2>1, OffsetIs
  <2> QED BY <2>3, <2>4, OffsetIs
<1>13. n = w.count \/ n = Window \/ w.slots[SlotOf(w.base + n)] = NoPacket
  <2> HIDE DEF n
  <2> QED BY <1>4
<1> DEFINE sent == [i \in 1..n |-> At(i - 1)]
<1> HIDE DEF n
<1>7. \A k \in 0..n-1 : \E i \in Ring : w.slots[i] = b + k /\ w.slots[i] # NoPacket
  <2> SUFFICES ASSUME NEW k \in 0..n-1
               PROVE  \E i \in Ring : w.slots[i] = b + k /\ w.slots[i] # NoPacket
    OBVIOUS
  <2>1. k \in 0..Window-1
    BY <1>5, SizesAre
  <2> QED BY <1>6, <2>1, OffsetIs
<1>8. \A i \in 1..n : sent[i] = b + i - 1 /\ sent[i] \in Packet
  <2> SUFFICES ASSUME NEW i \in 1..n PROVE sent[i] = b + i - 1 /\ sent[i] \in Packet
    OBVIOUS
  <2>1. i - 1 \in 0..n-1 /\ b + (i - 1) = b + i - 1
    BY <1>5
  <2>2. At(i - 1) = b + (i - 1) /\ At(i - 1) # NoPacket
    BY <1>6, <2>1
  <2>3. i - 1 \in 0..Window-1
    BY <1>5, <2>1, SizesAre
  <2>4. SlotOf(w.base + (i - 1)) \in Ring
    BY <2>3, OffsetIs
  <2>5. At(i - 1) \in Content
    BY <1>2, <2>4
  <2> QED BY <2>1, <2>2, <2>5 DEF Content
<1>9. sent \in Seq(Packet) /\ Len(sent) = n /\ DOMAIN sent = 1..n
  BY <1>5, <1>8
<1> HIDE DEF sent
<1>10. Collected(w, b, n, sent)
  <2>1. \A i \in 1..Len(sent) : sent[i] \in b..b+n-1
    BY <1>5, <1>8, <1>9
  <2>2. Ordered(sent)
    BY <1>5, <1>8, <1>9 DEF Ordered
  <2>3. ASSUME NEW i \in Ring, w.slots[i] # NoPacket, (i - w.base) % Window < n
        PROVE  \E k \in 1..Len(sent) : sent[k] = w.slots[i]
    <3> DEFINE r == (i - w.base) % Window
    <3>1. r \in 0..Window-1 /\ w.slots[i] = b + r /\ r < n
      BY <2>3, OffsetIs
    <3> HIDE DEF r
    <3>2. r + 1 \in 1..n /\ b + (r + 1) - 1 = b + r
      BY <1>5, <3>1, SizesAre
    <3>3. sent[r + 1] = b + (r + 1) - 1
      BY <1>8, <3>2
    <3> QED BY <1>9, <3>1, <3>2, <3>3
  <2> QED BY <1>9, <2>1, <2>2, <2>3 DEF Collected
<1>11. v \in Windows /\ Passed(w, v, n, sent)
  <2>1. w.out \o sent \in Seq(Packet) /\ w.out \o sent = sent
    BY <1>9
  <2>2. (w.base + n) % SeqMod \in Seqn
    <3>1. w.base + n \in Int
      BY <1>2, <1>5
    <3> QED BY <3>1, SizesAre, ModIs DEF Seqn
  <2>3. w.count - n \in Seqn
    BY <1>2, <1>5, SizesAre DEF Seqn
  <2>4. [i \in Ring |-> IF (i - w.base) % Window < n THEN NoPacket ELSE w.slots[i]] \in [Ring -> Content]
    BY <1>2 DEF Content
  <2>5. v \in Windows
    BY <2>1, <2>2, <2>3, <2>4 DEF Windows, sent
  <2>6. Passed(w, v, n, sent)
    BY DEF Passed, sent, Windows
  <2> QED BY <2>5, <2>6
<1>14. Flushed(w, v, b, n)
  <2>1. v.count = w.count - n /\ n <= w.count
    BY <1>5 DEF Windows
  <2>2. v.out = sent
    BY <1>9, <1>11 DEF Passed
  <2>3. \A i \in Ring : v.slots[i] = IF (i - w.base) % Window < n THEN NoPacket ELSE w.slots[i]
    BY <1>11 DEF Passed
  <2> HIDE DEF v
  <2> QED BY <1>8, <1>9, <1>13, <2>1, <2>2, <2>3 DEF Flushed
<1> HIDE DEF v
<1>12. MovesOn(w, v, b, b + n)
  BY <1>5, <1>10, <1>11, PassedMoves
<1> QED BY <1>1, <1>5, <1>7, <1>12, <1>14

\* The sweep of force_flush_until, slot by slot.
More(w, q, k) == IF w.slots[SlotOf(w.base + k - 1)] = NoPacket THEN q
                 ELSE Append(q, w.slots[SlotOf(w.base + k - 1)])

Sweeps(f, w, m) == f = [k \in 0..m |-> IF k = 0 THEN <<>> ELSE More(w, f[k-1], k)]

\* There is such a sweep.
LEMMA SweepExists ==
  ASSUME NEW w, NEW n \in Nat
  PROVE  \E f : Sweeps(f, w, n)
<1> DEFINE Good == {m \in Nat : \E f : Sweeps(f, w, m)}
           Then(q, k) == More(w, q, k)
<1>1. \A f, m : Sweeps(f, w, m) <=> f = [k \in 0..m |-> IF k = 0 THEN <<>> ELSE Then(f[k-1], k)]
  BY DEF Sweeps
<1> HIDE DEF Then
<1>2. 0 \in Good
  <2> DEFINE f == [k \in 0..0 |-> <<>>]
  <2>1. f = [k \in 0..0 |-> IF k = 0 THEN <<>> ELSE Then(f[k-1], k)]
    OBVIOUS
  <2> HIDE DEF f
  <2> QED BY <1>1, <2>1
<1>3. ASSUME NEW m \in Good PROVE m + 1 \in Good
  <2>1. PICK f : f = [k \in 0..m |-> IF k = 0 THEN <<>> ELSE Then(f[k-1], k)]
    BY <1>1
  <2>2. m \in Nat
    OBVIOUS
  <2> DEFINE g == [k \in 0..m+1 |-> IF k = m + 1 THEN Then(f[m], m + 1) ELSE f[k]]
  <2>3. (\A k \in 0..m : g[k] = f[k]) /\ g[m+1] = Then(f[m], m + 1)
    BY <2>2
  <2>4. \A k \in 0..m : f[k] = IF k = 0 THEN <<>> ELSE Then(f[k-1], k)
    BY <2>1
  <2>5. ASSUME NEW k \in 0..m+1 PROVE g[k] = IF k = 0 THEN <<>> ELSE Then(g[k-1], k)
    <3> HIDE DEF g
    <3>1. CASE k = m + 1
      <4>1. k - 1 = m /\ k # 0 /\ m \in 0..m
        BY <2>2, <3>1
      <4> QED BY <2>3, <3>1, <4>1
    <3>2. CASE k # m + 1 /\ k # 0
      <4>1. k \in 0..m /\ k - 1 \in 0..m
        BY <2>2, <3>2
      <4> QED BY <2>3, <2>4, <3>2, <4>1
    <3>3. CASE k = 0
      <4>1. k \in 0..m
        BY <2>2, <3>3
      <4> QED BY <2>3, <2>4, <3>3, <4>1
    <3> QED BY <3>1, <3>2, <3>3
  <2>6. g = [k \in 0..m+1 |-> g[k]]
    OBVIOUS
  <2> HIDE DEF g
  <2>7. g = [k \in 0..m+1 |-> IF k = 0 THEN <<>> ELSE Then(g[k-1], k)]
    BY <2>5, <2>6
  <2>8. Sweeps(g, w, m + 1)
    BY <1>1, <2>7
  <2> QED BY <2>2, <2>8
<1>4. Good \in SUBSET Nat
  OBVIOUS
<1>5. Good = Nat
  <2> HIDE DEF Good
  <2> QED BY <1>2, <1>3, <1>4, Reached
<1> QED BY <1>5

\* One slot more of the sweep.
LEMMA CollectedMore ==
  ASSUME NEW w \in Windows, NEW b \in Nat, Placed(w, b), NEW k \in 0..Window-1,
         NEW q, Collected(w, b, k, q)
  PROVE  Collected(w, b, k + 1, More(w, q, k + 1))
<1> DEFINE i == SlotOf(w.base + k)
           p == w.slots[i]
           r == More(w, q, k + 1)
<1>1. i \in Ring /\ (i - w.base) % Window = k /\ (p # NoPacket => p = b + k)
  BY OffsetIs
<1>2. w.base \in Int /\ k \in Nat /\ k < Window /\ Window \in Int
  BY SizesAre DEF Windows, Seqn
<1>3. r = IF p = NoPacket THEN q ELSE Append(q, p)
  <2>1. w.base + (k + 1) - 1 = w.base + k
    BY <1>2
  <2> QED BY <2>1 DEF More
<1>4. p # NoPacket => p \in Packet
  BY <1>1, PacketsAre DEF Windows
<1>5. /\ q \in Seq(Packet) /\ Ordered(q) /\ Len(q) \in Nat
      /\ \A j \in 1..Len(q) : q[j] \in b..b+k-1
  BY DEF Collected
<1>6. \A j \in Ring : w.slots[j] # NoPacket /\ (j - w.base) % Window < k + 1
        => j = i \/ \E x \in 1..Len(q) : q[x] = w.slots[j]
  <2> SUFFICES ASSUME NEW j \in Ring, w.slots[j] # NoPacket, (j - w.base) % Window < k + 1,
                      j # i
               PROVE  \E x \in 1..Len(q) : q[x] = w.slots[j]
    OBVIOUS
  <2> DEFINE o == (j - w.base) % Window
  <2>1. o \in 0..Window-1 /\ SlotOf(w.base + o) = j
    BY OffsetIs
  <2>2. o < k + 1
    OBVIOUS
  <2> HIDE DEF o
  <2>3. o # k
    BY <2>1
  <2>4. o < k
    BY <1>2, <2>1, <2>2, <2>3
  <2> QED BY <2>4 DEF Collected, o
<1> HIDE DEF p, r, i
<1>7. CASE p = NoPacket
  <2>1. r = q /\ \A j \in 1..Len(q) : q[j] \in b..b+(k+1)-1
    BY <1>2, <1>3, <1>5, <1>7
  <2>2. \A j \in Ring : w.slots[j] # NoPacket /\ (j - w.base) % Window < k + 1
          => \E x \in 1..Len(q) : q[x] = w.slots[j]
    BY <1>6, <1>7 DEF p
  <2> QED BY <1>5, <2>1, <2>2 DEF Collected, r
<1>8. CASE p # NoPacket
  <2>1. r = Append(q, p) /\ p \in Packet /\ p = b + k
    BY <1>1, <1>3, <1>4, <1>8 DEF p
  <2>2. /\ r \in Seq(Packet) /\ Len(r) = Len(q) + 1
        /\ \A j \in 1..Len(q) : r[j] = q[j]
        /\ r[Len(q) + 1] = b + k
    BY <1>5, <2>1
  <2>3. \A j \in 1..Len(r) : j \in 1..Len(q) \/ j = Len(q) + 1
    BY <1>5, <2>2
  <2>4. \A j \in 1..Len(r) : r[j] \in b..b+(k+1)-1
    BY <1>2, <1>5, <2>2, <2>3
  <2>5. Ordered(r)
    <3> SUFFICES ASSUME NEW x \in 1..Len(r), NEW y \in 1..Len(r), x < y PROVE r[x] < r[y]
      BY DEF Ordered
    <3>1. x \in 1..Len(q)
      BY <1>5, <2>2, <2>3
    <3>2. CASE y \in 1..Len(q)
      BY <1>5, <2>2, <3>1, <3>2 DEF Ordered
    <3>3. CASE y = Len(q) + 1
      BY <1>2, <1>5, <2>2, <3>1, <3>3
    <3> QED BY <2>3, <3>2, <3>3
  <2>6. ASSUME NEW j \in Ring, w.slots[j] # NoPacket, (j - w.base) % Window < k + 1
        PROVE  \E x \in 1..Len(r) : r[x] = w.slots[j]
    <3>1. CASE j = i
      <4>1. Len(q) + 1 \in 1..Len(r) /\ r[Len(q) + 1] = w.slots[j]
        BY <1>5, <2>1, <2>2, <3>1 DEF p
      <4> QED BY <4>1
    <3>2. CASE j # i
      <4>1. PICK x \in 1..Len(q) : q[x] = w.slots[j]
        BY <1>6, <2>6, <3>2
      <4>2. x \in 1..Len(r) /\ r[x] = q[x]
        BY <1>5, <2>2
      <4> QED BY <4>1, <4>2
    <3> QED BY <3>1, <3>2
  <2> QED BY <2>2, <2>4, <2>5, <2>6 DEF Collected, r
<1> QED BY <1>7, <1>8

\* What the sweep of the slots collects.
LEMMA SweptIs ==
  ASSUME NEW w \in Windows, NEW b \in Nat, Placed(w, b), NEW m \in 0..Window
  PROVE  Collected(w, b, m, Swept(w, m))
<1> DEFINE f == CHOOSE g : Sweeps(g, w, m)
<1>1. Swept(w, m) = f[m]
  BY DEF Swept, Sweeps, More
<1>2. m \in Nat /\ m <= Window /\ Window \in Int
  BY SizesAre
<1>3. Sweeps(f, w, m)
  BY <1>2, SweepExists
<1> HIDE DEF f
<1>4. f = [k \in 0..m |-> IF k = 0 THEN <<>> ELSE More(w, f[k-1], k)]
  BY <1>3 DEF Sweeps
<1> DEFINE Good == {k \in Nat : k <= m => Collected(w, b, k, f[k])}
<1>5. 0 \in Good
  <2>1. f[0] = <<>>
    BY <1>2, <1>4
  <2>2. \A i \in Ring : ~((i - w.base) % Window < 0)
    <3> TAKE i \in Ring
    <3> DEFINE o == (i - w.base) % Window
    <3>1. o \in 0..Window-1
      BY OffsetIs
    <3> HIDE DEF o
    <3>2. ~(o < 0)
      BY <3>1
    <3> QED BY <3>2 DEF o
  <2>3. Collected(w, b, 0, <<>>)
    BY <2>2 DEF Collected, Ordered
  <2> QED BY <2>1, <2>3
<1>6. ASSUME NEW k \in Good PROVE k + 1 \in Good
  <2>1. k \in Nat /\ k + 1 \in Nat
    OBVIOUS
  <2>2. ASSUME k + 1 <= m PROVE Collected(w, b, k + 1, f[k+1])
    <3>1. k <= m /\ k + 1 \in 0..m /\ k \in 0..Window-1 /\ k + 1 # 0 /\ (k + 1) - 1 = k
      BY <1>2, <2>1, <2>2
    <3>2. Collected(w, b, k, f[k])
      BY <3>1
    <3>3. f[k+1] = More(w, f[k], k + 1)
      <4>1. f[k+1] = More(w, f[(k+1)-1], k + 1)
        BY <1>4, <3>1
      <4> QED BY <3>1, <4>1
    <3> QED BY <3>1, <3>2, <3>3, CollectedMore
  <2> QED BY <2>1, <2>2
<1>7. Good = Nat
  <2>1. Good \in SUBSET Nat
    OBVIOUS
  <2> HIDE DEF Good
  <2> QED BY <1>5, <1>6, <2>1, Reached
<1>8. Collected(w, b, m, f[m])
  BY <1>2, <1>7
<1> QED BY <1>1, <1>8

\* What a forced flush hands on and leaves.
LEMMA ForceFlushIs ==
  ASSUME NEW w \in Windows, NEW b \in Nat, Placed(w, b), w.out = <<>>,
         NEW p \in Nat, Window <= p - b, p - b < Half
  PROVE  MovesOn(w, ForceFlush(w, SeqOf(p)), b, p - Window + 1)
<1> DEFINE n == Diff(SeqOf(p), w.base) - Window + 1
           m == Min({n, Window})
           sent == Swept(w, m)
           v == Advanced(w, n, sent)
<1>1. ForceFlush(w, SeqOf(p)) = v
  BY DEF ForceFlush
<1>2. Diff(SeqOf(p), w.base) = p - b
  <2>1. w.base = SeqOf(b) /\ p \in Int /\ b \in Int /\ -Half <= p - b
    BY SizesAre, HalfIs DEF Placed
  <2> QED BY <2>1, DiffIs
<1>3. n \in Nat /\ n = (p - b) - Window + 1 /\ Window \in Nat
  BY <1>2, SizesAre
<1> HIDE DEF n
<1>4. m \in 0..Window /\ (m = n \/ m = Window) /\ m <= n
  <2>1. {n, Window} \in SUBSET Nat /\ {n, Window} # {}
    BY <1>3
  <2>2. m \in {n, Window} /\ \A y \in {n, Window} : m <= y
    BY <2>1, LowestIs
  <2> HIDE DEF m
  <2> QED BY <1>3, <2>2
<1>5. Collected(w, b, m, sent)
  BY <1>4, SweptIs
<1> HIDE DEF m, sent
<1>6. Collected(w, b, n, sent)
  <2>1. \A i \in 1..Len(sent) : sent[i] \in b..b+n-1
    <3>1. \A i \in 1..Len(sent) : sent[i] \in b..b+m-1
      BY <1>5 DEF Collected
    <3>2. m \in Int /\ n \in Int /\ m <= n
      BY <1>3, <1>4
    <3>3. \A x : x \in b..b+m-1 => x \in b..b+n-1
      BY <3>2
    <3> QED BY <3>1, <3>3
  <2>2. ASSUME NEW i \in Ring, (i - w.base) % Window < n PROVE (i - w.base) % Window < m
    <3> DEFINE o == (i - w.base) % Window
    <3>1. o \in 0..Window-1 /\ o < n
      BY <2>2, OffsetIs
    <3> HIDE DEF o
    <3>2. o < m
      BY <1>3, <1>4, <3>1
    <3> QED BY <3>2 DEF o
  <2> QED BY <1>5, <2>1, <2>2 DEF Collected
<1>7. v \in Windows /\ Passed(w, v, n, sent)
  <2>1. /\ w.slots \in [Ring -> Content] /\ w.base \in Int /\ w.count \in Int
        /\ w.groups = groups /\ w.minEnd = minEnd
    BY SizesAre DEF Windows, Seqn
  <2>2. sent \in Seq(Packet) /\ w.out \o sent \in Seq(Packet) /\ Len(sent) \in Nat
    BY <1>5 DEF Collected
  <2>3. (w.base + n) % SeqMod \in Seqn
    <3>1. w.base + n \in Int
      BY <1>3, <2>1
    <3> QED BY <3>1, SizesAre, ModIs DEF Seqn
  <2>4. (w.count - Len(sent)) % SeqMod \in Seqn
    <3>1. w.count - Len(sent) \in Int
      BY <2>1, <2>2
    <3> QED BY <3>1, SizesAre, ModIs DEF Seqn
  <2>5. [i \in Ring |-> IF (i - w.base) % Window < n THEN NoPacket ELSE w.slots[i]] \in [Ring -> Content]
    BY <2>1 DEF Content
  <2>6. v \in Windows
    BY <2>2, <2>3, <2>4, <2>5 DEF Windows, Advanced
  <2>7. Passed(w, v, n, sent)
    BY DEF Passed, Advanced, Windows
  <2> QED BY <2>6, <2>7
<1> HIDE DEF v
<1>8. MovesOn(w, v, b, b + n)
  BY <1>3, <1>6, <1>7, PassedMoves
<1>9. b + n = p - Window + 1
  BY <1>3
<1> QED BY <1>1, <1>8, <1>9

\* What storing a packet changes.
LEMMA StoreIs ==
  ASSUME NEW w \in Windows, NEW p \in Packet
  PROVE  /\ Store(w, p) \in Windows
         /\ Store(w, p).base = w.base /\ Store(w, p).out = w.out
         /\ p % Window \in Ring /\ SlotOf(SeqOf(p)) = p % Window
         /\ Store(w, p).slots[p % Window] = p
         /\ \A i \in Ring : i # p % Window => Store(w, p).slots[i] = w.slots[i]
<1>1. p \in Int /\ SlotOf(SeqOf(p)) = p % Window /\ p % Window \in Ring
  BY PacketsAre, SlotIs
<1>2. w.slots \in [Ring -> Content] /\ w.count \in Int
  BY SizesAre DEF Windows, Seqn
<1>3. (w.count + 1) % SeqMod \in Seqn
  <2>1. w.count + 1 \in Int
    BY <1>2
  <2> QED BY <2>1, SizesAre, ModIs DEF Seqn
<1> DEFINE i == SlotOf(SeqOf(p))
<1>4. [w.slots EXCEPT ![i] = p] \in [Ring -> Content]
  BY <1>2 DEF Content
<1>5. Store(w, p) = [w EXCEPT !.slots = [w.slots EXCEPT ![i] = p],
                              !.count = (w.count + 1) % SeqMod]
  BY DEF Store
<1>6. Store(w, p).slots = [w.slots EXCEPT ![i] = p] /\ Store(w, p).base = w.base
      /\ Store(w, p).out = w.out
  BY <1>5 DEF Windows
<1>7. Store(w, p) \in Windows
  BY <1>3, <1>4, <1>5 DEF Windows
<1>8. i = p % Window /\ i \in Ring
  BY <1>1
<1> HIDE DEF i
<1> QED BY <1>1, <1>2, <1>6, <1>7, <1>8

\* A packet stored in its window leaves all in their slots.
LEMMA StorePlaced ==
  ASSUME NEW w \in Windows, NEW b \in Nat, Placed(w, b), NEW p \in Packet, p - b \in 0..Window-1
  PROVE  /\ Placed(Store(w, p), b)
         /\ w.slots[p % Window] = NoPacket \/ w.slots[p % Window] = p
<1>1. Placed(Store(w, p), b)
  BY StoreIs DEF Placed
<1>2. ASSUME w.slots[p % Window] # NoPacket PROVE w.slots[p % Window] = p
  <2> DEFINE q == w.slots[p % Window]
  <2>1. p % Window \in Ring
    BY StoreIs
  <2>2. q - b \in 0..Window-1 /\ q % Window = p % Window /\ q \in Content
    BY <1>2, <2>1 DEF Placed, Windows
  <2>3. q \in Int /\ p \in Int
    BY <1>2, <2>2, PacketsAre
  <2> HIDE DEF q
  <2>4. -Window < q - p /\ q - p < Window
    BY <2>2, <2>3, SizesAre
  <2>5. q = p
    BY <2>2, <2>3, <2>4, SizesAre, ModSame
  <2> QED BY <2>5 DEF q
<1> QED BY <1>1, <1>2

-----------------------------------------------------------------------------
(* rtp_reorder_insert                                                      *)

\* The network's disorder stays within half of the sequence space, and the
\* first packets within one window.
Near == StartSpan <= Window /\ Window + Skip < SeqMod \div 2 /\ Late < SeqMod \div 2

\* Every packet before it was handed on or given up.
Front == IF phase = 2 THEN Named(base) ELSE 0

\* v, in phase ph, with its base at position c is what the state may become
\* when g is the newest packet.
Right(v, ph, c, g) ==
  /\ v \in Windows /\ Placed(v, c) /\ ph \in {1, 2} /\ (phase = 2 => ph = 2)
  /\ c \in g - Window + 1 .. g + 1
  /\ \A i \in Ring : v.slots[i] # NoPacket => v.slots[i] <= g
  /\ ph = 1 => /\ v.out = <<>>
               /\ v.slots[c % Window] = c /\ v.slots[g % Window] = g
  /\ Front <= c /\ Ordered(v.out)
  /\ \A i \in 1..Len(v.out) : v.out[i] \in Front..c-1
  /\ \A i \in Ring : slots[i] # NoPacket /\ v.slots[i] # slots[i]
       => \E k \in 1..Len(v.out) : v.out[k] = slots[i]

\* The state a call without FEC starts from.
LEMMA HereIs ==
  ASSUME TypeOK, Shaped, ~fecPort
  PROVE  /\ Here \in Windows /\ Here.out = <<>> /\ Here.slots = slots
         /\ Here.base = base /\ Here.count = count /\ ~FecEnabled
         /\ phase = 0 => head = -1 /\ \A i \in Ring : slots[i] = NoPacket
         /\ phase # 0 => /\ Placed(Here, Named(base)) /\ Named(base) \in Nat
                         /\ Named(base) \in head - Window + 1 .. head + 1
                         /\ \A i \in Ring : slots[i] # NoPacket => slots[i] <= head
         /\ phase = 1 => /\ slots[Named(base) % Window] = Named(base)
                         /\ slots[head % Window] = head
         /\ \A i \in Ring : slots[i] # NoPacket => slots[i] \in Packet
         /\ phase \in 0..2 /\ head \in Int /\ head >= -1
         /\ Front \in Nat /\ (phase # 0 => Front <= Named(base))
<1>1. Here \in Windows
  <2>1. <<>> \in Seq(Packet)
    OBVIOUS
  <2> QED BY <2>1 DEF Here, Windows, TypeOK, Content
<1>2. /\ Here.out = <<>> /\ Here.slots = slots /\ Here.base = base /\ Here.count = count
      /\ ~FecEnabled
  BY DEF Here, Shaped, FecEnabled
<1>3. phase \in 0..2 /\ head \in Int /\ head >= -1
  BY DEF TypeOK
<1>4. phase = 0 => head = -1 /\ \A i \in Ring : slots[i] = NoPacket
  BY DEF Shaped
<1>5. phase # 0 => /\ Named(base) \in Nat /\ base = SeqOf(Named(base))
                   /\ Named(base) \in head - Window + 1 .. head + 1
  BY DEF Shaped
<1>6. phase # 0 => \A i \in Ring : slots[i] # NoPacket =>
        /\ slots[i] - Named(base) \in 0..Window-1
        /\ slots[i] <= head /\ slots[i] % Window = i
  BY DEF Shaped
<1>7. phase # 0 => Placed(Here, Named(base))
  BY <1>2, <1>5, <1>6 DEF Placed
<1>8. phase = 1 => /\ slots[Named(base) % Window] = Named(base)
                   /\ slots[head % Window] = head
  <2>1. phase = 1 => slots[SlotOf(base)] = Named(base) /\ slots[SlotOf(SeqOf(head))] = head
    BY DEF Shaped
  <2>2. SlotOf(SeqOf(head)) = head % Window
    BY <1>3, SlotIs
  <2>3. phase # 0 => SlotOf(base) = Named(base) % Window
    BY <1>5, SlotIs
  <2> QED BY <2>1, <2>2, <2>3
<1>9. \A i \in Ring : slots[i] # NoPacket => slots[i] \in Packet
  BY DEF TypeOK
<1>10. Front \in Nat /\ (phase # 0 => Front <= Named(base))
  BY <1>5 DEF Front
<1>11. phase # 0 => \A i \in Ring : slots[i] # NoPacket => slots[i] <= head
  BY <1>6
<1> QED BY <1>1, <1>2, <1>3, <1>4, <1>5, <1>7, <1>8, <1>9, <1>10, <1>11

\* Delivering from a window in which everything held before is still held.
LEMMA FlushRight ==
  ASSUME Front \in Nat, phase \in 0..2,
         NEW w \in Windows, NEW b \in Nat, Placed(w, b), w.out = <<>>, Front <= b,
         NEW g \in Int, b \in g - Window + 1 .. g + 1,
         \A i \in Ring : w.slots[i] # NoPacket => w.slots[i] <= g,
         \A i \in Ring : slots[i] # NoPacket => w.slots[i] = slots[i]
  PROVE  \E c \in Nat : Right(Flush(w, FALSE), 2, c, g)
<1> DEFINE v == Flush(w, FALSE)
<1>1. PICK n \in 0..Window : /\ MovesOn(w, v, b, b + n)
                             /\ \A k \in 0..n-1 : \E i \in Ring :
                                  w.slots[i] = b + k /\ w.slots[i] # NoPacket
  BY FlushIs
<1> HIDE DEF v
<1>2. n \in Nat /\ Window \in Nat
  BY SizesAre
<1>3. b + n <= g + 1
  <2>1. CASE n = 0
    BY <1>2, <2>1
  <2>2. CASE n # 0
    <3>1. n - 1 \in 0..n-1 /\ b + (n - 1) = b + n - 1
      BY <1>2, <2>2
    <3>2. PICK i \in Ring : w.slots[i] = b + (n - 1) /\ w.slots[i] # NoPacket
      BY <1>1, <3>1
    <3>3. b + (n - 1) <= g
      BY <3>2
    <3> QED BY <1>2, <3>1, <3>3
  <2> QED BY <2>1, <2>2
<1> DEFINE c == b + n
<1>4. /\ c \in Nat /\ c \in g - Window + 1 .. g + 1 /\ Front <= c
      /\ \A x : x \in b..c-1 => x \in Front..c-1
  BY <1>2, <1>3
<1>5. /\ v \in Windows /\ Placed(v, c) /\ Ordered(v.out)
      /\ \A i \in Ring : v.slots[i] = w.slots[i] \/ v.slots[i] = NoPacket
      /\ \A i \in 1..Len(v.out) : v.out[i] \in b..c-1
      /\ \A i \in Ring : w.slots[i] # v.slots[i] => \E k \in 1..Len(v.out) : v.out[k] = w.slots[i]
  BY <1>1 DEF MovesOn
<1> HIDE DEF c
<1>6. \A i \in Ring : v.slots[i] # NoPacket => v.slots[i] <= g
  BY <1>5
<1>7. \A i \in Ring : slots[i] # NoPacket /\ v.slots[i] # slots[i]
       => \E k \in 1..Len(v.out) : v.out[k] = slots[i]
  BY <1>5
<1>8. \A i \in 1..Len(v.out) : v.out[i] \in Front..c-1
  BY <1>4, <1>5
<1>9. Right(v, 2, c, g)
  BY <1>4, <1>5, <1>6, <1>7, <1>8 DEF Right
<1> QED BY <1>4, <1>9 DEF v

Newer(p) == IF p > head THEN p ELSE head

\* What an arriving packet is to the state.
LEMMA ArrivalIs ==
  ASSUME TypeOK, Shaped, ~fecPort, Near, NEW p \in Arrivals
  PROVE  /\ p \in Packet /\ p \in Nat /\ Newer(p) \in Int
         /\ head <= Newer(p) /\ p <= Newer(p) /\ (Newer(p) = p \/ Newer(p) = head)
         /\ phase # 0 => LET b == Named(base) IN
              /\ p - b < Half /\ -Half <= p - b
              /\ Diff(SeqOf(p), base) = p - b
         /\ phase = 1 => \A i \in Ring : slots[i] # NoPacket => p - slots[i] \in 1 - Window .. Window - 1
<1>1. p \in Packet /\ p \in Nat /\ head - Late <= p /\ p <= head + 1 + Skip /\ head \in Int
  BY PacketsAre DEF Arrivals, TypeOK
<1>2. /\ Late \in Nat /\ Skip \in Nat /\ StartSpan \in Nat /\ Window \in Nat /\ Half \in Nat
      /\ StartSpan <= Window /\ Window + Skip < Half /\ Late < Half
  BY HalfIs, SizesAre, WindowAssumption DEF Near, Half
<1>3. /\ Newer(p) \in Int /\ head <= Newer(p) /\ p <= Newer(p)
      /\ (Newer(p) = p \/ Newer(p) = head)
  BY <1>1 DEF Newer
<1>4. ASSUME phase # 0
      PROVE  /\ p - Named(base) < Half /\ -Half <= p - Named(base)
             /\ Diff(SeqOf(p), base) = p - Named(base)
  <2> DEFINE b == Named(base)
  <2>1. b \in Nat /\ b \in head - Window + 1 .. head + 1 /\ base = SeqOf(b)
    BY <1>4 DEF Shaped
  <2> HIDE DEF b
  <2>2. p - b < Half /\ -Half <= p - b /\ b \in Int /\ p \in Int
    BY <1>1, <1>2, <2>1
  <2>3. Diff(SeqOf(p), SeqOf(b)) = p - b
    BY <2>2, DiffIs
  <2> QED BY <2>1, <2>2, <2>3 DEF b
<1>5. ASSUME phase = 1, NEW i \in Ring, slots[i] # NoPacket
      PROVE  p - slots[i] \in 1 - Window .. Window - 1
  <2>1. p - slots[i] \in 1 - StartSpan .. StartSpan - 1
    BY <1>5 DEF Arrivals
  <2>2. slots[i] \in Nat
    BY <1>5, HereIs, PacketsAre
  <2> QED BY <1>1, <1>2, <2>1, <2>2
<1> QED BY <1>1, <1>3, <1>4, <1>5

\* A window with another base.
LEMMA Rebased ==
  ASSUME NEW w \in Windows, NEW b \in Int
  PROVE  /\ [w EXCEPT !.base = SeqOf(b)] \in Windows
         /\ [w EXCEPT !.base = SeqOf(b)].base = SeqOf(b)
         /\ [w EXCEPT !.base = SeqOf(b)].slots = w.slots
         /\ [w EXCEPT !.base = SeqOf(b)].out = w.out
<1>1. SeqOf(b) \in Seqn
  BY SeqOfIs
<1> QED BY <1>1 DEF Windows

\* Nothing is handed on and nothing lost: a window that only gained packets.
LEMMA GainedRight ==
  ASSUME Front \in Nat, phase \in 0..1, NEW v \in Windows, NEW b \in Nat, Placed(v, b),
         v.out = <<>>, Front <= b, NEW g \in Int, b \in g - Window + 1 .. g + 1,
         \A i \in Ring : v.slots[i] # NoPacket => v.slots[i] <= g,
         v.slots[b % Window] = b, v.slots[g % Window] = g,
         \A i \in Ring : slots[i] # NoPacket => v.slots[i] = slots[i]
  PROVE  Right(v, 1, b, g)
<1>1. Ordered(v.out) /\ \A i \in 1..Len(v.out) : v.out[i] \in Front..b-1
  BY DEF Ordered
<1>2. \A i \in Ring : slots[i] # NoPacket /\ v.slots[i] # slots[i]
       => \E k \in 1..Len(v.out) : v.out[k] = slots[i]
  OBVIOUS
<1>3. phase # 2
  OBVIOUS
<1> QED BY <1>1, <1>2, <1>3 DEF Right

\* The first packet of a stream.
LEMMA FirstRight ==
  ASSUME TypeOK, Shaped, ~fecPort, Near, NEW p \in Arrivals, phase = 0
  PROVE  Right([Store(Here, p) EXCEPT !.base = SeqOf(p)], 1, p, Newer(p))
<1> DEFINE w == Store(Here, p)
           v == [w EXCEPT !.base = SeqOf(p)]
<1>1. /\ p \in Packet /\ p \in Nat /\ Newer(p) = p
  BY ArrivalIs, HereIs DEF Newer
<1>2. /\ w \in Windows /\ w.out = <<>> /\ p % Window \in Ring
      /\ w.slots[p % Window] = p
      /\ \A i \in Ring : i # p % Window => w.slots[i] = NoPacket
  BY <1>1, HereIs, StoreIs
<1> HIDE DEF w
<1>3. v \in Windows /\ v.base = SeqOf(p) /\ v.slots = w.slots /\ v.out = <<>>
  BY <1>1, <1>2, Rebased
<1> HIDE DEF v
<1>4. \A i \in Ring : v.slots[i] # NoPacket => i = p % Window /\ v.slots[i] = p
  BY <1>2, <1>3
<1>5. Placed(v, p)
  <2>1. p - p \in 0..Window-1
    BY <1>1, SizesAre
  <2> QED BY <1>1, <1>3, <1>4, <2>1 DEF Placed
<1>6. p \in p - Window + 1 .. p + 1 /\ p \in Int /\ p <= p
  BY <1>1, SizesAre
<1>7. \A i \in Ring : slots[i] # NoPacket => v.slots[i] = slots[i]
  BY HereIs
<1>8. \A i \in Ring : v.slots[i] # NoPacket => v.slots[i] <= p
  BY <1>4, <1>6
<1>9. Front <= p /\ Front \in Nat /\ phase \in 0..1
  BY <1>1 DEF Front
<1>10. v.slots[p % Window] = p
  BY <1>2, <1>3
<1>11. Right(v, 1, p, p)
  BY <1>1, <1>3, <1>5, <1>6, <1>7, <1>8, <1>9, <1>10, GainedRight
<1> QED BY <1>1, <1>11 DEF v, w

\* What the collecting phase makes of an arrival.
Stored(p) ==
  IF slots[SlotOf(SeqOf(p))] # NoPacket THEN Here
  ELSE [Store(Here, p) EXCEPT !.base = IF Diff(SeqOf(p), base) < 0 THEN SeqOf(p) ELSE base]

Begun(v, c, g) ==
  /\ v \in Windows /\ Placed(v, c) /\ v.out = <<>> /\ c \in g - Window + 1 .. g + 1
  /\ \A i \in Ring : v.slots[i] # NoPacket => v.slots[i] <= g
  /\ v.slots[c % Window] = c /\ v.slots[g % Window] = g
  /\ \A i \in Ring : slots[i] # NoPacket => v.slots[i] = slots[i]

\* A packet stored beside those that are held.
LEMMA StoredIs ==
  ASSUME TypeOK, Shaped, ~fecPort, Near, NEW p \in Arrivals, phase = 1
  PROVE  \E c \in Nat : Begun(Stored(p), c, Newer(p))
<1> DEFINE b == Named(base)
           g == Newer(p)
           k == p % Window
<1>1. /\ p \in Packet /\ p \in Nat /\ g \in Int /\ head <= g /\ p <= g /\ (g = p \/ g = head)
      /\ Diff(SeqOf(p), base) = p - b
      /\ \A i \in Ring : slots[i] # NoPacket => p - slots[i] \in 1 - Window .. Window - 1
  BY ArrivalIs
<1>2. /\ Here \in Windows /\ Placed(Here, b) /\ b \in Nat /\ Here.slots = slots
      /\ Here.base = base /\ Here.out = <<>>
      /\ b \in head - Window + 1 .. head + 1 /\ head \in Int
      /\ \A i \in Ring : slots[i] # NoPacket => slots[i] \in Packet /\ slots[i] <= head
      /\ slots[b % Window] = b /\ slots[head % Window] = head
  BY HereIs
<1>3. k \in Ring /\ SlotOf(SeqOf(p)) = k /\ Window \in Nat /\ Window > 0
  BY <1>1, SlotIs, SizesAre
<1>4. b % Window \in Ring /\ head % Window \in Ring
  BY <1>2, SlotIs
<1> HIDE DEF b, g
<1>0. base = SeqOf(b)
  BY <1>2 DEF Placed
<1>5. CASE slots[k] # NoPacket
  <2> DEFINE q == slots[k]
  <2>1. q \in Packet /\ p - q \in 1 - Window .. Window - 1 /\ q <= head
    BY <1>1, <1>2, <1>3, <1>5
  <2>6. Here.slots[k] % Window = k
    BY <1>2, <1>3, <1>5 DEF Placed
  <2>2. q \in Int /\ q % Window = k
    BY <1>2, <2>1, <2>6, PacketsAre
  <2> HIDE DEF q
  <2>3. -Window < p - q /\ p - q < Window /\ p \in Int
    BY <1>1, <1>3, <2>1, <2>2
  <2>4. p = q
    BY <2>2, <2>3, SizesAre, ModSame
  <2>5. g = head
    BY <1>1, <1>2, <2>1, <2>4
  <2>7. Stored(p) = Here
    BY <1>3, <1>5 DEF Stored
  <2>8. Begun(Here, b, head)
    BY <1>2 DEF Begun
  <2>9. Begun(Stored(p), b, g)
    BY <2>5, <2>7, <2>8
  <2> QED BY <1>2, <2>9 DEF g
<1>6. CASE slots[k] = NoPacket
  <2> DEFINE c == IF p - b < 0 THEN p ELSE b
             w == Store(Here, p)
             v == [w EXCEPT !.base = SeqOf(c)]
  <2>1. c \in Nat /\ c \in Int /\ (c = p \/ c = b) /\ c <= p /\ c <= b
    BY <1>1, <1>2
  <2>2. Stored(p) = v
    BY <1>0, <1>1, <1>3, <1>6 DEF Stored
  <2>3. /\ w \in Windows /\ w.out = <<>> /\ w.slots[k] = p
        /\ \A i \in Ring : i # k => w.slots[i] = slots[i]
    BY <1>1, <1>2, StoreIs
  <2> HIDE DEF w
  <2>4. v \in Windows /\ v.base = SeqOf(c) /\ v.slots = w.slots /\ v.out = <<>>
    BY <2>1, <2>3, Rebased
  <2> HIDE DEF v, k
  <2>5. \A i \in Ring : v.slots[i] # NoPacket
          => (i = k /\ v.slots[i] = p) \/ (i # k /\ v.slots[i] = slots[i] /\ slots[i] # NoPacket)
    BY <2>3, <2>4
  <2>6. /\ b \in Packet /\ head \in Packet /\ b <= head /\ slots[b % Window] # NoPacket
        /\ slots[head % Window] # NoPacket
    <3>1. b # NoPacket /\ head # NoPacket
      BY <1>2, PacketsAre
    <3>2. slots[b % Window] \in Packet /\ slots[b % Window] <= head
      BY <1>2, <1>4, <3>1
    <3>3. slots[head % Window] \in Packet
      BY <1>2, <1>4, <3>1
    <3> QED BY <1>2, <3>1, <3>2, <3>3
  <2>7. p - b \in 1-Window..Window-1 /\ p - head \in 1-Window..Window-1
    BY <1>1, <1>2, <1>4, <2>6
  <2>8. c \in g - Window + 1 .. g + 1 /\ c <= g
    BY <1>1, <1>2, <1>3, <2>1, <2>6, <2>7
  <2>9. p - c \in 0..Window-1
    BY <1>1, <1>2, <1>3, <2>1, <2>7
  <2>10. ASSUME NEW i \in Ring, v.slots[i] # NoPacket
         PROVE  v.slots[i] - c \in 0..Window-1 /\ v.slots[i] <= g /\ v.slots[i] % Window = i
    <3>1. CASE i = k
      BY <1>1, <1>3, <2>5, <2>9, <2>10, <3>1 DEF k
    <3>2. CASE i # k
      <4>1. v.slots[i] = slots[i] /\ slots[i] # NoPacket
        BY <2>5, <2>10, <3>2
      <4> DEFINE q == slots[i]
      <4>2. q \in Packet /\ q <= head /\ p - q \in 1-Window..Window-1
        BY <1>1, <1>2, <4>1
      <4>3. q - b \in 0..Window-1 /\ q % Window = i
        <5>1. Here.slots[i] # NoPacket
          BY <1>2, <4>1
        <5>2. Here.slots[i] - b \in 0..Window-1 /\ Here.slots[i] % Window = i
          BY <5>1, <1>2 DEF Placed
        <5> QED BY <1>2, <5>2
      <4>5. v.slots[i] = q
        BY <4>1
      <4> HIDE DEF q
      <4>4. q \in Nat /\ q \in Int
        BY <4>2, PacketsAre
      <4>6. q - c \in 0..Window-1 /\ q <= g
        BY <1>1, <1>2, <1>3, <2>1, <4>2, <4>3, <4>4
      <4> QED BY <4>3, <4>5, <4>6
    <3> QED BY <3>1, <3>2
  <2>11. Placed(v, c) /\ \A i \in Ring : v.slots[i] # NoPacket => v.slots[i] <= g
    BY <2>1, <2>4, <2>10 DEF Placed
  <2>12. \A i \in Ring : slots[i] # NoPacket => v.slots[i] = slots[i]
    BY <1>6, <2>3, <2>4
  <2>13. v.slots[c % Window] = c
    <3>1. CASE c = p
      BY <2>3, <2>4, <3>1 DEF k
    <3>2. CASE c = b
      BY <1>2, <1>4, <2>6, <2>12, <3>2
    <3> QED BY <2>1, <3>1, <3>2
  <2>14. v.slots[g % Window] = g
    <3>1. CASE g = p
      BY <2>3, <2>4, <3>1 DEF k
    <3>2. CASE g = head
      BY <1>2, <1>4, <2>6, <2>12, <3>2
    <3> QED BY <1>1, <3>1, <3>2
  <2>15. Begun(v, c, g)
    BY <2>4, <2>8, <2>11, <2>12, <2>13, <2>14 DEF Begun
  <2>16. Begun(Stored(p), c, g)
    BY <2>2, <2>15
  <2> HIDE DEF c
  <2> QED BY <2>1, <2>16 DEF g
<1> QED BY <1>3, <1>5, <1>6

\* A packet while the first are collected.
LEMMA CollectingRight ==
  ASSUME TypeOK, Shaped, ~fecPort, Near, NEW p \in Arrivals, phase = 1
  PROVE  \E c \in Nat : /\ Right(Stored(p), 1, c, Newer(p))
                        /\ \E d \in Nat : Right(Flush(Stored(p), FALSE), 2, d, Newer(p))
<1>1. PICK c \in Nat : Begun(Stored(p), c, Newer(p))
  BY StoredIs
<1> DEFINE v == Stored(p)
           g == Newer(p)
<1>2. g \in Int
  BY ArrivalIs
<1>3. Front \in Nat /\ Front = 0 /\ phase \in 0..1 /\ phase \in 0..2
  BY DEF Front
<1> HIDE DEF v, g
<1>4. /\ v \in Windows /\ Placed(v, c) /\ v.out = <<>> /\ c \in g - Window + 1 .. g + 1
      /\ \A i \in Ring : v.slots[i] # NoPacket => v.slots[i] <= g
      /\ v.slots[c % Window] = c /\ v.slots[g % Window] = g
      /\ \A i \in Ring : slots[i] # NoPacket => v.slots[i] = slots[i]
  BY <1>1 DEF Begun, v, g
<1>5. Front <= c
  BY <1>3
<1>6. Right(v, 1, c, g)
  BY <1>2, <1>3, <1>4, <1>5, GainedRight
<1>7. \E d \in Nat : Right(Flush(v, FALSE), 2, d, g)
  BY <1>2, <1>3, <1>4, <1>5, FlushRight
<1> QED BY <1>6, <1>7 DEF v, g

\* The packet expected next.
LEMMA ExpectedRight ==
  ASSUME TypeOK, Shaped, ~fecPort, Near, NEW p \in Arrivals, phase = 2, Diff(SeqOf(p), base) = 0
  PROVE  /\ slots[SlotOf(base)] = NoPacket =>
              \E c \in Nat : Right([Here EXCEPT !.base = (base + 1) % SeqMod, !.out = <<p>>],
                                   2, c, Newer(p))
         /\ \E c \in Nat : Right(Flush(Store(Here, p), FALSE), 2, c, Newer(p))
<1> DEFINE b == Named(base)
           g == Newer(p)
<1>1. /\ p \in Packet /\ p \in Nat /\ g \in Int /\ head <= g /\ p <= g /\ (g = p \/ g = head)
      /\ Diff(SeqOf(p), base) = p - b
  BY ArrivalIs
<1>2. /\ Here \in Windows /\ Placed(Here, b) /\ b \in Nat /\ Here.slots = slots
      /\ Here.base = base /\ Here.out = <<>>
      /\ b \in head - Window + 1 .. head + 1 /\ head \in Int
      /\ \A i \in Ring : slots[i] # NoPacket => slots[i] \in Packet /\ slots[i] <= head
      /\ phase \in 0..2
  BY HereIs
<1>3. Front = b /\ Front \in Nat
  BY <1>2 DEF Front
<1>4. Window \in Nat /\ Window > 0
  BY SizesAre
<1> HIDE DEF b, g
<1>0. base = SeqOf(b)
  BY <1>2 DEF Placed
<1>5. p = b /\ b \in Int /\ p - b \in 0..Window-1
  BY <1>1, <1>2, <1>4
<1>6. ASSUME slots[SlotOf(base)] = NoPacket
      PROVE  \E c \in Nat : Right([Here EXCEPT !.base = (base + 1) % SeqMod, !.out = <<p>>], 2, c, g)
  <2> DEFINE v == [Here EXCEPT !.base = (base + 1) % SeqMod, !.out = <<p>>]
  <2>1. (base + 1) % SeqMod = SeqOf(b + 1)
    <3>1. 1 \in Int
      OBVIOUS
    <3>2. ((b % SeqMod) + 1) % SeqMod = (b + 1) % SeqMod
      BY <1>5, <3>1, SizesAre, ModPlus
    <3> QED BY <1>0, <3>2 DEF SeqOf
  <2>2. SeqOf(b + 1) \in Seqn /\ <<p>> \in Seq(Packet) /\ Len(<<p>>) = 1 /\ <<p>>[1] = p
    <3>1. b + 1 \in Int
      BY <1>5
    <3> QED BY <1>1, <3>1, SeqOfIs
  <2>3. v \in Windows /\ v.base = SeqOf(b + 1) /\ v.slots = slots /\ v.out = <<p>>
    BY <1>2, <2>1, <2>2 DEF Windows
  <2> HIDE DEF v
  <2>4. SlotOf(base) = b % Window
    BY <1>0, <1>5, SlotIs
  <2>5. ASSUME NEW i \in Ring, slots[i] # NoPacket
        PROVE  slots[i] - (b + 1) \in 0..Window-1 /\ slots[i] % Window = i
    <3>1. slots[i] - b \in 0..Window-1 /\ slots[i] % Window = i
      BY <1>2, <2>5 DEF Placed
    <3>2. slots[i] # b
      BY <1>6, <2>4, <2>5, <3>1
    <3>3. slots[i] \in Nat
      BY <1>2, <2>5, PacketsAre
    <3> QED BY <1>4, <1>5, <3>1, <3>2, <3>3
  <2>6. Placed(v, b + 1)
    BY <1>2, <2>3, <2>5 DEF Placed
  <2>7. b + 1 \in g - Window + 1 .. g + 1 /\ Front <= b + 1 /\ b + 1 \in Nat
    BY <1>1, <1>2, <1>3, <1>4, <1>5
  <2>8. \A i \in Ring : v.slots[i] # NoPacket => v.slots[i] <= g
    <3> SUFFICES ASSUME NEW i \in Ring, v.slots[i] # NoPacket PROVE v.slots[i] <= g
      OBVIOUS
    <3>1. slots[i] \in Nat /\ slots[i] <= head
      BY <1>2, <2>3, PacketsAre
    <3> QED BY <1>1, <1>2, <2>3, <3>1
  <2>9. Ordered(v.out) /\ \A i \in 1..Len(v.out) : v.out[i] \in Front..(b + 1) - 1
    <3>1. \A i \in 1..Len(v.out) : i = 1 /\ v.out[i] = p
      BY <2>2, <2>3
    <3>2. p \in Front..(b + 1) - 1
      BY <1>1, <1>3, <1>5
    <3> QED BY <3>1, <3>2 DEF Ordered
  <2>10. \A i \in Ring : slots[i] # NoPacket /\ v.slots[i] # slots[i]
           => \E k \in 1..Len(v.out) : v.out[k] = slots[i]
    BY <2>3
  <2>11. Right(v, 2, b + 1, g)
    BY <2>3, <2>6, <2>7, <2>8, <2>9, <2>10 DEF Right
  <2> QED BY <2>7, <2>11 DEF v
<1>7. \E c \in Nat : Right(Flush(Store(Here, p), FALSE), 2, c, g)
  <2> DEFINE w == Store(Here, p)
             k == p % Window
  <2>1. /\ w \in Windows /\ w.out = <<>> /\ k \in Ring /\ w.slots[k] = p
        /\ \A i \in Ring : i # k => w.slots[i] = slots[i]
    BY <1>1, <1>2, StoreIs
  <2>2. Placed(w, b) /\ (slots[k] = NoPacket \/ slots[k] = p)
    BY <1>1, <1>2, <1>5, StorePlaced
  <2> HIDE DEF w, k
  <2>3. \A i \in Ring : slots[i] # NoPacket => w.slots[i] = slots[i]
    BY <2>1, <2>2
  <2>4. \A i \in Ring : w.slots[i] # NoPacket => w.slots[i] <= g
    <3> SUFFICES ASSUME NEW i \in Ring, w.slots[i] # NoPacket PROVE w.slots[i] <= g
      OBVIOUS
    <3>1. CASE i = k
      BY <1>1, <2>1, <3>1
    <3>2. CASE i # k
      <4>1. w.slots[i] = slots[i] /\ slots[i] \in Nat /\ slots[i] <= head
        BY <1>2, <2>1, <3>2, PacketsAre
      <4> QED BY <1>1, <1>2, <4>1
    <3> QED BY <3>1, <3>2
  <2>5. b \in g - Window + 1 .. g + 1 /\ Front <= b
    BY <1>1, <1>2, <1>3, <1>4, <1>5
  <2>6. \E c \in Nat : Right(Flush(w, FALSE), 2, c, g)
    BY <1>1, <1>2, <1>3, <2>1, <2>2, <2>3, <2>4, <2>5, FlushRight
  <2> QED BY <2>6 DEF w
<1> QED BY <1>6, <1>7 DEF g

\* A packet behind the base.
LEMMA LateRight ==
  ASSUME TypeOK, Shaped, ~fecPort, Near, NEW p \in Arrivals, phase = 2, Diff(SeqOf(p), base) < 0
  PROVE  \E c \in Nat : Right(Here, 2, c, Newer(p))
<1> DEFINE b == Named(base)
           g == Newer(p)
<1>1. /\ p \in Nat /\ g \in Int /\ head <= g /\ p <= g /\ (g = p \/ g = head)
      /\ Diff(SeqOf(p), base) = p - b
  BY ArrivalIs
<1>2. /\ Here \in Windows /\ Placed(Here, b) /\ b \in Nat /\ Here.slots = slots
      /\ Here.out = <<>>
      /\ b \in head - Window + 1 .. head + 1 /\ head \in Int
      /\ \A i \in Ring : slots[i] # NoPacket => slots[i] <= head
  BY HereIs
<1>3. Front = b
  BY DEF Front
<1> HIDE DEF b, g
<1>4. g = head
  BY <1>1, <1>2
<1>5. Ordered(Here.out) /\ \A i \in 1..Len(Here.out) : Here.out[i] \in Front..b-1
  BY <1>2 DEF Ordered
<1>6. Front <= b
  BY <1>2, <1>3
<1>7. Right(Here, 2, b, g)
  BY <1>2, <1>4, <1>5, <1>6 DEF Right
<1> QED BY <1>2, <1>7 DEF g

\* The window once it was made to reach an arrival ahead of the base.
Reaching(p) == IF Diff(SeqOf(p), base) >= Window THEN ForceFlush(Here, SeqOf(p)) ELSE Here

\* How far a forced flush reaches.
LEMMA ReachingIs ==
  ASSUME TypeOK, Shaped, ~fecPort, Near, NEW p \in Arrivals, phase = 2, Diff(SeqOf(p), base) > 0
  PROVE  \E c \in Nat : /\ MovesOn(Here, Reaching(p), Named(base), c)
                        /\ p - c \in 0..Window-1 /\ c \in Newer(p) - Window + 1 .. Newer(p) + 1
<1> DEFINE b == Named(base)
           g == Newer(p)
<1>1. /\ p \in Nat /\ g \in Int /\ head <= g /\ p <= g /\ (g = p \/ g = head)
      /\ Diff(SeqOf(p), base) = p - b /\ p - b < Half
  BY ArrivalIs
<1>2. /\ Here \in Windows /\ Placed(Here, b) /\ b \in Nat /\ Here.out = <<>>
      /\ b \in head - Window + 1 .. head + 1 /\ head \in Int
  BY HereIs
<1>3. Window \in Nat /\ Window > 0
  BY SizesAre
<1> HIDE DEF b, g
<1>4. CASE p - b >= Window
  <2>1. Reaching(p) = ForceFlush(Here, SeqOf(p))
    BY <1>1, <1>4 DEF Reaching
  <2>2. Window <= p - b
    BY <1>1, <1>2, <1>3, <1>4
  <2>3. MovesOn(Here, Reaching(p), b, p - Window + 1)
    BY <1>1, <1>2, <2>1, <2>2, ForceFlushIs
  <2> DEFINE c == p - Window + 1
  <2>4. c \in Nat /\ p - c \in 0..Window-1 /\ c \in g - Window + 1 .. g + 1
    BY <1>1, <1>2, <1>3, <2>2
  <2>5. MovesOn(Here, Reaching(p), b, c)
    BY <2>3
  <2> HIDE DEF c
  <2> QED BY <2>4, <2>5 DEF b, g
<1>5. CASE ~(p - b >= Window)
  <2>1. Reaching(p) = Here
    BY <1>1, <1>5 DEF Reaching
  <2>2. MovesOn(Here, Here, b, b)
    BY <1>2 DEF MovesOn, Ordered
  <2>3. p - b \in 0..Window-1 /\ b \in g - Window + 1 .. g + 1
    BY <1>1, <1>2, <1>3, <1>5
  <2> QED BY <1>2, <2>1, <2>2, <2>3 DEF b, g
<1> QED BY <1>4, <1>5

\* A packet ahead of the base.
LEMMA AheadRight ==
  ASSUME TypeOK, Shaped, ~fecPort, Near, NEW p \in Arrivals, phase = 2, Diff(SeqOf(p), base) > 0
  PROVE  \E c \in Nat : Right(IF Holds(Reaching(p), SeqOf(p)) THEN Reaching(p)
                              ELSE Store(Reaching(p), p), 2, c, Newer(p))
<1> DEFINE b == Named(base)
           g == Newer(p)
           w == Reaching(p)
           k == p % Window
<1>1. /\ p \in Packet /\ p \in Nat /\ g \in Int /\ head <= g /\ p <= g
  BY ArrivalIs
<1>2. /\ Here.slots = slots /\ b \in Nat /\ Here.out = <<>> /\ head \in Int
      /\ \A i \in Ring : slots[i] # NoPacket => slots[i] \in Packet /\ slots[i] <= head
  BY HereIs
<1>3. PICK c \in Nat : /\ MovesOn(Here, w, b, c)
                       /\ p - c \in 0..Window-1 /\ c \in g - Window + 1 .. g + 1
  BY ReachingIs
<1>4. Front = b
  BY DEF Front
<1> HIDE DEF b, g, w
<1>5. /\ w \in Windows /\ Placed(w, c) /\ b <= c /\ Ordered(w.out)
      /\ \A i \in Ring : w.slots[i] = slots[i] \/ w.slots[i] = NoPacket
      /\ \A i \in 1..Len(w.out) : w.out[i] \in b..c-1
      /\ \A i \in Ring : slots[i] # w.slots[i] => \E j \in 1..Len(w.out) : w.out[j] = slots[i]
  BY <1>2, <1>3 DEF MovesOn
<1>6. k \in Ring /\ SlotOf(SeqOf(p)) = k
  BY <1>1, SlotIs
<1>7. w.slots[k] = NoPacket \/ w.slots[k] = p
  BY <1>1, <1>3, <1>5, StorePlaced
<1>8. ASSUME NEW i \in Ring, w.slots[i] # NoPacket PROVE w.slots[i] <= g
  <2>1. w.slots[i] = slots[i] /\ slots[i] # NoPacket
    BY <1>5, <1>8
  <2>2. slots[i] \in Nat /\ slots[i] <= head
    BY <1>2, <2>1, PacketsAre
  <2> QED BY <1>1, <1>2, <2>1, <2>2
<1>9. CASE Holds(w, SeqOf(p))
  <2>1. Right(w, 2, c, g)
    BY <1>3, <1>4, <1>5, <1>8 DEF Right
  <2> QED BY <1>9, <2>1 DEF w, g
<1>10. CASE ~Holds(w, SeqOf(p))
  <2> DEFINE v == Store(w, p)
  <2>1. w.slots[k] = NoPacket
    <3>1. w.slots[k] = p /\ p # NoPacket => Holds(w, SeqOf(p))
      BY <1>6 DEF Holds
    <3>2. p # NoPacket
      BY <1>1, PacketsAre
    <3> QED BY <1>7, <1>10, <3>1, <3>2
  <2>2. /\ v \in Windows /\ v.out = w.out /\ v.slots[k] = p
        /\ \A i \in Ring : i # k => v.slots[i] = w.slots[i]
    BY <1>1, <1>5, StoreIs
  <2>3. Placed(v, c)
    BY <1>1, <1>3, <1>5, StorePlaced
  <2> HIDE DEF v, k
  <2>4. \A i \in Ring : v.slots[i] # NoPacket => v.slots[i] <= g
    BY <1>1, <1>8, <2>2
  <2>5. \A i \in Ring : slots[i] # NoPacket /\ v.slots[i] # slots[i]
          => \E j \in 1..Len(v.out) : v.out[j] = slots[i]
    BY <1>5, <2>1, <2>2
  <2>6. Right(v, 2, c, g)
    BY <1>3, <1>4, <1>5, <2>2, <2>3, <2>4, <2>5 DEF Right
  <2> QED BY <1>10, <2>6 DEF v, w, g
<1> QED BY <1>9, <1>10

-----------------------------------------------------------------------------
(* The steps                                                               *)

\* The effect of one packet on a window without FEC.
LEMMA InsertIs ==
  ASSUME TypeOK, Shaped, ~fecPort, Near, NEW p \in Arrivals, Insert(p, FALSE)
  PROVE  \E v, c : c \in Nat /\ Become(v) /\ Right(v, phase', c, Newer(p))
<1>1. CASE InsertFirst(p)
  <2>1. phase = 0 /\ phase' = 1 /\ Become([Store(Here, p) EXCEPT !.base = SeqOf(p)])
    BY <1>1 DEF InsertFirst
  <2>2. p \in Nat
    BY ArrivalIs
  <2> QED BY <2>1, <2>2, FirstRight
<1>2. CASE InsertCollecting(p, FALSE)
  <2>1. /\ phase = 1
        /\ IF Stored(p).count >= InitCollect
           THEN phase' = 2 /\ Become(Flush(Stored(p), FALSE))
           ELSE phase' = 1 /\ Become(Stored(p))
    BY <1>2 DEF InsertCollecting, Stored
  <2>2. PICK c \in Nat : /\ Right(Stored(p), 1, c, Newer(p))
                         /\ \E d \in Nat : Right(Flush(Stored(p), FALSE), 2, d, Newer(p))
    BY <2>1, CollectingRight
  <2>3. CASE Stored(p).count >= InitCollect
    BY <2>1, <2>2, <2>3
  <2>4. CASE ~(Stored(p).count >= InitCollect)
    BY <2>1, <2>2, <2>4
  <2> QED BY <2>3, <2>4
<1>3. CASE InsertExpected(p, FALSE)
  <2>1. /\ phase = 2 /\ phase' = 2 /\ Diff(SeqOf(p), base) = 0
        /\ \/ /\ slots[SlotOf(base)] = NoPacket
              /\ Become([Here EXCEPT !.base = (base + 1) % SeqMod, !.out = <<p>>])
           \/ Become(Flush(Store(Here, p), FALSE))
    BY <1>3 DEF InsertExpected
  <2>2. \E c \in Nat : Right(Flush(Store(Here, p), FALSE), 2, c, Newer(p))
    BY <2>1, ExpectedRight
  <2>3. CASE Become(Flush(Store(Here, p), FALSE))
    BY <2>1, <2>2, <2>3
  <2>4. CASE /\ slots[SlotOf(base)] = NoPacket
             /\ Become([Here EXCEPT !.base = (base + 1) % SeqMod, !.out = <<p>>])
    <3>1. \E c \in Nat : Right([Here EXCEPT !.base = (base + 1) % SeqMod, !.out = <<p>>],
                               2, c, Newer(p))
      BY <2>1, <2>4, ExpectedRight
    <3> QED BY <2>1, <2>4, <3>1
  <2> QED BY <2>1, <2>3, <2>4
<1>4. CASE InsertLate(p)
  <2>1. phase = 2 /\ phase' = 2 /\ Diff(SeqOf(p), base) < 0 /\ Become(Here)
    BY <1>4 DEF InsertLate
  <2> QED BY <2>1, LateRight
<1>5. CASE InsertAhead(p, FALSE)
  <2>1. /\ phase = 2 /\ phase' = 2 /\ Diff(SeqOf(p), base) > 0
        /\ Become(IF Holds(Reaching(p), SeqOf(p)) THEN Reaching(p) ELSE Store(Reaching(p), p))
    BY <1>5 DEF InsertAhead, Recover, Reaching
  <2> QED BY <2>1, AheadRight
<1> QED BY <1>1, <1>2, <1>3, <1>4, <1>5 DEF Insert

IInv == Inv /\ ~fecPort

\* What a step without FEC comes to: v is the window after it.
Stepped(v, c) ==
  /\ c \in Nat /\ Become(v) /\ Right(v, phase', c, head')
  /\ head' \in -1..LastPacket /\ fecActive' = fecActive /\ fecPort' = fecPort

\* A step is an insertion into a window that it leaves right.
LEMMA NextIs ==
  ASSUME IInv, Near, Next
  PROVE  \E v, c : Stepped(v, c)
<1>1. TypeOK /\ Shaped /\ ~fecPort /\ fecPort = FALSE
  BY WindowAssumption DEF IInv, Inv, TypeOK
<1>2. Media(FALSE) /\ fecPort' = fecPort
  BY <1>1 DEF Next, Fec
<1>3. PICK p \in Arrivals : Insert(p, FALSE) /\ head' = Newer(p)
  BY <1>2 DEF Media, Newer
<1>4. PICK v, c : c \in Nat /\ Become(v) /\ Right(v, phase', c, Newer(p))
  BY <1>1, <1>3, InsertIs
<1>5. fecActive' = fecActive
  BY <1>3 DEF Insert
<1>6. Newer(p) \in -1..LastPacket
  BY <1>1 DEF Newer, TypeOK, Arrivals, Packet
<1> QED BY <1>2, <1>3, <1>4, <1>5, <1>6 DEF Stepped

\* The variables after it.
LEMMA AfterIs ==
  ASSUME IInv, Near, NEW v, NEW c, Stepped(v, c)
  PROVE  /\ slots' = v.slots /\ base' = SeqOf(c) /\ out' = v.out /\ v \in Windows
         /\ Named(base)' = c /\ c \in head' - Window + 1 .. head' + 1
         /\ TypeOK' /\ phase' \in {1, 2} /\ head' \in Int /\ ~fecPort'
<1>1. /\ v \in Windows /\ Placed(v, c) /\ phase' \in {1, 2}
      /\ c \in head' - Window + 1 .. head' + 1 /\ c \in Nat
      /\ head' \in -1..LastPacket
  BY DEF Stepped, Right
<1>2. /\ slots' = v.slots /\ base' = v.base /\ count' = v.count
      /\ groups' = v.groups /\ minEnd' = v.minEnd /\ out' = v.out
  BY DEF Stepped, Become
<1>3. /\ v.slots \in [Ring -> Content] /\ v.base \in Seqn /\ v.count \in Seqn
      /\ v.groups = groups /\ v.minEnd = minEnd /\ v.out \in Seq(Packet)
  BY <1>1 DEF Windows
<1>4. base' = SeqOf(c)
  BY <1>1, <1>2 DEF Placed
<1>5. head' \in Int
  BY <1>1
<1>6. Named(base)' = c
  <2>1. Named(base)' = Nearest(head', base')
    BY DEF Named, Nearest
  <2>4. Half \in Nat /\ Window \in Nat /\ Window > 0 /\ Window <= Half
    BY HalfIs, SizesAre
  <2> DEFINE h == head'
  <2>5. h \in Int /\ c \in h - Window + 1 .. h + 1 /\ c \in Nat
    BY <1>1, <1>5
  <2> HIDE DEF h
  <2>7. c \in (h - Half + 1)..(h + Half)
    BY <2>4, <2>5
  <2>2. c \in (head' - Half + 1)..(head' + Half)
    BY <2>7 DEF h
  <2>3. Nearest(head', SeqOf(c)) = c
    BY <1>5, <2>2, NearestIs
  <2> QED BY <1>4, <2>1, <2>3
<1>7. TypeOK'
  <2>1. TypeOK /\ fecActive' = fecActive /\ fecPort' = fecPort
    BY DEF IInv, Inv, Stepped
  <2>2. phase' \in 0..2
    BY <1>1
  <2> QED BY <1>1, <1>2, <1>3, <2>1, <2>2 DEF TypeOK, Content
<1>8. ~fecPort'
  BY DEF IInv, Stepped
<1> QED BY <1>1, <1>2, <1>4, <1>5, <1>6, <1>7, <1>8

\* Every step keeps the invariant.
LEMMA InvNext ==
  ASSUME IInv, Near, Next
  PROVE  IInv'
<1>1. PICK v, c : Stepped(v, c)
  BY NextIs
<1>2. /\ slots' = v.slots /\ base' = SeqOf(c) /\ v \in Windows
      /\ Named(base)' = c /\ c \in head' - Window + 1 .. head' + 1
      /\ TypeOK' /\ phase' \in {1, 2} /\ head' \in Int /\ ~fecPort'
  BY <1>1, AfterIs
<1>3. c \in Nat /\ Right(v, phase', c, head')
  BY <1>1 DEF Stepped
<1>4. ASSUME NEW i \in Ring, slots'[i] # NoPacket
      PROVE  /\ slots'[i] - c \in 0..Window-1 /\ slots'[i] % Window = i
             /\ slots'[i] <= head' /\ SlotOf(SeqOf(slots'[i])) = i
  <2>0. v.slots[i] # NoPacket /\ slots'[i] = v.slots[i]
    BY <1>2, <1>4
  <2>1. /\ v.slots[i] - c \in 0..Window-1 /\ v.slots[i] % Window = i
        /\ v.slots[i] <= head'
    BY <1>3, <2>0 DEF Right, Placed
  <2>2. v.slots[i] \in Packet
    BY <1>2, <2>0 DEF Windows, Content
  <2>3. v.slots[i] \in Int
    BY <2>2 DEF Packet
  <2>4. SlotOf(SeqOf(v.slots[i])) = i
    BY <2>1, <2>3, SlotIs
  <2> QED BY <2>0, <2>1, <2>4
<1>5. WithinWindow'
  BY <1>2, <1>4 DEF WithinWindow
<1>6. groups' = groups /\ minEnd' = minEnd /\ fecActive' = fecActive
  BY <1>1, <1>2 DEF Stepped, Become, Windows
<1>7. ~fecActive' /\ minEnd' = NoGroup /\ Active(groups') = {}
  BY <1>6 DEF IInv, Inv, Shaped
<1>8. MinEndExact'
  BY <1>7 DEF MinEndExact
<1>9. phase' = 1 => /\ slots'[SlotOf(base')] = c
                    /\ slots'[SlotOf(SeqOf(head'))] = head'
  <2>1. SlotOf(base') = c % Window /\ SlotOf(SeqOf(head')) = head' % Window
    BY <1>2, <1>3, SlotIs
  <2>2. phase' = 1 => v.slots[c % Window] = c /\ v.slots[head' % Window] = head'
    BY <1>3 DEF Right
  <2> QED BY <1>2, <2>1, <2>2
<1>10. Shaped'
  <2>1. phase' # 0
    BY <1>2
  <2>2. base' = SeqOf(Named(base)') /\ Named(base)' \in Nat
    BY <1>2, <1>3
  <2>3. Named(base)' \in head' - Window + 1 .. head' + 1
    BY <1>2
  <2>4. \A i \in Ring : slots'[i] # NoPacket =>
          /\ slots'[i] - Named(base)' \in 0..Window - 1
          /\ slots'[i] <= head' /\ slots'[i] % Window = i
    BY <1>2, <1>4
  <2>5. phase' = 1 => /\ slots'[SlotOf(base')] = Named(base)'
                      /\ slots'[SlotOf(SeqOf(head'))] = head'
    BY <1>2, <1>9
  <2> QED BY <1>7, <2>1, <2>2, <2>3, <2>4, <2>5 DEF Shaped
<1> QED BY <1>2, <1>5, <1>8, <1>10 DEF IInv, Inv

\* The invariant holds at first.
LEMMA InvInit == Init /\ ~fecPort => IInv
<1> SUFFICES ASSUME Init, ~fecPort PROVE IInv
  OBVIOUS
<1>1. 0 \in Seqn /\ LastPacket \in Nat
  BY SizesAre, WindowAssumption DEF Seqn
<1>2. Active(groups) = {} /\ minEnd = NoGroup /\ phase = 0
  BY DEF Init, Active
<1>3. TypeOK
  <2>1. head \in -1..LastPacket
    BY <1>1 DEF Init
  <2>2. out \in Seq(Packet)
    BY DEF Init
  <2>3. /\ slots \in [Ring -> Packet \cup {NoPacket}]
        /\ groups \in [0..MaxGroups - 1 -> Groups \cup {NoGroup}]
    BY DEF Init
  <2>4. base \in Seqn /\ count \in Seqn /\ phase \in 0..2
    BY <1>1 DEF Init
  <2>5. fecPort \in FecPorts
    BY DEF Init
  <2>6. fecActive \in BOOLEAN
    BY DEF Init
  <2>7. minEnd \in Seqn \cup {NoGroup}
    BY <1>2
  <2> QED BY <2>1, <2>2, <2>3, <2>4, <2>5, <2>6, <2>7 DEF TypeOK
<1>4. WithinWindow /\ MinEndExact
  BY <1>2 DEF WithinWindow, MinEndExact
<1>5. Shaped
  <2>1. head = -1 /\ (\A i \in Ring : slots[i] = NoPacket) /\ ~fecActive
    BY DEF Init
  <2>2. phase # 1
    BY <1>2
  <2> QED BY <1>2, <2>1, <2>2 DEF Shaped
<1> QED BY <1>3, <1>4, <1>5 DEF IInv, Inv

\* The invariant is inductive.
LEMMA InvStays == ASSUME IInv, Near, [Next]_vars PROVE IInv'
<1>1. CASE Next
  BY <1>1, InvNext
<1>2. CASE UNCHANGED vars
  <2>1. /\ UNCHANGED <<fecPort, slots, base, count, phase, fecActive, groups, minEnd, out, head>>
    BY <1>2 DEF vars, ringVars, fecVars
  <2>2. Named(base)' = Named(base)
    BY <2>1 DEF Named
  <2>3. TypeOK' /\ MinEndExact'
    BY <2>1 DEF IInv, Inv, TypeOK, MinEndExact
  <2>4. WithinWindow' /\ Shaped'
    BY <2>1, <2>2 DEF IInv, Inv, WithinWindow, Shaped
  <2> QED BY <2>1, <2>3, <2>4 DEF IInv, Inv
<1> QED BY <1>1, <1>2

\* The window of a stream without FEC holds what waits in the slots of its
\* numbers, nothing before the next packet to deliver nor beyond the window,
\* whatever the network loses, repeats or displaces within Near
\* (rtp_reorder_insert).
THEOREM WindowInvariant == ASSUME Near PROVE Spec /\ ~fecPort => []Inv
<1>1. Spec /\ ~fecPort => []IInv
  <2>1. Init /\ ~fecPort => IInv
    BY InvInit
  <2>2. IInv /\ [Next]_vars => IInv'
    BY InvStays
  <2> QED BY <2>1, <2>2, PTL DEF Spec
<1>2. IInv => Inv
  BY DEF IInv
<1> QED BY <1>1, <1>2, PTL

\* Every step of such a window is one of an ordered stream, or none.
LEMMA StepStreams ==
  ASSUME IInv, Near, Next
  PROVE  Stream!Step
<1>1. PICK v, c : Stepped(v, c)
  BY NextIs
<1>2. /\ out' = v.out /\ Named(base)' = c /\ phase' \in {1, 2} /\ ~fecPort'
  BY <1>1, AfterIs
<1>3. c \in Nat /\ Right(v, phase', c, head')
  BY <1>1 DEF Stepped
<1>4. TypeOK /\ Shaped /\ ~fecPort
  BY DEF IInv, Inv
<1>5. Front \in Nat
  BY <1>4, HereIs
<1> DEFINE old == IF phase = 2 /\ ~fecPort THEN Named(base) ELSE 0
           new == IF phase' = 2 /\ ~fecPort' THEN Named(base)' ELSE 0
<1>6. old = Front
  BY <1>4 DEF Front
<1>7. new = IF phase' = 2 THEN c ELSE 0
  BY <1>2
<1>8. /\ Front <= c /\ Ordered(v.out) /\ \A i \in 1..Len(v.out) : v.out[i] \in Front..c-1
      /\ phase' = 1 => v.out = <<>>
      /\ phase = 2 => phase' = 2
  BY <1>3 DEF Right
<1>9. Front = 0 \/ phase = 2
  BY DEF Front
<1> HIDE DEF old, new
<1>10. new >= old
  BY <1>2, <1>3, <1>5, <1>6, <1>7, <1>8, <1>9
<1>11. \A i \in 1..Len(v.out) : v.out[i] \in old..new-1
  BY <1>2, <1>6, <1>7, <1>8
<1>12. Stream!Ascending(v.out)
  BY <1>8 DEF Ordered, Stream!Ascending
<1>13. (IF fecPort' THEN <<>> ELSE out') = v.out
  BY <1>2
<1> QED BY <1>10, <1>11, <1>12, <1>13 DEF Stream!Step, old, new

\* Such a window implements OrderedStream: what rtp_reorder_insert hands on is
\* in the sender's order, no packet twice and none after it was given up.
THEOREM WindowImplementsStream == ASSUME Near PROVE Spec /\ ~fecPort => ImplementsStream
<1>1. Spec /\ ~fecPort => []IInv
  <2>1. Init /\ ~fecPort => IInv
    BY InvInit
  <2>2. IInv /\ [Next]_vars => IInv'
    BY InvStays
  <2> QED BY <2>1, <2>2, PTL DEF Spec
<1>2. Init /\ ~fecPort => Stream!Init
  BY DEF Init, Stream!Init
<1> DEFINE frontier == IF phase = 2 /\ ~fecPort THEN Named(base) ELSE 0
           emitted  == IF fecPort THEN <<>> ELSE out
<1>3. IInv /\ [Next]_vars => Stream!Step \/ UNCHANGED <<frontier, emitted>>
  <2> SUFFICES ASSUME IInv, [Next]_vars PROVE Stream!Step \/ UNCHANGED <<frontier, emitted>>
    OBVIOUS
  <2>1. CASE Next
    BY <2>1, StepStreams
  <2>2. CASE UNCHANGED vars
    BY <2>2 DEF vars, ringVars, fecVars, Named
  <2> QED BY <2>1, <2>2
<1> QED BY <1>1, <1>2, <1>3, PTL DEF Spec, ImplementsStream, Stream!Spec

\* Such a window lets go of a packet it accepted only by handing it on
\* (flush_consecutive, force_flush_until).
THEOREM WindowLosesNothing == ASSUME Near PROVE Spec /\ ~fecPort => NothingLost
<1>1. Spec /\ ~fecPort => []IInv
  <2>1. Init /\ ~fecPort => IInv
    BY InvInit
  <2>2. IInv /\ [Next]_vars => IInv'
    BY InvStays
  <2> QED BY <2>1, <2>2, PTL DEF Spec
<1> DEFINE A == ~fecPort => \A i \in Ring :
                  (/\ slots[i] # NoPacket /\ slots'[i] # slots[i]
                   /\ phase = 2 => slots[i] >= Named(base))
                  => \E k \in 1..Len(out') : out'[k] = slots[i]
<1>2. IInv /\ [Next]_vars => [A]_vars
  <2> SUFFICES ASSUME IInv, Next PROVE A
    OBVIOUS
  <2>1. PICK v, c : Stepped(v, c)
    BY NextIs
  <2>2. out' = v.out /\ slots' = v.slots
    BY <2>1, AfterIs
  <2>3. \A i \in Ring : slots[i] # NoPacket /\ v.slots[i] # slots[i]
          => \E k \in 1..Len(v.out) : v.out[k] = slots[i]
    BY <2>1 DEF Stepped, Right
  <2> QED BY <2>2, <2>3
<1> QED BY <1>1, <1>2, PTL DEF Spec, NothingLost
-----------------------------------------------------------------------------
(* A window that packets reach without going too far ahead or behind: it   *)
(* holds every packet that came until its turn, and its count is exact.    *)

\* What the slots hold.
Held(s) == {s[i] : i \in Ring} \ {NoPacket}

\* The window holds packets in their slots from b on and counts them; while the
\* first are collected b is among them, afterwards b is missing.
Exact(v, ph, b) ==
  /\ v \in Windows /\ Placed(v, b) /\ v.count = Cardinality(Held(v.slots))
  /\ ph = 1 => b \in Held(v.slots)
  /\ ph = 2 => b \notin Held(v.slots)

\* What a window holds lies in it, in its slots.
LEMMA HeldIs ==
  ASSUME NEW v \in Windows, NEW b \in Nat, Placed(v, b)
  PROVE  /\ Held(v.slots) \subseteq Packet /\ Held(v.slots) \subseteq b..b+Window-1
         /\ IsFiniteSet(Held(v.slots)) /\ Cardinality(Held(v.slots)) \in 0..Window
         /\ \A x \in Nat : x \in Held(v.slots) <=>
              v.slots[x % Window] = x
<1> DEFINE H == Held(v.slots)
<1>1. \A i \in Ring : v.slots[i] # NoPacket =>
        /\ v.slots[i] \in Packet /\ v.slots[i] \in Nat
        /\ v.slots[i] - b \in 0..Window-1 /\ v.slots[i] % Window = i
  BY PacketsAre DEF Windows, Placed
<1>2. Window \in Nat
  BY SizesAre
<1>3. ASSUME NEW x \in H PROVE x \in Packet /\ x \in b..b+Window-1 /\ v.slots[x % Window] = x
  <2>1. PICK i \in Ring : x = v.slots[i] /\ v.slots[i] # NoPacket
    BY <1>3 DEF Held
  <2>2. x \in Packet /\ x \in Nat /\ x - b \in 0..Window-1 /\ x % Window = i
    BY <1>1, <2>1
  <2>3. x \in b..b+Window-1
    BY <1>2, <2>2
  <2> QED BY <2>1, <2>2, <2>3
<1>4. ASSUME NEW x \in Nat, v.slots[x % Window] = x PROVE x \in H
  <2>1. x % Window \in Ring /\ x # NoPacket
    BY SlotIs, PacketsAre
  <2> QED BY <1>4, <2>1 DEF Held
<1> HIDE DEF H
<1>5. H \subseteq b..b+Window-1
  BY <1>3
<1>6. IsFiniteSet(b..b+Window-1) /\ Cardinality(b..b+Window-1) = Window
  <2>1. b \in Int /\ b+Window-1 \in Int
    BY <1>2
  <2>2. (IF b > b+Window-1 THEN 0 ELSE (b+Window-1)-b+1) = Window
    BY <1>2
  <2> QED BY <2>1, <2>2, FS_Interval
<1>7. IsFiniteSet(H) /\ Cardinality(H) <= Window /\ Cardinality(H) \in Nat
  BY <1>5, <1>6, FS_Subset, FS_CardinalityType
<1>8. Cardinality(H) \in 0..Window
  BY <1>2, <1>7
<1> QED BY <1>3, <1>4, <1>5, <1>7, <1>8 DEF H

\* A packet that is new takes an empty slot and is counted.
LEMMA StoreExact ==
  ASSUME NEW w \in Windows, NEW b \in Nat, Placed(w, b), w.count = Cardinality(Held(w.slots)),
         NEW p \in Packet, w.slots[p % Window] = NoPacket, Window >= 2
  PROVE  /\ Held(Store(w, p).slots) = Held(w.slots) \cup {p} /\ p \notin Held(w.slots)
         /\ IsFiniteSet(Held(w.slots) \cup {p})
         /\ Store(w, p).count = Cardinality(Held(w.slots) \cup {p})
<1> DEFINE k == p % Window
           H == Held(w.slots)
           v == Store(w, p)
<1>1. /\ v \in Windows /\ k \in Ring /\ v.slots[k] = p
      /\ \A i \in Ring : i # k => v.slots[i] = w.slots[i]
  BY StoreIs
<1>2. p \in Nat /\ p # NoPacket
  BY PacketsAre
<1>3. Held(v.slots) = H \cup {p}
  <2> HIDE DEF v, k
  <2>1. w.slots[k] = NoPacket
    BY DEF k
  <2> QED BY <1>1, <1>2, <2>1 DEF Held
<1>4. IsFiniteSet(H) /\ Cardinality(H) \in 0..Window /\ p \notin H
  BY <1>2, HeldIs
<1>5. IsFiniteSet(H \cup {p}) /\ Cardinality(H \cup {p}) = Cardinality(H) + 1
  BY <1>4, FS_AddElement
<1>6. v.count = (w.count + 1) % SeqMod
  BY DEF Store, Windows
<1>7. w.count + 1 \in 0..SeqMod-1
  <2>1. w.count \in 0..Window
    BY <1>4
  <2> DEFINE c == w.count
  <2>2. c \in 0..Window
    BY <2>1
  <2> HIDE DEF H, c
  <2>3. c + 1 \in 0..SeqMod-1
    BY <2>2, SizesAre
  <2> QED BY <2>3 DEF c
<1>8. v.count = w.count + 1
  BY <1>6, <1>7, SizesAre, ModSmall
<1> QED BY <1>3, <1>4, <1>5, <1>8

\* flush_consecutive hands on the packets from the base up to the first that is
\* missing, and stops there.
LEMMA FlushExact ==
  ASSUME NEW w \in Windows, NEW b \in Nat, Placed(w, b), w.out = <<>>,
         w.count = Cardinality(Held(w.slots))
  PROVE  \E c \in Nat :
           /\ b <= c /\ Exact(Flush(w, FALSE), 2, c)
           /\ Held(Flush(w, FALSE).slots) = Held(w.slots) \ (b..c-1)
           /\ b..c-1 \subseteq Held(w.slots)
           /\ {Flush(w, FALSE).out[i] : i \in 1..Len(Flush(w, FALSE).out)} = b..c-1
<1> DEFINE v == Flush(w, FALSE)
           H == Held(w.slots)
<1>1. PICK n \in 0..Window : /\ MovesOn(w, v, b, b + n)
                             /\ \A k \in 0..n-1 : \E i \in Ring :
                                   w.slots[i] = b + k /\ w.slots[i] # NoPacket
                             /\ Flushed(w, v, b, n)
  BY FlushIs
<1>2. n \in Nat /\ n <= Window /\ Window \in Nat /\ b + n \in Nat /\ w.base = SeqOf(b)
  BY SizesAre DEF Placed
<1>3. /\ v.count = w.count - n /\ n <= w.count /\ Len(v.out) = n
      /\ \A i \in 1..n : v.out[i] = b + i - 1
      /\ \A i \in Ring : v.slots[i] = IF (i - w.base) % Window < n THEN NoPacket ELSE w.slots[i]
      /\ n = w.count \/ n = Window \/ w.slots[SlotOf(w.base + n)] = NoPacket
      /\ v \in Windows /\ Placed(v, b + n)
  BY <1>1 DEF Flushed, MovesOn
<1> DEFINE c == b + n
<1>0. c \in Nat /\ c = b + n /\ n = c - b
  BY <1>2
<1> HIDE DEF v, c
<1>a. Placed(v, c)
  BY <1>0, <1>3
<1>4. /\ H \subseteq b..b+Window-1 /\ IsFiniteSet(H) /\ Cardinality(H) = w.count
      /\ \A x \in Nat : x \in H <=> w.slots[x % Window] = x
  BY HeldIs
<1>5. \A x \in Nat : x \in Held(v.slots) <=> v.slots[x % Window] = x
  BY <1>0, <1>a, <1>3, HeldIs
<1>6. b..c-1 \subseteq H
  <2> SUFFICES ASSUME NEW x \in b..c-1 PROVE x \in H
    OBVIOUS
  <2>1. x - b \in 0..n-1 /\ b + (x - b) = x
    BY <1>0, <1>2
  <2>2. PICK i \in Ring : w.slots[i] = x /\ w.slots[i] # NoPacket
    BY <1>1, <2>1
  <2> QED BY <2>2 DEF Held
<1>7. Held(v.slots) = H \ (b..c-1)
  <2>1. Held(v.slots) \subseteq Nat /\ H \subseteq Nat
    BY <1>0, <1>a, <1>3, HeldIs, PacketsAre
  <2>2. ASSUME NEW x \in Nat PROVE x \in Held(v.slots) <=> x \in H /\ x \notin b..c-1
    <3> DEFINE i == x % Window
               r == (i - w.base) % Window
    <3>1. i \in Ring /\ x # NoPacket
      BY SlotIs, PacketsAre
    <3>2. w.slots[i] # NoPacket => w.slots[i] = b + r
      BY <3>1, OffsetIs
    <3>3. v.slots[i] = IF r < n THEN NoPacket ELSE w.slots[i]
      BY <1>3, <3>1
    <3>6. r \in 0..Window-1
      BY <3>1, OffsetIs
    <3>4. (x \in Held(v.slots) <=> v.slots[i] = x) /\ (x \in H <=> w.slots[i] = x)
      BY <1>4, <1>5
    <3> HIDE DEF i, r
    <3>5. x = b + r => (r < n <=> x \in b..c-1)
      BY <1>0, <1>2, <3>6
    <3> QED BY <3>1, <3>2, <3>3, <3>4, <3>5
  <2> QED BY <2>1, <2>2
<1>8. Cardinality(H \ (b..c-1)) = Cardinality(H) - n
  <2>1. H \cap (b..c-1) = b..c-1
    BY <1>6
  <2>2. Cardinality(b..c-1) = n
    <3>1. b \in Int /\ c-1 \in Int
      BY <1>0
    <3>2. (IF b > c-1 THEN 0 ELSE (c-1)-b+1) = n
      BY <1>0, <1>2
    <3> QED BY <3>1, <3>2, FS_Interval
  <2>3. IsFiniteSet(H)
    BY <1>4
  <2> HIDE DEF H
  <2>4. Cardinality(H \ (b..c-1)) = Cardinality(H) - Cardinality(H \cap (b..c-1))
    BY <2>3, FS_Difference
  <2> QED BY <2>1, <2>2, <2>4
<1>9. v.count = Cardinality(Held(v.slots))
  BY <1>3, <1>4, <1>7, <1>8
<1>10. c \notin Held(v.slots)
  <2>1. CASE n = w.count
    <3>1. IsFiniteSet(Held(v.slots)) /\ Cardinality(Held(v.slots)) = 0
      <4>1. w.count \in Int /\ IsFiniteSet(Held(v.slots))
        BY <1>0, <1>a, <1>2, <1>3, <2>1, HeldIs
      <4> QED BY <1>3, <1>9, <2>1, <4>1
    <3> QED BY <3>1, FS_EmptySet
  <2>2. CASE n = Window
    BY <1>0, <1>2, <1>4, <1>7, <2>2
  <2>3. CASE n # Window /\ w.slots[SlotOf(w.base + n)] = NoPacket
    <3>1. SlotOf(w.base + n) = (b + n) % Window
      BY <1>2, SlotsFrom
    <3>2. c % Window \in Ring /\ w.slots[c % Window] = NoPacket
      BY <1>0, <2>3, <3>1, SlotIs
    <3>3. c \notin H
      BY <1>0, <1>4, <3>2, PacketsAre
    <3> QED BY <1>7, <3>3
  <2> QED BY <1>3, <2>1, <2>2, <2>3
<1>11. {v.out[i] : i \in 1..Len(v.out)} = b..c-1
  <2>1. ASSUME NEW i \in 1..n PROVE v.out[i] \in b..c-1
    <3>1. b + i - 1 \in b..c-1
      BY <1>0, <1>2
    <3> QED BY <1>3, <3>1
  <2>2. ASSUME NEW x \in b..c-1 PROVE \E i \in 1..n : v.out[i] = x
    <3> DEFINE i == x - b + 1
    <3>1. i \in 1..n /\ b + i - 1 = x
      BY <1>0, <1>2
    <3> HIDE DEF i
    <3> QED BY <1>3, <3>1
  <2>3. Len(v.out) = n
    BY <1>3
  <2> QED BY <2>1, <2>2, <2>3
<1>12. b <= c
  BY <1>0, <1>2
<1>13. Exact(v, 2, c)
  BY <1>a, <1>3, <1>9, <1>10 DEF Exact
<1> QED BY <1>0, <1>6, <1>7, <1>11, <1>12, <1>13 DEF v

\* The window between two calls.
Settled(b) ==
  /\ Here \in Windows /\ phase \in 0..2 /\ b \in Nat
  /\ phase = 0 => Held(slots) = {} /\ count = 0
  /\ phase # 0 => Exact(Here, phase, b)
  /\ phase = 1 => count < InitCollect

\* What an insertion of p makes of it: v is the window, ph the phase and c the
\* position of the base after it.  Nothing held is lost but by its turn, and
\* what is handed on is the run of packets the base moves over.
Taken(p, b, v, ph, c) ==
  /\ ph \in 1..2 /\ phase <= ph /\ Exact(v, ph, c)
  /\ Held(v.slots) \subseteq Held(slots) \cup {p}
  /\ Held(slots) \cup {p} \subseteq Held(v.slots) \cup (IF ph = 2 THEN 0..c-1 ELSE {})
  /\ ph = 1 => v.out = <<>> /\ v.count < InitCollect
  /\ ph = 2 => \E a \in Nat : /\ a <= c /\ a..c-1 \subseteq Held(slots) \cup {p}
                              /\ IF phase = 2 THEN a = b ELSE a \in Held(slots) \cup {p}
                              /\ {v.out[i] : i \in 1..Len(v.out)} = a..c-1

\* No packet comes so far off that it meets another in its slot.
Fits(p, b) ==
  /\ phase = 1 => \A h \in Held(slots) : -Window < p - h /\ p - h < Window
  /\ phase = 2 => -Half <= p - b /\ p - b < Window

\* The parts of the window.
LEMMA HereFields == /\ Here.slots = slots /\ Here.base = base /\ Here.count = count /\ Here.out = <<>>
BY DEF Here

\* A window that is empty or near c may start at c.
LEMMA StartAt ==
  ASSUME Here \in Windows, NEW c \in Nat, NEW p \in Packet,
         \A i \in Ring : slots[i] # NoPacket => slots[i] \in c..c+Window-1 /\ slots[i] % Window = i,
         count = Cardinality(Held(slots)), p \in c..c+Window-1, slots[p % Window] = NoPacket,
         Window >= 2
  PROVE  LET v == [Store(Here, p) EXCEPT !.base = SeqOf(c)]
         IN  /\ v \in Windows /\ Placed(v, c) /\ v.out = <<>>
             /\ Held(v.slots) = Held(slots) \cup {p} /\ IsFiniteSet(Held(slots) \cup {p})
             /\ v.count = Cardinality(Held(slots) \cup {p}) /\ p \notin Held(slots)
<1> DEFINE u == [Here EXCEPT !.base = SeqOf(c)]
           v == [Store(Here, p) EXCEPT !.base = SeqOf(c)]
<1>1. v = Store(u, p)
  BY DEF Store, Here
<1>2. u \in Windows /\ u.base = SeqOf(c) /\ u.slots = slots /\ u.out = <<>>
  BY Rebased, HereFields
<1>3. u.count = count
  BY HereFields DEF Windows
<1> HIDE DEF u, v
<1>4. Placed(u, c)
  <2> SUFFICES ASSUME NEW i \in Ring, slots[i] # NoPacket
               PROVE  slots[i] - c \in 0..Window-1 /\ slots[i] % Window = i
    BY <1>2 DEF Placed
  <2>1. slots[i] \in c..c+Window-1 /\ slots[i] % Window = i
    OBVIOUS
  <2> QED BY <2>1, SizesAre
<1>5. u.slots[p % Window] = NoPacket /\ u.count = Cardinality(Held(u.slots))
  BY <1>2, <1>3
<1>6. /\ Held(Store(u, p).slots) = Held(slots) \cup {p} /\ p \notin Held(slots)
      /\ IsFiniteSet(Held(slots) \cup {p})
      /\ Store(u, p).count = Cardinality(Held(slots) \cup {p})
  BY <1>2, <1>4, <1>5, StoreExact
<1>7. Placed(Store(u, p), c)
  <2>1. p - c \in 0..Window-1
    BY SizesAre
  <2> QED BY <1>2, <1>4, <2>1, StorePlaced
<1>8. Store(u, p) \in Windows /\ Store(u, p).out = <<>>
  BY <1>2, StoreIs
<1> QED BY <1>1, <1>6, <1>7, <1>8 DEF v


\* The first packet is taken.
LEMMA FirstTaken ==
  ASSUME NEW b, Settled(b), NEW p \in Packet, InitCollect >= 2, Window >= 2,
         InsertFirst(p)
  PROVE  \E v : \E c \in Nat : Become(v) /\ Taken(p, b, v, phase', c)
<1> DEFINE v == [Store(Here, p) EXCEPT !.base = SeqOf(p)]
           H == Held(slots)
<1>1. /\ phase = 0 /\ phase' = 1 /\ Become(v)
      /\ Here \in Windows /\ H = {} /\ count = 0
  BY DEF InsertFirst, Settled
<1>2. p \in Nat /\ p \in p..p+Window-1 /\ p % Window \in Ring
  BY PacketsAre, SizesAre, SlotIs
<1>3. \A i \in Ring : slots[i] = NoPacket
  BY <1>1 DEF Held
<1>4. count = Cardinality(H)
  BY <1>1, FS_EmptySet
<1> HIDE DEF H
<1>5. slots[p % Window] = NoPacket
  BY <1>2, <1>3
<1>6. /\ v \in Windows /\ Placed(v, p) /\ v.out = <<>>
      /\ Held(v.slots) = H \cup {p}
      /\ v.count = Cardinality(H \cup {p})
  BY <1>1, <1>2, <1>3, <1>4, <1>5, StartAt DEF H
<1>7. v.count = 1
  BY <1>1, <1>6, FS_Singleton
<1> HIDE DEF v
<1>8. Exact(v, 1, p) /\ Held(v.slots) = {p}
  BY <1>1, <1>6 DEF Exact
<1>9. v.count < InitCollect
  BY <1>7, WindowAssumption
<1>10. Taken(p, b, v, 1, p)
  BY <1>1, <1>6, <1>8, <1>9 DEF Taken, H
<1> QED BY <1>1, <1>2, <1>10

\* A packet is taken while the first are collected.
LEMMA CollectingTaken ==
  ASSUME NEW b, Settled(b), NEW p \in Packet, Fits(p, b), InitCollect >= 2, Window >= 2,
         InsertCollecting(p, FALSE)
  PROVE  \E v : \E c \in Nat : Become(v) /\ Taken(p, b, v, phase', c)
<1> DEFINE H == Held(slots)
           k == p % Window
           c == IF p - b < 0 THEN p ELSE b
           v == [Store(Here, p) EXCEPT !.base = SeqOf(c)]
<1>1. /\ phase = 1 /\ Here \in Windows /\ b \in Nat /\ Exact(Here, 1, b) /\ count < InitCollect
      /\ \A h \in H : -Window < p - h /\ p - h < Window
  BY DEF InsertCollecting, Settled, Fits
<1>2. /\ Placed(Here, b) /\ count = Cardinality(H) /\ b \in H
      /\ base = SeqOf(b) /\ Here.slots = slots
  BY <1>1, HereFields DEF Exact, Placed
<1>3. p \in Nat /\ p \in Int /\ b \in Int /\ k \in Ring /\ SlotOf(SeqOf(p)) = k /\ Window \in Nat
  BY <1>1, PacketsAre, SizesAre, SlotIs
<1>4. /\ H \subseteq Packet /\ H \subseteq b..b+Window-1 /\ H \subseteq Nat
      /\ \A x \in Nat : x \in H <=> slots[x % Window] = x
  BY <1>1, <1>2, HeldIs, PacketsAre
<1>5. Diff(SeqOf(p), base) = p - b
  <2>1. -Window < p - b /\ p - b < Window
    BY <1>1, <1>2
  <2>2. -Half <= p - b /\ p - b < Half
    BY <1>3, <2>1, HalfIs
  <2> QED BY <1>2, <1>3, <2>2, DiffIs
<1> HIDE DEF H, k
<1>6. CASE slots[k] # NoPacket
  <2>1. slots[k] \in H
    BY <1>3, <1>6 DEF Held, H
  <2>2. slots[k] % Window = k /\ slots[k] \in Nat
    BY <1>2, <1>3, <1>4, <1>6, <2>1 DEF Placed
  <2> DEFINE q == slots[k]
  <2>3. q \in Int /\ -Window < p - q /\ p - q < Window /\ q % Window = p % Window
    BY <1>1, <2>1, <2>2 DEF k
  <2> HIDE DEF q
  <2>4. p = q
    BY <1>3, <2>3, SizesAre, ModSame
  <2>5. p \in H
    BY <2>1, <2>4 DEF q
  <2>6. phase' = 1 /\ Become(Here)
    <3> DEFINE s == SeqOf(p)
               w == IF slots[SlotOf(s)] # NoPacket THEN Here
                    ELSE [Store(Here, p) EXCEPT !.base = IF Diff(s, base) < 0 THEN s ELSE base]
    <3>1. IF w.count >= InitCollect THEN phase' = 2 /\ Become(Flush(w, FALSE))
          ELSE phase' = 1 /\ Become(w)
      BY DEF InsertCollecting
    <3>2. w = Here
      BY <1>3, <1>6
    <3> HIDE DEF w
    <3>3. ~(w.count >= InitCollect)
      BY <1>1, <1>2, <3>2, HereFields, WindowAssumption, HeldIs DEF H
    <3> QED BY <3>1, <3>2, <3>3
  <2>7. Taken(p, b, Here, 1, b)
    BY <1>1, <2>5, HereFields DEF Taken, H
  <2> QED BY <1>1, <2>6, <2>7
<1>7. CASE slots[k] = NoPacket
  <2>1. c \in Nat /\ c \in Int /\ c <= p /\ c <= b /\ (c = p \/ c = b)
    BY <1>1, <1>3
  <2>2. SeqOf(c) = IF Diff(SeqOf(p), base) < 0 THEN SeqOf(p) ELSE base
    BY <1>2, <1>5
  <2>3. IF v.count >= InitCollect THEN phase' = 2 /\ Become(Flush(v, FALSE))
        ELSE phase' = 1 /\ Become(v)
    BY <1>3, <1>7, <2>2 DEF InsertCollecting
  <2>4. -Window < p - b /\ p - b < Window
    BY <1>1, <1>2
  <2> HIDE DEF c
  <2>5. p \in c..c+Window-1
    BY <1>1, <1>3, <2>1, <2>4
  <2>6. ASSUME NEW i \in Ring, slots[i] # NoPacket
        PROVE  slots[i] \in c..c+Window-1 /\ slots[i] % Window = i
    <3>1. slots[i] \in H
      BY <2>6 DEF Held, H
    <3>2. slots[i] % Window = i
      BY <1>2, <2>6 DEF Placed
    <3> DEFINE q == slots[i]
    <3>3. q \in Nat /\ q \in b..b+Window-1 /\ -Window < p - q /\ p - q < Window
      BY <1>1, <1>4, <3>1
    <3> HIDE DEF q
    <3>4. q \in c..c+Window-1
      BY <1>1, <1>3, <2>1, <3>3
    <3> QED BY <3>2, <3>4 DEF q
  <2>7. /\ v \in Windows /\ Placed(v, c) /\ v.out = <<>>
        /\ Held(v.slots) = H \cup {p} /\ IsFiniteSet(H \cup {p})
        /\ v.count = Cardinality(H \cup {p}) /\ p \notin H
    BY <1>1, <1>2, <1>7, <2>1, <2>5, <2>6, StartAt DEF H, k
  <2> HIDE DEF v
  <2>8. c \in H \cup {p}
    BY <1>2, <2>1
  <2>9. CASE ~(v.count >= InitCollect)
    <3>1. phase' = 1 /\ Become(v)
      BY <2>3, <2>9
    <3>2. v.count < InitCollect
      <4>1. v.count \in Int /\ InitCollect \in Int
        BY <2>7, SizesAre, WindowAssumption DEF Windows, Seqn
      <4> QED BY <2>9, <4>1
    <3>3. Exact(v, 1, c)
      BY <2>7, <2>8 DEF Exact
    <3>4. Taken(p, b, v, 1, c)
      BY <1>1, <2>7, <3>2, <3>3 DEF Taken, H
    <3> QED BY <2>1, <3>1, <3>4
  <2>10. CASE v.count >= InitCollect
    <3> DEFINE z == Flush(v, FALSE)
    <3>1. phase' = 2 /\ Become(z)
      BY <2>3, <2>10
    <3>2. PICK d \in Nat :
           /\ c <= d /\ Exact(z, 2, d)
           /\ Held(z.slots) = (H \cup {p}) \ (c..d-1)
           /\ c..d-1 \subseteq H \cup {p}
           /\ {z.out[i] : i \in 1..Len(z.out)} = c..d-1
      BY <2>1, <2>7, FlushExact
    <3> HIDE DEF z
    <3>3. c..d-1 \subseteq 0..d-1
      BY <2>1
    <3>4. H \cup {p} \subseteq Held(z.slots) \cup (0..d-1)
      BY <3>2, <3>3
    <3>5. Taken(p, b, z, 2, d)
      BY <1>1, <2>1, <2>8, <3>2, <3>4 DEF Taken, H
    <3> QED BY <3>1, <3>5
  <2> QED BY <2>9, <2>10
<1> QED BY <1>6, <1>7

\* The packet expected next is taken, and what waited for it goes out.
LEMMA ExpectedTaken ==
  ASSUME NEW b, Settled(b), NEW p \in Packet, Fits(p, b), Window >= 2,
         InsertExpected(p, FALSE)
  PROVE  \E v : \E c \in Nat : Become(v) /\ Taken(p, b, v, phase', c)
<1> DEFINE H == Held(slots)
           k == p % Window
           s == Store(Here, p)
<1>1. /\ phase = 2 /\ phase' = 2 /\ Here \in Windows /\ b \in Nat /\ Exact(Here, 2, b)
      /\ -Half <= p - b /\ p - b < Window /\ Diff(SeqOf(p), base) = 0
  BY DEF InsertExpected, Settled, Fits
<1>2. /\ Placed(Here, b) /\ count = Cardinality(H) /\ b \notin H
      /\ base = SeqOf(b) /\ Here.slots = slots /\ Here.base = base /\ Here.count = count
      /\ Here.out = <<>>
  BY <1>1, HereFields DEF Exact, Placed
<1>3. p \in Nat /\ p \in Int /\ b \in Int /\ k \in Ring /\ SlotOf(SeqOf(p)) = k /\ Window \in Nat
  BY <1>1, PacketsAre, SizesAre, SlotIs
<1>4. p = b
  <2>1. p - b < Half
    BY <1>1, <1>3, HalfIs
  <2>2. Diff(SeqOf(p), SeqOf(b)) = p - b
    BY <1>1, <1>3, <2>1, DiffIs
  <2> QED BY <1>1, <1>2, <1>3, <2>2
<1>5. /\ H \subseteq b..b+Window-1 /\ IsFiniteSet(H)
      /\ \A x \in Nat : x \in H <=> slots[x % Window] = x
  BY <1>1, <1>2, HeldIs
<1>6. slots[k] = NoPacket
  <2>1. p - b \in 0..Window-1
    BY <1>3, <1>4, SizesAre
  <2> HIDE DEF k
  <2>2. slots[p % Window] = NoPacket \/ slots[p % Window] = p
    BY <1>1, <1>2, <2>1, StorePlaced
  <2>3. slots[p % Window] # p
    BY <1>2, <1>3, <1>4, <1>5
  <2> QED BY <2>2, <2>3 DEF k
<1> HIDE DEF H, k
<1>7. CASE count = 0
  <2> DEFINE v == [Here EXCEPT !.base = (base + 1) % SeqMod, !.out = <<p>>]
             c == b + 1
  <2>1. Become(v)
    <3>1. ~(FALSE /\ FecEnabled) /\ slots[SlotOf(base)] = NoPacket
      BY <1>2, <1>3, <1>4, <1>6
    <3> QED BY <1>7, <3>1 DEF InsertExpected
  <2>2. H = {}
    BY <1>2, <1>5, <1>7, FS_EmptySet
  <2>3. (base + 1) % SeqMod = SeqOf(c)
    <3>1. base = b % SeqMod /\ 1 \in Int
      BY <1>2 DEF SeqOf
    <3>2. ((b % SeqMod) + 1) % SeqMod = (b + 1) % SeqMod
      BY <1>3, <3>1, SizesAre, ModPlus
    <3> QED BY <3>1, <3>2 DEF SeqOf
  <2>4. c \in Nat /\ c = b + 1
    BY <1>1
  <2> HIDE DEF c
  <2>5. /\ v \in Windows /\ v.slots = slots /\ v.base = SeqOf(c) /\ v.count = 0 /\ v.out = <<p>>
    <3>1. SeqOf(c) \in Seqn /\ <<p>> \in Seq(Packet)
      BY <2>4, SeqOfIs
    <3> DEFINE x == (base + 1) % SeqMod
               q == <<p>>
    <3>2. x \in Seqn /\ q \in Seq(Packet) /\ x = SeqOf(c)
      BY <2>3, <3>1
    <3> HIDE DEF x, q
    <3>3. [Here EXCEPT !.base = x, !.out = q] \in Windows
      BY <1>1, <3>2 DEF Windows
    <3>4. /\ [Here EXCEPT !.base = x, !.out = q].slots = Here.slots
          /\ [Here EXCEPT !.base = x, !.out = q].base = x
          /\ [Here EXCEPT !.base = x, !.out = q].count = Here.count
          /\ [Here EXCEPT !.base = x, !.out = q].out = q
      BY <1>1 DEF Windows
    <3> QED BY <1>2, <1>7, <3>2, <3>3, <3>4 DEF x, q
  <2> HIDE DEF v
  <2>6. \A i \in Ring : slots[i] = NoPacket
    BY <2>2 DEF H, Held
  <2>7. Exact(v, 2, c)
    <3>1. Placed(v, c)
      BY <2>4, <2>5, <2>6 DEF Placed
    <3>2. v.count = Cardinality(Held(v.slots)) /\ c \notin Held(v.slots)
      BY <2>2, <2>5, FS_EmptySet DEF H
    <3> QED BY <2>5, <3>1, <3>2 DEF Exact
  <2>8. {v.out[i] : i \in 1..Len(v.out)} = b..c-1
    <3>1. b..c-1 = {p}
      BY <1>3, <1>4, <2>4
    <3>2. {v.out[i] : i \in 1..Len(v.out)} = {p}
      BY <2>5
    <3> QED BY <3>1, <3>2
  <2>9. b..c-1 = {p} /\ {p} \subseteq 0..c-1 /\ b <= c
    BY <1>3, <1>4, <2>4
  <2>10. Taken(p, b, v, 2, c)
    BY <1>1, <2>2, <2>5, <2>7, <2>8, <2>9 DEF Taken, H
  <2> QED BY <1>1, <2>1, <2>4, <2>10
<1>8. CASE count # 0
  <2> DEFINE z == Flush(s, FALSE)
  <2>1. Become(z)
    BY <1>8 DEF InsertExpected
  <2>2. s \in Windows /\ s.out = <<>> /\ Placed(s, b)
    <3>1. p - b \in 0..Window-1
      BY <1>3, <1>4, SizesAre
    <3> QED BY <1>1, <1>2, <3>1, StoreIs, StorePlaced
  <2>3. Held(s.slots) = H \cup {p} /\ s.count = Cardinality(Held(s.slots))
    BY <1>1, <1>2, <1>6, StoreExact DEF H, k
  <2> HIDE DEF s
  <2>4. PICK d \in Nat :
         /\ b <= d /\ Exact(z, 2, d)
         /\ Held(z.slots) = (H \cup {p}) \ (b..d-1)
         /\ b..d-1 \subseteq H \cup {p}
         /\ {z.out[i] : i \in 1..Len(z.out)} = b..d-1
    <3>1. \E d \in Nat :
         /\ b <= d /\ Exact(z, 2, d)
         /\ Held(z.slots) = Held(s.slots) \ (b..d-1)
         /\ b..d-1 \subseteq Held(s.slots)
         /\ {z.out[i] : i \in 1..Len(z.out)} = b..d-1
      BY <1>1, <2>2, <2>3, FlushExact
    <3> HIDE DEF z
    <3> QED BY <2>3, <3>1
  <2> HIDE DEF z
  <2>5. b..d-1 \subseteq 0..d-1
    BY <1>1
  <2>6. H \cup {p} \subseteq Held(z.slots) \cup (0..d-1)
    BY <2>4, <2>5
  <2>7. Taken(p, b, z, 2, d)
    BY <1>1, <2>4, <2>6 DEF Taken, H
  <2> QED BY <1>1, <2>1, <2>7
<1> QED BY <1>7, <1>8

\* A packet behind the base is not kept, and was handed on or is missed.
LEMMA LateTaken ==
  ASSUME NEW b, Settled(b), NEW p \in Packet, Fits(p, b), InsertLate(p)
  PROVE  \E v : \E c \in Nat : Become(v) /\ Taken(p, b, v, phase', c)
<1>1. /\ phase = 2 /\ phase' = 2 /\ Here \in Windows /\ b \in Nat /\ Exact(Here, 2, b)
      /\ -Half <= p - b /\ p - b < Window /\ Diff(SeqOf(p), base) < 0 /\ Become(Here)
  BY DEF InsertLate, Settled, Fits
<1>2. p \in Nat /\ p \in Int /\ b \in Int /\ base = SeqOf(b) /\ Window \in Nat
  BY <1>1, PacketsAre, SizesAre, HereFields DEF Exact, Placed
<1>3. p < b
  <2>1. p - b < Half
    BY <1>1, <1>2, HalfIs
  <2>2. Diff(SeqOf(p), SeqOf(b)) = p - b
    BY <1>1, <1>2, <2>1, DiffIs
  <2> QED BY <1>1, <1>2, <2>2
<1>4. p \in 0..b-1 /\ b..b-1 = {}
  BY <1>2, <1>3
<1>5. {Here.out[i] : i \in 1..Len(Here.out)} = b..b-1
  BY <1>4, HereFields
<1>6. Taken(p, b, Here, 2, b)
  BY <1>1, <1>4, <1>5, HereFields DEF Taken
<1> QED BY <1>1, <1>6

\* A packet ahead of the base is taken.
LEMMA AheadTaken ==
  ASSUME NEW b, Settled(b), NEW p \in Packet, Fits(p, b), Window >= 2,
         InsertAhead(p, FALSE)
  PROVE  \E v : \E c \in Nat : Become(v) /\ Taken(p, b, v, phase', c)
<1> DEFINE H == Held(slots)
           k == p % Window
           s == Store(Here, p)
<1>1. /\ phase = 2 /\ phase' = 2 /\ Here \in Windows /\ b \in Nat /\ Exact(Here, 2, b)
      /\ -Half <= p - b /\ p - b < Window /\ Diff(SeqOf(p), base) > 0
  BY DEF InsertAhead, Settled, Fits
<1>2. /\ Placed(Here, b) /\ count = Cardinality(H) /\ b \notin H
      /\ base = SeqOf(b) /\ Here.slots = slots /\ Here.base = base /\ Here.count = count
      /\ Here.out = <<>>
  BY <1>1, HereFields DEF Exact, Placed
<1>3. p \in Nat /\ p \in Int /\ b \in Int /\ k \in Ring /\ SlotOf(SeqOf(p)) = k /\ Window \in Nat
  BY <1>1, PacketsAre, SizesAre, SlotIs
<1>4. Diff(SeqOf(p), base) = p - b
  <2>1. p - b < Half
    BY <1>1, <1>3, HalfIs
  <2> QED BY <1>1, <1>2, <1>3, <2>1, DiffIs
<1>5. b < p /\ ~(Diff(SeqOf(p), base) >= Window)
  BY <1>1, <1>3, <1>4
<1>6. Become(IF Holds(Here, SeqOf(p)) THEN Here ELSE s)
  BY <1>5 DEF InsertAhead, Recover
<1>7. slots[k] = NoPacket \/ slots[k] = p
  <2>1. p - b \in 0..Window-1
    BY <1>1, <1>3, <1>5
  <2> QED BY <1>1, <1>2, <2>1, StorePlaced
<1>8. \A x \in Nat : x \in H <=> slots[x % Window] = x
  BY <1>1, <1>2, HeldIs
<1>9. b..b-1 = {}
  BY <1>3
<1> HIDE DEF H
<1>10. CASE slots[k] = p
  <2>1. p # NoPacket
    BY PacketsAre
  <2>2. Holds(Here, SeqOf(p))
    BY <1>2, <1>3, <1>10, <2>1 DEF Holds
  <2>3. p \in H
    BY <1>3, <1>8, <1>10
  <2>4. {Here.out[i] : i \in 1..Len(Here.out)} = b..b-1
    BY <1>9, HereFields
  <2>5. Taken(p, b, Here, 2, b)
    BY <1>1, <1>9, <2>3, <2>4, HereFields DEF Taken, H
  <2> QED BY <1>1, <1>6, <2>2, <2>5
<1>11. CASE slots[k] = NoPacket
  <2>1. ~Holds(Here, SeqOf(p))
    BY <1>2, <1>3, <1>11 DEF Holds
  <2>2. s \in Windows /\ s.out = <<>> /\ Placed(s, b)
    <3>1. p - b \in 0..Window-1
      BY <1>1, <1>3, <1>5
    <3> QED BY <1>1, <1>2, <3>1, StoreIs, StorePlaced
  <2>3. Held(s.slots) = H \cup {p} /\ s.count = Cardinality(Held(s.slots))
    BY <1>1, <1>2, <1>11, StoreExact DEF H
  <2> HIDE DEF s
  <2>4. b \notin H \cup {p}
    BY <1>2, <1>3, <1>5
  <2>5. Exact(s, 2, b)
    BY <2>2, <2>3, <2>4 DEF Exact
  <2>6. {s.out[i] : i \in 1..Len(s.out)} = b..b-1
    BY <1>9, <2>2
  <2>7. Taken(p, b, s, 2, b)
    BY <1>1, <1>9, <2>3, <2>5, <2>6 DEF Taken, H
  <2> QED BY <1>1, <1>6, <2>1, <2>7
<1> QED BY <1>7, <1>10, <1>11

\* An insertion of a packet that fits loses nothing.
LEMMA InsertTaken ==
  ASSUME NEW b, Settled(b), NEW p \in Packet, Fits(p, b), InitCollect >= 2, Window >= 2,
         Insert(p, FALSE)
  PROVE  \E v : \E c \in Nat : Become(v) /\ Taken(p, b, v, phase', c)
BY FirstTaken, CollectingTaken, ExpectedTaken, LateTaken, AheadTaken DEF Insert

\* The types of what an insertion does, wherever the window stands.
LEMMA SlotsOf == \A w \in Windows, k \in Nat : w.base + k \in Int /\ SlotOf(w.base + k) \in Ring
                                                /\ w.slots[SlotOf(w.base + k)] \in Content
<1> SUFFICES ASSUME NEW w \in Windows, NEW k \in Nat
             PROVE  w.base + k \in Int /\ SlotOf(w.base + k) \in Ring
                    /\ w.slots[SlotOf(w.base + k)] \in Content
  OBVIOUS
<1>1. w.base + k \in Int
  BY SizesAre DEF Windows, Seqn
<1>2. SlotOf(w.base + k) \in Ring
  BY <1>1, SizesAre, ModIs DEF SlotOf, Ring
<1> QED BY <1>1, <1>2 DEF Windows

\* A flush keeps the types, whatever the window holds.
LEMMA FlushTyped ==
  ASSUME NEW w \in Windows
  PROVE  Flush(w, FALSE) \in Windows
<1> DEFINE At(k) == w.slots[SlotOf(w.base + k)]
           S == {w.count} \cup {i \in 0..w.count : At(i) = NoPacket} \cup {Window}
           n == Min(S)
           x == [i \in Ring |-> IF (i - w.base) % Window < n THEN NoPacket ELSE w.slots[i]]
           y == (w.base + n) % SeqMod
           z == w.count - n
           q == w.out \o [i \in 1..n |-> At(i - 1)]
<1>1. Flush(w, FALSE) = [w EXCEPT !.slots = x, !.base = y, !.count = z, !.out = q]
  BY DEF Flush
<1>2. w.count \in 0..SeqMod-1 /\ w.count \in Nat /\ w.slots \in [Ring -> Content]
      /\ w.base \in Int /\ w.out \in Seq(Packet)
  BY SizesAre DEF Windows, Seqn
<1>3. S \in SUBSET Nat /\ S # {}
  BY <1>2, SizesAre
<1>4. n \in S /\ \A u \in S : n <= u
  BY <1>3, LowestIs
<1>5. n \in Nat /\ n <= w.count
  <2> HIDE DEF n
  <2>1. n \in Nat /\ w.count \in S
    BY <1>3, <1>4
  <2> QED BY <1>4, <2>1
<1>6. ASSUME NEW i \in 1..n PROVE At(i - 1) \in Packet
  <2> HIDE DEF n
  <2>1. i - 1 \in Nat /\ i - 1 \in 0..w.count /\ i - 1 < n
    BY <1>2, <1>5
  <2>2. i - 1 \notin S
    <3> HIDE DEF S
    <3> QED BY <1>4, <1>5, <2>1
  <2>3. At(i - 1) # NoPacket
    BY <2>1, <2>2
  <2> QED BY <2>1, <2>3, SlotsOf DEF Content
<1> HIDE DEF n
<1>7. q \in Seq(Packet)
  <2> DEFINE r == [i \in 1..n |-> At(i - 1)]
  <2>1. r \in Seq(Packet)
    BY <1>5, <1>6
  <2> HIDE DEF r
  <2>2. w.out \o r \in Seq(Packet)
    BY <1>2, <2>1
  <2> QED BY <2>2 DEF r
<1>8. x \in [Ring -> Content]
  BY <1>2 DEF Content
<1>9. y \in Seqn
  <2>1. w.base + n \in Int
    BY <1>2, <1>5
  <2> QED BY <2>1, SizesAre, ModIs DEF Seqn
<1>10. z \in Seqn
  BY <1>2, <1>5, SizesAre DEF Seqn
<1> HIDE DEF x, y, z, q
<1> QED BY <1>1, <1>7, <1>8, <1>9, <1>10 DEF Windows

\* So does a sweep.
LEMMA SweptTyped ==
  ASSUME NEW w \in Windows, NEW m \in Nat
  PROVE  Swept(w, m) \in Seq(Packet)
<1> DEFINE f == CHOOSE g : Sweeps(g, w, m)
<1>1. Swept(w, m) = f[m]
  BY DEF Swept, Sweeps, More
<1>2. Sweeps(f, w, m)
  BY SweepExists
<1> HIDE DEF f
<1>3. f = [k \in 0..m |-> IF k = 0 THEN <<>> ELSE More(w, f[k-1], k)]
  BY <1>2 DEF Sweeps
<1> DEFINE Good == {k \in Nat : k <= m => f[k] \in Seq(Packet)}
<1>4. 0 \in Good
  <2>1. 0 \in 0..m
    OBVIOUS
  <2>2. f[0] = <<>>
    BY <1>3, <2>1
  <2>3. <<>> \in Seq(Packet)
    OBVIOUS
  <2> QED BY <2>2, <2>3
<1>5. ASSUME NEW k \in Good PROVE k + 1 \in Good
  <2>1. k \in Nat /\ k + 1 \in Nat
    OBVIOUS
  <2>2. ASSUME k + 1 <= m PROVE f[k+1] \in Seq(Packet)
    <3>1. k <= m /\ k + 1 \in 0..m /\ k + 1 # 0 /\ (k + 1) - 1 = k
      BY <2>1, <2>2
    <3>2. f[k] \in Seq(Packet)
      BY <3>1
    <3>3. f[k+1] = More(w, f[k], k + 1)
      <4>1. f[k+1] = More(w, f[(k+1)-1], k + 1)
        BY <1>3, <3>1
      <4> QED BY <3>1, <4>1
    <3>4. w.base \in Int /\ w.base + (k + 1) - 1 = w.base + k
      BY <2>1, SizesAre DEF Windows, Seqn
    <3> DEFINE p == w.slots[SlotOf(w.base + k)]
    <3>5. p \in Content
      BY <2>1, SlotsOf
    <3>6. f[k+1] = IF p = NoPacket THEN f[k] ELSE Append(f[k], p)
      BY <3>3, <3>4 DEF More
    <3> HIDE DEF p
    <3>7. p # NoPacket => p \in Packet
      BY <3>5 DEF Content
    <3> QED BY <3>2, <3>6, <3>7
  <2> QED BY <2>1, <2>2
<1>6. Good = Nat
  <2>1. Good \in SUBSET Nat
    OBVIOUS
  <2> HIDE DEF Good
  <2> QED BY <1>4, <1>5, <2>1, Reached
<1> QED BY <1>1, <1>6

\* A distance is a number.
LEMMA DiffTyped == \A a, b \in Int : Diff(a, b) \in Int
<1> SUFFICES ASSUME NEW a \in Int, NEW b \in Int PROVE Diff(a, b) \in Int
  OBVIOUS
<1>1. (a - b) % SeqMod \in Int /\ SeqMod \in Int
  BY SizesAre, ModIs
<1> QED BY <1>1 DEF Diff

\* So does a forced flush.
LEMMA ForceFlushTyped ==
  ASSUME NEW w \in Windows, NEW s \in Int, Diff(s, w.base) >= Window
  PROVE  ForceFlush(w, s) \in Windows
<1> DEFINE n == Diff(s, w.base) - Window + 1
           m == Min({n, Window})
           sent == Swept(w, m)
           v == Advanced(w, n, sent)
<1>1. ForceFlush(w, s) = v
  BY DEF ForceFlush
<1>2. /\ w.slots \in [Ring -> Content] /\ w.base \in Int /\ w.count \in Int
      /\ w.out \in Seq(Packet)
  BY SizesAre DEF Windows, Seqn
<1>3. n \in Nat
  <2>1. Diff(s, w.base) \in Int /\ Window \in Nat
    BY <1>2, DiffTyped, SizesAre
  <2> QED BY <2>1
<1> HIDE DEF n
<1>4. m \in Nat
  <2>1. {n, Window} \in SUBSET Nat /\ {n, Window} # {}
    BY <1>3, SizesAre
  <2>2. m \in {n, Window}
    BY <2>1, LowestIs
  <2> QED BY <2>1, <2>2
<1> HIDE DEF m
<1>5. sent \in Seq(Packet)
  BY <1>4, SweptTyped
<1> HIDE DEF sent
<1>6. w.out \o sent \in Seq(Packet) /\ Len(sent) \in Nat
  BY <1>2, <1>5
<1>7. (w.base + n) % SeqMod \in Seqn
  <2>1. w.base + n \in Int
    BY <1>2, <1>3
  <2> QED BY <2>1, SizesAre, ModIs DEF Seqn
<1>8. (w.count - Len(sent)) % SeqMod \in Seqn
  <2>1. w.count - Len(sent) \in Int
    BY <1>2, <1>6
  <2> QED BY <2>1, SizesAre, ModIs DEF Seqn
<1>9. [i \in Ring |-> IF (i - w.base) % Window < n THEN NoPacket ELSE w.slots[i]] \in [Ring -> Content]
  BY <1>2 DEF Content
<1>10. v \in Windows
  BY <1>6, <1>7, <1>8, <1>9 DEF Windows, Advanced
<1> QED BY <1>1, <1>10

\* So does an insertion.
LEMMA InsertTyped ==
  ASSUME Here \in Windows, phase \in 0..2, NEW p \in Packet, Insert(p, FALSE)
  PROVE  phase' \in 0..2 /\ \E v \in Windows : Become(v)
<1> DEFINE s == Store(Here, p)
           q == SeqOf(p)
<1>1. p \in Int /\ q \in Seqn /\ q \in Int
  BY PacketsAre, SeqOfIs
<1>2. s \in Windows /\ [s EXCEPT !.base = q] \in Windows
  BY <1>1, StoreIs, Rebased
<1>3. base \in Int /\ base \in Seqn
  BY SizesAre, HereFields DEF Windows, Seqn
<1>4. CASE InsertFirst(p)
  BY <1>2, <1>4 DEF InsertFirst
<1>5. CASE InsertCollecting(p, FALSE)
  <2> DEFINE w == IF slots[SlotOf(q)] # NoPacket THEN Here
                  ELSE [s EXCEPT !.base = IF Diff(q, base) < 0 THEN q ELSE base]
  <2>1. w \in Windows
    <3> DEFINE b == IF Diff(q, base) < 0 THEN q ELSE base
    <3>1. b \in Seqn
      BY <1>1, <1>3
    <3> HIDE DEF b, s
    <3>2. [s EXCEPT !.base = b] \in Windows
      BY <1>2, <3>1 DEF Windows
    <3> QED BY <3>2 DEF b
  <2>2. IF w.count >= InitCollect THEN phase' = 2 /\ Become(Flush(w, FALSE))
        ELSE phase' = 1 /\ Become(w)
    BY <1>5 DEF InsertCollecting
  <2> HIDE DEF w
  <2> DEFINE z == Flush(w, FALSE)
  <2>3. z \in Windows
    BY <2>1, FlushTyped
  <2>4. CASE phase' = 2 /\ Become(z)
    <3> HIDE DEF z
    <3> QED BY <2>3, <2>4
  <2>5. CASE phase' = 1 /\ Become(w)
    BY <2>1, <2>5
  <2> QED BY <2>2, <2>4, <2>5
<1>6. CASE InsertExpected(p, FALSE)
  <2> DEFINE x == (base + 1) % SeqMod
             o == <<p>>
  <2>1. x \in Seqn /\ o \in Seq(Packet)
    <3>1. base + 1 \in Int
      BY <1>3
    <3>2. x \in Seqn
      BY <3>1, SizesAre, ModIs DEF Seqn
    <3>3. o \in Seq(Packet)
      OBVIOUS
    <3> QED BY <3>2, <3>3
  <2>2. \/ Become([Here EXCEPT !.base = x, !.out = o])
        \/ Become(Flush(s, FALSE))
    BY <1>6 DEF InsertExpected
  <2>3. phase' = phase
    BY <1>6 DEF InsertExpected
  <2> HIDE DEF x, o, s
  <2>4. [Here EXCEPT !.base = x, !.out = o] \in Windows
    BY <2>1 DEF Windows
  <2> DEFINE z == Flush(s, FALSE)
  <2>5. z \in Windows
    BY <1>2, FlushTyped
  <2>6. Become([Here EXCEPT !.base = x, !.out = o]) \/ Become(z)
    BY <2>2
  <2> HIDE DEF z
  <2> QED BY <2>3, <2>4, <2>5, <2>6
<1>7. CASE InsertLate(p)
  BY <1>7 DEF InsertLate
<1>8. CASE InsertAhead(p, FALSE)
  <2> DEFINE w == IF Diff(q, base) >= Window THEN ForceFlush(Here, q) ELSE Here
  <2>1. w \in Windows
    BY <1>1, HereFields, ForceFlushTyped
  <2>2. Become(IF Holds(w, q) THEN w ELSE Store(w, p)) /\ phase' = phase
    BY <1>8 DEF InsertAhead, Recover
  <2> HIDE DEF w
  <2> QED BY <2>1, <2>2, StoreIs
<1> QED BY <1>4, <1>5, <1>6, <1>7, <1>8 DEF Insert

\* What a packet that fits does to the window, from one call to the next.
Took(p, b, c) ==
  /\ Settled(c)' /\ phase' \in 1..2 /\ phase <= phase'
  /\ Held(slots') \subseteq Held(slots) \cup {p}
  /\ Held(slots) \cup {p} \subseteq Held(slots') \cup (IF phase' = 2 THEN 0..c-1 ELSE {})
  /\ phase' = 1 => out' = <<>>
  /\ phase' = 2 => \E a \in Nat : /\ a <= c /\ a..c-1 \subseteq Held(slots) \cup {p}
                                  /\ IF phase = 2 THEN a = b ELSE a \in Held(slots) \cup {p}
                                  /\ {out'[i] : i \in 1..Len(out')} = a..c-1

\* An insertion of a packet that fits takes it.
LEMMA InsertTook ==
  ASSUME NEW b, Settled(b), NEW p \in Packet, Fits(p, b), InitCollect >= 2, Window >= 2,
         Insert(p, FALSE)
  PROVE  \E c \in Nat : Took(p, b, c)
<1>1. PICK v, c : c \in Nat /\ Become(v) /\ Taken(p, b, v, phase', c)
  BY InsertTaken
<1>2. /\ slots' = v.slots /\ base' = v.base /\ count' = v.count
      /\ groups' = v.groups /\ minEnd' = v.minEnd /\ out' = v.out
  BY <1>1 DEF Become
<1>3. /\ phase' \in 1..2 /\ phase <= phase' /\ Exact(v, phase', c)
      /\ phase' = 1 => v.out = <<>> /\ v.count < InitCollect
  BY <1>1 DEF Taken
<1>4. v \in Windows
  BY <1>3 DEF Exact
<1>5. Here' \in Windows'
  <2>1. <<>> \in Seq(Packet)
    OBVIOUS
  <2> QED BY <1>2, <1>4, <2>1 DEF Windows, Here
<1>6. Exact(Here, phase, c)'
  <2>1. Placed(Here, c)'
    BY <1>2, <1>3 DEF Exact, Placed, Here
  <2> QED BY <1>2, <1>3, <1>5, <2>1 DEF Exact, Here
<1>7. Settled(c)'
  BY <1>1, <1>2, <1>3, <1>5, <1>6 DEF Settled
<1>8. Took(p, b, c)
  BY <1>1, <1>2, <1>3, <1>7 DEF Took, Taken
<1> QED BY <1>1, <1>8

\* What a caller may take from the window between two calls.
LEMMA SettledIs ==
  ASSUME NEW b, Settled(b)
  PROVE  /\ b \in Nat /\ phase \in 0..2
         /\ phase = 0 => Held(slots) = {}
         /\ phase = 1 => b \in Held(slots)
         /\ phase = 2 => b \notin Held(slots)
         /\ phase # 0 => Held(slots) \subseteq b..b+Window-1
         /\ Held(slots) = {} => count = 0
<1>1. /\ b \in Nat /\ phase \in 0..2
      /\ phase = 0 => Held(slots) = {} /\ count = 0
      /\ phase # 0 => Exact(Here, phase, b)
  BY DEF Settled
<1>2. CASE phase = 0
  BY <1>1, <1>2
<1>3. CASE phase # 0
  <2>1. /\ Here \in Windows /\ Placed(Here, b) /\ count = Cardinality(Held(slots))
        /\ phase = 1 => b \in Held(slots)
        /\ phase = 2 => b \notin Held(slots)
    BY <1>1, <1>3, HereFields DEF Exact
  <2>2. Held(slots) \subseteq b..b+Window-1
    BY <1>1, <2>1, HeldIs, HereFields
  <2> QED BY <1>1, <1>3, <2>1, <2>2, FS_EmptySet
<1> QED BY <1>2, <1>3

\* No run of packets as long as the collection is held while it lasts.
LEMMA CollectedRun ==
  ASSUME NEW b, Settled(b), phase = 1, NEW f \in Int, NEW g \in Int, f..g \subseteq Held(slots),
         f <= g
  PROVE  g - f + 1 < InitCollect
<1>1. /\ b \in Nat /\ Here \in Windows /\ Placed(Here, b)
      /\ count = Cardinality(Held(slots)) /\ count < InitCollect
  BY HereFields DEF Settled, Exact
<1>2. IsFiniteSet(Held(slots)) /\ Cardinality(Held(slots)) \in 0..Window
  BY <1>1, HeldIs, HereFields
<1>3. Cardinality(f..g) <= Cardinality(Held(slots))
  BY <1>2, FS_Subset
<1>4. Cardinality(f..g) = g - f + 1
  BY FS_Interval
<1> DEFINE n == Cardinality(Held(slots))
<1>5. n \in Int /\ g - f + 1 <= n /\ n < InitCollect
  BY <1>1, <1>2, <1>3, <1>4
<1> HIDE DEF n
<1> QED BY <1>5, WindowAssumption
=============================================================================
