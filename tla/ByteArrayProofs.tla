--------------------------- MODULE ByteArrayProofs ---------------------------
(***************************************************************************)
(* Proofs about ByteArray, for any block size, contents and capacity: the  *)
(* cursor is where the position says, so that no copy runs off the list of *)
(* blocks, and the blocks are the byte sequence of ByteStream.             *)
(***************************************************************************)
EXTENDS ByteArray, SequenceTheorems, WellFoundedInduction, TLAPS

-----------------------------------------------------------------------------
(* Blocks and positions                                                    *)

Blocks == [0 .. m_baseSize - 1 -> Junk .. 2 * H - 1]

LEMMA Constants ==
    /\ m_baseSize \in Nat /\ m_baseSize > 0 /\ H \in Nat /\ H > 1 /\ UINT \in Nat /\ UINT > 0
    /\ MaxSize \in Nat /\ Groups \in Nat
    /\ FUINT \in Nat /\ FUINT > 0 /\ FUINT <= (2 * H) * (2 * H)
BY ByteArrayAssumption

LEMMA DivMod ==
    \A x \in Nat : /\ x = (x \div m_baseSize) * m_baseSize + (x % m_baseSize)
                   /\ x \div m_baseSize \in Nat /\ x % m_baseSize \in 0 .. m_baseSize - 1
BY Constants

LEMMA DivType == \A x \in Nat : x \div m_baseSize \in Nat /\ x % m_baseSize \in Nat
BY DivMod, Constants

LEMMA TimesType == \A x \in Nat : x * m_baseSize \in Nat
BY Constants

LEMMA DivUnique ==
    \A x \in Nat : \A q \in Int : \A r \in 0 .. m_baseSize - 1 :
        x = q * m_baseSize + r => q = x \div m_baseSize /\ r = x % m_baseSize
BY Constants

LEMMA DivLess == \A x, n \in Nat : x \div m_baseSize < n <=> x < n * m_baseSize
BY Constants, DivMod

\* Going on from offset p % m_baseSize of block p / m_baseSize is going on from p.
LEMMA DivAdd ==
    ASSUME NEW p \in Nat, NEW x \in Nat
    PROVE  /\ (p \div m_baseSize) + ((p % m_baseSize) + x) \div m_baseSize
                = (p + x) \div m_baseSize
           /\ ((p % m_baseSize) + x) % m_baseSize = (p + x) % m_baseSize
<1> DEFINE q == p \div m_baseSize
           r == p % m_baseSize
           y == r + x
           u == y \div m_baseSize
           v == y % m_baseSize
<1>1. p = q * m_baseSize + r /\ q \in Nat /\ r \in Nat
  BY DivMod, Constants
<1>2. y \in Nat
  BY <1>1
<1>3. y = u * m_baseSize + v /\ u \in Nat /\ v \in 0 .. m_baseSize - 1
  BY <1>2, DivMod
<1> HIDE DEF q, r, u, v
<1>4. p + x = (q + u) * m_baseSize + v
  BY <1>1, <1>3, Constants
<1>5. q + u \in Int /\ p + x \in Nat
  BY <1>1, <1>3
<1>6. q + u = (p + x) \div m_baseSize /\ v = (p + x) % m_baseSize
  BY <1>3, <1>4, <1>5, DivUnique
<1>7. QED
  BY <1>6 DEF q, r, u, v

\* What the invariants say of a ByteArray that has not met a null block.
Sound ==
    /\ nodes \in Seq(Blocks) /\ Len(nodes) \in Nat
    /\ m_position \in Nat /\ m_size \in Nat
    /\ m_position <= m_size /\ m_size <= m_capacity
    /\ m_capacity = Len(nodes) * m_baseSize /\ m_capacity \in Nat
    /\ m_cur = IF m_position = m_capacity THEN Null ELSE m_position \div m_baseSize + 1

LEMMA SoundInv == TypeOK /\ Cursor /\ fault = NoFault => Sound
<1> SUFFICES ASSUME TypeOK, Cursor, fault = NoFault PROVE Sound
  OBVIOUS
<1>1. nodes \in Seq(Blocks) /\ m_capacity = Len(nodes) * m_baseSize
      /\ m_position \in Nat /\ m_size \in Nat
  BY DEF TypeOK, Blocks
<1>2. Len(nodes) \in Nat
  BY <1>1, LenProperties
<1>3. m_capacity \in Nat
  BY <1>1, <1>2, Constants
<1>4. QED
  BY <1>1, <1>2, <1>3 DEF Cursor, Sound

\* Where a position is in a list of blocks.
Place(list, v) == IF v = Len(list) * m_baseSize THEN Null ELSE v \div m_baseSize + 1

LEMMA PlaceType ==
    ASSUME NEW list, Len(list) \in Nat, NEW v \in Nat, v <= Len(list) * m_baseSize
    PROVE  Place(list, v) \in 0 .. Len(list)
<1>1. v # Len(list) * m_baseSize => v < Len(list) * m_baseSize
  BY Constants
<1>2. v # Len(list) * m_baseSize => v \div m_baseSize < Len(list)
  BY <1>1, DivLess
<1>3. v \div m_baseSize \in Nat
  BY DivType
<1>4. v \div m_baseSize < Len(list) => v \div m_baseSize + 1 \in 0 .. Len(list)
  BY <1>3
<1>5. QED
  BY <1>2, <1>4 DEF Place, Null

\* setPosition walks to the block of the position.
LEMMA BlockOfPlace ==
    ASSUME NEW list, Len(list) \in Nat, NEW v \in Nat, v <= Len(list) * m_baseSize
    PROVE  BlockOf(list, v) = Place(list, v)
<1>1. v # Len(list) * m_baseSize <=> v < Len(list) * m_baseSize
  BY Constants
<1>2. v # Len(list) * m_baseSize <=> v \div m_baseSize < Len(list)
  BY <1>1, DivLess
<1>3. QED
  BY <1>2 DEF Place, BlockOf

\* A copy ends in the block of the position it ends at.
LEMMA AdvancePlace ==
    ASSUME NEW list, Len(list) \in Nat, m_position \in Nat, NEW size \in Nat,
           m_position + size <= Len(list) * m_baseSize
    PROVE  Advance(list, m_position \div m_baseSize + 1, size) = Place(list, m_position + size)
<1> DEFINE v == m_position + size
<1>0. v \in Nat
  OBVIOUS
<1>1. v \in Nat /\ v \div m_baseSize \in Nat /\ m_position \div m_baseSize \in Nat
  BY <1>0, DivType
<1>2. (m_position \div m_baseSize) + (npos + size) \div m_baseSize = v \div m_baseSize
  BY DivAdd DEF npos
<1>3. (npos + size) \div m_baseSize \in Nat
  <2>1. npos + size \in Nat
    BY DivMod, Constants DEF npos
  <2>2. QED
    BY <2>1, DivMod
<1>4. m_position \div m_baseSize + 1 + (npos + size) \div m_baseSize = v \div m_baseSize + 1
  BY <1>1, <1>2, <1>3
<1>5. v # Len(list) * m_baseSize <=> v < Len(list) * m_baseSize
  BY Constants, <1>1
<1>6. v # Len(list) * m_baseSize <=> v \div m_baseSize < Len(list)
  BY <1>1, <1>5, DivLess
<1> HIDE DEF v
<1>7. v \div m_baseSize + 1 <= Len(list) <=> v \div m_baseSize < Len(list)
  BY <1>1
<1>8. QED
  BY <1>4, <1>6, <1>7 DEF Place, Advance, v

\* A copy inside the blocks meets no null block.
LEMMA CopyInChain ==
    ASSUME NEW list, Len(list) \in Nat, m_position \in Nat, NEW size \in Nat \ {0},
           m_position + size <= Len(list) * m_baseSize
    PROVE  InChain(list, m_position \div m_baseSize + 1, size)
<1> DEFINE q == m_position \div m_baseSize
           x == size - 1
<1>1. x \in Nat /\ m_position + x \in Nat /\ q \in Nat /\ npos \in Nat
  BY DivMod, Constants DEF npos
<1>2. q + (npos + x) \div m_baseSize = (m_position + x) \div m_baseSize
  BY <1>1, DivAdd DEF npos
<1>3. (npos + x) \div m_baseSize \in Nat
  <2>1. npos + x \in Nat
    BY <1>1
  <2>2. QED
    BY <2>1, DivType
<1>4. m_position + x < Len(list) * m_baseSize
  BY Constants
<1>5. (m_position + x) \div m_baseSize < Len(list)
  BY <1>1, <1>4, DivLess
<1>6. npos + size - 1 = npos + x
  BY <1>1
<1> HIDE DEF q, x
<1>7. q + 1 + (npos + x) \div m_baseSize <= Len(list) /\ q + 1 # 0
  BY <1>1, <1>2, <1>3, <1>5
<1>8. QED
  BY <1>6, <1>7 DEF InChain, Null, q

\* addCapacity: the list is long enough, and m_cur is the block of the position.
LEMMA GrownFacts ==
    ASSUME Sound, NEW size \in Nat \ {0}
    PROVE  /\ Count(size) \in Nat
           /\ Grown(size) \in Seq(Blocks) /\ Len(Grown(size)) = Len(nodes) + Count(size)
           /\ \A n \in 1 .. Len(nodes) : Grown(size)[n] = nodes[n]
           /\ Len(Grown(size)) \in Nat
           /\ m_capacity + Count(size) * m_baseSize = Len(Grown(size)) * m_baseSize
           /\ m_position + size <= Len(Grown(size)) * m_baseSize
           /\ m_capacity <= Len(Grown(size)) * m_baseSize
           /\ CurGrown(size) = m_position \div m_baseSize + 1
<1> USE DEF Sound
<1> DEFINE need == size - getCapacity
           up == need + m_baseSize - 1
<1>1. getCapacity \in Nat /\ need \in Int
  BY DEF getCapacity
<1>2. ASSUME getCapacity < size
      PROVE  /\ up \in Nat /\ up \div m_baseSize \in Nat
             /\ (up \div m_baseSize) * m_baseSize >= need
  <2>1. up \in Nat
    BY <1>1, <1>2, Constants
  <2>2. /\ up = (up \div m_baseSize) * m_baseSize + (up % m_baseSize)
        /\ up \div m_baseSize \in Nat /\ up % m_baseSize \in 0 .. m_baseSize - 1
    BY <2>1, DivMod
  <2> DEFINE q == up \div m_baseSize
             w == q * m_baseSize
  <2>3. w \in Nat
    BY <2>2, TimesType
  <2>4. w >= need
    <3> HIDE DEF w
    <3>1. up = w + (up % m_baseSize)
      BY <2>2 DEF w
    <3>2. QED
      BY <1>1, <2>2, <2>3, <3>1, Constants
  <2>5. QED
    BY <2>1, <2>2, <2>4
<1>3. Count(size) \in Nat /\ Count(size) * m_baseSize >= need /\ Count(size) * m_baseSize \in Nat
  <2>1. CASE getCapacity >= size
    <3>1. Count(size) = 0 /\ need <= 0
      BY <1>1, <2>1 DEF Count
    <3>2. QED
      BY <3>1, <1>1, Constants
  <2>2. CASE getCapacity < size
    <3>1. Count(size) = up \div m_baseSize
      BY <1>1, <2>2 DEF Count
    <3>2. QED
      BY <3>1, <1>2, <2>2, Constants
  <2>3. QED
    BY <1>1, <2>1, <2>2
<1>4. [i \in 1 .. Count(size) |-> Block] \in Seq(Blocks)
      /\ Len([i \in 1 .. Count(size) |-> Block]) = Count(size)
  <2>1. Block \in Blocks
    BY Constants DEF Block, Blocks, Junk
  <2> HIDE DEF Sound
  <2>2. QED
    BY <1>3, <2>1
<1>5. Grown(size) \in Seq(Blocks) /\ Len(Grown(size)) = Len(nodes) + Count(size)
      /\ \A n \in 1 .. Len(nodes) : Grown(size)[n] = nodes[n]
  BY <1>3, <1>4, ConcatProperties DEF Grown
<1>6. (Len(nodes) + Count(size)) * m_baseSize = Len(nodes) * m_baseSize + Count(size) * m_baseSize
  BY <1>3, Constants
<1>7. m_capacity + Count(size) * m_baseSize = Len(Grown(size)) * m_baseSize
  BY <1>5, <1>6
<1>8. m_position + size <= m_capacity + Count(size) * m_baseSize
  BY <1>3 DEF getCapacity
<1>9. CurGrown(size) = m_position \div m_baseSize + 1
  <2>1. getCapacity = 0 <=> m_position = m_capacity
    BY DEF getCapacity
  <2>2. m_position = m_capacity => m_position \div m_baseSize = Len(nodes)
    <3>1. m_capacity = Len(nodes) * m_baseSize + 0 /\ 0 \in 0 .. m_baseSize - 1
      BY Constants
    <3>2. QED
      BY <3>1, DivUnique
  <2>3. QED
    BY <2>1, <2>2 DEF CurGrown
<1>10. m_capacity <= m_capacity + Count(size) * m_baseSize
  BY <1>3
<1>11. QED
  BY <1>3, <1>5, <1>7, <1>8, <1>9, <1>10

-----------------------------------------------------------------------------
(* What copies move                                                        *)

\* Byte i of a list of blocks.
ByteAt(list, i) == list[(i - 1) \div m_baseSize + 1][(i - 1) % m_baseSize]

LEMMA ByteAtType ==
    ASSUME NEW list \in Seq(Blocks), NEW i \in 1 .. Len(list) * m_baseSize
    PROVE  /\ (i - 1) \div m_baseSize + 1 \in 1 .. Len(list)
           /\ (i - 1) % m_baseSize \in 0 .. m_baseSize - 1
           /\ ByteAt(list, i) \in Junk .. 2 * H - 1
<1>1. i - 1 \in Nat /\ Len(list) \in Nat /\ i - 1 < Len(list) * m_baseSize
  <2>1. Len(list) \in Nat
    BY LenProperties
  <2>2. Len(list) * m_baseSize \in Nat
    BY <2>1, TimesType
  <2>3. QED
    BY <2>1, <2>2
<1>2. (i - 1) \div m_baseSize \in Nat /\ (i - 1) \div m_baseSize < Len(list)
  BY <1>1, DivType, DivLess
<1>3. (i - 1) \div m_baseSize + 1 \in 1 .. Len(list)
  BY <1>1, <1>2
<1>4. (i - 1) % m_baseSize \in 0 .. m_baseSize - 1
  BY <1>1, DivMod
<1>5. list[(i - 1) \div m_baseSize + 1] \in Blocks
  BY <1>3, ElementOfSeq
<1>6. QED
  BY <1>3, <1>4, <1>5 DEF ByteAt, Blocks

LEMMA StoreFacts ==
    ASSUME NEW list \in Seq(Blocks), NEW buf \in Seq(Byte), m_position \in Nat
    PROVE  LET stored == Store(list, m_position \div m_baseSize + 1, buf) IN
           /\ stored \in Seq(Blocks) /\ Len(stored) = Len(list)
           /\ \A i \in 1 .. Len(list) * m_baseSize :
                 ByteAt(stored, i) = IF i - m_position \in 1 .. Len(buf)
                                     THEN buf[i - m_position] ELSE ByteAt(list, i)
<1> DEFINE cur == m_position \div m_baseSize + 1
           stored == Store(list, cur, buf)
           at(n, o) == (n - cur) * m_baseSize + o - npos + 1
<1>1. /\ Len(list) \in Nat /\ DOMAIN list = 1 .. Len(list)
      /\ Len(buf) \in Nat /\ DOMAIN buf = 1 .. Len(buf)
      /\ cur \in Nat /\ npos \in Nat
      /\ m_position = (cur - 1) * m_baseSize + npos
  <2>1. /\ m_position = (m_position \div m_baseSize) * m_baseSize + npos
        /\ m_position \div m_baseSize \in Nat /\ npos \in Nat
    BY DivMod, Constants DEF npos
  <2>2. (m_position \div m_baseSize + 1) - 1 = m_position \div m_baseSize
    BY <2>1
  <2>3. QED
    BY <2>1, <2>2, LenProperties
<1>2. stored = [n \in 1 .. Len(list) |-> [o \in 0 .. m_baseSize - 1 |->
                  IF at(n, o) \in 1 .. Len(buf) THEN buf[at(n, o)] ELSE list[n][o]]]
  BY <1>1 DEF Store
<1> HIDE DEF stored, cur, at
<1>3. \A n \in 1 .. Len(list) : stored[n] \in Blocks
  <2> SUFFICES ASSUME NEW n \in 1 .. Len(list) PROVE stored[n] \in Blocks
    OBVIOUS
  <2>1. list[n] \in Blocks
    BY ElementOfSeq
  <2>2. ASSUME NEW o \in 0 .. m_baseSize - 1
        PROVE  (IF at(n, o) \in 1 .. Len(buf) THEN buf[at(n, o)] ELSE list[n][o])
                  \in Junk .. 2 * H - 1
    <3>1. list[n][o] \in Junk .. 2 * H - 1
      BY <2>1 DEF Blocks
    <3>2. at(n, o) \in 1 .. Len(buf) => buf[at(n, o)] \in Byte
      BY ElementOfSeq
    <3>3. \A b \in Byte : b \in Junk .. 2 * H - 1
      BY Constants DEF Byte, Junk
    <3>4. QED
      BY <3>1, <3>2, <3>3
  <2>3. QED
    BY <1>2, <2>2 DEF Blocks
<1>4. stored \in Seq(Blocks) /\ Len(stored) = Len(list)
  <2>1. stored \in [1 .. Len(list) -> Blocks]
    BY <1>2, <1>3
  <2>2. QED
    BY <1>1, <2>1
<1>5. ASSUME NEW i \in 1 .. Len(list) * m_baseSize
      PROVE  ByteAt(stored, i) = IF i - m_position \in 1 .. Len(buf)
                                 THEN buf[i - m_position] ELSE ByteAt(list, i)
  <2> DEFINE n == (i - 1) \div m_baseSize + 1
             o == (i - 1) % m_baseSize
  <2>1. n \in 1 .. Len(list) /\ o \in 0 .. m_baseSize - 1
    BY ByteAtType
  <2>2. i \in Nat /\ i - 1 \in Nat
    BY <1>1, TimesType
  <2>3. i - 1 = ((i - 1) \div m_baseSize) * m_baseSize + o /\ (i - 1) \div m_baseSize \in Nat
    BY <2>2, DivMod
  <2>4. (i - 1) \div m_baseSize = n - 1
    BY <2>3
  <2> HIDE DEF n, o
  <2>5. i - 1 = (n - 1) * m_baseSize + o
    BY <2>3, <2>4
  <2>6. (n - cur) * m_baseSize = (n - 1) * m_baseSize - (cur - 1) * m_baseSize
    BY <1>1, <2>1, Constants
  <2>7. at(n, o) = i - m_position
    <3>1. (n - 1) * m_baseSize \in Nat /\ (cur - 1) * m_baseSize \in Int
      BY <1>1, <2>1, Constants
    <3>2. QED
      BY <1>1, <2>1, <2>2, <2>5, <2>6, <3>1, Constants DEF at
  <2>8. stored[n][o] = IF at(n, o) \in 1 .. Len(buf) THEN buf[at(n, o)] ELSE list[n][o]
    BY <1>2, <2>1
  <2>9. QED
    BY <2>7, <2>8 DEF ByteAt, n, o
<1>6. QED
  BY <1>4, <1>5 DEF stored, cur

LEMMA FetchFacts ==
    ASSUME Sound, NEW size \in Nat \ {0}, m_position + size <= m_capacity
    PROVE  /\ Fetch(size) = [i \in 1 .. size |-> ByteAt(nodes, m_position + i)]
           /\ Fetch(size) \in Seq(Junk .. 2 * H - 1) /\ Len(Fetch(size)) = size
<1> USE DEF Sound
<1>1. m_cur = m_position \div m_baseSize + 1
  OBVIOUS
<1>2. ASSUME NEW i \in 1 .. size
      PROVE  /\ nodes[m_cur + (npos + i - 1) \div m_baseSize][(npos + i - 1) % m_baseSize]
                  = ByteAt(nodes, m_position + i)
             /\ ByteAt(nodes, m_position + i) \in Junk .. 2 * H - 1
  <2> DEFINE x == i - 1
  <2>1. x \in Nat /\ npos \in Nat /\ m_position \div m_baseSize \in Nat
    <3>1. npos \in Nat /\ m_position \div m_baseSize \in Nat
      BY DivType DEF npos
    <3>2. QED
      BY <3>1
  <2>2. npos + i - 1 = npos + x /\ m_position + i - 1 = m_position + x
    BY <2>1
  <2>3. /\ (m_position \div m_baseSize) + (npos + x) \div m_baseSize = (m_position + x) \div m_baseSize
        /\ (npos + x) % m_baseSize = (m_position + x) % m_baseSize
    BY <2>1, DivAdd DEF npos
  <2>4. (npos + x) \div m_baseSize \in Nat
    <3>1. npos + x \in Nat
      BY <2>1
    <3>2. QED
      BY <3>1, DivType
  <2>5. m_cur + (npos + x) \div m_baseSize = (m_position + x) \div m_baseSize + 1
    BY <1>1, <2>1, <2>3, <2>4
  <2>6. m_position + i \in 1 .. Len(nodes) * m_baseSize
    BY TimesType
  <2> HIDE DEF x
  <2>7. QED
    BY <2>2, <2>3, <2>5, <2>6, ByteAtType DEF ByteAt
<1>3. Fetch(size) = [i \in 1 .. size |-> ByteAt(nodes, m_position + i)]
  BY <1>2 DEF Fetch, ReadAt, npos
<1>4. Fetch(size) \in [1 .. size -> Junk .. 2 * H - 1]
  BY <1>2, <1>3
<1>5. QED
  BY <1>3, <1>4

-----------------------------------------------------------------------------
(* What the operations do to the blocks                                    *)

\* write and SocketStream's read: len bytes of room, k of them filled.
LEMMA WriteFacts ==
    ASSUME Sound, NEW len \in Nat \ {0}, NEW buf \in Seq(Byte), Len(buf) <= len,
           nodes' = Store(Grown(len), CurGrown(len), buf),
           m_capacity' = m_capacity + Count(len) * m_baseSize,
           m_position' = m_position + Len(buf),
           m_size' = Max2(m_size, m_position'),
           m_cur' = Place(Grown(len), m_position + Len(buf))
    PROVE  /\ Sound' /\ Len(nodes') >= Len(nodes)
           /\ m_size' >= m_size
           /\ \A i \in 1 .. m_size' :
                ByteAt(nodes', i) = IF i - m_position \in 1 .. Len(buf)
                                    THEN buf[i - m_position] ELSE ByteAt(nodes, i)
<1> DEFINE list == Grown(len)
           k == Len(buf)
<1>1. k \in Nat
  BY LenProperties
<1>2. /\ Count(len) \in Nat
      /\ list \in Seq(Blocks) /\ Len(list) = Len(nodes) + Count(len)
      /\ \A n \in 1 .. Len(nodes) : list[n] = nodes[n]
      /\ Len(list) \in Nat
      /\ m_capacity + Count(len) * m_baseSize = Len(list) * m_baseSize
      /\ m_position + len <= Len(list) * m_baseSize
      /\ m_capacity <= Len(list) * m_baseSize
      /\ CurGrown(len) = m_position \div m_baseSize + 1
  BY GrownFacts
<1>3. m_position \in Nat /\ m_size \in Nat /\ m_position <= m_size /\ m_size <= m_capacity
      /\ m_capacity = Len(nodes) * m_baseSize /\ m_capacity \in Nat /\ Len(nodes) \in Nat
      /\ nodes \in Seq(Blocks)
  BY DEF Sound
<1> HIDE DEF list
<1>4. /\ nodes' \in Seq(Blocks) /\ Len(nodes') = Len(list)
      /\ \A i \in 1 .. Len(list) * m_baseSize :
            ByteAt(nodes', i) = IF i - m_position \in 1 .. Len(buf)
                                THEN buf[i - m_position] ELSE ByteAt(list, i)
  <2>1. nodes' = Store(list, m_position \div m_baseSize + 1, buf)
    BY <1>2 DEF list
  <2>2. QED
    BY <1>2, <1>3, <2>1, StoreFacts
<1>5. Len(list) * m_baseSize \in Nat
  BY <1>2, TimesType
<1>6. m_position' \in Nat /\ m_size' \in Nat /\ m_position' <= m_size'
      /\ m_size' <= Len(list) * m_baseSize /\ m_size' >= m_size
      /\ \A i \in 1 .. m_size' : i - m_position \in 1 .. k \/ i \in 1 .. m_size
  BY <1>1, <1>2, <1>3, <1>5 DEF Max2
<1>7. Sound'
  <2>1. m_capacity' = Len(nodes') * m_baseSize /\ m_capacity' \in Nat
    BY <1>2, <1>4, <1>5 DEF list
  <2>2. m_cur' = IF m_position' = m_capacity' THEN Null ELSE m_position' \div m_baseSize + 1
    BY <1>4, <2>1 DEF Place, list
  <2>3. QED
    BY <1>2, <1>4, <1>6, <2>1, <2>2 DEF Sound
<1>8. ASSUME NEW i \in 1 .. m_size'
      PROVE  ByteAt(nodes', i) = IF i - m_position \in 1 .. Len(buf)
                                 THEN buf[i - m_position] ELSE ByteAt(nodes, i)
  <2>1. i \in 1 .. Len(list) * m_baseSize
    BY <1>5, <1>6
  <2>2. CASE i - m_position \in 1 .. k
    BY <1>4, <2>1, <2>2
  <2>3. CASE i \in 1 .. m_size
    <3>1. i \in 1 .. Len(nodes) * m_baseSize
      BY <1>3, <2>3
    <3>2. (i - 1) \div m_baseSize + 1 \in 1 .. Len(nodes)
      BY <1>3, <3>1, ByteAtType
    <3>3. ByteAt(list, i) = ByteAt(nodes, i)
      BY <1>2, <3>2 DEF ByteAt
    <3>4. QED
      BY <1>4, <2>1, <3>3
  <2>4. QED
    BY <1>6, <2>2, <2>3
<1>9. Len(nodes') >= Len(nodes)
  BY <1>2, <1>3, <1>4
<1>10. QED
  BY <1>1, <1>6, <1>7, <1>8, <1>9

LEMMA PutFacts ==
    ASSUME Sound, NEW buf \in Seq(Byte), buf # <<>>, Put(buf)
    PROVE  /\ Sound' /\ Len(nodes') >= Len(nodes) /\ fault' = NoFault
           /\ Len(buf) \in Nat \ {0} /\ m_size' >= m_size /\ m_position' = m_position + Len(buf)
           /\ \A i \in 1 .. m_size' :
                ByteAt(nodes', i) = IF i - m_position \in 1 .. Len(buf)
                                    THEN buf[i - m_position] ELSE ByteAt(nodes, i)
           /\ m_size' = Max2(m_size, m_position')
<1> DEFINE k == Len(buf)
<1>1. k \in Nat \ {0} /\ k <= k
  BY EmptySeq
<1>2. /\ Len(Grown(k)) \in Nat /\ m_position + k <= Len(Grown(k)) * m_baseSize
      /\ CurGrown(k) = m_position \div m_baseSize + 1
      /\ m_position \in Nat
  BY <1>1, GrownFacts DEF Sound
<1>3. m_cur' = Place(Grown(k), m_position + k)
  BY <1>1, <1>2, AdvancePlace DEF Put
<1>4. InChain(Grown(k), CurGrown(k), k)
  BY <1>1, <1>2, CopyInChain
<1>5. /\ nodes' = Store(Grown(k), CurGrown(k), buf)
      /\ m_capacity' = m_capacity + Count(k) * m_baseSize
      /\ m_position' = m_position + k
      /\ m_size' = Max2(m_size, m_position')
      /\ fault' = NoFault
  BY <1>4 DEF Put
<1>6. QED
  BY <1>1, <1>3, <1>5, WriteFacts

LEMMA RecvFacts ==
    ASSUME Sound, NEW len \in Nat \ {0}, NEW buf \in Seq(Byte), Recv(len, buf)
    PROVE  /\ Sound' /\ Len(nodes') >= Len(nodes) /\ fault' = NoFault
           /\ Len(buf) \in Nat /\ m_size' >= m_size /\ m_position' = m_position + Len(buf)
           /\ \A i \in 1 .. m_size' :
                ByteAt(nodes', i) = IF i - m_position \in 1 .. Len(buf)
                                    THEN buf[i - m_position] ELSE ByteAt(nodes, i)
           /\ m_size' = Max2(m_size, m_position')
<1> DEFINE k == Len(buf)
<1>1. k \in Nat /\ k <= len
  BY LenProperties DEF Recv
<1>2. /\ Len(Grown(len)) \in Nat /\ m_position + len <= Len(Grown(len)) * m_baseSize
      /\ CurGrown(len) = m_position \div m_baseSize + 1
      /\ m_position \in Nat
  BY GrownFacts DEF Sound
<1>3. m_position + k \in Nat /\ m_position + k <= Len(Grown(len)) * m_baseSize
  <2>1. Len(Grown(len)) * m_baseSize \in Nat
    BY <1>2, TimesType
  <2>2. QED
    BY <1>1, <1>2, <2>1
<1>4. m_cur' = Place(Grown(len), m_position + k)
  <2>1. CASE buf # <<>>
    BY <1>2, <1>3, <2>1, BlockOfPlace DEF Recv
  <2>2. CASE buf = <<>>
    <3>1. k = 0 /\ m_position + k = m_position /\ m_cur' = CurGrown(len)
      BY <1>2, <2>2 DEF Recv
    <3>2. m_position # Len(Grown(len)) * m_baseSize
      <4>1. Len(Grown(len)) * m_baseSize \in Nat
        BY <1>2, TimesType
      <4>2. QED
        BY <1>2, <4>1
    <3>3. QED
      BY <1>2, <3>1, <3>2 DEF Place
  <2>3. QED
    BY <2>1, <2>2
<1>5. InChain(Grown(len), CurGrown(len), len)
  BY <1>2, CopyInChain
<1>6. /\ nodes' = Store(Grown(len), CurGrown(len), buf)
      /\ m_capacity' = m_capacity + Count(len) * m_baseSize
      /\ m_position' = m_position + k
      /\ m_size' = Max2(m_size, m_position')
      /\ fault' = NoFault
  BY <1>5 DEF Recv
<1>7. QED
  BY <1>1, <1>4, <1>6, WriteFacts

\* Moving the position inside the blocks.
LEMMA MoveFacts ==
    ASSUME Sound, NEW v \in Nat, v <= m_capacity,
           m_position' = v, m_size' = Max2(m_size, v), m_cur' = Place(nodes, v),
           UNCHANGED <<nodes, m_capacity>>
    PROVE  Sound'
<1>1. m_size' \in Nat /\ v <= m_size' /\ m_size' <= m_capacity
  BY DEF Sound, Max2
<1>2. QED
  BY <1>1 DEF Sound, Place

-----------------------------------------------------------------------------
(* The recursive definitions                                               *)

\* A set of natural numbers that is not empty has a least one.
LEMMA LeastOf ==
    ASSUME NEW T, T \subseteq Nat, T # {}
    PROVE  \E n \in T : \A k \in T : n <= k
<1> DEFINE R == {ss \in Nat \X Nat : ss[1] < ss[2]}
<1>1. IsWellFoundedOn(R, Nat)
  BY NatLessThanWellFounded, Zenon DEF OpToRel
<1>2. PICK n \in T : \A k \in T : ~(<<k, n>> \in R)
  <2> HIDE DEF R
  <2> QED
    BY <1>1, WFMin
<1>3. ASSUME NEW k \in T, k < n PROVE FALSE
  <2>1. <<k, n>> \in Nat \X Nat /\ <<k, n>>[1] < <<k, n>>[2]
    BY <1>3
  <2>2. <<k, n>> \in R
    BY <2>1
  <2>3. QED
    BY <1>2, <2>2
<1>4. QED
  BY <1>3

\* One step of writeUint32's loop, with f for the rest of it ...
Groups1(v, f) == IF v < H THEN <<v>> ELSE <<(v % H) + H>> \o f[v \div H]

\* ... and the function that does so up to n.
UpTo(n, f) == f = [v \in 0 .. n |-> Groups1(v, f)]

LEMMA GroupLess == \A v \in Nat : v >= H => v \div H \in Nat /\ v \div H < v /\ v % H \in 0 .. H - 1
BY Constants

LEMMA UpToAgree ==
    ASSUME NEW n \in Nat, NEW m \in Nat, NEW f, NEW g, UpTo(n, f), UpTo(m, g), 
           NEW v \in Nat, v <= n, v <= m
    PROVE  f[v] = g[v]
<1> DEFINE T == {u \in Nat : u <= n /\ u <= m /\ f[u] # g[u]}
<1> SUFFICES ASSUME T # {} PROVE FALSE
  OBVIOUS
<1>1. PICK u \in T : \A k \in T : u <= k
  <2>1. T \subseteq Nat
    OBVIOUS
  <2> HIDE DEF T
  <2>2. QED
    BY <2>1, LeastOf
<1>2. u \in Nat /\ u \in 0 .. n /\ u \in 0 .. m /\ f[u] # g[u]
  OBVIOUS
<1>3. f[u] = Groups1(u, f) /\ g[u] = Groups1(u, g)
  BY <1>2 DEF UpTo
<1>4. u >= H
  BY <1>2, <1>3, Constants DEF Groups1
<1>5. u \div H \in Nat /\ u \div H < u
  BY <1>2, <1>4, GroupLess
<1>6. u \div H \notin T
  <2> HIDE DEF T
  <2> QED
    BY <1>1, <1>2, <1>5
<1>7. u \div H <= n /\ u \div H <= m
  BY <1>2, <1>5
<1>8. f[u \div H] = g[u \div H]
  BY <1>5, <1>6, <1>7
<1>9. QED
  BY <1>2, <1>3, <1>8 DEF Groups1

LEMMA UpToExists == \A n \in Nat : \E f : UpTo(n, f)
<1> DEFINE T == {n \in Nat : ~\E f : UpTo(n, f)}
<1> SUFFICES ASSUME T # {} PROVE FALSE
  OBVIOUS
<1>1. PICK n \in T : \A k \in T : n <= k
  <2>1. T \subseteq Nat
    OBVIOUS
  <2> HIDE DEF T
  <2>2. QED
    BY <2>1, LeastOf
<1>2. n \in Nat /\ ~\E f : UpTo(n, f)
  OBVIOUS
<1>3. CASE n = 0
  <2> DEFINE f == [v \in 0 .. n |-> <<v>>]
  <2>1. \A v \in 0 .. n : Groups1(v, f) = <<v>>
    BY <1>3, Constants DEF Groups1
  <2>2. UpTo(n, f)
    BY <2>1 DEF UpTo
  <2>3. QED
    BY <1>2, <2>2
<1>4. CASE n # 0
  <2>1. n - 1 \in Nat /\ n - 1 < n
    BY <1>2, <1>4
  <2>2. n - 1 \notin T
    <3> HIDE DEF T
    <3> QED
      BY <1>1, <1>2, <2>1
  <2>3. PICK g : UpTo(n - 1, g)
    BY <2>1, <2>2
  <2> DEFINE f == [v \in 0 .. n |-> Groups1(v, g)]
  <2>4. ASSUME NEW v \in 0 .. n PROVE Groups1(v, f) = Groups1(v, g)
    <3>1. CASE v < H
      BY <3>1 DEF Groups1
    <3>2. CASE ~(v < H)
      <4>1. v \in Nat /\ v >= H
        BY <1>2, <3>2, Constants
      <4>2. v \div H \in Nat /\ v \div H < v
        BY <4>1, GroupLess
      <4>3. v \div H \in 0 .. n - 1 /\ v \div H \in 0 .. n
        BY <1>2, <4>2
      <4>4. f[v \div H] = Groups1(v \div H, g)
        BY <4>3
      <4>5. g[v \div H] = Groups1(v \div H, g)
        BY <2>3, <4>3 DEF UpTo
      <4>6. f[v \div H] = g[v \div H]
        BY <4>4, <4>5
      <4> HIDE DEF f
      <4>7. QED
        BY <4>6 DEF Groups1
    <3>3. QED
      BY <3>1, <3>2
  <2>5. UpTo(n, f)
    BY <2>4 DEF UpTo
  <2>6. QED
    BY <1>2, <2>5
<1>5. QED
  BY <1>3, <1>4

\* writeUint32's encoding is what its definition says.
LEMMA VarintUnfolds == \A v \in Nat : Varint[v] = Groups1(v, Varint)
<1> DEFINE G(n) == CHOOSE f : UpTo(n, f)
           F == [v \in Nat |-> G(v)[v]]
<1>1. \A n \in Nat : UpTo(n, G(n))
  BY UpToExists
<1> HIDE DEF G
<1>2. ASSUME NEW v \in Nat PROVE F[v] = Groups1(v, F)
  <2>1. UpTo(v, G(v)) /\ F[v] = G(v)[v] /\ v \in 0 .. v
    BY <1>1
  <2>2. F[v] = Groups1(v, G(v))
    BY <2>1 DEF UpTo
  <2>3. CASE v < H
    BY <2>2, <2>3 DEF Groups1
  <2>4. CASE ~(v < H)
    <3>1. v \div H \in Nat /\ v \div H < v
      BY <2>4, GroupLess, Constants
    <3>2. UpTo(v \div H, G(v \div H)) /\ F[v \div H] = G(v \div H)[v \div H]
      BY <1>1, <3>1
    <3>3. G(v)[v \div H] = G(v \div H)[v \div H]
      BY <2>1, <3>1, <3>2, UpToAgree
    <3>4. QED
      BY <2>2, <3>2, <3>3 DEF Groups1
  <2>5. QED
    BY <2>3, <2>4
<1>3. F = [v \in Nat |-> IF v < H THEN <<v>> ELSE <<(v % H) + H>> \o F[v \div H]]
  <2>1. F = [v \in Nat |-> F[v]]
    OBVIOUS
  <2> HIDE DEF F
  <2>2. QED
    BY <1>2, <2>1 DEF Groups1
<1> HIDE DEF F
<1>4. Varint = [v \in Nat |-> IF v < H THEN <<v>> ELSE <<(v % H) + H>> \o Varint[v \div H]]
  BY <1>3 DEF Varint
<1>5. QED
  BY <1>4 DEF Groups1

\* An encoded number is at least one byte; all but the last are in the upper half.
Encoded(s) ==
    /\ s \in Seq(Byte) /\ Len(s) \in Nat \ {0}
    /\ s[Len(s)] < H
    /\ \A i \in 1 .. Len(s) - 1 : s[i] >= H

LEMMA VarintEncoded == \A v \in Nat : Encoded(Varint[v])
<1> DEFINE T == {v \in Nat : ~Encoded(Varint[v])}
<1> SUFFICES ASSUME T # {} PROVE FALSE
  OBVIOUS
<1>1. PICK v \in T : \A k \in T : v <= k
  <2>1. T \subseteq Nat
    OBVIOUS
  <2> HIDE DEF T
  <2>2. QED
    BY <2>1, LeastOf
<1>2. v \in Nat /\ ~Encoded(Varint[v])
  OBVIOUS
<1>3. Varint[v] = Groups1(v, Varint)
  BY <1>2, VarintUnfolds
<1>4. CASE v < H
  <2>1. Varint[v] = <<v>> /\ v \in Byte
    BY <1>2, <1>3, <1>4, Constants DEF Groups1, Byte
  <2>2. Encoded(<<v>>)
    BY <1>4, <2>1 DEF Encoded
  <2>3. QED
    BY <1>2, <2>1, <2>2
<1>5. CASE ~(v < H)
  <2> DEFINE d == (v % H) + H
             t == Varint[v \div H]
             s == <<d>> \o t
  <2>1. v \div H \in Nat /\ v \div H < v /\ v % H \in 0 .. H - 1
    BY <1>2, <1>5, GroupLess, Constants
  <2>2. v \div H \notin T
    <3> HIDE DEF T
    <3> QED
      BY <1>1, <1>2, <2>1
  <2>3. Encoded(t)
    BY <2>1, <2>2
  <2>4. d \in Byte /\ d >= H /\ <<d>> \in Seq(Byte) /\ Len(<<d>>) = 1 /\ <<d>>[1] = d
    BY <2>1, Constants DEF Byte
  <2>5. Varint[v] = s
    BY <1>3, <1>5 DEF Groups1
  <2> HIDE DEF d, t
  <2>6. /\ t \in Seq(Byte) /\ Len(t) \in Nat \ {0} /\ t[Len(t)] < H
        /\ \A i \in 1 .. Len(t) - 1 : t[i] >= H
    BY <2>3 DEF Encoded
  <2>7. /\ s \in Seq(Byte) /\ Len(s) = 1 + Len(t)
        /\ \A i \in 1 .. 1 + Len(t) : s[i] = IF i <= 1 THEN <<d>>[i] ELSE t[i - 1]
    BY <2>4, <2>6, ConcatProperties
  <2> HIDE DEF s
  <2>8. s[Len(s)] = t[Len(t)]
    BY <2>6, <2>7
  <2>9. ASSUME NEW i \in 1 .. Len(s) - 1 PROVE s[i] >= H
    <3>1. CASE i = 1
      BY <3>1, <2>4, <2>6, <2>7
    <3>2. CASE i # 1
      <4>1. i - 1 \in 1 .. Len(t) - 1 /\ s[i] = t[i - 1]
        BY <3>2, <2>6, <2>7
      <4>2. QED
        BY <4>1, <2>6
    <3>3. QED
      BY <3>1, <3>2
  <2>10. Encoded(s)
    BY <2>6, <2>7, <2>8, <2>9 DEF Encoded
  <2>11. QED
    BY <1>2, <2>5, <2>10
<1>6. QED
  BY <1>4, <1>5

\* readUint32's loop over the last m bytes of s.
FromEnd(s, m, f) ==
    f = [i \in 0 .. m |->
            IF i = 0 THEN 0 ELSE ((s[Len(s) - i + 1] % H) + H * f[i - 1]) % UINT]

LEMMA LastExists == \A s : \A m \in Nat : \E f : FromEnd(s, m, f)
<1> SUFFICES ASSUME NEW s PROVE \A m \in Nat : \E f : FromEnd(s, m, f)
  OBVIOUS
<1> DEFINE T == {m \in Nat : ~\E f : FromEnd(s, m, f)}
<1> SUFFICES ASSUME T # {} PROVE FALSE
  OBVIOUS
<1>1. PICK m \in T : \A k \in T : m <= k
  <2>1. T \subseteq Nat
    OBVIOUS
  <2> HIDE DEF T
  <2>2. QED
    BY <2>1, LeastOf
<1>2. m \in Nat /\ ~\E f : FromEnd(s, m, f)
  OBVIOUS
<1>3. CASE m = 0
  <2> DEFINE f == [i \in 0 .. m |-> 0]
  <2>1. FromEnd(s, m, f)
    BY <1>3 DEF FromEnd
  <2>2. QED
    BY <1>2, <2>1
<1>4. CASE m # 0
  <2>1. m - 1 \in Nat /\ m - 1 < m
    BY <1>2, <1>4
  <2>2. m - 1 \notin T
    <3> HIDE DEF T
    <3> QED
      BY <1>1, <1>2, <2>1
  <2>3. PICK g : FromEnd(s, m - 1, g)
    BY <2>1, <2>2
  <2> DEFINE E(i, h) == IF i = 0 THEN 0 ELSE ((s[Len(s) - i + 1] % H) + H * h[i - 1]) % UINT
             f == [i \in 0 .. m |-> E(i, g)]
  <2>4. ASSUME NEW i \in 0 .. m PROVE E(i, f) = E(i, g)
    <3>1. CASE i = 0
      BY <3>1
    <3>2. CASE i # 0
      <4>1. i - 1 \in 0 .. m - 1 /\ i - 1 \in 0 .. m
        BY <1>2, <3>2
      <4>2. f[i - 1] = E(i - 1, g)
        BY <4>1
      <4>3. g[i - 1] = E(i - 1, g)
        BY <2>3, <4>1 DEF FromEnd
      <4>4. f[i - 1] = g[i - 1]
        BY <4>2, <4>3
      <4> HIDE DEF f
      <4>5. QED
        BY <4>4
    <3>3. QED
      BY <3>1, <3>2
  <2>5. f = [i \in 0 .. m |-> E(i, f)]
    BY <2>4
  <2>6. FromEnd(s, m, f)
    <3> HIDE DEF f
    <3> QED
      BY <2>5 DEF FromEnd
  <2>7. QED
    BY <1>2, <2>6
<1>5. QED
  BY <1>3, <1>4

LEMMA UnVarintIs ==
    ASSUME NEW s, Len(s) \in Nat
    PROVE  \E f : FromEnd(s, Len(s), f) /\ UnVarint(s) = f[Len(s)]
<1> DEFINE from == CHOOSE f : f = [i \in 0 .. Len(s) |->
              IF i = 0 THEN 0 ELSE ((s[Len(s) - i + 1] % H) + H * f[i - 1]) % UINT]
<1>1. \E f : FromEnd(s, Len(s), f)
  BY LastExists
<1>2. FromEnd(s, Len(s), from)
  BY <1>1 DEF FromEnd
<1>3. UnVarint(s) = from[Len(s)]
  BY DEF UnVarint
<1>4. QED
  BY <1>2, <1>3

LEMMA ModType == \A x \in Nat : x % UINT \in 0 .. UINT - 1 /\ x % H \in 0 .. H - 1
BY Constants

LEMMA GroupsType == \A x, y \in Nat : x + H * y \in Nat
BY Constants

LEMMA LastType ==
    ASSUME NEW s \in Seq(Nat), NEW f, FromEnd(s, Len(s), f)
    PROVE  \A i \in 0 .. Len(s) : f[i] \in 0 .. UINT - 1
<1> DEFINE T == {i \in 0 .. Len(s) : ~(f[i] \in 0 .. UINT - 1)}
<1> SUFFICES ASSUME T # {} PROVE FALSE
  OBVIOUS
<1>0. Len(s) \in Nat
  BY LenProperties
<1>1. PICK i \in T : \A k \in T : i <= k
  <2>1. T \subseteq Nat
    BY <1>0
  <2> HIDE DEF T
  <2>2. QED
    BY <2>1, LeastOf
<1>2. i \in Nat /\ i \in 0 .. Len(s) /\ ~(f[i] \in 0 .. UINT - 1)
  BY <1>0
<1>3. CASE i = 0
  <2>1. f[i] = 0
    BY <1>2, <1>3 DEF FromEnd
  <2>2. QED
    BY <1>2, <2>1, Constants
<1>4. CASE i # 0
  <2>1. i - 1 \in 0 .. Len(s) /\ i - 1 < i /\ Len(s) - i + 1 \in 1 .. Len(s)
    BY <1>0, <1>2, <1>4
  <2>2. i - 1 \notin T
    <3> HIDE DEF T
    <3> QED
      BY <1>1, <1>2, <2>1
  <2>3. f[i - 1] \in Nat
    BY <2>1, <2>2, Constants
  <2>4. s[Len(s) - i + 1] \in Nat
    BY <2>1, ElementOfSeq
  <2> DEFINE d == s[Len(s) - i + 1]
  <2>5. d % H \in Nat
    <3>1. d \in Nat
      BY <2>4
    <3> HIDE DEF d
    <3>2. QED
      BY <3>1, Constants
  <2>6. f[i] = ((s[Len(s) - i + 1] % H) + H * f[i - 1]) % UINT
    BY <1>2, <1>4 DEF FromEnd
  <2>7. QED
    BY <1>2, <2>3, <2>5, <2>6, GroupsType, ModType
<1>5. QED
  BY <1>3, <1>4

LEMMA BytesAreNumbers == \A s \in Seq(Byte) : s \in Seq(Nat)
<1> SUFFICES ASSUME NEW s \in Seq(Byte) PROVE s \in Seq(Nat)
  OBVIOUS
<1>1. Len(s) \in Nat /\ s \in [1 .. Len(s) -> Byte]
  BY LenProperties
<1>2. Byte \subseteq Nat
  BY Constants DEF Byte
<1>3. s \in [1 .. Len(s) -> Nat]
  BY <1>1, <1>2
<1>4. QED
  BY <1>1, <1>3

LEMMA UnVarintType ==
    ASSUME NEW s \in Seq(Nat)
    PROVE  UnVarint(s) \in 0 .. UINT - 1
<1>1. Len(s) \in Nat
  BY LenProperties
<1>2. PICK f : FromEnd(s, Len(s), f) /\ UnVarint(s) = f[Len(s)]
  BY <1>1, UnVarintIs
<1>3. QED
  BY <1>1, <1>2, LastType

\* Reading one byte more.
LEMMA UnVarintMore ==
    ASSUME NEW d \in Nat, NEW t \in Seq(Nat)
    PROVE  UnVarint(<<d>> \o t) = ((d % H) + H * UnVarint(t)) % UINT
<1> DEFINE s == <<d>> \o t
<1>1. /\ <<d>> \in Seq(Nat) /\ Len(<<d>>) = 1 /\ <<d>>[1] = d /\ Len(t) \in Nat
  BY LenProperties
<1>2. /\ s \in Seq(Nat) /\ Len(s) = 1 + Len(t)
      /\ \A i \in 1 .. 1 + Len(t) : s[i] = IF i <= 1 THEN <<d>>[i] ELSE t[i - 1]
  BY <1>1, ConcatProperties
<1> HIDE DEF s
<1>3. s[1] = d /\ \A j \in 1 .. Len(t) : s[j + 1] = t[j]
  BY <1>1, <1>2
<1>4. PICK f : FromEnd(s, Len(s), f) /\ UnVarint(s) = f[Len(s)]
  BY <1>1, <1>2, UnVarintIs
<1>5. PICK g : FromEnd(t, Len(t), g) /\ UnVarint(t) = g[Len(t)]
  BY <1>1, UnVarintIs
<1>6. \A i \in 0 .. Len(t) : f[i] = g[i]
  <2> DEFINE T == {i \in 0 .. Len(t) : f[i] # g[i]}
  <2> SUFFICES ASSUME T # {} PROVE FALSE
    OBVIOUS
  <2>1. PICK i \in T : \A k \in T : i <= k
    <3>1. T \subseteq Nat
      BY <1>1
    <3> HIDE DEF T
    <3>2. QED
      BY <3>1, LeastOf
  <2>2. i \in Nat /\ i \in 0 .. Len(t) /\ f[i] # g[i] /\ i \in 0 .. Len(s)
    BY <1>1, <1>2
  <2>3. CASE i = 0
    BY <1>4, <1>5, <2>2, <2>3 DEF FromEnd
  <2>4. CASE i # 0
    <3>1. i - 1 \in 0 .. Len(t) /\ i - 1 < i /\ Len(t) - i + 1 \in 1 .. Len(t)
          /\ Len(s) - i + 1 = (Len(t) - i + 1) + 1
      BY <1>1, <1>2, <2>2, <2>4
    <3>2. i - 1 \notin T
      <4> HIDE DEF T
      <4> QED
        BY <2>1, <2>2, <3>1
    <3>3. f[i - 1] = g[i - 1]
      BY <3>1, <3>2
    <3>4. s[Len(s) - i + 1] = t[Len(t) - i + 1]
      BY <1>3, <3>1
    <3>5. f[i] = ((s[Len(s) - i + 1] % H) + H * f[i - 1]) % UINT
      BY <1>4, <2>2, <2>4 DEF FromEnd
    <3>6. g[i] = ((t[Len(t) - i + 1] % H) + H * g[i - 1]) % UINT
      BY <1>5, <2>2, <2>4 DEF FromEnd
    <3>7. QED
      BY <2>2, <3>3, <3>4, <3>5, <3>6
  <2>5. QED
    BY <2>3, <2>4
<1>7. Len(s) \in 0 .. Len(s) /\ Len(s) # 0 /\ Len(s) - Len(s) + 1 = 1 /\ Len(s) - 1 = Len(t)
      /\ Len(t) \in 0 .. Len(t)
  BY <1>1, <1>2
<1>8. f[Len(s)] = ((s[Len(s) - Len(s) + 1] % H) + H * f[Len(s) - 1]) % UINT
  BY <1>4, <1>7 DEF FromEnd
<1>9. UnVarint(s) = ((d % H) + H * UnVarint(t)) % UINT
  BY <1>3, <1>4, <1>5, <1>6, <1>7, <1>8
<1>10. QED
  BY <1>9 DEF s

LEMMA Small == \A v \in Nat : /\ v < UINT => v % UINT = v
                              /\ v < H => v % H = v
                              /\ v = (v % H) + H * (v \div H)
                              /\ ((v % H) + H) % H = v % H
BY Constants

\* What writeUint32 writes, readUint32 reads.
LEMMA VarintBack == \A v \in 0 .. UINT - 1 : UnVarint(Varint[v]) = v
<1> DEFINE T == {v \in 0 .. UINT - 1 : UnVarint(Varint[v]) # v}
<1> SUFFICES ASSUME T # {} PROVE FALSE
  OBVIOUS
<1>1. PICK v \in T : \A k \in T : v <= k
  <2>1. T \subseteq Nat
    BY Constants
  <2> HIDE DEF T
  <2>2. QED
    BY <2>1, LeastOf
<1>2. v \in Nat /\ v < UINT /\ UnVarint(Varint[v]) # v
  BY Constants
<1>3. Varint[v] = Groups1(v, Varint)
  BY <1>2, VarintUnfolds
<1>4. CASE v < H
  <2>1. Varint[v] = <<v>> \o <<>>
    BY <1>3, <1>4 DEF Groups1
  <2>2. <<>> \in Seq(Nat) /\ Len(<<>>) = 0
    OBVIOUS
  <2>3. UnVarint(<<>>) = 0
    <3>1. PICK f : FromEnd(<<>>, 0, f) /\ UnVarint(<<>>) = f[0]
      BY <2>2, UnVarintIs
    <3>2. QED
      BY <3>1 DEF FromEnd
  <2>4. UnVarint(Varint[v]) = ((v % H) + H * 0) % UINT
    BY <1>2, <2>1, <2>2, <2>3, UnVarintMore
  <2>5. (v % H) + H * 0 = v
    BY <1>2, <1>4, Small, Constants
  <2>6. QED
    BY <1>2, <2>4, <2>5, Small
<1>5. CASE ~(v < H)
  <2>1. v \div H \in Nat /\ v \div H < v /\ v % H \in 0 .. H - 1
    BY <1>2, <1>5, GroupLess, Constants
  <2>2. v \div H \notin T
    <3> HIDE DEF T
    <3> QED
      BY <1>1, <1>2, <2>1
  <2>3. UnVarint(Varint[v \div H]) = v \div H
    BY <1>2, <2>1, <2>2, Constants
  <2>4. Varint[v \div H] \in Seq(Nat)
    <3>1. Varint[v \div H] \in Seq(Byte)
      BY <2>1, VarintEncoded DEF Encoded
    <3>2. QED
      BY <3>1, BytesAreNumbers
  <2>5. Varint[v] = <<(v % H) + H>> \o Varint[v \div H]
    BY <1>3, <1>5 DEF Groups1
  <2>6. (v % H) + H \in Nat
    BY <2>1, Constants
  <2>7. UnVarint(Varint[v]) = ((((v % H) + H) % H) + H * (v \div H)) % UINT
    BY <2>3, <2>4, <2>5, <2>6, UnVarintMore
  <2>8. (((v % H) + H) % H) + H * (v \div H) = v
    BY <1>2, Small
  <2>9. QED
    BY <1>2, <2>7, <2>8, Small
<1>6. QED
  BY <1>4, <1>5

-----------------------------------------------------------------------------
(* Encoding and decoding                                                   *)

LEMMA ItemCases ==
    ASSUME NEW item \in Items
    PROVE  \/ item.kind = "fixed" /\ item.val \in Fixed16
           \/ item.kind = "uint" /\ item.val \in 0 .. UINT - 1
           \/ item.kind = "int" /\ item.val \in -(UINT \div 2) .. (UINT \div 2) - 1
           \/ item.kind = "strF" /\ item.val \in Seq(Byte)
           \/ item.kind = "strV" /\ item.val \in Seq(Byte) /\ Len(item.val) < UINT
BY ByteArrayAssumption

LEMMA ModCut ==
    \A x \in Nat : /\ x % FUINT \in Nat /\ x % FUINT < FUINT /\ x % FUINT <= x
                  /\ (x < FUINT => x % FUINT = x)
BY Constants

LEMMA CutLength ==
    ASSUME NEW t \in Seq(Byte)
    PROVE  /\ Len(t) \in Nat /\ Len(t) % FUINT \in Fixed16 /\ Len(t) % FUINT \in Nat
           /\ Len(t) % FUINT <= Len(t) /\ (Len(t) % FUINT) % FUINT = Len(t) % FUINT
<1>1. Len(t) \in Nat
  BY LenProperties
<1>2. Len(t) % FUINT \in Nat /\ Len(t) % FUINT < FUINT /\ Len(t) % FUINT <= Len(t)
  BY <1>1, ModCut
<1>3. Len(t) % FUINT \in Fixed16
  BY <1>2, Constants DEF Fixed16
<1>4. QED
  BY <1>1, <1>2, <1>3, ModCut

\* The halves of a 16-bit number.
LEMMA Halves ==
    \A v \in Fixed16 : /\ v \in Nat
                       /\ v \div (2 * H) \in Byte /\ v % (2 * H) \in Byte
                       /\ v = (v \div (2 * H)) * 2 * H + (v % (2 * H))
<1> SUFFICES ASSUME NEW v \in Fixed16
             PROVE  /\ v \in Nat
                    /\ v \div (2 * H) \in Byte /\ v % (2 * H) \in Byte
                    /\ v = (v \div (2 * H)) * 2 * H + (v % (2 * H))
  OBVIOUS
<1> DEFINE b == 2 * H
<1>1. b \in Nat /\ b > 0
  BY Constants
<1>2. v \in Nat /\ v < b * b
  BY <1>1, Constants DEF Fixed16
<1>3. Byte = 0 .. b - 1
  BY DEF Byte
<1>4. (v \div b) * 2 * H = (v \div b) * b
  BY <1>1, <1>2, Constants
<1> HIDE DEF b
<1>5. v = (v \div b) * b + (v % b) /\ v % b \in 0 .. b - 1 /\ v \div b \in Nat
  BY <1>1, <1>2
<1>6. v \div b < b
  BY <1>1, <1>2
<1>7. v \div b \in 0 .. b - 1
  BY <1>1, <1>5, <1>6
<1>8. QED
  BY <1>2, <1>3, <1>4, <1>5, <1>7 DEF b

LEMMA JoinType ==
    ASSUME NEW s \in Seq(Byte), NEW t \in Seq(Byte), Len(s) > 0
    PROVE  s \o t \in Seq(Byte) /\ Len(s \o t) = Len(s) + Len(t) /\ s \o t # <<>>
<1>1. Len(s) \in Nat /\ Len(t) \in Nat
  BY LenProperties
<1>2. s \o t \in Seq(Byte) /\ Len(s \o t) = Len(s) + Len(t)
  BY ConcatProperties
<1>3. Len(s \o t) # 0
  BY <1>1, <1>2
<1>4. QED
  BY <1>2, <1>3, EmptySeq

LEMMA FixedType ==
    ASSUME NEW v \in Fixed16
    PROVE  Fixed(v) \in Seq(Byte) /\ Len(Fixed(v)) = 2 /\ Fixed(v) # <<>>
<1>1. v \div (2 * H) \in Byte /\ v % (2 * H) \in Byte
  BY Halves
<1>2. QED
  BY <1>1 DEF Fixed

LEMMA UnFixedType ==
    ASSUME NEW s \in Seq(Byte), Len(s) >= 2
    PROVE  UnFixed(s) \in Nat
<1>1. s[1] \in Byte /\ s[2] \in Byte
  <2>1. Len(s) \in Nat
    BY LenProperties
  <2>2. 1 \in 1 .. Len(s) /\ 2 \in 1 .. Len(s)
    BY <2>1
  <2>3. QED
    BY <2>2, ElementOfSeq
<1>2. \A a, c \in Byte : a * 2 * H + c \in Nat
  BY Constants DEF Byte
<1>3. QED
  BY <1>1, <1>2 DEF UnFixed

\* EncodeZigzag32 takes the signed numbers to the unsigned ones, and back.
LEMMA Zigzag ==
    \A v \in -(UINT \div 2) .. (UINT \div 2) - 1 :
        EncodeZigzag(v) \in 0 .. UINT - 1 /\ DecodeZigzag(EncodeZigzag(v)) = v
<1> SUFFICES ASSUME NEW v \in -(UINT \div 2) .. (UINT \div 2) - 1
             PROVE  EncodeZigzag(v) \in 0 .. UINT - 1 /\ DecodeZigzag(EncodeZigzag(v)) = v
  OBVIOUS
<1> DEFINE h == UINT \div 2
<1>1. h \in Nat /\ UINT = 2 * h /\ h > 0
  BY ByteArrayAssumption
<1>2. v \in Int /\ -h <= v /\ v < h
  BY <1>1
<1> HIDE DEF h
<1>3. CASE v < 0
  <2>1. (-v) % UINT = -v
    <3>1. -v \in Nat /\ -v < UINT
      BY <1>1, <1>2, <1>3
    <3>2. QED
      BY <3>1, Small
  <2>2. (-v) * 2 - 1 \in Nat /\ (-v) * 2 - 1 < UINT
    BY <1>1, <1>2, <1>3
  <2>3. EncodeZigzag(v) = (-v) * 2 - 1
    BY <1>3, <2>1, <2>2, Small DEF EncodeZigzag
  <2>4. ((-v) * 2 - 1) % 2 = 1 /\ ((-v) * 2 - 1) \div 2 = -v - 1
    BY <1>2, <1>3
  <2>5. DecodeZigzag((-v) * 2 - 1) = -(-v - 1) - 1
    BY <2>4 DEF DecodeZigzag
  <2>6. -(-v - 1) - 1 = v
    BY <1>2
  <2>7. QED
    BY <1>1, <2>2, <2>3, <2>5, <2>6
<1>4. CASE ~(v < 0)
  <2>1. v * 2 \in Nat /\ v * 2 < UINT
    BY <1>1, <1>2, <1>4
  <2>2. EncodeZigzag(v) = v * 2
    BY <1>4, <2>1, Small DEF EncodeZigzag
  <2>3. (v * 2) % 2 = 0 /\ (v * 2) \div 2 = v
    BY <1>2, <1>4
  <2>4. DecodeZigzag(v * 2) = v
    BY <2>3 DEF DecodeZigzag
  <2>5. QED
    BY <1>1, <2>1, <2>2, <2>4
<1>5. QED
  BY <1>3, <1>4

\* A typed write writes at least one byte.
LEMMA EncodeType ==
    ASSUME NEW item \in Items
    PROVE  Encode(item) \in Seq(Byte) /\ Encode(item) # <<>>
<1>1. CASE item.kind = "fixed" /\ item.val \in Fixed16
  <2>1. Encode(item) = Fixed(item.val)
    BY <1>1 DEF Encode
  <2>2. QED
    BY <1>1, <2>1, FixedType
<1>2. CASE item.kind = "uint" /\ item.val \in 0 .. UINT - 1
  <2>1. Encode(item) = Varint[item.val] /\ item.val \in Nat
    BY <1>2, Constants DEF Encode
  <2>2. QED
    BY <2>1, VarintEncoded DEF Encoded
<1>3. CASE item.kind = "int" /\ item.val \in -(UINT \div 2) .. (UINT \div 2) - 1
  <2>1. Encode(item) = Varint[EncodeZigzag(item.val)]
    BY <1>3 DEF Encode
  <2>2. EncodeZigzag(item.val) \in Nat
    BY <1>3, Zigzag, Constants
  <2>3. QED
    BY <2>1, <2>2, VarintEncoded DEF Encoded
<1>4. CASE item.kind = "strF" /\ item.val \in Seq(Byte)
  <2> DEFINE n == Len(item.val) % FUINT
  <2>1. Encode(item) = Fixed(n) \o item.val
    BY <1>4 DEF Encode
  <2>2. Fixed(n) \in Seq(Byte) /\ Len(Fixed(n)) = 2
    BY <1>4, CutLength, FixedType
  <2>3. QED
    BY <1>4, <2>1, <2>2, JoinType
<1>5. CASE item.kind = "strV" /\ item.val \in Seq(Byte) /\ Len(item.val) < UINT
  <2>1. Encode(item) = Varint[Len(item.val)] \o item.val /\ Len(item.val) \in Nat
    BY <1>5, LenProperties DEF Encode
  <2>2. Varint[Len(item.val)] \in Seq(Byte) /\ Len(Varint[Len(item.val)]) \in Nat \ {0}
    BY <2>1, VarintEncoded DEF Encoded
  <2>3. QED
    BY <1>5, <2>1, <2>2, JoinType
<1>6. QED
  BY <1>1, <1>2, <1>3, <1>4, <1>5, ItemCases

\* What typed reads take is there.
LEMMA FixedInUsed ==
    ASSUME NEW s \in Seq(Byte)
    PROVE  /\ FixedIn(s).used \in 0 .. Len(s)
           /\ FixedIn(s).ok \in BOOLEAN /\ FixedIn(s).ok => FixedIn(s).val \in Nat
<1>1. Len(s) \in Nat
  BY LenProperties
<1>2. CASE Len(s) < 2
  BY <1>1, <1>2 DEF FixedIn
<1>3. CASE ~(Len(s) < 2)
  <2>1. UnFixed(s) \in Nat
    BY <1>1, <1>3, UnFixedType
  <2>2. FixedIn(s) = [used |-> 2, ok |-> TRUE, val |-> UnFixed(s)]
    BY <1>3 DEF FixedIn
  <2>3. QED
    BY <1>1, <1>3, <2>1, <2>2
<1>4. QED
  BY <1>2, <1>3

Ends(s) == {i \in 1 .. Len(s) : s[i] < H \/ i = Groups}

\* readUint32 stops at the first byte of the lower half, or when it has enough.
LEMMA VarintInIs ==
    ASSUME NEW s, Len(s) \in Nat, NEW n \in Ends(s), \A j \in Ends(s) : n <= j
    PROVE  VarintIn(s) = [used |-> n, ok |-> TRUE, val |-> UnVarint(SubSeq(s, 1, n))]
<1> DEFINE ends == Ends(s)
<1>1. \A i \in ends : i \in Nat
  BY DEF Ends
<1>2. ends # {}
  OBVIOUS
<1>3. VarintIn(s) = IF ends = {} THEN [used |-> Len(s), ok |-> FALSE, val |-> 0]
                    ELSE [used |-> (CHOOSE i \in ends : \A j \in ends : i <= j), ok |-> TRUE,
                          val |-> UnVarint(SubSeq(s, 1, CHOOSE i \in ends : \A j \in ends : i <= j))]
  BY DEF VarintIn, Ends
<1> HIDE DEF ends
<1>4. n = CHOOSE i \in ends : \A j \in ends : i <= j
  <2>1. n \in ends /\ \A j \in ends : n <= j
    BY DEF ends
  <2>2. \A i \in ends : (\A j \in ends : i <= j) => i = n
    BY <1>1, <2>1
  <2>3. QED
    BY <2>1, <2>2
<1>5. QED
  BY <1>2, <1>3, <1>4

LEMMA VarintInUsed ==
    ASSUME NEW s \in Seq(Byte)
    PROVE  /\ VarintIn(s).used \in 0 .. Len(s)
           /\ VarintIn(s).ok \in BOOLEAN /\ VarintIn(s).ok => VarintIn(s).val \in Nat
<1>1. Len(s) \in Nat
  BY LenProperties
<1>2. CASE Ends(s) = {}
  <2>1. VarintIn(s) = [used |-> Len(s), ok |-> FALSE, val |-> 0]
    BY <1>2 DEF VarintIn, Ends
  <2>2. QED
    BY <1>1, <2>1
<1>3. CASE Ends(s) # {}
  <2>1. Ends(s) \subseteq Nat
    BY DEF Ends
  <2>2. PICK n \in Ends(s) : \A j \in Ends(s) : n <= j
    BY <1>3, <2>1, LeastOf
  <2>3. n \in 1 .. Len(s)
    BY DEF Ends
  <2>4. VarintIn(s) = [used |-> n, ok |-> TRUE, val |-> UnVarint(SubSeq(s, 1, n))]
    BY <1>1, <2>2, VarintInIs
  <2>5. SubSeq(s, 1, n) \in Seq(Byte)
    BY <1>1, <2>3, SubSeqProperties
  <2>6. UnVarint(SubSeq(s, 1, n)) \in Nat
    <3>1. SubSeq(s, 1, n) \in Seq(Nat)
      BY <2>5, BytesAreNumbers
    <3>2. UnVarint(SubSeq(s, 1, n)) \in 0 .. UINT - 1
      BY <3>1, UnVarintType
    <3>3. QED
      BY <3>2, Constants
  <2>7. QED
    BY <1>1, <2>3, <2>4, <2>6
<1>4. QED
  BY <1>2, <1>3

LEMMA StringInUsed ==
    ASSUME NEW s \in Seq(Byte), NEW len, len.used \in 0 .. Len(s), len.ok => len.val \in Nat
    PROVE  StringIn(len, s).used \in 0 .. Len(s)
<1>1. Len(s) \in Nat
  BY LenProperties
<1>2. CASE ~len.ok \/ len.val > Len(s) - len.used
  BY <1>2 DEF StringIn
<1>3. CASE ~(~len.ok \/ len.val > Len(s) - len.used)
  <2>1. StringIn(len, s).used = len.used + len.val
    BY <1>3 DEF StringIn
  <2>2. QED
    BY <1>1, <1>3, <2>1
<1>4. QED
  BY <1>2, <1>3

LEMMA DecodeUsed ==
    ASSUME NEW kind \in Kinds, NEW s \in Seq(Byte)
    PROVE  Decode(kind, s).used \in 0 .. Len(s)
<1>1. CASE kind = "fixed"
  BY <1>1, FixedInUsed DEF Decode
<1>2. CASE kind = "uint"
  BY <1>2, VarintInUsed DEF Decode
<1>3. CASE kind = "int"
  <2>1. Decode(kind, s).used = VarintIn(s).used
    BY <1>3 DEF Decode
  <2>2. QED
    BY <2>1, VarintInUsed
<1>4. CASE kind = "strF"
  <2>1. Decode(kind, s) = StringIn(FixedIn(s), s)
    BY <1>4 DEF Decode
  <2>2. QED
    BY <2>1, FixedInUsed, StringInUsed
<1>5. CASE kind = "strV"
  <2>1. Decode(kind, s) = StringIn(VarintIn(s), s)
    BY <1>5 DEF Decode
  <2>2. QED
    BY <2>1, VarintInUsed, StringInUsed
<1>6. QED
  BY <1>1, <1>2, <1>3, <1>4, <1>5 DEF Kinds

\* s goes on after e.
Begins(e, s) == Len(e) <= Len(s) /\ \A i \in 1 .. Len(e) : s[i] = e[i]

LEMMA FixedBack ==
    ASSUME NEW v \in Fixed16, NEW s, Len(s) \in Nat, Begins(Fixed(v), s)
    PROVE  FixedIn(s) = [used |-> 2, ok |-> TRUE, val |-> v]
<1>1. Len(Fixed(v)) = 2
  BY FixedType
<1>2. 1 \in 1 .. 2 /\ 2 \in 1 .. 2 /\ ~(Len(s) < 2)
  BY <1>1 DEF Begins
<1>3. s[1] = Fixed(v)[1] /\ s[2] = Fixed(v)[2]
  BY <1>1, <1>2 DEF Begins
<1>4. UnFixed(s) = (v \div (2 * H)) * 2 * H + (v % (2 * H))
  BY <1>3 DEF UnFixed, Fixed
<1>5. UnFixed(s) = v
  BY <1>4, Halves
<1>6. QED
  BY <1>2, <1>5 DEF FixedIn

LEMMA VarintInBack ==
    ASSUME NEW v \in 0 .. UINT - 1, NEW B, NEW s \in Seq(B), Begins(Varint[v], s)
    PROVE  VarintIn(s) = [used |-> Len(Varint[v]), ok |-> TRUE, val |-> v]
<1> DEFINE e == Varint[v]
           n == Len(e)
<1>1. Encoded(e)
  BY Constants, VarintEncoded
<1>2. n \in Nat \ {0} /\ e \in Seq(Byte) /\ n <= Len(s) /\ Len(s) \in Nat /\ n <= Groups
  BY <1>1, GroupsAssumption, LenProperties DEF Begins, Encoded
<1> HIDE DEF e
<1>3. n \in Ends(s)
  <2>1. s[n] = e[n] /\ e[n] < H
    BY <1>1, <1>2 DEF Begins, Encoded, e
  <2>2. QED
    BY <1>2, <2>1 DEF Ends
<1>4. ASSUME NEW j \in Ends(s), j < n PROVE FALSE
  <2>1. j \in 1 .. n - 1 /\ j \in 1 .. n /\ j # Groups
    BY <1>2, <1>4, Constants DEF Ends
  <2>2. s[j] = e[j] /\ e[j] >= H /\ e[j] \in Byte
    BY <1>1, <1>2, <2>1, ElementOfSeq DEF Begins, Encoded, e
  <2>3. s[j] < H
    BY <2>1 DEF Ends
  <2>4. QED
    BY <2>2, <2>3, Constants DEF Byte
<1>5. \A j \in Ends(s) : n <= j
  BY <1>2, <1>4 DEF Ends
<1>6. VarintIn(s) = [used |-> n, ok |-> TRUE, val |-> UnVarint(SubSeq(s, 1, n))]
  BY <1>2, <1>3, <1>5, VarintInIs
<1>7. SubSeq(s, 1, n) = e
  <2>1. SubSeq(s, 1, n) = [i \in 1 .. n |-> s[1 + i - 1]]
    BY <1>2 DEF SubSeq
  <2>2. e = [i \in 1 .. n |-> e[i]]
    BY <1>2
  <2>3. \A i \in 1 .. n : s[1 + i - 1] = e[i]
    <3>1. \A i \in 1 .. n : 1 + i - 1 = i
      BY <1>2
    <3>2. QED
      BY <3>1 DEF Begins, e
  <2>4. QED
    BY <2>1, <2>2, <2>3
<1>8. UnVarint(e) = v
  BY VarintBack DEF e
<1>9. QED
  BY <1>6, <1>7, <1>8 DEF e

\* The string after its length.
LEMMA StringBack ==
    ASSUME NEW e \in Seq(Byte), NEW t \in Seq(Byte), NEW B, NEW s \in Seq(B), Begins(e \o t, s)
    PROVE  /\ Begins(e, s)
           /\ StringIn([used |-> Len(e), ok |-> TRUE, val |-> Len(t)], s)
                = [used |-> Len(e \o t), ok |-> TRUE, val |-> t]
<1> DEFINE et == e \o t
           len == [used |-> Len(e), ok |-> TRUE, val |-> Len(t)]
<1>1. Len(e) \in Nat /\ Len(t) \in Nat /\ Len(s) \in Nat
  BY LenProperties
<1>2. /\ Len(et) = Len(e) + Len(t)
      /\ \A i \in 1 .. Len(e) + Len(t) : et[i] = IF i <= Len(e) THEN e[i] ELSE t[i - Len(e)]
  BY ConcatProperties
<1>3. Len(et) <= Len(s) /\ \A i \in 1 .. Len(et) : s[i] = et[i]
  BY DEF Begins
<1> HIDE DEF et
<1>4. Begins(e, s)
  <2>1. ASSUME NEW i \in 1 .. Len(e) PROVE s[i] = e[i]
    <3>1. i \in 1 .. Len(e) + Len(t) /\ i <= Len(e)
      BY <1>1
    <3>2. QED
      BY <1>2, <1>3, <3>1
  <2>2. QED
    BY <1>1, <1>2, <1>3, <2>1 DEF Begins
<1>5. len.used = Len(e) /\ len.ok /\ len.val = Len(t)
  OBVIOUS
<1> HIDE DEF len
<1>6. ~(~len.ok \/ len.val > Len(s) - len.used)
  BY <1>1, <1>2, <1>3, <1>5
<1>7. StringIn(len, s) = [used |-> Len(e) + Len(t), ok |-> TRUE,
                          val |-> SubSeq(s, Len(e) + 1, Len(e) + Len(t))]
  BY <1>5, <1>6 DEF StringIn
<1>8. SubSeq(s, Len(e) + 1, Len(e) + Len(t)) = t
  <2> DEFINE u == SubSeq(s, Len(e) + 1, Len(e) + Len(t))
  <2>1. u = [i \in 1 .. Len(e) + Len(t) - (Len(e) + 1) + 1 |-> s[Len(e) + 1 + i - 1]]
    BY <1>1 DEF SubSeq
  <2>2. Len(e) + Len(t) - (Len(e) + 1) + 1 = Len(t)
    BY <1>1
  <2>3. \A i \in 1 .. Len(t) : s[Len(e) + 1 + i - 1] = t[i]
    <3> SUFFICES ASSUME NEW i \in 1 .. Len(t) PROVE s[Len(e) + 1 + i - 1] = t[i]
      OBVIOUS
    <3>1. Len(e) + 1 + i - 1 = Len(e) + i /\ Len(e) + i \in 1 .. Len(e) + Len(t)
          /\ ~(Len(e) + i <= Len(e)) /\ (Len(e) + i) - Len(e) = i
      BY <1>1
    <3>2. QED
      BY <1>2, <1>3, <3>1
  <2>4. t = [i \in 1 .. Len(t) |-> t[i]]
    OBVIOUS
  <2> HIDE DEF u
  <2>5. QED
    BY <2>1, <2>2, <2>3, <2>4 DEF u
<1>9. QED
  BY <1>2, <1>4, <1>7, <1>8 DEF et, len

\* Elements from + 1 to upto.
LEMMA Cut ==
    ASSUME NEW B, NEW s \in Seq(B), NEW from \in Nat, NEW upto \in Nat, from <= upto, upto <= Len(s)
    PROVE  /\ SubSeq(s, from + 1, upto) \in Seq(B)
           /\ Len(SubSeq(s, from + 1, upto)) = upto - from
           /\ \A i \in 1 .. upto - from : SubSeq(s, from + 1, upto)[i] = s[from + i]
<1>1. Len(s) \in Nat
  BY LenProperties
<1>2. \A i \in from + 1 .. upto : s[i] \in B
  <2> SUFFICES ASSUME NEW i \in from + 1 .. upto PROVE s[i] \in B
    OBVIOUS
  <2>1. i \in 1 .. Len(s)
    BY <1>1
  <2>2. QED
    BY <2>1, ElementOfSeq
<1>3. /\ SubSeq(s, from + 1, upto) \in Seq(B)
      /\ Len(SubSeq(s, from + 1, upto)) = IF from + 1 <= upto THEN upto - (from + 1) + 1 ELSE 0
      /\ \A i \in 1 .. upto - (from + 1) + 1 : SubSeq(s, from + 1, upto)[i] = s[from + 1 + i - 1]
  <2>1. from + 1 \in Int /\ upto \in Int
    OBVIOUS
  <2>2. QED
    BY <1>2, <2>1, SubSeqProperties
<1>4. upto - (from + 1) + 1 = upto - from /\ \A i \in 1 .. upto - from : from + 1 + i - 1 = from + i
  OBVIOUS
<1>5. QED
  BY <1>3, <1>4

LEMMA CutFront ==
    ASSUME NEW B, NEW s \in Seq(B), NEW n \in Nat, n <= Len(s)
    PROVE  /\ SubSeq(s, 1, n) \in Seq(B) /\ Len(SubSeq(s, 1, n)) = n
           /\ \A i \in 1 .. n : SubSeq(s, 1, n)[i] = s[i]
<1>1. 0 \in Nat /\ 0 <= n /\ 0 + 1 = 1 /\ n - 0 = n /\ \A i \in 1 .. n : 0 + i = i
  OBVIOUS
<1>2. /\ SubSeq(s, 0 + 1, n) \in Seq(B)
      /\ Len(SubSeq(s, 0 + 1, n)) = n - 0
      /\ \A i \in 1 .. n - 0 : SubSeq(s, 0 + 1, n)[i] = s[0 + i]
  BY <1>1, Cut
<1>3. QED
  BY <1>1, <1>2


\* A value whose write keeps all of it.
Exact(item) ==
    \/ item.kind = "fixed" /\ item.val \in Fixed16
    \/ item.kind = "uint" /\ item.val \in 0 .. UINT - 1
    \/ item.kind = "int" /\ item.val \in -(UINT \div 2) .. (UINT \div 2) - 1
    \/ item.kind = "strF" /\ item.val \in Seq(Byte) /\ Len(item.val) \in Fixed16
    \/ item.kind = "strV" /\ item.val \in Seq(Byte) /\ Len(item.val) < UINT

LEMMA KeptExact ==
    ASSUME NEW item \in Items
    PROVE  Kept(item).kind = item.kind /\ Exact(Kept(item))
<1>1. CASE item.kind = "strF" /\ item.val \in Seq(Byte)
  <2> DEFINE n == Len(item.val) % FUINT
             t == SubSeq(item.val, 1, n)
  <2>1. Kept(item) = [kind |-> "strF", val |-> t]
    BY <1>1 DEF Kept
  <2>2. n \in Fixed16 /\ n \in Nat /\ n <= Len(item.val)
    BY <1>1, CutLength
  <2>3. t \in Seq(Byte) /\ Len(t) = n
    BY <1>1, <2>2, CutFront
  <2> HIDE DEF t, n
  <2>4. QED
    BY <1>1, <2>1, <2>2, <2>3 DEF Exact
<1>2. CASE item.kind # "strF"
  BY <1>2, ItemCases DEF Kept, Exact
<1>3. QED
  BY <1>1, <1>2, ItemCases

\* A typed read of what a typed write kept gives it back, and takes the bytes written.
LEMMA DecodeBack ==
    ASSUME NEW item, Exact(item), NEW B, NEW s \in Seq(B), Begins(Encode(item), s)
    PROVE  /\ Decode(item.kind, s).ok
           /\ Decode(item.kind, s).val = item.val
           /\ Decode(item.kind, s).used = Len(Encode(item))
<1>0. Len(s) \in Nat
  BY LenProperties
<1>1. CASE item.kind = "fixed" /\ item.val \in Fixed16
  <2>1. Encode(item) = Fixed(item.val) /\ Decode(item.kind, s) = FixedIn(s)
    BY <1>1 DEF Encode, Decode
  <2>2. FixedIn(s) = [used |-> 2, ok |-> TRUE, val |-> item.val]
    BY <1>0, <1>1, <2>1, FixedBack
  <2>3. Len(Fixed(item.val)) = 2
    BY <1>1, FixedType
  <2>4. QED
    BY <2>1, <2>2, <2>3
<1>2. CASE item.kind = "uint" /\ item.val \in 0 .. UINT - 1
  <2>1. Encode(item) = Varint[item.val] /\ Decode(item.kind, s) = VarintIn(s)
    BY <1>2 DEF Encode, Decode
  <2>2. VarintIn(s) = [used |-> Len(Varint[item.val]), ok |-> TRUE, val |-> item.val]
    BY <1>2, <2>1, VarintInBack
  <2>3. QED
    BY <2>1, <2>2
<1>3. CASE item.kind = "int" /\ item.val \in -(UINT \div 2) .. (UINT \div 2) - 1
  <2> DEFINE u == EncodeZigzag(item.val)
  <2>1. /\ Encode(item) = Varint[u]
        /\ Decode(item.kind, s) = [used |-> VarintIn(s).used, ok |-> VarintIn(s).ok,
                                   val |-> DecodeZigzag(VarintIn(s).val)]
    BY <1>3 DEF Encode, Decode
  <2>2. u \in 0 .. UINT - 1 /\ DecodeZigzag(u) = item.val
    BY <1>3, Zigzag
  <2> HIDE DEF u
  <2>3. VarintIn(s) = [used |-> Len(Varint[u]), ok |-> TRUE, val |-> u]
    BY <2>1, <2>2, VarintInBack
  <2>4. QED
    BY <2>1, <2>2, <2>3
<1>4. CASE item.kind = "strF" /\ item.val \in Seq(Byte) /\ Len(item.val) \in Fixed16
  <2> DEFINE e == Fixed(Len(item.val))
  <2>0. Len(item.val) % FUINT = Len(item.val)
    <3>1. Len(item.val) \in Nat /\ Len(item.val) < FUINT
      BY <1>4, Constants DEF Fixed16
    <3>2. QED
      BY <3>1, ModCut
  <2>1. Encode(item) = e \o item.val /\ Decode(item.kind, s) = StringIn(FixedIn(s), s)
    BY <1>4, <2>0 DEF Encode, Decode
  <2>2. e \in Seq(Byte) /\ Len(e) = 2
    BY <1>4, FixedType
  <2>3. /\ Begins(e, s)
        /\ StringIn([used |-> Len(e), ok |-> TRUE, val |-> Len(item.val)], s)
             = [used |-> Len(e \o item.val), ok |-> TRUE, val |-> item.val]
    BY <1>4, <2>1, <2>2, StringBack
  <2>4. FixedIn(s) = [used |-> 2, ok |-> TRUE, val |-> Len(item.val)]
    BY <1>0, <1>4, <2>3, FixedBack
  <2> HIDE DEF e
  <2>5. QED
    BY <2>1, <2>2, <2>3, <2>4
<1>5. CASE item.kind = "strV" /\ item.val \in Seq(Byte) /\ Len(item.val) < UINT
  <2> DEFINE e == Varint[Len(item.val)]
  <2>1. Encode(item) = e \o item.val /\ Decode(item.kind, s) = StringIn(VarintIn(s), s)
    BY <1>5 DEF Encode, Decode
  <2>2. Len(item.val) \in 0 .. UINT - 1 /\ Len(item.val) \in Nat
    BY <1>5, LenProperties, Constants
  <2>3. e \in Seq(Byte)
    BY <2>2, VarintEncoded DEF Encoded
  <2>4. /\ Begins(e, s)
        /\ StringIn([used |-> Len(e), ok |-> TRUE, val |-> Len(item.val)], s)
             = [used |-> Len(e \o item.val), ok |-> TRUE, val |-> item.val]
    BY <1>5, <2>1, <2>3, StringBack
  <2>5. VarintIn(s) = [used |-> Len(e), ok |-> TRUE, val |-> Len(item.val)]
    BY <2>2, <2>4, VarintInBack
  <2> HIDE DEF e
  <2>6. QED
    BY <2>1, <2>4, <2>5
<1>6. QED
  BY <1>1, <1>2, <1>3, <1>4, <1>5 DEF Exact

-----------------------------------------------------------------------------
(* The inductive invariant                                                 *)

FixedAs(v, e) == IF e = "big" THEN <<v \div (2 * H), v % (2 * H)>>
                              ELSE <<v % (2 * H), v \div (2 * H)>>

\* What a typed write writes in the byte order e.
EncodeAs(item, e) ==
    CASE item.kind = "fixed"  -> FixedAs(item.val, e)
      [] item.kind = "uint"   -> Varint[item.val]
      [] item.kind = "int"    -> Varint[EncodeZigzag(item.val)]
      [] item.kind = "strF"   -> FixedAs(Len(item.val) % FUINT, e) \o item.val
      [] item.kind = "strV"   -> Varint[Len(item.val)] \o item.val

\* The blocks hold the last typed value, in the byte order it was written in.
Holds(item) ==
    /\ mark.kind = item.kind /\ mark.val = item.val
    /\ mark.len = Len(EncodeAs(item, mark.endian))
    /\ mark.at + mark.len <= m_size
    /\ \A i \in 1 .. mark.len : ByteAt(nodes, mark.at + i) = EncodeAs(item, mark.endian)[i]

MarkKept ==
    /\ mark.at \in Nat /\ mark.len \in Nat
    /\ \/ mark.len = 0 /\ mark.kind \notin Kinds
       \/ \E item \in Items : Holds(Kept(item))

\* Sound also when a null block has been met: nothing happens after that.
ArrayInv ==
    /\ Sound /\ Len(nodes) > 0
    /\ m_endian \in {"big", "little"}
    /\ fault \in {NoFault, "empty read", "file"}
    /\ MarkKept

LEMMA InvParts == ArrayInv => Sound /\ MarkKept /\ Len(nodes) > 0 /\ m_endian \in {"big", "little"}
BY DEF ArrayInv

LEMMA SoundParts ==
    Sound => /\ m_position \in Nat /\ m_size \in Nat /\ m_capacity \in Nat /\ Len(nodes) \in Nat
             /\ getReadSize \in Nat /\ m_size >= m_size
BY DEF Sound, getReadSize

LEMMA EncodeIs == \A item : Encode(item) = EncodeAs(item, m_endian)
<1> SUFFICES ASSUME NEW item PROVE Encode(item) = EncodeAs(item, m_endian)
  OBVIOUS
<1>1. \A v : Fixed(v) = FixedAs(v, m_endian)
  BY DEF Fixed, FixedAs
<1>2. QED
  BY <1>1 DEF Encode, EncodeAs

LEMMA InvTypeOK == ArrayInv => TypeOK /\ Cursor
<1> SUFFICES ASSUME ArrayInv PROVE TypeOK /\ Cursor
  OBVIOUS
<1>1. Sound
  BY DEF ArrayInv
<1>2. m_cur = Place(nodes, m_position)
  BY <1>1 DEF Sound, Place
<1>3. Len(nodes) \in Nat /\ m_position \in Nat /\ m_position <= Len(nodes) * m_baseSize
  BY <1>1 DEF Sound
<1>4. m_cur \in 0 .. Len(nodes)
  BY <1>2, <1>3, PlaceType
<1>5. TypeOK
  BY <1>1, <1>4 DEF ArrayInv, Sound, TypeOK, Blocks
<1>6. Cursor
  BY <1>1 DEF ArrayInv, Sound, Cursor, NoFault
<1>7. QED
  BY <1>5, <1>6

LEMMA InitInv == Init => ArrayInv
<1> SUFFICES ASSUME Init PROVE ArrayInv
  OBVIOUS
<1> USE DEF Init
<1>1. Block \in Blocks
  BY Constants DEF Block, Blocks, Junk
<1>2. nodes \in Seq(Blocks) /\ Len(nodes) = 1
  BY <1>1
<1>3. m_capacity = Len(nodes) * m_baseSize /\ m_capacity \in Nat /\ m_capacity > 0
  BY <1>2, Constants
<1>4. 0 \div m_baseSize + 1 = 1
  BY Constants
<1>5. Sound
  BY <1>2, <1>3, <1>4 DEF Sound
<1>6. mark.at = 0 /\ mark.len = 0 /\ mark.kind \notin Kinds
  BY DEF NoMark, Kinds
<1>7. QED
  BY <1>2, <1>5, <1>6 DEF ArrayInv, MarkKept, NoFault

\* The marked value is still there if its bytes are.
LEMMA StillMarked ==
    ASSUME MarkKept, mark' = mark, m_size \in Nat, m_size' \in Nat, m_size' >= m_size,
           \A i \in 1 .. mark.len : mark.at + i \in 1 .. m_size =>
               ByteAt(nodes, mark.at + i)' = ByteAt(nodes, mark.at + i)
    PROVE  MarkKept'
<1>1. ASSUME NEW item, Holds(item), mark.at \in Nat, mark.len \in Nat PROVE Holds(item)'
  <2>1. mark.at + mark.len <= m_size'
    BY <1>1 DEF Holds
  <2>2. \A i \in 1 .. mark.len : ByteAt(nodes, mark.at + i)' = EncodeAs(item, mark.endian)[i]
    <3> SUFFICES ASSUME NEW i \in 1 .. mark.len
                 PROVE  ByteAt(nodes, mark.at + i)' = EncodeAs(item, mark.endian)[i]
      OBVIOUS
    <3>1. mark.at + i \in 1 .. m_size
      BY <1>1 DEF Holds
    <3>2. QED
      BY <1>1, <3>1 DEF Holds
  <2>3. QED
    BY <1>1, <2>1, <2>2 DEF Holds
<1>2. QED
  BY <1>1 DEF MarkKept

\* Nothing happened to the blocks.
LEMMA SameBlocks ==
    ASSUME MarkKept, UNCHANGED <<nodes, mark>>, m_size \in Nat, m_size' \in Nat, m_size' >= m_size
    PROVE  MarkKept'
<1>1. \A i \in 1 .. mark.len : mark.at + i \in 1 .. m_size =>
               ByteAt(nodes, mark.at + i)' = ByteAt(nodes, mark.at + i)
  BY DEF ByteAt
<1>2. QED
  BY <1>1, StillMarked

LEMMA SoundSame == Sound /\ UNCHANGED cvars => Sound'
BY DEF Sound, cvars

\* A write, except for the mark of a typed one.
LEMMA Overwritten ==
    ASSUME MarkKept, Sound, Sound', NEW buf \in Seq(Byte), m_size' >= m_size,
           \A i \in 1 .. m_size' :
                ByteAt(nodes', i) = IF i - m_position \in 1 .. Len(buf)
                                    THEN buf[i - m_position] ELSE ByteAt(nodes, i),
           mark' = IF Overwrites(Len(buf)) THEN NoMark ELSE mark
    PROVE  MarkKept'
<1>1. CASE Overwrites(Len(buf))
  BY <1>1 DEF MarkKept, NoMark, Kinds
<1>2. CASE ~Overwrites(Len(buf))
  <2>0. m_size \in Nat /\ m_size' \in Nat /\ m_position \in Nat /\ Len(buf) \in Nat
        /\ mark.at \in Nat /\ mark.len \in Nat
    BY LenProperties DEF Sound, MarkKept
  <2>1. ASSUME NEW i \in 1 .. mark.len, mark.at + i \in 1 .. m_size
        PROVE  ByteAt(nodes, mark.at + i)' = ByteAt(nodes, mark.at + i)
    <3>1. (mark.at + i) - m_position \notin 1 .. Len(buf) /\ mark.at + i \in 1 .. m_size'
      <4> DEFINE k == Len(buf)
                 at == mark.at
                 len == mark.len
                 size == m_size
                 sizeNext == m_size'
      <4>1. /\ k \in Nat /\ at \in Nat /\ len \in Nat /\ size \in Nat /\ sizeNext \in Nat
            /\ m_position \in Nat /\ i \in 1 .. len /\ at + i \in 1 .. size /\ sizeNext >= size
        BY <2>0, <2>1
      <4>2. ~(k > 0 /\ m_position < at + len /\ at < m_position + k)
        BY <1>2, Zenon DEF Overwrites
      <4> HIDE DEF k, at, len, size, sizeNext
      <4>3. (at + i) - m_position \notin 1 .. k /\ at + i \in 1 .. sizeNext
        BY <4>1, <4>2
      <4>4. QED
        BY <4>3 DEF k, at, sizeNext
    <3>2. mark' = mark
      BY <1>2
    <3>3. ByteAt(nodes', mark.at + i) = ByteAt(nodes, mark.at + i)
      BY <3>1
    <3>4. QED
      BY <3>2, <3>3 DEF ByteAt
  <2>2. QED
    BY <1>2, <2>0, <2>1, StillMarked
<1>3. QED
  BY <1>1, <1>2

LEMMA WriteStep == ASSUME ArrayInv, NEW buf \in Bufs, Write(buf) PROVE ArrayInv'
<1>1. buf \in Seq(Byte) /\ buf # <<>>
  BY ByteArrayAssumption
<1>2. Sound /\ MarkKept /\ Put(buf) /\ Len(nodes) > 0 /\ Len(nodes) \in Nat
  BY DEF ArrayInv, Write, Sound
<1>3. /\ Sound' /\ Len(nodes') >= Len(nodes) /\ fault' = NoFault
      /\ m_size' >= m_size
      /\ \A i \in 1 .. m_size' :
           ByteAt(nodes', i) = IF i - m_position \in 1 .. Len(buf)
                               THEN buf[i - m_position] ELSE ByteAt(nodes, i)
  BY <1>1, <1>2, PutFacts
<1>4. MarkKept'
  BY <1>1, <1>2, <1>3, Overwritten DEF Write
<1>5. m_endian' = m_endian /\ Len(nodes') > 0
  BY <1>2, <1>3 DEF Write, Sound
<1>6. QED
  BY <1>3, <1>4, <1>5 DEF ArrayInv

LEMMA RecvStep ==
    ASSUME ArrayInv, NEW buf \in Bufs \cup {<<>>}, NEW len \in 1 .. MaxSize, Recv(len, buf)
    PROVE  ArrayInv'
<1>1. buf \in Seq(Byte) /\ len \in Nat \ {0}
  <2>1. <<>> \in Seq(Byte) /\ \A b \in Bufs : b \in Seq(Byte)
    BY ByteArrayAssumption
  <2>2. len \in Nat \ {0}
    BY Constants
  <2>3. QED
    BY <2>1, <2>2
<1>2. Sound /\ MarkKept /\ Len(nodes) > 0 /\ Len(nodes) \in Nat
  BY DEF ArrayInv, Sound
<1>3. /\ Sound' /\ Len(nodes') >= Len(nodes) /\ fault' = NoFault
      /\ m_size' >= m_size
      /\ \A i \in 1 .. m_size' :
           ByteAt(nodes', i) = IF i - m_position \in 1 .. Len(buf)
                               THEN buf[i - m_position] ELSE ByteAt(nodes, i)
  BY <1>1, <1>2, RecvFacts
<1>4. MarkKept'
  BY <1>1, <1>2, <1>3, Overwritten DEF Recv
<1>5. m_endian' = m_endian /\ Len(nodes') > 0
  BY <1>2, <1>3 DEF Recv, Sound
<1>6. QED
  BY <1>3, <1>4, <1>5 DEF ArrayInv

\* What a typed write keeps is at the beginning of what it writes.
LEMMA KeptBegins ==
    ASSUME NEW item \in Items
    PROVE  Len(Encode(Kept(item))) \in Nat /\ Begins(Encode(Kept(item)), Encode(item))
<1>1. CASE item.kind = "strF" /\ item.val \in Seq(Byte)
  <2> DEFINE t == item.val
             n == Len(t) % FUINT
             u == SubSeq(t, 1, n)
             f == Fixed(n)
  <2>1. n \in Fixed16 /\ n \in Nat /\ n <= Len(t) /\ n % FUINT = n /\ Len(t) \in Nat
    BY <1>1, CutLength
  <2>2. f \in Seq(Byte) /\ Len(f) = 2
    BY <2>1, FixedType
  <2>3. Encode(item) = f \o t
    BY <1>1 DEF Encode
  <2>4. Kept(item) = [kind |-> "strF", val |-> u]
    BY <1>1 DEF Kept
  <2> HIDE DEF n, f
  <2>5. u \in Seq(Byte) /\ Len(u) = n /\ \A i \in 1 .. n : u[i] = t[i]
    BY <1>1, <2>1, CutFront
  <2> HIDE DEF u
  <2>6. Encode(Kept(item)) = f \o u
    <3>1. Kept(item).kind = "strF" /\ Kept(item).val = u
      BY <2>4
    <3>2. Encode(Kept(item)) = Fixed(Len(u) % FUINT) \o u
      BY <3>1 DEF Encode
    <3>3. QED
      BY <2>1, <2>5, <3>2 DEF f
  <2> HIDE DEF t
  <2>7. t \in Seq(Byte)
    BY <1>1 DEF t
  <2>8. \A w \in Seq(Byte) :
           /\ Len(f \o w) = 2 + Len(w)
           /\ \A i \in 1 .. 2 + Len(w) : (f \o w)[i] = IF i <= 2 THEN f[i] ELSE w[i - 2]
    <3> SUFFICES ASSUME NEW w \in Seq(Byte)
                 PROVE  /\ Len(f \o w) = 2 + Len(w)
                        /\ \A i \in 1 .. 2 + Len(w) :
                              (f \o w)[i] = IF i <= 2 THEN f[i] ELSE w[i - 2]
      OBVIOUS
    <3>1. /\ Len(f \o w) = Len(f) + Len(w)
          /\ \A i \in 1 .. Len(f) + Len(w) :
                (f \o w)[i] = IF i <= Len(f) THEN f[i] ELSE w[i - Len(f)]
      BY <2>2, ConcatProperties
    <3>2. QED
      BY <2>2, <3>1
  <2>9. /\ Len(f \o u) = 2 + n /\ Len(f \o t) = 2 + Len(t)
        /\ \A i \in 1 .. 2 + n : (f \o u)[i] = IF i <= 2 THEN f[i] ELSE u[i - 2]
        /\ \A i \in 1 .. 2 + Len(t) : (f \o t)[i] = IF i <= 2 THEN f[i] ELSE t[i - 2]
    BY <2>5, <2>7, <2>8
  <2>10. ASSUME NEW i \in 1 .. 2 + n PROVE (f \o t)[i] = (f \o u)[i]
    <3>1. i \in 1 .. 2 + Len(t) /\ (i <= 2 \/ i - 2 \in 1 .. n)
      BY <2>1
    <3>2. QED
      BY <2>5, <2>9, <3>1
  <2>11. Begins(f \o u, f \o t) /\ Len(f \o u) \in Nat
    BY <2>1, <2>9, <2>10 DEF Begins
  <2>12. QED
    BY <2>3, <2>6, <2>11
<1>2. CASE item.kind # "strF"
  <2>1. Kept(item) = item
    BY <1>2 DEF Kept
  <2>2. Len(Encode(item)) \in Nat
    BY EncodeType, LenProperties
  <2>3. QED
    BY <2>1, <2>2 DEF Begins
<1>3. QED
  BY <1>1, <1>2, ItemCases

LEMMA WriteItemStep == ASSUME ArrayInv, NEW item \in Items, WriteItem(item) PROVE ArrayInv'
<1> DEFINE buf == Encode(item)
<1>1. buf \in Seq(Byte) /\ buf # <<>>
  BY EncodeType
<1>2. Sound /\ Put(buf) /\ Len(nodes) > 0 /\ Len(nodes) \in Nat /\ m_position \in Nat
  BY DEF ArrayInv, WriteItem, Sound
<1>3. /\ Sound' /\ Len(nodes') >= Len(nodes) /\ fault' = NoFault
      /\ Len(buf) \in Nat \ {0} /\ m_position' = m_position + Len(buf)
      /\ \A i \in 1 .. m_size' :
           ByteAt(nodes', i) = IF i - m_position \in 1 .. Len(buf)
                               THEN buf[i - m_position] ELSE ByteAt(nodes, i)
  BY <1>1, <1>2, PutFacts
<1>4. m_endian' = m_endian /\ Len(nodes') > 0
  BY <1>2, <1>3 DEF WriteItem, Sound
<1> DEFINE kept == Kept(item)
           e == Encode(kept)
<1>5. /\ mark'.at = m_position /\ mark'.len = Len(e) /\ mark'.kind = kept.kind
      /\ mark'.val = kept.val /\ mark'.endian = m_endian
  BY KeptExact DEF WriteItem
<1>6. e = EncodeAs(kept, mark'.endian)
  BY <1>5, EncodeIs
<1>7. Len(e) \in Nat /\ Len(e) <= Len(buf) /\ \A i \in 1 .. Len(e) : buf[i] = e[i]
  BY KeptBegins DEF Begins
<1> HIDE DEF buf, kept, e
<1>8. Holds(kept)'
  <2>1. mark'.at + mark'.len <= m_size'
    BY <1>2, <1>3, <1>5, <1>7 DEF Sound
  <2>2. ASSUME NEW i \in 1 .. Len(e)
        PROVE  ByteAt(nodes', m_position + i) = e[i]
    <3>1. (m_position + i) - m_position = i /\ m_position + i \in 1 .. m_size'
          /\ i \in 1 .. Len(buf)
      BY <1>2, <1>3, <1>5, <1>7, <2>1 DEF Sound
    <3>2. QED
      BY <1>3, <1>7, <3>1
  <2>3. \A i \in 1 .. mark'.len : ByteAt(nodes', mark'.at + i) = EncodeAs(kept, mark'.endian)[i]
    BY <1>5, <1>6, <2>2
  <2>4. kept' = kept
    BY DEF kept, Kept
  <2>5. QED
    BY <1>5, <1>6, <2>1, <2>3, <2>4 DEF Holds, ByteAt, EncodeAs, FixedAs
<1>9. Holds(Kept(item))'
  BY <1>8 DEF kept
<1>10. MarkKept'
  BY <1>2, <1>5, <1>7, <1>9 DEF MarkKept
<1>11. QED
  BY <1>3, <1>4, <1>10 DEF ArrayInv

\* Reads inside the data meet no null block and leave m_cur where the position is.
LEMMA ReadFacts ==
    ASSUME Sound, NEW size \in Nat, size <= getReadSize, size > 0 \/ m_cur # Null
    PROVE  /\ m_cur # Null /\ InChain(nodes, m_cur, size)
           /\ Advance(nodes, m_cur, size) = Place(nodes, m_position + size)
           /\ m_position + size \in Nat /\ m_position + size <= m_size
<1>1. /\ m_position \in Nat /\ m_size \in Nat /\ m_capacity \in Nat /\ m_size <= m_capacity
      /\ Len(nodes) \in Nat /\ m_capacity = Len(nodes) * m_baseSize /\ m_position <= m_size
  BY DEF Sound
<1>2. m_position + size \in Nat /\ m_position + size <= m_size /\ m_position + size <= m_capacity
  BY <1>1 DEF getReadSize
<1>3. m_cur = m_position \div m_baseSize + 1 /\ m_position # m_capacity
  BY <1>1, <1>2 DEF Sound
<1>4. m_position \div m_baseSize \in Nat
  BY <1>1, DivType
<1>5. m_cur # Null
  BY <1>3, <1>4 DEF Null
<1>6. Advance(nodes, m_cur, size) = Place(nodes, m_position + size)
  BY <1>1, <1>2, <1>3, AdvancePlace
<1>7. InChain(nodes, m_cur, size)
  <2>1. CASE size # 0
    <3>1. size \in Nat \ {0} /\ m_position + size <= Len(nodes) * m_baseSize
      BY <1>1, <1>2, <2>1
    <3>2. QED
      BY <1>1, <1>3, <3>1, CopyInChain
  <2>2. CASE size = 0
    <3>1. npos \in 0 .. m_baseSize - 1
      BY <1>1, DivMod DEF npos
    <3>2. npos + 0 - 1 < m_baseSize /\ npos + 0 - 1 >= -1 /\ npos + 0 - 1 \in Int
      BY <3>1, Constants
    <3>3. (npos + 0 - 1) \div m_baseSize <= 0 /\ (npos + 0 - 1) \div m_baseSize \in Int
      BY <3>2, Constants
    <3>4. m_position < Len(nodes) * m_baseSize
      BY <1>1, <1>3
    <3>5. m_position \div m_baseSize < Len(nodes)
      BY <1>1, <3>4, DivLess
    <3>6. QED
      BY <1>1, <1>3, <1>4, <1>5, <2>2, <3>3, <3>5 DEF InChain
  <2>3. QED
    BY <2>1, <2>2
<1>8. QED
  BY <1>2, <1>5, <1>6, <1>7

\* Moving the position inside the data.
LEMMA ReadMoves ==
    ASSUME ArrayInv, NEW v \in Nat, v <= m_size, m_position' = v, m_cur' = Place(nodes, v),
           UNCHANGED <<nodes, m_capacity, m_size, fault, m_endian, mark>>
    PROVE  ArrayInv'
<1>1. Sound /\ m_size \in Nat /\ m_capacity \in Nat /\ m_size <= m_capacity /\ MarkKept
  BY DEF ArrayInv, Sound
<1>2. v <= m_capacity /\ m_size' = Max2(m_size, v) /\ m_size' \in Nat /\ m_size' >= m_size
  BY <1>1 DEF Max2
<1>3. Sound'
  BY <1>1, <1>2, MoveFacts
<1>4. MarkKept'
  BY <1>1, <1>2, SameBlocks
<1>5. QED
  BY <1>3, <1>4 DEF ArrayInv

\* Nothing but a fault, the byte order or out.
LEMMA SameInv ==
    ASSUME ArrayInv, UNCHANGED <<cvars, mark>>, m_endian' \in {"big", "little"},
           fault' \in {NoFault, "empty read", "file"}
    PROVE  ArrayInv'
<1>1. Sound' /\ MarkKept' /\ Len(nodes') > 0
  <2>0. Sound /\ MarkKept /\ Len(nodes) > 0
    BY InvParts
  <2>1. m_size \in Nat /\ m_size >= m_size
    BY <2>0, SoundParts, Zenon
  <2>2. nodes' = nodes /\ mark' = mark /\ m_size' = m_size
    BY DEF cvars
  <2>3. QED
    BY <2>0, <2>1, <2>2, SoundSame, SameBlocks
<1>2. QED
  BY <1>1 DEF ArrayInv

LEMMA GetStep == ASSUME ArrayInv, NEW n \in 0 .. MaxSize, Get(n) PROVE ArrayInv'
<1>0. fault = NoFault /\ m_endian' = m_endian /\ mark' = mark
  BY DEF Get
<1>1. Sound /\ n \in Nat /\ getReadSize \in Nat /\ m_endian \in {"big", "little"}
  BY Constants, InvParts, SoundParts
<1>2. CASE n > getReadSize
  BY <1>0, <1>1, <1>2, SameInv DEF Get
<1>3. CASE n <= getReadSize /\ n = 0 /\ m_cur = Null
  <2>1. ~(n > getReadSize)
    BY <1>1, <1>3
  <2>2. fault' = "empty read" /\ UNCHANGED cvars
    BY <1>3, <2>1 DEF Get
  <2>3. QED
    BY <1>0, <1>1, <2>2, SameInv
<1>4. CASE n <= getReadSize /\ (n > 0 \/ m_cur # Null)
  <2>1. /\ m_cur # Null /\ InChain(nodes, m_cur, n)
        /\ Advance(nodes, m_cur, n) = Place(nodes, m_position + n)
        /\ m_position + n \in Nat /\ m_position + n <= m_size
    BY <1>1, <1>4, ReadFacts
  <2>2. m_cur' = Place(nodes, m_position + n) /\ m_position' = m_position + n
        /\ UNCHANGED <<nodes, m_capacity, m_size, fault>>
    BY <1>1, <1>4, <2>1 DEF Get
  <2>3. QED
    BY <1>0, <1>1, <2>1, <2>2, ReadMoves
<1>5. QED
  BY <1>1, <1>2, <1>3, <1>4

\* Looking at all there is.
LEMMA PeekFacts ==
    ASSUME Sound, getReadSize # 0
    PROVE  getReadSize \in Nat \ {0} /\ InChain(nodes, m_cur, getReadSize)
<1>1. getReadSize \in Nat /\ getReadSize > 0 /\ getReadSize <= getReadSize
  BY DEF Sound, getReadSize
<1>2. QED
  BY <1>1, ReadFacts

LEMMA PeekStep == ASSUME ArrayInv, Peek \/ writeToFile PROVE ArrayInv'
<1>1. Sound /\ fault = NoFault /\ m_endian' \in {"big", "little"} /\ UNCHANGED <<cvars, mark>>
  BY DEF ArrayInv, Peek, writeToFile
<1>2. fault' \in {NoFault, "file"}
  BY <1>1, PeekFacts DEF Peek, writeToFile
<1>3. QED
  BY <1>1, <1>2, SameInv

LEMMA SetPositionStep == ASSUME ArrayInv, NEW v \in 0 .. MaxSize, setPosition(v) PROVE ArrayInv'
<1>1. Sound /\ MarkKept /\ v \in Nat /\ m_capacity \in Nat /\ m_size \in Nat /\ fault' = NoFault
      /\ Len(nodes) \in Nat /\ m_capacity = Len(nodes) * m_baseSize
      /\ UNCHANGED <<m_endian, mark>>
  BY Constants DEF ArrayInv, Sound, setPosition
<1>2. CASE v > m_capacity
  <2>1. UNCHANGED cvars
    BY <1>2 DEF setPosition
  <2>2. QED
    BY <1>1, <2>1, SameInv DEF ArrayInv
<1>3. CASE ~(v > m_capacity)
  <2>1. v <= m_capacity /\ v <= Len(nodes) * m_baseSize
    BY <1>1, <1>3
  <2>2. m_position' = v /\ m_size' = Max2(m_size, v) /\ m_cur' = Place(nodes, v)
        /\ UNCHANGED <<nodes, m_capacity>>
    BY <1>1, <1>3, <2>1, BlockOfPlace DEF setPosition
  <2>3. Sound'
    BY <1>1, <2>1, <2>2, MoveFacts
  <2>4. MarkKept'
    <3>1. m_size' \in Nat /\ m_size' >= m_size
      BY <1>1, <2>2 DEF Max2
    <3>2. QED
      BY <1>1, <2>2, <3>1, SameBlocks
  <2>5. QED
    BY <1>1, <2>2, <2>3, <2>4 DEF ArrayInv
<1>4. QED
  BY <1>2, <1>3

LEMMA SendStep ==
    ASSUME ArrayInv, NEW len \in 0 .. MaxSize, NEW rt \in 1 .. len, Send(len, rt) PROVE ArrayInv'
<1> DEFINE n == IF len > getReadSize THEN getReadSize ELSE len
<1>1. Sound /\ fault = NoFault /\ getReadSize \in Int /\ len \in Nat /\ rt \in 1 .. n
      /\ UNCHANGED <<nodes, m_capacity, m_size, m_endian, mark>>
  BY Constants DEF ArrayInv, Sound, getReadSize, Send
<1>2. n \in Nat /\ n <= getReadSize /\ n > 0 /\ rt \in Nat /\ rt <= getReadSize /\ rt > 0
  BY <1>1
<1>3. InChain(nodes, m_cur, n)
  BY <1>1, <1>2, ReadFacts
<1>4. m_position + rt \in Nat /\ m_position + rt <= m_size
  BY <1>1, <1>2, ReadFacts
<1>5. BlockOf(nodes, m_position + rt) = Place(nodes, m_position + rt)
  <2>1. Len(nodes) \in Nat /\ m_position + rt <= Len(nodes) * m_baseSize
    BY <1>1, <1>4 DEF Sound
  <2>2. QED
    BY <1>4, <2>1, BlockOfPlace
<1>6. m_position' = m_position + rt /\ m_cur' = Place(nodes, m_position + rt) /\ UNCHANGED fault
  BY <1>1, <1>3, <1>5 DEF Send
<1>7. QED
  BY <1>1, <1>4, <1>6, ReadMoves

LEMMA ClearStep == ASSUME ArrayInv, clear PROVE ArrayInv'
<1>1. nodes \in Seq(Blocks) /\ Len(nodes) \in Nat /\ Len(nodes) > 0
  BY DEF ArrayInv, Sound
<1>2. nodes' \in Seq(Blocks) /\ Len(nodes') = 1
  <2>1. 1 \in 1 .. Len(nodes) + 1 /\ 1 \in 1 - 1 .. Len(nodes)
    BY <1>1
  <2>2. SubSeq(nodes, 1, 1) \in Seq(Blocks) /\ Len(SubSeq(nodes, 1, 1)) = 1
    BY <1>1, <2>1, SubSeqProperties
  <2>3. QED
    BY <2>2 DEF clear
<1>3. m_capacity' = Len(nodes') * m_baseSize /\ m_capacity' \in Nat /\ m_capacity' > 0
  BY <1>2, Constants DEF clear
<1>4. 0 \div m_baseSize + 1 = 1
  BY Constants
<1>5. Sound'
  BY <1>2, <1>3, <1>4 DEF Sound, clear
<1>6. mark'.at = 0 /\ mark'.len = 0 /\ mark'.kind \notin Kinds
  BY DEF clear, NoMark, Kinds
<1>7. MarkKept'
  BY <1>6 DEF MarkKept
<1>8. QED
  BY <1>2, <1>5, <1>7 DEF ArrayInv, clear

\* The bytes left to read.
LEMMA RestFacts ==
    ASSUME Sound
    PROVE  /\ getReadSize \in Nat
           /\ Rest \in Seq(Junk .. 2 * H - 1) /\ Len(Rest) = getReadSize
           /\ \A i \in 1 .. getReadSize : Rest[i] = ByteAt(nodes, m_position + i)
<1>1. getReadSize \in Nat
  BY DEF getReadSize, Sound
<1>2. CASE getReadSize = 0
  BY <1>2 DEF Rest
<1>3. CASE getReadSize # 0
  <2>1. getReadSize \in Nat \ {0} /\ m_position + getReadSize <= m_capacity
    BY <1>1, <1>3 DEF Sound, getReadSize
  <2>2. Rest = Fetch(getReadSize)
    BY <1>3 DEF Rest
  <2>3. QED
    BY <2>1, <2>2, FetchFacts
<1>4. QED
  BY <1>1, <1>2, <1>3

LEMMA RestBytes ==
    ASSUME Sound, \A i \in DOMAIN Rest : Rest[i] # Junk
    PROVE  Rest \in Seq(Byte)
<1>1. Rest \in Seq(Junk .. 2 * H - 1) /\ Len(Rest) \in Nat
  BY RestFacts
<1>2. Rest \in [1 .. Len(Rest) -> Junk .. 2 * H - 1]
  BY <1>1, LenProperties
<1>3. \A i \in 1 .. Len(Rest) : Rest[i] \in Byte
  BY <1>2, Constants DEF Byte, Junk
<1>4. Rest \in [1 .. Len(Rest) -> Byte]
  BY <1>2, <1>3
<1>5. QED
  BY <1>1, <1>4

LEMMA ReadItemStep == ASSUME ArrayInv, NEW kind \in Kinds, ReadItem(kind) PROVE ArrayInv'
<1> DEFINE d == Decode(kind, Rest)
<1>1. Sound /\ fault = NoFault /\ m_endian \in {"big", "little"} /\ UNCHANGED <<m_endian, mark>>
      /\ \A i \in DOMAIN Rest : Rest[i] # Junk
  BY DEF ArrayInv, ReadItem
<1>2. getReadSize \in Nat /\ Rest \in Seq(Junk .. 2 * H - 1) /\ Len(Rest) = getReadSize
  BY <1>1, RestFacts
<1>3. Rest \in Seq(Byte)
  BY <1>1, RestBytes
<1>4. d.used \in 0 .. getReadSize
  BY <1>2, <1>3, DecodeUsed
<1>5. CASE fault' = "empty read" /\ UNCHANGED cvars
  BY <1>1, <1>5, SameInv
<1>6. CASE /\ m_position' = m_position + d.used
           /\ m_cur' = IF d.used = 0 THEN m_cur ELSE Advance(nodes, m_cur, d.used)
           /\ UNCHANGED <<nodes, m_capacity, m_size, fault>>
  <2> HIDE DEF d
  <2>1. d.used \in Nat /\ d.used <= getReadSize
    BY <1>2, <1>4
  <2>2. CASE d.used = 0
    <3>1. m_position' = m_position /\ m_cur' = m_cur
      BY <1>1, <1>6, <2>2 DEF Sound
    <3>2. QED
      BY <1>1, <1>6, <3>1, SameInv DEF cvars
  <2>3. CASE d.used # 0
    <3>1. /\ Advance(nodes, m_cur, d.used) = Place(nodes, m_position + d.used)
          /\ m_position + d.used \in Nat /\ m_position + d.used <= m_size
      BY <1>1, <2>1, <2>3, ReadFacts
    <3>2. QED
      BY <1>1, <1>6, <2>3, <3>1, ReadMoves
  <2>4. QED
    BY <2>2, <2>3
<1>7. QED
  BY <1>5, <1>6 DEF ReadItem

LEMMA NextInv == ArrayInv /\ [Next]_bvars => ArrayInv'
<1> SUFFICES ASSUME ArrayInv, [Next]_bvars PROVE ArrayInv'
  OBVIOUS
<1>1. CASE UNCHANGED bvars
  BY <1>1, SameInv DEF bvars, ArrayInv
<1>2. ASSUME NEW val \in BOOLEAN, setIsLittleEndian(val) PROVE ArrayInv'
  BY <1>2, SameInv DEF setIsLittleEndian, ArrayInv
<1>3. QED
  BY <1>1, <1>2, WriteStep, RecvStep, GetStep, PeekStep, SetPositionStep, SendStep, ClearStep,
     WriteItemStep, ReadItemStep DEF Next

\* The blocks, the cursor and the last typed value stay together through write, read,
\* setPosition, clear, growth and the socket's buffers (bytearray.cc).
THEOREM ArrayInvariant == Spec => []ArrayInv
<1>1. QED
  BY InitInv, NextInv, PTL DEF Spec

\* Whatever is appended and cleared, m_capacity is the size of the list (addCapacity and
\* clear, bytearray.cc), and m_cur a block of it or null.
THEOREM ArrayTypeCorrect == Spec => []TypeOK
BY ArrayInvariant, InvTypeOK, PTL

\* m_cur is always the block of m_position, null exactly at the end of the capacity, and
\* no copying loop runs off the list (write, read, setPosition and addCapacity,
\* bytearray.cc), for blocks of any size and any sequence of operations.
THEOREM CursorAlways == Spec => []Cursor
BY ArrayInvariant, InvTypeOK, PTL

\* The read itself, with the null block that ends it.
LEMMA ReadItemBack ==
    ASSUME ArrayInv, m_position = mark.at, m_endian = mark.endian,
           mark.kind \in Kinds, ReadItem(mark.kind)
    PROVE  \/ /\ value' = <<mark.kind, mark.val>>
              /\ m_position' = mark.at + mark.len /\ fault' = NoFault
           \/ /\ fault' = "empty read" /\ mark.kind \in {"strF", "strV"} /\ mark.val = <<>>
              /\ mark.at + mark.len = m_capacity
<1> DEFINE d == Decode(mark.kind, Rest)
<1>1. Sound /\ MarkKept
  BY DEF ArrayInv
<1>2. PICK it \in Items : Holds(Kept(it))
  BY <1>1 DEF MarkKept
<1> DEFINE item == Kept(it)
<1>3. getReadSize \in Nat /\ Rest \in Seq(Junk .. 2 * H - 1) /\ Len(Rest) = getReadSize
      /\ \A i \in 1 .. getReadSize : Rest[i] = ByteAt(nodes, m_position + i)
  BY <1>1, RestFacts
<1>4. Encode(item) = EncodeAs(item, mark.endian)
  BY EncodeIs
<1>5. Exact(item) /\ Holds(item)
  BY <1>2, KeptExact
<1> HIDE DEF item
<1>6. Begins(Encode(item), Rest)
  <2>1. mark.len = Len(Encode(item)) /\ mark.len <= getReadSize /\ mark.len \in Nat
    BY <1>1, <1>5, <1>4 DEF Holds, getReadSize, Sound, MarkKept
  <2>2. QED
    BY <1>5, <1>3, <1>4, <2>1 DEF Begins, Holds
<1>7. d.ok /\ d.val = mark.val /\ d.used = mark.len
  BY <1>3, <1>4, <1>5, <1>6, DecodeBack DEF Holds
<1>8. fault = NoFault
  BY DEF ReadItem
<1> HIDE DEF d
<1>9. CASE /\ mark.kind \in {"strF", "strV"} /\ d.ok /\ d.val = <<>>
           /\ m_position + d.used = m_capacity
  <2>1. fault' = "empty read"
    BY <1>9 DEF ReadItem, d
  <2>2. QED
    BY <1>7, <1>9, <2>1
<1>10. CASE ~(/\ mark.kind \in {"strF", "strV"} /\ d.ok /\ d.val = <<>>
             /\ m_position + d.used = m_capacity)
  <2>1. /\ m_position' = m_position + d.used
        /\ value' = IF d.ok THEN <<mark.kind, d.val>> ELSE Thrown
        /\ fault' = fault
    BY <1>10 DEF ReadItem, d
  <2>2. QED
    BY <1>7, <1>8, <2>1
<1>11. QED
  BY <1>9, <1>10

\* What writeFuint16, writeUint32, writeInt32 and the string writes keep of a value, the
\* read of the same kind returns, until it is overwritten: for every number of the width,
\* every string, and wherever the blocks are cut; except that the empty string that ends
\* with the capacity is read through a null block (bytearray.cc:371), and that of a string
\* of more than 65535 bytes writeStringF16 keeps the first ones (bytearray.cc:175).
THEOREM ReadsBackAlways == Spec => ReadsBack
<1>1. ArrayInv /\ [Next]_bvars =>
        [ /\ m_position = mark.at /\ m_endian = mark.endian
          /\ mark.kind \in Kinds /\ ReadItem(mark.kind)
          => \/ /\ value' = <<mark.kind, mark.val>>
                /\ m_position' = mark.at + mark.len /\ fault' = NoFault
             \/ /\ fault' = "empty read" /\ mark.kind \in {"strF", "strV"} /\ mark.val = <<>>
                /\ mark.at + mark.len = m_capacity]_bvars
  BY ReadItemBack
<1>2. QED
  BY <1>1, ArrayInvariant, PTL DEF Spec, ReadsBack

-----------------------------------------------------------------------------
(* ByteArray implements ByteStream                                         *)

Data == [i \in 1 .. m_size |-> DataAt(i)]

LEMMA DataFacts ==
    ASSUME Sound
    PROVE  /\ Data \in Seq(Junk .. 2 * H - 1) /\ Len(Data) = m_size
           /\ \A i \in 1 .. m_size : Data[i] = ByteAt(nodes, i)
<1>1. m_size \in Nat /\ m_capacity \in Nat /\ m_size <= m_capacity /\ nodes \in Seq(Blocks)
      /\ m_capacity = Len(nodes) * m_baseSize
  BY DEF Sound
<1>2. \A i : DataAt(i) = ByteAt(nodes, i)
  BY DEF DataAt, ByteAt
<1>3. ASSUME NEW i \in 1 .. m_size PROVE DataAt(i) \in Junk .. 2 * H - 1
  <2>1. i \in 1 .. Len(nodes) * m_baseSize
    BY <1>1
  <2>2. QED
    BY <1>1, <1>2, <2>1, ByteAtType
<1>4. Data \in [1 .. m_size -> Junk .. 2 * H - 1]
  BY <1>3 DEF Data
<1>5. QED
  BY <1>1, <1>2, <1>4 DEF Data

\* Two sequences with the same elements are the same.
LEMMA SameSeq ==
    ASSUME NEW B, NEW s \in Seq(B), NEW t \in Seq(B), Len(s) = Len(t),
           \A i \in 1 .. Len(s) : s[i] = t[i]
    PROVE  s = t
<1>1. s = [i \in 1 .. Len(s) |-> s[i]] /\ t = [i \in 1 .. Len(t) |-> t[i]]
  OBVIOUS
<1>2. QED
  BY <1>1

\* Two cuts with the same elements.
LEMMA SameCut ==
    ASSUME NEW B, NEW s \in Seq(B), NEW t \in Seq(B), NEW from \in Nat, NEW upto \in Nat,
           from <= upto, upto <= Len(s), upto <= Len(t),
           \A i \in 1 .. upto - from : s[from + i] = t[from + i]
    PROVE  SubSeq(s, from + 1, upto) = SubSeq(t, from + 1, upto)
<1> DEFINE a == SubSeq(s, from + 1, upto)
           b == SubSeq(t, from + 1, upto)
<1>1. a \in Seq(B) /\ Len(a) = upto - from /\ \A i \in 1 .. upto - from : a[i] = s[from + i]
  BY Cut
<1>2. b \in Seq(B) /\ Len(b) = upto - from /\ \A i \in 1 .. upto - from : b[i] = t[from + i]
  BY Cut
<1> HIDE DEF a, b
<1>3. a = b
  BY <1>1, <1>2, SameSeq
<1>4. QED
  BY <1>3 DEF a, b

\* The bytes left to read are those of the sequence from the position on.
LEMMA RestIs == ASSUME Sound PROVE Rest = SubSeq(Data, m_position + 1, m_size)
<1> DEFINE B == Junk .. 2 * H - 1
           t == SubSeq(Data, m_position + 1, m_size)
<1>1. getReadSize \in Nat /\ Rest \in Seq(B) /\ Len(Rest) = getReadSize
      /\ \A i \in 1 .. getReadSize : Rest[i] = ByteAt(nodes, m_position + i)
  BY RestFacts
<1>2. m_position \in Nat /\ m_size \in Nat /\ m_position <= m_size /\ getReadSize = m_size - m_position
  BY DEF Sound, getReadSize
<1>3. Data \in Seq(B) /\ Len(Data) = m_size /\ \A i \in 1 .. m_size : Data[i] = ByteAt(nodes, i)
  BY DataFacts
<1> HIDE DEF B
<1>4. /\ t \in Seq(B) /\ Len(t) = m_size - m_position
      /\ \A i \in 1 .. m_size - m_position : t[i] = Data[m_position + i]
  BY <1>2, <1>3, Cut
<1> HIDE DEF t
<1>5. \A i \in 1 .. getReadSize : Rest[i] = t[i]
  <2> SUFFICES ASSUME NEW i \in 1 .. getReadSize PROVE Rest[i] = t[i]
    OBVIOUS
  <2>1. m_position + i \in 1 .. m_size /\ i \in 1 .. m_size - m_position
    BY <1>2
  <2>2. QED
    BY <1>1, <1>3, <1>4, <2>1
<1>6. Rest = t
  BY <1>1, <1>2, <1>4, <1>5, SameSeq
<1>7. QED
  BY <1>6 DEF t

\* Reading part of them.
LEMMA FetchIs ==
    ASSUME Sound, NEW size \in Nat, size <= getReadSize
    PROVE  Fetch(size) = SubSeq(Rest, 1, size)
<1> DEFINE B == Junk .. 2 * H - 1
           t == SubSeq(Rest, 1, size)
<1>1. getReadSize \in Nat /\ Rest \in Seq(B) /\ Len(Rest) = getReadSize
      /\ \A i \in 1 .. getReadSize : Rest[i] = ByteAt(nodes, m_position + i)
  BY RestFacts
<1> HIDE DEF B
<1>2. t \in Seq(B) /\ Len(t) = size /\ \A i \in 1 .. size : t[i] = Rest[i]
  BY <1>1, CutFront
<1>3. t = SubSeq(Rest, 1, size)
  OBVIOUS
<1> HIDE DEF t
<1>4. CASE size = 0
  <2>1. Fetch(size) = <<>>
    BY <1>4 DEF Fetch, ReadAt
  <2>2. t = <<>>
    BY <1>2, <1>4, EmptySeq
  <2>3. QED
    BY <1>3, <2>1, <2>2
<1>5. CASE size # 0
  <2>1. size \in Nat \ {0} /\ m_position + size <= m_capacity
    BY <1>1, <1>5 DEF Sound, getReadSize
  <2>2. /\ Fetch(size) = [i \in 1 .. size |-> ByteAt(nodes, m_position + i)]
        /\ Fetch(size) \in Seq(B) /\ Len(Fetch(size)) = size
    BY <2>1, FetchFacts DEF B
  <2>3. \A i \in 1 .. size : Fetch(size)[i] = t[i]
    <3> SUFFICES ASSUME NEW i \in 1 .. size PROVE Fetch(size)[i] = t[i]
      OBVIOUS
    <3>1. i \in 1 .. getReadSize
      BY <1>1
    <3>2. QED
      BY <1>1, <1>2, <2>2, <3>1
  <2>4. Fetch(size) = t
    BY <1>2, <2>2, <2>3, SameSeq
  <2>5. QED
    BY <1>3, <2>4
<1>6. QED
  BY <1>4, <1>5

\* The steps of ByteStream, of this sequence.
LEMMA AbstractWrite ==
    ASSUME NEW n \in 1 .. Len(Data'),
           m_position' = m_position + n, m_position' <= Len(Data'),
           SubSeq(Data', 1, m_position) = SubSeq(Data, 1, m_position),
           SubSeq(Data', m_position' + 1, Len(Data')) = SubSeq(Data, m_position' + 1, Len(Data)),
           out' = SubSeq(Data', m_position + 1, m_position')
    PROVE  Abstract!Write
BY Zenon DEF Abstract!Write, Data

LEMMA AbstractRead ==
    ASSUME NEW n \in 0 .. Len(SubSeq(Data, m_position + 1, Len(Data))),
           m_position' = m_position + n,
           out' = SubSeq(SubSeq(Data, m_position + 1, Len(Data)), 1, n),
           Data' = Data
    PROVE  Abstract!Read
BY Zenon DEF Abstract!Read, Abstract!Rest, Data

LEMMA AbstractPeek ==
    ASSUME out' = SubSeq(Data, m_position + 1, Len(Data)), Data' = Data, m_position' = m_position
    PROVE  Abstract!Peek
BY Zenon DEF Abstract!Peek, Abstract!Rest, Data

LEMMA AbstractSeek ==
    ASSUME Len(Data') = IF m_position' > Len(Data) THEN m_position' ELSE Len(Data),
           SubSeq(Data', 1, Len(Data)) = Data, out' = <<>>
    PROVE  Abstract!Seek
BY Zenon DEF Abstract!Seek, Data

LEMMA AbstractClear ==
    ASSUME Data' = <<>>, m_position' = 0, out' = <<>>
    PROVE  Abstract!Clear
BY Zenon DEF Abstract!Clear, Data

LEMMA AbstractRefuse ==
    ASSUME out' = Thrown, Data' = Data, m_position' = m_position
    PROVE  Abstract!Refuse
BY Zenon DEF Abstract!Refuse, Data, Thrown

LEMMA AbstractStutter ==
    ASSUME out' = out, Data' = Data, m_position' = m_position
    PROVE  UNCHANGED Abstract!vars
BY Zenon DEF Abstract!vars, Data

LEMMA SameData == UNCHANGED <<nodes, m_size>> => Data' = Data
BY DEF Data, DataAt

DataSeq == /\ Data \in Seq(Junk .. 2 * H - 1) /\ Len(Data) = m_size
           /\ \A i \in 1 .. m_size : Data[i] = ByteAt(nodes, i)

LEMMA DataIs == Sound => DataSeq
BY DataFacts DEF DataSeq

LEMMA DataIsNext == Sound' => DataSeq'
BY DataIs, PTL

\* A write replaces and extends.
LEMMA WriteRefines ==
    ASSUME Sound, Sound', NEW buf \in Seq(Byte), Len(buf) \in Nat \ {0},
           m_position' = m_position + Len(buf), m_size' = Max2(m_size, m_position'),
           \A i \in 1 .. m_size' :
                ByteAt(nodes', i) = IF i - m_position \in 1 .. Len(buf)
                                    THEN buf[i - m_position] ELSE ByteAt(nodes, i),
           out' = buf
    PROVE  Abstract!Write
<1> DEFINE B == Junk .. 2 * H - 1
           n == Len(buf)
<1>1. /\ m_position \in Nat /\ m_size \in Nat /\ m_position <= m_size
      /\ m_position' \in Nat /\ m_size' \in Nat /\ m_position' <= m_size'
      /\ m_size' = IF m_size >= m_position' THEN m_size ELSE m_position'
  BY DEF Sound, Max2
<1>2. Data \in Seq(B) /\ Len(Data) = m_size /\ \A i \in 1 .. m_size : Data[i] = ByteAt(nodes, i)
  BY DataIs DEF DataSeq
<1>3. /\ Data' \in Seq(B) /\ Len(Data') = m_size'
      /\ \A i \in 1 .. m_size' : Data'[i] = ByteAt(nodes', i)
  BY DataIsNext DEF DataSeq, ByteAt
<1>4. buf \in Seq(B)
  <2>1. Byte \subseteq B
    BY Constants DEF Byte, Junk
  <2>2. buf \in [1 .. Len(buf) -> Byte]
    BY LenProperties
  <2> HIDE DEF B
  <2>3. buf \in [1 .. Len(buf) -> B]
    BY <2>1, <2>2
  <2>4. QED
    BY <2>3
<1> HIDE DEF B
<1>5. ASSUME NEW i \in 1 .. m_size, i <= m_position \/ i > m_position', i \in 1 .. m_size'
      PROVE  Data'[i] = Data[i]
  <2>1. ~(i - m_position \in 1 .. Len(buf))
    BY <1>1, <1>5
  <2>2. QED
    BY <1>2, <1>3, <1>5, <2>1
<1>6. ASSUME NEW i \in 1 .. n PROVE Data'[m_position + i] = buf[i]
  <2>1. m_position + i \in 1 .. m_size' /\ (m_position + i) - m_position = i
    BY <1>1
  <2>2. QED
    BY <1>3, <2>1
<1>7. SubSeq(Data', 1, m_position) = SubSeq(Data, 1, m_position)
  <2> DEFINE a == SubSeq(Data', 1, m_position)
             b == SubSeq(Data, 1, m_position)
  <2>1. m_position <= Len(Data') /\ m_position <= Len(Data)
    BY <1>1, <1>2, <1>3
  <2>2. a \in Seq(B) /\ Len(a) = m_position /\ \A i \in 1 .. m_position : a[i] = Data'[i]
    BY <1>1, <1>3, <2>1, CutFront
  <2>3. b \in Seq(B) /\ Len(b) = m_position /\ \A i \in 1 .. m_position : b[i] = Data[i]
    BY <1>1, <1>2, <2>1, CutFront
  <2> HIDE DEF a, b
  <2>4. \A i \in 1 .. m_position : a[i] = b[i]
    <3> SUFFICES ASSUME NEW i \in 1 .. m_position PROVE a[i] = b[i]
      OBVIOUS
    <3>1. i \in 1 .. m_size /\ i \in 1 .. m_size' /\ i <= m_position
      BY <1>1
    <3>2. QED
      BY <1>5, <2>2, <2>3, <3>1
  <2>5. a = b
    BY <2>2, <2>3, <2>4, SameSeq
  <2>6. QED
    BY <2>5 DEF a, b
<1>8. SubSeq(Data', m_position' + 1, Len(Data')) = SubSeq(Data, m_position' + 1, Len(Data))
  <2>1. CASE m_size >= m_position'
    <3>1. m_size' = m_size /\ m_position' <= m_size /\ m_size <= Len(Data) /\ m_size <= Len(Data')
      BY <1>1, <1>2, <1>3, <2>1
    <3>2. \A i \in 1 .. m_size - m_position' : Data'[m_position' + i] = Data[m_position' + i]
      <4> SUFFICES ASSUME NEW i \in 1 .. m_size - m_position'
                   PROVE  Data'[m_position' + i] = Data[m_position' + i]
        OBVIOUS
      <4>1. m_position' + i \in 1 .. m_size /\ m_position' + i > m_position'
            /\ m_position' + i \in 1 .. m_size'
        BY <1>1, <3>1
      <4>2. QED
        BY <1>5, <4>1
    <3>3. SubSeq(Data', m_position' + 1, m_size) = SubSeq(Data, m_position' + 1, m_size)
      BY <1>1, <1>2, <1>3, <3>1, <3>2, SameCut
    <3>4. QED
      BY <1>2, <1>3, <3>1, <3>3
  <2>2. CASE ~(m_size >= m_position')
    <3>1. m_size' = m_position' /\ m_size' < m_position' + 1 /\ m_size < m_position' + 1
          /\ m_position' + 1 \in Int /\ m_size \in Int /\ m_size' \in Int
      BY <1>1, <2>2
    <3>2. SubSeq(Data', m_position' + 1, m_size') = <<>>
      BY <3>1, SubSeqEmpty
    <3>3. SubSeq(Data, m_position' + 1, m_size) = <<>>
      BY <3>1, SubSeqEmpty
    <3>4. QED
      BY <1>2, <1>3, <3>2, <3>3
  <2>3. QED
    BY <2>1, <2>2
<1>9. buf = SubSeq(Data', m_position + 1, m_position')
  <2> DEFINE a == SubSeq(Data', m_position + 1, m_position')
  <2>1. m_position <= m_position' /\ m_position' <= Len(Data') /\ m_position' - m_position = n
    BY <1>1, <1>3
  <2>2. a \in Seq(B) /\ Len(a) = n /\ \A i \in 1 .. n : a[i] = Data'[m_position + i]
    BY <1>1, <1>3, <2>1, Cut
  <2> HIDE DEF a
  <2>3. \A i \in 1 .. n : buf[i] = a[i]
    BY <1>6, <2>2
  <2>4. buf = a
    BY <1>4, <2>2, <2>3, SameSeq
  <2>5. QED
    BY <2>4 DEF a
<1>10. n \in 1 .. Len(Data') /\ m_position' <= Len(Data')
  BY <1>1, <1>3
<1>11. QED
  BY <1>7, <1>8, <1>9, <1>10, AbstractWrite

\* A read of n bytes.
LEMMA ReadRefines ==
    ASSUME Sound, NEW n \in Nat, n <= getReadSize, m_position' = m_position + n,
           out' = SubSeq(Rest, 1, n), nodes' = nodes, m_size' = m_size
    PROVE  Abstract!Read
<1>1. Len(Rest) = getReadSize /\ getReadSize \in Nat
  BY RestFacts
<1>2. Rest = SubSeq(Data, m_position + 1, Len(Data))
  BY RestIs, DataFacts
<1>3. n \in 0 .. Len(SubSeq(Data, m_position + 1, Len(Data)))
  <2>1. n \in 0 .. Len(Rest)
    BY <1>1
  <2>2. QED
    BY <1>2, <2>1, Zenon
<1>4. Data' = Data
  BY SameData
<1>5. QED
  BY <1>2, <1>3, <1>4, AbstractRead

LEMMA PeekRefines ==
    ASSUME Sound, out' = Rest, nodes' = nodes, m_size' = m_size, m_position' = m_position
    PROVE  Abstract!Peek
<1>1. Rest = SubSeq(Data, m_position + 1, Len(Data))
  BY RestIs, DataFacts
<1>2. Data' = Data
  BY SameData
<1>3. QED
  BY <1>1, <1>2, AbstractPeek

LEMMA SeekRefines ==
    ASSUME Sound, Sound', NEW v \in Nat, m_position' = v, m_size' = Max2(m_size, v),
           nodes' = nodes, out' = <<>>
    PROVE  Abstract!Seek
<1> DEFINE B == Junk .. 2 * H - 1
           a == SubSeq(Data', 1, m_size)
<1>1. m_size \in Nat /\ m_size' \in Nat /\ m_size' >= m_size
      /\ m_size' = IF v > m_size THEN v ELSE m_size
  BY DEF Sound, Max2
<1>2. Data \in Seq(B) /\ Len(Data) = m_size /\ \A i \in 1 .. m_size : Data[i] = ByteAt(nodes, i)
  BY DataIs DEF DataSeq
<1>3. /\ Data' \in Seq(B) /\ Len(Data') = m_size'
      /\ \A i \in 1 .. m_size' : Data'[i] = ByteAt(nodes, i)
  BY DataIsNext DEF DataSeq, ByteAt
<1> HIDE DEF B
<1>4. a \in Seq(B) /\ Len(a) = m_size /\ \A i \in 1 .. m_size : a[i] = Data'[i]
  BY <1>1, <1>3, CutFront
<1> HIDE DEF a
<1>5. \A i \in 1 .. m_size : a[i] = Data[i]
  BY <1>1, <1>2, <1>3, <1>4
<1>6. a = Data
  BY <1>2, <1>4, <1>5, SameSeq
<1>7. SubSeq(Data', 1, Len(Data)) = Data
  BY <1>2, <1>6 DEF a
<1>8. Len(Data') = IF m_position' > Len(Data) THEN m_position' ELSE Len(Data)
  BY <1>1, <1>2, <1>3
<1>9. QED
  BY <1>7, <1>8, AbstractSeek

\* Nothing received: the blocks may be more, the bytes are the same.
LEMMA NothingRefines ==
    ASSUME Sound, Sound', NEW buf \in Seq(Byte), Len(buf) = 0, out' = buf,
           m_position' = m_position + Len(buf), m_size' = Max2(m_size, m_position'),
           \A i \in 1 .. m_size' :
                ByteAt(nodes', i) = IF i - m_position \in 1 .. Len(buf)
                                    THEN buf[i - m_position] ELSE ByteAt(nodes, i)
    PROVE  Abstract!Read
<1> DEFINE B == Junk .. 2 * H - 1
           r == SubSeq(Data, m_position + 1, Len(Data))
<1>1. /\ m_position \in Nat /\ m_size \in Nat /\ m_position <= m_size
      /\ m_position' = m_position + 0 /\ m_size' = m_size
  BY DEF Sound, Max2
<1>2. Data \in Seq(B) /\ Len(Data) = m_size /\ \A i \in 1 .. m_size : Data[i] = ByteAt(nodes, i)
  BY DataIs DEF DataSeq
<1>3. /\ Data' \in Seq(B) /\ Len(Data') = m_size'
      /\ \A i \in 1 .. m_size' : Data'[i] = ByteAt(nodes', i)
  BY DataIsNext DEF DataSeq, ByteAt
<1> HIDE DEF B
<1>4. \A i \in 1 .. m_size : Data'[i] = Data[i]
  BY <1>1, <1>2, <1>3
<1>5. Data' = Data
  BY <1>1, <1>2, <1>3, <1>4, SameSeq
<1>6. r \in Seq(B) /\ Len(r) = m_size - m_position
  BY <1>1, <1>2, Cut
<1> HIDE DEF r
<1>7. 0 \in Nat /\ 0 <= Len(r) /\ 0 \in 0 .. Len(r)
  BY <1>1, <1>6
<1>8. SubSeq(r, 1, 0) = <<>> /\ buf = <<>>
  <2>1. SubSeq(r, 1, 0) \in Seq(B) /\ Len(SubSeq(r, 1, 0)) = 0
    BY <1>6, <1>7, CutFront
  <2>2. QED
    BY <2>1, EmptySeq
<1>9. out' = SubSeq(r, 1, 0)
  BY <1>8
<1>10. QED
  BY <1>1, <1>5, <1>7, <1>9, AbstractRead DEF r

AbstractStep == [Abstract!Next]_(Abstract!vars)

LEMMA StepCases ==
    Abstract!Write \/ Abstract!Read \/ Abstract!Peek \/ Abstract!Seek \/ Abstract!Clear \/ Abstract!Refuse
        \/ UNCHANGED Abstract!vars => AbstractStep
BY Zenon DEF AbstractStep, Abstract!Next

LEMMA FaultRefines == ASSUME UNCHANGED <<nodes, m_size, m_position, out>> PROVE AbstractStep
<1>1. Data' = Data
  BY SameData
<1>2. QED
  BY <1>1, AbstractStutter, StepCases

LEMMA NextRefines == ArrayInv /\ ArrayInv' /\ [Next]_bvars => AbstractStep
<1> SUFFICES ASSUME ArrayInv, ArrayInv', [Next]_bvars PROVE AbstractStep
  OBVIOUS
<1>0. Sound /\ Sound' /\ getReadSize \in Nat /\ m_position \in Nat
  <2>1. Sound /\ Sound'
    BY DEF ArrayInv
  <2>2. QED
    BY <2>1, SoundParts
<1>1. CASE UNCHANGED bvars
  BY <1>1, FaultRefines DEF bvars, cvars
<1>2. ASSUME NEW buf \in Bufs, Write(buf) PROVE AbstractStep
  <2>1. buf \in Seq(Byte) /\ buf # <<>> /\ Put(buf)
    BY <1>2, ByteArrayAssumption DEF Write
  <2>2. out' = buf
    BY <2>1 DEF Put
  <2>3. Abstract!Write
    BY <1>0, <2>1, <2>2, PutFacts, WriteRefines
  <2>4. QED
    BY <2>3, StepCases
<1>3. ASSUME NEW buf \in Bufs \cup {<<>>}, NEW len \in 1 .. MaxSize, Recv(len, buf)
      PROVE  AbstractStep
  <2>1. buf \in Seq(Byte) /\ len \in Nat \ {0}
    <3>1. <<>> \in Seq(Byte) /\ \A b \in Bufs : b \in Seq(Byte)
      BY ByteArrayAssumption
    <3>2. len \in Nat \ {0}
      BY Constants
    <3>3. QED
      BY <3>1, <3>2
  <2>2. out' = buf
    BY <1>3 DEF Recv
  <2>3. CASE Len(buf) # 0
    <3>1. Abstract!Write
      <4>1. Len(buf) \in Nat \ {0}
        BY <2>1, <2>3, LenProperties
      <4>2. QED
        BY <1>0, <1>3, <2>1, <2>2, <4>1, RecvFacts, WriteRefines
    <3>2. QED
      BY <3>1, StepCases
  <2>4. CASE Len(buf) = 0
    <3>1. /\ m_position' = m_position + Len(buf) /\ m_size' = Max2(m_size, m_position')
          /\ \A i \in 1 .. m_size' :
               ByteAt(nodes', i) = IF i - m_position \in 1 .. Len(buf)
                                   THEN buf[i - m_position] ELSE ByteAt(nodes, i)
      BY <1>0, <1>3, <2>1, RecvFacts
    <3>2. QED
      BY <1>0, <2>1, <2>2, <2>4, <3>1, NothingRefines, StepCases
  <2>5. QED
    BY <2>3, <2>4
<1>4. ASSUME NEW item \in Items, WriteItem(item) PROVE AbstractStep
  <2>1. Encode(item) \in Seq(Byte) /\ Encode(item) # <<>> /\ Put(Encode(item))
    BY <1>4, EncodeType DEF WriteItem
  <2>2. out' = Encode(item)
    BY <2>1 DEF Put
  <2>3. Abstract!Write
    BY <1>0, <2>1, <2>2, PutFacts, WriteRefines
  <2>4. QED
    BY <2>3, StepCases
<1>5. ASSUME NEW n \in 0 .. MaxSize, Get(n) PROVE AbstractStep
  <2>0. n \in Nat
    BY Constants
  <2>1. CASE n > getReadSize
    <3>1. out' = Thrown /\ UNCHANGED cvars
      BY <1>5, <2>1 DEF Get
    <3>2. Data' = Data /\ m_position' = m_position
      BY <3>1, SameData DEF cvars
    <3>3. QED
      BY <3>1, <3>2, AbstractRefuse, StepCases
  <2>2. CASE ~(n > getReadSize) /\ (m_cur = Null \/ ~InChain(nodes, m_cur, n))
    <3>1. UNCHANGED <<cvars, out>>
      BY <1>5, <2>2 DEF Get
    <3>2. QED
      BY <3>1, FaultRefines DEF cvars
  <2>3. CASE ~(n > getReadSize) /\ ~(m_cur = Null \/ ~InChain(nodes, m_cur, n))
    <3>1. n <= getReadSize
      BY <1>0, <2>0, <2>3
    <3>2. out' = Fetch(n) /\ m_position' = m_position + n /\ nodes' = nodes /\ m_size' = m_size
      BY <1>5, <2>3 DEF Get
    <3>3. out' = SubSeq(Rest, 1, n)
      BY <1>0, <2>0, <3>1, <3>2, FetchIs
    <3>4. Abstract!Read
      BY <1>0, <2>0, <3>1, <3>2, <3>3, ReadRefines
    <3>5. QED
      BY <3>4, StepCases
  <2>4. QED
    BY <2>1, <2>2, <2>3
<1>6. ASSUME Peek \/ writeToFile PROVE AbstractStep
  <2>1. nodes' = nodes /\ m_size' = m_size /\ m_position' = m_position
    BY <1>6 DEF Peek, writeToFile, cvars
  <2>2. out' = Rest \/ out' = out
    BY <1>6 DEF Peek, writeToFile, Rest, Fetch
  <2>3. QED
    BY <1>0, <2>1, <2>2, PeekRefines, FaultRefines, StepCases
<1>7. ASSUME NEW v \in 0 .. MaxSize, setPosition(v) PROVE AbstractStep
  <2>1. CASE v > m_capacity
    <3>1. out' = Thrown /\ UNCHANGED cvars
      BY <1>7, <2>1 DEF setPosition
    <3>2. Data' = Data /\ m_position' = m_position
      BY <3>1, SameData DEF cvars
    <3>3. QED
      BY <3>1, <3>2, AbstractRefuse, StepCases
  <2>2. CASE ~(v > m_capacity)
    <3>1. m_position' = v /\ m_size' = Max2(m_size, v) /\ nodes' = nodes /\ out' = <<>> /\ v \in Nat
      BY <1>7, <2>2, Constants DEF setPosition
    <3>2. Abstract!Seek
      BY <1>0, <3>1, SeekRefines
    <3>3. QED
      BY <3>2, StepCases
  <2>3. QED
    BY <2>1, <2>2
<1>8. ASSUME NEW len \in 0 .. MaxSize, NEW rt \in 1 .. len, Send(len, rt) PROVE AbstractStep
  <2> DEFINE n == IF len > getReadSize THEN getReadSize ELSE len
  <2>0. rt \in 1 .. n /\ n \in Nat /\ n <= getReadSize /\ rt \in Nat /\ rt <= n /\ rt <= getReadSize
    <3>1. rt \in 1 .. n
      BY <1>8 DEF Send
    <3>2. len \in Nat
      BY Constants
    <3>3. n \in Nat /\ n <= getReadSize
      BY <1>0, <3>2
    <3> HIDE DEF n
    <3>4. QED
      BY <1>0, <3>1, <3>3
  <2>1. nodes' = nodes /\ m_size' = m_size
    BY <1>8 DEF Send
  <2>2. CASE InChain(nodes, m_cur, n)
    <3>1. out' = SubSeq(Fetch(n), 1, rt) /\ m_position' = m_position + rt
      BY <1>8, <2>2 DEF Send
    <3>2. Fetch(n) = SubSeq(Rest, 1, n)
      BY <1>0, <2>0, FetchIs
    <3> HIDE DEF n
    <3>3. SubSeq(SubSeq(Rest, 1, n), 1, rt) = SubSeq(Rest, 1, rt)
      <4> DEFINE B == Junk .. 2 * H - 1
                 a == SubSeq(Rest, 1, n)
                 b == SubSeq(a, 1, rt)
                 c == SubSeq(Rest, 1, rt)
      <4>1. Rest \in Seq(B) /\ Len(Rest) = getReadSize
        BY <1>0, RestFacts
      <4> HIDE DEF B
      <4>2. a \in Seq(B) /\ Len(a) = n /\ \A i \in 1 .. n : a[i] = Rest[i]
        BY <2>0, <4>1, CutFront
      <4> HIDE DEF a
      <4>3. b \in Seq(B) /\ Len(b) = rt /\ \A i \in 1 .. rt : b[i] = a[i]
        BY <2>0, <4>2, CutFront
      <4>4. c \in Seq(B) /\ Len(c) = rt /\ \A i \in 1 .. rt : c[i] = Rest[i]
        BY <2>0, <4>1, CutFront
      <4> HIDE DEF b, c
      <4>5. \A i \in 1 .. rt : b[i] = c[i]
        BY <2>0, <4>2, <4>3, <4>4
      <4>6. b = c
        BY <4>3, <4>4, <4>5, SameSeq
      <4>7. QED
        BY <4>6 DEF a, b, c
    <3>4. Abstract!Read
      BY <1>0, <2>0, <2>1, <3>1, <3>2, <3>3, ReadRefines
    <3>5. QED
      BY <3>4, StepCases
  <2>3. CASE ~InChain(nodes, m_cur, n)
    <3>1. UNCHANGED <<m_position, out>>
      BY <1>8, <2>3 DEF Send
    <3>2. QED
      BY <2>1, <3>1, FaultRefines
  <2>4. QED
    BY <2>2, <2>3
<1>9. ASSUME clear PROVE AbstractStep
  <2>1. m_size' = 0 /\ m_position' = 0 /\ out' = <<>>
    BY <1>9 DEF clear
  <2>2. Data' \in Seq(Junk .. 2 * H - 1) /\ Len(Data') = m_size'
    BY <1>0, DataIsNext DEF DataSeq
  <2>3. Data' = <<>>
    BY <2>1, <2>2, EmptySeq
  <2>4. QED
    BY <2>1, <2>3, AbstractClear, StepCases
<1>10. ASSUME NEW val \in BOOLEAN, setIsLittleEndian(val) PROVE AbstractStep
  BY <1>10, FaultRefines DEF setIsLittleEndian, cvars
<1>11. ASSUME NEW kind \in Kinds, ReadItem(kind) PROVE AbstractStep
  <2> DEFINE d == Decode(kind, Rest)
  <2>1. CASE UNCHANGED <<cvars, out>>
    BY <2>1, FaultRefines DEF cvars
  <2>2. CASE m_position' = m_position + d.used /\ out' = SubSeq(Rest, 1, d.used)
             /\ nodes' = nodes /\ m_size' = m_size
    <3>1. \A i \in DOMAIN Rest : Rest[i] # Junk
      BY <1>11 DEF ReadItem
    <3>2. Len(Rest) = getReadSize /\ d.used \in 0 .. Len(Rest)
      BY <1>0, <3>1, RestFacts, RestBytes, DecodeUsed
    <3> HIDE DEF d
    <3>3. d.used \in Nat /\ d.used <= getReadSize
      BY <1>0, <3>2
    <3>4. Abstract!Read
      BY <1>0, <2>2, <3>3, ReadRefines
    <3>5. QED
      BY <3>4, StepCases
  <2>3. QED
    BY <1>11, <2>1, <2>2 DEF ReadItem
<1>12. QED
  BY <1>1, <1>2, <1>3, <1>4, <1>5, <1>6, <1>7, <1>8, <1>9, <1>10, <1>11 DEF Next

LEMMA InitRefines == Init => Abstract!Init
<1> SUFFICES ASSUME Init PROVE Abstract!Init
  OBVIOUS
<1>1. Data = <<>>
  BY DEF Init, Data
<1>2. m_position = 0 /\ out = <<>>
  BY DEF Init
<1>3. QED
  BY <1>1, <1>2, Zenon DEF Abstract!Init, Data

\* The list of blocks with its cursor is a byte sequence with a position: every
\* operation of ByteArray is one of ByteStream's (bytearray.cc).
THEOREM StreamImplemented == Spec => ImplementsStream
<1>1. Init => Abstract!Init
  BY InitRefines
<1>2. ArrayInv /\ ArrayInv' /\ [Next]_bvars => [Abstract!Next]_(Abstract!vars)
  BY NextRefines DEF AbstractStep
<1>3. Spec => []ArrayInv
  BY ArrayInvariant
<1>4. QED
  BY <1>1, <1>2, <1>3, PTL DEF Spec, ImplementsStream, Abstract!Spec

=============================================================================
