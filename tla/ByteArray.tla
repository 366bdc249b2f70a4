------------------------------ MODULE ByteArray ------------------------------
(***************************************************************************)
(* ByteArray (src/src/bytearray.cc): a list of blocks of m_baseSize bytes, *)
(* the block m_cur of the position, which is null at the very end of the   *)
(* capacity, and the fixed, varint, zigzag and string encodings on top;    *)
(* SocketStream's read and write of a ByteArray (src/src/socket_stream.cc).*)
(*                                                                         *)
(* The copying loops are given in closed form: byte i of a copy that       *)
(* starts at offset npos of block cur is in block cur + (npos + i) / base. *)
(* A byte is a digit of base 2 * H, where H stands for 0x80: the upper     *)
(* half of the digits says that a varint goes on.                          *)
(***************************************************************************)
EXTENDS Integers, SequencesExt

CONSTANTS
    m_baseSize,
    H,            \* 0x80 (scaled)
    FUINT,        \* number of values of uint16_t (scaled)
    UINT,         \* number of values of uint32_t (scaled)
    Groups,       \* bytes readUint32 reads at most: 5 for 32 bits (scaled)
    Bufs,         \* what callers write
    Items,        \* the typed values callers write: [kind, val]
    MaxSize       \* bound: size of the data

Byte == 0 .. 2 * H - 1
Fixed16 == 0 .. FUINT - 1

ASSUME ByteArrayAssumption ==
    /\ m_baseSize \in Nat \ {0}
    /\ H \in Nat \ {0, 1} /\ UINT \in Nat \ {0} /\ UINT % 2 = 0 /\ Groups \in Nat
    /\ FUINT \in Nat \ {0} /\ FUINT <= (2 * H) * (2 * H)
    /\ MaxSize \in Nat
    /\ \A b \in Bufs : b # <<>> /\ b \in Seq(Byte)
    /\ \A item \in Items :
        \/ item.kind = "fixed" /\ item.val \in Fixed16
        \/ item.kind = "uint" /\ item.val \in 0 .. UINT - 1
        \/ item.kind = "int" /\ item.val \in -(UINT \div 2) .. (UINT \div 2) - 1
        \/ item.kind = "strF" /\ item.val \in Seq(Byte)
        \/ item.kind = "strV" /\ item.val \in Seq(Byte) /\ Len(item.val) < UINT

Null == 0
NoFault == "none"
Junk == -1        \* an uninitialized byte

VARIABLES
    nodes,        \* the blocks, from m_root on
    m_cur,        \* index of a block, or Null
    m_position,
    m_capacity,
    m_size,
    m_endian,
    out,          \* the bytes the last operation moved, or Thrown
    value,        \* what the last operation, a typed read, returned
    fault,        \* "none", or how a null Node came to be dereferenced
    mark          \* history: what the last typed write kept, where and how

cvars == <<nodes, m_cur, m_position, m_capacity, m_size>>
bvars == <<cvars, m_endian, out, value, fault, mark>>

Thrown == <<-2>>   \* std::out_of_range
NoValue == <<>>
NoMark == [at |-> 0, len |-> 0, kind |-> "none", val |-> 0, endian |-> "none"]
Block == [o \in 0 .. m_baseSize - 1 |-> Junk]

Init ==
    /\ nodes = <<Block>>
    /\ m_cur = 1
    /\ m_position = 0 /\ m_capacity = m_baseSize /\ m_size = 0
    /\ m_endian = "big"
    /\ out = <<>> /\ value = NoValue
    /\ fault = NoFault
    /\ mark = NoMark

getReadSize == m_size - m_position
getCapacity == m_capacity - m_position
npos == m_position % m_baseSize

-----------------------------------------------------------------------------
(* Copying along the list                                                  *)

\* size bytes from offset npos of block cur: the loop meets no null block.
InChain(list, cur, size) ==
    cur # Null /\ cur + (npos + size - 1) \div m_baseSize <= Len(list)

Store(list, cur, buf) ==
    [n \in DOMAIN list |-> [o \in 0 .. m_baseSize - 1 |->
        LET i == (n - cur) * m_baseSize + o - npos + 1
        IN  IF i \in DOMAIN buf THEN buf[i] ELSE list[n][o]]]

\* read(buf, size, position): the offset is position's, but the block is m_cur.
ReadAt(size, position) ==
    LET off == position % m_baseSize IN
    [i \in 1 .. size |-> nodes[m_cur + (off + i - 1) \div m_baseSize]
                              [(off + i - 1) % m_baseSize]]

\* read(buf, size) and getReadBuffers go along the list in the same way.
Fetch(size) == ReadAt(size, m_position)

\* Where m_cur is after size bytes.
Advance(list, cur, size) ==
    LET c == cur + (npos + size) \div m_baseSize
    IN  IF c <= Len(list) THEN c ELSE Null

\* The walk of setPosition from m_root.
BlockOf(list, v) ==
    IF v \div m_baseSize < Len(list) THEN v \div m_baseSize + 1 ELSE Null

\* addCapacity: how many blocks are appended ...
Count(size) ==
    IF getCapacity >= size THEN 0
    ELSE (size - getCapacity + m_baseSize - 1) \div m_baseSize

Grown(size) == nodes \o [i \in 1 .. Count(size) |-> Block]

\* Mutant of CurGrown: m_cur stays null when the capacity was used up.
CurGrownNull(size) == m_cur

\* ... and where m_cur then is: it was null if no capacity was left.
CurGrown(size) == IF getCapacity = 0 /\ size > 0 THEN Len(nodes) + 1 ELSE m_cur

Max2(a, b) == IF a >= b THEN a ELSE b

-----------------------------------------------------------------------------
\* A write over mark's bytes destroys them.
Overwrites(size) ==
    size > 0 /\ m_position < mark.at + mark.len /\ mark.at < m_position + size

\* Mutant of Put: the size follows the position also when that is inside.
PutShrinks(buf) ==
    LET k == Len(buf)
        list == Grown(k)
        cur == CurGrown(k)
    IN  /\ fault = NoFault /\ m_position + k <= MaxSize
        /\ fault' = IF InChain(list, cur, k) THEN NoFault ELSE "chain"
        /\ nodes' = Store(list, cur, buf)
        /\ m_cur' = Advance(list, cur, k)
        /\ m_capacity' = m_capacity + Count(k) * m_baseSize
        /\ m_position' = m_position + k
        /\ m_size' = m_position'
        /\ out' = buf /\ value' = NoValue

\* write(buf, size)
Put(buf) ==
    LET k == Len(buf)
        list == Grown(k)
        cur == CurGrown(k)
    IN  /\ fault = NoFault /\ m_position + k <= MaxSize
        /\ fault' = IF InChain(list, cur, k) THEN NoFault ELSE "chain"
        /\ nodes' = Store(list, cur, buf)
        /\ m_cur' = Advance(list, cur, k)
        /\ m_capacity' = m_capacity + Count(k) * m_baseSize
        /\ m_position' = m_position + k
        /\ m_size' = Max2(m_size, m_position')
        /\ out' = buf /\ value' = NoValue

\* write, and readFromFile, which writes block by block to the same effect.
Write(buf) ==
    /\ Put(buf)
    /\ mark' = IF Overwrites(Len(buf)) THEN NoMark ELSE mark
    /\ UNCHANGED m_endian

\* SocketStream::read: getWriteBuffers(len), recv of rt <= len bytes into them, and
\* setPosition unless rt <= 0 (buf is empty): the capacity has grown all the same.
Recv(len, buf) ==
    LET list == Grown(len)
        cur == CurGrown(len)
        k == Len(buf)
    IN  /\ fault = NoFault /\ m_position + len <= MaxSize
        /\ k <= len
        /\ fault' = IF InChain(list, cur, len) THEN NoFault ELSE "chain"
        /\ nodes' = Store(list, cur, buf)
        /\ m_cur' = IF buf = <<>> THEN cur ELSE BlockOf(list, m_position + k)
        /\ m_capacity' = m_capacity + Count(len) * m_baseSize
        /\ m_position' = m_position + k
        /\ m_size' = Max2(m_size, m_position')
        /\ out' = buf /\ value' = NoValue
        /\ mark' = IF Overwrites(k) THEN NoMark ELSE mark
        /\ UNCHANGED m_endian

\* read(buf, size): nothing changes if there is not enough; otherwise m_cur is
\* dereferenced even if size is 0.
Get(size) ==
    /\ fault = NoFault
    /\ IF size > getReadSize
       THEN out' = Thrown /\ UNCHANGED <<cvars, fault>>
       ELSE IF m_cur = Null \/ ~InChain(nodes, m_cur, size)
       THEN /\ fault' = IF size = 0 THEN "empty read" ELSE "chain"
            /\ UNCHANGED <<cvars, out>>
       ELSE /\ out' = Fetch(size)
            /\ m_cur' = Advance(nodes, m_cur, size)
            /\ m_position' = m_position + size
            /\ UNCHANGED <<nodes, m_capacity, m_size, fault>>
    /\ value' = NoValue
    /\ UNCHANGED <<m_endian, mark>>

\* toString, and getReadBuffers for all there is: nothing for an empty rest.
Peek ==
    /\ fault = NoFault
    /\ IF getReadSize = 0 THEN out' = <<>> /\ UNCHANGED fault
       ELSE IF InChain(nodes, m_cur, getReadSize)
       THEN out' = ReadAt(getReadSize, m_position) /\ UNCHANGED fault
       ELSE fault' = "chain" /\ UNCHANGED out
    /\ value' = NoValue
    /\ UNCHANGED <<cvars, m_endian, mark>>

setPosition(v) ==
    /\ fault = NoFault
    /\ IF v > m_capacity THEN out' = Thrown /\ UNCHANGED cvars
       ELSE /\ m_position' = v
            /\ m_size' = Max2(m_size, v)
            /\ m_cur' = BlockOf(nodes, v)
            /\ out' = <<>>
            /\ UNCHANGED <<nodes, m_capacity>>
    /\ value' = NoValue
    /\ UNCHANGED <<m_endian, fault, mark>>

\* SocketStream::write: getReadBuffers(len), of which send takes rt, and setPosition.
Send(len, rt) ==
    LET n == IF len > getReadSize THEN getReadSize ELSE len IN
    /\ fault = NoFault /\ rt \in 1 .. n
    /\ IF InChain(nodes, m_cur, n)
       THEN /\ out' = SubSeq(Fetch(n), 1, rt)
            /\ m_position' = m_position + rt
            /\ m_cur' = BlockOf(nodes, m_position + rt)
            /\ UNCHANGED fault
       ELSE fault' = "chain" /\ UNCHANGED <<m_position, m_cur, out>>
    /\ value' = NoValue
    /\ UNCHANGED <<nodes, m_capacity, m_size, m_endian, mark>>

\* Mutant of clear: the capacity is kept.
clearKeeps ==
    /\ fault = NoFault
    /\ nodes' = SubSeq(nodes, 1, 1)
    /\ m_cur' = 1
    /\ m_position' = 0 /\ m_size' = 0
    /\ out' = <<>> /\ value' = NoValue
    /\ mark' = NoMark
    /\ UNCHANGED <<m_capacity, m_endian, fault>>

\* Back to one block, which keeps its bytes.
clear ==
    /\ fault = NoFault
    /\ nodes' = SubSeq(nodes, 1, 1)
    /\ m_cur' = 1
    /\ m_position' = 0 /\ m_capacity' = m_baseSize /\ m_size' = 0
    /\ out' = <<>> /\ value' = NoValue
    /\ mark' = NoMark
    /\ UNCHANGED <<m_endian, fault>>

setIsLittleEndian(val) ==
    /\ fault = NoFault
    /\ m_endian' = IF val THEN "little" ELSE "big"
    /\ value' = NoValue
    /\ UNCHANGED <<cvars, out, fault, mark>>

\* writeToFile subtracts the offset in the block from what is left, and not from
\* the block: less than a block, from inside a block, walks off the list.
writeToFile ==
    /\ fault = NoFault
    /\ IF getReadSize = 0 THEN out' = <<>> /\ UNCHANGED fault
       ELSE IF npos > 0 /\ getReadSize < m_baseSize
       THEN fault' = "file" /\ UNCHANGED out
       ELSE IF InChain(nodes, m_cur, getReadSize)
       THEN out' = Fetch(getReadSize) /\ UNCHANGED fault
       ELSE fault' = "chain" /\ UNCHANGED out
    /\ value' = NoValue
    /\ UNCHANGED <<cvars, m_endian, mark>>

-----------------------------------------------------------------------------
(* Encodings                                                               *)

\* Mutant of EncodeZigzag: the negative numbers are off by one.
EncodeZigzagOff(v) == IF v < 0 THEN (((-v) % UINT) * 2) % UINT ELSE (v * 2) % UINT

EncodeZigzag(v) == IF v < 0 THEN (((-v) % UINT) * 2 - 1) % UINT ELSE (v * 2) % UINT
DecodeZigzag(u) == IF u % 2 = 0 THEN u \div 2 ELSE -(u \div 2) - 1

\* writeUint32: groups from the lowest on, all but the last marked.
Varint[v \in Nat] == IF v < H THEN <<v>> ELSE <<(v % H) + H>> \o Varint[v \div H]

\* The groups readUint32 reads are enough for every uint32_t.
ASSUME GroupsAssumption == \A v \in 0 .. UINT - 1 : Len(Varint[v]) <= Groups

\* readUint32, of the bytes it has read: group i is shifted by i - 1 groups, here from
\* the last one on, and what leaves the width is lost.
UnVarint(s) ==
    LET from[i \in 0 .. Len(s)] ==
            IF i = 0 THEN 0 ELSE ((s[Len(s) - i + 1] % H) + H * from[i - 1]) % UINT
    IN  from[Len(s)]

\* writeFuint16 and the like: byteswap makes the upper byte come first.
Fixed(v) == IF m_endian = "big" THEN <<v \div (2 * H), v % (2 * H)>>
                                ELSE <<v % (2 * H), v \div (2 * H)>>
UnFixed(s) == IF m_endian = "big" THEN s[1] * 2 * H + s[2] ELSE s[2] * 2 * H + s[1]

\* writeStringF16 cuts the length to 16 bits, and writes the whole string after it.
Encode(item) ==
    CASE item.kind = "fixed"  -> Fixed(item.val)
      [] item.kind = "uint"   -> Varint[item.val]
      [] item.kind = "int"    -> Varint[EncodeZigzag(item.val)]
      [] item.kind = "strF"   -> Fixed(Len(item.val) % FUINT) \o item.val
      [] item.kind = "strV"   -> Varint[Len(item.val)] \o item.val

\* What a write keeps of its value: of a string that is too long, the first bytes.
Kept(item) ==
    IF item.kind # "strF" THEN item
    ELSE [kind |-> "strF", val |-> SubSeq(item.val, 1, Len(item.val) % FUINT)]

\* What a typed read finds in the bytes s: how many it takes, and the value unless
\* it throws.  A varint that is cut short has been taken by then.
FixedIn(s) == IF Len(s) < 2 THEN [used |-> 0, ok |-> FALSE, val |-> 0]
              ELSE [used |-> 2, ok |-> TRUE, val |-> UnFixed(s)]
VarintIn(s) ==
    LET ends == {i \in 1 .. Len(s) : s[i] < H \/ i = Groups} IN
    IF ends = {} THEN [used |-> Len(s), ok |-> FALSE, val |-> 0]
    ELSE LET n == CHOOSE i \in ends : \A j \in ends : i <= j
         IN  [used |-> n, ok |-> TRUE, val |-> UnVarint(SubSeq(s, 1, n))]
StringIn(len, s) ==
    IF ~len.ok \/ len.val > Len(s) - len.used
    THEN [used |-> len.used, ok |-> FALSE, val |-> 0]
    ELSE [used |-> len.used + len.val, ok |-> TRUE,
          val |-> SubSeq(s, len.used + 1, len.used + len.val)]
Decode(kind, s) ==
    CASE kind = "fixed" -> FixedIn(s)
      [] kind = "uint"  -> VarintIn(s)
      [] kind = "int"   -> LET u == VarintIn(s)
                           IN  [used |-> u.used, ok |-> u.ok, val |-> DecodeZigzag(u.val)]
      [] kind = "strF"  -> StringIn(FixedIn(s), s)
      [] kind = "strV"  -> StringIn(VarintIn(s), s)

\* The bytes the reads may take.
Rest == IF getReadSize = 0 THEN <<>> ELSE Fetch(getReadSize)

WriteItem(item) ==
    /\ Put(Encode(item))
    /\ mark' = [at |-> m_position, len |-> Len(Encode(Kept(item))), kind |-> item.kind,
                val |-> Kept(item).val, endian |-> m_endian]
    /\ UNCHANGED m_endian

\* A typed read, of bytes somebody wrote: the value is returned, or out_of_range comes
\* out of it.  The string functions end with read(&buff[0], len), also for len 0.
ReadItem(kind) ==
    LET d == Decode(kind, Rest) IN
    /\ fault = NoFault /\ \A i \in DOMAIN Rest : Rest[i] # Junk
    /\ IF /\ kind \in {"strF", "strV"} /\ d.ok /\ d.val = <<>>
          /\ m_position + d.used = m_capacity
       THEN fault' = "empty read" /\ value' = NoValue /\ UNCHANGED <<cvars, out>>
       ELSE /\ m_position' = m_position + d.used
            /\ value' = IF d.ok THEN <<kind, d.val>> ELSE Thrown
            /\ m_cur' = IF d.used = 0 THEN m_cur ELSE Advance(nodes, m_cur, d.used)
            /\ out' = SubSeq(Rest, 1, d.used)
            /\ UNCHANGED <<nodes, m_capacity, m_size, fault>>
    /\ UNCHANGED <<m_endian, mark>>

-----------------------------------------------------------------------------
Kinds == {"fixed", "uint", "int", "strF", "strV"}

Next ==
    \/ \E buf \in Bufs : Write(buf)
    \/ \E len \in 1 .. MaxSize : \E buf \in Bufs \cup {<<>>} : Recv(len, buf)
    \/ \E n \in 0 .. MaxSize : Get(n) \/ setPosition(n) \/ \E rt \in 1 .. n : Send(n, rt)
    \/ Peek \/ clear \/ writeToFile
    \/ \E val \in BOOLEAN : setIsLittleEndian(val)
    \/ \E item \in Items : WriteItem(item)
    \/ \E kind \in Kinds : ReadItem(kind)

Spec == Init /\ [][Next]_bvars

-----------------------------------------------------------------------------
\* Types; m_capacity is the size of the list, whatever is appended and cleared.
TypeOK ==
    /\ nodes \in Seq([0 .. m_baseSize - 1 -> Junk .. 2 * H - 1])
    /\ m_cur \in 0 .. Len(nodes)
    /\ m_position \in Nat /\ m_size \in Nat
    /\ m_capacity = Len(nodes) * m_baseSize
    /\ m_endian \in {"big", "little"}
    /\ fault \in {NoFault, "empty read", "file", "chain"}

\* m_cur, which write, read, setPosition, addCapacity and clear each move in their
\* own way, is always the block of m_position, and null exactly at the end of the
\* capacity; the position stays inside the data and the data inside the blocks.  So no
\* copying loop runs off the list: a null block is only dereferenced by a read of no
\* bytes at the end of the capacity (bytearray.cc:371, an empty string) and by
\* writeToFile from inside a block (bytearray.cc:464).
Cursor ==
    /\ fault # "chain"
    /\ fault = NoFault =>
          /\ m_position <= m_size /\ m_size <= m_capacity
          /\ m_cur = IF m_position = m_capacity THEN Null
                     ELSE m_position \div m_baseSize + 1

\* A typed read at the place of a typed write of the same kind returns what that write
\* kept and moves past it, across blocks, growth, other writes and moves of the position,
\* until it is overwritten: in the byte order it was written in, the negative and the
\* largest numbers included.  Two things the functions of bytearray.h do not say: of a
\* string longer than a uint16_t counts, writeStringF16 keeps the first bytes only
\* (Kept), and the empty string that ends with the capacity is not read at all, since
\* read(&buff[0], 0) dereferences the null m_cur (bytearray.cc:371).
ReadsBack ==
    [][/\ m_position = mark.at /\ m_endian = mark.endian
       /\ mark.kind \in Kinds /\ ReadItem(mark.kind)
       => \/ /\ value' = <<mark.kind, mark.val>>
             /\ m_position' = mark.at + mark.len /\ fault' = NoFault
          \/ /\ fault' = "empty read" /\ mark.kind \in {"strF", "strV"} /\ mark.val = <<>>
             /\ mark.at + mark.len = m_capacity]_bvars

\* ByteArray implements a byte sequence with a position: data is what the blocks
\* hold from the root on, though every operation goes by m_cur.
DataAt(i) == nodes[(i - 1) \div m_baseSize + 1][(i - 1) % m_baseSize]
Abstract == INSTANCE ByteStream WITH
                data <- [i \in 1 .. m_size |-> DataAt(i)], pos <- m_position
ImplementsStream == Abstract!Spec

=============================================================================
