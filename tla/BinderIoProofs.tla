---------------------------- MODULE BinderIoProofs ----------------------------
(***************************************************************************)
(* Proofs about BinderIo, for any buffer sizes, values and word width: the *)
(* cursors of writer and reader never leave their buffers, what was put is *)
(* what is got, and a reader notices that something was cut off.           *)
(***************************************************************************)
EXTENDS BinderIo, SequenceTheorems, TLAPS

-----------------------------------------------------------------------------
(* Arithmetic.                                                             *)

\* Rounding up in 32-bit arithmetic gives a natural number, and leaves the
\* size of an object and of a word as they are.
LEMMA AlignFacts ==
    /\ \A size \in Nat : Align(size) \in Nat
    /\ Align(16) = 16
    /\ Align(4) = 4
  <1> USE IoAssumption
  <1>1. ASSUME NEW size \in Nat PROVE Align(size) \in Nat
    <2> DEFINE s == (size + 3) % WordMod
    <2>1. s \in Nat
      OBVIOUS
    <2> HIDE DEF s
    <2>2. s % 4 \in 0..3 /\ s % 4 <= s
      BY <2>1
    <2> QED BY <2>1, <2>2 DEF Align, s
  <1>2. 19 % WordMod = 19 /\ 7 % WordMod = 7
    OBVIOUS
  <1> QED BY <1>1, <1>2 DEF Align

-----------------------------------------------------------------------------
(* The writer.                                                             *)

\* Every offset leaves room for an object below the end of the data.
OffsetsBelow(b) == \A i \in DOMAIN b.offs : b.offs[i] + 16 <= b.data

\* What every put does to a writer: space moves from free to used, offset
\* slots from free to used, and offsets stay below the end.
Grows(b, c) ==
    /\ c \in Writer
    /\ c.data + c.avail = b.data + b.avail
    /\ c.data >= b.data
    /\ Len(c.offs) + c.offs_avail = Len(b.offs) + b.offs_avail
    /\ OffsetsBelow(b) => OffsetsBelow(c)

\* Two puts in a row make one.
LEMMA GrowsTransitive ==
    ASSUME NEW b \in Writer, NEW c, NEW d, Grows(b, c), Grows(c, d)
    PROVE  Grows(b, d)
  <1>1. /\ b.data \in Nat /\ c.data \in Nat /\ d.data \in Nat
    BY DEF Grows, Writer
  <1> QED BY <1>1 DEF Grows

\* Setting the overflow flag changes nothing else.
LEMMA FlagGrows ==
    ASSUME NEW b \in Writer, NEW c, Grows(b, c)
    PROVE  Grows(b, [c EXCEPT !.overflow = TRUE])
  <1> DEFINE d == [c EXCEPT !.overflow = TRUE]
  <1>1. c \in Writer
    BY DEF Grows
  <1>2. d \in Writer /\ d.data = c.data /\ d.avail = c.avail /\ d.offs = c.offs
        /\ d.offs_avail = c.offs_avail
    BY <1>1 DEF Writer
  <1> HIDE DEF d
  <1>3. Grows(b, d)
    BY <1>2 DEF Grows, OffsetsBelow
  <1> QED BY <1>3 DEF d

\* bio_alloc, with or without room.
LEMMA PutGrows ==
    ASSUME NEW b \in Writer, NEW size \in Nat, NEW cells \in SUBSET Cells
    PROVE  /\ Grows(b, Put(b, size, cells))
           /\ Put(b, size, cells).offs = b.offs
           /\ Put(b, size, cells).offs_avail = b.offs_avail
           /\ Fits(b, size) => Put(b, size, cells).data = b.data + Align(size)
  <1>1. Align(size) \in Nat
    BY AlignFacts
  <1>2. /\ b.data \in Nat /\ b.avail \in Nat /\ b.offs \in Seq(Nat) /\ b.offs_avail \in Nat
        /\ b.mem \in SUBSET Cells
    BY DEF Writer
  <1>3. CASE Fits(b, size)
    <2> DEFINE c == [b EXCEPT !.data = @ + Align(size), !.avail = @ - Align(size),
                              !.mem = @ \cup cells]
    <2>1. b.avail - Align(size) \in Nat /\ b.data + Align(size) \in Nat
      BY <1>1, <1>2, <1>3 DEF Fits
    <2>2. /\ c \in Writer
          /\ c.data = b.data + Align(size) /\ c.avail = b.avail - Align(size)
          /\ c.offs = b.offs /\ c.offs_avail = b.offs_avail
      BY <1>2, <2>1 DEF Writer
    <2>3. OffsetsBelow(b) => OffsetsBelow(c)
      <3>1. \A i \in DOMAIN b.offs : b.offs[i] \in Nat
        BY <1>2, LenProperties, ElementOfSeq
      <3> HIDE DEF c
      <3> QED BY <3>1, <2>2, <1>1, <1>2 DEF OffsetsBelow
    <2>4. Put(b, size, cells) = c
      BY <1>3 DEF Put
    <2> HIDE DEF c
    <2> QED BY <2>2, <2>3, <2>4, <1>1, <1>2 DEF Grows
  <1>4. CASE ~Fits(b, size)
    <2>1. Put(b, size, cells) = [b EXCEPT !.overflow = TRUE]
      BY <1>4 DEF Put
    <2>2. Grows(b, b)
      BY <1>2 DEF Grows
    <2>3. Grows(b, [b EXCEPT !.overflow = TRUE])
      BY <2>2, FlagGrows
    <2> QED BY <1>4, <2>1, <2>3 DEF Writer
  <1> QED BY <1>3, <1>4

\* bio_put_uint32.
LEMMA PutWordGrows ==
    ASSUME NEW b \in Writer, NEW n \in Word
    PROVE  Grows(b, bio_put_uint32(b, n))
  <1>1. {Cell(b.data, "u32", n)} \in SUBSET Cells
    BY DEF Cell, Cells, Writer
  <1> QED BY <1>1, PutGrows DEF bio_put_uint32

\* bio_put_obj, with or without room for the object or its offset.
LEMMA PutObjectGrows ==
    ASSUME NEW b \in Writer, NEW h \in Word
    PROVE  Grows(b, PutObject(b, h))
  <1>1. CASE Fits(b, 16) /\ b.offs_avail > 0
    <2> DEFINE c == Put(b, 16, {Cell(b.data, "obj", h)})
               d == [c EXCEPT !.offs_avail = c.offs_avail - 1, !.offs = Append(c.offs, b.data)]
    <2>1. {Cell(b.data, "obj", h)} \in SUBSET Cells
      BY DEF Cell, Cells, Writer
    <2>2. /\ Grows(b, c) /\ c.offs = b.offs /\ c.offs_avail = b.offs_avail
          /\ c.data = b.data + 16
      BY <1>1, <2>1, PutGrows, AlignFacts
    <2>3. PutObject(b, h) = d
      BY <1>1 DEF PutObject
    <2> HIDE DEF c
    <2>4. /\ b.data \in Nat /\ b.offs \in Seq(Nat) /\ b.offs_avail \in Nat /\ c \in Writer
      BY <2>2 DEF Writer, Grows
    <2>5. Append(b.offs, b.data) \in Seq(Nat) /\ b.offs_avail - 1 \in Nat
      BY <1>1, <2>4
    <2>6. /\ d \in Writer /\ d.data = c.data /\ d.avail = c.avail
          /\ d.offs = Append(b.offs, b.data) /\ d.offs_avail = b.offs_avail - 1
      BY <2>2, <2>4, <2>5 DEF Writer
    <2>7. Len(d.offs) = Len(b.offs) + 1 /\ Len(b.offs) \in Nat
      BY <2>4, <2>6, AppendProperties, LenProperties
    <2>8. OffsetsBelow(b) => OffsetsBelow(d)
      <3>1. ASSUME OffsetsBelow(b), NEW i \in DOMAIN d.offs
            PROVE  d.offs[i] + 16 <= d.data
        <4>1. DOMAIN b.offs = 1..Len(b.offs) /\ DOMAIN d.offs = 1..(Len(b.offs) + 1)
          BY <2>4, <2>6, <2>7, LenProperties DEF Writer
        <4>2. CASE i = Len(b.offs) + 1
          BY <4>2, <2>2, <2>4, <2>6, AppendProperties
        <4>3. CASE i # Len(b.offs) + 1
          <5>1. i \in 1..Len(b.offs) /\ d.offs[i] = b.offs[i]
            BY <4>1, <4>3, <2>4, <2>6, <2>7, AppendProperties
          <5>2. b.offs[i] + 16 <= b.data /\ b.offs[i] \in Nat
            BY <5>1, <4>1, <3>1, <2>4, ElementOfSeq DEF OffsetsBelow
          <5> QED BY <5>1, <5>2, <2>2, <2>4, <2>6
        <4> QED BY <4>2, <4>3
      <3> QED BY <3>1 DEF OffsetsBelow
    <2> HIDE DEF d
    <2>9. d.data + d.avail = b.data + b.avail /\ d.data >= b.data
      BY <2>2, <2>4, <2>6 DEF Grows
    <2>10. Len(d.offs) + d.offs_avail = Len(b.offs) + b.offs_avail
      <3> DEFINE n == Len(b.offs)
                 m == Len(d.offs)
      <3>1. n \in Nat /\ m = n + 1 /\ b.offs_avail \in Nat /\ d.offs_avail = b.offs_avail - 1
        BY <2>4, <2>6, <2>7
      <3> HIDE DEF n, m
      <3>2. m + d.offs_avail = n + b.offs_avail
        BY <3>1
      <3> QED BY <3>2 DEF n, m
    <2>11. Grows(b, d)
      BY <2>6, <2>8, <2>9, <2>10 DEF Grows
    <2> QED BY <2>3, <2>11
  <1>2. CASE ~(Fits(b, 16) /\ b.offs_avail > 0)
    <2>1. Grows(b, Put(b, 16, {}))
      BY PutGrows
    <2>2. PutObject(b, h) = [Put(b, 16, {}) EXCEPT !.overflow = TRUE]
      BY <1>2 DEF PutObject
    <2> QED BY <2>1, <2>2, FlagGrows
  <1> QED BY <1>1, <1>2

\* bio_put_ref, with and without an offset.
LEMMA PutRefGrows ==
    ASSUME NEW b \in Writer, NEW h \in Word
    PROVE  Grows(b, bio_put_ref(b, h))
  <1>1. {Cell(b.data, "obj", h)} \in SUBSET Cells
    BY DEF Cell, Cells, Writer
  <1>2. Grows(b, Put(b, 16, {Cell(b.data, "obj", h)}))
    BY <1>1, PutGrows
  <1> QED BY <1>2, PutObjectGrows DEF bio_put_ref

\* bio_put_string16: two puts, the second possibly without the first.
LEMMA PutStringGrows ==
    ASSUME NEW b \in Writer, NEW len \in Word
    PROVE  Grows(b, bio_put_string16(b, len))
  <1>1. Sentinel \in Word
    BY IoAssumption DEF Sentinel, Word
  <1>2. CASE len >= MAX_BIO_SIZE \div 2
    BY <1>1, <1>2, PutWordGrows DEF bio_put_string16
  <1>3. CASE ~(len >= MAX_BIO_SIZE \div 2)
    <2> DEFINE b1 == bio_put_uint32(b, len)
    <2>1. Grows(b, b1)
      BY PutWordGrows
    <2>2. b1 \in Writer
      BY <2>1 DEF Grows
    <2>3. (len + 1) * 2 \in Nat
      BY IoAssumption DEF Word
    <2>4. bio_put_string16(b, len) = Put(b1, (len + 1) * 2, {Cell(b1.data, "str", len)})
      BY <1>3 DEF bio_put_string16
    <2> HIDE DEF b1
    <2>5. {Cell(b1.data, "str", len)} \in SUBSET Cells
      BY <2>2 DEF Cell, Cells, Writer
    <2>6. Grows(b1, Put(b1, (len + 1) * 2, {Cell(b1.data, "str", len)}))
      BY <2>2, <2>3, <2>5, PutGrows
    <2> QED BY <2>1, <2>4, <2>6, GrowsTransitive
  <1> QED BY <1>2, <1>3

\* Whatever is put, the writer grows.
LEMMA PutItemGrows ==
    ASSUME NEW b \in Writer, NEW it \in Items
    PROVE  Grows(b, PutItem(b, it))
  <1>1. it.kind \in {"u32", "str", "obj", "ref"} /\ it.val \in Word
    BY IoAssumption DEF Word
  <1>2. CASE it.kind = "u32"
    BY <1>1, <1>2, PutWordGrows DEF PutItem
  <1>3. CASE it.kind = "str"
    BY <1>1, <1>3, PutStringGrows DEF PutItem
  <1>4. CASE it.kind = "obj"
    BY <1>1, <1>4, PutObjectGrows DEF PutItem
  <1>5. CASE it.kind = "ref"
    BY <1>1, <1>5, PutRefGrows DEF PutItem
  <1> QED BY <1>1, <1>2, <1>3, <1>4, <1>5

-----------------------------------------------------------------------------
(* The reader.                                                             *)

\* What every get does to a reader: its end never moves up.
Reads(r, q) == q \in Reader /\ q.data + q.avail <= r.data + r.avail

\* Giving up leaves nothing to read.
LEMMA GiveUpReads ==
    ASSUME NEW r \in Reader
    PROVE  Reads(r, [r EXCEPT !.avail = 0, !.overflow = TRUE])
  <1> DEFINE q == [r EXCEPT !.avail = 0, !.overflow = TRUE]
  <1>1. r.data \in Nat /\ r.avail \in Nat
    BY DEF Reader
  <1>2. q \in Reader /\ q.data = r.data /\ q.avail = 0
    BY DEF Reader
  <1> HIDE DEF q
  <1>3. Reads(r, q)
    BY <1>1, <1>2 DEF Reads
  <1> QED BY <1>3 DEF q

\* bio_get, for any size asked for.
LEMMA GetReads ==
    ASSUME NEW r \in Reader, NEW size \in Nat
    PROVE  Reads(r, bio_get(r, size))
  <1>1. r.data \in Nat /\ r.avail \in Nat /\ Align(size) \in Nat
    BY AlignFacts DEF Reader
  <1>2. CASE Got(r, size)
    <2> DEFINE q == [r EXCEPT !.data = @ + Align(size), !.avail = @ - Align(size)]
    <2>1. r.avail - Align(size) \in Nat /\ r.data + Align(size) \in Nat
      BY <1>1, <1>2 DEF Got
    <2>2. q \in Reader /\ q.data = r.data + Align(size) /\ q.avail = r.avail - Align(size)
      BY <2>1 DEF Reader
    <2>3. bio_get(r, size) = q
      BY <1>2 DEF bio_get
    <2> HIDE DEF q
    <2> QED BY <1>1, <2>1, <2>2, <2>3 DEF Reads
  <1>3. CASE ~Got(r, size)
    BY <1>3, GiveUpReads DEF bio_get
  <1> QED BY <1>2, <1>3

\* What is found in memory is a word or junk.
LEMMA AtType ==
    ASSUME bio \in Writer, NEW pos, NEW kind
    PROVE  At(pos, kind) \in Word \cup {Junk}
  <1>1. CASE \E c \in bio.mem : c.at = pos /\ c.kind = kind
    <2> DEFINE c0 == CHOOSE c \in bio.mem : c.at = pos /\ c.kind = kind
    <2>1. c0 \in bio.mem
      BY <1>1
    <2>2. bio.mem \subseteq Cells
      BY DEF Writer
    <2>3. At(pos, kind) = c0.val
      BY <1>1 DEF At
    <2> HIDE DEF c0
    <2> QED BY <2>1, <2>2, <2>3 DEF Cells
  <1>2. CASE ~\E c \in bio.mem : c.at = pos /\ c.kind = kind
    BY <1>2 DEF At
  <1> QED BY <1>1, <1>2

\* What bio_get_uint32 returns makes a size for the characters of a string,
\* junk and sentinel included.
LEMMA WordRead ==
    ASSUME bio \in Writer, NEW r \in Reader
    PROVE  /\ bio_get_uint32(r) \in Word \cup {Junk}
           /\ StrSize(bio_get_uint32(r)) \in Nat
  <1>1. 0 \in Word
    BY IoAssumption DEF Word
  <1>2. bio_get_uint32(r) \in Word \cup {Junk}
    BY <1>1, AtType DEF bio_get_uint32
  <1>3. ASSUME NEW n \in Word \cup {Junk} PROVE StrSize(n) \in Nat
    <2>1. (n + 1) * 2 \in Nat
      BY IoAssumption DEF Word, Junk
    <2> QED BY <2>1, IoAssumption DEF StrSize
  <1> QED BY <1>2, <1>3

\* Whatever kind is read, the reader stays within what was sent.
LEMMA AfterGetReads ==
    ASSUME bio \in Writer, NEW r \in Reader, NEW kind \in {"u32", "str", "obj", "ref"}
    PROVE  Reads(r, AfterGet(r, kind))
  <1>1. CASE kind = "u32"
    BY <1>1, GetReads DEF AfterGet
  <1>2. CASE kind = "str"
    <2> DEFINE r1 == bio_get(r, 4)
               size == StrSize(bio_get_uint32(r))
               r2 == bio_get(r1, size)
    <2>1. Reads(r, r1)
      BY GetReads
    <2>2. size \in Nat
      BY WordRead
    <2>3. r1 \in Reader
      BY <2>1 DEF Reads
    <2>4. Reads(r1, r2)
      <3> HIDE DEF r1, size
      <3> QED BY <2>2, <2>3, GetReads
    <2>5. AfterGet(r, kind) = r2
      BY <1>2 DEF AfterGet
    <2> HIDE DEF r1, size, r2
    <2>6. r.data \in Nat /\ r.avail \in Nat /\ r1.data \in Nat /\ r1.avail \in Nat
          /\ (Reads(r1, r2) => r2.data \in Nat /\ r2.avail \in Nat)
      BY <2>3 DEF Reader, Reads
    <2> QED BY <2>1, <2>4, <2>5, <2>6 DEF Reads
  <1>3. CASE kind \in {"obj", "ref"}
    BY <1>3, GetReads, GiveUpReads DEF AfterGet
  <1> QED BY <1>1, <1>2, <1>3

\* Whatever kind is read, the value is a word or junk.
LEMMA GetValueType ==
    ASSUME bio \in Writer, NEW r \in Reader, NEW kind \in {"u32", "str", "obj", "ref"}
    PROVE  GetValue(r, kind) \in Word \cup {Junk}
  <1>1. 0 \in Word /\ Sentinel \in Word
    BY IoAssumption DEF Word, Sentinel
  <1>2. CASE kind = "u32"
    BY <1>2, WordRead DEF GetValue
  <1>3. CASE kind = "str"
    <2>1. GetString(r) \in Word \cup {Junk}
      BY <1>1, AtType DEF GetString
    <2> QED BY <1>3, <2>1 DEF GetValue
  <1>4. CASE kind \in {"obj", "ref"}
    <2>1. bio_get_ref(r) \in Word \cup {Junk}
      BY <1>1, AtType DEF bio_get_ref
    <2> QED BY <1>4, <2>1 DEF GetValue
  <1> QED BY <1>2, <1>3, <1>4

-----------------------------------------------------------------------------
(* The invariant.  Before the message is sent the reader has nothing.      *)

\* CursorsInBounds alone is not inductive: before sending, nothing in it ties
\* the reader to the writer, and it says nothing of the words in memory, from
\* which the reader takes the size of a string.
IoInv ==
    /\ TypeOK
    /\ CursorsInBounds
    /\ phase \in {"put", "refused"} => rd.data = 0 /\ rd.avail = 0

\* bio_init leaves the cursors in bounds, also when the offsets do not fit.
LEMMA InitIo == Init => IoInv
  <1> SUFFICES ASSUME Init PROVE IoInv
    OBVIOUS
  <1>1. /\ bio.data = 0 /\ bio.avail = Capacity /\ bio.offs = <<>> /\ bio.mem = {}
        /\ bio.offs_avail = IF MaxOffs * 4 > MaxData THEN 0 ELSE MaxOffs
        /\ rd.data = 0 /\ rd.avail = 0
    BY DEF Init, bio_init, Capacity
  <1>2. MaxOffs * 4 \in Nat /\ Capacity \in Nat
    BY IoAssumption DEF Capacity
  <1>3. bio \in Writer
    BY <1>2, IoAssumption DEF Init, bio_init, Writer, Capacity
  <1>4. TypeOK
    BY <1>3 DEF Init, TypeOK, Reader
  <1>5. Len(bio.offs) = 0 /\ DOMAIN bio.offs = {}
    BY <1>1
  <1>6. CursorsInBounds
    BY <1>1, <1>2, <1>5, IoAssumption DEF CursorsInBounds
  <1> QED BY <1>1, <1>4, <1>6 DEF IoInv

\* Every step keeps the cursors in bounds.
LEMMA NextIo == IoInv /\ [Next]_vars => IoInv'
  <1> SUFFICES ASSUME IoInv, [Next]_vars PROVE IoInv'
    OBVIOUS
  <1> USE DEF IoInv
  <1>0. /\ bio \in Writer /\ rd \in Reader
        /\ bio.data \in Nat /\ bio.avail \in Nat /\ bio.offs_avail \in Nat
        /\ rd.data \in Nat /\ rd.avail \in Nat
    BY DEF TypeOK, Writer, Reader
  <1>1. CASE PutStep
    <2>1. PICK it \in Items : items' = Append(items, it) /\ bio' = PutItem(bio, it)
      BY <1>1 DEF PutStep
    <2>2. Grows(bio, bio')
      BY <1>0, <2>1, PutItemGrows
    <2>3. /\ bio' \in Writer /\ bio'.data \in Nat /\ bio'.avail \in Nat
          /\ bio'.offs_avail \in Nat
      BY <2>2 DEF Grows, Writer
    <2>4. rd' = rd /\ got' = got /\ phase' = phase /\ phase = "put"
      BY <1>1 DEF PutStep
    <2>5. TypeOK'
      BY <2>1, <2>3, <2>4 DEF TypeOK
    <2>6. CursorsInBounds'
      <3>1. OffsetsBelow(bio')
        BY <2>2 DEF Grows, OffsetsBelow, CursorsInBounds
      <3>2. Len(bio'.offs) + bio'.offs_avail <= MaxOffs
        BY <2>2 DEF Grows, CursorsInBounds
      <3>3. bio'.data + bio'.avail = Capacity
        BY <2>2 DEF Grows, CursorsInBounds
      <3>4. rd'.data = 0 /\ rd'.avail = 0 /\ rd'.avail >= 0
            /\ rd'.data + rd'.avail <= bio'.data
        BY <2>3, <2>4
      <3>5. bio'.avail >= 0 /\ bio'.offs_avail >= 0
        BY <2>3
      <3>6. \A i \in DOMAIN bio'.offs : bio'.offs[i] + 16 <= bio'.data
        BY <3>1 DEF OffsetsBelow
      <3> QED BY <3>2, <3>3, <3>4, <3>5, <3>6 DEF CursorsInBounds
    <2> QED BY <2>4, <2>5, <2>6
  <1>2. CASE Refuse
    BY <1>2 DEF Refuse, TypeOK, CursorsInBounds
  <1>3. CASE BinderCall \/ BinderSendReply
    <2>1. /\ rd' = bio_init_from_txn /\ bio' = bio /\ items' = items /\ got' = got
          /\ phase' \in {"call", "reply"}
      BY <1>3 DEF BinderCall, BinderSendReply
    <2>2. rd' \in Reader /\ rd'.data = 0 /\ rd'.avail = bio.data
      BY <1>0, <2>1 DEF bio_init_from_txn, Reader
    <2>3. TypeOK'
      BY <2>1, <2>2 DEF TypeOK
    <2>4. CursorsInBounds'
      BY <1>0, <2>1, <2>2 DEF CursorsInBounds
    <2> QED BY <2>1, <2>3, <2>4
  <1>4. CASE GetStep
    <2> DEFINE kind == items[Len(got) + 1].kind
    <2>1. /\ rd' = AfterGet(rd, kind) /\ got' = Append(got, GetValue(rd, kind))
          /\ phase' = phase /\ items' = items /\ bio' = bio /\ phase \in {"call", "reply"}
          /\ Len(got) < Len(items)
      BY <1>4 DEF GetStep
    <2>2. kind \in {"u32", "str", "obj", "ref"}
      <3>1. Len(got) \in Nat /\ Len(items) \in Nat /\ items \in Seq(Items)
        BY LenProperties DEF TypeOK
      <3>2. Len(got) + 1 \in 1..Len(items)
        BY <2>1, <3>1
      <3>3. items[Len(got) + 1] \in Items
        BY <3>1, <3>2, ElementOfSeq
      <3> QED BY <3>3, IoAssumption
    <2> HIDE DEF kind
    <2>3. Reads(rd, rd')
      BY <1>0, <2>1, <2>2, AfterGetReads
    <2>4. rd' \in Reader /\ rd'.data \in Nat /\ rd'.avail \in Nat
      BY <2>3 DEF Reads, Reader
    <2>5. GetValue(rd, kind) \in Junk..(WordMod - 1)
      <3>1. Word \cup {Junk} \subseteq Junk..(WordMod - 1)
        BY IoAssumption DEF Word, Junk
      <3> QED BY <3>1, <1>0, <2>2, GetValueType
    <2>6. TypeOK'
      BY <2>1, <2>4, <2>5 DEF TypeOK
    <2>7. CursorsInBounds'
      BY <1>0, <2>1, <2>3, <2>4 DEF Reads, CursorsInBounds
    <2> QED BY <2>1, <2>6, <2>7
  <1>5. CASE UNCHANGED vars
    BY <1>5 DEF vars, TypeOK, CursorsInBounds
  <1> QED BY <1>1, <1>2, <1>3, <1>4, <1>5 DEF Next

\* For any buffer size, number of offsets, values and word width, no sequence
\* of bio_put_* and bio_get_* calls moves a cursor out of its buffer: the
\* check in bio_alloc, the one in bio_alloc_obj and the one in bio_get
\* suffice, also for a string length that wraps.
THEOREM CursorsStayInBounds == Spec => [](TypeOK /\ CursorsInBounds)
  <1>1. IoInv => TypeOK /\ CursorsInBounds
    BY DEF IoInv
  <1> QED BY <1>1, InitIo, NextIo, PTL DEF Spec

\* The same invariant says what kinds of values the codec keeps.
THEOREM IoTypes == Spec => []TypeOK
  <1>1. IoInv => TypeOK
    BY DEF IoInv
  <1> QED BY <1>1, InitIo, NextIo, PTL DEF Spec

-----------------------------------------------------------------------------
(* What is written is what is read.  The items of a message stand one      *)
(* after the other in memory, up to the first that did not fit; a reader   *)
(* that follows them position by position cannot miss.                     *)

HasCell(b, at, kind, val) == Cell(at, kind, val) \in b.mem

IsOffset(b, at) == \E i \in DOMAIN b.offs : b.offs[i] = at

\* bio_put_string16 writes a null or huge string as the sentinel alone.
IsHuge(len) == len >= MAX_BIO_SIZE \div 2

\* The bytes an item takes.
SizeIn(it) ==
    CASE it.kind = "u32" -> 4
      [] it.kind = "str" -> IF IsHuge(it.val) THEN 4 ELSE 4 + Align((it.val + 1) * 2)
      [] it.kind \in {"obj", "ref"} -> 16

\* The item stands whole at a position.
Whole(b, it, at) ==
    /\ at + SizeIn(it) <= b.data
    /\ it.kind = "u32" => HasCell(b, at, "u32", it.val)
    /\ it.kind = "str" /\ IsHuge(it.val) => HasCell(b, at, "u32", Sentinel)
    /\ it.kind = "str" /\ ~IsHuge(it.val) =>
            HasCell(b, at, "u32", it.val) /\ HasCell(b, at + 4, "str", it.val)
    /\ it.kind \in {"obj", "ref"} => HasCell(b, at, "obj", it.val) /\ IsOffset(b, at)

\* The item could not be written at a position, and reading it there runs out
\* of data or misses its offset, now and after any later put.
Torn(b, it, at) ==
    /\ at <= b.data
    /\ it.kind = "u32" => Capacity - at < 4
    /\ it.kind = "str" =>
            \/ Capacity - at < 4
            \/ /\ ~IsHuge(it.val)
               /\ HasCell(b, at, "u32", it.val)
               /\ Capacity - at - 4 < Align((it.val + 1) * 2)
    /\ it.kind \in {"obj", "ref"} =>
            /\ ~IsOffset(b, at)
            /\ b.data > at \/ b.offs_avail = 0 \/ Capacity - at < 16

\* A position holds one value of a kind, and nothing lies past the end.
MemOK(b) ==
    /\ \A c \in b.mem : c.at < b.data
    /\ \A c, d \in b.mem : c.at = d.at /\ c.kind = d.kind => c = d

IsZeroRef(it) == it.kind = "ref" /\ it.val = 0

\* The first g items stand one after the other from positions p[1], ..., p[g];
\* the next one, if there is one, is torn.
Layout(g, p) ==
    /\ p[1] = 0
    /\ \A i \in 1..g : Whole(bio, items[i], p[i]) /\ p[i + 1] = p[i] + SizeIn(items[i])
    /\ g = Len(items) => p[g + 1] = bio.data
    /\ g < Len(items) =>
            /\ Torn(bio, items[g + 1], p[g + 1])
            /\ bio.overflow \/ IsZeroRef(items[g + 1])

\* Where the receiver is in that layout.
ReadUpTo(g, p) ==
    /\ phase \in {"put", "refused"} => got = <<>>
    /\ phase \in {"call", "reply"} =>
        \/ rd.overflow /\ g < Len(items)
        \/ /\ ~rd.overflow
           /\ Len(got) <= g
           /\ rd.data = p[Len(got) + 1]
           /\ rd.data + rd.avail = bio.data
           /\ \A i \in 1..Len(got) : got[i] = Expected(items[i])

-----------------------------------------------------------------------------
(* Sizes.                                                                  *)

\* A string that is written with its characters is so short that nothing
\* wraps: rounding its size up gives at least a word, for writer and reader.
LEMMA StringSizes ==
    ASSUME NEW len \in Word, ~IsHuge(len)
    PROVE  /\ (len + 1) * 2 \in Nat
           /\ Align((len + 1) * 2) \in Nat
           /\ Align((len + 1) * 2) >= 4
           /\ StrSize(len) = (len + 1) * 2
           /\ len # Sentinel
  <1> USE IoAssumption
  <1>1. len \in Nat /\ 8 * len < WordMod
    <2> DEFINE q == WordMod \div 4
    <2>1. q \in Nat /\ 4 * q <= WordMod
      OBVIOUS
    <2>2. len \in Nat /\ ~(len >= q \div 2)
      BY DEF Word, IsHuge, MAX_BIO_SIZE
    <2> HIDE DEF q
    <2>3. len + 1 <= q \div 2 /\ q \div 2 \in Nat /\ 2 * (q \div 2) <= q
      BY <2>1, <2>2
    <2> QED BY <2>1, <2>2, <2>3
  <1>2. (len + 1) * 2 \in Nat /\ (len + 1) * 2 + 3 < WordMod
    BY <1>1
  <1>3. ((len + 1) * 2) % WordMod = (len + 1) * 2
    BY <1>2
  <1>4. ((len + 1) * 2 + 3) % WordMod = (len + 1) * 2 + 3
    BY <1>2
  <1> DEFINE s == (len + 1) * 2 + 3
  <1>5. s \in Nat /\ s >= 5
    BY <1>1
  <1>6. Align((len + 1) * 2) = s - (s % 4)
    BY <1>4 DEF Align
  <1>7. len # Sentinel
    BY <1>1 DEF Sentinel
  <1> HIDE DEF s
  <1>8. s - (s % 4) \in Nat /\ s - (s % 4) >= 4
    BY <1>5
  <1> QED BY <1>2, <1>3, <1>6, <1>7, <1>8 DEF StrSize

\* A null string has no characters: their size wraps to nothing.
LEMMA NullStringSize == StrSize(Sentinel) = 0 /\ Align(0) = 0
  <1> USE IoAssumption
  <1>1. (Sentinel + 1) * 2 = WordMod * 2 /\ (WordMod * 2) % WordMod = 0
    BY DEF Sentinel
  <1>2. 3 % WordMod = 3
    OBVIOUS
  <1> QED BY <1>1, <1>2 DEF StrSize, Align

-----------------------------------------------------------------------------
(* What the writer keeps.                                                  *)

\* A put takes nothing back: values, offsets and the overflow flag stay, and
\* what is added lies at or past the old end.
Keeps(b, c) ==
    /\ c \in Writer
    /\ b.data <= c.data
    /\ b.mem \subseteq c.mem
    /\ b.overflow => c.overflow
    /\ c.offs_avail <= b.offs_avail
    /\ \A at \in Nat : IsOffset(b, at) => IsOffset(c, at)
    /\ \A at \in Nat : IsOffset(c, at) =>
            \/ IsOffset(b, at)
            \/ at >= b.data /\ at + 16 <= c.data /\ b.offs_avail > 0
    /\ MemOK(b) => MemOK(c)

\* Two puts in a row keep what one keeps.
LEMMA KeepsTransitive ==
    ASSUME NEW b \in Writer, NEW c, NEW d, Keeps(b, c), Keeps(c, d)
    PROVE  Keeps(b, d)
  <1>1. /\ b.data \in Nat /\ c.data \in Nat /\ d.data \in Nat
        /\ b.offs_avail \in Nat /\ c.offs_avail \in Nat /\ d.offs_avail \in Nat
        /\ b.data <= c.data /\ c.data <= d.data
        /\ c.offs_avail <= b.offs_avail /\ d.offs_avail <= c.offs_avail
    BY DEF Keeps, Writer
  <1>2. b.data <= d.data /\ d.offs_avail <= b.offs_avail
    BY <1>1
  <1>3. ASSUME NEW at \in Nat, IsOffset(d, at), ~IsOffset(b, at)
        PROVE  at >= b.data /\ at + 16 <= d.data /\ b.offs_avail > 0
    <2>1. CASE IsOffset(c, at)
      <3>1. at >= b.data /\ at + 16 <= c.data /\ b.offs_avail > 0
        BY <1>3, <2>1 DEF Keeps
      <3> QED BY <1>1, <3>1
    <2>2. CASE ~IsOffset(c, at)
      <3>1. at >= c.data /\ at + 16 <= d.data /\ c.offs_avail > 0
        BY <1>3, <2>2 DEF Keeps
      <3> QED BY <1>1, <3>1
    <2> QED BY <2>1, <2>2
  <1>4. \A at \in Nat : IsOffset(b, at) => IsOffset(d, at)
    BY DEF Keeps
  <1> QED BY <1>2, <1>3, <1>4 DEF Keeps

\* Setting the overflow flag takes nothing back either.
LEMMA FlagKeeps ==
    ASSUME NEW b \in Writer, NEW c, Keeps(b, c)
    PROVE  /\ Keeps(b, [c EXCEPT !.overflow = TRUE])
           /\ [c EXCEPT !.overflow = TRUE].overflow
           /\ [c EXCEPT !.overflow = TRUE].data = c.data
  <1> DEFINE d == [c EXCEPT !.overflow = TRUE]
  <1>1. c \in Writer
    BY DEF Keeps
  <1>2. d \in Writer /\ d.data = c.data /\ d.offs = c.offs /\ d.offs_avail = c.offs_avail
        /\ d.mem = c.mem /\ d.overflow
    BY <1>1 DEF Writer
  <1> HIDE DEF d
  <1>3. \A at \in Nat : IsOffset(d, at) <=> IsOffset(c, at)
    BY <1>2 DEF IsOffset
  <1>4. MemOK(c) => MemOK(d)
    BY <1>2 DEF MemOK
  <1>5. Keeps(b, d)
    BY <1>2, <1>3, <1>4 DEF Keeps
  <1> QED BY <1>2, <1>5 DEF d

\* A writer keeps what it has.
LEMMA KeepsItself ==
    ASSUME NEW b \in Writer
    PROVE  Keeps(b, b)
  <1>1. b.data \in Nat /\ b.offs_avail \in Nat
    BY DEF Writer
  <1> QED BY <1>1 DEF Keeps

\* bio_alloc and the value stored: with room the cells are in memory and the
\* flag is as it was; without room only the flag goes up.
LEMMA PutKeeps ==
    ASSUME NEW b \in Writer, NEW size \in Nat, Align(size) >= 4,
           NEW kind \in {"u32", "str", "obj"}, NEW val \in Word,
           NEW cells, cells = {} \/ cells = {Cell(b.data, kind, val)}
    PROVE  /\ Keeps(b, Put(b, size, cells))
           /\ Put(b, size, cells).offs = b.offs
           /\ Put(b, size, cells).offs_avail = b.offs_avail
           /\ Fits(b, size) => /\ cells \subseteq Put(b, size, cells).mem
                               /\ Put(b, size, cells).overflow = b.overflow
                               /\ Put(b, size, cells).data = b.data + Align(size)
           /\ ~Fits(b, size) => /\ Put(b, size, cells).overflow
                                /\ Put(b, size, cells).data = b.data
                                /\ Put(b, size, cells).avail = b.avail
                                /\ b.avail < Align(size)
  <1>1. Align(size) \in Nat
    BY AlignFacts
  <1>2. /\ b.data \in Nat /\ b.avail \in Nat /\ b.offs \in Seq(Nat) /\ b.offs_avail \in Nat
        /\ b.mem \in SUBSET Cells /\ b.overflow \in BOOLEAN
    BY DEF Writer
  <1>3. cells \in SUBSET Cells
    BY <1>2 DEF Cell, Cells
  <1>4. CASE Fits(b, size)
    <2> DEFINE c == [b EXCEPT !.data = @ + Align(size), !.avail = @ - Align(size),
                              !.mem = @ \cup cells]
    <2>1. b.avail - Align(size) \in Nat /\ b.data + Align(size) \in Nat
      BY <1>1, <1>2, <1>4 DEF Fits
    <2>2. /\ c \in Writer
          /\ c.data = b.data + Align(size) /\ c.avail = b.avail - Align(size)
          /\ c.offs = b.offs /\ c.offs_avail = b.offs_avail
          /\ c.mem = b.mem \cup cells /\ c.overflow = b.overflow
      BY <1>2, <1>3, <2>1 DEF Writer
    <2>3. Put(b, size, cells) = c
      BY <1>4 DEF Put
    <2> HIDE DEF c
    <2>4. ASSUME MemOK(b) PROVE MemOK(c)
      <3>1. \A e \in cells : e.at = b.data
        BY DEF Cell
      <3>2. \A e \in b.mem : e.at < b.data /\ e.at \in Nat
        BY <1>2, <2>4 DEF MemOK, Cells
      <3>3. b.data < c.data /\ c.data \in Nat
        BY <1>1, <1>2, <2>2
      <3>4. ASSUME NEW e \in c.mem PROVE e.at < c.data
        <4>1. CASE e \in b.mem
          <5>1. e.at < b.data /\ e.at \in Nat
            BY <3>2, <4>1
          <5> QED BY <1>2, <3>3, <5>1
        <4>2. CASE e \in cells
          BY <3>1, <3>3, <4>2
        <4> QED BY <2>2, <4>1, <4>2
      <3>5. ASSUME NEW e \in c.mem, NEW f \in c.mem, e.at = f.at, e.kind = f.kind
            PROVE  e = f
        <4>1. CASE e \in b.mem /\ f \in b.mem
          BY <2>4, <3>5, <4>1 DEF MemOK
        <4>2. CASE e \in cells /\ f \in cells
          BY <4>2
        <4>3. CASE (e \in b.mem /\ f \in cells) \/ (e \in cells /\ f \in b.mem)
          BY <1>2, <3>1, <3>2, <3>5, <4>3
        <4> QED BY <2>2, <4>1, <4>2, <4>3
      <3> QED BY <3>4, <3>5 DEF MemOK
    <2>5. \A at \in Nat : IsOffset(c, at) <=> IsOffset(b, at)
      BY <2>2 DEF IsOffset
    <2>6. Keeps(b, c)
      <3>1. b.data <= c.data /\ c.offs_avail <= b.offs_avail
        BY <1>1, <1>2, <2>2
      <3> QED BY <2>2, <2>4, <2>5, <3>1 DEF Keeps
    <2> QED BY <1>4, <2>2, <2>3, <2>6
  <1>5. CASE ~Fits(b, size)
    <2>1. Put(b, size, cells) = [b EXCEPT !.overflow = TRUE]
      BY <1>5 DEF Put
    <2>2. Keeps(b, [b EXCEPT !.overflow = TRUE])
      BY KeepsItself, FlagKeeps
    <2>3. b.avail < Align(size)
      BY <1>1, <1>2, <1>5 DEF Fits
    <2>4. [b EXCEPT !.overflow = TRUE].overflow
      BY <1>2 DEF Writer
    <2> QED BY <1>5, <2>1, <2>2, <2>3, <2>4 DEF Writer
  <1> QED BY <1>4, <1>5

-----------------------------------------------------------------------------
(* What a put leaves behind: the item whole, or torn with the flag up.     *)
(* Only the reference with handle 0 is torn without a flag.                *)

Leaves(b, it, c) ==
    /\ Keeps(b, c)
    /\ \/ Whole(c, it, b.data) /\ c.data = b.data + SizeIn(it)
       \/ Torn(c, it, b.data) /\ (c.overflow \/ IsZeroRef(it))

\* The part of the invariant about the cursors of a writer.
InBounds(b) == b.data + b.avail = Capacity /\ OffsetsBelow(b)

\* bio_put_uint32, of a word or of the length of a string.
LEMMA PutWordLeaves ==
    ASSUME NEW b \in Writer, InBounds(b), NEW n \in Word
    PROVE  LET c == bio_put_uint32(b, n) IN
           /\ Keeps(b, c)
           /\ \/ /\ HasCell(c, b.data, "u32", n) /\ c.data = b.data + 4
                 /\ c.overflow = b.overflow
              \/ c.overflow /\ Capacity - b.data < 4 /\ c.data = b.data /\ c.avail = b.avail
  <1> DEFINE cells == {Cell(b.data, "u32", n)}
             c == Put(b, 4, cells)
  <1>1. /\ Keeps(b, c)
        /\ Fits(b, 4) => cells \subseteq c.mem /\ c.overflow = b.overflow /\ c.data = b.data + 4
        /\ ~Fits(b, 4) => c.overflow /\ c.data = b.data /\ c.avail = b.avail /\ b.avail < 4
    BY AlignFacts, PutKeeps
  <1>2. b.data \in Nat /\ b.avail \in Nat /\ Capacity = b.data + b.avail
    BY DEF Writer, InBounds
  <1>3. bio_put_uint32(b, n) = c
    BY DEF bio_put_uint32
  <1> HIDE DEF c
  <1>4. CASE Fits(b, 4)
    BY <1>1, <1>3, <1>4 DEF HasCell
  <1>5. CASE ~Fits(b, 4)
    BY <1>1, <1>2, <1>3, <1>5
  <1> QED BY <1>4, <1>5

\* A word.
LEMMA PutU32Leaves ==
    ASSUME NEW b \in Writer, InBounds(b), NEW it \in Items, it.kind = "u32"
    PROVE  Leaves(b, it, PutItem(b, it))
  <1>1. it.val \in Word
    BY IoAssumption DEF Word
  <1>2. PICK c : c = bio_put_uint32(b, it.val)
    OBVIOUS
  <1>3. /\ Keeps(b, c)
        /\ \/ HasCell(c, b.data, "u32", it.val) /\ c.data = b.data + 4
           \/ c.overflow /\ Capacity - b.data < 4 /\ c.data = b.data
    BY <1>1, <1>2, PutWordLeaves
  <1>4. PutItem(b, it) = c
    BY <1>2 DEF PutItem
  <1>5. SizeIn(it) = 4 /\ b.data \in Nat /\ c.data \in Nat
    BY <1>3 DEF SizeIn, Keeps, Writer
  <1>6. CASE HasCell(c, b.data, "u32", it.val) /\ c.data = b.data + 4
    BY <1>3, <1>4, <1>5, <1>6 DEF Leaves, Whole
  <1>7. CASE c.overflow /\ Capacity - b.data < 4 /\ c.data = b.data
    BY <1>3, <1>4, <1>5, <1>7 DEF Leaves, Torn
  <1> QED BY <1>3, <1>6, <1>7

\* A string: whole when both puts had room; torn after its length, or before.
LEMMA PutStringLeaves ==
    ASSUME NEW b \in Writer, InBounds(b), NEW it \in Items, it.kind = "str"
    PROVE  Leaves(b, it, PutItem(b, it))
  <1>1. it.val \in Word /\ Sentinel \in Word
    BY IoAssumption DEF Word, Sentinel
  <1>2. b.data \in Nat /\ b.avail \in Nat /\ Capacity = b.data + b.avail
    BY DEF Writer, InBounds
  <1>3. PutItem(b, it) = bio_put_string16(b, it.val)
    BY DEF PutItem
  <1>4. CASE IsHuge(it.val)
    <2>1. PICK c : c = bio_put_uint32(b, Sentinel)
      OBVIOUS
    <2>2. /\ Keeps(b, c)
          /\ \/ HasCell(c, b.data, "u32", Sentinel) /\ c.data = b.data + 4
             \/ c.overflow /\ Capacity - b.data < 4 /\ c.data = b.data
      BY <1>1, <2>1, PutWordLeaves
    <2>3. PutItem(b, it) = c
      BY <1>3, <1>4, <2>1 DEF bio_put_string16, IsHuge
    <2>4. SizeIn(it) = 4 /\ c.data \in Nat
      BY <1>4, <2>2 DEF SizeIn, Keeps, Writer
    <2>5. CASE HasCell(c, b.data, "u32", Sentinel) /\ c.data = b.data + 4
      BY <1>2, <1>4, <2>2, <2>3, <2>4, <2>5 DEF Leaves, Whole
    <2>6. CASE c.overflow /\ Capacity - b.data < 4 /\ c.data = b.data
      BY <1>2, <2>2, <2>3, <2>4, <2>6 DEF Leaves, Torn
    <2> QED BY <2>2, <2>5, <2>6
  <1>5. CASE ~IsHuge(it.val)
    <2>1. PICK size : size = (it.val + 1) * 2
      OBVIOUS
    <2>2. size \in Nat /\ Align(size) \in Nat /\ Align(size) >= 4
      BY <1>1, <1>5, <2>1, StringSizes
    <2>3. PICK b1 : b1 = bio_put_uint32(b, it.val)
      OBVIOUS
    <2>4. /\ Keeps(b, b1)
          /\ \/ HasCell(b1, b.data, "u32", it.val) /\ b1.data = b.data + 4
             \/ b1.overflow /\ Capacity - b.data < 4 /\ b1.data = b.data /\ b1.avail = b.avail
      BY <1>1, <2>3, PutWordLeaves
    <2>5. PICK cells : cells = {Cell(b1.data, "str", it.val)}
      OBVIOUS
    <2>6. PICK c : c = Put(b1, size, cells)
      OBVIOUS
    <2>7. PutItem(b, it) = c
      BY <1>3, <1>5, <2>1, <2>3, <2>5, <2>6 DEF bio_put_string16, IsHuge
    <2>8. b1 \in Writer /\ b1.data \in Nat /\ b1.avail \in Nat
      BY <2>4 DEF Keeps, Writer
    <2>9. /\ Keeps(b1, c)
          /\ Fits(b1, size) => cells \subseteq c.mem /\ c.data = b1.data + Align(size)
          /\ ~Fits(b1, size) => c.overflow /\ c.data = b1.data /\ b1.avail < Align(size)
      BY <1>1, <2>2, <2>5, <2>6, <2>8, PutKeeps
    <2>10. Keeps(b, c) /\ c.data \in Nat /\ b1.mem \subseteq c.mem
      BY <2>4, <2>9, KeepsTransitive DEF Keeps, Writer
    <2>11. SizeIn(it) = 4 + Align(size)
      BY <1>5, <2>1 DEF SizeIn
    <2>12. b1.data + b1.avail = Capacity
      <3>1. Grows(b, b1)
        BY <1>1, <2>3, PutWordGrows
      <3> QED BY <3>1 DEF Grows, InBounds
    <2>13. CASE HasCell(b1, b.data, "u32", it.val) /\ b1.data = b.data + 4
      <3>1. HasCell(c, b.data, "u32", it.val)
        BY <2>10, <2>13 DEF HasCell
      <3>2. CASE Fits(b1, size)
        <4>1. c.data = b.data + SizeIn(it)
          BY <1>2, <2>2, <2>8, <2>9, <2>11, <2>13, <3>2
        <4>2. HasCell(c, b.data + 4, "str", it.val)
          BY <2>5, <2>9, <2>13, <3>2 DEF HasCell
        <4>3. Whole(c, it, b.data)
          BY <1>5, <2>10, <3>1, <4>1, <4>2 DEF Whole
        <4> QED BY <2>7, <2>10, <4>1, <4>3 DEF Leaves
      <3>3. CASE ~Fits(b1, size)
        <4>1. Capacity - b.data - 4 < Align(size) /\ b.data <= c.data /\ c.overflow
          BY <1>2, <2>2, <2>8, <2>9, <2>12, <2>13, <3>3
        <4>2. Torn(c, it, b.data)
          BY <1>5, <2>1, <3>1, <4>1 DEF Torn
        <4> QED BY <2>7, <2>10, <4>1, <4>2 DEF Leaves
      <3> QED BY <3>2, <3>3
    <2>14. CASE b1.overflow /\ Capacity - b.data < 4 /\ b1.data = b.data /\ b1.avail = b.avail
      <3>1. c.overflow /\ b.data <= c.data
        BY <2>9, <2>10, <2>14 DEF Keeps
      <3>2. Torn(c, it, b.data)
        BY <2>14, <3>1 DEF Torn
      <3> QED BY <2>7, <2>10, <3>1, <3>2 DEF Leaves
    <2> QED BY <2>4, <2>13, <2>14
  <1> QED BY <1>4, <1>5

\* An object: whole with room and an offset; otherwise no offset is recorded
\* at its position, and none will be.
LEMMA PutObjectLeaves ==
    ASSUME NEW b \in Writer, InBounds(b), NEW it \in Items,
           it.kind \in {"obj", "ref"}
    PROVE  Leaves(b, it, PutObject(b, it.val))
  <1>1. it.val \in Word
    BY IoAssumption DEF Word
  <1>2. b.data \in Nat /\ b.avail \in Nat /\ Capacity = b.data + b.avail
        /\ b.offs \in Seq(Nat) /\ b.offs_avail \in Nat
    BY DEF Writer, InBounds
  <1>3. SizeIn(it) = 16
    BY DEF SizeIn
  <1>4. ~IsOffset(b, b.data)
    <2>1. ASSUME NEW i \in DOMAIN b.offs PROVE b.offs[i] # b.data
      <3>1. b.offs[i] + 16 <= b.data /\ b.offs[i] \in Nat
        BY <1>2, <2>1, LenProperties, ElementOfSeq DEF InBounds, OffsetsBelow
      <3> QED BY <1>2, <3>1
    <2> QED BY <2>1 DEF IsOffset
  <1>5. CASE Fits(b, 16) /\ b.offs_avail > 0
    <2>1. PICK c : c = Put(b, 16, {Cell(b.data, "obj", it.val)})
      OBVIOUS
    <2>2. /\ Keeps(b, c) /\ c.offs = b.offs /\ c.offs_avail = b.offs_avail
          /\ c.data = b.data + 16 /\ {Cell(b.data, "obj", it.val)} \subseteq c.mem
          /\ c.overflow = b.overflow
      BY <1>1, <1>5, <2>1, AlignFacts, PutKeeps
    <2>3. PICK d : d = [c EXCEPT !.offs_avail = c.offs_avail - 1,
                                 !.offs = Append(c.offs, b.data)]
      OBVIOUS
    <2>4. PutObject(b, it.val) = d
      BY <1>5, <2>1, <2>3 DEF PutObject
    <2>5. c \in Writer
      BY <2>2 DEF Keeps
    <2>6. Append(b.offs, b.data) \in Seq(Nat) /\ b.offs_avail - 1 \in Nat
      BY <1>2, <1>5
    <2>7. /\ d \in Writer /\ d.data = c.data /\ d.mem = c.mem /\ d.overflow = c.overflow
          /\ d.offs = Append(b.offs, b.data) /\ d.offs_avail = b.offs_avail - 1
      BY <2>2, <2>3, <2>5, <2>6 DEF Writer
    <2>8. \A at \in Nat : IsOffset(d, at) <=> IsOffset(b, at) \/ at = b.data
      <3>1. PICK n \in Nat : n = Len(b.offs)
        BY <1>2, LenProperties
      <3>2. /\ DOMAIN b.offs = 1..n /\ DOMAIN d.offs = 1..(n + 1)
            /\ d.offs[n + 1] = b.data /\ \A i \in 1..n : d.offs[i] = b.offs[i]
        BY <1>2, <2>7, <3>1, AppendProperties, LenProperties
      <3> QED BY <3>1, <3>2 DEF IsOffset
    <2>9. Keeps(b, d)
      <3>1. b.mem \subseteq d.mem /\ (b.overflow => d.overflow) /\ b.data <= d.data
        <4>1. b.data <= d.data
          BY <1>2, <2>2, <2>7
        <4> QED BY <2>2, <2>7, <4>1 DEF Keeps
      <3>2. MemOK(b) => MemOK(d)
        BY <2>2, <2>7 DEF Keeps, MemOK
      <3>3. d.offs_avail <= b.offs_avail
        BY <1>2, <2>7
      <3>4. \A at \in Nat : IsOffset(d, at) =>
                \/ IsOffset(b, at)
                \/ at >= b.data /\ at + 16 <= d.data /\ b.offs_avail > 0
        BY <1>2, <1>5, <2>2, <2>7, <2>8
      <3> QED BY <2>7, <2>8, <3>1, <3>2, <3>3, <3>4 DEF Keeps
    <2>10. HasCell(d, b.data, "obj", it.val) /\ IsOffset(d, b.data)
      BY <1>2, <2>2, <2>7, <2>8 DEF HasCell
    <2>11. Whole(d, it, b.data)
      BY <1>2, <1>3, <2>2, <2>7, <2>10 DEF Whole
    <2> QED BY <1>3, <2>2, <2>4, <2>7, <2>9, <2>11 DEF Leaves
  <1>6. CASE ~(Fits(b, 16) /\ b.offs_avail > 0)
    <2>1. PICK c : c = Put(b, 16, {})
      OBVIOUS
    <2>2. /\ Keeps(b, c) /\ c.offs = b.offs /\ c.offs_avail = b.offs_avail
          /\ Fits(b, 16) => c.data = b.data + 16
          /\ ~Fits(b, 16) => c.data = b.data /\ b.avail < 16
      BY <1>1, <2>1, AlignFacts, PutKeeps
    <2>3. PICK d : d = [c EXCEPT !.overflow = TRUE]
      OBVIOUS
    <2>4. PutObject(b, it.val) = d
      BY <1>6, <2>1, <2>3 DEF PutObject
    <2>5. Keeps(b, d) /\ d.overflow /\ d.data = c.data
      BY <2>2, <2>3, FlagKeeps
    <2>6. d.offs = b.offs /\ d.offs_avail = b.offs_avail
      BY <2>2, <2>3 DEF Keeps, Writer
    <2>7. ~IsOffset(d, b.data)
      BY <1>4, <2>6 DEF IsOffset
    <2>8. d.data > b.data \/ d.offs_avail = 0 \/ Capacity - b.data < 16
      BY <1>2, <1>6, <2>2, <2>5, <2>6
    <2>9. b.data <= d.data
      BY <2>5 DEF Keeps
    <2>10. Torn(d, it, b.data)
      BY <2>7, <2>8, <2>9 DEF Torn
    <2> QED BY <2>4, <2>5, <2>10 DEF Leaves
  <1> QED BY <1>5, <1>6

\* A reference with handle 0: the object is stored, but nobody will find it.
LEMMA PutZeroRefLeaves ==
    ASSUME NEW b \in Writer, InBounds(b), NEW it \in Items, IsZeroRef(it)
    PROVE  Leaves(b, it, PutItem(b, it))
  <1>1. it.val \in Word /\ it.kind = "ref"
    BY IoAssumption DEF Word, IsZeroRef
  <1>2. b.data \in Nat /\ b.avail \in Nat /\ Capacity = b.data + b.avail
        /\ b.offs \in Seq(Nat) /\ b.offs_avail \in Nat
    BY DEF Writer, InBounds
  <1>3. PICK c : c = Put(b, 16, {Cell(b.data, "obj", it.val)})
    OBVIOUS
  <1>4. /\ Keeps(b, c) /\ c.offs = b.offs
        /\ Fits(b, 16) => c.data = b.data + 16
        /\ ~Fits(b, 16) => c.data = b.data /\ b.avail < 16
    BY <1>1, <1>3, AlignFacts, PutKeeps
  <1>5. PutItem(b, it) = c
    BY <1>1, <1>3 DEF PutItem, bio_put_ref, IsZeroRef
  <1>6. ~IsOffset(c, b.data)
    <2>1. ASSUME NEW i \in DOMAIN b.offs PROVE b.offs[i] # b.data
      <3>1. b.offs[i] + 16 <= b.data /\ b.offs[i] \in Nat
        BY <1>2, <2>1, LenProperties, ElementOfSeq DEF InBounds, OffsetsBelow
      <3> QED BY <1>2, <3>1
    <2> QED BY <1>4, <2>1 DEF IsOffset
  <1>7. c.data > b.data \/ Capacity - b.data < 16
    BY <1>2, <1>4
  <1>8. b.data <= c.data
    BY <1>4 DEF Keeps
  <1>9. Torn(c, it, b.data)
    BY <1>1, <1>6, <1>7, <1>8 DEF Torn
  <1> QED BY <1>4, <1>5, <1>9 DEF Leaves

\* Whatever is put.
LEMMA PutItemLeaves ==
    ASSUME NEW b \in Writer, InBounds(b), NEW it \in Items
    PROVE  Leaves(b, it, PutItem(b, it))
  <1>1. it.kind \in {"u32", "str", "obj", "ref"}
    BY IoAssumption
  <1>2. CASE it.kind = "obj"
    <2>1. PutItem(b, it) = PutObject(b, it.val)
      BY <1>2 DEF PutItem
    <2> QED BY <1>2, <2>1, PutObjectLeaves
  <1>3. CASE it.kind = "ref" /\ ~IsZeroRef(it)
    <2>1. PutItem(b, it) = PutObject(b, it.val)
      BY <1>3 DEF PutItem, bio_put_ref, IsZeroRef
    <2> QED BY <1>3, <2>1, PutObjectLeaves
  <1> QED BY <1>1, <1>2, <1>3, PutU32Leaves, PutStringLeaves, PutZeroRefLeaves DEF IsZeroRef

-----------------------------------------------------------------------------
(* What was whole stays whole, and what was torn stays torn.               *)

\* A later put does not touch an item.
LEMMA WholeStays ==
    ASSUME NEW b \in Writer, NEW c, Keeps(b, c), NEW it \in Items, NEW at \in Nat,
           Whole(b, it, at)
    PROVE  Whole(c, it, at)
  <1>1. /\ \A pos, kind, val : HasCell(b, pos, kind, val) => HasCell(c, pos, kind, val)
        /\ IsOffset(b, at) => IsOffset(c, at)
    BY DEF Keeps, HasCell
  <1>2. at + SizeIn(it) <= c.data
    <2>1. SizeIn(it) \in Nat
      <3>1. it.kind \in {"u32", "str", "obj", "ref"} /\ it.val \in Word
        BY IoAssumption DEF Word
      <3>2. CASE it.kind = "str" /\ ~IsHuge(it.val)
        BY <3>1, <3>2, StringSizes DEF SizeIn
      <3>3. CASE it.kind = "str" /\ IsHuge(it.val)
        BY <3>3 DEF SizeIn
      <3>4. CASE it.kind # "str"
        BY <3>1, <3>4 DEF SizeIn
      <3> QED BY <3>2, <3>3, <3>4
    <2>2. b.data \in Nat /\ c.data \in Nat /\ b.data <= c.data
      BY DEF Keeps, Writer
    <2>3. at + SizeIn(it) <= b.data
      BY DEF Whole
    <2> QED BY <2>1, <2>2, <2>3
  <1> QED BY <1>1, <1>2 DEF Whole

\* A later put does not mend an item: what is short of room stays short of
\* it, and no offset is recorded for a place that has been passed or an
\* object that had no room.
LEMMA TornStays ==
    ASSUME NEW b \in Writer, NEW c, Keeps(b, c), InBounds(c),
           NEW it \in Items, NEW at \in Nat, Torn(b, it, at)
    PROVE  Torn(c, it, at)
  <1>1. /\ b.data \in Nat /\ c.data \in Nat /\ b.data <= c.data
        /\ b.offs_avail \in Nat /\ c.offs_avail \in Nat /\ c.offs_avail <= b.offs_avail
        /\ c.avail \in Nat /\ c.data + c.avail = Capacity
    BY DEF Keeps, Writer, InBounds
  <1>2. at <= c.data /\ at <= b.data
    <2>1. at <= b.data
      BY DEF Torn
    <2> QED BY <1>1, <2>1
  <1>3. ASSUME it.kind \in {"obj", "ref"}
        PROVE  /\ ~IsOffset(c, at)
               /\ c.data > at \/ c.offs_avail = 0 \/ Capacity - at < 16
    <2>1. ~IsOffset(b, at) /\ (b.data > at \/ b.offs_avail = 0 \/ Capacity - at < 16)
      BY <1>3 DEF Torn
    <2>2. c.data > at \/ c.offs_avail = 0 \/ Capacity - at < 16
      BY <1>1, <2>1
    <2>3. ASSUME IsOffset(c, at) PROVE FALSE
      <3>1. at >= b.data /\ at + 16 <= c.data /\ b.offs_avail > 0
        BY <2>1, <2>3 DEF Keeps
      <3> QED BY <1>1, <2>1, <3>1
    <2> QED BY <2>2, <2>3
  <1>4. \A pos, kind, val : HasCell(b, pos, kind, val) => HasCell(c, pos, kind, val)
    BY DEF Keeps, HasCell
  <1> QED BY <1>2, <1>3, <1>4 DEF Torn

-----------------------------------------------------------------------------
(* What the receiver makes of it.                                          *)

\* bio_get with enough data moves the cursor, and without sets the flag,
\* which nothing clears.
LEMMA GetMoves ==
    ASSUME NEW r \in Reader, NEW size \in Nat
    PROVE  /\ bio_get(r, size) \in Reader
           /\ r.overflow => bio_get(r, size).overflow
           /\ Align(size) <= r.avail =>
                /\ bio_get(r, size).overflow = r.overflow
                /\ bio_get(r, size).data = r.data + Align(size)
                /\ bio_get(r, size).avail = r.avail - Align(size)
           /\ ~(Align(size) <= r.avail) => bio_get(r, size).overflow
  <1>1. r.data \in Nat /\ r.avail \in Nat /\ r.overflow \in BOOLEAN /\ Align(size) \in Nat
    BY AlignFacts DEF Reader
  <1>2. CASE Align(size) <= r.avail
    <2>1. r.avail - Align(size) \in Nat /\ r.data + Align(size) \in Nat
      BY <1>1, <1>2
    <2> DEFINE q == [r EXCEPT !.data = @ + Align(size), !.avail = @ - Align(size)]
    <2>2. bio_get(r, size) = q
      BY <1>2 DEF bio_get, Got
    <2>3. /\ q \in Reader /\ q.overflow = r.overflow
          /\ q.data = r.data + Align(size) /\ q.avail = r.avail - Align(size)
      BY <1>1, <2>1 DEF Reader
    <2> HIDE DEF q
    <2> QED BY <1>2, <2>2, <2>3
  <1>3. CASE ~(Align(size) <= r.avail)
    <2> DEFINE q == [r EXCEPT !.avail = 0, !.overflow = TRUE]
    <2>1. bio_get(r, size) = q
      BY <1>3 DEF bio_get, Got
    <2>2. q \in Reader /\ q.overflow
      BY <1>1 DEF Reader
    <2> HIDE DEF q
    <2> QED BY <1>3, <2>1, <2>2
  <1> QED BY <1>2, <1>3

\* A value in memory is the value found.
LEMMA AtFinds ==
    ASSUME MemOK(bio), NEW pos, NEW kind, NEW val, HasCell(bio, pos, kind, val)
    PROVE  At(pos, kind) = val
  <1> DEFINE d == Cell(pos, kind, val)
             e == CHOOSE c \in bio.mem : c.at = pos /\ c.kind = kind
  <1>1. d \in bio.mem /\ d.at = pos /\ d.kind = kind /\ d.val = val
    BY DEF HasCell, Cell
  <1>2. e \in bio.mem /\ e.at = pos /\ e.kind = kind
    BY <1>1
  <1>3. At(pos, kind) = e.val
    BY <1>1 DEF At
  <1> HIDE DEF d, e
  <1>4. e = d
    BY <1>1, <1>2 DEF MemOK
  <1> QED BY <1>1, <1>3, <1>4

\* A receiver that stands before a whole item reads it, and stands behind it.
ReadsWhole(r, it) ==
    /\ ~AfterGet(r, it.kind).overflow
    /\ AfterGet(r, it.kind).data = r.data + SizeIn(it)
    /\ AfterGet(r, it.kind).data + AfterGet(r, it.kind).avail = bio.data
    /\ GetValue(r, it.kind) = Expected(it)

\* A receiver that stands before a whole item, with the end of the data ahead.
Before(r, it) ==
    /\ ~r.overflow
    /\ r.data + r.avail = bio.data
    /\ Whole(bio, it, r.data)

\* A word.
LEMMA ReadU32 ==
    ASSUME bio \in Writer, MemOK(bio), NEW r \in Reader, NEW it \in Items,
           Before(r, it), it.kind = "u32"
    PROVE  ReadsWhole(r, it)
  <1>1. r.data \in Nat /\ r.avail \in Nat /\ bio.data \in Nat /\ r.data + r.avail = bio.data
    BY DEF Reader, Writer, Before
  <1>2. SizeIn(it) = 4 /\ r.data + SizeIn(it) <= bio.data /\ HasCell(bio, r.data, "u32", it.val)
    BY DEF SizeIn, Before, Whole
  <1>3. 4 <= r.avail
    BY <1>1, <1>2
  <1>4. PICK q : q = bio_get(r, 4)
    OBVIOUS
  <1>5. q.overflow = r.overflow /\ q.data = r.data + 4 /\ q.avail = r.avail - 4
    BY <1>3, <1>4, AlignFacts, GetMoves
  <1>6. AfterGet(r, it.kind) = q
    BY <1>4 DEF AfterGet
  <1>7. GetValue(r, it.kind) = it.val
    BY <1>2, <1>3, AlignFacts, AtFinds DEF GetValue, bio_get_uint32, Got
  <1>8. q.data + q.avail = bio.data
    BY <1>1, <1>5
  <1> QED BY <1>2, <1>5, <1>6, <1>7, <1>8 DEF ReadsWhole, Expected, Before

\* An object.
LEMMA ReadObject ==
    ASSUME bio \in Writer, MemOK(bio), NEW r \in Reader, NEW it \in Items,
           Before(r, it), it.kind \in {"obj", "ref"}
    PROVE  ReadsWhole(r, it)
  <1>1. r.data \in Nat /\ r.avail \in Nat /\ bio.data \in Nat /\ r.data + r.avail = bio.data
    BY DEF Reader, Writer, Before
  <1>2. SizeIn(it) = 16 /\ r.data + SizeIn(it) <= bio.data
        /\ HasCell(bio, r.data, "obj", it.val) /\ AtObject(r)
    BY DEF SizeIn, Before, Whole, AtObject, IsOffset
  <1>3. 16 <= r.avail
    BY <1>1, <1>2
  <1>4. PICK q : q = bio_get(r, 16)
    OBVIOUS
  <1>5. q.overflow = r.overflow /\ q.data = r.data + 16 /\ q.avail = r.avail - 16
    BY <1>3, <1>4, AlignFacts, GetMoves
  <1>6. AfterGet(r, it.kind) = q
    BY <1>2, <1>4 DEF AfterGet
  <1>7. GetValue(r, it.kind) = it.val
    <2>1. bio_get_ref(r) = it.val
      BY <1>2, <1>3, AlignFacts, AtFinds DEF bio_get_ref, Got
    <2> QED BY <2>1 DEF GetValue
  <1>8. q.data + q.avail = bio.data
    BY <1>1, <1>5
  <1> QED BY <1>2, <1>5, <1>6, <1>7, <1>8 DEF ReadsWhole, Expected, Before

\* A string: its length, then as many characters as that says; none for the
\* sentinel.
LEMMA ReadString ==
    ASSUME bio \in Writer, MemOK(bio), NEW r \in Reader, NEW it \in Items,
           Before(r, it), it.kind = "str"
    PROVE  ReadsWhole(r, it)
  <1>1. r.data \in Nat /\ r.avail \in Nat /\ bio.data \in Nat /\ r.data + r.avail = bio.data
    BY DEF Reader, Writer, Before
  <1>2. it.val \in Word /\ Sentinel \in Word
    BY IoAssumption DEF Word, Sentinel
  <1>3. PICK len : len = IF IsHuge(it.val) THEN Sentinel ELSE it.val
    OBVIOUS
  <1>4. PICK size : size = StrSize(len)
    OBVIOUS
  <1>5. /\ size \in Nat /\ Align(size) \in Nat
        /\ SizeIn(it) = 4 + Align(size)
        /\ IsHuge(it.val) <=> len = Sentinel
    <2>1. CASE IsHuge(it.val)
      BY <1>3, <1>4, <2>1, NullStringSize DEF SizeIn
    <2>2. CASE ~IsHuge(it.val)
      BY <1>2, <1>3, <1>4, <2>2, StringSizes DEF SizeIn
    <2> QED BY <2>1, <2>2
  <1>6. HasCell(bio, r.data, "u32", len)
    BY <1>3 DEF Before, Whole
  <1>7. 4 + Align(size) <= r.avail
    <2>1. r.data + SizeIn(it) <= bio.data
      BY DEF Before, Whole
    <2> QED BY <1>1, <1>5, <2>1
  <1>8. bio_get_uint32(r) = len
    <2>1. 4 <= r.avail
      BY <1>1, <1>5, <1>7
    <2> QED BY <1>6, <2>1, AlignFacts, AtFinds DEF bio_get_uint32, Got
  <1>9. PICK r1 : r1 = bio_get(r, 4)
    OBVIOUS
  <1>10. /\ r1 \in Reader /\ r1.overflow = r.overflow
         /\ r1.data = r.data + 4 /\ r1.avail = r.avail - 4
    <2>1. 4 <= r.avail
      BY <1>1, <1>5, <1>7
    <2> QED BY <1>9, <2>1, AlignFacts, GetMoves
  <1>11. Align(size) <= r1.avail
    BY <1>1, <1>5, <1>7, <1>10
  <1>12. PICK q : q = bio_get(r1, size)
    OBVIOUS
  <1>13. /\ q.overflow = r1.overflow
         /\ q.data = r1.data + Align(size) /\ q.avail = r1.avail - Align(size)
    BY <1>5, <1>10, <1>11, <1>12, GetMoves
  <1>14. AfterGet(r, it.kind) = q
    BY <1>4, <1>8, <1>9, <1>12 DEF AfterGet
  <1>15. GetString(r) = Expected(it)
    <2>1. Got(r1, StrSize(len))
      BY <1>4, <1>11 DEF Got
    <2>2. GetString(r) = IF len = Sentinel THEN Sentinel ELSE At(r1.data, "str")
      BY <1>8, <1>9, <2>1 DEF GetString
    <2>3. CASE IsHuge(it.val)
      BY <1>5, <2>2, <2>3 DEF Expected, IsHuge
    <2>4. CASE ~IsHuge(it.val)
      <3>1. HasCell(bio, r1.data, "str", it.val)
        BY <1>10, <2>4 DEF Before, Whole
      <3>2. At(r1.data, "str") = it.val
        BY <3>1, AtFinds
      <3> QED BY <1>5, <2>2, <2>4, <3>2 DEF Expected, IsHuge
    <2> QED BY <2>3, <2>4
  <1>16. q.data = r.data + SizeIn(it) /\ q.data + q.avail = bio.data
    BY <1>1, <1>5, <1>7, <1>10, <1>13
  <1> QED BY <1>10, <1>13, <1>14, <1>15, <1>16 DEF ReadsWhole, Before, GetValue

\* Whatever kind the item has.
LEMMA ReadItem ==
    ASSUME bio \in Writer, MemOK(bio), NEW r \in Reader, NEW it \in Items, Before(r, it)
    PROVE  ReadsWhole(r, it)
  <1>1. it.kind \in {"u32", "str", "obj", "ref"}
    BY IoAssumption
  <1> QED BY <1>1, ReadU32, ReadObject, ReadString

\* The overflow flag of a receiver is never cleared.
LEMMA OverflowStays ==
    ASSUME bio \in Writer, NEW r \in Reader, r.overflow,
           NEW kind \in {"u32", "str", "obj", "ref"}
    PROVE  AfterGet(r, kind).overflow
  <1>1. CASE kind = "u32"
    BY <1>1, GetMoves DEF AfterGet
  <1>2. CASE kind = "str"
    <2>1. PICK r1 : r1 = bio_get(r, 4)
      OBVIOUS
    <2>2. PICK size : size = StrSize(bio_get_uint32(r))
      OBVIOUS
    <2>3. r1 \in Reader /\ r1.overflow /\ size \in Nat
      BY <2>1, <2>2, GetMoves, WordRead
    <2>4. bio_get(r1, size).overflow
      BY <2>3, GetMoves
    <2> QED BY <1>2, <2>1, <2>2, <2>4 DEF AfterGet
  <1>3. CASE kind \in {"obj", "ref"} /\ AtObject(r)
    BY <1>3, GetMoves DEF AfterGet
  <1>4. CASE kind \in {"obj", "ref"} /\ ~AtObject(r)
    <2>1. AfterGet(r, kind) = [r EXCEPT !.avail = 0, !.overflow = TRUE]
      BY <1>4 DEF AfterGet
    <2> QED BY <2>1 DEF Reader
  <1> QED BY <1>1, <1>2, <1>3, <1>4

\* A receiver that stands before a torn item finds out.
LEMMA ReadTorn ==
    ASSUME bio \in Writer, MemOK(bio), InBounds(bio), NEW r \in Reader, NEW it \in Items,
           r.data + r.avail = bio.data, Torn(bio, it, r.data)
    PROVE  AfterGet(r, it.kind).overflow
  <1>1. /\ r.data \in Nat /\ r.avail \in Nat /\ bio.data \in Nat /\ bio.avail \in Nat
        /\ bio.data + bio.avail = Capacity
        /\ it.kind \in {"u32", "str", "obj", "ref"} /\ it.val \in Word
    BY IoAssumption DEF Reader, Writer, InBounds, Word
  <1>2. r.avail <= Capacity - r.data
    BY <1>1
  <1>3. CASE it.kind = "u32"
    <2>1. ~(4 <= r.avail)
      <3>1. Capacity - r.data < 4
        BY <1>3 DEF Torn
      <3> QED BY <1>1, <1>2, <3>1
    <2>2. bio_get(r, 4).overflow
      BY <2>1, AlignFacts, GetMoves
    <2> QED BY <1>3, <2>2 DEF AfterGet
  <1>4. CASE it.kind = "str"
    <2>1. PICK r1 : r1 = bio_get(r, 4)
      OBVIOUS
    <2>2. PICK size : size = StrSize(bio_get_uint32(r))
      OBVIOUS
    <2>3. r1 \in Reader /\ size \in Nat
      BY <2>1, <2>2, GetMoves, WordRead
    <2>4. AfterGet(r, it.kind) = bio_get(r1, size)
      BY <1>4, <2>1, <2>2 DEF AfterGet
    <2>5. CASE ~(4 <= r.avail)
      <3>1. r1.overflow
        BY <2>1, <2>5, AlignFacts, GetMoves
      <3> QED BY <2>3, <2>4, <3>1, GetMoves
    <2>6. CASE 4 <= r.avail
      <3>1. ~(Capacity - r.data < 4)
        BY <1>1, <1>2, <2>6
      <3>2. /\ ~IsHuge(it.val) /\ HasCell(bio, r.data, "u32", it.val)
            /\ Capacity - r.data - 4 < Align((it.val + 1) * 2)
        BY <1>4, <3>1 DEF Torn
      <3>3. bio_get_uint32(r) = it.val
        BY <2>6, <3>2, AlignFacts, AtFinds DEF bio_get_uint32, Got
      <3>4. size = (it.val + 1) * 2 /\ Align(size) \in Nat
        BY <1>1, <2>2, <3>2, <3>3, StringSizes
      <3>5. r1.avail = r.avail - 4
        BY <2>1, <2>6, AlignFacts, GetMoves
      <3>6. ~(Align(size) <= r1.avail)
        <4>1. PICK n : n = Align(size)
          OBVIOUS
        <4>2. Capacity - r.data - 4 < n /\ n \in Nat
          BY <3>2, <3>4, <4>1
        <4>3. ~(n <= r1.avail)
          BY <1>1, <1>2, <3>5, <4>2
        <4> QED BY <4>1, <4>3
      <3> QED BY <2>3, <2>4, <3>6, GetMoves
    <2> QED BY <2>5, <2>6
  <1>5. CASE it.kind \in {"obj", "ref"}
    <2>1. ~AtObject(r)
      BY <1>5 DEF Torn, IsOffset, AtObject
    <2>2. AfterGet(r, it.kind) = [r EXCEPT !.avail = 0, !.overflow = TRUE]
      BY <1>5, <2>1 DEF AfterGet
    <2> QED BY <2>2 DEF Reader
  <1> QED BY <1>1, <1>3, <1>4, <1>5

-----------------------------------------------------------------------------
(* The invariant: there is a layout, and the receiver is in it.            *)

\* RoundTrip says nothing of the values still to be read, nor of where the
\* receiver stands, so it is not inductive: the layout says what lies ahead of
\* the receiver, and its torn end why the flag is up when something is missing.
LayoutInv ==
    /\ MemOK(bio)
    /\ phase = "call" => ~bio.overflow
    /\ \E g \in 0..Len(items) : \E p \in [Nat -> Nat] : Layout(g, p) /\ ReadUpTo(g, p)

\* The facts of IoInv the layout needs.
LEMMA IoFacts ==
    ASSUME IoInv
    PROVE  /\ bio \in Writer /\ rd \in Reader /\ InBounds(bio)
           /\ items \in Seq(Items) /\ Len(items) \in Nat
           /\ Len(got) \in Nat /\ got \in Seq(Junk..(WordMod - 1))
           /\ phase \in {"put", "refused", "call", "reply"}
  <1> QED BY LenProperties DEF IoInv, TypeOK, CursorsInBounds, InBounds, OffsetsBelow

\* An empty message is a layout of no items.
LEMMA InitLayout == Init => LayoutInv
  <1> SUFFICES ASSUME Init PROVE LayoutInv
    OBVIOUS
  <1>1. bio.data = 0 /\ bio.mem = {} /\ items = <<>> /\ got = <<>> /\ phase = "put"
    BY DEF Init, bio_init
  <1>2. Len(items) = 0
    BY <1>1
  <1>3. PICK p \in [Nat -> Nat] : p[1] = 0
    <2>1. [n \in Nat |-> 0] \in [Nat -> Nat] /\ [n \in Nat |-> 0][1] = 0
      OBVIOUS
    <2> QED BY <2>1
  <1>4. Layout(0, p)
    BY <1>1, <1>2, <1>3 DEF Layout
  <1>5. ReadUpTo(0, p)
    BY <1>1 DEF ReadUpTo
  <1>6. 0 \in 0..Len(items)
    BY <1>2
  <1> QED BY <1>1, <1>4, <1>5, <1>6 DEF LayoutInv, MemOK

\* A put extends a layout that is whole by an item, whole or torn, and leaves
\* one that is torn as it is.
LEMMA PutLayout ==
    ASSUME IoInv, IoInv', LayoutInv, PutStep
    PROVE  LayoutInv'
  <1>1. PICK it \in Items : items' = Append(items, it) /\ bio' = PutItem(bio, it)
    BY DEF PutStep
  <1>2. phase = "put" /\ phase' = "put" /\ rd' = rd /\ got' = got
    BY DEF PutStep
  <1>3. PICK g \in 0..Len(items) : \E p \in [Nat -> Nat] : Layout(g, p) /\ ReadUpTo(g, p)
    BY DEF LayoutInv
  <1>4. PICK p \in [Nat -> Nat] : Layout(g, p) /\ ReadUpTo(g, p)
    BY <1>3
  <1>5. /\ bio \in Writer /\ InBounds(bio) /\ items \in Seq(Items) /\ Len(items) \in Nat
        /\ bio' \in Writer /\ InBounds(bio')
    <2>1. bio' \in Writer /\ InBounds(bio')
      BY DEF IoInv, TypeOK, CursorsInBounds, InBounds, OffsetsBelow
    <2> QED BY <2>1, IoFacts
  <1>6. Leaves(bio, it, bio')
    BY <1>1, <1>5, PutItemLeaves
  <1>7. Keeps(bio, bio')
    BY <1>6 DEF Leaves
  <1>8. MemOK(bio')
    BY <1>7 DEF Keeps, LayoutInv
  <1>9. PICK n \in Nat : n = Len(items)
    BY <1>5
  <1>10. /\ Len(items') = n + 1 /\ items'[n + 1] = it
         /\ \A i \in 1..n : items'[i] = items[i] /\ items[i] \in Items
    <2>1. \A i \in 1..n : items[i] \in Items
      BY <1>5, <1>9, ElementOfSeq
    <2> QED BY <1>1, <1>5, <1>9, <2>1, AppendProperties
  <1>11. g \in Nat /\ g <= n
    BY <1>9
  <1>12. \A i \in 1..g : Whole(bio', items'[i], p[i]) /\ p[i + 1] = p[i] + SizeIn(items'[i])
    <2>1. ASSUME NEW i \in 1..g
          PROVE  Whole(bio', items'[i], p[i]) /\ p[i + 1] = p[i] + SizeIn(items'[i])
      <3>1. i \in 1..n /\ i \in Nat /\ p[i] \in Nat
        BY <1>11
      <3>2. Whole(bio, items[i], p[i]) /\ p[i + 1] = p[i] + SizeIn(items[i])
        BY <1>4 DEF Layout
      <3> QED BY <1>5, <1>7, <1>10, <3>1, <3>2, WholeStays
    <2> QED BY <2>1
  <1>13. p[1] = 0 /\ p[g + 1] \in Nat
    BY <1>4, <1>11 DEF Layout
  <1>14. got = <<>>
    BY <1>2, <1>4 DEF ReadUpTo
  <1>15. CASE g < n
    <2>1. /\ Torn(bio, items[g + 1], p[g + 1])
          /\ bio.overflow \/ IsZeroRef(items[g + 1])
      BY <1>4, <1>9, <1>15 DEF Layout
    <2>2. items'[g + 1] = items[g + 1] /\ items[g + 1] \in Items
      <3>1. g + 1 \in 1..n
        BY <1>11, <1>15
      <3> QED BY <1>10, <3>1
    <2>3. Torn(bio', items'[g + 1], p[g + 1])
      BY <1>5, <1>7, <1>13, <2>1, <2>2, TornStays
    <2>4. bio'.overflow \/ IsZeroRef(items'[g + 1])
      BY <1>7, <2>1, <2>2 DEF Keeps
    <2>5. g # n + 1 /\ g \in 0..(n + 1)
      BY <1>11
    <2>6. Layout(g, p)'
      BY <1>10, <1>12, <1>13, <2>3, <2>4, <2>5 DEF Layout
    <2>7. ReadUpTo(g, p)'
      BY <1>2, <1>14 DEF ReadUpTo
    <2> QED BY <1>2, <1>8, <1>10, <2>5, <2>6, <2>7 DEF LayoutInv
  <1>16. CASE g = n
    <2>1. p[g + 1] = bio.data
      BY <1>4, <1>9, <1>16 DEF Layout
    <2>2. CASE Torn(bio', it, bio.data) /\ (bio'.overflow \/ IsZeroRef(it))
      <3>1. g # n + 1 /\ g \in 0..(n + 1)
        BY <1>11, <1>16
      <3>2. Layout(g, p)'
        BY <1>10, <1>12, <1>13, <1>16, <2>1, <2>2, <3>1 DEF Layout
      <3>3. ReadUpTo(g, p)'
        BY <1>2, <1>14 DEF ReadUpTo
      <3> QED BY <1>2, <1>8, <1>10, <3>1, <3>2, <3>3 DEF LayoutInv
    <2>3. CASE Whole(bio', it, bio.data) /\ bio'.data = bio.data + SizeIn(it)
      <3>1. bio'.data \in Nat
        BY <1>5 DEF Writer
      <3>2. PICK q : q = [p EXCEPT ![n + 2] = bio'.data]
        OBVIOUS
      <3>3. /\ q \in [Nat -> Nat] /\ q[n + 2] = bio'.data
            /\ \A i \in Nat : i # n + 2 => q[i] = p[i]
        <4>1. PICK e \in Nat : e = bio'.data
          BY <3>1
        <4>2. PICK m \in Nat : m = n + 2
          OBVIOUS
        <4>3. q = [p EXCEPT ![m] = e]
          BY <3>2, <4>1, <4>2
        <4>4. q \in [Nat -> Nat] /\ q[m] = e /\ \A i \in Nat : i # m => q[i] = p[i]
          BY ONLY p \in [Nat -> Nat], e \in Nat, m \in Nat, <4>3
        <4> QED BY <4>1, <4>2, <4>4
      <3>4. q[1] = 0 /\ q[n + 1] = bio.data /\ q[(n + 1) + 1] = bio'.data
        BY <1>13, <1>16, <2>1, <3>3
      <3>5. ASSUME NEW i \in 1..(n + 1)
            PROVE  Whole(bio', items'[i], q[i]) /\ q[i + 1] = q[i] + SizeIn(items'[i])
        <4>1. CASE i = n + 1
          BY <1>10, <2>3, <3>4, <4>1
        <4>2. CASE i # n + 1
          <5>1. i \in 1..g /\ q[i] = p[i] /\ q[i + 1] = p[i + 1]
            <6>1. i \in Nat /\ i + 1 \in Nat /\ i # n + 2 /\ i + 1 # n + 2 /\ i \in 1..n
              BY <4>2
            <6> QED BY <1>16, <3>3, <6>1
          <5> QED BY <1>12, <5>1
        <4> QED BY <4>1, <4>2
      <3>6. Layout(n + 1, q)'
        BY <1>10, <3>4, <3>5 DEF Layout
      <3>7. ReadUpTo(n + 1, q)'
        BY <1>2, <1>14 DEF ReadUpTo
      <3>8. n + 1 \in 0..(n + 1)
        OBVIOUS
      <3> QED BY <1>2, <1>8, <1>10, <3>3, <3>6, <3>7, <3>8 DEF LayoutInv
    <2> QED BY <1>6, <2>2, <2>3 DEF Leaves
  <1> QED BY <1>11, <1>15, <1>16

\* binder_call and binder_send_reply put the receiver before the first item.
LEMMA SendLayout ==
    ASSUME IoInv, LayoutInv, BinderCall \/ BinderSendReply
    PROVE  LayoutInv'
  <1>1. /\ phase = "put" /\ phase' \in {"call", "reply"}
        /\ phase' = "call" => ~bio.overflow
        /\ rd' = bio_init_from_txn /\ bio' = bio /\ items' = items /\ got' = got
    BY DEF BinderCall, BinderSendReply
  <1>2. PICK g \in 0..Len(items) : \E p \in [Nat -> Nat] : Layout(g, p) /\ ReadUpTo(g, p)
    BY DEF LayoutInv
  <1>3. PICK p \in [Nat -> Nat] : Layout(g, p) /\ ReadUpTo(g, p)
    BY <1>2
  <1>4. got = <<>> /\ p[1] = 0
    BY <1>1, <1>3 DEF ReadUpTo, Layout
  <1>5. Len(got') = 0 /\ 0 <= g
    BY <1>1, <1>4, IoFacts
  <1>6. ~rd'.overflow /\ rd'.data = 0 /\ rd'.avail = bio.data
    BY <1>1 DEF bio_init_from_txn
  <1>7. rd'.data + rd'.avail = bio'.data
    BY <1>1, <1>6, IoFacts DEF Writer
  <1>8. ReadUpTo(g, p)'
    BY <1>1, <1>4, <1>5, <1>6, <1>7 DEF ReadUpTo
  <1>9. Layout(g, p)'
    BY <1>1, <1>3 DEF Layout
  <1> QED BY <1>1, <1>8, <1>9 DEF LayoutInv, MemOK

\* A read takes the receiver over a whole item, or raises its flag at the
\* torn one.
LEMMA GetLayout ==
    ASSUME IoInv, LayoutInv, GetStep
    PROVE  LayoutInv'
  <1>1. PICK k \in Nat : k = Len(got)
    BY IoFacts
  <1>2. PICK it : it = items[k + 1]
    OBVIOUS
  <1>3. /\ phase \in {"call", "reply"} /\ phase' = phase /\ bio' = bio /\ items' = items
        /\ k < Len(items)
        /\ rd' = AfterGet(rd, it.kind) /\ got' = Append(got, GetValue(rd, it.kind))
    BY <1>1, <1>2 DEF GetStep
  <1>4. it \in Items /\ it.kind \in {"u32", "str", "obj", "ref"}
    <2>1. k + 1 \in 1..Len(items)
      BY <1>3, IoFacts
    <2>2. it \in Items
      BY <1>2, <2>1, IoFacts, ElementOfSeq
    <2> QED BY <2>2, IoAssumption
  <1>5. PICK g \in 0..Len(items) : \E p \in [Nat -> Nat] : Layout(g, p) /\ ReadUpTo(g, p)
    BY DEF LayoutInv
  <1>6. PICK p \in [Nat -> Nat] : Layout(g, p) /\ ReadUpTo(g, p)
    BY <1>5
  <1>7. Layout(g, p)'
    BY <1>3, <1>6 DEF Layout
  <1>8. g \in Nat /\ bio \in Writer /\ rd \in Reader /\ InBounds(bio) /\ MemOK(bio)
    BY <1>5, IoFacts DEF LayoutInv
  <1>9. ASSUME ReadUpTo(g, p)' PROVE LayoutInv'
    BY <1>3, <1>7, <1>8, <1>9 DEF LayoutInv
  <1>10. CASE rd.overflow
    <2>1. rd'.overflow
      BY <1>3, <1>4, <1>8, <1>10, OverflowStays
    <2>2. g < Len(items')
      BY <1>3, <1>6, <1>10 DEF ReadUpTo
    <2>3. ReadUpTo(g, p)'
      BY <1>3, <2>1, <2>2 DEF ReadUpTo
    <2> QED BY <1>9, <2>3
  <1>11. CASE ~rd.overflow
    <2>1. /\ k <= g /\ rd.data = p[k + 1] /\ rd.data + rd.avail = bio.data
          /\ \A i \in 1..k : got[i] = Expected(items[i])
      BY <1>1, <1>3, <1>6, <1>11 DEF ReadUpTo
    <2>2. CASE k = g
      <3>1. Torn(bio, it, rd.data)
        BY <1>2, <1>3, <1>6, <2>1, <2>2 DEF Layout
      <3>2. rd'.overflow
        BY <1>3, <1>4, <1>8, <2>1, <3>1, ReadTorn
      <3>3. g < Len(items')
        BY <1>3, <2>2
      <3>4. ReadUpTo(g, p)'
        BY <1>3, <3>2, <3>3 DEF ReadUpTo
      <3> QED BY <1>9, <3>4
    <2>3. CASE k # g
      <3>1. k + 1 \in 1..g
        BY <1>8, <2>1, <2>3
      <3>2. Whole(bio, it, rd.data) /\ p[(k + 1) + 1] = rd.data + SizeIn(it)
        BY <1>2, <1>6, <2>1, <3>1 DEF Layout
      <3>3. ReadsWhole(rd, it)
        BY <1>4, <1>8, <1>11, <2>1, <3>2, ReadItem DEF Before
      <3>4. /\ ~rd'.overflow /\ rd'.data = p[(k + 1) + 1] /\ rd'.data + rd'.avail = bio'.data
            /\ GetValue(rd, it.kind) = Expected(it)
        BY <1>3, <3>2, <3>3 DEF ReadsWhole
      <3>5. GetValue(rd, it.kind) \in Junk..(WordMod - 1)
        <4>1. Word \cup {Junk} \subseteq Junk..(WordMod - 1)
          BY IoAssumption DEF Word, Junk
        <4> QED BY <4>1, <1>4, <1>8, GetValueType
      <3>6. /\ Len(got') = k + 1 /\ got'[k + 1] = Expected(it)
            /\ \A i \in 1..k : got'[i] = got[i]
        <4>1. got \in Seq(Junk..(WordMod - 1))
          BY IoFacts
        <4> QED BY <1>1, <1>3, <3>4, <3>5, <4>1, AppendProperties
      <3>7. \A i \in 1..(k + 1) : got'[i] = Expected(items'[i])
        <4>1. ASSUME NEW i \in 1..(k + 1) PROVE got'[i] = Expected(items'[i])
          <5>1. CASE i = k + 1
            BY <1>2, <1>3, <3>6, <5>1
          <5>2. CASE i # k + 1
            <6>1. i \in 1..k
              BY <5>2
            <6> QED BY <1>3, <2>1, <3>6, <6>1
          <5> QED BY <5>1, <5>2
        <4> QED BY <4>1
      <3>8. k + 1 <= g
        BY <3>1, <1>8
      <3>9. ReadUpTo(g, p)'
        BY <1>3, <3>4, <3>6, <3>7, <3>8 DEF ReadUpTo
      <3> QED BY <1>9, <3>9
    <2> QED BY <2>2, <2>3
  <1> QED BY <1>10, <1>11

\* Every step keeps the layout and the receiver in it.
LEMMA NextLayout == IoInv /\ IoInv' /\ LayoutInv /\ [Next]_vars => LayoutInv'
  <1> SUFFICES ASSUME IoInv, IoInv', LayoutInv, [Next]_vars PROVE LayoutInv'
    OBVIOUS
  <1>1. CASE Refuse
    BY <1>1 DEF Refuse, LayoutInv, Layout, ReadUpTo, MemOK
  <1>2. CASE UNCHANGED vars
    BY <1>2 DEF vars, LayoutInv, Layout, ReadUpTo, MemOK
  <1> QED BY <1>1, <1>2, PutLayout, SendLayout, GetLayout DEF Next

\* The layout holds throughout.
LEMMA LayoutAlways == Spec => [](IoInv /\ LayoutInv)
  <1> QED BY InitIo, NextIo, InitLayout, NextLayout, PTL DEF Spec

\* In a layout the receiver has the expected values as long as its flag is
\* down, whichever way the message was sent.
LEMMA LayoutReadsRight ==
    ASSUME IoInv, LayoutInv, phase \in {"call", "reply"}, ~rd.overflow
    PROVE  \A i \in DOMAIN got : got[i] = Expected(items[i])
  <1>1. DOMAIN got = 1..Len(got)
    BY IoFacts, LenProperties
  <1> QED BY <1>1 DEF LayoutInv, ReadUpTo

\* Whatever is put, in whatever buffer, and sent by binder_call: reading the
\* same kinds in the same order gives back every value, null and huge strings
\* as null strings, unless a reference with handle 0 was put.  The alignment
\* of writer and reader, the cell an object takes when its offset is missing,
\* and the size of a null string that wraps to nothing do not get in the way.
THEOREM RoundTripHolds == Spec => []RoundTrip
  <1>1. ASSUME IoInv, LayoutInv, phase = "call",
               \A i \in DOMAIN items : items[i] # [kind |-> "ref", val |-> 0]
        PROVE  \A i \in DOMAIN got : got[i] = Expected(items[i])
    <2>1. PICK g \in 0..Len(items) : \E p \in [Nat -> Nat] : Layout(g, p) /\ ReadUpTo(g, p)
      BY <1>1 DEF LayoutInv
    <2>2. PICK p \in [Nat -> Nat] : Layout(g, p) /\ ReadUpTo(g, p)
      BY <2>1
    <2>3. ~(g < Len(items))
      <3>1. ASSUME g < Len(items) PROVE FALSE
        <4>1. IsZeroRef(items[g + 1])
          BY <1>1, <2>2, <3>1 DEF Layout, LayoutInv
        <4>2. g + 1 \in 1..Len(items) /\ g + 1 \in DOMAIN items /\ items[g + 1] \in Items
          <5>1. g + 1 \in 1..Len(items)
            BY <1>1, <2>1, <3>1, IoFacts
          <5> QED BY <1>1, <5>1, IoFacts, LenProperties, ElementOfSeq
        <4>3. items[g + 1] = [kind |-> "ref", val |-> 0]
          BY <4>1, <4>2, IoAssumption DEF IsZeroRef
        <4> QED BY <1>1, <4>2, <4>3
      <3> QED BY <3>1
    <2>4. ~rd.overflow
      BY <1>1, <2>2, <2>3 DEF ReadUpTo
    <2> QED BY <1>1, <2>4, LayoutReadsRight
  <1>2. IoInv /\ LayoutInv => RoundTrip
    BY <1>1 DEF RoundTrip
  <1> QED BY <1>2, LayoutAlways, PTL

\* A reply goes out also when it overflowed: the receiver still never takes a
\* wrong value for a right one, for its own flag is up by then.
THEOREM TruncationIsNoticed == Spec => []TruncationNoticed
  <1>1. IoInv /\ LayoutInv => TruncationNoticed
    BY LayoutReadsRight DEF TruncationNoticed
  <1> QED BY <1>1, LayoutAlways, PTL
===============================================================================
