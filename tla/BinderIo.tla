------------------------------- MODULE BinderIo -------------------------------
(***************************************************************************)
(* The message codec of BinderServicemanager/c/binder.c: bio_init, the     *)
(* bio_put_* and bio_get_* functions, what binder_call and                 *)
(* binder_send_reply make of a buffer that overflowed, and the cursor      *)
(* bio_init_from_txn gives the receiver.                                   *)
(*                                                                         *)
(* Positions and sizes are bytes, relative to data0.  The memory is kept   *)
(* as cells, a value at the position where it starts: reading at another   *)
(* position, or another kind of value, gives junk.                         *)
(***************************************************************************)
EXTENDS Integers, SequencesExt

CONSTANTS
    MaxData,    \* bytes given to bio_init
    MaxOffs,    \* object offsets given to bio_init
    Items,      \* the values written: [kind, val]
    MaxItems,   \* bound: values in a message
    WordMod     \* what a 32-bit unsigned wraps at; 2^32 in the build

ASSUME IoAssumption ==
    /\ MaxData \in Nat
    /\ MaxOffs \in Nat
    /\ MaxItems \in Nat
    /\ WordMod \in Nat
    /\ WordMod > 8 * MaxData
    /\ WordMod > 128
    /\ WordMod % 8 = 0
    /\ Items \subseteq [kind : {"u32", "str", "obj", "ref"}, val : 0..(WordMod - 1)]

Sentinel == WordMod - 1         \* 0xffffffff, the length of a null string
MAX_BIO_SIZE == WordMod \div 4  \* 1 << 30

VARIABLES
    phase,      \* "put", then "call", "reply" or "refused"
    items,      \* what has been put so far
    bio,        \* the sender's binder_io
    rd,         \* the receiver's binder_io
    got         \* what the receiver has read so far

vars == <<phase, items, bio, rd, got>>

\* (size + 3) & ~3 in 32-bit arithmetic.
Align(size) == LET s == (size + 3) % WordMod IN s - (s % 4)

Cell(at, kind, val) == [at |-> at, kind |-> kind, val |-> val]

-----------------------------------------------------------------------------
(* Writing.                                                                *)

bio_init ==
    LET n == MaxOffs * 4 IN
    [data |-> 0, avail |-> IF n > MaxData THEN 0 ELSE MaxData - n,
     offs |-> <<>>, offs_avail |-> IF n > MaxData THEN 0 ELSE MaxOffs,
     overflow |-> n > MaxData, mem |-> {}]

Fits(b, size) == Align(size) <= b.avail

\* Mutant: bio_alloc without its check.
PutUnchecked(b, size, cells) ==
    [b EXCEPT !.data = @ + Align(size), !.avail = @ - Align(size),
              !.mem = @ \cup cells]

\* Mutant: bio_alloc forgets to count down.
PutKeepsAvail(b, size, cells) ==
    IF Fits(b, size)
    THEN [b EXCEPT !.data = @ + Align(size), !.mem = @ \cup cells]
    ELSE [b EXCEPT !.overflow = TRUE]

\* bio_alloc, and the value stored through the pointer it returns.
Put(b, size, cells) ==
    IF Fits(b, size)
    THEN [b EXCEPT !.data = @ + Align(size), !.avail = @ - Align(size),
                   !.mem = @ \cup cells]
    ELSE [b EXCEPT !.overflow = TRUE]

bio_put_uint32(b, n) == Put(b, 4, {Cell(b.data, "u32", n)})

\* An object with its offset.  When only the offsets have run out, the space
\* is taken but left as it was.
PutObject(b, h) ==
    IF Fits(b, 16) /\ b.offs_avail > 0
    THEN [Put(b, 16, {Cell(b.data, "obj", h)})
            EXCEPT !.offs_avail = @ - 1, !.offs = Append(@, b.data)]
    ELSE [Put(b, 16, {}) EXCEPT !.overflow = TRUE]

\* bio_put_ref: handle 0 goes without an offset.
bio_put_ref(b, h) ==
    IF h # 0 THEN PutObject(b, h) ELSE Put(b, 16, {Cell(b.data, "obj", h)})

\* bio_put_string16 and bio_put_string16_x: the length, then the characters
\* with their final zero; the sentinel alone for a null or huge string.
bio_put_string16(b, len) ==
    IF len >= MAX_BIO_SIZE \div 2
    THEN bio_put_uint32(b, Sentinel)
    ELSE LET b1 == bio_put_uint32(b, len)
         IN  Put(b1, (len + 1) * 2, {Cell(b1.data, "str", len)})

PutItem(b, it) ==
    CASE it.kind = "u32" -> bio_put_uint32(b, it.val)
      [] it.kind = "str" -> bio_put_string16(b, it.val)
      [] it.kind = "obj" -> PutObject(b, it.val)
      [] it.kind = "ref" -> bio_put_ref(b, it.val)

-----------------------------------------------------------------------------
(* Reading.  A result is [ptr, val]: whether the pointer is null, and what *)
(* is behind it.                                                           *)

Junk == -1
At(pos, kind) ==
    IF \E c \in bio.mem : c.at = pos /\ c.kind = kind
    THEN (CHOOSE c \in bio.mem : c.at = pos /\ c.kind = kind).val
    ELSE Junk

bio_init_from_txn == [data |-> 0, avail |-> bio.data, overflow |-> FALSE]

\* bio_get: the cursor after asking for size bytes.
Got(r, size) == Align(size) <= r.avail

\* Mutant: the reader forgets to round the size up.
bio_get_unaligned(r, size) ==
    IF Got(r, size)
    THEN [r EXCEPT !.data = @ + size, !.avail = @ - size]
    ELSE [r EXCEPT !.avail = 0, !.overflow = TRUE]

\* Mutant: the reader runs out of data and does not say so.
bio_get_silent(r, size) ==
    IF Got(r, size)
    THEN [r EXCEPT !.data = @ + Align(size), !.avail = @ - Align(size)]
    ELSE [r EXCEPT !.avail = 0]

bio_get(r, size) ==
    IF Got(r, size)
    THEN [r EXCEPT !.data = @ + Align(size), !.avail = @ - Align(size)]
    ELSE [r EXCEPT !.avail = 0, !.overflow = TRUE]

bio_get_uint32(r) == IF Got(r, 4) THEN At(r.data, "u32") ELSE 0

\* bio_get_string16: the size of the characters wraps for the sentinel.
StrSize(len) == ((len + 1) * 2) % WordMod

\* _bio_get_obj: only at an offset the sender recorded.
AtObject(r) == \E i \in DOMAIN bio.offs : bio.offs[i] = r.data
bio_get_ref(r) ==
    IF AtObject(r) /\ Got(r, 16) THEN At(r.data, "obj") ELSE 0

\* The cursor and the value after reading a value of some kind.
AfterGet(r, kind) ==
    CASE kind = "u32" -> bio_get(r, 4)
      [] kind = "str" -> bio_get(bio_get(r, 4), StrSize(bio_get_uint32(r)))
      [] kind \in {"obj", "ref"} ->
            IF AtObject(r) THEN bio_get(r, 16)
            ELSE [r EXCEPT !.avail = 0, !.overflow = TRUE]

\* A string is the characters behind the pointer; a null string arrives as a
\* pointer with the sentinel for its length.
GetString(r) ==
    LET len == bio_get_uint32(r)
        r1 == bio_get(r, 4)
    IN  IF ~Got(r1, StrSize(len)) THEN 0
        ELSE IF len = Sentinel THEN Sentinel ELSE At(r1.data, "str")

GetValue(r, kind) ==
    CASE kind = "u32" -> bio_get_uint32(r)
      [] kind = "str" -> GetString(r)
      [] kind \in {"obj", "ref"} -> bio_get_ref(r)

-----------------------------------------------------------------------------
Init ==
    /\ phase = "put"
    /\ items = <<>>
    /\ bio = bio_init
    /\ rd = [data |-> 0, avail |-> 0, overflow |-> FALSE]
    /\ got = <<>>

PutStep ==
    /\ phase = "put"
    /\ Len(items) < MaxItems
    /\ \E it \in Items :
        /\ items' = Append(items, it)
        /\ bio' = PutItem(bio, it)
    /\ UNCHANGED <<phase, rd, got>>

\* binder_call does not send a buffer that overflowed.
Refuse ==
    /\ phase = "put"
    /\ bio.overflow
    /\ phase' = "refused"
    /\ UNCHANGED <<items, bio, rd, got>>

BinderCall ==
    /\ phase = "put"
    /\ ~bio.overflow
    /\ phase' = "call"
    /\ rd' = bio_init_from_txn
    /\ UNCHANGED <<items, bio, got>>

\* binder_send_reply sends what there is.
BinderSendReply ==
    /\ phase = "put"
    /\ phase' = "reply"
    /\ rd' = bio_init_from_txn
    /\ UNCHANGED <<items, bio, got>>

\* The receiver reads the kinds the sender wrote, in order.
GetStep ==
    /\ phase \in {"call", "reply"}
    /\ Len(got) < Len(items)
    /\ LET kind == items[Len(got) + 1].kind IN
        /\ rd' = AfterGet(rd, kind)
        /\ got' = Append(got, GetValue(rd, kind))
    /\ UNCHANGED <<phase, items, bio>>

Next == PutStep \/ Refuse \/ BinderCall \/ BinderSendReply \/ GetStep

Spec == Init /\ [][Next]_vars

-----------------------------------------------------------------------------
(* Properties.                                                              *)

Capacity == IF MaxOffs * 4 > MaxData THEN 0 ELSE MaxData - MaxOffs * 4

Word == 0..(WordMod - 1)
Cells == [at : Nat, kind : {"u32", "str", "obj"}, val : Word]
Writer == [data : Nat, avail : Nat, offs : Seq(Nat), offs_avail : Nat,
           overflow : BOOLEAN, mem : SUBSET Cells]
Reader == [data : Nat, avail : Nat, overflow : BOOLEAN]

TypeOK ==
    /\ phase \in {"put", "refused", "call", "reply"}
    /\ items \in Seq(Items)
    /\ bio \in Writer
    /\ rd \in Reader
    /\ got \in Seq(Junk..(WordMod - 1))

\* The cursors stay in their buffers, whatever is put and whatever is read:
\* bytes used and bytes left add up, offsets point below the end, and the
\* reader never passes what was sent.
CursorsInBounds ==
    /\ bio.avail >= 0 /\ bio.offs_avail >= 0 /\ rd.avail >= 0
    /\ bio.data + bio.avail = Capacity
    /\ Len(bio.offs) + bio.offs_avail <= MaxOffs
    /\ \A i \in DOMAIN bio.offs : bio.offs[i] + 16 <= bio.data
    /\ rd.data + rd.avail <= bio.data

\* What the reader should have for an item.
Expected(it) ==
    IF it.kind = "str" /\ it.val >= MAX_BIO_SIZE \div 2 THEN Sentinel ELSE it.val

\* A message binder_call lets through is read back as it was written.
RoundTrip ==
    phase = "call" /\ (\A i \in DOMAIN items : items[i] # [kind |-> "ref", val |-> 0])
    => \A i \in DOMAIN got : got[i] = Expected(items[i])

\* A reply that overflowed goes out all the same; the receiver then reads
\* right values up to the cut, and its overflow flag is up as soon as one is
\* not right: no truncated reply passes for another one.
TruncationNoticed ==
    phase = "reply" /\ ~rd.overflow
    => \A i \in DOMAIN got : got[i] = Expected(items[i])
===============================================================================
