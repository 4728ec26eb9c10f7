------------------------------- MODULE Buffer -------------------------------
(***************************************************************************)
(* BufferImpl (src/buffer.cc, src/buffer-internal.h): a list of heap       *)
(* extents, each with a read and a write offset, and a byte count size_    *)
(* that is kept beside them.  One action per public method.  The doubly    *)
(* linked list is a sequence (listAppend and listPrepend concatenate);     *)
(* size_t arithmetic wraps at SizeMod.                                     *)
(*                                                                         *)
(* The code supports less than its interface offers, so the callers are a  *)
(* parameter.  Careful callers fill a reservation with one append of       *)
(* exactly its size before they use the buffer otherwise, prepend to a     *)
(* partly consumed buffer exactly as many bytes as were consumed of its    *)
(* first extent, and read or peek within the first extent or everything.   *)
(***************************************************************************)
EXTENDS Integers, SequencesExt

CONSTANTS
  Buffers,
  MaxBytes,    \* bound: bytes handed in by callers
  MaxChunk,    \* bound: bytes per call
  MaxExtents,  \* bound: extents of a list
  SizeMod,     \* 2^64 in the code
  Careful      \* callers keep to the uses described above

ASSUME BufferAssumption ==
  /\ MaxBytes \in Nat /\ MaxChunk \in Nat /\ MaxExtents \in Nat
  /\ SizeMod \in Nat /\ SizeMod > 4 * MaxBytes + 4 * MaxChunk
  /\ Careful \in BOOLEAN

VARIABLES
  exts,  \* the extents of each buffer, front first
  size,  \* size_
  last,  \* the call made last and what it delivered
  used   \* bytes handed in so far; the i-th byte is the number i

vars == <<exts, size, last, used>>

Uninitialised == 0
Sub(m, n) == (m - n) % SizeMod
SizeMax == SizeMod - 1
Lesser(m, n) == IF m <= n THEN m ELSE n
Input(k) == [i \in 1..k |-> used + i]

-----------------------------------------------------------------------------
(* InternalExtent *)

NewExtent(n) ==
  [size |-> n, data |-> [i \in 1..n |-> Uninitialised], ro |-> 0, wo |-> 0]

Appendable(e) == Sub(e.size, e.wo)
Prependable(e) == e.ro
Readable(e) == Sub(e.size, e.ro)

\* InternalExtent::append.  The room left is computed as write_offset - size,
\* which wraps: it is 0 for a full extent and huge for any other.  What falls
\* behind the end of the extent is not stored in it.
RoomSeen(e) == Sub(e.wo, e.size)

ExtentAppend(e, chunk) ==
  LET n == Lesser(RoomSeen(e), Len(chunk))
  IN [e EXCEPT !.wo = @ + n,
               !.data = [i \in 1..e.size |->
                           IF i \in e.wo + 1 .. e.wo + n THEN chunk[i - e.wo] ELSE @[i]]]

\* InternalExtent::prepend copies to the start of the extent.
ExtentPrepend(e, chunk) ==
  LET n == Lesser(e.ro, Len(chunk))
  IN [e EXCEPT !.ro = @ - n,
               !.data = [i \in 1..e.size |-> IF i <= n THEN chunk[i] ELSE @[i]]]

CopyOut(e, n) == SubSeq(e.data, e.ro + 1, e.ro + Lesser(n, Readable(e)))

Consume(e, n) == [e EXCEPT !.ro = @ + n]

\* The list after n bytes of its next extent e were consumed: an extent with
\* nothing left to read is deleted.
KeepUnlessConsumed(kept, e, n) ==
  IF Readable(e) = n THEN kept ELSE Append(kept, Consume(e, n))

-----------------------------------------------------------------------------
(* BufferImpl *)

\* Room behind the data, before the data and in the first extent to read.
Room(list) == IF list = <<>> THEN 0 ELSE Appendable(Last(list))
Hole(list) == IF list = <<>> THEN 0 ELSE Prependable(Head(list))
FirstReadable(list) == IF list = <<>> THEN 0 ELSE Readable(Head(list))

Filled(chunk) == ExtentAppend(NewExtent(Len(chunk)), chunk)

\* append(buf, size): to the last extent if it has room, else to a new one.
\* `while (remain > size)' never repeats.
Appended(list, chunk) ==
  IF Room(list) = 0
    THEN Append(list, Filled(chunk))
    ELSE Append(Front(list), ExtentAppend(Last(list), chunk))

\* prepend(buf, size): first into the room before read_offset, then a new
\* extent for what remains; buf is not advanced in between.
Prepended(list, chunk) ==
  IF Hole(list) = 0
    THEN <<Filled(chunk)>> \o list
    ELSE LET n == Lesser(Hole(list), Len(chunk))
             first == <<ExtentPrepend(Head(list), chunk)>> \o Tail(list)
         IN IF n = Len(chunk) THEN first
            ELSE <<Filled(SubSeq(chunk, 1, Len(chunk) - n))>> \o first

\* What drain() consumes of an extent.
ConsumeAll(remain, e) == remain
ToConsume(remain, e) == Lesser(remain, Readable(e))

\* drain(count): the extents that stay and the part of count not used up.
Drained(list, count) ==
  LET Visit(acc, e) ==
        LET n == ToConsume(acc.remain, e)
        IN IF acc.remain = 0 THEN [acc EXCEPT !.kept = Append(@, e)]
           ELSE [kept |-> KeepUnlessConsumed(acc.kept, e, n),
                 remain |-> acc.remain - n]
  IN FoldLeft(Visit, [kept |-> <<>>, remain |-> count], list)

\* What drain(count) takes off size_.
WholeCount(list, count) == count
DrainedCount(list, count) == count - Drained(list, count).remain

\* read(buf, size, nread, consume): every extent is asked for `size' bytes,
\* whatever was copied before.
ReadOut(list, n) ==
  LET Visit(acc, e) ==
        LET bytes == CopyOut(e, n)
        IN IF Len(acc.bytes) >= n THEN [acc EXCEPT !.kept = Append(@, e)]
           ELSE [kept |-> KeepUnlessConsumed(acc.kept, e, Len(bytes)),
                 bytes |-> acc.bytes \o bytes]
  IN FoldLeft(Visit, [kept |-> <<>>, bytes |-> <<>>], list)

\* The bytes peek(size, extents) grants of an extent with `avail' readable
\* bytes when `total' bytes were passed before it.
GrantAll(avail, n, total) == avail
Grant(avail, n, total) == Lesser(avail, n - total)

\* peek(size, extents): the bytes of the extents it returns.
PeekExtents(list, n) ==
  LET Visit(acc, e) ==
        IF acc.total >= n THEN acc
        ELSE [total |-> acc.total + Readable(e),
              bytes |-> acc.bytes \o CopyOut(e, Grant(Readable(e), n, acc.total))]
  IN FoldLeft(Visit, [total |-> 0, bytes |-> <<>>], list).bytes

\* reserve(size): `required' wraps when the last extent has more room than
\* that, and then the allocation throws std::bad_alloc.
Required(list, n) == Sub(n, Room(list))

\* listAppend and listPrepend of a whole list.
SplicedBack(list, other) == list \o other
SplicedFront(list, other) == other \o list

-----------------------------------------------------------------------------
(* What the callers may do *)

\* No reservation is open.
Settled(b) == \A k \in DOMAIN exts[b] : exts[b][k].wo = exts[b][k].size

FillsReservation(b, k) == Room(exts[b]) \in {0, k}
FillsHole(b, k) == Hole(exts[b]) \in {0, k}
SimpleRead(b, n) == n >= size[b] \/ n <= FirstReadable(exts[b])

-----------------------------------------------------------------------------
\* The record of a call of f on buffer b with argument n.
Made(f, b, n, bytes) == [call |-> f, on |-> b, asked |-> n, bytes |-> bytes]

Init ==
  /\ exts = [b \in Buffers |-> <<>>]
  /\ size = [b \in Buffers |-> 0]
  /\ last = <<>>
  /\ used = 0

\* append(const char*, size_t) and append(std::string const&)
AppendBytes(b, k) ==
  /\ Careful => FillsReservation(b, k)
  /\ used + k <= MaxBytes /\ Len(exts[b]) < MaxExtents
  /\ exts' = [exts EXCEPT ![b] = Appended(@, Input(k))]
  /\ size' = [size EXCEPT ![b] = @ + k]
  /\ used' = used + k
  /\ last' = Made("append", b, k, <<>>)

\* prepend(const char*, size_t) and prepend(std::string const&)
PrependBytes(b, k) ==
  /\ Careful => Settled(b) /\ FillsHole(b, k)
  /\ used + k <= MaxBytes /\ Len(exts[b]) < MaxExtents
  /\ exts' = [exts EXCEPT ![b] = Prepended(@, Input(k))]
  /\ size' = [size EXCEPT ![b] = @ + k]
  /\ used' = used + k
  /\ last' = Made("prepend", b, k, <<>>)

\* append(Buffer*): a list without extents is left alone.
AppendBuffer(b, o) ==
  /\ Careful => Settled(b) /\ Settled(o)
  /\ exts[o] # <<>>
  /\ Len(exts[b]) + Len(exts[o]) <= MaxExtents
  /\ exts' = [exts EXCEPT ![b] = SplicedBack(@, exts[o]), ![o] = <<>>]
  /\ size' = [size EXCEPT ![b] = @ + size[o], ![o] = 0]
  /\ last' = Made("appendBuffer", b, o, <<>>)
  /\ UNCHANGED used

\* prepend(Buffer*)
PrependBuffer(b, o) ==
  /\ Careful => Settled(b) /\ Settled(o)
  /\ exts[o] # <<>>
  /\ Len(exts[b]) + Len(exts[o]) <= MaxExtents
  /\ exts' = [exts EXCEPT ![b] = SplicedFront(@, exts[o]), ![o] = <<>>]
  /\ size' = [size EXCEPT ![b] = @ + size[o], ![o] = 0]
  /\ last' = Made("prependBuffer", b, o, <<>>)
  /\ UNCHANGED used

\* read(buf, size, nread)
Read(b, n) ==
  /\ Careful => Settled(b) /\ SimpleRead(b, n)
  /\ LET r == ReadOut(exts[b], n)
     IN /\ exts' = [exts EXCEPT ![b] = r.kept]
        /\ size' = [size EXCEPT ![b] = Sub(@, Len(r.bytes))]
        /\ last' = Made("read", b, n, r.bytes)
  /\ UNCHANGED used

\* peek(buf, size, nread): the same loop without consuming.
Peek(b, n) ==
  /\ Careful => Settled(b) /\ SimpleRead(b, n)
  /\ last' = Made("peek", b, n, ReadOut(exts[b], n).bytes)
  /\ UNCHANGED <<exts, size, used>>

\* drain(count); the destructor is drain(max).
Drain(b, n) ==
  /\ Careful => Settled(b)
  /\ exts' = [exts EXCEPT ![b] = Drained(@, n).kept]
  /\ size' = [size EXCEPT ![b] = Sub(@, DrainedCount(exts[b], n))]
  /\ last' = Made("drain", b, n, <<>>)
  /\ UNCHANGED used

\* reserve(size) and reserve(size, extents), which change the list alike.
Reserve(b, n) ==
  /\ Careful => Settled(b)
  /\ Len(exts[b]) < MaxExtents
  /\ LET r == Required(exts[b], n)
     IN /\ r > 0 /\ r < SizeMod \div 2
        /\ exts' = [exts EXCEPT ![b] = Append(@, NewExtent(r))]
  /\ last' = Made("reserve", b, n, <<>>)
  /\ UNCHANGED <<size, used>>

Next ==
  \/ \E b \in Buffers, k \in 0..MaxChunk :
       AppendBytes(b, k) \/ PrependBytes(b, k) \/ Reserve(b, k)
  \/ \E b \in Buffers, n \in 0..MaxChunk \cup {SizeMax} :
       Read(b, n) \/ Peek(b, n) \/ Drain(b, n)
  \/ \E b \in Buffers : \E o \in Buffers \ {b} :
       AppendBuffer(b, o) \/ PrependBuffer(b, o)

Spec == Init /\ [][Next]_vars

-----------------------------------------------------------------------------
(* Properties *)

\* The bytes callers have put into the extents and not consumed.
Written(e) == SubSeq(e.data, e.ro + 1, e.wo)
Bytes(list) == FlattenSeq([k \in DOMAIN list |-> Written(list[k])])
Content(b) == Bytes(exts[b])

\* The offsets of every extent stay within it and in order: what
\* InternalExtent asserts in its comments (buffer.cc:44, 70).
TypeOK ==
  /\ \A b \in Buffers : \A k \in DOMAIN exts[b] :
       LET e == exts[b][k]
       IN /\ e.ro \in 0..e.wo /\ e.wo \in 0..e.size
          /\ e.data \in [1..e.size -> 0..MaxBytes]
  /\ size \in [Buffers -> 0..MaxBytes]
  /\ last # <<>> => last.bytes \in Seq(1..MaxBytes)
  /\ used \in 0..MaxBytes

\* size_ is kept beside the extents by every method on its own; it is always
\* the number of bytes the extents hold, so size() and empty() can be trusted.
SizeAgrees == \A b \in Buffers : size[b] = Len(Content(b))

\* peek(size, extents), which the stream's writeHelper hands to write(2),
\* returns exactly the first bytes of the content, for every size.
PeekAgrees ==
  \A b \in Buffers : Settled(b) =>
    \A n \in 0..MaxBytes :
      PeekExtents(exts[b], n) = SubSeq(Content(b), 1, Lesser(n, Len(Content(b))))

\* What careful callers rely on.  Only the last extent can be a reservation,
\* and then nothing was put into it or taken out of it.
Byte == 0..MaxBytes

Extent == {e \in [size : 0..MaxChunk, data : Seq(Byte), ro : Nat, wo : Nat] :
             Len(e.data) = e.size /\ e.ro <= e.wo /\ e.wo <= e.size}

Full == {e \in Extent : e.wo = e.size}

Orderly(list) ==
  \A k \in DOMAIN list :
    list[k] \in Full \/ (k = Len(list) /\ list[k].ro = 0 /\ list[k].wo = 0)

ListsInv ==
  /\ exts \in [Buffers -> Seq(Extent)]
  /\ \A b \in Buffers : Orderly(exts[b])

\* No byte is in two places: so there are never more than were handed in,
\* and size_ does not wrap.
BytesInv ==
  /\ \A b \in Buffers : \A i \in DOMAIN Content(b) : Content(b)[i] \in 1..used
  /\ \A b, c \in Buffers : \A i \in DOMAIN Content(b), j \in DOMAIN Content(c) :
       Content(b)[i] = Content(c)[j] => b = c /\ i = j

Inv ==
  /\ ListsInv /\ BytesInv
  /\ size \in [Buffers -> Nat] /\ SizeAgrees
  /\ used \in 0..MaxBytes
  /\ last # <<>> => last.bytes \in Seq(1..MaxBytes)

Promise == INSTANCE ByteQueue WITH
             content <- [b \in Buffers |-> Content(b)],
             Sizes <- 0..MaxChunk \cup {SizeMax}

\* Every method does to the bytes what ByteQueue says, wherever they lie.
ImplementsByteQueue == Promise!ByteQueueSpec
=============================================================================
